------------------------------ MODULE StreamBus ------------------------------
(***************************************************************************)
(* robofleet/events/stream_bus.py: the event bus on one Redis stream and   *)
(* its consumer group.  Two coroutines of one process deliver: _listen_loop*)
(* reads new entries, _reclaim_loop claims entries left pending.  Both run *)
(* _handle_message, which runs every handler behind a SET NX marker and    *)
(* acknowledges the entry when none failed.                                *)
(*                                                                         *)
(* An entry is known by its place in the stream: 1 is the first published. *)
(* Enabled switches on what the code tries to survive beside failing       *)
(* handlers and orderly shutdowns:                                         *)
(*   "kill"       the process dies (no finally or except clause runs);     *)
(*   "slow"       an entry is in hand for longer than the idle time;       *)
(*   "redis_down" a Redis command fails;                                   *)
(*   "expiry"     a marker outlives its TTL;                               *)
(*   "cancelled"  a handler ends in a CancelledError of its own.           *)
(***************************************************************************)
EXTENDS Integers, FiniteSets

CONSTANTS
  Handlers,         \* the handlers subscribed to the events of the stream
  Undecodable,      \* the entries Event.from_json refuses
  BatchSize,        \* XREADGROUP count (10)
  ReclaimCount,     \* XPENDING count (100)
  MaxStreamLength,  \* MAX_STREAM_LENGTH (10000)
  Enabled,
  MaxEvents,        \* bound on the entries published
  MaxRestarts       \* bound on the restarts of the process

ASSUME HandlersAssumption == IsFiniteSet(Handlers) /\ Handlers # {}

ASSUME SizesAssumption ==
  /\ {BatchSize, ReclaimCount, MaxStreamLength} \subseteq Nat \ {0}
  /\ {MaxEvents, MaxRestarts} \subseteq Nat
  /\ Undecodable \subseteq Nat

ASSUME EnabledAssumption ==
  Enabled \subseteq {"kill", "slow", "redis_down", "expiry", "cancelled"}

VARIABLES
  published,  \* the last entry published
  oldest,     \* the first entry not trimmed
  delivered,  \* the group's last-delivered id
  pending,    \* delivered and not acknowledged
  idle,       \* the pending entries untouched for the idle time
  acked,
  parked,     \* entries copied to the dead-letter stream
  marks,      \* the bus:processed:{event}:{handler} keys
  done,       \* history: the handlers that returned, for each entry
  lapsed,     \* history: the markers that could not be kept
  up,         \* the loops that run
  queue,      \* what a loop has read and has yet to take in hand
  hand,       \* the entry a loop handles, 0 for none
  step,       \* how far a loop is with it
  phase,      \* how far each handler is with it
  restarts

log == <<published, oldest, delivered>>
group == <<pending, idle, acked, parked>>
guard == <<marks, done, lapsed>>
loops == <<up, queue, hand, step, phase, restarts>>
vars == <<log, group, guard, loops>>

Loops == {"listen", "reclaim"}
Untouched == [h \in Handlers |-> "todo"]
Running == {"running", "unguarded"}
Ended == {"ok", "skipped", "failed", "cancelled"}

Init ==
  /\ published = 0 /\ oldest = 1 /\ delivered = 0
  /\ pending = {} /\ idle = {} /\ acked = {} /\ parked = {}
  /\ marks = {} /\ done = {} /\ lapsed = {}
  /\ up = [l \in Loops |-> TRUE]
  /\ queue = [l \in Loops |-> {}]
  /\ hand = [l \in Loops |-> 0]
  /\ step = [l \in Loops |-> "next"]
  /\ phase = [l \in Loops |-> Untouched]
  /\ restarts = 0

----------------------------------------------------------------------------
(* The stream and the passing of time *)

\* publish: XADD with MAXLEN ~, which may trim down to MaxStreamLength.
Publish ==
  /\ published < MaxEvents
  /\ published' = published + 1
  /\ \E o \in oldest..(published + 1) :
       /\ o = oldest \/ published' - o + 1 >= MaxStreamLength
       /\ oldest' = o
  /\ UNCHANGED <<delivered, group, guard, loops>>

InHand(e) == e \in queue["listen"] \/ \E l \in Loops : hand[l] = e

\* The idle time of a pending entry passes; unless "slow" is on, not while
\* it is being handled or waits in the listener's batch.
Age(e) ==
  /\ e \in pending \ idle
  /\ InHand(e) => "slow" \in Enabled
  /\ idle' = idle \cup {e}
  /\ UNCHANGED <<log, pending, acked, parked, guard, loops>>

\* A marker reaches its TTL.
Expire(e, h) ==
  /\ "expiry" \in Enabled
  /\ <<e, h>> \in marks
  /\ marks' = marks \ {<<e, h>>}
  /\ lapsed' = lapsed \cup {<<e, h>>}
  /\ UNCHANGED <<log, group, done, loops>>

----------------------------------------------------------------------------
(* Reading: what the loops take from the group *)

Free(l) == up[l] /\ hand[l] = 0

FirstNew == IF oldest > delivered THEN oldest ELSE delivered + 1

\* The last of the first BatchSize new entries.
LastNew ==
  IF published < FirstNew + BatchSize THEN published ELSE FirstNew + BatchSize - 1

\* A fault: the group moves past entries the batch has no room for.
PollToEnd ==
  /\ Free("listen") /\ queue["listen"] = {}
  /\ FirstNew <= published
  /\ delivered' = published
  /\ pending' = pending \cup FirstNew..LastNew
  /\ queue' = [queue EXCEPT !["listen"] = FirstNew..LastNew]
  /\ UNCHANGED <<published, oldest, idle, acked, parked, guard,
                 up, hand, step, phase, restarts>>

\* _listen_tick: XREADGROUP ">" makes a batch pending and hands it over.
Poll ==
  /\ Free("listen") /\ queue["listen"] = {}
  /\ FirstNew <= published
  /\ delivered' = LastNew
  /\ pending' = pending \cup FirstNew..LastNew
  /\ queue' = [queue EXCEPT !["listen"] = FirstNew..LastNew]
  /\ UNCHANGED <<published, oldest, idle, acked, parked, guard,
                 up, hand, step, phase, restarts>>

\* XPENDING - + ReclaimCount: the oldest pending entries.
Window == {e \in pending : Cardinality({d \in pending : d < e}) < ReclaimCount}

\* A fault: the pass claims nothing.
NoPass ==
  /\ Free("reclaim") /\ queue["reclaim"] = {}
  /\ Window \cap idle # {}
  /\ UNCHANGED vars

\* _recover_stream: the idle ones among them are to be claimed.
ReclaimPass ==
  /\ Free("reclaim") /\ queue["reclaim"] = {}
  /\ Window \cap idle # {}
  /\ queue' = [queue EXCEPT !["reclaim"] = Window \cap idle]
  /\ UNCHANGED <<log, group, guard, up, hand, step, phase, restarts>>

IsNext(l, e) == e \in queue[l] /\ \A d \in queue[l] : e <= d

\* _handle_message begins; an entry nobody can decode is parked instead.
TakeInHand(l, e) ==
  /\ queue' = [queue EXCEPT ![l] = @ \ {e}]
  /\ hand' = [hand EXCEPT ![l] = e]
  /\ step' = [step EXCEPT ![l] = IF e \in Undecodable THEN "park" ELSE "run"]
  /\ UNCHANGED <<up, phase, restarts>>

TakeNew(e) ==
  /\ Free("listen") /\ IsNext("listen", e)
  /\ TakeInHand("listen", e)
  /\ UNCHANGED <<log, group, guard>>

\* _claim_and_handle: XCLAIM succeeds for an entry that is still idle.
Claim(e) ==
  /\ Free("reclaim") /\ IsNext("reclaim", e)
  /\ e \in idle /\ oldest <= e
  /\ idle' = idle \ {e}
  /\ TakeInHand("reclaim", e)
  /\ UNCHANGED <<log, pending, acked, parked, guard>>

\* XCLAIM returns nothing; Redis drops a trimmed entry from the group.
ClaimNothing(e) ==
  /\ Free("reclaim") /\ IsNext("reclaim", e)
  /\ e \notin idle \/ e < oldest
  /\ queue' = [queue EXCEPT !["reclaim"] = @ \ {e}]
  /\ pending' = IF e < oldest THEN pending \ {e} ELSE pending
  /\ idle' = IF e < oldest THEN idle \ {e} ELSE idle
  /\ UNCHANGED <<log, acked, parked, guard, up, hand, step, phase, restarts>>

\* A Redis error ends the pass: the rest of the batch is left pending.
GiveUpPass(l) ==
  /\ "redis_down" \in Enabled
  /\ up[l]
  /\ \/ l = "reclaim" /\ hand[l] = 0 /\ queue[l] # {}
     \/ step[l] = "ack"
  /\ queue' = [queue EXCEPT ![l] = {}]
  /\ hand' = [hand EXCEPT ![l] = 0]
  /\ step' = [step EXCEPT ![l] = "next"]
  /\ UNCHANGED <<log, group, guard, up, phase, restarts>>

----------------------------------------------------------------------------
(* Handling: _handle_message, _dispatch_event, _run_handler_guarded *)

\* _dead_letter is best effort.
Park(l) ==
  /\ up[l] /\ step[l] = "park"
  /\ \/ parked' = parked \cup {hand[l]}
     \/ "redis_down" \in Enabled /\ parked' = parked
  /\ step' = [step EXCEPT ![l] = "ack"]
  /\ UNCHANGED <<log, pending, idle, acked, guard, up, queue, hand, phase, restarts>>

\* A fault: what is acknowledged can still be claimed.
StillIdle(e) ==
  /\ pending' = pending \ {e}
  /\ acked' = acked \cup {e}
  /\ UNCHANGED <<idle, parked>>

Acknowledged(e) ==
  /\ pending' = pending \ {e}
  /\ idle' = idle \ {e}
  /\ acked' = acked \cup {e}
  /\ UNCHANGED parked

\* The loop is done with its entry.
PutDown(l) ==
  /\ hand' = [hand EXCEPT ![l] = 0]
  /\ step' = [step EXCEPT ![l] = "next"]
  /\ phase' = [phase EXCEPT ![l] = Untouched]
  /\ UNCHANGED <<up, queue, restarts>>

AckParked(l) ==
  /\ up[l] /\ step[l] = "ack"
  /\ Acknowledged(hand[l])
  /\ PutDown(l)
  /\ UNCHANGED <<log, guard>>

InPhase(l, h, s) == up[l] /\ step[l] = "run" /\ phase[l][h] = s

MoveTo(l, h, s) ==
  /\ phase' = [phase EXCEPT ![l][h] = s]
  /\ UNCHANGED <<log, group, up, queue, hand, step, restarts>>

\* A fault: the handler is called whatever SET NX answers.
StartAnyway(l, h) ==
  /\ InPhase(l, h, "todo")
  /\ marks' = marks \cup {<<hand[l], h>>}
  /\ MoveTo(l, h, "running")
  /\ UNCHANGED <<done, lapsed>>

\* SET NX creates the marker, and the handler is called.
StartHandler(l, h) ==
  /\ InPhase(l, h, "todo")
  /\ <<hand[l], h>> \notin marks
  /\ marks' = marks \cup {<<hand[l], h>>}
  /\ MoveTo(l, h, "running")
  /\ UNCHANGED <<done, lapsed>>

\* SET NX finds the marker: "already processed".
SkipHandler(l, h) ==
  /\ InPhase(l, h, "todo")
  /\ <<hand[l], h>> \in marks
  /\ MoveTo(l, h, "skipped")
  /\ UNCHANGED guard

\* The guard fails open: the handler is called without a marker.
StartUnguarded(l, h) ==
  /\ "redis_down" \in Enabled
  /\ InPhase(l, h, "todo")
  /\ lapsed' = lapsed \cup {<<hand[l], h>>}
  /\ MoveTo(l, h, "unguarded")
  /\ UNCHANGED <<marks, done>>

HandlerReturns(l, h) ==
  /\ \E s \in Running : InPhase(l, h, s)
  /\ done' = done \cup {<<hand[l], h>>}
  /\ MoveTo(l, h, "ok")
  /\ UNCHANGED <<marks, lapsed>>

\* A fault: the marker of a handler that raised is kept.
StillMarked(l, h) == marks

\* The handler ends in an exception; a guarded one gives its marker back.
Unmarked(l, h) ==
  IF phase[l][h] = "running" THEN marks \ {<<hand[l], h>>} ELSE marks

HandlerRaises(l, h) ==
  /\ \E s \in Running : InPhase(l, h, s)
  /\ \/ marks' = Unmarked(l, h)
     \/ "redis_down" \in Enabled /\ marks' = marks
  /\ MoveTo(l, h, "failed")
  /\ UNCHANGED <<done, lapsed>>

\* CancelledError is no Exception: _check_handler_results counts a success.
HandlerCancelled(l, h) ==
  /\ "cancelled" \in Enabled
  /\ \E s \in Running : InPhase(l, h, s)
  /\ marks' = Unmarked(l, h)
  /\ MoveTo(l, h, "cancelled")
  /\ UNCHANGED <<done, lapsed>>

Gathered(l) == up[l] /\ step[l] = "run" /\ \A h \in Handlers : phase[l][h] \in Ended

\* A fault: one handler's success acknowledges the entry.
SomeSucceeded(l) == \E h \in Handlers : phase[l][h] # "failed"

AllSucceeded(l) == \A h \in Handlers : phase[l][h] # "failed"

AckHandled(l) ==
  /\ Gathered(l) /\ AllSucceeded(l)
  /\ Acknowledged(hand[l])
  /\ PutDown(l)
  /\ UNCHANGED <<log, guard>>

\* A handler failed, or XACK did: the entry stays pending.
LeavePending(l) ==
  /\ Gathered(l)
  /\ AllSucceeded(l) => "redis_down" \in Enabled
  /\ PutDown(l)
  /\ UNCHANGED <<log, group, guard>>

----------------------------------------------------------------------------
(* Shutdown, death and restart of the process *)

\* disconnect cancels the listener, then the reclaimer; every handler that
\* runs is cancelled and gives its marker back.
StopLoop(l) ==
  /\ up[l] /\ restarts < MaxRestarts
  /\ l = "reclaim" => ~up["listen"]
  /\ up' = [up EXCEPT ![l] = FALSE]
  /\ queue' = [queue EXCEPT ![l] = {}]
  /\ hand' = [hand EXCEPT ![l] = 0]
  /\ step' = [step EXCEPT ![l] = "next"]
  /\ phase' = [phase EXCEPT ![l] = Untouched]
  /\ \/ marks' = marks \ {<<hand[l], h>> : h \in {k \in Handlers : phase[l][k] = "running"}}
     \/ "redis_down" \in Enabled /\ marks' = marks
  /\ UNCHANGED <<log, group, done, lapsed, restarts>>

Kill ==
  /\ "kill" \in Enabled
  /\ restarts < MaxRestarts
  /\ up' = [l \in Loops |-> FALSE]
  /\ queue' = [l \in Loops |-> {}]
  /\ hand' = [l \in Loops |-> 0]
  /\ step' = [l \in Loops |-> "next"]
  /\ phase' = [l \in Loops |-> Untouched]
  /\ UNCHANGED <<log, group, guard, restarts>>

\* start_listening.  recover_pending at boot finds no handler registered and
\* so no stream; what is pending waits for _reclaim_loop.
Restart ==
  /\ \A l \in Loops : ~up[l]
  /\ up' = [l \in Loops |-> TRUE]
  /\ restarts' = restarts + 1
  /\ UNCHANGED <<log, group, guard, queue, hand, step, phase>>

----------------------------------------------------------------------------
HandlerStep(l, h) ==
  \/ StartHandler(l, h)
  \/ SkipHandler(l, h)
  \/ StartUnguarded(l, h)
  \/ HandlerReturns(l, h)
  \/ HandlerRaises(l, h)
  \/ HandlerCancelled(l, h)

Entries == 1..published

LoopStep(l) ==
  \/ GiveUpPass(l)
  \/ Park(l)
  \/ AckParked(l)
  \/ AckHandled(l)
  \/ LeavePending(l)
  \/ StopLoop(l)
  \/ \E h \in Handlers : HandlerStep(l, h)

EntryStep(e) ==
  \/ Age(e)
  \/ TakeNew(e)
  \/ Claim(e)
  \/ ClaimNothing(e)
  \/ \E h \in Handlers : Expire(e, h)

Next ==
  \/ Publish
  \/ Poll
  \/ ReclaimPass
  \/ Kill
  \/ Restart
  \/ \E l \in Loops : LoopStep(l)
  \/ \E e \in Entries : EntryStep(e)

Spec == Init /\ [][Next]_vars

(* The coroutines are run by the event loop and the process is started     *)
(* again (restart: unless-stopped); time passes; and a handler that is     *)
(* called again and again for an entry does not raise every time.          *)
Work(l) ==
  \/ Park(l)
  \/ AckParked(l)
  \/ AckHandled(l)
  \/ LeavePending(l)
  \/ \E h \in Handlers : HandlerStep(l, h)

Fairness ==
  /\ WF_vars(Poll) /\ WF_vars(ReclaimPass)
  /\ WF_vars(\E e \in Entries : TakeNew(e))
  /\ WF_vars(\E e \in Entries : Claim(e) \/ ClaimNothing(e))
  /\ \A l \in Loops : WF_vars(Work(l))
  /\ \A e \in 1..MaxEvents :
       /\ WF_vars(Age(e))
       /\ \A h \in Handlers :
            SF_vars(\E l \in Loops : hand[l] = e /\ HandlerReturns(l, h))
  /\ WF_vars(StopLoop("reclaim")) /\ WF_vars(Restart)

FairSpec == Spec /\ Fairness

----------------------------------------------------------------------------
(* Type invariant.                                                         *)
TypeOK ==
  /\ published \in Nat /\ delivered \in 0..published /\ oldest \in 1..(published + 1)
  /\ idle \subseteq pending /\ pending \subseteq 1..delivered
  /\ acked \subseteq 1..delivered /\ parked \subseteq Undecodable
  /\ marks \subseteq Entries \X Handlers
  /\ done \subseteq Entries \X Handlers
  /\ lapsed \subseteq Entries \X Handlers
  /\ up \in [Loops -> BOOLEAN]
  /\ queue \in [Loops -> SUBSET (1..delivered)]
  /\ hand \in [Loops -> 0..delivered]
  /\ step \in [Loops -> {"next", "park", "ack", "run"}]
  /\ phase \in [Loops -> [Handlers -> {"todo"} \cup Running \cup Ended]]
  /\ restarts \in Nat

(* An acknowledged entry, which no loop will ever look at again, has been  *)
(* handled by every handler, or is parked where an operator finds it       *)
(* (_handle_message: "ACK the message if all handlers succeeded";          *)
(* _dead_letter: "instead of losing it to a silent ACK").                  *)
AckedIsHandled ==
  \A e \in acked : e \in parked \/ \A h \in Handlers : <<e, h>> \in done

(* The two loops never have one handler at work on one entry at once, as   *)
(* long as Redis keeps the marker (_run_handler_guarded).                  *)
RunsAlone ==
  \A h \in Handlers :
    /\ hand["listen"] = hand["reclaim"]
    /\ \A l \in Loops : step[l] = "run" /\ phase[l][h] \in Running
    => <<hand["listen"], h>> \in lapsed

(* No entry falls out of the bus unacknowledged: what is published is      *)
(* still to be delivered, or pending, or acknowledged, or was trimmed.     *)
NothingForgotten ==
  \A e \in Entries : e > delivered \/ e \in pending \cup acked \/ e < oldest

(* A handler that succeeded for an entry is not called for it again, as    *)
(* long as Redis keeps the marker ("already-succeeded handlers are         *)
(* skipped, failed ones re-run", _reclaim_loop).                           *)
HandledOnce ==
  [][\A l \in Loops, h \in Handlers :
       phase[l][h] = "todo" /\ phase'[l][h] = "running" =>
         <<hand[l], h>> \notin done \ lapsed]_vars

Delivery == INSTANCE AtLeastOnce WITH handled <- done, settled <- acked

(* The bus keeps its docstring's promise of at-least-once delivery.        *)
DeliversAtLeastOnce == Delivery!Spec

(* Every published entry is acknowledged in the end, unless the stream     *)
(* overflows first (_reclaim_loop: a failure "is retried without waiting   *)
(* for an orchestrator restart").                                          *)
EventuallyAcked ==
  \A e \in 1..MaxEvents : e \in Entries ~> (e \in acked \/ e < oldest)

----------------------------------------------------------------------------
(* Inductive invariants.                                                   *)

HandsKnown ==
  \A l \in Loops :
    /\ step[l] = "next" <=> hand[l] = 0
    /\ step[l] \in {"park", "ack"} => hand[l] \in Undecodable
    /\ step[l] # "run" => phase[l] = Untouched

(* On every path: a marker stands, or is known to have lapsed, from the    *)
(* moment its handler is called until it raises (_run_handler_guarded).    *)
GuardInv ==
  /\ HandsKnown
  /\ RunsAlone
  /\ done \subseteq marks \cup lapsed
  /\ \A l \in Loops, h \in Handlers :
       /\ phase[l][h] \in Running => <<hand[l], h>> \in (marks \ done) \cup lapsed
       /\ phase[l][h] = "unguarded" => <<hand[l], h>> \in lapsed

(* With "expiry" at most: no entry is in two hands, and a marker means that *)
(* the handler has returned or is at work (_claim_and_handle claims only   *)
(* what is idle).                                                          *)
OwnEntry ==
  /\ \A e \in idle : ~InHand(e)
  /\ hand["reclaim"] # 0 => hand["reclaim"] # hand["listen"]
  /\ \A l \in Loops : hand[l] \notin queue["listen"]

Known ==
  /\ \A l \in Loops :
       /\ step[l] = "ack" => hand[l] \in parked
       /\ \A h \in Handlers :
            /\ phase[l][h] \notin {"unguarded", "cancelled"}
            /\ phase[l][h] \in {"ok", "skipped"} => <<hand[l], h>> \in done
  /\ \A m \in marks \ done :
       \E l \in Loops : m[1] = hand[l] /\ phase[l][m[2]] = "running"

BaseInv == HandsKnown /\ OwnEntry /\ AckedIsHandled /\ Known
=============================================================================
