---------------------------- MODULE ClaimSessions ----------------------------
(***************************************************************************)
(* Requests that claim and hand over tasks at the same time, each in a     *)
(* database session of its own.                                            *)
(*                                                                         *)
(* A session reads a row once: what it fetched first is what it goes on    *)
(* reading (the identity map; no query asks for populate_existing and      *)
(* sessions do not expire on commit), even after SELECT ... FOR UPDATE     *)
(* made it wait for another session's commit.  A flush writes the columns  *)
(* that differ from what was fetched, and no other.  What serialises calls *)
(* is the row lock, held from the write to the commit, and the advisory    *)
(* lock of the agent who claims, held to the end of the request.  Pull     *)
(* requests are left out (see MidVerbCommits).                             *)
(***************************************************************************)
EXTENDS Naturals

CONSTANTS
  Tasks,    \* leaf tasks
  Devs, QAs,
  Calls,    \* requests in flight: each runs one verb after another
  Nobody    \* a NULL agent column, a key not held

ASSUME AgentsAssumption == Devs \cap QAs = {} /\ Nobody \notin Devs \cup QAs

AgentOrNone == Devs \cup QAs \cup {Nobody}

Statuses == {"pending", "claimed", "in_progress", "awaiting_qa"}

Row == [status: Statuses, assigned: AgentOrNone, claimant: AgentOrNone]

VARIABLES
  row,         \* the committed rows
  call,        \* the requests
  unguarded    \* history: agents left with a task in progress by a request
               \* that did not hold their key

vars == <<row, call, unguarded>>

NewRow(a) == [status |-> "pending", assigned |-> a, claimant |-> Nobody]

Verbs == {"i_will_work_on", "resume", "claim_on_behalf", "i_am_done", "unclaim",
          "reap", "claim_review"}

Steps == {"idle", "keyless", "checking", "ready"}

Idle == [at |-> "idle", verb |-> "reap", agent |-> Nobody, on |-> Nobody,
         key |-> Nobody, seen |-> NewRow(Nobody)]

Init ==
  /\ row \in [Tasks -> {NewRow(a) : a \in Devs \cup {Nobody}}]
  /\ call = [c \in Calls |-> Idle]
  /\ unguarded = {}

----------------------------------------------------------------------------
(* What a verb asks of the row it fetched.  Its later checks read the same *)
(* fetched attributes and so add nothing.                                  *)
Gate(verb, a, r) ==
  CASE verb = "i_will_work_on" ->
         a \in Devs /\ r.status = "pending" /\ r.assigned \in {Nobody, a}
    [] verb = "resume" -> a \in Devs /\ r.status = "claimed" /\ r.assigned = a
    [] verb = "claim_on_behalf" ->
         a \in Devs /\ r.status \in {"pending", "claimed"}
    [] verb = "i_am_done" ->
         a \in Devs /\ r.status = "in_progress" /\ r.assigned = a
    [] verb = "unclaim" ->
         a \in Devs /\ r.assigned = a /\ r.status \in {"claimed", "in_progress"}
    [] verb = "reap" -> a = Nobody /\ r.status \in {"claimed", "in_progress"}
    [] OTHER -> a \in QAs /\ r.status = "awaiting_qa" /\ r.claimant = Nobody

(* The write of a flush: the columns of new that are not as fetched.       *)
Flushed(db, seen, new) ==
  [f \in DOMAIN db |-> IF new[f] # seen[f] THEN new[f] ELSE db[f]]

(* _finalize_claim.                                                        *)
Claimed(r, a) == [r EXCEPT !.assigned = a, !.claimant = a, !.status = "claimed"]

(* claim() refreshes the row after its flush, and start() looks again at   *)
(* status and assignee: refused, it leaves the claim as it is.             *)
ClaimedAndStarted(db, seen, a) ==
  LET refreshed == Flushed(db, seen, Claimed(seen, a))
  IN IF refreshed.assigned = a /\ refreshed.status = "claimed"
     THEN [refreshed EXCEPT !.status = "in_progress"]
     ELSE refreshed

ReapedOwner(r) == IF r.assigned # Nobody THEN r.assigned ELSE r.claimant

(* What the verb commits, given the row in the database and the one seen.  *)
Written(verb, a, seen, db) ==
  CASE verb = "i_will_work_on" -> ClaimedAndStarted(db, seen, a)
    [] verb = "resume" -> Flushed(db, seen, [seen EXCEPT !.status = "in_progress"])
    [] verb = "claim_on_behalf" -> Flushed(db, seen, Claimed(seen, a))
    [] verb = "i_am_done" ->
         Flushed(db, seen, [seen EXCEPT !.status = "awaiting_qa",
                                        !.assigned = Nobody, !.claimant = Nobody])
    [] verb = "unclaim" ->
         Flushed(db, seen, [seen EXCEPT !.status = "pending",
                                        !.assigned = Nobody, !.claimant = Nobody])
    [] verb = "reap" ->
         Flushed(db, seen, [seen EXCEPT !.status = "pending", !.claimant = Nobody,
                                        !.assigned = ReapedOwner(seen)])
    [] OTHER -> Flushed(db, seen, [seen EXCEPT !.assigned = a, !.claimant = a])

----------------------------------------------------------------------------
(* The requests.                                                           *)

KeyFree(k) == \A c \in Calls : call[c].key # k

End(c) == call' = [call EXCEPT ![c] = Idle]
GoTo(c, step) == call' = [call EXCEPT ![c].at = step]

Started(c, verb, a, on, seen, step) ==
  /\ call[c].at = "idle"
  /\ call' = [call EXCEPT ![c] = [at |-> step, verb |-> verb, agent |-> a, on |-> on,
                                  key |-> Nobody, seen |-> seen]]
  /\ UNCHANGED <<row, unguarded>>

(* A verb that fetches first.  The fresh developer claim goes on to take   *)
(* the agent's key; a resumption and a review claim run the same guards    *)
(* without it; the rest have no look at other tasks.                       *)
FirstStep(verb) ==
  IF verb = "i_will_work_on" THEN "keyless"
  ELSE IF verb \in {"resume", "claim_review"} THEN "checking" ELSE "ready"

Fetch(c, verb, a, t) ==
  /\ Gate(verb, a, row[t])
  /\ Started(c, verb, a, t, row[t], FirstStep(verb))

(* Fault: the lock is taken on the task, as open_pr's is.                  *)
TakeKeyOfTask(c) ==
  /\ call[c].at = "keyless"
  /\ KeyFree(call[c].on)
  /\ call' = [call EXCEPT ![c].key = call[c].on, ![c].at = "checking"]
  /\ UNCHANGED <<row, unguarded>>

(* acquire_claim_lock, after the task is fetched and before the guards.    *)
TakeKey(c) ==
  /\ call[c].at = "keyless"
  /\ KeyFree(call[c].agent)
  /\ call' = [call EXCEPT ![c].key = call[c].agent, ![c].at = "checking"]
  /\ UNCHANGED <<row, unguarded>>

(* _run_claim_guards: a query, so it sees what is committed.               *)
BusyElsewhere(a, t) ==
  \E u \in Tasks \ {t} : row[u].assigned = a /\ row[u].status = "in_progress"

RunGuards(c) ==
  /\ call[c].at = "checking"
  /\ IF BusyElsewhere(call[c].agent, call[c].on) THEN End(c) ELSE GoTo(c, "ready")
  /\ UNCHANGED <<row, unguarded>>

(* The flush takes the row lock, waiting for it if need be, and the end of *)
(* the request commits and so releases row and key; what it does in        *)
(* between it reads from its own session.                                  *)
CommitRow(c) ==
  LET k == call[c]
      new == Written(k.verb, k.agent, k.seen, row[k.on])
  IN /\ k.at = "ready"
     /\ row' = [row EXCEPT ![k.on] = new]
     /\ unguarded' = IF k.key = Nobody /\ new.status = "in_progress"
                     THEN unguarded \cup {new.assigned} ELSE unguarded
     /\ End(c)

(* A request that is cancelled (FlowVerbTimeoutMiddleware), refused by     *)
(* lock_timeout or cut off: what it had not committed is gone.             *)
Cancel(c) ==
  /\ call[c].at # "idle"
  /\ End(c)
  /\ UNCHANGED <<row, unguarded>>

----------------------------------------------------------------------------
Begin(c) ==
  \E verb \in Verbs, a \in AgentOrNone, t \in Tasks : Fetch(c, verb, a, t)

Proceed(c) ==
  \/ TakeKey(c)
  \/ RunGuards(c)
  \/ CommitRow(c)

Next ==
  \E c \in Calls : Begin(c) \/ Proceed(c) \/ Cancel(c)

Spec == Init /\ [][Next]_vars

(* A request runs on unless it waits for a lock, and Postgres grants locks *)
(* in the order they were asked for: who waits is not passed over for ever.*)
FairSpec == Spec /\ \A c \in Calls : SF_vars(Proceed(c))

----------------------------------------------------------------------------
CallRecord == [at: Steps, verb: Verbs, agent: AgentOrNone,
               on: Tasks \cup {Nobody},
               key: Devs \cup {Nobody}, seen: Row]

(* Every column keeps to its values, whatever stale row was written back.  *)
TypeOK ==
  /\ row \in [Tasks -> Row]
  /\ call \in [Calls -> CallRecord]
  /\ unguarded \subseteq AgentOrNone
  /\ \A c \in Calls : call[c].at # "idle" => call[c].on \in Tasks

Active(d, t) == row[t].assigned = d /\ row[t].status = "in_progress"

(* "the one-task-per-agent invariant" of acquire_claim_lock: whatever is   *)
(* read stale and written over, a developer has two tasks in progress only *)
(* if a request that held no key of theirs left them with one: a           *)
(* resumption, or a claim on behalf that crossed another claim.            *)
OneActiveTask ==
  \A d \in Devs \ unguarded : \A t, u \in Tasks : Active(d, t) /\ Active(d, u) => t = u

(* No ring of requests that wait for one another's locks, and no lock that *)
(* outlives its request: every request comes to its end.                   *)
CallsEnd == \A c \in Calls : (call[c].at # "idle") ~> (call[c].at = "idle")

----------------------------------------------------------------------------
(* What the repository says of the program and the code does not do.       *)

(* "a second claimant sees the first's committed active_claimant_id and    *)
(* returns None instead of overwriting it" (_qa_or_doc_claim).             *)
ReviewClaimStands ==
  [][\A t \in Tasks :
       row[t].status = "awaiting_qa" /\ row[t].claimant \in QAs /\ row'[t].status = "awaiting_qa"
         => row'[t].claimant = row[t].claimant]_vars

=============================================================================
