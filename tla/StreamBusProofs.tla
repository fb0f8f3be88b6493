--------------------------- MODULE StreamBusProofs ---------------------------
(***************************************************************************)
(* Theorems about the event bus: for every stream, batch size, set of      *)
(* handlers and undecodable entries.                                       *)
(***************************************************************************)
EXTENDS StreamBus, TLAPS

USE DEF Loops

(* The bounds of a batch (XREADGROUP COUNT).                               *)
LEMMA BatchBounds ==
  ASSUME published \in Nat, delivered \in 0..published, oldest \in 1..(published + 1),
         FirstNew <= published
  PROVE  /\ LastNew \in 1..published
         /\ delivered < FirstNew
         /\ FirstNew \in 1..LastNew
BY SizesAssumption DEF FirstNew, LastNew

(* What a loop holds it has read: every action keeps to the types and to   *)
(* the order of _handle_message.                                           *)
LEMMA TypeStep == TypeOK /\ HandsKnown /\ [Next]_vars => TypeOK' /\ HandsKnown'
<1> SUFFICES ASSUME TypeOK, HandsKnown, [Next]_vars PROVE TypeOK' /\ HandsKnown'
  OBVIOUS
<1> USE DEF TypeOK, HandsKnown, Entries
<1>1. CASE Publish
  <2>1. Entries \subseteq Entries'
    BY <1>1 DEF Publish
  <2> QED BY <1>1, <2>1 DEF Publish, group, guard, loops
<1>2. CASE Poll
  <2>1. /\ LastNew \in 1..published /\ delivered < FirstNew /\ FirstNew \in 1..LastNew
        /\ delivered' = LastNew
    BY <1>2, BatchBounds DEF Poll
  <2>2. FirstNew..LastNew \subseteq 1..delivered' /\ 1..delivered \subseteq 1..delivered'
    BY <2>1
  <2>3. queue' \in [Loops -> SUBSET (1..delivered')]
    BY <1>2, <2>2 DEF Poll
  <2>4. hand' \in [Loops -> 0..delivered']
    BY <1>2, <2>1 DEF Poll
  <2> QED BY <1>2, <2>1, <2>2, <2>3, <2>4 DEF Poll, guard
<1>3. CASE ReclaimPass
  <2>1. Window \subseteq 1..delivered
    BY DEF Window
  <2>2. queue' \in [Loops -> SUBSET (1..delivered)]
    BY <1>3, <2>1 DEF ReclaimPass
  <2> QED BY <1>3, <2>2 DEF ReclaimPass, log, group, guard
<1>4. CASE Kill
  BY <1>4 DEF Kill, log, group, guard, Untouched
<1>5. CASE Restart
  BY <1>5 DEF Restart, log, group, guard
<1>6. ASSUME NEW l \in Loops, LoopStep(l) PROVE TypeOK' /\ HandsKnown'
  <2> USE DEF log, group, guard
  <2>1. CASE GiveUpPass(l)
    BY <2>1 DEF GiveUpPass
  <2>2. CASE Park(l)
    BY <2>2 DEF Park
  <2>3. CASE AckParked(l)
    <3>1. hand[l] \in 1..delivered
      BY <2>3 DEF AckParked
    <3>2. phase' \in [Loops -> [Handlers -> {"todo"} \cup Running \cup Ended]]
      BY <2>3 DEF AckParked, PutDown, Untouched
    <3>3. HandsKnown'
      BY <2>3 DEF AckParked, PutDown
    <3>4. /\ hand' \in [Loops -> 0..delivered]
          /\ step' \in [Loops -> {"next", "park", "ack", "run"}]
          /\ UNCHANGED <<log, guard, up, queue, restarts, parked>>
      BY <2>3 DEF AckParked, Acknowledged, PutDown
    <3>5. /\ idle' \subseteq pending' /\ pending' \subseteq 1..delivered
          /\ acked' \subseteq 1..delivered
      BY <2>3, <3>1 DEF AckParked, Acknowledged
    <3> QED BY <3>2, <3>3, <3>4, <3>5
  <2>4. CASE AckHandled(l)
    <3>1. hand[l] \in 1..delivered
      BY <2>4 DEF AckHandled, Gathered
    <3>2. phase' \in [Loops -> [Handlers -> {"todo"} \cup Running \cup Ended]]
      BY <2>4 DEF AckHandled, PutDown, Untouched
    <3>3. HandsKnown'
      BY <2>4 DEF AckHandled, PutDown
    <3>4. /\ hand' \in [Loops -> 0..delivered]
          /\ step' \in [Loops -> {"next", "park", "ack", "run"}]
          /\ UNCHANGED <<log, guard, up, queue, restarts, parked>>
      BY <2>4 DEF AckHandled, Acknowledged, PutDown
    <3>5. /\ idle' \subseteq pending' /\ pending' \subseteq 1..delivered
          /\ acked' \subseteq 1..delivered
      BY <2>4, <3>1 DEF AckHandled, Acknowledged
    <3> QED BY <3>2, <3>3, <3>4, <3>5
  <2>5. CASE LeavePending(l)
    BY <2>5 DEF LeavePending, PutDown, Untouched
  <2>6. CASE StopLoop(l)
    BY <2>6 DEF StopLoop, Untouched
  <2>7. ASSUME NEW h \in Handlers, HandlerStep(l, h) PROVE TypeOK' /\ HandsKnown'
    <3> DEFINE pair == <<hand[l], h>>
    <3>1. pair \in Entries \X Handlers /\ step[l] = "run"
      BY <2>7
      DEF HandlerStep, StartHandler, SkipHandler, StartUnguarded, HandlerReturns,
          HandlerRaises, HandlerCancelled, InPhase
    <3>2. PICK s \in {"todo"} \cup Running \cup Ended : MoveTo(l, h, s)
      BY <2>7
      DEF HandlerStep, StartHandler, SkipHandler, StartUnguarded, HandlerReturns,
          HandlerRaises, HandlerCancelled, Running, Ended
    <3>3. phase' \in [Loops -> [Handlers -> {"todo"} \cup Running \cup Ended]]
      BY <3>2 DEF MoveTo
    <3>4. /\ marks' \subseteq marks \cup {pair}
          /\ done' \subseteq done \cup {pair}
          /\ lapsed' \subseteq lapsed \cup {pair}
      BY <2>7
      DEF HandlerStep, StartHandler, SkipHandler, StartUnguarded, HandlerReturns,
          HandlerRaises, HandlerCancelled, Unmarked
    <3>5. HandsKnown'
      BY <3>1, <3>2 DEF MoveTo
    <3> QED BY <3>1, <3>2, <3>3, <3>4, <3>5 DEF MoveTo
  <2> QED BY <1>6, <2>1, <2>2, <2>3, <2>4, <2>5, <2>6, <2>7 DEF LoopStep
<1>7. ASSUME NEW e \in Entries, EntryStep(e) PROVE TypeOK' /\ HandsKnown'
  <2> USE DEF log, group, guard
  <2>1. CASE Age(e)
    BY <2>1 DEF Age, loops
  <2>2. CASE TakeNew(e)
    BY <2>2 DEF TakeNew, TakeInHand, IsNext, Free
  <2>3. CASE Claim(e)
    BY <2>3 DEF Claim, TakeInHand, IsNext, Free
  <2>4. CASE ClaimNothing(e)
    BY <2>4 DEF ClaimNothing
  <2>5. CASE \E h \in Handlers : Expire(e, h)
    BY <2>5 DEF Expire, loops
  <2> QED BY <1>7, <2>1, <2>2, <2>3, <2>4, <2>5 DEF EntryStep
<1>8. CASE UNCHANGED vars
  BY <1>8 DEF vars, log, group, guard, loops
<1> QED BY <1>1, <1>2, <1>3, <1>4, <1>5, <1>6, <1>7, <1>8 DEF Next

(* Every variable of the bus keeps to its values, on every path.           *)
THEOREM TypeCorrectness == Spec => []TypeOK
<1>1. Init => TypeOK /\ HandsKnown
  BY DEF Init, TypeOK, HandsKnown, Untouched
<1> QED BY <1>1, TypeStep, PTL DEF Spec

----------------------------------------------------------------------------
(* No path forgets an entry: what leaves the pending list is acknowledged, *)
(* or was trimmed (Poll, Claim, XACK).                                     *)
THEOREM NothingIsForgotten == Spec => []NothingForgotten
<1>1. Init => TypeOK /\ HandsKnown /\ NothingForgotten
  BY DEF Init, TypeOK, HandsKnown, Untouched, NothingForgotten, Entries
<1>2. TypeOK /\ NothingForgotten /\ [Next]_vars => NothingForgotten'
  <2> SUFFICES ASSUME TypeOK, NothingForgotten, [Next]_vars PROVE NothingForgotten'
    OBVIOUS
  <2> USE DEF NothingForgotten, Entries
  <2>1. CASE Publish
    BY <2>1 DEF Publish, group, TypeOK
  <2>2. CASE Poll
    <3>1. /\ LastNew \in 1..published /\ FirstNew \in 1..LastNew
          /\ delivered' = LastNew /\ pending' = pending \cup FirstNew..LastNew
          /\ UNCHANGED <<published, oldest, acked>>
      BY <2>2, BatchBounds DEF Poll, TypeOK
    <3> QED BY <3>1 DEF FirstNew, TypeOK
  <2>3. ASSUME NEW e, Acknowledged(e), UNCHANGED log PROVE NothingForgotten'
    BY <2>3 DEF Acknowledged, log
  <2>4. ASSUME NEW e, ClaimNothing(e) PROVE NothingForgotten'
    BY <2>4 DEF ClaimNothing, log
  <2>5. CASE UNCHANGED <<log, pending, acked>>
    BY <2>5 DEF log
  <2>6. ASSUME NEW l \in Loops, LoopStep(l) PROVE NothingForgotten'
    <3>1. \/ UNCHANGED <<log, pending, acked>>
          \/ Acknowledged(hand[l]) /\ UNCHANGED log
      BY <2>6
      DEF LoopStep, HandlerStep, GiveUpPass, Park, AckParked, AckHandled, LeavePending,
          StopLoop, StartHandler, SkipHandler, StartUnguarded, HandlerReturns,
          HandlerRaises, HandlerCancelled, MoveTo, group
    <3> QED BY <3>1, <2>3, <2>5
  <2>7. ASSUME NEW e \in Entries, EntryStep(e) PROVE NothingForgotten'
    <3>1. UNCHANGED <<log, pending, acked>> \/ ClaimNothing(e)
      BY <2>7 DEF EntryStep, Age, TakeNew, Claim, Expire, group
    <3> QED BY <3>1, <2>4, <2>5
  <2>8. CASE ReclaimPass \/ Kill \/ Restart \/ UNCHANGED vars
    BY <2>8, <2>5 DEF ReclaimPass, Kill, Restart, vars, group
  <2> QED BY <2>1, <2>2, <2>6, <2>7, <2>8 DEF Next
<1> QED BY <1>1, <1>2, TypeStep, PTL DEF Spec

----------------------------------------------------------------------------
(* What a loop does to its own entry leaves every other loop's hand alone. *)
LEMMA OneHandMoves ==
  ASSUME TypeOK, NEW l \in Loops, NEW h \in Handlers,
         NEW s \in {"todo"} \cup Running \cup Ended, MoveTo(l, h, s)
  PROVE  /\ UNCHANGED <<hand, step>>
         /\ phase'[l][h] = s
         /\ \A k \in Loops, g \in Handlers :
              k # l \/ g # h => phase'[k][g] = phase[k][g]
BY DEF MoveTo, TypeOK

(* The markers are right on every path (_run_handler_guarded).             *)
LEMMA GuardStep == TypeOK /\ GuardInv /\ [Next]_vars => GuardInv'
<1> SUFFICES ASSUME TypeOK, GuardInv, [Next]_vars PROVE GuardInv'
  OBVIOUS
<1>0. HandsKnown'
  BY TypeStep DEF GuardInv
<1> DEFINE Kept ==
      /\ RunsAlone
      /\ done \subseteq marks \cup lapsed
      /\ \A l \in Loops, h \in Handlers :
           /\ phase[l][h] \in Running => <<hand[l], h>> \in (marks \ done) \cup lapsed
           /\ phase[l][h] = "unguarded" => <<hand[l], h>> \in lapsed
<1>1. SUFFICES Kept'
  BY <1>0 DEF GuardInv
<1>2. CASE UNCHANGED <<guard, phase, hand, step>>
  BY <1>2 DEF GuardInv, RunsAlone, guard
<1>3. ASSUME NEW l \in Loops, UNCHANGED <<guard, phase>>, step[l] # "run",
             NEW e, hand' = [hand EXCEPT ![l] = e],
             \A k \in Loops : k # l => step'[k] = step[k]
      PROVE  Kept'
  <2>1. \A h \in Handlers : phase[l][h] = "todo"
    BY <1>3 DEF GuardInv, HandsKnown, Untouched
  <2>2. \A k \in Loops : k # l => hand'[k] = hand[k]
    BY <1>3 DEF TypeOK
  <2> QED BY <1>3, <2>1, <2>2 DEF GuardInv, RunsAlone, guard, Running
<1>4. ASSUME NEW l \in Loops, phase' = [phase EXCEPT ![l] = Untouched],
             NEW e, hand' = [hand EXCEPT ![l] = e], UNCHANGED <<done, lapsed>>,
             \A k \in Loops : k # l => step'[k] = step[k],
             \/ marks' = marks
             \/ marks' = marks \ {<<hand[l], h>> :
                                    h \in {k \in Handlers : phase[l][k] = "running"}}
      PROVE  Kept'
  <2>1. \A h \in Handlers : phase'[l][h] = "todo"
    BY <1>4 DEF TypeOK, Untouched
  <2>2. \A k \in Loops : k # l => hand'[k] = hand[k] /\ phase'[k] = phase[k]
    BY <1>4 DEF TypeOK
  <2>3. \A m \in marks \ marks' :
          \E h \in Handlers : m = <<hand[l], h>> /\ phase[l][h] = "running"
    BY <1>4
  <2>4. \A m \in marks \ marks' : m \notin done \ lapsed
    BY <2>3 DEF GuardInv, Running
  <2>5. ASSUME NEW k \in Loops, NEW h \in Handlers, phase'[k][h] \in Running
        PROVE  <<hand[k], h>> \in (marks' \ done) \cup lapsed
    <3>1. k # l /\ phase[k][h] \in Running
      BY <2>1, <2>2, <2>5 DEF Running
    <3>2. <<hand[k], h>> \in (marks \ done) \cup lapsed
      BY <3>1 DEF GuardInv
    <3>3. CASE <<hand[k], h>> \in marks \ marks'
      <4>1. hand[k] = hand[l] /\ phase[l][h] = "running"
        BY <2>3, <3>3
      <4>2. step[k] = "run" /\ step[l] = "run"
        BY <3>1, <4>1 DEF GuardInv, HandsKnown, Untouched, Running
      <4> QED BY <3>1, <4>1, <4>2 DEF GuardInv, RunsAlone, Running
    <3> QED BY <3>2, <3>3
  <2>6. (done \subseteq marks \cup lapsed)'
    BY <1>4, <2>4 DEF GuardInv
  <2>7. RunsAlone'
    BY <1>4, <2>1, <2>2 DEF RunsAlone, Running
  <2>8. ASSUME NEW k \in Loops, NEW h \in Handlers, phase'[k][h] = "unguarded"
        PROVE  <<hand'[k], h>> \in lapsed'
    BY <1>4, <2>1, <2>2, <2>8 DEF GuardInv
  <2>9. \A k \in Loops, h \in Handlers :
          phase'[k][h] \in Running => <<hand'[k], h>> \in (marks' \ done') \cup lapsed'
    BY <1>4, <2>1, <2>2, <2>5 DEF Running
  <2> QED BY <2>6, <2>7, <2>8, <2>9
<1>5. ASSUME NEW l \in Loops, NEW h \in Handlers, HandlerStep(l, h) PROVE Kept'
  <2> DEFINE pair == <<hand[l], h>>
  <2>1. step[l] = "run" /\ hand[l] # 0
    BY <1>5
    DEF HandlerStep, StartHandler, SkipHandler, StartUnguarded, HandlerReturns,
        HandlerRaises, HandlerCancelled, InPhase, GuardInv, HandsKnown
  <2>2. PICK s \in {"todo"} \cup Running \cup Ended : MoveTo(l, h, s)
    BY <1>5
    DEF HandlerStep, StartHandler, SkipHandler, StartUnguarded, HandlerReturns,
        HandlerRaises, HandlerCancelled, Running, Ended
  <2>3. /\ UNCHANGED <<hand, step>>
        /\ phase'[l][h] = s
        /\ \A k \in Loops, g \in Handlers : k # l \/ g # h => phase'[k][g] = phase[k][g]
    BY <2>2, OneHandMoves
  \* A handler at work on the same entry in the other loop.
  <2>4. \A k \in Loops :
          k # l /\ hand[k] = hand[l] /\ phase[k][h] \in Running =>
            step[k] = "run" /\ pair \in (marks \ done) \cup lapsed
    BY DEF GuardInv, HandsKnown, Untouched, Running
  <2>5. \A k \in Loops, g \in Handlers :
          (k # l \/ g # h) /\ phase[k][g] \in Running /\ <<hand[k], g>> = pair =>
            k # l /\ g = h /\ hand[k] = hand[l]
    OBVIOUS
  <2> HIDE DEF pair
  <2>6. \A k \in Loops, g \in Handlers :
          phase[k][g] \in Running => <<hand[k], g>> \in (marks \ done) \cup lapsed
    BY DEF GuardInv
  <2>7. phase[l][h] \in Running =>
          /\ pair \in (marks \ done) \cup lapsed
          /\ \A k \in Loops :
               k # l /\ hand[k] = hand[l] /\ phase[k][h] \in Running => pair \in lapsed
    BY <2>1, <2>4, <2>6 DEF GuardInv, RunsAlone, pair
  \* A handler is called.
  <2>8. CASE StartHandler(l, h) \/ StartUnguarded(l, h)
    <3>1. /\ marks \subseteq marks' /\ lapsed \subseteq lapsed' /\ done' = done
          /\ pair \in (marks' \ done) \cup lapsed'
          /\ phase'[l][h] = "unguarded" => pair \in lapsed'
          /\ pair \in (marks \ done) \cup lapsed => pair \in lapsed'
      BY <2>8, <2>3, OneHandMoves
      DEF StartHandler, StartUnguarded, GuardInv, pair, Running
    <3>2. RunsAlone'
      BY <2>1, <2>3, <2>4, <3>1 DEF GuardInv, RunsAlone, Running, pair
    <3>3. (done \subseteq marks \cup lapsed)'
      BY <3>1 DEF GuardInv
    <3>4. ASSUME NEW k \in Loops, NEW g \in Handlers
          PROVE  /\ phase'[k][g] \in Running =>
                      <<hand'[k], g>> \in (marks' \ done') \cup lapsed'
                 /\ phase'[k][g] = "unguarded" => <<hand'[k], g>> \in lapsed'
      <4>1. CASE k = l /\ g = h
        BY <2>3, <3>1, <4>1 DEF pair
      <4>2. CASE k # l \/ g # h
        BY <2>3, <2>6, <3>1, <4>2 DEF GuardInv
      <4> QED BY <4>1, <4>2
    <3> QED BY <3>2, <3>3, <3>4
  \* A handler is skipped or ends.
  <2>9. CASE SkipHandler(l, h) \/ HandlerReturns(l, h) \/ HandlerRaises(l, h)
             \/ HandlerCancelled(l, h)
    <3>1. /\ phase'[l][h] \notin Running /\ lapsed' = lapsed
          /\ \/ UNCHANGED <<marks, done>>
             \/ phase[l][h] \in Running /\ marks' = marks /\ done' = done \cup {pair}
             \/ phase[l][h] \in Running /\ marks' = marks \ {pair} /\ done' = done
      BY <2>9, OneHandMoves
      DEF SkipHandler, HandlerReturns, HandlerRaises, HandlerCancelled, Unmarked,
          InPhase, Running, Ended, guard, pair
    <3>2. RunsAlone'
      BY <2>3, <3>1 DEF GuardInv, RunsAlone
    <3>3. (done \subseteq marks \cup lapsed)'
      BY <2>7, <3>1 DEF GuardInv
    <3>4. ASSUME NEW k \in Loops, NEW g \in Handlers, phase'[k][g] \in Running
          PROVE  /\ <<hand'[k], g>> \in (marks' \ done') \cup lapsed'
                 /\ phase'[k][g] = "unguarded" => <<hand'[k], g>> \in lapsed'
      <4>1. k # l \/ g # h
        BY <3>1, <3>4
      <4>2. phase'[k][g] = phase[k][g] /\ hand'[k] = hand[k]
        BY <2>3, <4>1
      <4>3. <<hand[k], g>> \in (marks \ done) \cup lapsed
        BY <2>6, <3>4, <4>2
      <4>4. <<hand[k], g>> = pair /\ phase[l][h] \in Running => pair \in lapsed
        BY <2>7, <3>4, <4>1, <4>2 DEF pair
      <4>5. phase[k][g] = "unguarded" => <<hand[k], g>> \in lapsed
        BY DEF GuardInv
      <4> QED BY <3>1, <4>2, <4>3, <4>4, <4>5
    <3> QED BY <3>2, <3>3, <3>4 DEF Running
  <2> QED BY <1>5, <2>8, <2>9 DEF HandlerStep
<1>6. ASSUME NEW l \in Loops, LoopStep(l) PROVE Kept'
  <2>1. CASE GiveUpPass(l)
    BY <2>1, <1>3 DEF GiveUpPass, GuardInv, HandsKnown, guard, TypeOK
  <2>2. CASE Park(l)
    BY <2>2, <1>3 DEF Park, guard, TypeOK
  <2>3. CASE AckParked(l) \/ AckHandled(l) \/ LeavePending(l) \/ StopLoop(l)
    BY <2>3, <1>4
    DEF AckParked, AckHandled, LeavePending, StopLoop, PutDown, guard, TypeOK
  <2>4. CASE \E h \in Handlers : HandlerStep(l, h)
    BY <2>4, <1>5
  <2> QED BY <1>6, <2>1, <2>2, <2>3, <2>4 DEF LoopStep
<1>7. ASSUME NEW e \in Entries, EntryStep(e) PROVE Kept'
  <2>1. CASE Age(e) \/ ClaimNothing(e)
    BY <2>1, <1>2 DEF Age, ClaimNothing, loops
  <2>2. CASE TakeNew(e) \/ Claim(e)
    BY <2>2, <1>3 DEF TakeNew, Claim, Free, TakeInHand, GuardInv, HandsKnown, guard, TypeOK
  <2>3. CASE \E h \in Handlers : Expire(e, h)
    BY <2>3 DEF Expire, loops, GuardInv, RunsAlone
  <2> QED BY <1>7, <2>1, <2>2, <2>3 DEF EntryStep
<1>8. CASE Kill
  BY <1>8 DEF Kill, guard, GuardInv, RunsAlone, Untouched, Running
<1>9. CASE Publish \/ Poll \/ ReclaimPass \/ Restart \/ UNCHANGED vars
  BY <1>9, <1>2 DEF Publish, Poll, ReclaimPass, Restart, vars, loops
<1> QED BY <1>6, <1>7, <1>8, <1>9 DEF Next

(* Through kills, slow handlers, Redis failures, expiry and cancellations, *)
(* a handler at work has its marker set or known to have lapsed, and has   *)
(* not succeeded before (_run_handler_guarded).                            *)
THEOREM GuardInvariance == Spec => [](TypeOK /\ GuardInv)
<1>1. Init => TypeOK /\ GuardInv
  BY DEF Init, TypeOK, GuardInv, HandsKnown, RunsAlone, Untouched, Running
<1>2. TypeOK /\ GuardInv /\ [Next]_vars => TypeOK' /\ GuardInv'
  BY TypeStep, GuardStep DEF GuardInv
<1> QED BY <1>1, <1>2, PTL DEF Spec

(* Whatever is slow, killed, cancelled or failing, the two loops do not    *)
(* have one handler at work on one entry at once while Redis keeps its     *)
(* marker (_run_handler_guarded).                                          *)
THEOREM HandlersRunAlone == Spec => []RunsAlone
<1>1. GuardInv => RunsAlone
  BY DEF GuardInv
<1> QED BY <1>1, GuardInvariance, PTL

(* On the same terms, a handler that succeeded for an entry is not called  *)
(* for it again ("already-succeeded handlers are skipped").                *)
THEOREM HandledAtMostOnce == Spec => HandledOnce
<1> DEFINE Once(l, h) ==
      phase[l][h] = "todo" /\ phase'[l][h] = "running" => <<hand[l], h>> \notin done \ lapsed
<1>1. TypeOK /\ GuardInv /\ [Next]_vars => \A l \in Loops, h \in Handlers : Once(l, h)
  <2> SUFFICES ASSUME TypeOK, GuardInv, [Next]_vars, NEW l \in Loops, NEW h \in Handlers,
                      phase[l][h] = "todo", phase'[l][h] = "running"
               PROVE  <<hand[l], h>> \notin done \ lapsed
    OBVIOUS
  <2>1. ASSUME NEW k \in Loops, NEW g \in Handlers, HandlerStep(k, g)
        PROVE  <<hand[l], h>> \notin done \ lapsed
    <3>1. PICK s \in {"todo"} \cup Running \cup Ended : MoveTo(k, g, s)
      BY <2>1
      DEF HandlerStep, StartHandler, SkipHandler, StartUnguarded, HandlerReturns,
          HandlerRaises, HandlerCancelled, Running, Ended
    <3>2. k = l /\ g = h
      BY <3>1, OneHandMoves
    <3>3. StartHandler(l, h)
      BY <2>1, <3>2
      DEF HandlerStep, SkipHandler, StartUnguarded, HandlerReturns, HandlerRaises,
          HandlerCancelled, InPhase, MoveTo, TypeOK
    <3> QED BY <3>3 DEF StartHandler, GuardInv
  <2>2. ASSUME NEW k \in Loops, LoopStep(k) PROVE <<hand[l], h>> \notin done \ lapsed
    <3>1. phase' = phase \/ phase' = [phase EXCEPT ![k] = Untouched]
          \/ \E g \in Handlers : HandlerStep(k, g)
      BY <2>2
      DEF LoopStep, GiveUpPass, Park, AckParked, AckHandled, LeavePending, StopLoop, PutDown
    <3> QED BY <2>1, <3>1 DEF TypeOK, Untouched
  <2>3. (\E e \in Entries : EntryStep(e)) => phase' = phase
    BY DEF EntryStep, Age, TakeNew, Claim, ClaimNothing, Expire, TakeInHand, loops
  <2>4. (Publish \/ Poll \/ ReclaimPass \/ Restart \/ UNCHANGED vars) => phase' = phase
    BY DEF Publish, Poll, ReclaimPass, Restart, vars, loops
  <2>5. ~Kill
    BY DEF Kill, Untouched
  <2> QED BY <2>2, <2>3, <2>4, <2>5 DEF Next
<1>2. TypeOK /\ GuardInv /\ [Next]_vars =>
        [\A l \in Loops, h \in Handlers : Once(l, h)]_vars
  BY <1>1
<1> QED BY <1>2, GuardInvariance, PTL DEF Spec, HandledOnce

----------------------------------------------------------------------------
(* The bus without death, slowness, Redis failures or self-cancelled       *)
(* handlers, each of which breaks it: what its docstring promises.  A      *)
(* marker that expires costs a second call, never the acknowledgment.      *)

\* No entry is in two hands (_claim_and_handle claims only what is idle).
LEMMA OwnEntryStep ==
  ASSUME Enabled \subseteq {"expiry"}
  PROVE  TypeOK /\ HandsKnown /\ OwnEntry /\ [Next]_vars => OwnEntry'
<1> SUFFICES ASSUME TypeOK, HandsKnown, OwnEntry, [Next]_vars PROVE OwnEntry'
  OBVIOUS
<1> USE DEF OwnEntry, InHand
<1>1. CASE UNCHANGED <<idle, queue, hand>>
  BY <1>1
<1>2. ASSUME NEW l \in Loops, hand' = [hand EXCEPT ![l] = 0], idle' \subseteq idle,
             queue'["listen"] \subseteq queue["listen"], 0 \notin queue["listen"]
      PROVE  OwnEntry'
  BY <1>2 DEF TypeOK
<1>3. CASE Poll
  <2>1. /\ LastNew \in 1..published /\ delivered < FirstNew /\ FirstNew \in 1..LastNew
        /\ queue'["listen"] = FirstNew..LastNew /\ UNCHANGED <<idle, hand>>
    BY <1>3, BatchBounds DEF Poll, TypeOK
  <2>2. \A e \in FirstNew..LastNew : e \notin 0..delivered
    BY <2>1 DEF TypeOK
  <2>3. \A l \in Loops : hand[l] \in 0..delivered
    BY DEF TypeOK
  <2> QED BY <2>1, <2>2, <2>3 DEF TypeOK
<1>4. CASE ReclaimPass \/ Publish \/ Restart \/ UNCHANGED vars
  BY <1>4 DEF ReclaimPass, Publish, Restart, vars, group, loops, TypeOK
<1>5. 0 \notin queue["listen"]
  BY DEF TypeOK
<1>6. ASSUME NEW l \in Loops, LoopStep(l) PROVE OwnEntry'
  <2>1. CASE Park(l) \/ \E h \in Handlers : HandlerStep(l, h)
    BY <2>1, <1>1
    DEF Park, HandlerStep, StartHandler, SkipHandler, StartUnguarded, HandlerReturns,
        HandlerRaises, HandlerCancelled, MoveTo, group
  <2>2. CASE AckParked(l) \/ AckHandled(l) \/ LeavePending(l) \/ StopLoop(l)
    BY <2>2, <1>2, <1>5
    DEF AckParked, AckHandled, LeavePending, StopLoop, PutDown, Acknowledged, group, TypeOK
  <2> QED BY <1>6, <2>1, <2>2 DEF LoopStep, GiveUpPass
<1>7. ASSUME NEW e \in Entries, EntryStep(e) PROVE OwnEntry'
  <2>1. CASE Age(e)
    BY <2>1 DEF Age, loops
  <2>2. CASE TakeNew(e)
    BY <2>2 DEF TakeNew, TakeInHand, IsNext, Free, group, TypeOK
  <2>3. CASE Claim(e)
    BY <2>3 DEF Claim, TakeInHand, IsNext, Free, TypeOK
  <2>4. CASE ClaimNothing(e)
    BY <2>4 DEF ClaimNothing, TypeOK
  <2>5. ASSUME NEW h \in Handlers, Expire(e, h) PROVE OwnEntry'
    BY <1>1, <2>5 DEF Expire, group, loops
  <2> QED BY <1>7, <2>1, <2>2, <2>3, <2>4, <2>5 DEF EntryStep
<1> QED BY <1>3, <1>4, <1>6, <1>7 DEF Next, Kill

\* What the loops know of their handlers, and what the markers stand for
\* (_run_handler_guarded).
LEMMA KnownStep ==
  ASSUME Enabled \subseteq {"expiry"}
  PROVE  TypeOK /\ HandsKnown /\ OwnEntry /\ Known /\ [Next]_vars => Known'
<1> SUFFICES ASSUME TypeOK, HandsKnown, OwnEntry, Known, [Next]_vars PROVE Known'
  OBVIOUS
<1>1. CASE UNCHANGED <<marks, done, parked, hand, step, phase>>
  BY <1>1 DEF Known
\* A loop that had nothing in hand, or is done with its entry.
<1>2. ASSUME NEW l \in Loops, phase' = [phase EXCEPT ![l] = Untouched],
             NEW e, hand' = [hand EXCEPT ![l] = e], step'[l] # "ack",
             UNCHANGED <<done, parked>>, \A k \in Loops : k # l => step'[k] = step[k],
             marks' \subseteq marks,
             \A h \in Handlers : phase[l][h] = "running" => <<hand[l], h>> \notin marks'
      PROVE  Known'
  <2>1. \A h \in Handlers : phase'[l][h] = "todo"
    BY <1>2 DEF TypeOK, Untouched
  <2>2. \A k \in Loops : k # l => hand'[k] = hand[k] /\ phase'[k] = phase[k]
    BY <1>2 DEF TypeOK
  <2>3. ASSUME NEW m \in marks' \ done
        PROVE  \E k \in Loops : m[1] = hand'[k] /\ phase'[k][m[2]] = "running"
    <3>1. PICK k \in Loops : m[1] = hand[k] /\ phase[k][m[2]] = "running"
      BY <1>2 DEF Known
    <3>2. m = <<m[1], m[2]>> /\ m[2] \in Handlers
      BY <1>2 DEF TypeOK
    <3>3. k # l
      BY <1>2, <3>1, <3>2
    <3> QED BY <2>2, <3>1, <3>3
  <2> QED BY <1>2, <2>1, <2>2, <2>3 DEF Known
<1>3. ASSUME NEW l \in Loops, NEW h \in Handlers, HandlerStep(l, h) PROVE Known'
  <2> DEFINE pair == <<hand[l], h>>
  <2>1. step[l] = "run" /\ hand[l] # 0
    BY <1>3
    DEF HandlerStep, StartHandler, SkipHandler, StartUnguarded, HandlerReturns,
        HandlerRaises, HandlerCancelled, InPhase, HandsKnown
  <2>2. PICK s \in {"todo"} \cup Running \cup Ended : MoveTo(l, h, s)
    BY <1>3
    DEF HandlerStep, StartHandler, SkipHandler, StartUnguarded, HandlerReturns,
        HandlerRaises, HandlerCancelled, Running, Ended
  <2>3. /\ UNCHANGED <<hand, step, parked>>
        /\ phase'[l][h] = s
        /\ \A k \in Loops, g \in Handlers : k # l \/ g # h => phase'[k][g] = phase[k][g]
    <3>1. UNCHANGED parked
      BY <2>2 DEF MoveTo, group
    <3> QED BY <2>2, <3>1, OneHandMoves
  \* Nobody else holds the entry, and nothing else is this marker.
  <2>4. \A k \in Loops : hand[k] = hand[l] => k = l
    <3>1. hand["reclaim"] # 0 => hand["reclaim"] # hand["listen"]
      BY DEF OwnEntry
    <3> QED BY <2>1, <3>1
  <2>5. /\ s \notin {"unguarded", "cancelled"}
        /\ done \subseteq done'
        /\ s \in {"ok", "skipped"} => pair \in done'
    <3>1. CASE SkipHandler(l, h)
      <4>1. pair \in marks /\ phase[l][h] = "todo" /\ s = "skipped" /\ done' = done
        BY <3>1, <2>3, OneHandMoves DEF SkipHandler, InPhase, guard, Running, Ended
      <4>2. CASE pair \notin done
        <5>1. PICK k \in Loops : pair[1] = hand[k] /\ phase[k][pair[2]] = "running"
          BY <4>1, <4>2 DEF Known
        <5> QED BY <2>4, <4>1, <5>1
      <4> QED BY <4>1, <4>2
    <3>2. CASE StartHandler(l, h) \/ HandlerReturns(l, h) \/ HandlerRaises(l, h)
      BY <3>2, <2>3, OneHandMoves
      DEF StartHandler, HandlerReturns, HandlerRaises, Running, Ended
    <3> QED BY <1>3, <3>1, <3>2 DEF HandlerStep, StartUnguarded, HandlerCancelled
  <2>6. /\ s = "running" => marks' \subseteq marks \cup {pair}
        /\ s # "running" => marks' \subseteq marks /\ (pair \in done' \/ pair \notin marks')
    BY <1>3, <2>3, <2>5, OneHandMoves
    DEF HandlerStep, StartHandler, SkipHandler, StartUnguarded, HandlerReturns,
        HandlerRaises, HandlerCancelled, Unmarked, InPhase, Known, guard, Running, Ended
  <2>7. ASSUME NEW m \in marks' \ done'
        PROVE  \E k \in Loops : m[1] = hand'[k] /\ phase'[k][m[2]] = "running"
    <3>1. CASE m = pair
      BY <2>3, <2>6, <2>7, <3>1
    <3>2. CASE m # pair
      <4>1. m \in marks \ done
        BY <2>5, <2>6, <2>7, <3>2
      <4>2. PICK k \in Loops : m[1] = hand[k] /\ phase[k][m[2]] = "running"
        BY <4>1 DEF Known
      <4>3. m = <<m[1], m[2]>> /\ m[2] \in Handlers
        BY <4>1 DEF TypeOK
      <4>4. k # l \/ m[2] # h
        BY <3>2, <4>2, <4>3
      <4> QED BY <2>3, <4>2, <4>3, <4>4
    <3> QED BY <3>1, <3>2
  <2>8. ASSUME NEW k \in Loops, NEW g \in Handlers
        PROVE  /\ phase'[k][g] \notin {"unguarded", "cancelled"}
               /\ phase'[k][g] \in {"ok", "skipped"} => <<hand'[k], g>> \in done'
    <3>1. CASE k = l /\ g = h
      BY <2>3, <2>5, <3>1
    <3>2. CASE k # l \/ g # h
      BY <2>3, <2>5, <3>2 DEF Known
    <3> QED BY <3>1, <3>2
  <2> QED BY <2>3, <2>7, <2>8 DEF Known
<1>4. ASSUME NEW l \in Loops, LoopStep(l) PROVE Known'
  <2>1. CASE Park(l)
    BY <2>1 DEF Park, Known, guard, TypeOK
  <2>2. CASE AckParked(l) \/ AckHandled(l) \/ LeavePending(l)
    <3>1. \A h \in Handlers : phase[l][h] # "running"
      BY <2>2
      DEF AckParked, AckHandled, LeavePending, Gathered, Ended, HandsKnown, Untouched
    <3>2. /\ phase' = [phase EXCEPT ![l] = Untouched] /\ hand' = [hand EXCEPT ![l] = 0]
          /\ UNCHANGED <<guard, parked>> /\ step' = [step EXCEPT ![l] = "next"]
      BY <2>2 DEF AckParked, AckHandled, LeavePending, PutDown, Acknowledged, group
    <3>3. step'[l] # "ack" /\ \A k \in Loops : k # l => step'[k] = step[k]
      BY <3>2 DEF TypeOK
    <3> QED BY <1>2, <3>1, <3>2, <3>3 DEF guard
  <2>3. CASE StopLoop(l)
    <3>1. /\ phase' = [phase EXCEPT ![l] = Untouched] /\ hand' = [hand EXCEPT ![l] = 0]
          /\ UNCHANGED <<done, parked>> /\ step' = [step EXCEPT ![l] = "next"]
          /\ marks' = marks \ {<<hand[l], h>> :
                                 h \in {k \in Handlers : phase[l][k] = "running"}}
      BY <2>3 DEF StopLoop, group
    <3>2. step'[l] # "ack" /\ \A k \in Loops : k # l => step'[k] = step[k]
      BY <3>1 DEF TypeOK
    <3>3. \A h \in Handlers : phase[l][h] = "running" => <<hand[l], h>> \notin marks'
      BY <3>1
    <3> QED BY <1>2, <3>1, <3>2, <3>3
  <2> QED BY <1>3, <1>4, <2>1, <2>2, <2>3 DEF LoopStep, GiveUpPass
<1>5. ASSUME NEW e \in Entries, EntryStep(e) PROVE Known'
  <2>1. CASE Age(e) \/ ClaimNothing(e)
    BY <2>1, <1>1 DEF Age, ClaimNothing, loops, guard
  <2>2. ASSUME NEW l \in Loops, Free(l), TakeInHand(l, e), UNCHANGED <<guard, parked>>
        PROVE  Known'
    <3>1. step[l] # "run" /\ phase[l] = Untouched
      BY <2>2 DEF Free, HandsKnown
    <3>2. \A h \in Handlers : phase[l][h] = "todo"
      BY <3>1 DEF Untouched
    <3>3. /\ step'[l] # "ack" /\ \A k \in Loops : k # l => step'[k] = step[k]
          /\ hand' = [hand EXCEPT ![l] = e]
          /\ phase' = [phase EXCEPT ![l] = Untouched]
      BY <2>2, <3>1 DEF TakeInHand, TypeOK
    <3> QED BY <1>2, <2>2, <3>2, <3>3 DEF guard
  <2>3. CASE TakeNew(e) \/ Claim(e)
    BY <2>3, <2>2 DEF TakeNew, Claim, group
  <2>4. ASSUME NEW h \in Handlers, Expire(e, h) PROVE Known'
    <3>1. marks' \subseteq marks /\ UNCHANGED <<done, parked, hand, step, phase>>
      BY <2>4 DEF Expire, group, loops
    <3> QED BY <3>1 DEF Known
  <2> QED BY <1>5, <2>1, <2>3, <2>4 DEF EntryStep
<1>6. CASE Publish \/ Poll \/ ReclaimPass \/ Restart \/ UNCHANGED vars
  BY <1>6, <1>1 DEF Publish, Poll, ReclaimPass, Restart, vars, loops, guard, group
<1> QED BY <1>4, <1>5, <1>6 DEF Next, Kill

(* With failing handlers and orderly shutdowns only, no entry is in two    *)
(* hands and a marker found set means a handler that returned (the guard   *)
(* of _run_handler_guarded, the idle window of _claim_and_handle).         *)
THEOREM BusBaseInvariance ==
  ASSUME Enabled \subseteq {"expiry"}
  PROVE  Spec => [](TypeOK /\ BaseInv)
<1> USE DEF BaseInv
<1>1. Init => TypeOK /\ BaseInv
  BY DEF Init, TypeOK, HandsKnown, OwnEntry, InHand, AckedIsHandled, Known, Untouched
<1>2. TypeOK /\ BaseInv /\ [Next]_vars => AckedIsHandled'
  <2> SUFFICES ASSUME TypeOK, BaseInv, [Next]_vars PROVE AckedIsHandled'
    OBVIOUS
  <2>1. parked \subseteq parked' /\ done \subseteq done'
    <3>1. ASSUME NEW l \in Loops, NEW h \in Handlers, HandlerStep(l, h)
          PROVE  parked \subseteq parked' /\ done \subseteq done'
      BY <3>1 DEF HandlerStep, StartHandler, SkipHandler, StartUnguarded, HandlerReturns,
                  HandlerRaises, HandlerCancelled, MoveTo, group, guard
    <3>2. ASSUME NEW l \in Loops, LoopStep(l)
          PROVE  parked \subseteq parked' /\ done \subseteq done'
      BY <3>1, <3>2 DEF LoopStep, GiveUpPass, Park, AckParked, AckHandled, LeavePending, StopLoop,
                        Acknowledged, group, guard
    <3>3. ASSUME NEW e \in Entries, EntryStep(e)
          PROVE  parked \subseteq parked' /\ done \subseteq done'
      BY <3>3 DEF EntryStep, Age, TakeNew, Claim, ClaimNothing, Expire, group, guard
    <3> QED BY <3>2, <3>3 DEF Next, Publish, Poll, ReclaimPass, Kill, Restart, group, guard, vars
  <2>2. CASE acked' = acked
    BY <2>1, <2>2 DEF BaseInv, AckedIsHandled
  <2>3. ASSUME NEW l \in Loops, AckParked(l) PROVE AckedIsHandled'
    BY <2>1, <2>3 DEF AckParked, Acknowledged, BaseInv, Known, AckedIsHandled
  <2>4. ASSUME NEW l \in Loops, AckHandled(l) PROVE AckedIsHandled'
    <3>1. \A h \in Handlers : phase[l][h] \in {"ok", "skipped"}
      BY <2>4 DEF AckHandled, Gathered, AllSucceeded, Ended, BaseInv, Known
    <3>2. \A h \in Handlers : <<hand[l], h>> \in done
      BY <3>1 DEF BaseInv, Known
    <3> QED BY <2>1, <2>4, <3>2 DEF AckHandled, Acknowledged, BaseInv, AckedIsHandled
  <2>5. ASSUME NEW l \in Loops, LoopStep(l) PROVE AckedIsHandled'
    <3>1. acked' = acked \/ AckParked(l) \/ AckHandled(l)
      BY <2>5
      DEF LoopStep, HandlerStep, GiveUpPass, Park, LeavePending, StopLoop, StartHandler,
          SkipHandler, StartUnguarded, HandlerReturns, HandlerRaises, HandlerCancelled,
          MoveTo, group
    <3> QED BY <2>2, <2>3, <2>4, <3>1
  <2>6. (\E l \in Loops : LoopStep(l)) \/ acked' = acked
    BY DEF Next, EntryStep, Publish, Poll, ReclaimPass, Kill, Restart, Age, TakeNew, Claim,
           ClaimNothing, Expire, group, vars
  <2> QED BY <2>2, <2>5, <2>6
<1>3. TypeOK /\ BaseInv /\ [Next]_vars => TypeOK' /\ BaseInv'
  BY <1>2, TypeStep, OwnEntryStep, KnownStep
<1> QED BY <1>1, <1>3, PTL DEF Spec

(* Whether markers expire or not, only what every handler has handled, or  *)
(* what is parked, is ever acknowledged (_handle_message).                 *)
THEOREM AckedAfterHandling ==
  ASSUME Enabled \subseteq {"expiry"}
  PROVE  Spec => []AckedIsHandled
<1>1. BaseInv => AckedIsHandled
  BY DEF BaseInv
<1> QED BY <1>1, BusBaseInvariance, PTL

(* On the same terms the bus delivers at least once: it implements         *)
(* AtLeastOnce (StreamEventBus's docstring).                               *)
THEOREM ImplementsDelivery ==
  ASSUME Enabled \subseteq {"expiry"}
  PROVE  Spec => DeliversAtLeastOnce
<1>1. Init => Delivery!Init
  BY DEF Init, Delivery!Init
<1>2. TypeOK /\ BaseInv /\ [Next]_vars => [Delivery!Next]_(Delivery!vars)
  <2> SUFFICES ASSUME TypeOK, BaseInv, [Next]_vars PROVE [Delivery!Next]_(Delivery!vars)
    OBVIOUS
  <2> USE DEF Delivery!vars
  <2>1. CASE UNCHANGED <<published, done, acked>>
    BY <2>1
  <2>2. CASE Publish
    BY <2>2 DEF Publish, group, guard, Delivery!Next, Delivery!Publish
  <2>3. ASSUME NEW l \in Loops, AckParked(l) \/ AckHandled(l) PROVE Delivery!Next
    <3>1. hand[l] \in 1..published
      BY <2>3 DEF AckParked, AckHandled, Gathered, BaseInv, HandsKnown, TypeOK
    <3>2. hand[l] \in Undecodable \/ \A h \in Handlers : <<hand[l], h>> \in done
      BY <2>3 DEF AckParked, AckHandled, Gathered, AllSucceeded, Ended, BaseInv, Known, HandsKnown
    <3>3. acked' = acked \cup {hand[l]} /\ UNCHANGED <<published, done>>
      BY <2>3 DEF AckParked, AckHandled, Acknowledged, log, guard
    <3>4. Delivery!Settle(hand[l])
      BY <3>2, <3>3 DEF Delivery!Settle
    <3> QED BY <3>1, <3>4 DEF Delivery!Next
  <2>4. ASSUME NEW l \in Loops, NEW h \in Handlers, HandlerReturns(l, h)
        PROVE  Delivery!Next
    <3>1. hand[l] \in 1..published
      BY <2>4 DEF HandlerReturns, InPhase, BaseInv, HandsKnown, TypeOK
    <3>2. Delivery!Handle(hand[l], h)
      BY <2>4 DEF HandlerReturns, MoveTo, log, group, Delivery!Handle
    <3> QED BY <3>1, <3>2 DEF Delivery!Next
  <2>5. ASSUME NEW l \in Loops, LoopStep(l)
        PROVE  \/ UNCHANGED <<published, done, acked>>
               \/ AckParked(l) \/ AckHandled(l)
               \/ \E h \in Handlers : HandlerReturns(l, h)
    BY <2>5
    DEF LoopStep, HandlerStep, GiveUpPass, Park, LeavePending, StopLoop, StartHandler,
        SkipHandler, StartUnguarded, HandlerRaises, HandlerCancelled, MoveTo,
        log, group, guard
  <2>6. \/ Publish
        \/ \E l \in Loops : LoopStep(l)
        \/ UNCHANGED <<published, done, acked>>
    BY DEF Next, EntryStep, Poll, ReclaimPass, Kill, Restart, Age, TakeNew, Claim,
           ClaimNothing, Expire, log, group, guard, vars
  <2> QED BY <2>1, <2>2, <2>3, <2>4, <2>5, <2>6
<1> QED BY <1>1, <1>2, BusBaseInvariance, PTL DEF Spec, DeliversAtLeastOnce, Delivery!Spec
=============================================================================
