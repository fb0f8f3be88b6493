--------------------------- MODULE MidVerbProofs ---------------------------
(***************************************************************************)
(* One milestone per pull request and one planning subtask per parent, for *)
(* any number of tasks, parents and requests.  The argument for open_pr: a *)
(* request past its fetch holds the task's key until the pull request is   *)
(* on record, so the one that gets there finds none, and every later one   *)
(* turns back at the fetch.  For delegate: past its dedup a request still  *)
(* holds the parent's key, unless it gave it up to record a decision.      *)
(***************************************************************************)
EXTENDS MidVerbCommits, TLAPS

(* A request is where a verb on its task or parent can be.                 *)
OnItsOwn ==
  \A c \in Calls :
    /\ call[c].at # "idle" => call[c].on \in Tasks \cup Parents
    /\ call[c].at \in {"fetching", "ready", "reporting"} => call[c].on \in Tasks
    /\ call[c].at \in {"recording", "dedup"} => call[c].on \in Parents

KeysExclusive ==
  \A c, e \in Calls : c # e /\ call[c].key # Nobody => call[c].key # call[e].key

(* Between its key and its commit a request holds the key.                 *)
OpeningPr(c) == call[c].at = "ready" \/ (call[c].at = "writing" /\ call[c].on \in Tasks)
CreatingPlan(c) == call[c].at = "writing" /\ call[c].on \in Parents \ unguarded

LooksUnderKey(c) ==
  call[c].at \in {"fetching", "recording"} \/ (call[c].at = "dedup" /\ call[c].on \notin unguarded)

KeyHeld ==
  \A c \in Calls :
    LooksUnderKey(c) \/ OpeningPr(c) \/ CreatingPlan(c) => call[c].key = call[c].on

(* What the fetch saw still holds at the commit.                           *)
PrStillMissing == \A c \in Calls : OpeningPr(c) => call[c].on \notin pr

(* Before its pull request is on record a task is not reported on, and     *)
(* who records it is the one to report it.                                 *)
ReportedAfterRecord ==
  /\ \A t \in Tasks \ pr : milestones[t] = 0
  /\ \A c \in Calls : call[c].at = "reporting" =>
       /\ call[c].on \in pr
       /\ milestones[call[c].on] = 0
       /\ \A e \in Calls : call[e].at = "reporting" /\ call[e].on = call[c].on => e = c

(* What the dedup saw still holds at the commit.                           *)
NoPlanYet == \A c \in Calls : CreatingPlan(c) => plans[call[c].on] = 0

Safe == OneMilestone /\ OnePlan

IInv ==
  /\ TypeOK
  /\ OnItsOwn
  /\ KeysExclusive
  /\ KeyHeld
  /\ PrStillMissing
  /\ ReportedAfterRecord
  /\ NoPlanYet
  /\ Safe

(* The parts that speak of the requests.                                   *)
Requests == /\ OnItsOwn /\ KeysExclusive /\ KeyHeld /\ PrStillMissing
            /\ ReportedAfterRecord /\ NoPlanYet

----------------------------------------------------------------------------
LEMMA Initially == ASSUME KeysAssumption, Init PROVE IInv
<1>1. TypeOK
  BY DEF Init, TypeOK, CallRecord, Idle, Steps
<1>2. Requests
  BY DEF Init, Idle, Requests, OnItsOwn, KeysExclusive, KeyHeld, LooksUnderKey, PrStillMissing,
         ReportedAfterRecord, NoPlanYet, OpeningPr, CreatingPlan
<1>3. Safe
  BY DEF Init, Safe, OneMilestone, OnePlan
<1> QED BY <1>1, <1>2, <1>3 DEF IInv, Requests

(* A step of request c that writes nothing: what the new record of c has   *)
(* to satisfy.                                                             *)
LEMMA SilentStep ==
  ASSUME KeysAssumption, IInv, NEW c \in Calls, NEW new \in CallRecord,
         call' = [call EXCEPT ![c] = new],
         UNCHANGED <<pr, milestones, plans>>,
         decided' \subseteq Parents, unguarded' \subseteq Parents,
         unguarded \subseteq unguarded',
         new.at # "reporting",
         new.at # "idle" => new.on \in Tasks \cup Parents,
         new.at \in {"fetching", "ready"} => new.on \in Tasks,
         new.at \in {"recording", "dedup"} => new.on \in Parents,
         new.key # Nobody => \A e \in Calls : e # c => call[e].key # new.key,
         new.at \in {"fetching", "recording", "ready"} => new.key = new.on,
         new.at \in {"dedup", "writing"} /\ new.on \notin unguarded' => new.key = new.on,
         new.at = "ready" \/ (new.at = "writing" /\ new.on \in Tasks) => new.on \notin pr,
         new.at = "writing" /\ new.on \in Parents \ unguarded' => plans[new.on] = 0
  PROVE  IInv'
<1>1. \A e \in Calls : call'[e] = IF e = c THEN new ELSE call[e]
  BY DEF IInv, TypeOK
<1>2. TypeOK'
  BY DEF IInv, TypeOK
<1>3. OnItsOwn'
  BY <1>1 DEF IInv, OnItsOwn
<1>4. KeysExclusive'
  BY <1>1 DEF IInv, KeysExclusive
<1>5. KeyHeld'
  <2>1. \A e \in Calls : e # c => (OpeningPr(e)' <=> OpeningPr(e))
                                   /\ (CreatingPlan(e)' => CreatingPlan(e))
    BY <1>1 DEF OpeningPr, CreatingPlan
  <2>2. OpeningPr(c)' \/ CreatingPlan(c)' => new.key = new.on
    BY <1>1, KeysAssumption DEF OpeningPr, CreatingPlan, KeysAssumption
  <2> QED BY <1>1, <2>1, <2>2 DEF IInv, KeyHeld, LooksUnderKey
<1>6. PrStillMissing'
  BY <1>1 DEF IInv, PrStillMissing, OpeningPr
<1>7. ReportedAfterRecord'
  BY <1>1 DEF IInv, ReportedAfterRecord
<1>8. NoPlanYet'
  BY <1>1 DEF IInv, NoPlanYet, CreatingPlan
<1>9. Safe'
  BY DEF IInv, Safe, OneMilestone, OnePlan
<1> QED BY <1>2, <1>3, <1>4, <1>5, <1>6, <1>7, <1>8, <1>9 DEF IInv

LEMMA EndKeeps ==
  ASSUME KeysAssumption, IInv, NEW c \in Calls, End(c),
         UNCHANGED <<pr, milestones, plans, decided, unguarded>>
  PROVE  IInv'
<1>1. Idle \in CallRecord /\ Idle.at = "idle" /\ Idle.key = Nobody
  BY DEF Idle, CallRecord, Steps
<1>2. call' = [call EXCEPT ![c] = Idle] /\ decided' \subseteq Parents /\ unguarded' \subseteq Parents
  BY DEF End, IInv, TypeOK
<1> QED BY <1>1, <1>2, SilentStep

LEMMA BeginKeeps ==
  ASSUME KeysAssumption, IInv, NEW c \in Calls, NEW x \in Tasks \cup Parents, Begin(c, x)
  PROVE  IInv'
<1> DEFINE new == [at |-> "keyless", on |-> x, key |-> Nobody]
<1>1. new \in CallRecord /\ new.at = "keyless" /\ new.key = Nobody /\ new.on = x
  BY DEF CallRecord, Steps
<1>2. call' = [call EXCEPT ![c] = new] /\ decided' \subseteq Parents /\ unguarded' \subseteq Parents
      /\ UNCHANGED <<pr, milestones, plans>> /\ unguarded' = unguarded
  BY DEF Begin, IInv, TypeOK
<1> HIDE DEF new
<1> QED BY <1>1, <1>2, SilentStep

LEMMA TakeKeyKeeps ==
  ASSUME KeysAssumption, IInv, NEW c \in Calls, TakeKey(c)
  PROVE  IInv'
<1> DEFINE x == call[c].on
           new == [at |-> AfterKey(x), on |-> x, key |-> x]
<1>0. x \in Tasks \cup Parents
  BY DEF TakeKey, IInv, OnItsOwn
<1>1. /\ new \in CallRecord
      /\ new.at = (IF x \in Tasks THEN "fetching" ELSE "recording")
      /\ new.key = x /\ new.on = x
  BY <1>0 DEF CallRecord, Steps, AfterKey
<1>2. /\ call' = [call EXCEPT ![c] = new]
      /\ decided' \subseteq Parents /\ unguarded' \subseteq Parents
      /\ UNCHANGED <<pr, milestones, plans>> /\ unguarded' = unguarded
      /\ \A e \in Calls : call[e].key # x
  BY DEF TakeKey, KeyFree, IInv, TypeOK
<1> HIDE DEF new, x
<1> QED BY <1>0, <1>1, <1>2, SilentStep

(* The record of c moved on to the next step, its key kept or given up.    *)
LEMMA Moved ==
  ASSUME IInv, NEW c \in Calls, NEW step \in Steps
  PROVE  /\ [call[c] EXCEPT !.at = step] \in CallRecord
         /\ [call[c] EXCEPT !.at = step].at = step
         /\ [call[c] EXCEPT !.at = step].on = call[c].on
         /\ [call[c] EXCEPT !.at = step].key = call[c].key
         /\ [call[c] EXCEPT !.at = step, !.key = Nobody] \in CallRecord
         /\ [call[c] EXCEPT !.at = step, !.key = Nobody].at = step
         /\ [call[c] EXCEPT !.at = step, !.key = Nobody].on = call[c].on
         /\ [call[c] EXCEPT !.at = step, !.key = Nobody].key = Nobody
         /\ GoTo(c, step) => call' = [call EXCEPT ![c] = [call[c] EXCEPT !.at = step]]
         /\ GoToKeyless(c, step) =>
              call' = [call EXCEPT ![c] = [call[c] EXCEPT !.at = step, !.key = Nobody]]
<1>1. call[c] \in CallRecord
  BY DEF IInv, TypeOK
<1> QED BY <1>1 DEF CallRecord, GoTo, GoToKeyless, IInv, TypeOK

LEMMA GoToKeeps ==
  ASSUME KeysAssumption, IInv, NEW c \in Calls, NEW step \in Steps, GoTo(c, step),
         UNCHANGED <<pr, milestones, plans, decided, unguarded>>,
         step # "reporting", call[c].at # "idle",
         step \in {"fetching", "ready"} => call[c].on \in Tasks,
         step \in {"recording", "dedup"} => call[c].on \in Parents,
         step \in {"fetching", "recording", "ready"} => call[c].key = call[c].on,
         step \in {"dedup", "writing"} /\ call[c].on \notin unguarded => call[c].key = call[c].on,
         step = "ready" \/ (step = "writing" /\ call[c].on \in Tasks) => call[c].on \notin pr,
         step = "writing" /\ call[c].on \in Parents \ unguarded => plans[call[c].on] = 0
  PROVE  IInv'
<1> DEFINE new == [call[c] EXCEPT !.at = step]
<1>1. /\ new \in CallRecord /\ new.at = step /\ new.on = call[c].on /\ new.key = call[c].key
      /\ call' = [call EXCEPT ![c] = new]
  BY Moved
<1>2. decided' \subseteq Parents /\ unguarded' \subseteq Parents /\ call[c].on \in Tasks \cup Parents
  BY DEF IInv, TypeOK, OnItsOwn
<1>3. new.key # Nobody => \A e \in Calls : e # c => call[e].key # new.key
  BY <1>1 DEF IInv, KeysExclusive
<1> HIDE DEF new
<1> QED BY <1>1, <1>2, <1>3, SilentStep

LEMMA FetchForPrKeeps ==
  ASSUME KeysAssumption, IInv, NEW c \in Calls, FetchForPr(c) PROVE IInv'
<1>1. CASE call[c].on \in pr
  BY <1>1, EndKeeps DEF FetchForPr
<1>2. CASE call[c].on \notin pr
  <2>1. call[c].at = "fetching" /\ GoTo(c, "ready")
        /\ UNCHANGED <<pr, milestones, plans, decided, unguarded>>
    BY <1>2 DEF FetchForPr
  <2>2. call[c].on \in Tasks /\ call[c].key = call[c].on /\ "ready" \in Steps
    BY <2>1 DEF IInv, OnItsOwn, KeyHeld, LooksUnderKey, Steps
  <2> QED BY <1>2, <2>1, <2>2, GoToKeeps
<1> QED BY <1>1, <1>2

LEMMA LockRowKeeps ==
  ASSUME KeysAssumption, IInv, NEW c \in Calls, LockRow(c) PROVE IInv'
<1>1. call[c].at = "ready" /\ GoTo(c, "writing")
      /\ UNCHANGED <<pr, milestones, plans, decided, unguarded>>
  BY DEF LockRow
<1>2. call[c].on \in Tasks /\ call[c].key = call[c].on /\ call[c].on \notin pr /\ "writing" \in Steps
  BY <1>1 DEF IInv, OnItsOwn, KeyHeld, LooksUnderKey, PrStillMissing, OpeningPr, Steps
<1>3. call[c].on \notin Parents
  BY <1>2, KeysAssumption DEF KeysAssumption
<1> QED BY <1>1, <1>2, <1>3, GoToKeeps

LEMMA DedupKeeps ==
  ASSUME KeysAssumption, IInv, NEW c \in Calls, Dedup(c) PROVE IInv'
<1>1. CASE plans[call[c].on] > 0
  BY <1>1, EndKeeps DEF Dedup
<1>2. CASE ~(plans[call[c].on] > 0)
  <2>1. call[c].at = "dedup" /\ GoTo(c, "writing")
        /\ UNCHANGED <<pr, milestones, plans, decided, unguarded>>
    BY <1>2 DEF Dedup
  <2>2. call[c].on \in Parents /\ "writing" \in Steps
        /\ (call[c].on \notin unguarded => call[c].key = call[c].on)
    BY <2>1 DEF IInv, OnItsOwn, KeyHeld, LooksUnderKey, Steps
  <2>3. call[c].on \notin Tasks /\ plans[call[c].on] = 0
    BY <1>2, <2>2, KeysAssumption DEF KeysAssumption, IInv, TypeOK
  <2> QED BY <2>1, <2>2, <2>3, GoToKeeps
<1> QED BY <1>1, <1>2

LEMMA RecordDecisionKeeps ==
  ASSUME KeysAssumption, IInv, NEW c \in Calls, RecordDecision(c) PROVE IInv'
<1>0. call[c].at = "recording" /\ call[c].on \in Parents /\ call[c].key = call[c].on
      /\ "dedup" \in Steps
  BY DEF RecordDecision, IInv, OnItsOwn, KeyHeld, LooksUnderKey, Steps
<1>1. CASE call[c].on \in decided
  <2>1. GoTo(c, "dedup") /\ UNCHANGED <<pr, milestones, plans, decided, unguarded>>
    BY <1>1 DEF RecordDecision
  <2> QED BY <1>0, <2>1, GoToKeeps
<1>2. CASE call[c].on \notin decided
  <2> DEFINE new == [call[c] EXCEPT !.at = "dedup", !.key = Nobody]
  <2>1. /\ new \in CallRecord /\ new.at = "dedup" /\ new.on = call[c].on /\ new.key = Nobody
        /\ call' = [call EXCEPT ![c] = new]
    BY <1>0, <1>2, Moved DEF RecordDecision
  <2>2. /\ decided' \subseteq Parents /\ unguarded' \subseteq Parents
        /\ unguarded \subseteq unguarded' /\ call[c].on \in unguarded'
        /\ UNCHANGED <<pr, milestones, plans>>
    BY <1>0, <1>2 DEF RecordDecision, IInv, TypeOK
  <2> HIDE DEF new
  <2> QED BY <1>0, <2>1, <2>2, SilentStep
<1> QED BY <1>1, <1>2

----------------------------------------------------------------------------
(* Steps that write.                                                       *)

(* No other request is past its fetch on the task whose pull request is    *)
(* put on record: it would hold the same key.                              *)
LEMMA CommitPrKeeps ==
  ASSUME KeysAssumption, IInv, NEW c \in Calls, CommitPr(c) PROVE IInv'
<1> DEFINE t == call[c].on
           new == [call[c] EXCEPT !.at = "reporting", !.key = Nobody]
<1>0. t \in Tasks /\ call[c].key = t /\ t # Nobody /\ t \notin pr /\ t \notin Parents
      /\ "reporting" \in Steps
  BY KeysAssumption DEF KeysAssumption, CommitPr, IInv, KeyHeld, LooksUnderKey, PrStillMissing, OpeningPr, Steps
<1>1. /\ new \in CallRecord /\ new.at = "reporting" /\ new.on = t /\ new.key = Nobody
      /\ call' = [call EXCEPT ![c] = new]
  BY <1>0, Moved DEF CommitPr
<1>2. pr' = pr \cup {t} /\ UNCHANGED <<milestones, plans, decided, unguarded>>
  BY DEF CommitPr
<1> HIDE DEF new, t
<1>3. \A e \in Calls : call'[e] = IF e = c THEN new ELSE call[e]
  BY <1>1 DEF IInv, TypeOK
<1>4. \A e \in Calls : e # c => call[e].key # t
  BY <1>0 DEF IInv, KeysExclusive, t
<1>5. TypeOK'
  BY <1>0, <1>1, <1>2 DEF IInv, TypeOK
<1>6. OnItsOwn' /\ KeysExclusive'
  BY <1>0, <1>1, <1>3 DEF IInv, OnItsOwn, KeysExclusive
<1>7. \A e \in Calls : /\ OpeningPr(e)' => e # c /\ OpeningPr(e)
                       /\ CreatingPlan(e)' => e # c /\ CreatingPlan(e)
  BY <1>1, <1>2, <1>3 DEF OpeningPr, CreatingPlan
<1>8. KeyHeld'
  BY <1>1, <1>2, <1>3, <1>7 DEF IInv, KeyHeld, LooksUnderKey
<1>9. PrStillMissing'
  <2> SUFFICES ASSUME NEW e \in Calls, OpeningPr(e)' PROVE call'[e].on \notin pr'
    BY DEF PrStillMissing
  <2>1. e # c /\ OpeningPr(e) /\ call'[e] = call[e]
    BY <1>3, <1>7
  <2>2. call[e].on \notin pr /\ call[e].key = call[e].on
    BY <2>1 DEF IInv, PrStillMissing, KeyHeld, LooksUnderKey
  <2> QED BY <1>2, <1>4, <2>1, <2>2
<1>10. ReportedAfterRecord'
  <2>1. milestones[t] = 0 /\ \A e \in Calls : call[e].at = "reporting" => call[e].on # t
    BY <1>0 DEF IInv, ReportedAfterRecord
  <2> QED BY <1>1, <1>2, <1>3, <2>1 DEF IInv, ReportedAfterRecord
<1>11. NoPlanYet'
  BY <1>2, <1>3, <1>7 DEF IInv, NoPlanYet
<1>12. Safe'
  BY <1>2 DEF IInv, Safe, OneMilestone, OnePlan
<1> QED BY <1>5, <1>6, <1>8, <1>9, <1>10, <1>11, <1>12 DEF IInv

(* The requests but c, when c ends and nothing they speak of changed.      *)
LEMMA EndLeavesRequests ==
  ASSUME IInv, NEW c \in Calls, End(c), UNCHANGED <<pr, unguarded>>
  PROVE  /\ \A e \in Calls : call'[e] = IF e = c THEN Idle ELSE call[e]
         /\ call' \in [Calls -> CallRecord]
         /\ OnItsOwn' /\ KeysExclusive' /\ KeyHeld' /\ PrStillMissing'
         /\ \A e \in Calls : CreatingPlan(e)' => e # c /\ CreatingPlan(e)
<1>1. \A e \in Calls : call'[e] = IF e = c THEN Idle ELSE call[e]
  BY DEF End, IInv, TypeOK
<1>2. Idle \in CallRecord /\ Idle.at = "idle" /\ Idle.key = Nobody
  BY DEF Idle, CallRecord, Steps
<1>3. call' \in [Calls -> CallRecord]
  BY <1>2 DEF End, IInv, TypeOK
<1>4. OnItsOwn' /\ KeysExclusive'
  BY <1>1, <1>2 DEF IInv, OnItsOwn, KeysExclusive
<1>5. \A e \in Calls : /\ OpeningPr(e)' => e # c /\ OpeningPr(e)
                       /\ CreatingPlan(e)' => e # c /\ CreatingPlan(e)
  BY <1>1, <1>2 DEF OpeningPr, CreatingPlan
<1>6. KeyHeld' /\ PrStillMissing'
  BY <1>1, <1>2, <1>5 DEF IInv, KeyHeld, LooksUnderKey, PrStillMissing
<1> QED BY <1>1, <1>3, <1>4, <1>5, <1>6

LEMMA ReportKeeps ==
  ASSUME KeysAssumption, IInv, NEW c \in Calls, Report(c) PROVE IInv'
<1> DEFINE t == call[c].on
<1>0. t \in Tasks /\ t \in pr /\ milestones[t] = 0
      /\ \A e \in Calls : call[e].at = "reporting" /\ call[e].on = t => e = c
  BY DEF Report, IInv, OnItsOwn, ReportedAfterRecord
<1>1. /\ milestones' = [milestones EXCEPT ![t] = milestones[t] + 1]
      /\ End(c)
      /\ UNCHANGED <<pr, plans, decided, unguarded>>
  BY DEF Report
<1> HIDE DEF t
<1>2. /\ \A e \in Calls : call'[e] = IF e = c THEN Idle ELSE call[e]
      /\ call' \in [Calls -> CallRecord]
      /\ OnItsOwn' /\ KeysExclusive' /\ KeyHeld' /\ PrStillMissing'
      /\ \A e \in Calls : CreatingPlan(e)' => e # c /\ CreatingPlan(e)
  BY <1>1, EndLeavesRequests
<1>3. \A u \in Tasks : milestones'[u] = IF u = t THEN 1 ELSE milestones[u]
  BY <1>0, <1>1 DEF IInv, TypeOK
<1>4. TypeOK'
  BY <1>0, <1>1, <1>2, <1>3 DEF IInv, TypeOK
<1>5. ReportedAfterRecord'
  <2>1. \A e \in Calls : call'[e].at = "reporting" =>
          e # c /\ call'[e] = call[e] /\ call[e].on # t /\ call[e].on \in Tasks
    BY <1>0, <1>2 DEF Idle, IInv, OnItsOwn
  <2> QED BY <1>0, <1>1, <1>3, <2>1 DEF IInv, ReportedAfterRecord
<1>6. NoPlanYet'
  BY <1>1, <1>2 DEF IInv, NoPlanYet
<1>7. Safe'
  BY <1>1, <1>3 DEF IInv, Safe, OneMilestone, OnePlan
<1> QED BY <1>2, <1>4, <1>5, <1>6, <1>7 DEF IInv

LEMMA CommitSubtaskKeeps ==
  ASSUME KeysAssumption, IInv, NEW c \in Calls, CommitSubtask(c) PROVE IInv'
<1> DEFINE p == call[c].on
<1>0. p \in Parents /\ p # Nobody /\ call[c].at = "writing"
  BY KeysAssumption DEF KeysAssumption, CommitSubtask
<1>1. /\ plans' = [plans EXCEPT ![p] = plans[p] + 1]
      /\ End(c)
      /\ UNCHANGED <<pr, milestones, decided, unguarded>>
  BY DEF CommitSubtask
<1>a. p \notin unguarded => call[c].key = p /\ plans[p] = 0
  BY <1>0 DEF IInv, KeyHeld, LooksUnderKey, NoPlanYet, CreatingPlan
<1>b. p \notin unguarded => \A e \in Calls : e # c => call[e].key # p
  BY <1>0, <1>a DEF IInv, KeysExclusive
<1> HIDE DEF p
<1>2. /\ \A e \in Calls : call'[e] = IF e = c THEN Idle ELSE call[e]
      /\ call' \in [Calls -> CallRecord]
      /\ OnItsOwn' /\ KeysExclusive' /\ KeyHeld' /\ PrStillMissing'
      /\ \A e \in Calls : CreatingPlan(e)' => e # c /\ CreatingPlan(e)
  BY <1>1, EndLeavesRequests
<1>3. \A q \in Parents : plans'[q] = IF q = p THEN plans[p] + 1 ELSE plans[q]
  BY <1>0, <1>1 DEF IInv, TypeOK
<1>4. TypeOK'
  BY <1>0, <1>1, <1>2 DEF IInv, TypeOK
<1>5. ReportedAfterRecord'
  BY <1>1, <1>2 DEF IInv, ReportedAfterRecord, Idle
<1>6. NoPlanYet'
  <2> SUFFICES ASSUME NEW e \in Calls, CreatingPlan(e)' PROVE plans'[call'[e].on] = 0
    BY DEF NoPlanYet
  <2>1. e # c /\ CreatingPlan(e) /\ call'[e] = call[e]
    BY <1>2
  <2>2. call[e].on \in Parents \ unguarded /\ call[e].key = call[e].on /\ plans[call[e].on] = 0
    BY <2>1 DEF IInv, KeyHeld, LooksUnderKey, NoPlanYet, CreatingPlan
  <2> QED BY <1>3, <1>b, <2>1, <2>2
<1>7. Safe'
  <2>1. \A q \in Parents \ unguarded : plans'[q] <= 1
    BY <1>3, <1>a DEF IInv, Safe, OnePlan
  <2> QED BY <1>1, <2>1 DEF IInv, Safe, OneMilestone, OnePlan
<1> QED BY <1>2, <1>4, <1>5, <1>6, <1>7 DEF IInv

(* What happens beside the requests only takes plans and decisions away.   *)
LEMMA BesidesKeeps ==
  ASSUME KeysAssumption, IInv, NEW p \in Parents, FinishPlan(p) \/ DecisionExpires(p)
  PROVE  IInv'
<1>1. UNCHANGED <<pr, milestones, call, unguarded>>
  BY DEF FinishPlan, DecisionExpires
<1>2. TypeOK' /\ \A q \in Parents : plans'[q] <= plans[q] /\ plans'[q] \in Nat
  BY DEF FinishPlan, DecisionExpires, IInv, TypeOK
<1>3. OnItsOwn' /\ KeysExclusive' /\ ReportedAfterRecord'
  BY <1>1 DEF IInv, OnItsOwn, KeysExclusive, ReportedAfterRecord
<1>4. KeyHeld' /\ PrStillMissing'
  BY <1>1 DEF IInv, KeyHeld, LooksUnderKey, PrStillMissing, OpeningPr, CreatingPlan
<1>5. NoPlanYet'
  BY <1>1, <1>2 DEF IInv, NoPlanYet, CreatingPlan, TypeOK
<1>6. Safe'
  BY <1>1, <1>2 DEF IInv, Safe, OneMilestone, OnePlan, TypeOK
<1> QED BY <1>2, <1>3, <1>4, <1>5, <1>6 DEF IInv

----------------------------------------------------------------------------
LEMMA Inductive == ASSUME KeysAssumption, IInv, [Next]_vars PROVE IInv'
<1>1. ASSUME NEW c \in Calls, NEW x \in Tasks \cup Parents, Begin(c, x) PROVE IInv'
  BY <1>1, BeginKeeps
<1>2. ASSUME NEW c \in Calls, Proceed(c) PROVE IInv'
  BY <1>2, TakeKeyKeeps, FetchForPrKeeps, LockRowKeeps, CommitPrKeeps, ReportKeeps,
     RecordDecisionKeeps, DedupKeeps, CommitSubtaskKeeps DEF Proceed
<1>3. ASSUME NEW c \in Calls, Cancel(c) PROVE IInv'
  BY <1>3, EndKeeps DEF Cancel
<1>4. ASSUME NEW p \in Parents, FinishPlan(p) \/ DecisionExpires(p) PROVE IInv'
  BY <1>4, BesidesKeeps
<1>5. CASE UNCHANGED vars
  BY <1>5 DEF vars, IInv, TypeOK, OnItsOwn, KeysExclusive, KeyHeld, LooksUnderKey, PrStillMissing,
              ReportedAfterRecord, NoPlanYet, Safe, OpeningPr, CreatingPlan, OneMilestone, OnePlan
<1> QED BY <1>1, <1>2, <1>3, <1>4, <1>5 DEF Next

LEMMA Invariance == ASSUME KeysAssumption PROVE Spec => []IInv
<1>1. Init => IInv
  BY Initially
<1>2. IInv /\ [Next]_vars => IInv'
  BY Inductive
<1> QED BY <1>1, <1>2, PTL DEF Spec

(* open_pr reports a task's pull request once, however many requests and   *)
(* retries open it, although its mid-verb commit gives up the lock         *)
(* (_record_pr_atomically) before it reports.                              *)
THEOREM OneMilestoneHolds == ASSUME KeysAssumption PROVE Spec => []OneMilestone
<1>1. IInv => OneMilestone
  BY DEF IInv, Safe
<1> QED BY <1>1, Invariance, PTL

(* delegate creates one planning subtask at a time under a parent that     *)
(* always had a fresh decision when it was delegated under.                *)
THEOREM OnePlanHolds == ASSUME KeysAssumption PROVE Spec => []OnePlan
<1>1. IInv => OnePlan
  BY DEF IInv, Safe
<1> QED BY <1>1, Invariance, PTL

(* Every variable keeps to its values.                                     *)
THEOREM TypeCorrect == ASSUME KeysAssumption PROVE Spec => []TypeOK
<1>1. IInv => TypeOK
  BY DEF IInv
<1> QED BY <1>1, Invariance, PTL
=============================================================================
