------------------------ MODULE ClaimSessionsProofs ------------------------
(***************************************************************************)
(* One active task per developer, for any number of tasks, agents and      *)
(* requests.  The argument: a developer's key is held by one request at a  *)
(* time, and it is held from before the guards look at the other tasks to  *)
(* the commit, so nobody but a request without the key can have put the    *)
(* developer to work in between; a request without the key that leaves a   *)
(* task in progress leaves its developer in unguarded.                     *)
(***************************************************************************)
EXTENDS ClaimSessions, TLAPS

(* No two requests hold the same key.                                      *)
KeysExclusive ==
  \A c, e \in Calls : c # e /\ call[c].key # Nobody => call[c].key # call[e].key

(* A key is its request's agent's, and a claim has it from its guards on.  *)
KeyIsAgents ==
  \A c \in Calls :
    /\ call[c].key # Nobody => call[c].key = call[c].agent
    /\ call[c].at \in {"checking", "ready"} /\ call[c].verb = "i_will_work_on"
         => call[c].key = call[c].agent /\ call[c].key # Nobody
    /\ call[c].key # Nobody \/ call[c].at = "keyless" => call[c].verb = "i_will_work_on"

(* A fresh claim is of a task that was pending when it was fetched.        *)
FreshClaimOfPending ==
  \A c \in Calls : call[c].at # "idle" /\ call[c].verb = "i_will_work_on"
                     => call[c].agent \in Devs /\ call[c].seen.status = "pending"

Elsewhere(d, t) == \E u \in Tasks \ {t} : Active(d, u)

(* What the guards found out still holds when the claim is written.        *)
GuardsHold ==
  \A c \in Calls :
    call[c].at = "ready" /\ call[c].verb = "i_will_work_on" /\ call[c].agent \notin unguarded
      => ~Elsewhere(call[c].agent, call[c].on)

IInv ==
  /\ TypeOK
  /\ KeysExclusive
  /\ KeyIsAgents
  /\ FreshClaimOfPending
  /\ GuardsHold
  /\ OneActiveTask

----------------------------------------------------------------------------
LEMMA FlushedType ==
  ASSUME NEW db \in Row, NEW seen \in Row, NEW new \in Row
  PROVE  Flushed(db, seen, new) \in Row
  BY DEF Flushed, Row

LEMMA WrittenType ==
  ASSUME AgentsAssumption, NEW db \in Row, NEW seen \in Row, NEW verb \in Verbs,
         NEW a \in AgentOrNone
  PROVE  Written(verb, a, seen, db) \in Row
<1> DEFINE New == {[seen EXCEPT !.status = "in_progress"], Claimed(seen, a),
                   [seen EXCEPT !.status = "awaiting_qa",
                                !.assigned = Nobody, !.claimant = Nobody],
                   [seen EXCEPT !.status = "pending",
                                !.assigned = Nobody, !.claimant = Nobody],
                   [seen EXCEPT !.status = "pending", !.claimant = Nobody,
                                !.assigned = ReapedOwner(seen)],
                   [seen EXCEPT !.assigned = a, !.claimant = a]}
<1>1. \A n \in New : n \in Row
  <2>1. ReapedOwner(seen) \in AgentOrNone
    BY DEF ReapedOwner, Row
  <2>2. Claimed(seen, a) \in Row
    BY DEF Claimed, Row, Statuses
  <2>3. Nobody \in AgentOrNone
    BY DEF AgentOrNone
  <2> QED BY <2>1, <2>2, <2>3 DEF Row, Statuses
<1>2. \A n \in New : Flushed(db, seen, n) \in Row
  BY <1>1, FlushedType
<1>3. ClaimedAndStarted(db, seen, a) \in Row
  <2>1. Flushed(db, seen, Claimed(seen, a)) \in Row
    BY <1>2
  <2> QED BY <2>1 DEF ClaimedAndStarted, Row, Statuses
<1> QED BY <1>2, <1>3 DEF Written, Verbs

(* A fresh claim leaves the task in progress only with its own agent, the  *)
(* crossed claim that start() refuses leaves it claimed.                   *)
LEMMA FreshClaimStartsOwn ==
  ASSUME NEW db \in Row, NEW seen \in Row, NEW a, seen.status = "pending",
         ClaimedAndStarted(db, seen, a).status = "in_progress"
  PROVE  ClaimedAndStarted(db, seen, a).assigned = a
<1> DEFINE r == Flushed(db, seen, Claimed(seen, a))
<1>1. r.status = "claimed" /\ r \in [DOMAIN db -> UNION {{r[f]} : f \in DOMAIN db}]
  BY DEF Flushed, Claimed, Row
<1>2. DOMAIN r = {"status", "assigned", "claimant"}
  BY DEF Flushed, Row
<1> HIDE DEF r
<1>3. ClaimedAndStarted(db, seen, a) =
        IF r.assigned = a /\ r.status = "claimed"
        THEN [r EXCEPT !.status = "in_progress"] ELSE r
  BY DEF ClaimedAndStarted, r
<1> QED BY <1>1, <1>2, <1>3

LEMMA Initially == ASSUME AgentsAssumption, Init PROVE IInv
<1>1. TypeOK
  BY DEF Init, TypeOK, NewRow, Row, Statuses, AgentOrNone, CallRecord, Idle, Steps, Verbs
<1>2. KeysExclusive /\ KeyIsAgents /\ FreshClaimOfPending /\ GuardsHold
  BY DEF Init, Idle, KeysExclusive, KeyIsAgents, FreshClaimOfPending, GuardsHold
<1>3. OneActiveTask
  BY DEF Init, OneActiveTask, Active, NewRow
<1> QED BY <1>1, <1>2, <1>3 DEF IInv

----------------------------------------------------------------------------
(* Steps that leave the rows alone and give c a new record.                *)

(* A request that ends, by itself or cut off, gives back its key.          *)
LEMMA EndKeeps ==
  ASSUME IInv, AgentsAssumption, NEW c \in Calls, End(c), UNCHANGED <<row, unguarded>>
  PROVE  IInv'
<1>1. \A e \in Calls : call'[e] = IF e = c THEN Idle ELSE call[e]
  BY DEF End, IInv, TypeOK
<1>2. TypeOK'
  BY DEF End, IInv, TypeOK, Idle, CallRecord, Steps, Verbs, NewRow, Row, Statuses, AgentOrNone
<1>3. KeysExclusive' /\ KeyIsAgents' /\ FreshClaimOfPending'
  BY <1>1 DEF IInv, KeysExclusive, KeyIsAgents, FreshClaimOfPending, Idle
<1>4. GuardsHold'
  BY <1>1 DEF IInv, GuardsHold, Idle, Elsewhere, Active
<1>5. OneActiveTask'
  BY DEF IInv, OneActiveTask, Active
<1> QED BY <1>2, <1>3, <1>4, <1>5 DEF IInv

LEMMA FetchKeeps ==
  ASSUME IInv, AgentsAssumption, NEW c \in Calls, NEW verb \in Verbs,
         NEW a \in AgentOrNone, NEW t \in Tasks, Fetch(c, verb, a, t)
  PROVE  IInv'
<1> DEFINE new == [at |-> FirstStep(verb), verb |-> verb, agent |-> a, on |-> t,
                   key |-> Nobody, seen |-> row[t]]
<1>0. new.at = FirstStep(verb) /\ new.verb = verb /\ new.agent = a /\ new.key = Nobody
        /\ new.seen = row[t]
  OBVIOUS
<1>1. \A e \in Calls : call'[e] = IF e = c THEN new ELSE call[e]
  BY DEF Fetch, Started, IInv, TypeOK
<1>2. UNCHANGED <<row, unguarded>> /\ Gate(verb, a, row[t])
  BY DEF Fetch, Started
<1>3. TypeOK'
  <2>1. new \in CallRecord
    BY DEF CallRecord, IInv, TypeOK, FirstStep, Steps, Verbs
  <2> QED BY <2>1, <1>2 DEF Fetch, Started, IInv, TypeOK
<1> HIDE DEF new
<1>4. KeysExclusive'
  BY <1>0, <1>1 DEF IInv, KeysExclusive
<1>5. KeyIsAgents'
  BY <1>0, <1>1 DEF IInv, KeyIsAgents, FirstStep
<1>6. FreshClaimOfPending'
  BY <1>0, <1>1, <1>2 DEF IInv, FreshClaimOfPending, Gate
<1>7. GuardsHold'
  BY <1>0, <1>1, <1>2 DEF IInv, GuardsHold, FirstStep, Elsewhere, Active
<1>8. OneActiveTask'
  BY <1>2 DEF IInv, OneActiveTask, Active
<1> QED BY <1>3, <1>4, <1>5, <1>6, <1>7, <1>8 DEF IInv

LEMMA TakeKeyKeeps ==
  ASSUME IInv, AgentsAssumption, NEW c \in Calls, TakeKey(c)
  PROVE  IInv'
<1> DEFINE new == [[call[c] EXCEPT !.key = call[c].agent] EXCEPT !.at = "checking"]
<1>a. /\ call[c] \in CallRecord
      /\ call[c].agent \in Devs
      /\ call[c].verb = "i_will_work_on"
      /\ call[c].seen.status = "pending"
  BY DEF IInv, TypeOK, KeyIsAgents, FreshClaimOfPending, TakeKey
<1>0. new.at = "checking" /\ new.verb = call[c].verb /\ new.agent = call[c].agent
        /\ new.key = call[c].agent /\ new.seen = call[c].seen /\ new.on = call[c].on
        /\ new \in CallRecord
  BY <1>a DEF CallRecord, Steps
<1>1. \A e \in Calls : call'[e] = IF e = c THEN new ELSE call[e]
  BY DEF TakeKey, IInv, TypeOK
<1>2. UNCHANGED <<row, unguarded>> /\ KeyFree(call[c].agent)
  BY DEF TakeKey
<1>b. call' \in [Calls -> CallRecord]
  <2>1. call' = [call EXCEPT ![c] = new]
    BY DEF TakeKey, IInv, TypeOK
  <2> HIDE DEF new
  <2> QED BY <2>1, <1>0 DEF IInv, TypeOK
<1>3. TypeOK'
  BY <1>0, <1>1, <1>b, <1>2 DEF IInv, TypeOK, TakeKey
<1> HIDE DEF new
<1>4. KeysExclusive'
  BY <1>0, <1>1, <1>2 DEF IInv, KeysExclusive, KeyFree
<1>5. KeyIsAgents'
  BY <1>0, <1>1, <1>a, AgentsAssumption DEF IInv, KeyIsAgents, AgentsAssumption
<1>6. FreshClaimOfPending'
  BY <1>0, <1>1, <1>a DEF IInv, FreshClaimOfPending
<1>7. GuardsHold'
  BY <1>0, <1>1, <1>2 DEF IInv, GuardsHold, Elsewhere, Active
<1>8. OneActiveTask'
  BY <1>2 DEF IInv, OneActiveTask, Active
<1> QED BY <1>3, <1>4, <1>5, <1>6, <1>7, <1>8 DEF IInv

LEMMA RunGuardsKeeps ==
  ASSUME IInv, AgentsAssumption, NEW c \in Calls, RunGuards(c)
  PROVE  IInv'
<1>1. CASE BusyElsewhere(call[c].agent, call[c].on)
  BY <1>1, EndKeeps DEF RunGuards
<1>2. CASE ~BusyElsewhere(call[c].agent, call[c].on)
  <2> DEFINE new == [call[c] EXCEPT !.at = "ready"]
  <2>0. new.at = "ready" /\ new.verb = call[c].verb /\ new.agent = call[c].agent
          /\ new.key = call[c].key /\ new.seen = call[c].seen /\ new.on = call[c].on
          /\ new \in CallRecord
    BY DEF IInv, TypeOK, CallRecord, Steps
  <2>1. call' = [call EXCEPT ![c] = new] /\ UNCHANGED <<row, unguarded>>
    BY <1>2 DEF RunGuards, GoTo, IInv, TypeOK
  <2> HIDE DEF new
  <2>2. \A e \in Calls : call'[e] = IF e = c THEN new ELSE call[e]
    BY <2>1 DEF IInv, TypeOK
  <2>3. TypeOK'
    BY <2>0, <2>1, <2>2 DEF IInv, TypeOK, RunGuards
  <2>4. KeysExclusive'
    BY <2>0, <2>2 DEF IInv, KeysExclusive
  <2>5. KeyIsAgents'
    BY <2>0, <2>2 DEF IInv, KeyIsAgents, RunGuards
  <2>6. FreshClaimOfPending'
    BY <2>0, <2>2 DEF IInv, FreshClaimOfPending, RunGuards
  <2>7. GuardsHold'
    BY <2>0, <2>1, <2>2, <1>2 DEF IInv, GuardsHold, Elsewhere, Active, BusyElsewhere
  <2>8. OneActiveTask'
    BY <2>1 DEF IInv, OneActiveTask, Active
  <2> QED BY <2>3, <2>4, <2>5, <2>6, <2>7, <2>8 DEF IInv
<1> QED BY <1>1, <1>2

----------------------------------------------------------------------------
(* The commit of a row.  Whoever has the task in progress after it, and    *)
(* had not before, is in unguarded or holds the key of the commit.         *)
LEMMA CommitRowKeeps ==
  ASSUME IInv, AgentsAssumption, NEW c \in Calls, CommitRow(c)
  PROVE  IInv'
<1> DEFINE k == call[c]
           t == call[c].on
           new == Written(call[c].verb, call[c].agent, call[c].seen, row[call[c].on])
<1>a. k \in CallRecord /\ k.at = "ready"
  BY DEF IInv, TypeOK, CommitRow
<1>1. row' = [row EXCEPT ![t] = new] /\ End(c)
        /\ unguarded' = IF k.key = Nobody /\ new.status = "in_progress"
                        THEN unguarded \cup {new.assigned} ELSE unguarded
  BY DEF CommitRow
<1>2. \A e \in Calls : call'[e] = IF e = c THEN Idle ELSE call[e]
  BY <1>1 DEF End, IInv, TypeOK
<1>b. t \in Tasks
  BY <1>a DEF IInv, TypeOK
<1>3. new \in Row
  <2>1. row[t] \in Row
    BY <1>b DEF IInv, TypeOK
  <2> QED BY <2>1, <1>a, WrittenType DEF CallRecord
<1>4. k.key # Nobody /\ new.status = "in_progress" => new.assigned = k.key
  <2> SUFFICES ASSUME k.key # Nobody, new.status = "in_progress"
               PROVE  new.assigned = k.key
    OBVIOUS
  <2>1. k.verb = "i_will_work_on" /\ k.key = k.agent /\ k.seen.status = "pending"
    BY <1>a DEF IInv, KeyIsAgents, FreshClaimOfPending
  <2>2. new = ClaimedAndStarted(row[t], k.seen, k.agent)
    BY <2>1 DEF Written
  <2>3. row[t] \in Row /\ k.seen \in Row
    BY <1>a, <1>b DEF IInv, TypeOK, CallRecord
  <2> HIDE DEF new, k, t
  <2> QED BY <2>1, <2>2, <2>3, FreshClaimStartsOwn
<1>c. k.key = Nobody /\ new.status = "in_progress" => new.assigned \in unguarded'
  BY <1>1
<1>d. unguarded \subseteq unguarded'
  BY <1>1
<1>5. k.key # Nobody => k.verb = "i_will_work_on" /\ k.key = k.agent
  BY DEF IInv, KeyIsAgents
<1>6. \A d \in AgentOrNone, u \in Tasks :
        Active(d, u)' => \/ u # t /\ Active(d, u)
                         \/ u = t /\ d \in unguarded'
                         \/ u = t /\ d = k.key /\ k.key # Nobody
  <2> SUFFICES ASSUME NEW d \in AgentOrNone, NEW u \in Tasks, Active(d, u)'
               PROVE  \/ u # t /\ Active(d, u)
                      \/ u = t /\ d \in unguarded'
                      \/ u = t /\ d = k.key /\ k.key # Nobody
    OBVIOUS
  <2>1. CASE u # t
    BY <2>1, <1>1 DEF Active, IInv, TypeOK
  <2>2. CASE u = t
    <3>1. row'[u] = new
      BY <2>2, <1>1 DEF IInv, TypeOK
    <3>2. new.status = "in_progress" /\ new.assigned = d
      BY <3>1 DEF Active
    <3> HIDE DEF new, k, t
    <3> QED BY <2>2, <3>2, <1>4, <1>c
  <2> QED BY <2>1, <2>2
<1>7. TypeOK'
  <2>1. row' \in [Tasks -> Row]
    <3>1. row \in [Tasks -> Row]
      BY DEF IInv, TypeOK
    <3> HIDE DEF new, k, t
    <3> QED BY <1>1, <1>3, <1>b, <3>1
  <2>2. call' \in [Calls -> CallRecord]
    <3>1. Idle \in CallRecord
      BY DEF Idle, CallRecord, Steps, Verbs, NewRow, Row, Statuses, AgentOrNone
    <3> QED BY <1>1, <3>1 DEF End, IInv, TypeOK
  <2>3. unguarded' \subseteq AgentOrNone \cup {new.assigned}
    BY <1>1 DEF IInv, TypeOK
  <2>4. new.assigned \in AgentOrNone
    BY <1>3, <1>b DEF Row
  <2>5. \A e \in Calls : call'[e].at # "idle" => call'[e].on \in Tasks
    BY <1>2 DEF IInv, TypeOK, Idle
  <2> HIDE DEF new, k, t
  <2> QED BY <2>1, <2>2, <2>3, <2>4, <2>5 DEF TypeOK
<1>8. KeysExclusive' /\ KeyIsAgents' /\ FreshClaimOfPending'
  BY <1>2 DEF IInv, KeysExclusive, KeyIsAgents, FreshClaimOfPending, Idle
<1>9. GuardsHold'
  <2>0. \A e \in Calls : call'[e].at = "ready" => e # c /\ call'[e] = call[e]
    BY <1>2 DEF Idle
  <2> SUFFICES ASSUME NEW e \in Calls, e # c, call[e].at = "ready",
                      call[e].verb = "i_will_work_on",
                      NEW d, d = call[e].agent, d \notin unguarded',
                      NEW u \in Tasks \ {call[e].on}, Active(d, u)'
               PROVE  FALSE
    BY <2>0 DEF GuardsHold, Elsewhere, Active
  <2>2. call[e].key = d /\ d # Nobody /\ d \in AgentOrNone
    BY DEF IInv, KeyIsAgents, TypeOK, CallRecord
  <2>3. k.key # Nobody => k.key # call[e].key
    BY DEF IInv, KeysExclusive
  <2>4. ~Active(d, u)
    BY <1>d DEF IInv, GuardsHold, Elsewhere
  <2> HIDE DEF new, k, t
  <2> QED BY <2>2, <2>3, <2>4, <1>6
<1>10. OneActiveTask'
  <2> SUFFICES ASSUME NEW d \in Devs, d \notin unguarded', NEW u \in Tasks, NEW v \in Tasks,
                      Active(d, u)', Active(d, v)', u # v
               PROVE  FALSE
    BY DEF OneActiveTask, Active
  <2>1. d \in AgentOrNone /\ d \notin unguarded
    BY <1>d DEF AgentOrNone
  <2>2. CASE u # t /\ v # t
    <3>1. Active(d, u) /\ Active(d, v)
      BY <2>1, <2>2, <1>6
    <3> QED BY <3>1, <2>1 DEF IInv, OneActiveTask
  <2>3. ASSUME NEW x \in Tasks, NEW y \in Tasks, x = t, y # t, Active(d, x)', Active(d, y)'
        PROVE  FALSE
    <3>1. d = k.key /\ k.key # Nobody
      BY <2>1, <2>3, <1>6
    <3>2. Active(d, y)
      BY <2>1, <2>3, <1>6
    <3>3. ~Elsewhere(d, t)
      BY <3>1, <1>5, <1>a, <2>1 DEF IInv, GuardsHold
    <3> QED BY <3>2, <3>3, <2>3 DEF Elsewhere
  <2> HIDE DEF t
  <2> QED BY <2>2, <2>3
<1> QED BY <1>7, <1>8, <1>9, <1>10 DEF IInv

----------------------------------------------------------------------------
LEMMA Inductive ==
  ASSUME AgentsAssumption, IInv, [Next]_vars PROVE IInv'
<1>1. ASSUME NEW c \in Calls, Begin(c) PROVE IInv'
  BY <1>1, FetchKeeps DEF Begin
<1>2. ASSUME NEW c \in Calls, TakeKey(c) PROVE IInv'
  BY <1>2, TakeKeyKeeps
<1>3. ASSUME NEW c \in Calls, RunGuards(c) PROVE IInv'
  BY <1>3, RunGuardsKeeps
<1>4. ASSUME NEW c \in Calls, CommitRow(c) PROVE IInv'
  BY <1>4, CommitRowKeeps
<1>5. ASSUME NEW c \in Calls, Cancel(c) PROVE IInv'
  BY <1>5, EndKeeps DEF Cancel
<1>6. CASE UNCHANGED vars
  BY <1>6 DEF vars, IInv, TypeOK, KeysExclusive, KeyIsAgents, FreshClaimOfPending,
              GuardsHold, Elsewhere, OneActiveTask, Active
<1> QED BY <1>1, <1>2, <1>3, <1>4, <1>5, <1>6 DEF Next, Proceed

(* Whatever crosses, and however many tasks, agents and requests there     *)
(* are: a developer has two tasks in progress only by way of a request     *)
(* that did not hold the developer's lock (acquire_claim_lock).            *)
THEOREM OneActiveTaskHolds == ASSUME AgentsAssumption PROVE Spec => []OneActiveTask
<1>1. Init => IInv
  BY Initially
<1>2. IInv /\ [Next]_vars => IInv'
  BY Inductive
<1>3. IInv => OneActiveTask
  BY DEF IInv
<1> QED BY <1>1, <1>2, <1>3, PTL DEF Spec

(* The records keep to their types, whatever stale row is written back.    *)
THEOREM TypeCorrect == ASSUME AgentsAssumption PROVE Spec => []TypeOK
<1>1. Init => IInv
  BY Initially
<1>2. IInv /\ [Next]_vars => IInv'
  BY Inductive
<1>3. IInv => TypeOK
  BY DEF IInv
<1> QED BY <1>1, <1>2, <1>3, PTL DEF Spec
=============================================================================
