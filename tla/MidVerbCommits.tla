--------------------------- MODULE MidVerbCommits ---------------------------
(***************************************************************************)
(* The two verbs that create something once under a transaction-scoped     *)
(* advisory lock and commit before they are done: open_pr, one key per     *)
(* task, and delegate, one key per parent.  A commit releases every lock   *)
(* of the transaction, the key among them, and the verb runs on without.   *)
(*                                                                         *)
(* open_pr takes its key before it first reads the task, and its row lock  *)
(* is the UPDATE of a flush; delegate's dedup is a query, which sees what  *)
(* other sessions committed.                                               *)
(***************************************************************************)
EXTENDS Naturals

CONSTANTS
  Tasks,    \* tasks in progress whose developer opens their pull request
  Parents,  \* tasks a PM delegates planning subtasks under
  Calls,    \* requests in flight: each runs one verb after another
  Nobody    \* a key not held

(* The lock families are seeded differently, so no two keys collide.       *)
ASSUME KeysAssumption == Tasks \cap Parents = {} /\ Nobody \notin Tasks \cup Parents

VARIABLES
  pr,          \* tasks with a pull request on record
  milestones,  \* task -> its "opened PR" progress entries
  plans,       \* parent -> its committed unfinished planning subtasks
  decided,     \* parents with a fresh journal:decision
  call,        \* the requests: where they are, on what, with which key
  unguarded    \* history: parents delegated under after the key was let go

vars == <<pr, milestones, plans, decided, call, unguarded>>

Steps == {"idle", "keyless", "fetching", "recording", "dedup", "ready", "writing",
          "reporting"}

Idle == [at |-> "idle", on |-> Nobody, key |-> Nobody]

Init ==
  /\ pr = {}
  /\ milestones = [t \in Tasks |-> 0]
  /\ plans = [p \in Parents |-> 0]
  /\ decided \in SUBSET Parents
  /\ call = [c \in Calls |-> Idle]
  /\ unguarded = {}

----------------------------------------------------------------------------
KeyFree(k) == \A c \in Calls : call[c].key # k

(* A row is locked from the flush that updates it to the next commit.      *)
RowFree(t) == \A c \in Calls : ~(call[c].at = "writing" /\ call[c].on = t)

End(c) == call' = [call EXCEPT ![c] = Idle]
GoTo(c, step) == call' = [call EXCEPT ![c].at = step]
GoToKeyless(c, step) == call' = [call EXCEPT ![c] = [@ EXCEPT !.at = step, !.key = Nobody]]

Begin(c, x) ==
  /\ call[c].at = "idle"
  /\ call' = [call EXCEPT ![c] = [at |-> "keyless", on |-> x, key |-> Nobody]]
  /\ UNCHANGED <<pr, milestones, plans, decided, unguarded>>

AfterKey(x) == IF x \in Tasks THEN "fetching" ELSE "recording"

(* acquire_task_lock and acquire_delegate_parent_lock, first thing.        *)
TakeKey(c) ==
  LET x == call[c].on
  IN /\ call[c].at = "keyless"
     /\ KeyFree(x)
     /\ call' = [call EXCEPT ![c] = [at |-> AfterKey(x), on |-> x, key |-> x]]
     /\ UNCHANGED <<pr, milestones, plans, decided, unguarded>>

(* open_pr: a task with a pull request is answered as already open.        *)
FetchForPr(c) ==
  /\ call[c].at = "fetching"
  /\ IF call[c].on \in pr THEN End(c) ELSE GoTo(c, "ready")
  /\ UNCHANGED <<pr, milestones, plans, decided, unguarded>>

LockRow(c) ==
  /\ call[c].at = "ready"
  /\ RowFree(call[c].on)
  /\ GoTo(c, "writing")
  /\ UNCHANGED <<pr, milestones, plans, decided, unguarded>>

(* Fault: the commit in the middle of open_pr does not carry the number.   *)
PrCommittedEmpty(c) ==
  /\ call[c].at = "writing"
  /\ call[c].on \in Tasks
  /\ GoToKeyless(c, "reporting")
  /\ UNCHANGED <<pr, milestones, plans, decided, unguarded>>

(* _record_pr_atomically: the pull request is on record, the row and the   *)
(* key are released, and the verb goes on to its milestone.                *)
CommitPr(c) ==
  /\ call[c].at = "writing"
  /\ call[c].on \in Tasks
  /\ pr' = pr \cup {call[c].on}
  /\ GoToKeyless(c, "reporting")
  /\ UNCHANGED <<milestones, plans, decided, unguarded>>

Report(c) ==
  /\ call[c].at = "reporting"
  /\ milestones' = [milestones EXCEPT ![call[c].on] = @ + 1]
  /\ End(c)
  /\ UNCHANGED <<pr, plans, decided, unguarded>>

(* _ensure_pm_decision: a fresh decision is found, or one is written and   *)
(* the journal commits the session down to its root, savepoint or not,     *)
(* which lets go of the parent's key; the verb goes on either way.         *)
RecordDecision(c) ==
  LET p == call[c].on
  IN /\ call[c].at = "recording"
     /\ IF p \in decided
        THEN GoTo(c, "dedup") /\ UNCHANGED <<decided, unguarded>>
        ELSE /\ GoToKeyless(c, "dedup")
             /\ decided' = decided \cup {p}
             /\ unguarded' = unguarded \cup {p}
     /\ UNCHANGED <<pr, milestones, plans>>

(* Fault: a cap of two.                                                    *)
DedupUpToTwo(c) ==
  /\ call[c].at = "dedup"
  /\ IF plans[call[c].on] > 1 THEN End(c) ELSE GoTo(c, "writing")
  /\ UNCHANGED <<pr, milestones, plans, decided, unguarded>>

(* _delegate_sibling_dedup_guard, on the committed siblings.               *)
Dedup(c) ==
  /\ call[c].at = "dedup"
  /\ IF plans[call[c].on] > 0 THEN End(c) ELSE GoTo(c, "writing")
  /\ UNCHANGED <<pr, milestones, plans, decided, unguarded>>

CommitSubtask(c) ==
  /\ call[c].at = "writing"
  /\ call[c].on \in Parents
  /\ plans' = [plans EXCEPT ![call[c].on] = @ + 1]
  /\ End(c)
  /\ UNCHANGED <<pr, milestones, decided, unguarded>>

(* Fault: a key of the session, not of the transaction, outlives it.       *)
CancelledWithKey(c) ==
  /\ call[c].at # "idle"
  /\ call' = [call EXCEPT ![c] = [Idle EXCEPT !.key = call[c].key]]
  /\ UNCHANGED <<pr, milestones, plans, decided, unguarded>>

(* A request that is cancelled (FlowVerbTimeoutMiddleware), refused by     *)
(* lock_timeout or cut off: what it had not committed is gone, and the     *)
(* rollback gives back its locks.                                          *)
Cancel(c) ==
  /\ call[c].at # "idle"
  /\ End(c)
  /\ UNCHANGED <<pr, milestones, plans, decided, unguarded>>

(* Fault: a planning subtask that is over is ended again.                  *)
FinishPlanAgain(p) ==
  /\ plans' = [plans EXCEPT ![p] = @ - 1]
  /\ UNCHANGED <<pr, milestones, decided, call, unguarded>>

(* A planning subtask comes to its end; a decision grows old.              *)
FinishPlan(p) ==
  /\ plans[p] > 0
  /\ plans' = [plans EXCEPT ![p] = @ - 1]
  /\ UNCHANGED <<pr, milestones, decided, call, unguarded>>

DecisionExpires(p) ==
  /\ p \in decided
  /\ decided' = decided \ {p}
  /\ UNCHANGED <<pr, milestones, plans, call, unguarded>>

----------------------------------------------------------------------------
Proceed(c) ==
  \/ TakeKey(c)
  \/ FetchForPr(c)
  \/ LockRow(c)
  \/ CommitPr(c)
  \/ Report(c)
  \/ RecordDecision(c)
  \/ Dedup(c)
  \/ CommitSubtask(c)

Next ==
  \/ \E c \in Calls : (\E x \in Tasks \cup Parents : Begin(c, x)) \/ Proceed(c) \/ Cancel(c)
  \/ \E p \in Parents : FinishPlan(p) \/ DecisionExpires(p)

Spec == Init /\ [][Next]_vars

(* A request runs on unless it waits for a lock, and Postgres grants locks *)
(* in the order they were asked for: who waits is not passed over for ever.*)
FairSpec == Spec /\ \A c \in Calls : SF_vars(Proceed(c))

----------------------------------------------------------------------------
CallRecord == [at: Steps, on: Tasks \cup Parents \cup {Nobody},
               key: Tasks \cup Parents \cup {Nobody}]

(* Every variable keeps to its values, and a request to what it works on.  *)
TypeOK ==
  /\ pr \subseteq Tasks
  /\ milestones \in [Tasks -> Nat]
  /\ plans \in [Parents -> Nat]
  /\ decided \subseteq Parents
  /\ call \in [Calls -> CallRecord]
  /\ unguarded \subseteq Parents

(* "a double-emitted progress entry" (acquire_task_lock): however many     *)
(* requests and retries open a task's pull request, and although open_pr   *)
(* lets go of the key before it reports, the milestone is reported once.   *)
OneMilestone == \A t \in Tasks : milestones[t] <= 1

(* "its dedup read then sees the first's committed sibling": one planning  *)
(* subtask at a time under a parent, unless the key was let go early.      *)
OnePlan == \A p \in Parents \ unguarded : plans[p] <= 1

(* No ring of requests that wait for one another's locks, and no lock that *)
(* outlives its request: every request comes to its end.                   *)
CallsEnd == \A c \in Calls : (call[c].at # "idle") ~> (call[c].at = "idle")
=============================================================================
