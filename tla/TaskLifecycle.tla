--------------------------- MODULE TaskLifecycle ---------------------------
(***************************************************************************)
(* The life of a leaf code task: one row of the tasks table, the pull      *)
(* request of its branch on GitHub, and the commits on that branch.        *)
(*                                                                         *)
(* Agents (developers, QA, documenters, the cell's PM, the main PM), HTTP  *)
(* routes and the orchestrator's sweeps all write the row, each through    *)
(* one verb that runs in one database transaction.  A verb is one action   *)
(* here; the merge verb also writes GitHub, which no transaction covers,   *)
(* so its crash between the two is an action of its own.                   *)
(*                                                                         *)
(* Left out, so nothing here speaks of them: the writes that go round the  *)
(* status validator and the verbs (PUT and PATCH /tasks/{id}, /substitute, *)
(* the CEO's and the Secretary's admin_set_status, DELETE, the budget      *)
(* sweep's block); everything about dependencies (POST /block on one, the  *)
(* revival of dependents, the release of a claim behind one), as the task  *)
(* has none; claims of a pending, claimed or rejected leaf by or for an    *)
(* agent who is not a developer, and a cell PM's POST /claim of a task in  *)
(* PM review; activation from the backlog, and approve-and-start, which    *)
(* makes a leaf the main PM's; the main PM's submission of a leaf for PM   *)
(* review, which goes to the product owner; a merge on GitHub by number,   *)
(* without its task; the waiver of a pull request.                         *)
(***************************************************************************)
CONSTANTS
  Tasks,       \* leaf tasks of one cell
  Devs, QAs, Docs,
  CellPm, MainPm,
  Nobody,      \* a NULL agent column
  HeadLeaves,  \* tasks whose pull request targets the CEO-only head branch
  Enabled      \* which of OptionalPaths the instance switches on

(* The modelled entrances to the row that the agents' ordinary verbs do    *)
(* not need: each is code of the repository, and each run names the ones   *)
(* it includes.                                                            *)
OptionalPaths ==
  {"plain_unblock",    \* POST /unblock, or the verb with restore=False
   "divert",           \* main PM escalates above itself
   "http_start",       \* POST /start
   "http_create_pr",   \* POST /git/pr/create
   "http_merge",       \* POST /git/pr/merge, or /complete in PM review, by a PM
   "merge_blip",       \* GitHub unreachable while "is it merged?" is asked
   "http_submit_pm_review",  \* POST /submit-pm-review, a developer's too
   "http_submit_qa",         \* POST /verify and /submit-qa by any assignee
   "http_docs_complete",     \* POST /docs-complete, from work as well
   "http_qa",                \* POST /pass-qa and /fail-qa by any QA
   "http_complete",          \* POST /complete of a PM's task in progress
   "http_escalate",          \* POST /escalate by a developer, QA or documenter
   "http_claim_review"}      \* POST /claim of a task in a reviewer's queue

Agents == Devs \cup QAs \cup Docs \cup {CellPm, MainPm}
AgentOrNone == Agents \cup {Nobody}

ASSUME AgentsAssumption ==
  /\ Nobody \notin Agents
  /\ CellPm # MainPm
  /\ Devs \cap (QAs \cup Docs \cup {CellPm, MainPm}) = {}
  /\ QAs \cap (Docs \cup {CellPm, MainPm}) = {}
  /\ Docs \cap {CellPm, MainPm} = {}

ASSUME PathsAssumption == HeadLeaves \subseteq Tasks /\ Enabled \subseteq OptionalPaths

Working   == {"claimed", "in_progress", "paused", "verifying"}
InReview  == {"awaiting_qa", "awaiting_documentation",
              "awaiting_pm_review", "awaiting_ceo_approval"}
Terminal  == {"completed", "cancelled"}
Live      == {"pending", "needs_revision"} \cup Working \cup InReview
Statuses  == Live \cup {"blocked"} \cup Terminal

(* The columns of a task row the verbs read or write.  pre and preOwner    *)
(* are pre_block_state and pre_block_assignee; session is the work session *)
(* the row points at, with its pr_status.                                  *)
Row ==
  [status: Statuses,
   assigned: AgentOrNone, claimed: AgentOrNone, claimant: AgentOrNone,
   pre: Live \cup {"none"}, preOwner: AgentOrNone, raisedBy: AgentOrNone,
   origDev: AgentOrNone,
   branch: BOOLEAN, pr: BOOLEAN, docs: BOOLEAN,
   session: {"none", "live", "merged"}]

VARIABLES
  task,      \* the rows
  forge,     \* the pull request on GitHub
  unread,    \* tasks whose branch has developer commits no QA pass has read
  unmerged,  \* tasks whose branch has commits the base branch lacks
  rest       \* history: where a blocked task rested, and with whom

vars == <<task, forge, unread, unmerged, rest>>
git == <<forge, unread, unmerged>>

NoRest == [status |-> "none", owner |-> Nobody]

NewRow(a) ==
  [status |-> "pending", assigned |-> a, claimed |-> Nobody, claimant |-> Nobody,
   pre |-> "none", preOwner |-> Nobody, raisedBy |-> Nobody, origDev |-> Nobody,
   branch |-> FALSE, pr |-> FALSE, docs |-> FALSE, session |-> "none"]

(* A delegated task is born pending, with or without a developer.          *)
Init ==
  /\ task \in [Tasks -> {NewRow(a) : a \in Devs \cup {Nobody}}]
  /\ forge = [t \in Tasks |-> "none"]
  /\ unread = {}
  /\ unmerged = {}
  /\ rest = [t \in Tasks |-> NoRest]

(* One transaction's write of one row; rest follows it as a history.       *)
Put(t, row) ==
  /\ task' = [task EXCEPT ![t] = row]
  /\ rest' = [rest EXCEPT ![t] =
       IF row.status # "blocked" THEN NoRest
       ELSE IF task[t].status = "blocked" THEN @
       ELSE [status |-> task[t].status, owner |-> task[t].assigned]]

PutRow(t, row) == Put(t, row) /\ UNCHANGED git

----------------------------------------------------------------------------
(* The service layer: what each TaskService method does to a row.          *)

Owned(r, a) == [r EXCEPT !.assigned = a, !.claimed = a, !.claimant = a]

(* TaskService.reassign: the lock survives only if the new owner holds it. *)
Reassigned(r, a) ==
  [r EXCEPT !.assigned = a, !.claimed = a,
            !.claimant = IF @ = a THEN @ ELSE Nobody]

Released(r) ==
  [r EXCEPT !.assigned = Nobody, !.claimed = Nobody, !.claimant = Nobody]

(* Fault: the claim does not take the lock.                                *)
FinalizeClaimUnlocked(r, d) ==
  [r EXCEPT !.assigned = d, !.claimed = d, !.branch = TRUE, !.session = "live",
            !.status = IF @ = "pending" THEN "claimed" ELSE @]

FinalizeClaim(r, d) ==
  [Owned(r, d) EXCEPT !.status = IF @ = "pending" THEN "claimed" ELSE @,
                      !.branch = TRUE,
                      !.session = "live"]

Started(r) == [r EXCEPT !.status = "in_progress"]

(* Fault: a block of a blocked task takes its snapshot again.              *)
SnapshotAgain(r) ==
  [r EXCEPT !.pre = r.status,
            !.preOwner = IF r.assigned # Nobody THEN r.assigned ELSE r.claimed]

(* The snapshot is taken once: a second block keeps the first one.         *)
Snapshot(r) ==
  IF r.pre # "none" THEN r
  ELSE [r EXCEPT !.pre = r.status,
                 !.preOwner = IF r.assigned # Nobody THEN r.assigned ELSE r.claimed]

Raised(r) ==
  [r EXCEPT !.raisedBy = IF @ = Nobody THEN r.assigned ELSE @]

SoftBlocked(r) == [Snapshot(Raised(r)) EXCEPT !.status = "blocked"]

(* Fault: the snapshot is taken after the owner was replaced.              *)
EscalatedThenSnapshot(r, target) ==
  [Snapshot([Raised(r) EXCEPT !.assigned = target, !.claimed = target])
     EXCEPT !.status = "blocked"]

(* TaskService.apply_escalation toward an agent that may own the task.     *)
Escalated(r, target) ==
  [Snapshot(Raised(r)) EXCEPT !.status = "blocked",
                              !.assigned = target, !.claimed = target]

(* ... and toward a board role, which may own no cell task: the row goes   *)
(* to the pool, its snapshot and raiser stay.                              *)
DivertedToPool(r) == [Released(r) EXCEPT !.status = "pending"]

(* Fault: a task without a branch goes to in_progress.                     *)
PlainUnblockedBranchless(r) ==
  [r EXCEPT !.status = "in_progress", !.raisedBy = Nobody]

PlainUnblocked(r) ==
  LET owner == IF r.raisedBy # Nobody THEN r.raisedBy
               ELSE IF r.assigned # Nobody THEN r.assigned ELSE r.claimed
  IN [r EXCEPT !.assigned = owner, !.claimed = owner, !.raisedBy = Nobody,
               !.status = IF r.branch THEN "in_progress" ELSE "pending"]

(* A fault: the snapshot survives its restore.                             *)
RestoredKeepingSnapshot(r) ==
  [Owned(r, IF r.preOwner # Nobody THEN r.preOwner ELSE r.assigned) EXCEPT
     !.status = r.pre, !.raisedBy = Nobody]

Restored(r) ==
  LET reowned == IF r.preOwner # Nobody THEN Owned(r, r.preOwner) ELSE r
  IN [reowned EXCEPT
        !.status = IF r.pre = "in_progress" /\ ~r.branch THEN "pending" ELSE r.pre,
        !.pre = "none", !.preOwner = Nobody, !.raisedBy = Nobody]

UnclaimedFromBlocked(r) ==
  [Released(r) EXCEPT !.status = "pending", !.session = "none",
                      !.pre = "none", !.preOwner = Nobody, !.raisedBy = Nobody]

(* Fault: the assignment is released and the lock is not.                  *)
UnclaimedKeepingLock(r) ==
  [r EXCEPT !.status = "pending", !.session = "none", !.assigned = Nobody]

(* claimed_by keeps the last claimer: it is history, not ownership.        *)
UnclaimedFromWork(r) ==
  [r EXCEPT !.status = "pending", !.session = "none",
            !.assigned = Nobody, !.claimant = Nobody]

Reaped(r) ==
  LET owner == IF r.assigned # Nobody THEN r.assigned
               ELSE IF r.claimed # Nobody THEN r.claimed ELSE r.claimant
  IN [r EXCEPT !.status = "pending", !.session = "none",
               !.assigned = owner, !.claimed = owner, !.claimant = Nobody]

(* Faults: the lock is kept; the developer is looked up after the clearing.*)
SubmittedKeepingLock(r) ==
  [r EXCEPT !.status = "awaiting_qa", !.origDev = r.assigned,
            !.assigned = Nobody, !.claimed = Nobody]

SubmittedForgettingDev(r) ==
  LET cleared == Released(r)
  IN [cleared EXCEPT !.status = "awaiting_qa", !.origDev = cleared.assigned]

(* submit_for_qa: the developer is remembered, then ownership cleared.     *)
SubmittedForQa(r) ==
  [Released(r) EXCEPT !.status = "awaiting_qa", !.origDev = r.assigned]

QaPassed(r) ==
  [Released(r) EXCEPT !.status = "awaiting_documentation", !.docs = FALSE]

(* A rework goes back to the developer who submitted it, or to the cell's  *)
(* PM when none is on record.  ceo_reject leaves the lock where it was,    *)
(* and a task without a developer to nobody.                               *)
SentBack(r) ==
  LET owner == IF r.origDev # Nobody THEN r.origDev ELSE CellPm
  IN [r EXCEPT !.status = "needs_revision", !.claimant = Nobody,
               !.assigned = owner, !.claimed = owner]

CeoRejected(r) ==
  [r EXCEPT !.status = "needs_revision",
            !.assigned = r.origDev, !.claimed = r.origDev]

ToPmReview(r) == [Owned(r, CellPm) EXCEPT !.status = "awaiting_pm_review"]

DocsCompleted(r) ==
  IF r.pr THEN [ToPmReview(r) EXCEPT !.docs = TRUE] ELSE [r EXCEPT !.docs = TRUE]

(* mark_pr_created: docs_complete and pr_created are two flags of a        *)
(* parallel phase, and whichever is set second moves the task on.          *)
PrMarked(r) ==
  IF r.docs THEN [ToPmReview(r) EXCEPT !.pr = TRUE] ELSE [r EXCEPT !.pr = TRUE]

(* Fault: the session is not looked at.                                    *)
PrMergeNotAsked(r) == r.status # "completed"

(* _assert_pr_merged_for_complete: a task with no work session passes.     *)
PrMergedForComplete(r) == r.session \in {"none", "merged"}

(* WorkSessionService.merge_pr                                             *)
SessionMerged(r) == [r EXCEPT !.session = IF @ = "live" THEN "merged" ELSE @]

Completed(r) == [r EXCEPT !.status = "completed"]

----------------------------------------------------------------------------
(* Claiming and working.                                                   *)

(* _run_claim_guards: what the agent's other tasks forbid.  A blocked task *)
(* counts while it is still assigned to the agent.                         *)
BusyElsewhere(d, t) ==
  \E u \in Tasks \ {t} :
    /\ task[u].assigned = d
    /\ task[u].status \in {"in_progress", "blocked", "paused"}

IWillWorkOn(d, t) ==
  /\ task[t].status \in {"pending", "needs_revision"}
  /\ task[t].assigned \in {Nobody, d}
  /\ ~BusyElsewhere(d, t)
  /\ PutRow(t, Started(FinalizeClaim(task[t], d)))

(* POST /claim by a privileged caller: no look at the developer's tasks,   *)
(* and a task assigned to another may be taken.                            *)
ClaimOnBehalf(d, t) ==
  /\ task[t].status \in {"pending", "needs_revision"}
  /\ PutRow(t, FinalizeClaim(task[t], d))

ResumeFromClaimed(d, t) ==
  /\ task[t].status = "claimed"
  /\ task[t].assigned = d
  /\ ~BusyElsewhere(d, t)
  /\ PutRow(t, [Started(task[t]) EXCEPT !.session = IF @ = "none" THEN "live" ELSE @])

HttpStart(a, t) ==
  /\ "http_start" \in Enabled
  /\ task[t].status \in {"claimed", "paused", "needs_revision"}
  /\ task[t].assigned = a
  /\ PutRow(t, Started(task[t]))

(* i_am_idle pauses what the agent leaves in progress.                      *)
Pause(a, t) ==
  /\ task[t].status = "in_progress"
  /\ task[t].assigned = a
  /\ PutRow(t, [task[t] EXCEPT !.status = "paused"])

Resume(a, t) ==
  /\ task[t].status = "paused"
  /\ task[t].assigned = a
  /\ PutRow(t, Started(task[t]))

(* commit: the caller must hold the claim, being the assignee is not       *)
(* enough.                                                                 *)
Commit(d, t) ==
  /\ task[t].status \in {"claimed", "in_progress", "verifying",
                         "awaiting_qa", "awaiting_documentation"}
  /\ task[t].assigned = d
  /\ task[t].claimant = d
  /\ unread' = unread \cup {t}
  /\ unmerged' = unmerged \cup {t}
  /\ UNCHANGED <<task, forge, rest>>

(* Opening a pull request on GitHub: an open one is reused.                *)
OpenedOnForge(t) ==
  /\ t \in unmerged
  /\ forge' = [forge EXCEPT ![t] = "open"]
  /\ UNCHANGED <<unread, unmerged>>

(* The flags advance the task only from a status with an edge to PM        *)
(* review; from any other the whole write is rolled back.                  *)
OpensPr(a, t) ==
  /\ task[t].status \in {"in_progress", "verifying", "awaiting_qa",
                         "awaiting_documentation", "needs_revision"}
  /\ task[t].assigned = a
  /\ task[t].docs => task[t].status \in {"in_progress", "awaiting_documentation"}
  /\ OpenedOnForge(t)
  /\ Put(t, PrMarked(task[t]))

OpenPr(d, t) == ~task[t].pr /\ OpensPr(d, t)

(* POST /git/pr/create does not ask whether the task has a pull request.   *)
HttpCreatePr(a, t) == "http_create_pr" \in Enabled /\ OpensPr(a, t)

----------------------------------------------------------------------------
(* Review: QA, documentation, the PM.                                      *)

SubmitVerification(d, t) ==
  /\ task[t].status = "in_progress"
  /\ task[t].assigned = d
  /\ PutRow(t, [task[t] EXCEPT !.status = "verifying"])

(* Fault: the field gate on the pull request is dropped.                   *)
IAmDoneWithoutPr(d, q, t) ==
  /\ task[t].status \in {"in_progress", "verifying"}
  /\ task[t].assigned = d
  /\ PutRow(t, LET r == SubmittedForQa(task[t])
               IN IF q = Nobody THEN r ELSE Reassigned(r, q))

(* i_am_done needs an open pull request only in the sense of the row's     *)
(* number.  The hand-over to a QA of the team is best effort: Nobody.      *)
IAmDone(d, q, t) ==
  /\ task[t].status \in {"in_progress", "verifying"}
  /\ task[t].assigned = d
  /\ task[t].pr
  /\ PutRow(t, LET r == SubmittedForQa(task[t])
               IN IF q = Nobody THEN r ELSE Reassigned(r, q))

(* _qa_or_doc_claim: only a competing lock holder stops it.                *)
ReviewClaim(a, t, status) ==
  /\ task[t].status = status
  /\ task[t].claimant \in {Nobody, a}
  /\ PutRow(t, Owned(task[t], a))

ClaimReview(q, t) == ReviewClaim(q, t, "awaiting_qa")

(* QA reads the branch as it stands.                                       *)
PassReview(q, doc, t) ==
  /\ task[t].status = "awaiting_qa"
  /\ task[t].assigned = q
  /\ Put(t, LET r == QaPassed(task[t])
            IN IF doc = Nobody THEN r ELSE Reassigned(r, doc))
  /\ unread' = unread \ {t}
  /\ UNCHANGED <<forge, unmerged>>

FailReview(q, t) ==
  /\ task[t].status = "awaiting_qa"
  /\ task[t].assigned = q
  /\ PutRow(t, SentBack(task[t]))

ClaimDoc(doc, t) == ReviewClaim(doc, t, "awaiting_documentation")

IDocumented(doc, t) ==
  /\ task[t].status = "awaiting_documentation"
  /\ task[t].assigned = doc
  /\ PutRow(t, DocsCompleted(task[t]))

RequestChanges(t) ==
  /\ task[t].status = "awaiting_pm_review"
  /\ PutRow(t, SentBack(task[t]))

(* The dispatcher, before it spawns the PM: whoever had the task, the PM   *)
(* has it now.                                                             *)
AssignReviewPm(t) ==
  /\ task[t].status = "awaiting_pm_review"
  /\ task[t].assigned # CellPm \/ task[t].claimant # CellPm
  /\ PutRow(t, Owned(task[t], CellPm))

(* Fault: the submission does not ask for the pull request.                *)
SubmitPmReviewWithoutPr(a, t) ==
  /\ "http_submit_pm_review" \in Enabled
  /\ a # MainPm
  /\ task[t].status = "in_progress"
  /\ task[t].assigned = a
  /\ PutRow(t, [task[t] EXCEPT !.status = "awaiting_pm_review",
                              !.assigned = IF a = CellPm THEN MainPm ELSE CellPm])

(* submit_for_pm_review is documented for PMs, QA and documenters; the     *)
(* code asks only that the caller is the assignee.  The notification names *)
(* the next PM up as assignee; the claim, the lock and the developer's     *)
(* marker stay as they are.                                                *)
SubmitPmReview(a, t) ==
  /\ "http_submit_pm_review" \in Enabled
  /\ a # MainPm
  /\ task[t].status = "in_progress"
  /\ task[t].assigned = a
  /\ task[t].branch /\ task[t].pr
  /\ PutRow(t, [task[t] EXCEPT !.status = "awaiting_pm_review",
                              !.assigned = IF a = CellPm THEN MainPm ELSE CellPm])

(* The panel's pair of i_am_done, for whoever is the assignee.             *)
HttpVerify(a, t) ==
  /\ "http_submit_qa" \in Enabled
  /\ task[t].status = "in_progress"
  /\ task[t].assigned = a
  /\ PutRow(t, [task[t] EXCEPT !.status = "verifying"])

HttpSubmitQa(a, t) ==
  /\ "http_submit_qa" \in Enabled
  /\ task[t].status = "verifying"
  /\ task[t].assigned = a
  /\ task[t].pr
  /\ PutRow(t, SubmittedForQa(task[t]))

(* The routes compare the caller with the developer on record, which the   *)
(* verbs' self_review_block does not: it compares an id with a slug.       *)
NotOwnWork(a, t) == task[t].origDev # a

(* Any documenter, of any of three statuses.  With a pull request the task *)
(* moves on, for which claimed has no edge; without, the flag waits for it.*)
(* Either way the notification makes the cell PM the assignee.             *)
HttpDocsComplete(t) ==
  /\ "http_docs_complete" \in Enabled
  /\ \E doc \in Docs : NotOwnWork(doc, t)
  /\ task[t].status \in {"awaiting_documentation", "claimed", "in_progress"}
  /\ task[t].pr => task[t].status # "claimed"
  /\ PutRow(t, [DocsCompleted(task[t]) EXCEPT !.assigned = CellPm])

(* Any QA, whoever has claimed the review; no documenter is chosen.        *)
HttpPassReview(t) ==
  /\ "http_qa" \in Enabled
  /\ task[t].status = "awaiting_qa"
  /\ \E q \in QAs : NotOwnWork(q, t)
  /\ task[t].pr
  /\ Put(t, QaPassed(task[t]))
  /\ unread' = unread \ {t}
  /\ UNCHANGED <<forge, unmerged>>

HttpFailReview(t) ==
  /\ "http_qa" \in Enabled
  /\ task[t].status = "awaiting_qa"
  /\ \E q \in QAs : NotOwnWork(q, t)
  /\ PutRow(t, SentBack(task[t]))

(* A reviewer's claim through the route of the work claims, as the doc     *)
(* dispatcher makes it, takes the task out of the review queue.            *)
HttpClaimReview(a, t) ==
  /\ "http_claim_review" \in Enabled
  /\ \/ a \in QAs /\ task[t].status = "awaiting_qa"
     \/ a \in Docs /\ task[t].status = "awaiting_documentation"
  /\ NotOwnWork(a, t)
  /\ PutRow(t, [Owned(task[t], a) EXCEPT !.status = "claimed"])

----------------------------------------------------------------------------
(* Merging.  GitHub is written first, the row in the transaction that      *)
(* follows, and the process may die between the two.                       *)

LandedOnForge(t) ==
  /\ forge' = [forge EXCEPT ![t] = "merged"]
  /\ unmerged' = unmerged \ {t}
  /\ UNCHANGED unread

MayComplete(t) ==
  /\ task[t].status = "awaiting_pm_review"
  /\ task[t].assigned = CellPm
  /\ task[t].pr

(* Finalize: complete() refuses when the session is not merged, and then   *)
(* the verb changes nothing.                                               *)
Finalize(t, row) == PrMergedForComplete(row) /\ Put(t, Completed(row))

(* An open pull request of the cell branch (rebased first if need be).     *)
CompleteByMerging(t) ==
  /\ MayComplete(t)
  /\ forge[t] = "open"
  /\ t \notin HeadLeaves
  /\ LandedOnForge(t)
  /\ Finalize(t, SessionMerged(task[t]))

(* The verb is killed, or its commit fails, after GitHub merged.           *)
CompleteCutShort(t) ==
  /\ MayComplete(t)
  /\ forge[t] = "open"
  /\ t \notin HeadLeaves
  /\ LandedOnForge(t)
  /\ UNCHANGED <<task, rest>>

(* is_pr_merged_for_task answers yes: no merge call, and so no record of   *)
(* the merge on the session either.  Unreachable GitHub counts as yes.     *)
CompleteAlreadyMerged(t) ==
  /\ MayComplete(t)
  /\ forge[t] = "merged" \/ "merge_blip" \in Enabled
  /\ Finalize(t, task[t])
  /\ UNCHANGED git

(* A sibling landed every change of the branch first: the pull request is  *)
(* closed instead of merged, and the session is not told.                  *)
CompleteSuperseded(t) ==
  /\ MayComplete(t)
  /\ forge[t] = "open"
  /\ t \notin HeadLeaves
  /\ forge' = [forge EXCEPT ![t] = "closed"]
  /\ unmerged' = unmerged \ {t}
  /\ UNCHANGED unread
  /\ IF PrMergedForComplete(task[t]) THEN Put(t, Completed(task[t]))
     ELSE UNCHANGED <<task, rest>>

(* An agent may never merge into the head branch: the CEO's turn.          *)
CompleteRoutedToCeo(t) ==
  /\ MayComplete(t)
  /\ t \in HeadLeaves
  /\ forge[t] # "merged"
  /\ PutRow(t, [task[t] EXCEPT !.status = "awaiting_ceo_approval"])

(* A conflict nobody could rebase: an admin override, which drops the lock.*)
CompleteInConflict(t) ==
  /\ MayComplete(t)
  /\ forge[t] \in {"open", "closed"}
  /\ t \notin HeadLeaves
  /\ PutRow(t, [task[t] EXCEPT !.status = "awaiting_ceo_approval",
                               !.claimant = Nobody])

(* merge_pr_for_task: GitHub merges, or says it had merged before, or      *)
(* cannot be asked and is taken to have merged.                            *)
MergeForTask(t) ==
  /\ task[t].pr
  /\ \/ forge[t] = "open" /\ LandedOnForge(t)
     \/ forge[t] = "merged" /\ UNCHANGED git
     \/ "merge_blip" \in Enabled /\ UNCHANGED git
  /\ Finalize(t, SessionMerged(task[t]))

HttpMerge(t) ==
  /\ "http_merge" \in Enabled
  /\ task[t].status = "awaiting_pm_review"
  /\ MergeForTask(t)

(* POST /complete merges a task in PM review as HttpMerge does; a PM's own *)
(* task in progress it completes as it is.                                 *)
HttpComplete(a, t) ==
  /\ "http_complete" \in Enabled
  /\ a \in {CellPm, MainPm}
  /\ task[t].status = "in_progress"
  /\ task[t].assigned = a
  /\ Finalize(t, task[t])
  /\ UNCHANGED git

CeoApproveAndMerge(t) ==
  /\ task[t].status = "awaiting_ceo_approval"
  /\ MergeForTask(t)

CeoMergeCutShort(t) ==
  /\ task[t].status = "awaiting_ceo_approval"
  /\ task[t].pr
  /\ forge[t] = "open"
  /\ LandedOnForge(t)
  /\ UNCHANGED <<task, rest>>

CeoApprove(t) ==
  /\ task[t].status = "awaiting_ceo_approval"
  /\ Finalize(t, task[t])
  /\ UNCHANGED git

CeoReject(t) ==
  /\ task[t].status = "awaiting_ceo_approval"
  /\ PutRow(t, CeoRejected(task[t]))

(* The session is abandoned and the pull request closed, if GitHub lets.   *)
Cancel(t) ==
  /\ task[t].status \notin Terminal
  /\ Put(t, [task[t] EXCEPT !.status = "cancelled"])
  /\ \/ UNCHANGED forge
     \/ forge[t] = "open" /\ forge' = [forge EXCEPT ![t] = "closed"]
  /\ UNCHANGED <<unread, unmerged>>

----------------------------------------------------------------------------
(* Blocking, escalating, releasing.                                        *)

IAmBlocked(t) ==
  /\ task[t].status = "in_progress"
  /\ PutRow(t, Escalated(task[t], CellPm))

HttpSoftBlock(t) ==
  /\ task[t].status = "in_progress"
  /\ PutRow(t, SoftBlocked(task[t]))

(* Any developer, QA or documenter may escalate a task, whoever has it.    *)
HttpEscalate(t) ==
  /\ "http_escalate" \in Enabled
  /\ task[t].status \notin Terminal
  /\ PutRow(t, Escalated(task[t], CellPm))

(* Fault: F043, a terminal task escalated back to life.                    *)
EscalateUpTerminal(t) == PutRow(t, Escalated(task[t], MainPm))

(* The cell PM may escalate any task not terminal, whoever has it.         *)
EscalateUp(t) ==
  /\ task[t].status \notin Terminal
  /\ PutRow(t, Escalated(task[t], MainPm))

(* The main PM's escalation target is the product owner, a board role.     *)
MainPmEscalateUp(t) ==
  /\ "divert" \in Enabled
  /\ task[t].status \notin Terminal
  /\ PutRow(t, DivertedToPool(task[t]))

UnblockRestore(t) ==
  /\ task[t].status = "blocked"
  /\ task[t].pre # "none"
  /\ PutRow(t, Restored(task[t]))

UnblockPlain(t) ==
  /\ "plain_unblock" \in Enabled
  /\ task[t].status = "blocked"
  /\ PutRow(t, PlainUnblocked(task[t]))

UnclaimPending(a, t) ==
  /\ task[t].status = "pending"
  /\ task[t].assigned = a
  /\ PutRow(t, [task[t] EXCEPT !.assigned = Nobody, !.claimant = Nobody])

UnclaimBlocked(a, t) ==
  /\ task[t].status = "blocked"
  /\ task[t].assigned = a
  /\ PutRow(t, UnclaimedFromBlocked(task[t]))

UnclaimWork(a, t) ==
  /\ task[t].status \in {"claimed", "in_progress", "verifying", "needs_revision"}
  /\ task[t].assigned = a
  /\ PutRow(t, UnclaimedFromWork(task[t]))

(* The orchestrator's sweep finds the claim's heartbeat stale.             *)
Reap(t) ==
  /\ task[t].status \in {"claimed", "in_progress"}
  /\ PutRow(t, Reaped(task[t]))

(* The cell PM hands work under way to another developer of the cell.      *)
Reassign(d, t) ==
  /\ task[t].status \in {"claimed", "in_progress"}
  /\ PutRow(t, Owned(task[t], d))

----------------------------------------------------------------------------
DevStep(d, t) ==
  \/ IWillWorkOn(d, t)
  \/ ClaimOnBehalf(d, t)
  \/ ResumeFromClaimed(d, t)
  \/ Commit(d, t)
  \/ OpenPr(d, t)
  \/ SubmitVerification(d, t)
  \/ Reassign(d, t)
  \/ \E q \in QAs \cup {Nobody} : IAmDone(d, q, t)

ReviewStep(t) ==
  \/ \E q \in QAs :
       \/ ClaimReview(q, t)
       \/ FailReview(q, t)
       \/ \E doc \in Docs \cup {Nobody} : PassReview(q, doc, t)
  \/ \E doc \in Docs : ClaimDoc(doc, t) \/ IDocumented(doc, t)
  \/ RequestChanges(t)
  \/ AssignReviewPm(t)

(* The routes beside the review verbs.                                     *)
HttpStep(t) ==
  \/ \E a \in Agents :
       \/ SubmitPmReview(a, t) \/ HttpVerify(a, t) \/ HttpSubmitQa(a, t)
       \/ HttpClaimReview(a, t) \/ HttpComplete(a, t)
  \/ HttpDocsComplete(t)
  \/ HttpPassReview(t)
  \/ HttpFailReview(t)
  \/ HttpEscalate(t)

MergeStep(t) ==
  \/ CompleteByMerging(t)
  \/ CompleteCutShort(t)
  \/ CompleteAlreadyMerged(t)
  \/ CompleteSuperseded(t)
  \/ CompleteRoutedToCeo(t)
  \/ CompleteInConflict(t)
  \/ HttpMerge(t)
  \/ CeoApproveAndMerge(t)
  \/ CeoMergeCutShort(t)
  \/ CeoApprove(t)
  \/ CeoReject(t)

BlockStep(t) ==
  \/ IAmBlocked(t)
  \/ HttpSoftBlock(t)
  \/ EscalateUp(t)
  \/ MainPmEscalateUp(t)
  \/ UnblockRestore(t)
  \/ UnblockPlain(t)

OwnerStep(a, t) ==
  \/ HttpStart(a, t)
  \/ Pause(a, t)
  \/ Resume(a, t)
  \/ HttpCreatePr(a, t)
  \/ UnclaimPending(a, t)
  \/ UnclaimBlocked(a, t)
  \/ UnclaimWork(a, t)

Next ==
  \E t \in Tasks :
    \/ \E d \in Devs : DevStep(d, t)
    \/ ReviewStep(t)
    \/ HttpStep(t)
    \/ MergeStep(t)
    \/ BlockStep(t)
    \/ \E a \in Agents : OwnerStep(a, t)
    \/ Reap(t)
    \/ Cancel(t)

Spec == Init /\ [][Next]_vars

----------------------------------------------------------------------------
(* Properties of every instance, whichever paths it switches on.           *)

(* Every column keeps to its values.  Not free: a restore writes back the  *)
(* status it finds in pre_block_state, so it holds only because every way  *)
(* into blocked leaves a snapshot of a status that is not blocked.         *)
TypeOK ==
  /\ task \in [Tasks -> Row]
  /\ \A t \in Tasks : task[t].status = "blocked" => task[t].pre # "none"
  /\ forge \in [Tasks -> {"none", "open", "merged", "closed"}]
  /\ unread \subseteq Tasks
  /\ unmerged \subseteq Tasks
  /\ rest \in [Tasks -> [status: Live \cup {"none"}, owner: AgentOrNone]]

(* A task nobody is assigned to is locked by nobody: the review claims     *)
(* refuse a competing lock holder, so a lock left behind would shut        *)
(* everyone out.  Rejected tasks are left aside: ceo_reject keeps the PM's *)
(* lock on one it can give to nobody, and a claim for work overrides it.   *)
PoolIsUnlocked ==
  \A t \in Tasks :
    task[t].assigned = Nobody /\ task[t].status \notin {"needs_revision", "cancelled"}
      => task[t].claimant = Nobody

(* Whatever is worked on has a branch: the dispatcher refuses a branchless *)
(* in_progress task and loops (task.py, _restore_block_ownership).         *)
WorkHasBranch ==
  \A t \in Tasks : task[t].status \in Working => task[t].branch

(* Whatever is under review has a pull request, on the row and on GitHub.  *)
ReviewHasPullRequest ==
  \A t \in Tasks : task[t].status \in InReview =>
                     task[t].pr /\ forge[t] # "none"

(* No modelled verb, route or sweep touches a completed or cancelled task  *)
(* again (F043 in apply_escalation was such a resurrection).               *)
TerminalIsFinal ==
  [][\A t \in Tasks : task[t].status \in Terminal => task'[t] = task[t]]_vars

----------------------------------------------------------------------------
(* Properties of the agents' own verbs (Enabled = {}).  Each survives some *)
(* of the optional paths too: ReviewProofs says which.                     *)

(* Every task under review can be sent back: its developer is on record,   *)
(* although ownership was cleared on the way.                              *)
ReworkHasDeveloper ==
  \A t \in Tasks : task[t].status \in InReview => task[t].origDev \in Devs

(* No developer commit that QA has not passed is documented, reviewed by   *)
(* the PM, approved or completed, whatever blocks, restores, reassignments *)
(* and reworks happened on the way.                                        *)
ReviewedBeforeCompletion ==
  \A t \in Tasks :
    task[t].status \in (InReview \ {"awaiting_qa"}) \cup {"completed"} => t \notin unread

(* A completed task's commits are in its base branch, through crashes      *)
(* between GitHub's merge and the commit of the row.                       *)
CompletedIsMerged ==
  \A t \in Tasks : task[t].status = "completed" => t \notin unmerged

(* Whoever a task under way is assigned to also holds its lock, without    *)
(* which commit refuses every write; and that is a developer.              *)
WorkerHoldsLock ==
  \A t \in Tasks : task[t].status \in Working =>
    /\ task[t].assigned \in Devs
    /\ task[t].claimed = task[t].assigned
    /\ task[t].claimant = task[t].assigned

(* What is under review stands still: no developer holds the lock of a     *)
(* task in QA, documentation, PM or CEO review, so none can commit to it.  *)
ReviewIsFrozen ==
  \A t \in Tasks : task[t].status \in InReview => task[t].claimant \notin Devs

(* unblock(restore=True) returns a task that somebody owned to the status  *)
(* and the owner it had when it was blocked.                               *)
RestoreIsExact ==
  [][\A t \in Tasks :
       UnblockRestore(t) /\ rest[t].owner # Nobody =>
         /\ task'[t].status = rest[t].status
         /\ task'[t].assigned = rest[t].owner]_vars

Outcome(r) == CASE r.status = "completed" -> "delivered"
                [] r.status = "cancelled" -> "dropped"
                [] OTHER -> "open"

Reviewed == INSTANCE ReviewedDelivery WITH outcome <- [t \in Tasks |-> Outcome(task[t])]

(* Step by step, through crashes and superseded pull requests: what lands  *)
(* on the base branch was read by QA when it landed, what is completed has *)
(* landed, and nothing is written, read or landed once the task is over.   *)
DeliversReviewedWork == Reviewed!Spec

=============================================================================
