------------------------- MODULE TaskLifecycleInv -------------------------
(***************************************************************************)
(* The inductive invariants behind the properties of TaskLifecycle.  The   *)
(* MC module checks them on small instances, TaskLifecycleProofs and       *)
(* ReviewProofs prove them for all.                                        *)
(***************************************************************************)
EXTENDS TaskLifecycle

Engaged == Live \ {"pending"}

----------------------------------------------------------------------------
(* Every modelled path on.  A blocked task comes back to the status its    *)
(* snapshot names, so whatever a status promises, a snapshot of it must    *)
(* promise too.                                                            *)

RowTyped(r) == r \in Row /\ (r.status = "blocked" => r.pre # "none")

RowPooled(r) ==
  r.assigned = Nobody /\ r.status \notin {"needs_revision", "cancelled"}
    => r.claimant = Nobody

RowBranched(r) == r.status \in Engaged \/ r.pre \in Engaged => r.branch

QaQueues == {"awaiting_qa", "awaiting_documentation"}

(* The routes that put a task into PM review without a submission to QA.   *)
ThroughQa == Enabled \cap {"http_submit_pm_review", "http_docs_complete"} = {}

(* Whose work it is: a developer's, unless the route takes it of anyone.   *)
DevOnRecord(r) == "http_submit_qa" \notin Enabled => r.origDev \in Devs

(* Under review there is a pull request, and with QA and the documenter    *)
(* the developer is on record; past them only if the task came through QA. *)
(* docs is there because it outlives its phase: a rework does not clear    *)
(* it, and the next pull request moves the task to PM review.              *)
RowReviewed(r) ==
  /\ r.status \in InReview \/ r.pre \in InReview => r.pr
  /\ r.status \in QaQueues \/ r.pre \in QaQueues => DevOnRecord(r)
  /\ ThroughQa /\ (r.status \in InReview \/ r.pre \in InReview \/ r.docs)
       => DevOnRecord(r) /\ r.pr

RowInv(r) == RowTyped(r) /\ RowPooled(r) /\ RowBranched(r) /\ RowReviewed(r)

(* What every task keeps on all modelled paths: its row's promises, a pull *)
(* request on GitHub for each one the row records.                         *)
IInv ==
  /\ TypeOK
  /\ \A t \in Tasks : RowInv(task[t]) /\ (task[t].pr => forge[t] # "none")

----------------------------------------------------------------------------
(* Where work and its snapshots are owned.  An unblock or start that takes *)
(* the owner from elsewhere than the snapshot is what can break it, or a   *)
(* reviewer's claim that looks like a developer's, or docs-complete naming *)
(* the PM: it is stated without "plain_unblock", "http_start",             *)
(* "http_claim_review" and "http_docs_complete".                           *)

WorkerOwned(r) ==
  /\ r.status \in Working =>
       r.assigned \in Devs /\ r.claimed = r.assigned /\ r.claimant = r.assigned
  /\ r.pre \in Working => r.preOwner \in Devs

WorkerInv == \A t \in Tasks : WorkerOwned(task[t])

----------------------------------------------------------------------------
(* Where snapshots are fresh and true: every path but "plain_unblock" and  *)
(* "divert", which leave a blocked task without using up its snapshot.     *)

(* Where the task is, or will be once it is restored.                      *)
Resting(r) == IF r.status = "blocked" THEN r.pre ELSE r.status

SnapshotFresh(r) == r.status \notin {"blocked", "cancelled"} => r.pre = "none"

(* No developer is in reach of a task under review, by any of the columns  *)
(* an unblock or a claim could take an owner from.                         *)
ReviewerOwned(r) ==
  Resting(r) \in InReview =>
    /\ r.assigned \notin Devs /\ r.claimed \notin Devs /\ r.claimant \notin Devs
    /\ r.status = "blocked" => r.preOwner \notin Devs

SessionLive(r) == Resting(r) \in Engaged => r.session = "live"

(* POST /submit-pm-review leaves the developer with the task in review.    *)
SubmitHandsOver == "http_submit_pm_review" \notin Enabled

BaseRow(r) ==
  SnapshotFresh(r) /\ SessionLive(r) /\ (SubmitHandsOver => ReviewerOwned(r))

Passed == (InReview \ {"awaiting_qa"}) \cup {"completed"}

(* Only QA moves a task past QA; only GitHub's word completes one.         *)
OnlyQaPasses  == ThroughQa /\ "http_create_pr" \notin Enabled
OnlyMergeEnds == Enabled \cap {"http_merge", "merge_blip"} = {}

BaseGit(t) ==
  /\ OnlyQaPasses /\ Resting(task[t]) \in Passed => t \notin unread
  /\ OnlyMergeEnds =>
       /\ task[t].status = "completed" => t \notin unmerged
       /\ Resting(task[t]) = "awaiting_ceo_approval" /\ forge[t] = "merged"
            => t \notin unmerged

RestKept(t) ==
  task[t].status = "blocked" =>
    /\ rest[t].status = task[t].pre
    /\ rest[t].owner # Nobody => task[t].preOwner = rest[t].owner

(* What every task keeps while snapshots are used up by restores: they are *)
(* fresh and true, review is out of the developers' reach, the session is  *)
(* live, and nothing past QA is unread.                                    *)
BaseInv == \A t \in Tasks : BaseRow(task[t]) /\ BaseGit(t) /\ RestKept(t)
=============================================================================
