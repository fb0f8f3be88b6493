--------------------------- MODULE ReviewProofs ---------------------------
(***************************************************************************)
(* Proofs of what holds on some of the optional paths only: nothing unread *)
(* by QA is completed, what is completed is merged, what is under review   *)
(* stands still, restores are exact, workers hold their locks.  Each       *)
(* theorem names the paths it excludes, those that break it; of the writes *)
(* TaskLifecycle leaves out it says nothing.                               *)
(***************************************************************************)
EXTENDS TaskLifecycleProofs

----------------------------------------------------------------------------
(* What a row must show for each place a task can be in.                   *)

LEMMA QueuedRow ==
  ASSUME NEW s, s.status \in {"pending", "needs_revision"}, s.pre = "none",
         s.status = "needs_revision" => s.session = "live"
  PROVE  BaseRow(s) /\ Resting(s) \notin Passed
<1>1. Resting(s) = s.status /\ s.status \notin Working /\ s.status \notin InReview
  BY StatusFacts DEF Resting, Working
<1>2. s.status \in Engaged => s.session = "live"
  BY StatusFacts
<1>3. s.status \notin Passed
  BY <1>1 DEF Passed
<1> QED
  BY <1>1, <1>2, <1>3
  DEF BaseRow, SnapshotFresh, ReviewerOwned, SessionLive

LEMMA WorkedRow ==
  ASSUME NEW s, s.status \in Working, s.pre = "none", s.session = "live"
  PROVE  BaseRow(s) /\ Resting(s) \notin Passed
BY StatusFacts
DEF BaseRow, SnapshotFresh, ReviewerOwned, SessionLive, Resting, Passed

LEMMA ReviewedRow ==
  ASSUME NEW s, s.status \in InReview, s.pre = "none", s.session = "live",
         SubmitHandsOver =>
           s.assigned \notin Devs /\ s.claimed \notin Devs /\ s.claimant \notin Devs
  PROVE  BaseRow(s) /\ Resting(s) = s.status
BY StatusFacts
DEF BaseRow, SnapshotFresh, ReviewerOwned, SessionLive, Resting

LEMMA CompletedRow ==
  ASSUME NEW s, s.status = "completed", s.pre = "none"
  PROVE  BaseRow(s) /\ Resting(s) = "completed"
BY StatusFacts
DEF BaseRow, SnapshotFresh, ReviewerOwned, SessionLive, Resting

LEMMA CancelledRow ==
  ASSUME NEW s, s.status = "cancelled"
  PROVE  BaseRow(s) /\ Resting(s) \notin Passed
BY StatusFacts
DEF BaseRow, SnapshotFresh, ReviewerOwned, SessionLive, Resting, Passed

LEMMA BlockedRow ==
  ASSUME NEW s, s.status = "blocked",
         SubmitHandsOver /\ s.pre \in InReview =>
           /\ s.assigned \notin Devs /\ s.claimed \notin Devs
           /\ s.claimant \notin Devs /\ s.preOwner \notin Devs,
         s.pre \in Engaged => s.session = "live"
  PROVE  BaseRow(s) /\ Resting(s) = s.pre
BY StatusFacts
DEF BaseRow, SnapshotFresh, ReviewerOwned, SessionLive, Resting

(* And what such a row shows.                                              *)
LEMMA RowShows ==
  ASSUME NEW s, BaseRow(s)
  PROVE  /\ s.status \notin {"blocked", "cancelled"} => s.pre = "none"
         /\ s.status \in Engaged => s.session = "live"
         /\ SubmitHandsOver /\ s.status \in InReview =>
              s.assigned \notin Devs /\ s.claimed \notin Devs /\ s.claimant \notin Devs
         /\ s.status = "blocked" =>
              /\ s.pre \in Engaged => s.session = "live"
              /\ SubmitHandsOver /\ s.pre \in InReview =>
                   /\ s.assigned \notin Devs /\ s.claimed \notin Devs
                   /\ s.claimant \notin Devs /\ s.preOwner \notin Devs
BY StatusFacts
DEF BaseRow, SnapshotFresh, ReviewerOwned, SessionLive, Resting

LEMMA RoleFacts ==
  /\ Nobody \notin Devs /\ CellPm \notin Devs /\ MainPm \notin Devs
  /\ QAs \cap Devs = {} /\ Docs \cap Devs = {}
BY AgentsAssumption DEF Agents

LEMMA PassesHandOver == OnlyQaPasses => SubmitHandsOver
BY DEF OnlyQaPasses, ThroughQa, SubmitHandsOver

----------------------------------------------------------------------------
(* One write of one row.                                                   *)

RestFollows(r, row) ==
  row.status = "blocked" =>
    /\ r.status = "blocked" => row.pre = r.pre /\ row.preOwner = r.preOwner
    /\ r.status # "blocked" =>
         row.pre = r.status /\ (r.assigned # Nobody => row.preOwner = r.assigned)

GitElsewhereKept(t) ==
  \A u \in Tasks \ {t} :
    /\ u \in unread' => u \in unread
    /\ u \in unmerged' => u \in unmerged
    /\ forge'[u] = forge[u]

LEMMA PutKeepsBase ==
  ASSUME IInv, BaseInv, NEW t \in Tasks, NEW row, Put(t, row), BaseRow(row),
         RestFollows(task[t], row), GitElsewhereKept(t),
         OnlyQaPasses /\ Resting(row) \in Passed => t \notin unread',
         OnlyMergeEnds /\ row.status = "completed" => t \notin unmerged',
         OnlyMergeEnds /\ Resting(row) = "awaiting_ceo_approval" /\ forge'[t] = "merged"
           => t \notin unmerged'
  PROVE  BaseInv'
<1> DEFINE newRest == IF row.status # "blocked" THEN NoRest
                      ELSE IF task[t].status = "blocked" THEN rest[t]
                      ELSE [status |-> task[t].status, owner |-> task[t].assigned]
<1>1. \A u \in Tasks : /\ task'[u] = IF u = t THEN row ELSE task[u]
                       /\ rest'[u] = IF u = t THEN newRest ELSE rest[u]
  BY DEF Put, IInv, TypeOK
<1>2. \A u \in Tasks : BaseRow(task[u]) /\ BaseGit(u) /\ RestKept(u)
  BY DEF BaseInv
<1>3. row.status = "blocked" =>
        /\ newRest.status = row.pre
        /\ newRest.owner # Nobody => row.preOwner = newRest.owner
  BY <1>2 DEF RestFollows, RestKept
<1> HIDE DEF newRest
<1>4. ASSUME NEW u \in Tasks
      PROVE  BaseRow(task'[u]) /\ BaseGit(u)' /\ RestKept(u)'
  <2>1. CASE u = t
    BY <1>1, <1>3, <2>1 DEF BaseGit, RestKept, Resting
  <2>2. CASE u # t
    BY <1>1, <1>2, <2>2 DEF BaseGit, RestKept, GitElsewhereKept, Resting
  <2> QED BY <2>1, <2>2
<1> QED
  BY <1>4 DEF BaseInv, BaseRow, SnapshotFresh, ReviewerOwned, SessionLive, Resting

LEMMA PutRowKeepsBase ==
  ASSUME IInv, BaseInv, NEW t \in Tasks, NEW row, PutRow(t, row), BaseRow(row),
         RestFollows(task[t], row), row.status # "completed",
         OnlyQaPasses /\ Resting(row) \in Passed => Resting(task[t]) \in Passed,
         Resting(row) = "awaiting_ceo_approval" =>
           forge[t] # "merged" \/ Resting(task[t]) = "awaiting_ceo_approval"
  PROVE  BaseInv'
<1>1. Put(t, row) /\ GitElsewhereKept(t)
  BY DEF PutRow, git, GitElsewhereKept
<1>2. BaseGit(t)
  BY DEF BaseInv
<1>3. OnlyQaPasses /\ Resting(row) \in Passed => t \notin unread'
  BY <1>2 DEF PutRow, git, BaseGit
<1>4. OnlyMergeEnds /\ Resting(row) = "awaiting_ceo_approval" /\ forge'[t] = "merged"
        => t \notin unmerged'
  BY <1>2 DEF PutRow, git, BaseGit
<1> QED BY <1>1, <1>3, <1>4, PutKeepsBase

(* The common case: the row written is outside the reviewed states.        *)
LEMMA PutRowOutsideReview ==
  ASSUME IInv, BaseInv, NEW t \in Tasks, NEW row, PutRow(t, row), BaseRow(row),
         row.status # "blocked", Resting(row) \notin Passed
  PROVE  BaseInv'
<1>1. row.status # "completed" /\ Resting(row) # "awaiting_ceo_approval"
  BY StatusFacts DEF Resting, Passed
<1> QED BY <1>1, PutRowKeepsBase DEF RestFollows

LEMMA BaseOfTask ==
  ASSUME IInv, BaseInv, NEW t \in Tasks
  PROVE  /\ task[t] \in Row /\ RowInv(task[t]) /\ BaseRow(task[t])
         /\ BaseGit(t) /\ RestKept(t)
BY RowOfTask DEF BaseInv

----------------------------------------------------------------------------
(* The actions.                                                            *)

LEMMA OwnedShape ==
  ASSUME NEW r \in Row, NEW a \in Agents
  PROVE  /\ Owned(r, a) \in Row
         /\ Owned(r, a).assigned = a /\ Owned(r, a).claimed = a /\ Owned(r, a).claimant = a
         /\ \A f \in {"status", "pre", "preOwner", "branch", "pr", "docs", "session"} :
              Owned(r, a)[f] = r[f]
BY AgentFacts DEF Owned, Row

(* docs_complete with a pull request moves the task to PM review, and sets *)
(* a flag of the row without.                                              *)
LEMMA DocsShape ==
  ASSUME NEW r \in Row
  PROVE  LET c == DocsCompleted(r)
         IN  /\ c.pre = r.pre /\ c.preOwner = r.preOwner /\ c.session = r.session
             /\ r.pr => /\ c.status = "awaiting_pm_review"
                        /\ c.assigned = CellPm /\ c.claimed = CellPm /\ c.claimant = CellPm
             /\ ~r.pr => /\ c.status = r.status /\ c.assigned = r.assigned
                         /\ c.claimed = r.claimed /\ c.claimant = r.claimant
<1>1. CASE r.pr
  <2> DEFINE o == Owned(r, CellPm)
  <2>1. /\ o \in Row /\ o.assigned = CellPm /\ o.claimed = CellPm /\ o.claimant = CellPm
        /\ o.pre = r.pre /\ o.preOwner = r.preOwner /\ o.session = r.session
    BY AgentFacts, OwnedShape
  <2>2. DocsCompleted(r) = [[o EXCEPT !.status = "awaiting_pm_review"] EXCEPT !.docs = TRUE]
    BY <1>1 DEF DocsCompleted, ToPmReview
  <2> HIDE DEF o
  <2> QED BY <1>1, <2>1, <2>2 DEF Row
<1>2. CASE ~r.pr
  BY <1>2 DEF DocsCompleted, Row
<1> QED BY <1>1, <1>2

(* ... and the route names the cell PM besides.                            *)
LEMMA NamedDocsShape ==
  ASSUME NEW r \in Row
  PROVE  LET c == [DocsCompleted(r) EXCEPT !.assigned = CellPm]
         IN  /\ c.pre = r.pre /\ c.preOwner = r.preOwner /\ c.session = r.session
             /\ c.assigned = CellPm
             /\ r.pr => /\ c.status = "awaiting_pm_review"
                        /\ c.claimed = CellPm /\ c.claimant = CellPm
             /\ ~r.pr => /\ c.status = r.status
                         /\ c.claimed = r.claimed /\ c.claimant = r.claimant
<1> DEFINE d == DocsCompleted(r)
<1>1. d \in Row
  <2>1. /\ Owned(r, CellPm) \in Row /\ "awaiting_pm_review" \in Statuses
        /\ r.docs \in BOOLEAN
    BY OwnedShape, AgentFacts, StatusFacts DEF Row
  <2>2. ToPmReview(r) \in Row
    BY <2>1 DEF ToPmReview, Row
  <2> QED BY <2>2 DEF DocsCompleted, Row
<1>2. /\ d.pre = r.pre /\ d.preOwner = r.preOwner /\ d.session = r.session
      /\ r.pr => /\ d.status = "awaiting_pm_review"
                 /\ d.claimed = CellPm /\ d.claimant = CellPm
      /\ ~r.pr => d.status = r.status /\ d.claimed = r.claimed /\ d.claimant = r.claimant
  BY DocsShape
<1> HIDE DEF d
<1>3. LET c == [d EXCEPT !.assigned = CellPm]
      IN  /\ c.assigned = CellPm
          /\ \A f \in {"status", "claimed", "claimant", "pre", "preOwner", "session"} :
               c[f] = d[f]
  BY <1>1 DEF Row
<1> QED BY <1>2, <1>3 DEF d

(* Whoever submits: the task leaves with its snapshot and without an owner.*)
LEMMA SubmittedShape ==
  ASSUME NEW r \in Row
  PROVE  LET c == SubmittedForQa(r)
         IN  /\ c \in Row /\ c.status = "awaiting_qa"
             /\ c.pre = r.pre /\ c.preOwner = r.preOwner /\ c.session = r.session
             /\ c.assigned = Nobody /\ c.claimed = Nobody /\ c.claimant = Nobody
<1>1. "awaiting_qa" \in Statuses /\ r.assigned \in AgentOrNone
  BY StatusFacts DEF Row
<1>2. /\ Released(r) \in Row /\ Released(r).session = r.session
      /\ Released(r).pre = r.pre /\ Released(r).preOwner = r.preOwner
      /\ Released(r).assigned = Nobody /\ Released(r).claimed = Nobody
      /\ Released(r).claimant = Nobody
  BY AgentFacts DEF Released, Row
<1> QED BY <1>1, <1>2 DEF SubmittedForQa, Row

LEMMA ClaimedShape ==
  ASSUME NEW r \in Row, r.status \in {"pending", "needs_revision"}, NEW d \in Agents
  PROVE  LET c == FinalizeClaim(r, d)
         IN  /\ c \in Row
             /\ c.status = IF r.status = "pending" THEN "claimed" ELSE "needs_revision"
             /\ c.assigned = d /\ c.claimed = d /\ c.claimant = d
             /\ c.pre = r.pre /\ c.session = "live"
<1>1. Owned(r, d) \in Row /\ Owned(r, d).status = r.status /\ Owned(r, d).pre = r.pre
      /\ Owned(r, d).assigned = d /\ Owned(r, d).claimed = d /\ Owned(r, d).claimant = d
  BY AgentFacts DEF Owned, Row
<1>2. ASSUME NEW s \in Row, s.status = r.status
      PROVE  LET c == [s EXCEPT !.status = IF @ = "pending" THEN "claimed" ELSE @,
                                !.branch = TRUE, !.session = "live"]
             IN  /\ c \in Row
                 /\ c.status = IF r.status = "pending" THEN "claimed" ELSE "needs_revision"
                 /\ c.assigned = s.assigned /\ c.claimed = s.claimed
                 /\ c.claimant = s.claimant /\ c.pre = s.pre /\ c.session = "live"
  <2>1. "claimed" \in Statuses
    BY StatusFacts
  <2> QED BY <1>2, <2>1 DEF Row
<1> QED BY <1>1, <1>2 DEF FinalizeClaim

LEMMA WorkingStatusWrite ==
  ASSUME NEW u \in Row, NEW s \in Working, u.pre = "none", u.session = "live"
  PROVE  LET v == [u EXCEPT !.status = s]
         IN  BaseRow(v) /\ Resting(v) \notin Passed /\ v.status # "blocked"
<1> DEFINE v == [u EXCEPT !.status = s]
<1>1. v.status = s /\ v.pre = u.pre /\ v.session = u.session
  BY DEF Row
<1> HIDE DEF v
<1>2. BaseRow(v) /\ Resting(v) \notin Passed
  BY <1>1, WorkedRow
<1>3. v.status # "blocked"
  BY <1>1, StatusFacts
<1> QED BY <1>2, <1>3 DEF v

(* Opening a pull request moves the task on only if the documentation is   *)
(* there, and then the row had a pull request already, POST /git/pr/create,*)
(* or the documentation was there before the pull request: /docs-complete. *)
LEMMA OpensPrKeepsBase ==
  ASSUME IInv, BaseInv, NEW t \in Tasks, NEW a \in Agents, OpensPr(a, t),
         OnlyQaPasses => ~task[t].pr
  PROVE  BaseInv'
<1> DEFINE r == task[t]
<1>0. /\ r \in Row /\ RowInv(r) /\ BaseRow(r) /\ BaseGit(t)
      /\ OpenedOnForge(t) /\ Put(t, PrMarked(r)) /\ r.status \in Engaged
      /\ r.status \notin {"awaiting_ceo_approval", "completed"}
  BY BaseOfTask, StatusFacts DEF OpensPr
<1>1. GitElsewhereKept(t) /\ unread' = unread /\ forge'[t] = "open"
  BY <1>0 DEF OpenedOnForge, GitElsewhereKept, IInv, TypeOK
<1>2. r.pre = "none" /\ r.session = "live"
  BY <1>0, StatusFacts, RowShows
<1>3. CASE r.docs
  <2> DEFINE c == [ToPmReview(r) EXCEPT !.pr = TRUE]
  <2>1. /\ c.status = "awaiting_pm_review" /\ c.pre = r.pre /\ c.session = r.session
        /\ c.assigned = CellPm /\ c.claimed = CellPm /\ c.claimant = CellPm
    <3>1. Owned(r, CellPm) \in Row
      BY <1>0, AgentFacts DEF Owned, Row
    <3>2. /\ Owned(r, CellPm).pre = r.pre /\ Owned(r, CellPm).session = r.session
          /\ Owned(r, CellPm).assigned = CellPm /\ Owned(r, CellPm).claimed = CellPm
          /\ Owned(r, CellPm).claimant = CellPm
      BY <1>0 DEF Owned, Row
    <3> QED BY <3>1, <3>2 DEF ToPmReview, Row
  <2>2. Put(t, c) /\ ~OnlyQaPasses
    BY <1>0, <1>3 DEF PrMarked, RowInv, RowReviewed, OnlyQaPasses
  <2> HIDE DEF c
  <2>3. BaseRow(c) /\ Resting(c) = "awaiting_pm_review"
    BY <1>2, <2>1, ReviewedRow, RoleFacts, StatusFacts
  <2> QED BY <1>1, <2>1, <2>2, <2>3, PutKeepsBase DEF RestFollows
<1>4. CASE ~r.docs
  <2> DEFINE c == [r EXCEPT !.pr = TRUE]
  <2>1. /\ c.status = r.status /\ c.pre = r.pre /\ c.session = r.session
        /\ c.assigned = r.assigned /\ c.claimed = r.claimed /\ c.claimant = r.claimant
        /\ c.preOwner = r.preOwner
    BY <1>0 DEF Row
  <2>2. Put(t, c)
    BY <1>0, <1>4 DEF PrMarked
  <2> HIDE DEF c
  <2>3. BaseRow(c) /\ Resting(c) = Resting(r)
    BY <1>0, <2>1 DEF BaseRow, SnapshotFresh, ReviewerOwned, SessionLive, Resting
  <2>4. OnlyQaPasses /\ Resting(c) \in Passed => t \notin unread'
    BY <1>0, <1>1, <2>3 DEF BaseGit
  <2> QED BY <1>0, <1>1, <2>1, <2>2, <2>3, <2>4, StatusFacts, PutKeepsBase
          DEF RestFollows, Resting
<1> QED BY <1>3, <1>4

LEMMA DevStepKeepsBase ==
  ASSUME IInv, BaseInv, NEW t \in Tasks, NEW d \in Devs, DevStep(d, t)
  PROVE  BaseInv'
<1> DEFINE r == task[t]
<1>0. /\ r \in Row /\ RowInv(r) /\ BaseRow(r) /\ BaseGit(t) /\ d \in Agents
      /\ {"claimed", "in_progress", "paused", "verifying"} = Working
  BY BaseOfTask, AgentFacts DEF Working
<1>1. CASE IWillWorkOn(d, t)
  <2> DEFINE c == FinalizeClaim(r, d)
  <2>1. r.status \in {"pending", "needs_revision"} /\ PutRow(t, Started(c))
    BY <1>1 DEF IWillWorkOn
  <2>2. c \in Row /\ c.pre = "none" /\ c.session = "live"
    BY <1>0, <2>1, ClaimedShape, RowShows
  <2> HIDE DEF c
  <2>3. /\ BaseRow(Started(c)) /\ Resting(Started(c)) \notin Passed
        /\ Started(c).status # "blocked"
    BY <1>0, <2>2, WorkingStatusWrite DEF Started
  <2> QED BY <2>1, <2>3, PutRowOutsideReview
<1>2. CASE ClaimOnBehalf(d, t)
  <2> DEFINE c == FinalizeClaim(r, d)
  <2>1. r.status \in {"pending", "needs_revision"} /\ PutRow(t, c)
    BY <1>2 DEF ClaimOnBehalf
  <2>2. /\ c.status = IF r.status = "pending" THEN "claimed" ELSE "needs_revision"
        /\ c.pre = "none" /\ c.session = "live"
    BY <1>0, <2>1, ClaimedShape, RowShows
  <2> HIDE DEF c
  <2>3. BaseRow(c) /\ Resting(c) \notin Passed /\ c.status # "blocked"
    BY <1>0, <2>1, <2>2, WorkedRow, QueuedRow
  <2> QED BY <2>1, <2>3, PutRowOutsideReview
<1>3. CASE ResumeFromClaimed(d, t)
  <2> DEFINE c == [Started(r) EXCEPT !.session = IF @ = "none" THEN "live" ELSE @]
  <2>1. r.status = "claimed" /\ PutRow(t, c)
    BY <1>3 DEF ResumeFromClaimed
  <2>2. r.pre = "none" /\ r.session = "live"
    BY <1>0, <2>1, StatusFacts, RowShows
  <2>3. c = Started(r)
    BY <1>0, <2>2 DEF Started, Row
  <2>4. /\ BaseRow(Started(r)) /\ Resting(Started(r)) \notin Passed
        /\ Started(r).status # "blocked"
    BY <1>0, <2>2, WorkingStatusWrite DEF Started
  <2> QED BY <2>1, <2>3, <2>4, PutRowOutsideReview
<1>4. CASE Commit(d, t)
  <2>1. r.assigned \in Devs /\ UNCHANGED <<task, forge, rest>>
        /\ unread' = unread \cup {t} /\ unmerged' = unmerged \cup {t}
        /\ r.status \in {"claimed", "in_progress", "verifying",
                         "awaiting_qa", "awaiting_documentation"}
    BY <1>4 DEF Commit
  <2>2. Resting(r) = r.status /\ r.status \notin {"awaiting_ceo_approval", "completed"}
    BY <2>1 DEF Resting
  <2>3. OnlyQaPasses => Resting(r) \notin Passed
    <3>1. OnlyQaPasses => r.status \notin InReview
      BY <1>0, <2>1, RowShows, PassesHandOver
    <3> QED BY <2>2, <3>1 DEF Passed
  <2>4. BaseGit(t)'
    BY <2>1, <2>2, <2>3 DEF BaseGit, Resting
  <2>5. \A u \in Tasks : u # t => BaseGit(u)'
    BY <2>1 DEF BaseInv, BaseGit, Resting
  <2>6. \A u \in Tasks : BaseRow(task[u])' /\ RestKept(u)'
    BY <2>1
    DEF BaseInv, RestKept, BaseRow, SnapshotFresh, ReviewerOwned, SessionLive, Resting
  <2> QED BY <2>4, <2>5, <2>6 DEF BaseInv
<1>5. CASE OpenPr(d, t)
  BY <1>0, <1>5, OpensPrKeepsBase DEF OpenPr
<1>6. CASE SubmitVerification(d, t)
  <2> DEFINE c == [r EXCEPT !.status = "verifying"]
  <2>1. r.status = "in_progress" /\ PutRow(t, c)
    BY <1>6 DEF SubmitVerification
  <2>2. r.pre = "none" /\ r.session = "live"
    BY <1>0, <2>1, StatusFacts, RowShows
  <2>3. BaseRow(c) /\ Resting(c) \notin Passed /\ c.status # "blocked"
    BY <1>0, <2>2, WorkingStatusWrite
  <2> HIDE DEF c
  <2> QED BY <2>1, <2>3, PutRowOutsideReview
<1>7. CASE Reassign(d, t)
  <2> DEFINE c == Owned(r, d)
  <2>1. r.status \in Working /\ PutRow(t, c)
    BY <1>0, <1>7 DEF Reassign
  <2>2. r.pre = "none" /\ r.session = "live"
    BY <1>0, <2>1, StatusFacts, RowShows
  <2>3. c.status = r.status /\ c.pre = r.pre /\ c.session = r.session
    BY <1>0 DEF Owned, Row
  <2> HIDE DEF c
  <2>4. BaseRow(c) /\ Resting(c) \notin Passed /\ c.status # "blocked"
    BY <2>1, <2>2, <2>3, WorkedRow, StatusFacts
  <2> QED BY <2>1, <2>4, PutRowOutsideReview
<1>8. ASSUME NEW q \in QAs \cup {Nobody}, IAmDone(d, q, t)
      PROVE  BaseInv'
  <2> DEFINE c == SubmittedForQa(r)
             e == IF q = Nobody THEN c ELSE Reassigned(c, q)
  <2>1. r.status \in Working /\ PutRow(t, e)
    BY <1>0, <1>8 DEF IAmDone
  <2>2. r.pre = "none" /\ r.session = "live"
    BY <1>0, <2>1, StatusFacts, RowShows
  <2>3. /\ c \in Row
        /\ c.status = "awaiting_qa" /\ c.pre = r.pre /\ c.session = r.session
        /\ c.assigned = Nobody /\ c.claimed = Nobody /\ c.claimant = Nobody
    BY <1>0, SubmittedShape
  <2> HIDE DEF c
  <2>4. /\ e.status = "awaiting_qa" /\ e.pre = r.pre /\ e.session = r.session
        /\ e.assigned \notin Devs /\ e.claimed \notin Devs /\ e.claimant \notin Devs
    BY <2>3, RoleFacts DEF Reassigned, Row
  <2> HIDE DEF e
  <2>5. BaseRow(e) /\ Resting(e) = "awaiting_qa"
    BY <2>2, <2>4, ReviewedRow, StatusFacts
  <2>6. Resting(e) \notin Passed
    BY <2>5 DEF Passed
  <2> QED BY <2>1, <2>4, <2>5, <2>6, PutRowOutsideReview
<1> QED BY <1>1, <1>2, <1>3, <1>4, <1>5, <1>6, <1>7, <1>8 DEF DevStep

(* A rework leaves review: request_changes, fail_review, ceo_reject.       *)
LEMMA SentBackRows ==
  ASSUME NEW r \in Row, BaseRow(r), r.status \in InReview
  PROVE  \A c \in {SentBack(r), CeoRejected(r)} :
           BaseRow(c) /\ Resting(c) \notin Passed /\ c.status # "blocked"
<1>1. r.pre = "none" /\ r.session = "live"
  BY StatusFacts, RowShows
<1>2. ASSUME NEW c \in {SentBack(r), CeoRejected(r)}
      PROVE  c.status = "needs_revision" /\ c.pre = r.pre /\ c.session = r.session
  BY <1>2 DEF SentBack, CeoRejected, Row
<1> QED BY <1>1, <1>2, QueuedRow

(* QA's pass, by the verb or the route: what it leaves is read.            *)
LEMMA PassKeepsBase ==
  ASSUME IInv, BaseInv, NEW t \in Tasks, NEW doc \in Docs \cup {Nobody},
         task[t].status = "awaiting_qa", unread' = unread \ {t},
         UNCHANGED <<forge, unmerged>>,
         Put(t, LET c == QaPassed(task[t])
                IN IF doc = Nobody THEN c ELSE Reassigned(c, doc))
  PROVE  BaseInv'
<1> DEFINE r == task[t]
           c == QaPassed(r)
           e == IF doc = Nobody THEN c ELSE Reassigned(c, doc)
<1>1. r \in Row /\ r.pre = "none" /\ r.session = "live" /\ Put(t, e)
  BY BaseOfTask, RowShows, StatusFacts
<1>2. /\ c \in Row
      /\ c.status = "awaiting_documentation" /\ c.pre = r.pre /\ c.session = r.session
      /\ c.assigned = Nobody /\ c.claimed = Nobody /\ c.claimant = Nobody
  BY <1>1, AgentFacts, StatusFacts DEF QaPassed, Released, Row
<1> HIDE DEF c
<1>3. /\ e.status = "awaiting_documentation" /\ e.pre = r.pre /\ e.session = r.session
      /\ e.assigned \notin Devs /\ e.claimed \notin Devs /\ e.claimant \notin Devs
  BY <1>2, RoleFacts DEF Reassigned, Row
<1> HIDE DEF e
<1>4. BaseRow(e) /\ Resting(e) = "awaiting_documentation"
  BY <1>1, <1>3, ReviewedRow, StatusFacts
<1>5. GitElsewhereKept(t) /\ t \notin unread'
  BY DEF GitElsewhereKept
<1> QED BY <1>1, <1>3, <1>4, <1>5, PutKeepsBase DEF RestFollows

LEMMA ReviewStepKeepsBase ==
  ASSUME IInv, BaseInv, NEW t \in Tasks, ReviewStep(t)
  PROVE  BaseInv'
<1> DEFINE r == task[t]
<1>0. r \in Row /\ RowInv(r) /\ BaseRow(r) /\ BaseGit(t)
  BY BaseOfTask
<1>1. ASSUME NEW a \in Agents \ Devs, r.status \in InReview, PutRow(t, Owned(r, a))
      PROVE  BaseInv'
  <2> DEFINE c == Owned(r, a)
  <2>1. r.status \in InReview /\ PutRow(t, c)
    BY <1>1
  <2>2. r.pre = "none" /\ r.session = "live"
    BY <1>0, <2>1, StatusFacts, RowShows
  <2>3. /\ c.status = r.status /\ c.pre = r.pre /\ c.session = r.session
        /\ c.assigned = a /\ c.claimed = a /\ c.claimant = a
    BY <1>0, OwnedShape
  <2> HIDE DEF c
  <2>4. BaseRow(c) /\ Resting(c) = Resting(r)
    BY <2>1, <2>2, <2>3, ReviewedRow, StatusFacts DEF Resting
  <2>5. c.status # "blocked" /\ c.status # "completed"
    BY <2>1, <2>3, StatusFacts
  <2> QED BY <2>1, <2>4, <2>5, PutRowKeepsBase DEF RestFollows
<1>2. ASSUME NEW q \in QAs, ClaimReview(q, t)
      PROVE  BaseInv'
  BY <1>1, <1>2, AgentFacts, RoleFacts, StatusFacts DEF ClaimReview, ReviewClaim
<1>3. ASSUME NEW q \in QAs, FailReview(q, t)
      PROVE  BaseInv'
  BY <1>0, <1>3, SentBackRows, StatusFacts, PutRowOutsideReview DEF FailReview
<1>4. ASSUME NEW q \in QAs, NEW doc \in Docs \cup {Nobody}, PassReview(q, doc, t)
      PROVE  BaseInv'
  BY <1>4, PassKeepsBase DEF PassReview
<1>5. ASSUME NEW doc \in Docs, ClaimDoc(doc, t)
      PROVE  BaseInv'
  BY <1>1, <1>5, AgentFacts, RoleFacts, StatusFacts DEF ClaimDoc, ReviewClaim
<1>6. ASSUME NEW doc \in Docs, IDocumented(doc, t)
      PROVE  BaseInv'
  <2> DEFINE c == DocsCompleted(r)
  <2>1. /\ r.status = "awaiting_documentation" /\ r.status \in InReview /\ r.pr
        /\ PutRow(t, c)
    BY <1>0, <1>6, StatusFacts DEF IDocumented, RowInv, RowReviewed
  <2>2. r.pre = "none" /\ r.session = "live"
    BY <1>0, <2>1, StatusFacts, RowShows
  <2>3. /\ c.status = "awaiting_pm_review" /\ c.pre = r.pre /\ c.session = r.session
        /\ c.assigned = CellPm /\ c.claimed = CellPm /\ c.claimant = CellPm
    BY <1>0, <2>1, DocsShape
  <2> HIDE DEF c
  <2>4. BaseRow(c) /\ Resting(c) = "awaiting_pm_review"
    BY <2>2, <2>3, ReviewedRow, RoleFacts, StatusFacts
  <2>5. Resting(r) \in Passed
    BY <2>1, StatusFacts DEF Resting, Passed
  <2> QED BY <2>1, <2>3, <2>4, <2>5, PutRowKeepsBase DEF RestFollows
<1>7. CASE RequestChanges(t)
  BY <1>0, <1>7, SentBackRows, StatusFacts, PutRowOutsideReview DEF RequestChanges
<1>8. CASE AssignReviewPm(t)
  BY <1>1, <1>8, AgentFacts, RoleFacts, StatusFacts DEF AssignReviewPm
<1> QED BY <1>2, <1>3, <1>4, <1>5, <1>6, <1>7, <1>8 DEF ReviewStep

(* What unblock(restore=True) writes, column by column.                    *)
LEMMA RestoredShape ==
  ASSUME NEW r, RowInv(r), r.status = "blocked"
  PROVE  LET c == Restored(r)
         IN  /\ r.pre \in Live /\ c.status = r.pre /\ c.pre = "none"
             /\ c.session = r.session
             /\ r.preOwner # Nobody =>
                  c.assigned = r.preOwner /\ c.claimed = r.preOwner /\ c.claimant = r.preOwner
             /\ r.preOwner = Nobody =>
                  /\ c.assigned = r.assigned /\ c.claimed = r.claimed
                  /\ c.claimant = r.claimant
<1>1. /\ r \in Row /\ r.pre \in Live
      /\ (IF r.pre = "in_progress" /\ ~r.branch THEN "pending" ELSE r.pre) = r.pre
  BY StatusFacts DEF RowInv, RowTyped, RowBranched, Row
<1> DEFINE o == IF r.preOwner # Nobody THEN Owned(r, r.preOwner) ELSE r
<1>2. /\ o \in Row /\ o.session = r.session
      /\ r.preOwner # Nobody =>
           o.assigned = r.preOwner /\ o.claimed = r.preOwner /\ o.claimant = r.preOwner
      /\ r.preOwner = Nobody =>
           o.assigned = r.assigned /\ o.claimed = r.claimed /\ o.claimant = r.claimant
  BY <1>1 DEF Owned, Row
<1>3. Restored(r) = [o EXCEPT !.status = r.pre, !.pre = "none", !.preOwner = Nobody,
                              !.raisedBy = Nobody]
  BY <1>1 DEF Restored
<1> HIDE DEF o
<1>4. /\ Restored(r).status = r.pre /\ Restored(r).pre = "none"
      /\ Restored(r).session = o.session /\ Restored(r).assigned = o.assigned
      /\ Restored(r).claimed = o.claimed /\ Restored(r).claimant = o.claimant
  BY <1>2, <1>3 DEF Row
<1> QED BY <1>1, <1>2, <1>4

LEMMA RestoredRow ==
  ASSUME NEW r, RowInv(r), BaseRow(r), r.status = "blocked"
  PROVE  BaseRow(Restored(r)) /\ Resting(Restored(r)) = r.pre
<1> DEFINE c == Restored(r)
<1>1. /\ r.pre \in Live /\ c.status = r.pre /\ c.pre = "none" /\ c.session = r.session
      /\ r.preOwner # Nobody =>
           c.assigned = r.preOwner /\ c.claimed = r.preOwner /\ c.claimant = r.preOwner
      /\ r.preOwner = Nobody =>
           c.assigned = r.assigned /\ c.claimed = r.claimed /\ c.claimant = r.claimant
  BY RestoredShape
<1> SUFFICES BaseRow(c) /\ Resting(c) = r.pre
  OBVIOUS
<1> HIDE DEF c
<1>2. Resting(c) = r.pre
  BY <1>1, StatusFacts DEF Resting
<1>3. CASE r.pre \in Working
  <2>1. c.status \in Working /\ c.session = "live"
    BY <1>1, <1>3, RowShows, StatusFacts
  <2> QED BY <1>1, <1>2, <2>1, WorkedRow
<1>4. CASE r.pre \in InReview
  <2>1. /\ r.session = "live"
        /\ SubmitHandsOver =>
             /\ r.preOwner \notin Devs /\ r.assigned \notin Devs
             /\ r.claimed \notin Devs /\ r.claimant \notin Devs
    BY <1>4, RowShows, StatusFacts
  <2>2. /\ c.status \in InReview /\ c.session = "live"
        /\ SubmitHandsOver =>
             c.assigned \notin Devs /\ c.claimed \notin Devs /\ c.claimant \notin Devs
    BY <1>1, <1>4, <2>1
  <2> QED BY <1>1, <1>2, <2>2, ReviewedRow
<1>5. CASE r.pre \in {"pending", "needs_revision"}
  <2>1. c.status \in {"pending", "needs_revision"}
    BY <1>1, <1>5
  <2>2. c.status = "needs_revision" => c.session = "live"
    BY <1>1, RowShows, StatusFacts
  <2> QED BY <1>1, <1>2, <2>1, <2>2, QueuedRow
<1>6. r.pre \in Working \/ r.pre \in InReview \/ r.pre \in {"pending", "needs_revision"}
  BY <1>1 DEF Live
<1> QED BY <1>3, <1>4, <1>5, <1>6

(* A block, whoever raises it and whoever has the task then.               *)
LEMMA BlocksKeepBase ==
  ASSUME IInv, BaseInv, NEW t \in Tasks, NEW c, task[t].status \notin Terminal,
         PutRow(t, c), c.status = "blocked",
         c.claimant = task[t].claimant, c.session = task[t].session,
         c.assigned = task[t].assigned \/ c.assigned \notin Devs,
         c.claimed = task[t].claimed \/ c.claimed \notin Devs,
         c.pre = IF task[t].pre # "none" THEN task[t].pre ELSE task[t].status,
         c.preOwner = IF task[t].pre # "none" THEN task[t].preOwner
                      ELSE IF task[t].assigned # Nobody THEN task[t].assigned
                      ELSE task[t].claimed
  PROVE  BaseInv'
<1> DEFINE r == task[t]
<1>0. r \in Row /\ RowInv(r) /\ BaseRow(r)
  BY BaseOfTask
<1>1. CASE r.status = "blocked"
  <2>1. c.pre = r.pre /\ c.preOwner = r.preOwner
    BY <1>0, <1>1 DEF RowInv, RowTyped
  <2>2. BaseRow(c) /\ Resting(c) = Resting(r)
    BY <1>0, <1>1, <2>1, BlockedRow, RowShows DEF Resting
  <2> QED BY <1>1, <2>1, <2>2, PutRowKeepsBase DEF RestFollows
<1>2. CASE r.status # "blocked"
  <2>1. r.pre = "none" /\ r.status \in Live
    BY <1>0, <1>2, RowShows, StatusFacts DEF Row
  <2>2. c.pre = r.status /\ c.preOwner = IF r.assigned # Nobody THEN r.assigned ELSE r.claimed
    BY <2>1
  <2>3. SubmitHandsOver /\ r.status \in InReview =>
         /\ c.assigned \notin Devs /\ c.claimed \notin Devs
         /\ c.claimant \notin Devs /\ c.preOwner \notin Devs
    BY <1>0, <2>2, RowShows
  <2>4. r.status \in Engaged => c.session = "live"
    BY <1>0, RowShows
  <2>5. BaseRow(c) /\ Resting(c) = Resting(r)
    BY <1>2, <2>2, <2>3, <2>4, BlockedRow DEF Resting
  <2> QED BY <1>2, <2>2, <2>5, PutRowKeepsBase DEF RestFollows
<1> QED BY <1>1, <1>2

LEMMA EscalatedShape ==
  ASSUME NEW r \in Row, NEW a
  PROVE  LET c == Escalated(r, a)
         IN  /\ c.status = "blocked" /\ c.claimant = r.claimant /\ c.session = r.session
             /\ c.assigned = a /\ c.claimed = a
             /\ c.pre = IF r.pre # "none" THEN r.pre ELSE r.status
             /\ c.preOwner = IF r.pre # "none" THEN r.preOwner
                             ELSE IF r.assigned # Nobody THEN r.assigned ELSE r.claimed
BY DEF Escalated, Snapshot, Raised, Row

LEMMA EscalationKeepsBase ==
  ASSUME IInv, BaseInv, NEW t \in Tasks, NEW a \in Agents \ Devs,
         task[t].status \notin Terminal, PutRow(t, Escalated(task[t], a))
  PROVE  BaseInv'
<1> DEFINE r == task[t]
           c == Escalated(r, a)
<1>1. r \in Row /\ PutRow(t, c)
  BY BaseOfTask
<1>2. /\ c.status = "blocked" /\ c.claimant = r.claimant /\ c.session = r.session
      /\ c.assigned = a /\ c.claimed = a
      /\ c.pre = IF r.pre # "none" THEN r.pre ELSE r.status
      /\ c.preOwner = IF r.pre # "none" THEN r.preOwner
                      ELSE IF r.assigned # Nobody THEN r.assigned ELSE r.claimed
  BY <1>1, EscalatedShape
<1> HIDE DEF c
<1> QED BY <1>1, <1>2, BlocksKeepBase

LEMMA BlockStepKeepsBase ==
  ASSUME IInv, BaseInv, Enabled \cap {"plain_unblock", "divert"} = {},
         NEW t \in Tasks, BlockStep(t)
  PROVE  BaseInv'
<1> DEFINE r == task[t]
<1>0. r \in Row /\ RowInv(r) /\ BaseRow(r) /\ BaseGit(t)
  BY BaseOfTask
<1>3. CASE IAmBlocked(t)
  BY <1>3, EscalationKeepsBase, AgentFacts, RoleFacts, StatusFacts DEF IAmBlocked
<1>4. CASE HttpSoftBlock(t)
  <2> DEFINE c == SoftBlocked(r)
  <2>1. /\ c.status = "blocked" /\ c.claimant = r.claimant /\ c.session = r.session
        /\ c.assigned = r.assigned /\ c.claimed = r.claimed
        /\ c.pre = IF r.pre # "none" THEN r.pre ELSE r.status
        /\ c.preOwner = IF r.pre # "none" THEN r.preOwner
                        ELSE IF r.assigned # Nobody THEN r.assigned ELSE r.claimed
    BY <1>0 DEF SoftBlocked, Snapshot, Raised, Row
  <2>2. PutRow(t, c) /\ r.status \notin Terminal
    BY <1>4, StatusFacts DEF HttpSoftBlock
  <2> HIDE DEF c
  <2> QED BY <2>1, <2>2, BlocksKeepBase
<1>5. CASE EscalateUp(t)
  BY <1>5, EscalationKeepsBase, AgentFacts, RoleFacts DEF EscalateUp
<1>6. CASE UnblockRestore(t)
  <2>1. r.status = "blocked" /\ PutRow(t, Restored(r))
    BY <1>6 DEF UnblockRestore
  <2>2. BaseRow(Restored(r)) /\ Resting(Restored(r)) = Resting(r)
        /\ Restored(r).status \notin {"blocked", "completed"}
    BY <1>0, <2>1, RestoredShape, RestoredRow, StatusFacts DEF Resting
  <2> QED BY <2>1, <2>2, PutRowKeepsBase DEF RestFollows
<1> QED BY <1>3, <1>4, <1>5, <1>6 DEF BlockStep, MainPmEscalateUp, UnblockPlain

LEMMA OwnerStepKeepsBase ==
  ASSUME IInv, BaseInv, NEW t \in Tasks, NEW a \in Agents, OwnerStep(a, t)
  PROVE  BaseInv'
<1> DEFINE r == task[t]
<1>0. r \in Row /\ RowInv(r) /\ BaseRow(r) /\ BaseGit(t)
      /\ {"claimed", "in_progress", "paused", "verifying"} = Working
  BY BaseOfTask DEF Working
<1>1. ASSUME NEW s \in Working, r.status \in Engaged, PutRow(t, [r EXCEPT !.status = s])
      PROVE  BaseInv'
  <2>1. r.pre = "none" /\ r.session = "live"
    BY <1>0, <1>1, StatusFacts, RowShows
  <2> QED BY <1>0, <1>1, <2>1, WorkingStatusWrite, PutRowOutsideReview
<1>2. CASE Pause(a, t)
  BY <1>0, <1>1, <1>2, StatusFacts DEF Pause
<1>3. CASE Resume(a, t)
  BY <1>0, <1>1, <1>3, StatusFacts DEF Resume, Started
<1>8. CASE HttpStart(a, t)
  BY <1>0, <1>1, <1>8, StatusFacts DEF HttpStart, Started
<1>9. CASE HttpCreatePr(a, t)
  BY <1>9, OpensPrKeepsBase DEF HttpCreatePr, OnlyQaPasses
<1>4. ASSUME NEW c, c.status = "pending", c.pre = "none", PutRow(t, c)
      PROVE  BaseInv'
  BY <1>4, QueuedRow, PutRowOutsideReview
<1>5. CASE UnclaimPending(a, t)
  <2> DEFINE c == [r EXCEPT !.assigned = Nobody, !.claimant = Nobody]
  <2>1. c.status = "pending" /\ c.pre = "none" /\ PutRow(t, c)
    BY <1>0, <1>5, RowShows DEF UnclaimPending, Row
  <2> HIDE DEF c
  <2> QED BY <1>4, <2>1
<1>6. CASE UnclaimBlocked(a, t)
  <2>1. UnclaimedFromBlocked(r).status = "pending" /\ UnclaimedFromBlocked(r).pre = "none"
    BY <1>0 DEF UnclaimedFromBlocked, Released, Row
  <2> QED BY <1>4, <1>6, <2>1 DEF UnclaimBlocked
<1>7. CASE UnclaimWork(a, t)
  <2>1. UnclaimedFromWork(r).status = "pending" /\ UnclaimedFromWork(r).pre = "none"
    BY <1>0, <1>7, RowShows DEF UnclaimWork, UnclaimedFromWork, Row
  <2> QED BY <1>4, <1>7, <2>1 DEF UnclaimWork
<1> QED BY <1>2, <1>3, <1>5, <1>6, <1>7, <1>8, <1>9 DEF OwnerStep

(* Completion after a merge: the session was live, so complete() passed    *)
(* only because this very step recorded the merge on it.                   *)
LEMMA CompletionKeepsBase ==
  ASSUME IInv, BaseInv, NEW t \in Tasks,
         task[t].status \in {"awaiting_pm_review", "awaiting_ceo_approval"},
         GitElsewhereKept(t), unread' = unread, OnlyMergeEnds => t \notin unmerged',
         Finalize(t, SessionMerged(task[t]))
  PROVE  BaseInv'
<1> DEFINE c == Completed(SessionMerged(task[t]))
<1>1. /\ task[t] \in Row /\ BaseRow(task[t]) /\ BaseGit(t)
      /\ task[t].status \in InReview /\ task[t].status \in Passed
  BY BaseOfTask, StatusFacts DEF Passed
<1>2. c.status = "completed" /\ c.pre = "none"
  BY <1>1, RowShows, StatusFacts DEF Completed, SessionMerged, Row
<1>3. Put(t, c)
  BY DEF Finalize
<1>4. OnlyQaPasses => t \notin unread
  BY <1>1, StatusFacts DEF BaseGit, Resting
<1> HIDE DEF c
<1>5. BaseRow(c) /\ Resting(c) = "completed"
  BY <1>2, CompletedRow
<1> QED BY <1>2, <1>3, <1>4, <1>5, PutKeepsBase DEF RestFollows

(* Without a recorded merge complete() refuses: at work and under review   *)
(* the session is always live.                                             *)
LEMMA UnrecordedMergeRefused ==
  ASSUME IInv, BaseInv, NEW t \in Tasks, task[t].status \in Engaged
  PROVE  ~PrMergedForComplete(task[t])
BY BaseOfTask, RowShows, StatusFacts DEF PrMergedForComplete

LEMMA GitStepKeepsBase ==
  ASSUME IInv, BaseInv, NEW t \in Tasks, UNCHANGED <<task, rest, unread>>,
         \A u \in Tasks : u \in unmerged' => u \in unmerged,
         \A u \in Tasks \ {t} : forge'[u] = forge[u],
         t \notin unmerged'
  PROVE  BaseInv'
<1>1. ASSUME NEW u \in Tasks
      PROVE  BaseRow(task[u])' /\ BaseGit(u)' /\ RestKept(u)'
  BY BaseOfTask
  DEF BaseGit, RestKept, BaseRow, SnapshotFresh, ReviewerOwned, SessionLive, Resting
<1> QED BY <1>1 DEF BaseInv

LEMMA MergeStepKeepsBase ==
  ASSUME IInv, BaseInv, NEW t \in Tasks, MergeStep(t)
  PROVE  BaseInv'
<1> DEFINE r == task[t]
<1>0. r \in Row /\ RowInv(r) /\ BaseRow(r) /\ BaseGit(t)
  BY BaseOfTask
<1>1. MayComplete(t) => r.status = "awaiting_pm_review" /\ r.status \in InReview
  BY StatusFacts DEF MayComplete
<1>2. ASSUME LandedOnForge(t)
      PROVE  /\ GitElsewhereKept(t) /\ unread' = unread /\ t \notin unmerged'
             /\ \A u \in Tasks : u \in unmerged' => u \in unmerged
             /\ \A u \in Tasks \ {t} : forge'[u] = forge[u]
  BY <1>2 DEF LandedOnForge, GitElsewhereKept, IInv, TypeOK
<1>3. CASE CompleteByMerging(t)
  BY <1>1, <1>2, <1>3, CompletionKeepsBase DEF CompleteByMerging
<1>4. CASE CompleteCutShort(t)
  BY <1>2, <1>4, GitStepKeepsBase DEF CompleteCutShort
<1>5. CASE CompleteAlreadyMerged(t)
  BY <1>1, <1>5, StatusFacts, UnrecordedMergeRefused DEF CompleteAlreadyMerged, Finalize
<1>6. CASE CompleteSuperseded(t)
  <2>1. UNCHANGED <<task, rest, unread>> /\ unmerged' = unmerged \ {t}
        /\ forge' = [forge EXCEPT ![t] = "closed"]
    BY <1>1, <1>6, StatusFacts, UnrecordedMergeRefused DEF CompleteSuperseded
  <2>2. \A u \in Tasks \ {t} : forge'[u] = forge[u]
    BY <2>1 DEF IInv, TypeOK
  <2> QED BY <2>1, <2>2, GitStepKeepsBase
<1>7. ASSUME NEW c, r.status = "awaiting_pm_review", PutRow(t, c), forge[t] # "merged",
             c.status = "awaiting_ceo_approval", c.pre = r.pre, c.session = r.session,
             c.assigned = r.assigned, c.claimed = r.claimed,
             c.claimant \in {r.claimant, Nobody}
      PROVE  BaseInv'
  <2>1. /\ r.pre = "none" /\ r.session = "live" /\ Resting(r) \in Passed
        /\ SubmitHandsOver =>
             r.assigned \notin Devs /\ r.claimed \notin Devs /\ c.claimant \notin Devs
    BY <1>0, <1>7, RowShows, RoleFacts, StatusFacts DEF Resting, Passed
  <2>2. BaseRow(c) /\ Resting(c) = "awaiting_ceo_approval"
    BY <1>7, <2>1, ReviewedRow, StatusFacts
  <2> QED BY <1>7, <2>1, <2>2, PutRowKeepsBase DEF RestFollows
<1>8. CASE CompleteRoutedToCeo(t)
  <2> DEFINE c == [r EXCEPT !.status = "awaiting_ceo_approval"]
  <2>1. /\ c.status = "awaiting_ceo_approval" /\ c.pre = r.pre /\ c.session = r.session
        /\ c.assigned = r.assigned /\ c.claimed = r.claimed /\ c.claimant = r.claimant
    BY <1>0 DEF Row
  <2>2. r.status = "awaiting_pm_review" /\ forge[t] # "merged" /\ PutRow(t, c)
    BY <1>1, <1>8 DEF CompleteRoutedToCeo
  <2> HIDE DEF c
  <2> QED BY <1>7, <2>1, <2>2
<1>9. CASE CompleteInConflict(t)
  <2> DEFINE c == [r EXCEPT !.status = "awaiting_ceo_approval", !.claimant = Nobody]
  <2>1. /\ c.status = "awaiting_ceo_approval" /\ c.pre = r.pre /\ c.session = r.session
        /\ c.assigned = r.assigned /\ c.claimed = r.claimed /\ c.claimant = Nobody
    BY <1>0 DEF Row
  <2>2. r.status = "awaiting_pm_review" /\ forge[t] # "merged" /\ PutRow(t, c)
    BY <1>1, <1>9 DEF CompleteInConflict
  <2> HIDE DEF c
  <2> QED BY <1>7, <2>1, <2>2
<1>10. ASSUME MergeForTask(t), r.status \in {"awaiting_pm_review", "awaiting_ceo_approval"},
              OnlyMergeEnds => r.status = "awaiting_ceo_approval"
       PROVE  BaseInv'
  <2>1. /\ Finalize(t, SessionMerged(r))
        /\ \/ LandedOnForge(t)
           \/ UNCHANGED git /\ (forge[t] = "merged" \/ ~OnlyMergeEnds)
    BY <1>10 DEF MergeForTask, OnlyMergeEnds
  <2>2. CASE LandedOnForge(t)
    BY <1>2, <1>10, <2>1, <2>2, CompletionKeepsBase
  <2>3. CASE UNCHANGED git /\ (forge[t] = "merged" \/ ~OnlyMergeEnds)
    <3>1. unread' = unread /\ GitElsewhereKept(t)
      BY <2>3 DEF git, GitElsewhereKept
    <3>2. OnlyMergeEnds => t \notin unmerged'
      BY <1>0, <1>10, <2>3 DEF BaseGit, Resting, git
    <3> QED BY <1>10, <2>1, <3>1, <3>2, CompletionKeepsBase
  <2> QED BY <2>1, <2>2, <2>3
<1>14. CASE CeoApproveAndMerge(t)
  BY <1>10, <1>14 DEF CeoApproveAndMerge
<1>15. CASE HttpMerge(t)
  BY <1>10, <1>15 DEF HttpMerge, OnlyMergeEnds
<1>11. CASE CeoMergeCutShort(t)
  BY <1>2, <1>11, GitStepKeepsBase DEF CeoMergeCutShort
<1>12. CASE CeoApprove(t)
  BY <1>12, StatusFacts, UnrecordedMergeRefused DEF CeoApprove, Finalize
<1>13. CASE CeoReject(t)
  BY <1>0, <1>13, SentBackRows, StatusFacts, PutRowOutsideReview DEF CeoReject
<1> QED
  BY <1>3, <1>4, <1>5, <1>6, <1>8, <1>9, <1>11, <1>12, <1>13, <1>14, <1>15 DEF MergeStep

(* The routes beside the review verbs.                                     *)
LEMMA HttpStepKeepsBase ==
  ASSUME IInv, BaseInv, NEW t \in Tasks, HttpStep(t)
  PROVE  BaseInv'
<1> DEFINE r == task[t]
<1>0. r \in Row /\ RowInv(r) /\ BaseRow(r) /\ BaseGit(t)
  BY BaseOfTask
<1>1. r.status \in Engaged => r.pre = "none" /\ r.session = "live"
  BY <1>0, RowShows, StatusFacts
<1>2. ASSUME NEW a \in Agents, SubmitPmReview(a, t)
      PROVE  BaseInv'
  <2> DEFINE c == [r EXCEPT !.status = "awaiting_pm_review",
                            !.assigned = IF a = CellPm THEN MainPm ELSE CellPm]
  <2>1. PutRow(t, c) /\ r.status \in Engaged /\ ~SubmitHandsOver
    BY <1>2, StatusFacts DEF SubmitPmReview, SubmitHandsOver
  <2>2. c.status = "awaiting_pm_review" /\ c.pre = r.pre /\ c.session = r.session
    BY <1>0 DEF Row
  <2> HIDE DEF c
  <2>3. BaseRow(c) /\ Resting(c) = "awaiting_pm_review"
    BY <1>1, <2>1, <2>2, ReviewedRow, StatusFacts
  <2> QED BY <2>1, <2>2, <2>3, PassesHandOver, PutRowKeepsBase DEF RestFollows
<1>3. ASSUME NEW a \in Agents, HttpClaimReview(a, t)
      PROVE  BaseInv'
  <2> DEFINE o == Owned(r, a)
             c == [o EXCEPT !.status = "claimed"]
  <2>1. PutRow(t, c) /\ r.status \in Engaged
    BY <1>3, StatusFacts DEF HttpClaimReview
  <2>2. o \in Row /\ o.pre = "none" /\ o.session = "live"
    BY <1>0, <1>1, <2>1, OwnedShape
  <2> HIDE DEF o
  <2>3. BaseRow(c) /\ Resting(c) \notin Passed /\ c.status # "blocked"
    BY <2>2, WorkingStatusWrite DEF Working
  <2> QED BY <2>1, <2>3, PutRowOutsideReview
<1>4. ASSUME NEW a \in Agents, HttpComplete(a, t)
      PROVE  BaseInv'
  BY <1>4, StatusFacts, UnrecordedMergeRefused DEF HttpComplete, Finalize
<1>5. CASE HttpDocsComplete(t)
  <2> DEFINE c == [DocsCompleted(r) EXCEPT !.assigned = CellPm]
  <2>1. PutRow(t, c) /\ r.status \in Engaged /\ ~OnlyQaPasses
    BY <1>5, StatusFacts DEF HttpDocsComplete, OnlyQaPasses, ThroughQa
  <2>2. /\ c.pre = r.pre /\ c.preOwner = r.preOwner /\ c.session = r.session
        /\ c.assigned = CellPm
        /\ r.pr => /\ c.status = "awaiting_pm_review"
                   /\ c.claimed = CellPm /\ c.claimant = CellPm
        /\ ~r.pr => /\ c.status = r.status
                    /\ c.claimed = r.claimed /\ c.claimant = r.claimant
    BY <1>0, NamedDocsShape
  <2> HIDE DEF c
  <2>3. CASE r.pr
    <3>1. BaseRow(c) /\ Resting(c) = "awaiting_pm_review"
      BY <1>1, <2>1, <2>2, <2>3, ReviewedRow, RoleFacts, StatusFacts
    <3> QED BY <2>1, <2>2, <2>3, <3>1, PutRowKeepsBase DEF RestFollows
  <2>4. CASE ~r.pr
    <3>1. BaseRow(c) /\ Resting(c) = Resting(r)
      BY <1>0, <2>2, <2>4, RoleFacts
      DEF BaseRow, SnapshotFresh, ReviewerOwned, SessionLive, Resting
    <3>2. c.status \notin {"blocked", "completed"}
      BY <2>1, <2>2, <2>4, StatusFacts
    <3> QED BY <2>1, <3>1, <3>2, PutRowKeepsBase DEF RestFollows
  <2> QED BY <2>3, <2>4
<1>6. CASE HttpPassReview(t)
  <2>1. /\ Nobody \in Docs \cup {Nobody}
        /\ Put(t, LET c == QaPassed(r)
                  IN IF Nobody = Nobody THEN c ELSE Reassigned(c, Nobody))
    BY <1>6 DEF HttpPassReview
  <2> QED BY <1>6, <2>1, PassKeepsBase DEF HttpPassReview
<1>7. CASE HttpFailReview(t)
  BY <1>0, <1>7, SentBackRows, StatusFacts, PutRowOutsideReview DEF HttpFailReview
<1>8. CASE HttpEscalate(t)
  BY <1>8, EscalationKeepsBase, AgentFacts, RoleFacts DEF HttpEscalate
<1>9. ASSUME NEW a \in Agents, HttpVerify(a, t)
      PROVE  BaseInv'
  <2>1. /\ r.status \in Engaged /\ "verifying" \in Working
        /\ PutRow(t, [r EXCEPT !.status = "verifying"])
    BY <1>9, StatusFacts DEF HttpVerify, Working
  <2> QED BY <1>0, <1>1, <2>1, WorkingStatusWrite, PutRowOutsideReview
<1>10. ASSUME NEW a \in Agents, HttpSubmitQa(a, t)
       PROVE  BaseInv'
  <2> DEFINE c == SubmittedForQa(r)
  <2>1. PutRow(t, c) /\ r.status \in Engaged
    BY <1>10, StatusFacts DEF HttpSubmitQa
  <2>2. /\ c.status = "awaiting_qa" /\ c.pre = r.pre /\ c.session = r.session
        /\ c.assigned = Nobody /\ c.claimed = Nobody /\ c.claimant = Nobody
    BY <1>0, SubmittedShape
  <2> HIDE DEF c
  <2>3. BaseRow(c) /\ Resting(c) = "awaiting_qa"
    BY <1>1, <2>1, <2>2, ReviewedRow, RoleFacts, StatusFacts
  <2>4. Resting(c) \notin Passed
    BY <2>3 DEF Passed
  <2> QED BY <2>1, <2>2, <2>3, <2>4, PutRowOutsideReview
<1> QED BY <1>2, <1>3, <1>4, <1>5, <1>6, <1>7, <1>8, <1>9, <1>10 DEF HttpStep

LEMMA NextKeepsBase ==
  ASSUME IInv, BaseInv, Enabled \cap {"plain_unblock", "divert"} = {}, Next
  PROVE  BaseInv'
<1>1. PICK t \in Tasks :
        \/ \E d \in Devs : DevStep(d, t)
        \/ ReviewStep(t)
        \/ HttpStep(t)
        \/ MergeStep(t)
        \/ BlockStep(t)
        \/ \E a \in Agents : OwnerStep(a, t)
        \/ Reap(t)
        \/ Cancel(t)
  BY DEF Next
<1>0. task[t] \in Row /\ BaseRow(task[t]) /\ BaseGit(t)
  BY BaseOfTask
<1>2. CASE Reap(t)
  <2>1. task[t].pre = "none"
    BY <1>0, <1>2, RowShows DEF Reap
  <2>2. Reaped(task[t]).status = "pending" /\ Reaped(task[t]).pre = "none"
    BY <1>0, <2>1 DEF Reaped, Row
  <2> QED BY <1>2, <2>2, QueuedRow, PutRowOutsideReview DEF Reap
<1>3. CASE Cancel(t)
  <2> DEFINE c == [task[t] EXCEPT !.status = "cancelled"]
  <2>1. c.status = "cancelled"
    BY <1>0 DEF Row
  <2>2. Put(t, c) /\ GitElsewhereKept(t)
    BY <1>3 DEF Cancel, GitElsewhereKept, IInv, TypeOK
  <2> HIDE DEF c
  <2>3. BaseRow(c) /\ Resting(c) \notin Passed /\ Resting(c) = "cancelled"
    BY <2>1, CancelledRow DEF Resting
  <2> QED BY <2>1, <2>2, <2>3, PutKeepsBase DEF RestFollows
<1> QED
  BY <1>1, <1>2, <1>3, DevStepKeepsBase, ReviewStepKeepsBase, HttpStepKeepsBase,
     MergeStepKeepsBase, BlockStepKeepsBase, OwnerStepKeepsBase

LEMMA InitBase == Init => BaseInv
<1> SUFFICES ASSUME Init, NEW t \in Tasks
             PROVE  BaseRow(task[t]) /\ BaseGit(t) /\ RestKept(t)
  BY DEF BaseInv
<1>1. task[t].status = "pending" /\ task[t].pre = "none"
  BY DEF Init, NewRow
<1>2. BaseRow(task[t]) /\ Resting(task[t]) \notin Passed
  BY <1>1, QueuedRow
<1>3. t \notin unmerged /\ t \notin unread
  BY DEF Init
<1> QED BY <1>1, <1>2, <1>3 DEF BaseGit, RestKept

(* While every block is undone by a restore, snapshots stay fresh and true,*)
(* sessions are live; review is out of the developers' reach unless they   *)
(* have POST /submit-pm-review, and nothing past QA is unread unless a     *)
(* route skips QA (BaseRow and BaseGit say which routes).                  *)
THEOREM BaseInvariance ==
  ASSUME Enabled \cap {"plain_unblock", "divert"} = {}
  PROVE  Spec => []BaseInv
<1>1. ASSUME IInv, BaseInv, [Next]_vars
      PROVE  BaseInv'
  <2>1. CASE UNCHANGED vars
    BY <1>1, <2>1
    DEF vars, BaseInv, BaseGit, RestKept, BaseRow, SnapshotFresh, ReviewerOwned, SessionLive, Resting
  <2> QED BY <1>1, <2>1, NextKeepsBase
<1> QED BY <1>1, InitBase, Invariance, PTL DEF Spec

(* No commit that QA has not passed reaches documentation, PM review, the  *)
(* CEO or completion, unless by a plain unblock, an escalation above the   *)
(* main PM, POST /git/pr/create, POST /submit-pm-review or POST            *)
(* /docs-complete.                                                         *)
THEOREM ReviewedFirst ==
  ASSUME Enabled \cap {"plain_unblock", "divert", "http_create_pr",
                       "http_submit_pm_review", "http_docs_complete"} = {}
  PROVE  Spec => []ReviewedBeforeCompletion
<1>1. BaseInv => ReviewedBeforeCompletion
  BY StatusFacts
  DEF BaseInv, BaseGit, OnlyQaPasses, ThroughQa, Resting, Passed, ReviewedBeforeCompletion
<1>2. Spec => []BaseInv
  BY BaseInvariance
<1> QED BY <1>1, <1>2, PTL

(* What complete() and ceo_approve() complete is in the base branch, a     *)
(* crash between GitHub's merge and the commit included; the routes that   *)
(* start, review and submit work change nothing of it.                     *)
THEOREM MergedBeforeCompletion ==
  ASSUME Enabled \cap {"plain_unblock", "divert", "http_merge", "merge_blip"} = {}
  PROVE  Spec => []CompletedIsMerged
<1>1. BaseInv => CompletedIsMerged
  BY DEF BaseInv, BaseGit, OnlyMergeEnds, CompletedIsMerged
<1>2. Spec => []BaseInv
  BY BaseInvariance
<1> QED BY <1>1, <1>2, PTL

(* No developer holds the lock of a task under review, however often       *)
(* GitHub is out of reach, unless by a plain unblock, an escalation above  *)
(* the main PM, or POST /submit-pm-review, after which the developer's     *)
(* claim outlives the work.                                                *)
THEOREM ReviewFrozen ==
  ASSUME Enabled \cap {"plain_unblock", "divert", "http_submit_pm_review"} = {}
  PROVE  Spec => []ReviewIsFrozen
<1>1. BaseInv => ReviewIsFrozen
  BY StatusFacts
  DEF BaseInv, BaseRow, SubmitHandsOver, ReviewerOwned, Resting, ReviewIsFrozen
<1>2. Spec => []BaseInv
  BY BaseInvariance
<1> QED BY <1>1, <1>2, PTL

(* unblock(restore=True) puts an owned task back where it rested, with the *)
(* owner it had, whoever escalated it how often in between.                *)
THEOREM RestoreExact ==
  ASSUME Enabled \cap {"plain_unblock", "divert"} = {}
  PROVE  Spec => RestoreIsExact
<1>1. ASSUME IInv, BaseInv
      PROVE  [\A t \in Tasks :
                UnblockRestore(t) /\ rest[t].owner # Nobody =>
                  /\ task'[t].status = rest[t].status
                  /\ task'[t].assigned = rest[t].owner]_vars
  <2>1. ASSUME NEW t \in Tasks, UnblockRestore(t), rest[t].owner # Nobody
        PROVE  task'[t].status = rest[t].status /\ task'[t].assigned = rest[t].owner
    <3>1. task[t].status = "blocked" /\ task' = [task EXCEPT ![t] = Restored(task[t])]
      BY <2>1 DEF UnblockRestore, PutRow, Put
    <3>2. task'[t] = Restored(task[t])
      BY <1>1, <3>1 DEF IInv, TypeOK
    <3>3. rest[t].status = task[t].pre /\ task[t].preOwner = rest[t].owner
      BY <1>1, <2>1, <3>1, BaseOfTask DEF RestKept
    <3> QED BY <1>1, <2>1, <3>1, <3>2, <3>3, BaseOfTask, RestoredShape
  <2> QED BY <2>1
<1> QED BY <1>1, BaseInvariance, Invariance, PTL DEF RestoreIsExact

----------------------------------------------------------------------------
(* Workers and their locks: one write of one row either leaves status,     *)
(* owner and snapshot alone or shows what WorkerOwned asks of it.          *)

LEMMA WorkerWrite ==
  ASSUME IInv, WorkerInv, NEW t \in Tasks, NEW row, Put(t, row), WorkerOwned(row)
  PROVE  WorkerInv'
<1>1. \A u \in Tasks : task'[u] = IF u = t THEN row ELSE task[u]
  BY DEF Put, IInv, TypeOK
<1> QED BY <1>1 DEF WorkerInv, WorkerOwned

(* A row that keeps its snapshot and is not at work.                       *)
LEMMA IdleRow ==
  ASSUME NEW r, WorkerOwned(r), NEW s, s.status \notin Working,
         s.pre \in {r.pre, "none"}, s.pre = r.pre => s.preOwner = r.preOwner
  PROVE  WorkerOwned(s)
BY StatusFacts DEF WorkerOwned, Working

(* A row that keeps its snapshot and its owner, or is given to a developer.*)
LEMMA HeldRow ==
  ASSUME NEW r, WorkerOwned(r), NEW s,
         s.pre = r.pre, s.preOwner = r.preOwner,
         \/ /\ s.assigned = r.assigned /\ s.claimed = r.claimed
            /\ s.claimant = r.claimant /\ r.status \in Working
         \/ s.assigned \in Devs /\ s.claimed = s.assigned /\ s.claimant = s.assigned
  PROVE  WorkerOwned(s)
BY DEF WorkerOwned

(* A block keeps the first snapshot; one taken from work has its developer.*)
LEMMA SnapshotRow ==
  ASSUME NEW r, WorkerOwned(r), r.assigned # Nobody \/ r.status \notin Working,
         NEW s, s.status = "blocked",
         s.pre = IF r.pre # "none" THEN r.pre ELSE r.status,
         s.preOwner = IF r.pre # "none" THEN r.preOwner
                      ELSE IF r.assigned # Nobody THEN r.assigned ELSE r.claimed
  PROVE  WorkerOwned(s)
BY StatusFacts DEF WorkerOwned, Working

LEMMA WorkerOfTask ==
  ASSUME IInv, WorkerInv, NEW t \in Tasks
  PROVE  /\ task[t] \in Row /\ RowInv(task[t]) /\ WorkerOwned(task[t])
         /\ task[t].assigned # Nobody \/ task[t].status \notin Working
BY RowOfTask, RoleFacts DEF WorkerInv, WorkerOwned

(* Every write that ends in a status nobody works in.                      *)
LEMMA IdleWrite ==
  ASSUME IInv, WorkerInv, NEW t \in Tasks, NEW row, Put(t, row),
         row.status \notin Working, row.pre \in {task[t].pre, "none"},
         row.pre = task[t].pre => row.preOwner = task[t].preOwner
  PROVE  WorkerInv'
<1>1. WorkerOwned(row)
  BY WorkerOfTask, IdleRow
<1> QED BY <1>1, WorkerWrite

LEMMA NotWorking ==
  /\ {"pending", "needs_revision", "awaiting_qa", "awaiting_documentation",
      "awaiting_pm_review", "awaiting_ceo_approval", "blocked", "completed",
      "cancelled"} \cap Working = {}
  /\ {"claimed", "in_progress", "paused", "verifying"} = Working
BY DEF Working

LEMMA OpensPrKeepsWorkers ==
  ASSUME IInv, WorkerInv, NEW t \in Tasks, NEW a \in Agents, OpensPr(a, t)
  PROVE  WorkerInv'
<1> DEFINE r == task[t]
<1>0. /\ r \in Row /\ WorkerOwned(r) /\ Put(t, PrMarked(r))
  BY WorkerOfTask DEF OpensPr
<1>1. CASE r.docs
  <2> DEFINE c == [ToPmReview(r) EXCEPT !.pr = TRUE]
  <2>1. Put(t, c)
    BY <1>0, <1>1 DEF PrMarked
  <2>2. /\ c.status = "awaiting_pm_review"
        /\ c.pre = r.pre /\ c.preOwner = r.preOwner
    BY <1>0, OwnedShape, AgentFacts DEF ToPmReview, Row
  <2> HIDE DEF c
  <2> QED BY <2>1, <2>2, NotWorking, IdleWrite
<1>2. CASE ~r.docs
  <2> DEFINE c == [r EXCEPT !.pr = TRUE]
  <2>1. Put(t, c)
    BY <1>0, <1>2 DEF PrMarked
  <2>2. \A f \in {"status", "assigned", "claimed", "claimant", "pre", "preOwner"} : c[f] = r[f]
    BY <1>0 DEF Row
  <2> HIDE DEF c
  <2>3. WorkerOwned(c)
    BY <1>0, <2>2 DEF WorkerOwned
  <2> QED BY <2>1, <2>3, WorkerWrite
<1> QED BY <1>1, <1>2

LEMMA DevStepKeepsWorkers ==
  ASSUME IInv, WorkerInv, NEW t \in Tasks, NEW d \in Devs, DevStep(d, t)
  PROVE  WorkerInv'
<1> DEFINE r == task[t]
<1>0. r \in Row /\ WorkerOwned(r) /\ d \in Agents
  BY WorkerOfTask, AgentFacts
<1>1. ASSUME NEW c, Put(t, c), c.assigned = d, c.claimed = d, c.claimant = d,
             c.pre = r.pre, c.preOwner = r.preOwner
      PROVE  WorkerInv'
  BY <1>0, <1>1, HeldRow, WorkerWrite
<1>2. ASSUME NEW c, Put(t, c), r.status \in Working,
             c.assigned = r.assigned, c.claimed = r.claimed, c.claimant = r.claimant,
             c.pre = r.pre, c.preOwner = r.preOwner
      PROVE  WorkerInv'
  BY <1>0, <1>2, HeldRow, WorkerWrite
<1>3. /\ FinalizeClaim(r, d) \in Row
      /\ FinalizeClaim(r, d).assigned = d /\ FinalizeClaim(r, d).claimed = d
      /\ FinalizeClaim(r, d).claimant = d
      /\ FinalizeClaim(r, d).pre = r.pre /\ FinalizeClaim(r, d).preOwner = r.preOwner
  <2>1. ASSUME NEW o \in Row
        PROVE  LET c == [o EXCEPT !.status = IF @ = "pending" THEN "claimed" ELSE @,
                                  !.branch = TRUE, !.session = "live"]
               IN  /\ c \in Row
                   /\ c.assigned = o.assigned /\ c.claimed = o.claimed
                   /\ c.claimant = o.claimant /\ c.pre = o.pre /\ c.preOwner = o.preOwner
    BY <2>1, StatusFacts DEF Row
  <2>2. /\ Owned(r, d) \in Row /\ Owned(r, d).pre = r.pre
        /\ Owned(r, d).assigned = d /\ Owned(r, d).claimed = d
        /\ Owned(r, d).claimant = d /\ Owned(r, d).preOwner = r.preOwner
    BY <1>0, OwnedShape
  <2> HIDE DEF r
  <2> QED BY <2>1, <2>2 DEF FinalizeClaim
<1>4. CASE IWillWorkOn(d, t)
  <2> DEFINE c == Started(FinalizeClaim(r, d))
  <2>1. Put(t, c)
    BY <1>4 DEF IWillWorkOn, PutRow
  <2>2. /\ c.assigned = d /\ c.claimed = d /\ c.claimant = d
        /\ c.pre = r.pre /\ c.preOwner = r.preOwner
    BY <1>3 DEF Started, Row
  <2> HIDE DEF c
  <2> QED BY <1>1, <2>1, <2>2
<1>5. CASE ClaimOnBehalf(d, t)
  BY <1>1, <1>3, <1>5 DEF ClaimOnBehalf, PutRow
<1>6. CASE ResumeFromClaimed(d, t)
  <2> DEFINE c == [Started(r) EXCEPT !.session = IF @ = "none" THEN "live" ELSE @]
  <2>1. Put(t, c) /\ r.status \in Working
    BY <1>6, NotWorking DEF ResumeFromClaimed, PutRow
  <2>2. /\ c.assigned = r.assigned /\ c.claimed = r.claimed /\ c.claimant = r.claimant
        /\ c.pre = r.pre /\ c.preOwner = r.preOwner
    BY <1>0 DEF Started, Row
  <2> HIDE DEF c
  <2> QED BY <1>2, <2>1, <2>2
<1>7. CASE Commit(d, t)
  BY <1>7 DEF Commit, WorkerInv, WorkerOwned
<1>8. CASE OpenPr(d, t)
  BY <1>0, <1>8, OpensPrKeepsWorkers DEF OpenPr
<1>9. CASE SubmitVerification(d, t)
  <2> DEFINE c == [r EXCEPT !.status = "verifying"]
  <2>1. Put(t, c) /\ r.status \in Working
    BY <1>9, NotWorking DEF SubmitVerification, PutRow
  <2>2. /\ c.assigned = r.assigned /\ c.claimed = r.claimed /\ c.claimant = r.claimant
        /\ c.pre = r.pre /\ c.preOwner = r.preOwner
    BY <1>0 DEF Row
  <2> HIDE DEF c
  <2> QED BY <1>2, <2>1, <2>2
<1>10. CASE Reassign(d, t)
  BY <1>0, <1>1, <1>10, OwnedShape DEF Reassign, PutRow
<1>11. ASSUME NEW q \in QAs \cup {Nobody}, IAmDone(d, q, t)
       PROVE  WorkerInv'
  <2> DEFINE c == SubmittedForQa(r)
             e == IF q = Nobody THEN c ELSE Reassigned(c, q)
  <2>1. Put(t, e)
    BY <1>11 DEF IAmDone, PutRow
  <2>2. /\ c \in Row /\ c.status = "awaiting_qa" /\ c.pre = r.pre /\ c.preOwner = r.preOwner
    BY <1>0, SubmittedShape
  <2> HIDE DEF c
  <2>3. e.status = "awaiting_qa" /\ e.pre = r.pre /\ e.preOwner = r.preOwner
    BY <2>2 DEF Reassigned, Row
  <2> HIDE DEF e
  <2> QED BY <2>1, <2>3, NotWorking, IdleWrite
<1> QED BY <1>4, <1>5, <1>6, <1>7, <1>8, <1>9, <1>10, <1>11 DEF DevStep

LEMMA QaPassedRow ==
  ASSUME NEW r \in Row
  PROVE  /\ QaPassed(r) \in Row /\ QaPassed(r).status = "awaiting_documentation"
         /\ QaPassed(r).pre = r.pre /\ QaPassed(r).preOwner = r.preOwner
<1>1. Nobody \in AgentOrNone /\ "awaiting_documentation" \in Statuses
  BY AgentFacts, StatusFacts
<1>2. /\ Released(r) \in Row
      /\ Released(r).pre = r.pre /\ Released(r).preOwner = r.preOwner
  BY <1>1 DEF Released, Row
<1> QED BY <1>1, <1>2 DEF QaPassed, Row

LEMMA SentBackRow ==
  ASSUME NEW r \in Row
  PROVE  \A c \in {SentBack(r), CeoRejected(r)} :
           c.status = "needs_revision" /\ c.pre = r.pre /\ c.preOwner = r.preOwner
BY DEF SentBack, CeoRejected, Row

LEMMA ReviewStepKeepsWorkers ==
  ASSUME IInv, WorkerInv, NEW t \in Tasks, ReviewStep(t)
  PROVE  WorkerInv'
<1> DEFINE r == task[t]
<1>0. r \in Row /\ RowInv(r)
  BY WorkerOfTask
<1>1. ASSUME NEW a \in Agents, r.status \in InReview, PutRow(t, Owned(r, a))
      PROVE  WorkerInv'
  <2> DEFINE c == Owned(r, a)
  <2>1. Put(t, c)
    BY <1>1 DEF PutRow
  <2>2. c.status = r.status /\ c.pre = r.pre /\ c.preOwner = r.preOwner
    BY <1>0, OwnedShape
  <2> HIDE DEF c
  <2>3. c.status \notin Working
    BY <1>1, <2>2, StatusFacts
  <2> QED BY <2>1, <2>2, <2>3, IdleWrite
<1>2. ASSUME PutRow(t, SentBack(r))
      PROVE  WorkerInv'
  BY <1>0, <1>2, SentBackRow, NotWorking, IdleWrite DEF PutRow
<1>3. ASSUME NEW q \in QAs, ClaimReview(q, t)
      PROVE  WorkerInv'
  BY <1>1, <1>3, AgentFacts, StatusFacts DEF ClaimReview, ReviewClaim
<1>4. ASSUME NEW q \in QAs, FailReview(q, t)
      PROVE  WorkerInv'
  BY <1>2, <1>4 DEF FailReview
<1>5. ASSUME NEW q \in QAs, NEW doc \in Docs \cup {Nobody}, PassReview(q, doc, t)
      PROVE  WorkerInv'
  <2> DEFINE c == QaPassed(r)
             e == IF doc = Nobody THEN c ELSE Reassigned(c, doc)
  <2>1. Put(t, e)
    BY <1>5 DEF PassReview
  <2>2. /\ c \in Row /\ c.status = "awaiting_documentation"
        /\ c.pre = r.pre /\ c.preOwner = r.preOwner
    BY <1>0, QaPassedRow
  <2> HIDE DEF c
  <2>3. e.status = "awaiting_documentation" /\ e.pre = r.pre /\ e.preOwner = r.preOwner
    BY <2>2 DEF Reassigned, Row
  <2> HIDE DEF e
  <2> QED BY <2>1, <2>3, NotWorking, IdleWrite
<1>6. ASSUME NEW doc \in Docs, ClaimDoc(doc, t)
      PROVE  WorkerInv'
  BY <1>1, <1>6, AgentFacts, StatusFacts DEF ClaimDoc, ReviewClaim
<1>7. ASSUME NEW doc \in Docs, IDocumented(doc, t)
      PROVE  WorkerInv'
  <2> DEFINE c == DocsCompleted(r)
  <2>1. Put(t, c) /\ r.pr
    BY <1>0, <1>7, StatusFacts DEF IDocumented, PutRow, RowInv, RowReviewed
  <2>2. /\ c.status = "awaiting_pm_review"
        /\ c.pre = r.pre /\ c.preOwner = r.preOwner
    BY <1>0, <2>1, DocsShape
  <2> HIDE DEF c
  <2> QED BY <2>1, <2>2, NotWorking, IdleWrite
<1>8. CASE RequestChanges(t)
  BY <1>2, <1>8 DEF RequestChanges
<1>9. CASE AssignReviewPm(t)
  BY <1>1, <1>9, AgentFacts, StatusFacts DEF AssignReviewPm
<1> QED BY <1>3, <1>4, <1>5, <1>6, <1>7, <1>8, <1>9 DEF ReviewStep

LEMMA MergeStepKeepsWorkers ==
  ASSUME IInv, WorkerInv, NEW t \in Tasks, MergeStep(t)
  PROVE  WorkerInv'
<1> DEFINE r == task[t]
<1>0. r \in Row
  BY WorkerOfTask
<1>1. ASSUME UNCHANGED task
      PROVE  WorkerInv'
  BY <1>1 DEF WorkerInv, WorkerOwned
<1>2. ASSUME NEW o \in Row, o.pre = r.pre, o.preOwner = r.preOwner, Finalize(t, o)
      PROVE  WorkerInv'
  <2>1. /\ Completed(o).status = "completed"
        /\ Completed(o).pre = r.pre /\ Completed(o).preOwner = r.preOwner
    BY <1>2 DEF Completed, Row
  <2> QED BY <1>2, <2>1, NotWorking, IdleWrite DEF Finalize
<1>3. /\ SessionMerged(r) \in Row
      /\ SessionMerged(r).pre = r.pre /\ SessionMerged(r).preOwner = r.preOwner
  BY <1>0 DEF SessionMerged, Row
<1>4. CASE CompleteByMerging(t)
  BY <1>2, <1>3, <1>4 DEF CompleteByMerging
<1>5. CASE CompleteAlreadyMerged(t) \/ CeoApprove(t)
  BY <1>0, <1>2, <1>5 DEF CompleteAlreadyMerged, CeoApprove
<1>6. CASE CompleteCutShort(t) \/ CeoMergeCutShort(t)
  BY <1>1, <1>6 DEF CompleteCutShort, CeoMergeCutShort
<1>7. CASE CompleteSuperseded(t)
  BY <1>0, <1>1, <1>2, <1>7 DEF CompleteSuperseded, Finalize
<1>8. CASE HttpMerge(t) \/ CeoApproveAndMerge(t)
  BY <1>2, <1>3, <1>8 DEF HttpMerge, CeoApproveAndMerge, MergeForTask
<1>9. CASE CompleteRoutedToCeo(t) \/ CompleteInConflict(t)
  <2> DEFINE c == [r EXCEPT !.status = "awaiting_ceo_approval"]
             e == [r EXCEPT !.status = "awaiting_ceo_approval", !.claimant = Nobody]
  <2>1. \E w \in {c, e} : Put(t, w)
    BY <1>9 DEF CompleteRoutedToCeo, CompleteInConflict, PutRow
  <2>2. \A w \in {c, e} : /\ w.status = "awaiting_ceo_approval"
                          /\ w.pre = r.pre /\ w.preOwner = r.preOwner
    BY <1>0 DEF Row
  <2> HIDE DEF c, e
  <2> QED BY <2>1, <2>2, NotWorking, IdleWrite
<1>10. CASE CeoReject(t)
  <2>1. /\ CeoRejected(r).status = "needs_revision"
        /\ CeoRejected(r).pre = r.pre /\ CeoRejected(r).preOwner = r.preOwner
    BY <1>0 DEF CeoRejected, Row
  <2> QED BY <1>10, <2>1, NotWorking, IdleWrite DEF CeoReject, PutRow
<1> QED BY <1>4, <1>5, <1>6, <1>7, <1>8, <1>9, <1>10 DEF MergeStep

LEMMA EscalationKeepsWorkers ==
  ASSUME IInv, WorkerInv, NEW t \in Tasks, NEW a \in Agents,
         PutRow(t, Escalated(task[t], a))
  PROVE  WorkerInv'
<1> DEFINE r == task[t]
           c == Escalated(r, a)
<1>1. Put(t, c)
  BY DEF PutRow
<1>2. /\ c.status = "blocked"
      /\ c.pre = IF r.pre # "none" THEN r.pre ELSE r.status
      /\ c.preOwner = IF r.pre # "none" THEN r.preOwner
                      ELSE IF r.assigned # Nobody THEN r.assigned ELSE r.claimed
  BY WorkerOfTask, EscalatedShape
<1> HIDE DEF c
<1>3. WorkerOwned(c)
  BY <1>2, WorkerOfTask, SnapshotRow
<1> QED BY <1>1, <1>3, WorkerWrite

LEMMA HttpStepKeepsWorkers ==
  ASSUME IInv, WorkerInv, NEW t \in Tasks, HttpStep(t),
         Enabled \cap {"http_claim_review", "http_docs_complete"} = {}
  PROVE  WorkerInv'
<1> DEFINE r == task[t]
<1>0. r \in Row /\ WorkerOwned(r)
  BY WorkerOfTask
<1>1. ASSUME NEW a \in Agents, SubmitPmReview(a, t)
      PROVE  WorkerInv'
  <2> DEFINE c == [r EXCEPT !.status = "awaiting_pm_review",
                            !.assigned = IF a = CellPm THEN MainPm ELSE CellPm]
  <2>1. Put(t, c)
    BY <1>1 DEF SubmitPmReview, PutRow
  <2>2. c.status = "awaiting_pm_review" /\ c.pre = r.pre /\ c.preOwner = r.preOwner
    BY <1>0 DEF Row
  <2> HIDE DEF c
  <2> QED BY <2>1, <2>2, NotWorking, IdleWrite
<1>2. ASSUME NEW a \in Agents, HttpComplete(a, t)
      PROVE  WorkerInv'
  <2>1. /\ Completed(r).status = "completed"
        /\ Completed(r).pre = r.pre /\ Completed(r).preOwner = r.preOwner
    BY <1>0 DEF Completed, Row
  <2> QED BY <1>2, <2>1, NotWorking, IdleWrite DEF HttpComplete, Finalize
<1>3. ASSUME NEW a \in Agents, HttpVerify(a, t)
      PROVE  WorkerInv'
  <2> DEFINE c == [r EXCEPT !.status = "verifying"]
  <2>1. Put(t, c) /\ r.status \in Working
    BY <1>3, NotWorking DEF HttpVerify, PutRow
  <2>2. /\ c.assigned = r.assigned /\ c.claimed = r.claimed /\ c.claimant = r.claimant
        /\ c.pre = r.pre /\ c.preOwner = r.preOwner
    BY <1>0 DEF Row
  <2> HIDE DEF c
  <2>3. WorkerOwned(c)
    BY <1>0, <2>1, <2>2, HeldRow
  <2> QED BY <2>1, <2>3, WorkerWrite
<1>7. ASSUME NEW a \in Agents, HttpSubmitQa(a, t)
      PROVE  WorkerInv'
  <2> DEFINE c == SubmittedForQa(r)
  <2>1. Put(t, c)
    BY <1>7 DEF HttpSubmitQa, PutRow
  <2>2. c.status = "awaiting_qa" /\ c.pre = r.pre /\ c.preOwner = r.preOwner
    BY <1>0, SubmittedShape
  <2> HIDE DEF c
  <2> QED BY <2>1, <2>2, NotWorking, IdleWrite
<1>4. CASE HttpPassReview(t)
  BY <1>0, <1>4, QaPassedRow, NotWorking, IdleWrite DEF HttpPassReview
<1>5. CASE HttpFailReview(t)
  BY <1>0, <1>5, SentBackRow, NotWorking, IdleWrite DEF HttpFailReview, PutRow
<1>6. CASE HttpEscalate(t)
  BY <1>6, EscalationKeepsWorkers, AgentFacts DEF HttpEscalate
<1> QED
  BY <1>1, <1>2, <1>3, <1>4, <1>5, <1>6, <1>7
  DEF HttpStep, HttpClaimReview, HttpDocsComplete

LEMMA BlockStepKeepsWorkers ==
  ASSUME IInv, WorkerInv, "plain_unblock" \notin Enabled, NEW t \in Tasks, BlockStep(t)
  PROVE  WorkerInv'
<1> DEFINE r == task[t]
<1>0. /\ r \in Row /\ RowInv(r) /\ WorkerOwned(r)
      /\ r.assigned # Nobody \/ r.status \notin Working
  BY WorkerOfTask
<1>1. ASSUME NEW c, Put(t, c), c.status = "blocked",
             c.pre = IF r.pre # "none" THEN r.pre ELSE r.status,
             c.preOwner = IF r.pre # "none" THEN r.preOwner
                          ELSE IF r.assigned # Nobody THEN r.assigned ELSE r.claimed
      PROVE  WorkerInv'
  BY <1>0, <1>1, SnapshotRow, WorkerWrite
<1>2. CASE IAmBlocked(t) \/ EscalateUp(t)
  BY <1>2, EscalationKeepsWorkers, AgentFacts DEF IAmBlocked, EscalateUp
<1>3. CASE HttpSoftBlock(t)
  <2> DEFINE c == SoftBlocked(r)
  <2>1. /\ c.status = "blocked"
        /\ c.pre = IF r.pre # "none" THEN r.pre ELSE r.status
        /\ c.preOwner = IF r.pre # "none" THEN r.preOwner
                        ELSE IF r.assigned # Nobody THEN r.assigned ELSE r.claimed
    BY <1>0 DEF SoftBlocked, Snapshot, Raised, Row
  <2>2. Put(t, c)
    BY <1>3 DEF HttpSoftBlock, PutRow
  <2> HIDE DEF c
  <2> QED BY <1>1, <2>1, <2>2
<1>4. CASE MainPmEscalateUp(t)
  <2> DEFINE c == DivertedToPool(r)
  <2>1. c.status = "pending" /\ c.pre = r.pre /\ c.preOwner = r.preOwner
    BY <1>0 DEF DivertedToPool, Released, Row
  <2>2. Put(t, c)
    BY <1>4 DEF MainPmEscalateUp, PutRow
  <2> HIDE DEF c
  <2> QED BY <2>1, <2>2, NotWorking, IdleWrite
<1>5. CASE UnblockRestore(t)
  <2> DEFINE c == Restored(r)
  <2>1. r.status = "blocked" /\ Put(t, c)
    BY <1>5 DEF UnblockRestore, PutRow
  <2>2. /\ c.status = r.pre /\ c.pre = "none"
        /\ r.preOwner # Nobody =>
             c.assigned = r.preOwner /\ c.claimed = r.preOwner /\ c.claimant = r.preOwner
    BY <1>0, <2>1, RestoredShape
  <2> HIDE DEF c
  <2>3. WorkerOwned(c)
    BY <1>0, <2>2, RoleFacts, StatusFacts DEF WorkerOwned
  <2> QED BY <2>1, <2>3, WorkerWrite
<1> QED BY <1>2, <1>3, <1>4, <1>5 DEF BlockStep, UnblockPlain

LEMMA OwnerStepKeepsWorkers ==
  ASSUME IInv, WorkerInv, "http_start" \notin Enabled, NEW t \in Tasks, NEW a \in Agents,
         OwnerStep(a, t)
  PROVE  WorkerInv'
<1> DEFINE r == task[t]
<1>0. r \in Row /\ WorkerOwned(r)
  BY WorkerOfTask
<1>1. ASSUME NEW s \in Working, r.status \in Working, PutRow(t, [r EXCEPT !.status = s])
      PROVE  WorkerInv'
  <2> DEFINE c == [r EXCEPT !.status = s]
  <2>1. \A f \in {"assigned", "claimed", "claimant", "pre", "preOwner"} : c[f] = r[f]
    BY <1>0 DEF Row
  <2>2. Put(t, c)
    BY <1>1 DEF PutRow
  <2> HIDE DEF c
  <2> QED BY <1>0, <1>1, <2>1, <2>2, HeldRow, WorkerWrite
<1>2. CASE Pause(a, t) \/ Resume(a, t)
  BY <1>1, <1>2, NotWorking DEF Pause, Resume, Started
<1>3. CASE UnclaimPending(a, t)
  <2> DEFINE c == [r EXCEPT !.assigned = Nobody, !.claimant = Nobody]
  <2>1. c.status = "pending" /\ c.pre = r.pre /\ c.preOwner = r.preOwner /\ Put(t, c)
    BY <1>0, <1>3 DEF UnclaimPending, PutRow, Row
  <2> HIDE DEF c
  <2> QED BY <2>1, NotWorking, IdleWrite
<1>4. CASE UnclaimBlocked(a, t)
  <2> DEFINE c == UnclaimedFromBlocked(r)
  <2>1. /\ c.status = "pending" /\ c.pre = "none" /\ Put(t, c)
    BY <1>0, <1>4 DEF UnclaimBlocked, UnclaimedFromBlocked, Released, PutRow, Row
  <2> HIDE DEF c
  <2>2. WorkerOwned(c)
    BY <2>1, StatusFacts DEF WorkerOwned
  <2> QED BY <2>1, <2>2, WorkerWrite
<1>5. CASE UnclaimWork(a, t)
  <2> DEFINE c == UnclaimedFromWork(r)
  <2>1. c.status = "pending" /\ c.pre = r.pre /\ c.preOwner = r.preOwner /\ Put(t, c)
    BY <1>0, <1>5 DEF UnclaimWork, UnclaimedFromWork, PutRow, Row
  <2> HIDE DEF c
  <2> QED BY <2>1, NotWorking, IdleWrite
<1>6. CASE HttpCreatePr(a, t)
  BY <1>6, OpensPrKeepsWorkers DEF HttpCreatePr
<1> QED BY <1>2, <1>3, <1>4, <1>5, <1>6 DEF OwnerStep, HttpStart

(* Where the work is and where its snapshots are, owners are developers:   *)
(* except for plain unblocks and POST /start, which both take an owner     *)
(* without the lock, for the doc dispatcher's POST /claim, which moves a   *)
(* documenter's task to claimed (_auto_assign_doc), and for POST           *)
(* /docs-complete, which names the PM assignee of work under way.          *)
THEOREM WorkerInvariance ==
  ASSUME Enabled \cap {"plain_unblock", "http_start", "http_claim_review",
                       "http_docs_complete"} = {}
  PROVE  Spec => []WorkerInv
<1>1. Init => WorkerInv
  <2>1. \A o \in Devs \cup {Nobody} : NewRow(o).status = "pending" /\ NewRow(o).pre = "none"
    BY DEF NewRow
  <2>2. ASSUME Init, NEW t \in Tasks
        PROVE  task[t].status = "pending" /\ task[t].pre = "none"
    BY <2>1, <2>2 DEF Init
  <2> QED BY <2>2 DEF WorkerInv, WorkerOwned, Working
<1>2. ASSUME IInv, WorkerInv, Next
      PROVE  WorkerInv'
  <2>1. PICK t \in Tasks :
          \/ \E d \in Devs : DevStep(d, t)
          \/ ReviewStep(t)
          \/ HttpStep(t)
          \/ MergeStep(t)
          \/ BlockStep(t)
          \/ \E a \in Agents : OwnerStep(a, t)
          \/ Reap(t)
          \/ Cancel(t)
    BY <1>2 DEF Next
  <2>2. task[t] \in Row
    BY <1>2, WorkerOfTask
  <2>3. CASE Reap(t)
    <3>1. /\ Reaped(task[t]).status = "pending" /\ Reaped(task[t]).pre = task[t].pre
          /\ Reaped(task[t]).preOwner = task[t].preOwner
      BY <2>2 DEF Reaped, Row
    <3> QED BY <1>2, <2>3, <3>1, NotWorking, IdleWrite DEF Reap, PutRow
  <2>4. CASE Cancel(t)
    <3> DEFINE c == [task[t] EXCEPT !.status = "cancelled"]
    <3>1. /\ c.status = "cancelled" /\ c.pre = task[t].pre
          /\ c.preOwner = task[t].preOwner /\ Put(t, c)
      BY <2>2, <2>4 DEF Cancel, Row
    <3> HIDE DEF c
    <3> QED BY <1>2, <3>1, NotWorking, IdleWrite
  <2> QED
    BY <1>2, <2>1, <2>3, <2>4, DevStepKeepsWorkers, ReviewStepKeepsWorkers,
       HttpStepKeepsWorkers, MergeStepKeepsWorkers, BlockStepKeepsWorkers,
       OwnerStepKeepsWorkers
<1>3. ASSUME IInv, WorkerInv, [Next]_vars
      PROVE  WorkerInv'
  <2>1. CASE UNCHANGED vars
    BY <1>3, <2>1 DEF vars, WorkerInv, WorkerOwned
  <2> QED BY <1>2, <1>3, <2>1
<1> QED BY <1>1, <1>3, Invariance, PTL DEF Spec

(* Whoever works on a task can write to it: claim, resume, reassign and    *)
(* restore all leave the assignee holding active_claimant_id, also after   *)
(* an escalation above the main PM put the task back in the pool.  A plain *)
(* unblock, POST /start, a reviewer's POST /claim and POST /docs-complete  *)
(* do not.                                                                 *)
THEOREM WorkersHoldLocks ==
  ASSUME Enabled \cap {"plain_unblock", "http_start", "http_claim_review",
                       "http_docs_complete"} = {}
  PROVE  Spec => []WorkerHoldsLock
<1>1. WorkerInv => WorkerHoldsLock
  BY DEF WorkerInv, WorkerOwned, WorkerHoldsLock
<1> QED BY <1>1, WorkerInvariance, PTL

----------------------------------------------------------------------------
(* The lifecycle implements ReviewedDelivery.  A step that leaves the      *)
(* branch alone is a delivery, a drop or nothing, and which of them the    *)
(* invariant of the next state tells.                                      *)

Outcomes == [t \in Tasks |-> Outcome(task[t])]

LEMMA OutcomeMoves ==
  ASSUME IInv, NEW t \in Tasks, NEW row, Put(t, row)
  PROVE  Outcomes' = [Outcomes EXCEPT ![t] = Outcome(row)]
<1>1. \A u \in Tasks : task'[u] = IF u = t THEN row ELSE task[u]
  BY DEF Put, IInv, TypeOK
<1>2. Outcomes' = [u \in Tasks |-> IF u = t THEN Outcome(row) ELSE Outcome(task[u])]
  BY <1>1 DEF Outcomes, Outcome
<1> QED BY <1>2 DEF Outcomes

LEMMA QuietStepDelivers ==
  ASSUME IInv, BaseInv', OnlyQaPasses, OnlyMergeEnds, NEW t \in Tasks, LegalStep(t),
         UNCHANGED <<unread, unmerged>>
  PROVE  [Reviewed!Next]_(Reviewed!vars)
<1> USE DEF Reviewed!vars
<1>1. CASE UNCHANGED task
  BY <1>1
<1>2. CASE WritesRow(t)
  <2>1. PICK row : task[t].status \notin Terminal /\ Put(t, row)
    BY <1>2 DEF WritesRow
  <2>2. Outcome(task[t]) = "open" /\ Outcomes[t] = "open"
    BY <2>1, StatusFacts DEF Outcome, Outcomes
  <2>3. Outcomes' = [Outcomes EXCEPT ![t] = Outcome(row)]
    BY <2>1, OutcomeMoves
  <2>4. task'[t] = row
    BY <2>1 DEF Put, IInv, TypeOK
  <2>5. CASE row.status = "completed"
    <3>1. t \notin unread /\ t \notin unmerged
      BY <2>4, <2>5, StatusFacts DEF BaseInv, BaseGit, Resting, Passed
    <3>2. Outcome(row) = "delivered"
      BY <2>5 DEF Outcome
    <3>3. Reviewed!Deliver(t)
      BY <2>3, <3>1, <3>2 DEF Reviewed!Deliver, Reviewed!IsRead, Outcomes
    <3> QED BY <2>2, <3>3 DEF Reviewed!Next, Outcomes
  <2>6. CASE row.status = "cancelled"
    <3>1. Outcome(row) = "dropped"
      BY <2>6 DEF Outcome
    <3>2. Reviewed!Drop(t)
      BY <2>3, <3>1 DEF Reviewed!Drop, Outcomes
    <3> QED BY <2>2, <3>2 DEF Reviewed!Next, Outcomes
  <2>7. CASE row.status \notin {"completed", "cancelled"}
    <3>1. Outcomes' = Outcomes
      BY <2>2, <2>3, <2>7 DEF Outcome, Outcomes
    <3> QED BY <3>1 DEF Outcomes
  <2> QED BY <2>5, <2>6, <2>7
<1> QED BY <1>1, <1>2 DEF LegalStep

(* What the groups of Next do to the branch and the base.                  *)
LEMMA BranchEffects ==
  ASSUME NEW t \in Tasks
  PROVE  /\ \A d \in Devs : DevStep(d, t) => Commit(d, t) \/ UNCHANGED <<unread, unmerged>>
         /\ ReviewStep(t) =>
              \/ \E q \in QAs, doc \in Docs \cup {Nobody} : PassReview(q, doc, t)
              \/ UNCHANGED <<unread, unmerged>>
         /\ HttpStep(t) => HttpPassReview(t) \/ UNCHANGED <<unread, unmerged>>
         /\ BlockStep(t) \/ (\E a \in Agents : OwnerStep(a, t)) \/ Reap(t) \/ Cancel(t) =>
              UNCHANGED <<unread, unmerged>>
<1> USE DEF PutRow, git
<1>1. ASSUME NEW d \in Devs, DevStep(d, t)
      PROVE  Commit(d, t) \/ UNCHANGED <<unread, unmerged>>
  BY <1>1
  DEF DevStep, IWillWorkOn, ClaimOnBehalf, ResumeFromClaimed, OpenPr, OpensPr, OpenedOnForge,
      SubmitVerification, Reassign, IAmDone
<1>2. ASSUME ReviewStep(t)
      PROVE  \/ \E q \in QAs, doc \in Docs \cup {Nobody} : PassReview(q, doc, t)
             \/ UNCHANGED <<unread, unmerged>>
  BY <1>2
  DEF ReviewStep, ClaimReview, ReviewClaim, FailReview, ClaimDoc, IDocumented,
      RequestChanges, AssignReviewPm
<1>3. ASSUME BlockStep(t)
      PROVE  UNCHANGED <<unread, unmerged>>
  BY <1>3
  DEF BlockStep, IAmBlocked, HttpSoftBlock, EscalateUp, MainPmEscalateUp, UnblockRestore,
      UnblockPlain
<1>4. ASSUME NEW a \in Agents, OwnerStep(a, t)
      PROVE  UNCHANGED <<unread, unmerged>>
  BY <1>4
  DEF OwnerStep, HttpStart, Pause, Resume, HttpCreatePr, OpensPr, OpenedOnForge,
      UnclaimPending, UnclaimBlocked, UnclaimWork
<1>5. Reap(t) \/ Cancel(t) => UNCHANGED <<unread, unmerged>>
  BY DEF Reap, Cancel
<1>6. ASSUME HttpStep(t)
      PROVE  HttpPassReview(t) \/ UNCHANGED <<unread, unmerged>>
  BY <1>6
  DEF HttpStep, SubmitPmReview, HttpVerify, HttpSubmitQa, HttpClaimReview, HttpComplete,
      HttpDocsComplete, HttpFailReview, HttpEscalate
<1> QED BY <1>1, <1>2, <1>3, <1>4, <1>5, <1>6

(* A merge lands the branch of a task past QA, and completes it or not.    *)
LEMMA MergeEffects ==
  ASSUME IInv, BaseInv, OnlyQaPasses, NEW t \in Tasks, MergeStep(t)
  PROVE  \/ UNCHANGED <<unread, unmerged>>
         \/ /\ task[t].status \in InReview /\ t \notin unread
            /\ unread' = unread /\ unmerged' = unmerged \ {t}
            /\ \/ UNCHANGED task
               \/ \E row \in Row : Put(t, Completed(row))
<1> DEFINE r == task[t]
<1>0. r \in Row /\ SessionMerged(r) \in Row
  BY RowOfTask DEF SessionMerged, Row
<1>1. r.status \in {"awaiting_pm_review", "awaiting_ceo_approval"} =>
        r.status \in InReview /\ t \notin unread
  BY StatusFacts DEF BaseInv, BaseGit, Resting, Passed
<1>2. CASE CompleteByMerging(t) \/ CompleteCutShort(t) \/ CeoMergeCutShort(t)
  BY <1>0, <1>1, <1>2
  DEF CompleteByMerging, CompleteCutShort, CeoMergeCutShort, MayComplete, LandedOnForge,
      Finalize
<1>3. CASE CompleteSuperseded(t)
  BY <1>0, <1>1, <1>3 DEF CompleteSuperseded, MayComplete
<1>4. CASE HttpMerge(t) \/ CeoApproveAndMerge(t)
  BY <1>0, <1>1, <1>4
  DEF HttpMerge, CeoApproveAndMerge, MergeForTask, LandedOnForge, Finalize, git
<1>5. CASE \/ CompleteAlreadyMerged(t) \/ CompleteRoutedToCeo(t) \/ CompleteInConflict(t)
           \/ CeoApprove(t) \/ CeoReject(t)
  BY <1>5
  DEF CompleteAlreadyMerged, CompleteRoutedToCeo, CompleteInConflict, CeoApprove, CeoReject,
      PutRow, git
<1> QED BY <1>2, <1>3, <1>4, <1>5 DEF MergeStep

(* The lifecycle delivers reviewed work, through crashes between GitHub    *)
(* and the database, reworks, blocks and reassignments: it implements      *)
(* ReviewedDelivery.  The routes named are the optional paths that do not  *)
(* break it.                                                               *)
THEOREM ImplementsReviewedDelivery ==
  ASSUME Enabled \subseteq {"http_start", "http_submit_qa", "http_qa", "http_complete",
                            "http_escalate", "http_claim_review"}
  PROVE  Spec => DeliversReviewedWork
<1> USE DEF Reviewed!vars
<1>0. OnlyQaPasses /\ OnlyMergeEnds /\ Enabled \cap {"plain_unblock", "divert"} = {}
  BY DEF OnlyQaPasses, ThroughQa, OnlyMergeEnds
<1>1. Init => Reviewed!Init
  <2> SUFFICES ASSUME Init PROVE Reviewed!Init
    OBVIOUS
  <2>1. \A o \in Devs \cup {Nobody} : Outcome(NewRow(o)) = "open"
    BY DEF NewRow, Outcome
  <2>2. \A t \in Tasks : Outcome(task[t]) = "open"
    BY <2>1 DEF Init
  <2> QED BY <2>2 DEF Init, Reviewed!Init
<1>2. ASSUME IInv, BaseInv, Next, BaseInv'
      PROVE  [Reviewed!Next]_(Reviewed!vars)
  <2>1. PICK t \in Tasks :
          \/ \E d \in Devs : DevStep(d, t)
          \/ ReviewStep(t)
          \/ HttpStep(t)
          \/ MergeStep(t)
          \/ BlockStep(t)
          \/ \E a \in Agents : OwnerStep(a, t)
          \/ Reap(t)
          \/ Cancel(t)
    BY <1>2 DEF Next
  <2>2. UNCHANGED <<unread, unmerged>> => [Reviewed!Next]_(Reviewed!vars)
    <3>1. LegalStep(t)
      BY <1>2, <2>1, StepIsLegal
    <3> QED BY <1>0, <1>2, <3>1, QuietStepDelivers
  <2>3. ASSUME NEW d \in Devs, Commit(d, t)
        PROVE  [Reviewed!Next]_(Reviewed!vars)
    <3>1. Outcomes[t] = "open" /\ Outcomes' = Outcomes
      BY <2>3 DEF Commit, Outcomes, Outcome
    <3>2. Reviewed!Write(t)
      BY <2>3, <3>1 DEF Commit, Reviewed!Write, Outcomes
    <3> QED BY <3>1, <3>2 DEF Reviewed!Next, Outcomes
  <2>4. ASSUME NEW e, e.status = "awaiting_documentation", Put(t, e),
               task[t].status = "awaiting_qa", unread' = unread \ {t}, UNCHANGED unmerged
        PROVE  [Reviewed!Next]_(Reviewed!vars)
    <3>1. Outcomes[t] = "open" /\ Outcomes' = [Outcomes EXCEPT ![t] = "open"]
      BY <1>2, <2>4, OutcomeMoves DEF Outcomes, Outcome
    <3>2. Reviewed!Read(t)
      BY <2>4, <3>1 DEF Reviewed!Read, Outcomes
    <3> QED BY <3>1, <3>2 DEF Reviewed!Next, Outcomes
  <2>5. QaPassed(task[t]) \in Row /\ QaPassed(task[t]).status = "awaiting_documentation"
    BY <1>2, RowOfTask, QaPassedRow
  <2>6. ASSUME NEW q \in QAs, NEW doc \in Docs \cup {Nobody}, PassReview(q, doc, t)
        PROVE  [Reviewed!Next]_(Reviewed!vars)
    <3> DEFINE c == QaPassed(task[t])
               e == IF doc = Nobody THEN c ELSE Reassigned(c, doc)
    <3>1. /\ task[t].status = "awaiting_qa" /\ Put(t, e)
          /\ unread' = unread \ {t} /\ UNCHANGED unmerged
      BY <2>6 DEF PassReview
    <3>2. c \in Row /\ c.status = "awaiting_documentation"
      BY <2>5
    <3> HIDE DEF c
    <3>3. e.status = "awaiting_documentation"
      BY <3>2 DEF Reassigned, Row
    <3> HIDE DEF e
    <3> QED BY <2>4, <3>1, <3>3
  <2>7. HttpPassReview(t) => [Reviewed!Next]_(Reviewed!vars)
    BY <2>4, <2>5 DEF HttpPassReview
  <2>8. CASE /\ task[t].status \in InReview /\ t \notin unread
             /\ unread' = unread /\ unmerged' = unmerged \ {t}
             /\ \/ UNCHANGED task
                \/ \E row \in Row : Put(t, Completed(row))
    <3>1. Outcomes[t] = "open"
      BY <2>8, StatusFacts DEF Outcomes, Outcome
    <3>2. CASE UNCHANGED task
      <4>1. Reviewed!Land(t)
        BY <2>8, <3>2 DEF Reviewed!Land, Reviewed!IsRead
      <4> QED BY <3>1, <4>1 DEF Reviewed!Next, Outcomes
    <3>3. CASE \E row \in Row : Put(t, Completed(row))
      <4>1. PICK row \in Row : Put(t, Completed(row))
        BY <3>3
      <4>2. Outcome(Completed(row)) = "delivered"
        BY DEF Completed, Outcome, Row
      <4>3. Outcomes' = [Outcomes EXCEPT ![t] = "delivered"]
        BY <1>2, <4>1, <4>2, OutcomeMoves
      <4>4. Reviewed!Deliver(t)
        BY <2>8, <4>3 DEF Reviewed!Deliver, Reviewed!IsRead, Outcomes
      <4> QED BY <3>1, <4>4 DEF Reviewed!Next, Outcomes
    <3> QED BY <2>8, <3>2, <3>3
  <2> QED BY <1>0, <1>2, <2>1, <2>2, <2>3, <2>6, <2>7, <2>8, BranchEffects, MergeEffects
<1>3. ASSUME IInv, BaseInv, [Next]_vars, BaseInv'
      PROVE  [Reviewed!Next]_(Reviewed!vars)
  BY <1>2, <1>3 DEF vars
<1>4. Spec => []BaseInv
  BY <1>0, BaseInvariance
<1> QED BY <1>1, <1>3, <1>4, Invariance, PTL DEF Spec, DeliversReviewedWork, Reviewed!Spec
=============================================================================
