----------------------- MODULE TaskLifecycleProofs -----------------------
(***************************************************************************)
(* Proofs about TaskLifecycle, for every set of tasks and agents and every *)
(* choice of the optional paths it models.                                 *)
(***************************************************************************)
EXTENDS TaskLifecycleInv, TLAPS

----------------------------------------------------------------------------
(* The facts about statuses the proofs use, so that the sets stay folded.  *)
LEMMA StatusFacts ==
  /\ Live \subseteq Statuses /\ Engaged \subseteq Live /\ InReview \subseteq Engaged
  /\ Working \subseteq Engaged /\ Working \cap InReview = {}
  /\ Statuses = Live \cup {"blocked", "completed", "cancelled"}
  /\ Live \cap {"blocked", "completed", "cancelled", "none"} = {}
  /\ Terminal = {"completed", "cancelled"}
  /\ "pending" \in Live /\ "pending" \notin Engaged /\ "pending" \notin InReview
  /\ "needs_revision" \in Engaged \ InReview
  /\ \A s \in Live : s # "pending" => s \in Engaged
  /\ {"claimed", "in_progress", "paused", "verifying"} \subseteq Engaged \ InReview
  /\ {"awaiting_qa", "awaiting_documentation", "awaiting_pm_review",
      "awaiting_ceo_approval"} \subseteq InReview
  /\ QaQueues = {"awaiting_qa", "awaiting_documentation"} /\ QaQueues \subseteq InReview
BY DEF Engaged, Statuses, Live, Working, InReview, Terminal, QaQueues

LEMMA AgentFacts ==
  /\ Agents \subseteq AgentOrNone /\ Nobody \in AgentOrNone /\ Nobody \notin Agents
  /\ AgentOrNone = Agents \cup {Nobody}
  /\ Devs \subseteq Agents /\ QAs \subseteq Agents /\ Docs \subseteq Agents
  /\ CellPm \in Agents /\ MainPm \in Agents
BY AgentsAssumption DEF Agents, AgentOrNone

----------------------------------------------------------------------------
LEMMA OwnedKeeps ==
  ASSUME NEW r, RowInv(r), NEW a \in Agents
  PROVE  RowInv(Owned(r, a))
<1>1. r \in Row /\ Owned(r, a) \in Row
  BY AgentFacts DEF Owned, RowInv, RowTyped, Row
<1>2. /\ Owned(r, a).assigned = a /\ a # Nobody
      /\ \A f \in {"status", "pre", "branch", "pr", "docs", "origDev"} : Owned(r, a)[f] = r[f]
  BY <1>1, AgentFacts DEF Owned, Row
<1> QED
  BY <1>1, <1>2 DEF RowInv, RowTyped, RowPooled, RowBranched, RowReviewed, DevOnRecord

LEMMA ReassignedKeeps ==
  ASSUME NEW r, RowInv(r), NEW a \in Agents
  PROVE  RowInv(Reassigned(r, a))
<1>0. r \in Row
  BY DEF RowInv, RowTyped
<1>1. Reassigned(r, a) \in Row
  <2>1. a \in AgentOrNone /\ (IF r.claimant = a THEN r.claimant ELSE Nobody) \in AgentOrNone
    BY <1>0, AgentFacts
  <2> QED BY <1>0, <2>1 DEF Reassigned, Row
<1>2. /\ Reassigned(r, a).assigned = a /\ a # Nobody
      /\ \A f \in {"status", "pre", "branch", "pr", "docs", "origDev"} :
           Reassigned(r, a)[f] = r[f]
  BY <1>0, AgentFacts DEF Reassigned, Row
<1> QED
  BY <1>0, <1>1, <1>2 DEF RowInv, RowTyped, RowPooled, RowBranched, RowReviewed, DevOnRecord

LEMMA FinalizeClaimKeeps ==
  ASSUME NEW r, RowInv(r), r.status \in {"pending", "needs_revision"}, NEW a \in Agents
  PROVE  /\ RowInv(FinalizeClaim(r, a)) /\ FinalizeClaim(r, a).branch
         /\ FinalizeClaim(r, a).assigned = a
<1>1. /\ RowInv(Owned(r, a)) /\ Owned(r, a).status \in {"pending", "needs_revision"}
      /\ Owned(r, a).assigned = a
  BY OwnedKeeps DEF Owned, RowInv, RowTyped, Row
<1>2. ASSUME NEW s, RowInv(s), s.status \in {"pending", "needs_revision"},
             s.assigned = a
      PROVE  LET u == [s EXCEPT !.status = IF @ = "pending" THEN "claimed" ELSE @,
                                !.branch = TRUE, !.session = "live"]
             IN  RowInv(u) /\ u.branch /\ u.assigned = s.assigned
  <2> DEFINE u == [s EXCEPT !.status = IF @ = "pending" THEN "claimed" ELSE @,
                            !.branch = TRUE, !.session = "live"]
  <2>0. s \in Row /\ {"claimed", "needs_revision"} \subseteq Statuses \ {"blocked"}
    BY <1>2, StatusFacts DEF RowInv, RowTyped
  <2>1. u \in Row /\ u.status \in {"claimed", "needs_revision"}
    BY <1>2, <2>0 DEF Row
  <2>2. u.branch /\ \A f \in {"assigned", "claimant", "pre", "pr", "docs", "origDev"} : u[f] = s[f]
    BY <2>0 DEF Row
  <2>3. "claimed" \notin InReview /\ "needs_revision" \notin InReview
    BY StatusFacts
  <2> HIDE DEF u
  <2>4. u.status \notin QaQueues /\ a # Nobody
    BY <2>1, <2>3, StatusFacts, AgentFacts
  <2> QED
    BY <1>2, <2>0, <2>1, <2>2, <2>3, <2>4
    DEF RowInv, RowTyped, RowPooled, RowBranched, RowReviewed, DevOnRecord, u
<1> QED BY <1>1, <1>2 DEF FinalizeClaim

LEMMA RaisedKeeps ==
  ASSUME NEW r, RowInv(r)
  PROVE  RowInv(Raised(r)) /\ Raised(r).status = r.status
<1>1. r \in Row /\ Raised(r) \in Row
  BY DEF Raised, RowInv, RowTyped, Row
<1>2. \A f \in {"status", "assigned", "claimant", "pre", "branch", "pr", "docs", "origDev"} :
        Raised(r)[f] = r[f]
  BY <1>1 DEF Raised, Row
<1> QED
  BY <1>1, <1>2 DEF RowInv, RowTyped, RowPooled, RowBranched, RowReviewed, DevOnRecord

LEMMA SnapshotKeeps ==
  ASSUME NEW r, RowInv(r), r.status \notin Terminal
  PROVE  /\ RowInv(Snapshot(r)) /\ Snapshot(r).pre # "none"
         /\ Snapshot(r).status = r.status
<1>1. CASE r.pre # "none"
  BY <1>1 DEF Snapshot
<1>2. CASE r.pre = "none"
  <2>1. r \in Row /\ r.status \in Live
    BY <1>2, StatusFacts DEF RowInv, RowTyped, Row
  <2>2. Snapshot(r) \in Row /\ Snapshot(r).pre = r.status
    BY <1>2, <2>1 DEF Snapshot, Row
  <2>3. \A f \in {"status", "assigned", "claimant", "branch", "pr", "docs", "origDev"} :
          Snapshot(r)[f] = r[f]
    BY <1>2, <2>1 DEF Snapshot, Row
  <2> QED
    BY <2>1, <2>2, <2>3, StatusFacts DEF RowInv, RowTyped, RowPooled, RowBranched, RowReviewed, DevOnRecord
<1> QED BY <1>1, <1>2

LEMMA EscalatedKeeps ==
  ASSUME NEW r, RowInv(r), r.status \notin Terminal, NEW a \in Agents
  PROVE  RowInv(Escalated(r, a))
<1>1. RowInv(Raised(r)) /\ Raised(r).status = r.status
  BY RaisedKeeps
<1>2. RowInv(Snapshot(Raised(r))) /\ Snapshot(Raised(r)).pre # "none"
  BY <1>1, SnapshotKeeps
<1>3. ASSUME NEW s, RowInv(s), s.pre # "none"
      PROVE  \A u : u = [s EXCEPT !.status = "blocked", !.assigned = a, !.claimed = a]
                      => RowInv(u)
  <2> SUFFICES ASSUME NEW u, u = [s EXCEPT !.status = "blocked", !.assigned = a, !.claimed = a]
               PROVE  RowInv(u)
    OBVIOUS
  <2>1. s \in Row /\ u \in Row
    BY <1>3, AgentFacts, StatusFacts DEF RowInv, RowTyped, Row
  <2>2. /\ u.status = "blocked" /\ u.assigned = a /\ a # Nobody
        /\ \A f \in {"pre", "branch", "pr", "docs", "origDev"} : u[f] = s[f]
    BY <2>1, AgentFacts DEF Row
  <2>3. RowInv(s) /\ s.pre # "none"
    BY <1>3
  <2> QED
    BY <2>1, <2>2, <2>3, StatusFacts DEF RowInv, RowTyped, RowPooled, RowBranched, RowReviewed, DevOnRecord
<1> QED
  BY <1>1, <1>2, <1>3 DEF Escalated

LEMMA SoftBlockedKeeps ==
  ASSUME NEW r, RowInv(r), r.status \notin Terminal, r.status # "needs_revision"
  PROVE  RowInv(SoftBlocked(r))
<1>1. RowInv(Raised(r)) /\ Raised(r).status = r.status
  BY RaisedKeeps
<1>2. /\ RowInv(Snapshot(Raised(r))) /\ Snapshot(Raised(r)).pre # "none"
      /\ Snapshot(Raised(r)).status \notin {"needs_revision", "cancelled"}
  BY <1>1, SnapshotKeeps, StatusFacts
<1>3. ASSUME NEW s, RowInv(s), s.pre # "none",
             s.status \notin {"needs_revision", "cancelled"}
      PROVE  RowInv([s EXCEPT !.status = "blocked"])
    BY <1>3, StatusFacts DEF RowInv, RowTyped, RowPooled, RowBranched, RowReviewed, DevOnRecord, Row
<1> QED
  BY <1>1, <1>2, <1>3 DEF SoftBlocked

LEMMA ReleasesKeep ==
  ASSUME NEW r, RowInv(r)
  PROVE  /\ RowInv(DivertedToPool(r))
         /\ RowInv(UnclaimedFromWork(r))
         /\ RowInv(UnclaimedFromBlocked(r))
         /\ RowInv([r EXCEPT !.assigned = Nobody, !.claimant = Nobody])
<1>1. RowInv(DivertedToPool(r))
  <2>1. r \in Row /\ DivertedToPool(r) \in Row
    BY AgentFacts, StatusFacts DEF DivertedToPool, Released, RowInv, RowTyped, Row
  <2>2. /\ DivertedToPool(r).status = "pending" /\ DivertedToPool(r).claimant = Nobody
        /\ \A f \in {"pre", "branch", "pr", "docs", "origDev"} : DivertedToPool(r)[f] = r[f]
    BY <2>1 DEF DivertedToPool, Released, Row
  <2> QED
    BY <2>1, <2>2, StatusFacts DEF RowInv, RowTyped, RowPooled, RowBranched, RowReviewed, DevOnRecord
<1>2. RowInv(UnclaimedFromWork(r))
  BY AgentFacts, StatusFacts
  DEF UnclaimedFromWork, RowInv, RowTyped, RowPooled, RowBranched, RowReviewed, DevOnRecord, Row
<1>3. RowInv(UnclaimedFromBlocked(r))
  <2>0. r \in Row /\ Released(r) \in Row
    BY AgentFacts DEF Released, RowInv, RowTyped, Row
  <2>1. r \in Row /\ UnclaimedFromBlocked(r) \in Row
    <3>1. ASSUME NEW s \in Row
          PROVE  [s EXCEPT !.status = "pending", !.session = "none",
                           !.pre = "none", !.preOwner = Nobody, !.raisedBy = Nobody] \in Row
      <4>1. "pending" \in Statuses /\ Nobody \in AgentOrNone
        BY StatusFacts DEF AgentOrNone
      <4> QED BY <4>1 DEF Row
    <3> QED BY <2>0, <3>1 DEF UnclaimedFromBlocked
  <2>2. /\ UnclaimedFromBlocked(r).status = "pending" /\ UnclaimedFromBlocked(r).pre = "none"
        /\ UnclaimedFromBlocked(r).claimant = Nobody
        /\ \A f \in {"branch", "pr", "docs", "origDev"} : UnclaimedFromBlocked(r)[f] = r[f]
    BY <2>1 DEF UnclaimedFromBlocked, Released, Row
  <2> QED
    BY <2>1, <2>2, StatusFacts DEF RowInv, RowTyped, RowPooled, RowBranched, RowReviewed, DevOnRecord
<1>4. RowInv([r EXCEPT !.assigned = Nobody, !.claimant = Nobody])
  BY AgentFacts, StatusFacts
  DEF RowInv, RowTyped, RowPooled, RowBranched, RowReviewed, DevOnRecord, Row
<1> QED BY <1>1, <1>2, <1>3, <1>4

LEMMA ReapedKeeps ==
  ASSUME NEW r, RowInv(r)
  PROVE  RowInv(Reaped(r))
<1>1. ASSUME NEW o \in AgentOrNone
      PROVE  RowInv([r EXCEPT !.status = "pending", !.session = "none",
                              !.assigned = o, !.claimed = o, !.claimant = Nobody])
  BY AgentFacts, StatusFacts
  DEF RowInv, RowTyped, RowPooled, RowBranched, RowReviewed, DevOnRecord, Row
<1> DEFINE owner == IF r.assigned # Nobody THEN r.assigned
                    ELSE IF r.claimed # Nobody THEN r.claimed ELSE r.claimant
<1>2. owner \in AgentOrNone
  BY DEF RowInv, RowTyped, Row
<1> HIDE DEF owner
<1>3. Reaped(r) = [r EXCEPT !.status = "pending", !.session = "none",
                            !.assigned = owner, !.claimed = owner, !.claimant = Nobody]
  BY DEF Reaped, owner
<1> QED BY <1>1, <1>2, <1>3

LEMMA PlainUnblockedKeeps ==
  ASSUME NEW r, RowInv(r), r.status = "blocked"
  PROVE  RowInv(PlainUnblocked(r))
<1>1. ASSUME NEW o \in AgentOrNone, o = Nobody => r.claimant = Nobody,
             NEW s \in {"in_progress", "pending"}, s = "in_progress" => r.branch
      PROVE  RowInv([r EXCEPT !.assigned = o, !.claimed = o, !.raisedBy = Nobody,
                              !.status = s])
  <2> DEFINE u == [r EXCEPT !.assigned = o, !.claimed = o, !.raisedBy = Nobody, !.status = s]
  <2>1. s \in Live /\ s \notin InReview /\ s \notin QaQueues /\ s # "blocked" /\ s \in Statuses
    BY StatusFacts
  <2>2. s \in Engaged => r.branch
    BY <1>1, StatusFacts
  <2>3. r \in Row /\ u \in Row
    BY <2>1, AgentFacts DEF RowInv, RowTyped, Row
  <2>4. /\ u.status = s /\ u.assigned = o
        /\ \A f \in {"claimant", "pre", "branch", "pr", "docs", "origDev"} : u[f] = r[f]
    BY <2>3 DEF Row
  <2> HIDE DEF u
  <2>5. RowInv(u)
    BY <1>1, <2>1, <2>2, <2>3, <2>4
    DEF RowInv, RowTyped, RowPooled, RowBranched, RowReviewed, DevOnRecord
  <2> QED BY <2>5 DEF u
<1> DEFINE owner == IF r.raisedBy # Nobody THEN r.raisedBy
                    ELSE IF r.assigned # Nobody THEN r.assigned ELSE r.claimed
           next == IF r.branch THEN "in_progress" ELSE "pending"
<1>2. owner \in AgentOrNone /\ (owner = Nobody => r.claimant = Nobody)
  BY DEF RowInv, RowTyped, RowPooled, Row
<1>3. next \in {"in_progress", "pending"} /\ (next = "in_progress" => r.branch)
  OBVIOUS
<1> HIDE DEF owner, next
<1>4. PlainUnblocked(r) = [r EXCEPT !.assigned = owner, !.claimed = owner,
                                    !.raisedBy = Nobody, !.status = next]
  BY DEF PlainUnblocked, owner, next
<1>5. RowInv([r EXCEPT !.assigned = owner, !.claimed = owner, !.raisedBy = Nobody,
                       !.status = next])
  BY ONLY <1>1, <1>2, <1>3
<1> QED BY ONLY <1>4, <1>5

LEMMA RestoredKeeps ==
  ASSUME NEW r, RowInv(r), r.status = "blocked"
  PROVE  RowInv(Restored(r))
<1>0. r.pre \in Live /\ (r.pre \in Engaged => r.branch) /\ r.branch \in BOOLEAN
  BY StatusFacts DEF RowInv, RowTyped, RowBranched, Row
<1>1. (IF r.pre = "in_progress" /\ ~r.branch THEN "pending" ELSE r.pre) = r.pre
  BY <1>0, StatusFacts
<1> DEFINE back(s) == [s EXCEPT !.status = r.pre, !.pre = "none",
                                !.preOwner = Nobody, !.raisedBy = Nobody]
<1>2. ASSUME NEW s, RowInv(s), s.pre = r.pre, s.status = "blocked"
      PROVE  RowInv(back(s))
  <2>1. back(s) \in Row
    <3>1. s \in Row /\ r.pre \in Statuses /\ Nobody \in AgentOrNone
      BY <1>2, <1>0, AgentFacts, StatusFacts DEF RowInv, RowTyped
    <3> QED BY <3>1 DEF Row
  <2>2. /\ back(s).status = s.pre /\ back(s).pre = "none"
        /\ back(s).assigned = s.assigned /\ back(s).claimant = s.claimant
        /\ back(s).branch = s.branch /\ back(s).docs = s.docs
        /\ back(s).origDev = s.origDev /\ back(s).pr = s.pr
    BY <1>2 DEF RowInv, RowTyped, Row
  <2> HIDE DEF back
  <2> QED
    BY <1>2, <1>0, <2>1, <2>2, StatusFacts
    DEF RowInv, RowTyped, RowPooled, RowBranched, RowReviewed, DevOnRecord
<1>3. CASE r.preOwner = Nobody
  BY <1>1, <1>2, <1>3 DEF Restored
<1>4. CASE r.preOwner # Nobody
  <2>1. r.preOwner \in Agents
    BY <1>4, AgentFacts DEF RowInv, RowTyped, Row
  <2>2. /\ RowInv(Owned(r, r.preOwner)) /\ Owned(r, r.preOwner).pre = r.pre
        /\ Owned(r, r.preOwner).status = "blocked"
    BY <2>1, OwnedKeeps DEF Owned, RowInv, RowTyped, Row
  <2>3. RowInv(back(Owned(r, r.preOwner)))
    BY <1>2, <2>2
  <2> QED BY <1>1, <1>4, <2>3 DEF Restored
<1> QED BY <1>3, <1>4

LEMMA ReleasedKeeps ==
  ASSUME NEW r, RowInv(r)
  PROVE  /\ RowInv(Released(r))
         /\ Released(r).claimant = Nobody /\ Released(r).branch = r.branch
         /\ Released(r).pr = r.pr /\ Released(r).origDev = r.origDev
<1>1. r \in Row /\ Nobody \in AgentOrNone
  BY AgentFacts DEF RowInv, RowTyped
<1>2. /\ Released(r) \in Row /\ Released(r).claimant = Nobody
      /\ Released(r).status = r.status /\ Released(r).pre = r.pre
  BY <1>1 DEF Released, Row
<1>3. /\ Released(r).branch = r.branch /\ Released(r).docs = r.docs
      /\ Released(r).pr = r.pr /\ Released(r).origDev = r.origDev
  BY <1>1 DEF Released, Row
<1> QED
  BY <1>2, <1>3 DEF RowInv, RowTyped, RowPooled, RowBranched, RowReviewed, DevOnRecord

LEMMA SubmittedKeeps ==
  ASSUME NEW r, RowInv(r), r.pr, r.status \in Engaged, r.assigned \in Agents,
         "http_submit_qa" \notin Enabled => r.assigned \in Devs
  PROVE  RowInv(SubmittedForQa(r))
<1>1. "awaiting_qa" \in Statuses /\ r.assigned \in AgentOrNone /\ r.branch
  BY AgentFacts, StatusFacts DEF RowInv, RowBranched
<1> DEFINE s == Released(r)
           c == [s EXCEPT !.status = "awaiting_qa", !.origDev = r.assigned]
<1>2. s \in Row /\ RowInv(s) /\ s.claimant = Nobody /\ s.pr /\ s.branch
  BY <1>1, ReleasedKeeps DEF RowInv, RowTyped
<1> HIDE DEF s
<1>3. /\ c \in Row /\ c.status = "awaiting_qa" /\ c.origDev = r.assigned
      /\ c.claimant = Nobody /\ c.pre = s.pre /\ c.pr = s.pr /\ c.branch = s.branch
  BY <1>1, <1>2 DEF Row
<1> HIDE DEF c
<1>4. RowInv(c)
  BY <1>1, <1>2, <1>3 DEF RowInv, RowTyped, RowPooled, RowBranched, RowReviewed, DevOnRecord
<1> QED BY <1>4 DEF SubmittedForQa, c, s

LEMMA QaPassedKeeps ==
  ASSUME NEW r, RowInv(r), r.status = "awaiting_qa"
  PROVE  RowInv(QaPassed(r))
<1>0. DevOnRecord(r) /\ r.pr /\ r.branch
  BY StatusFacts DEF RowInv, RowReviewed, RowBranched
<1>1. RowInv(QaPassed(r))
  <2> DEFINE s == Released(r)
             c == [s EXCEPT !.status = "awaiting_documentation", !.docs = FALSE]
  <2>1. /\ s \in Row /\ RowInv(s) /\ s.claimant = Nobody
        /\ s.pr /\ s.branch /\ DevOnRecord(s)
    BY <1>0, ReleasedKeeps DEF RowInv, RowTyped, DevOnRecord
  <2> HIDE DEF s
  <2>2. /\ c \in Row /\ c.status = "awaiting_documentation" /\ c.claimant = s.claimant
        /\ c.pre = s.pre /\ c.origDev = s.origDev /\ c.pr = s.pr /\ c.branch = s.branch
    BY <2>1, StatusFacts DEF Row
  <2> HIDE DEF c
  <2>3. RowInv(c)
    BY <2>1, <2>2, StatusFacts DEF RowInv, RowTyped, RowPooled, RowBranched, RowReviewed, DevOnRecord
  <2> QED BY <2>3 DEF QaPassed, c, s
<1> QED BY <1>1

(* A rejected row may be without an owner and locked: RowPooled lets it.   *)
LEMMA RejectsKeep ==
  ASSUME NEW r, RowInv(r), r.branch
  PROVE  RowInv(SentBack(r)) /\ RowInv(CeoRejected(r))
<1>1. ASSUME NEW o \in AgentOrNone, NEW c \in AgentOrNone
      PROVE  RowInv([r EXCEPT !.status = "needs_revision", !.claimant = c,
                              !.assigned = o, !.claimed = o])
  BY StatusFacts DEF RowInv, RowTyped, RowPooled, RowBranched, RowReviewed, DevOnRecord, Row
<1>2. RowInv(SentBack(r))
  <2> DEFINE owner == IF r.origDev # Nobody THEN r.origDev ELSE CellPm
  <2>1. owner \in AgentOrNone /\ Nobody \in AgentOrNone
    BY AgentFacts DEF RowInv, RowTyped, Row
  <2> HIDE DEF owner
  <2> QED BY <1>1, <2>1 DEF SentBack, owner
<1>3. RowInv(CeoRejected(r))
  <2>1. r \in Row /\ r.origDev \in AgentOrNone /\ r.claimant \in AgentOrNone
    BY DEF RowInv, RowTyped, Row
  <2>2. CeoRejected(r) = [r EXCEPT !.status = "needs_revision", !.claimant = r.claimant,
                                   !.assigned = r.origDev, !.claimed = r.origDev]
    BY <2>1 DEF CeoRejected, Row
  <2> QED BY <1>1, <2>1, <2>2
<1> QED BY <1>2, <1>3

(* The move to PM review, and the flag set without it: where the developer *)
(* need not be on record, a route that asks for none is switched on.       *)
LEMMA DocsCompletedKeeps ==
  ASSUME NEW r, RowInv(r), r.branch, ThroughQa => DevOnRecord(r) /\ r.pr
  PROVE  RowInv(DocsCompleted(r))
<1>1. RowInv(Owned(r, CellPm)) BY OwnedKeeps, AgentFacts
<1>2. /\ Owned(r, CellPm).pr = r.pr /\ Owned(r, CellPm).origDev = r.origDev
      /\ Owned(r, CellPm).branch = r.branch /\ Owned(r, CellPm).assigned = CellPm
      /\ CellPm # Nobody
  BY AgentFacts DEF Owned, RowInv, RowTyped, Row
<1>0. ThroughQa => DevOnRecord(Owned(r, CellPm))
  BY <1>2 DEF DevOnRecord
<1>3. ASSUME NEW s, RowInv(s), s.pr, s.branch, ThroughQa => DevOnRecord(s),
             s.assigned # Nobody
      PROVE  RowInv([[s EXCEPT !.status = "awaiting_pm_review"] EXCEPT !.docs = TRUE])
  BY <1>3, StatusFacts DEF RowInv, RowTyped, RowPooled, RowBranched, RowReviewed, DevOnRecord, Row
<1>4. CASE r.pr
  BY <1>0, <1>1, <1>2, <1>3, <1>4 DEF DocsCompleted, ToPmReview
<1>5. CASE ~r.pr
  BY <1>5 DEF DocsCompleted, RowInv, RowTyped, RowPooled, RowBranched, RowReviewed, DevOnRecord, Row
<1> QED BY <1>4, <1>5

LEMMA PrMarkedKeeps ==
  ASSUME NEW r, RowInv(r), r.docs => r.status \in Engaged
  PROVE  RowInv(PrMarked(r))
<1>1. CASE r.docs
  <2>1. RowInv(Owned(r, CellPm)) BY OwnedKeeps, AgentFacts
  <2>2. /\ Owned(r, CellPm).origDev = r.origDev /\ Owned(r, CellPm).branch = r.branch
        /\ Owned(r, CellPm).assigned = CellPm /\ CellPm # Nobody
    BY AgentFacts DEF Owned, RowInv, RowTyped, Row
  <2>3. ASSUME NEW s, RowInv(s), s.branch, ThroughQa => DevOnRecord(s),
               s.assigned # Nobody
        PROVE  RowInv([[s EXCEPT !.status = "awaiting_pm_review"] EXCEPT !.pr = TRUE])
    BY <2>3, StatusFacts DEF RowInv, RowTyped, RowPooled, RowBranched, RowReviewed, DevOnRecord, Row
  <2>4. r.branch /\ (ThroughQa => DevOnRecord(r))
    BY <1>1 DEF RowInv, RowBranched, RowReviewed, DevOnRecord
  <2>5. ThroughQa => DevOnRecord(Owned(r, CellPm))
    BY <2>2, <2>4 DEF DevOnRecord
  <2> QED BY <1>1, <2>1, <2>2, <2>3, <2>4, <2>5 DEF PrMarked, ToPmReview
<1>2. CASE ~r.docs
  BY <1>2 DEF PrMarked, RowInv, RowTyped, RowPooled, RowBranched, RowReviewed, DevOnRecord, Row
<1> QED BY <1>1, <1>2

(* A notification that names the next assignee leaves the rest alone.      *)
LEMMA AssignedKeeps ==
  ASSUME NEW r, RowInv(r), NEW a \in Agents
  PROVE  /\ RowInv([r EXCEPT !.assigned = a]) /\ [r EXCEPT !.assigned = a].pr = r.pr
         /\ \A f \in {"status", "branch", "pr", "origDev"} : [r EXCEPT !.assigned = a][f] = r[f]
<1> DEFINE c == [r EXCEPT !.assigned = a]
<1>1. r \in Row /\ c \in Row /\ a # Nobody /\ c.assigned = a
  BY AgentFacts DEF RowInv, RowTyped, Row
<1>2. \A f \in {"status", "claimant", "pre", "branch", "pr", "docs", "origDev"} : c[f] = r[f]
  BY <1>1 DEF Row
<1> HIDE DEF c
<1>3. RowInv(c)
  BY <1>1, <1>2 DEF RowInv, RowTyped, RowPooled, RowBranched, RowReviewed, DevOnRecord
<1> QED BY <1>2, <1>3 DEF c

LEMMA SessionMergedKeeps ==
  ASSUME NEW r, RowInv(r)
  PROVE  RowInv(SessionMerged(r))
  BY DEF SessionMerged, RowInv, RowTyped, RowPooled, RowBranched, RowReviewed, DevOnRecord, Row

(* A verb that writes only the status.                                     *)
LEMMA StatusWriteKeeps ==
  ASSUME NEW r, RowInv(r), NEW s \in Statuses, s # "blocked",
         s \in Engaged => r.branch,
         s \in InReview => s \notin QaQueues /\ r.pr /\ (ThroughQa => DevOnRecord(r)),
         \/ s = "cancelled"
         \/ r.status \notin {"needs_revision", "cancelled"}
         \/ r.assigned # Nobody
  PROVE  RowInv([r EXCEPT !.status = s])
  BY StatusFacts DEF RowInv, RowTyped, RowPooled, RowBranched, RowReviewed, DevOnRecord, Row

(* No method but mark_pr_created touches the pull request's number.        *)
LEMMA PrUntouched ==
  ASSUME NEW r \in Row, NEW a, NEW s
  PROVE  /\ Owned(r, a).pr = r.pr /\ Reassigned(r, a).pr = r.pr
         /\ FinalizeClaim(r, a).pr = r.pr
         /\ Started(r).pr = r.pr
         /\ SoftBlocked(r).pr = r.pr /\ Escalated(r, a).pr = r.pr
         /\ DivertedToPool(r).pr = r.pr /\ PlainUnblocked(r).pr = r.pr
         /\ Restored(r).pr = r.pr
         /\ UnclaimedFromBlocked(r).pr = r.pr /\ UnclaimedFromWork(r).pr = r.pr
         /\ Reaped(r).pr = r.pr
         /\ SubmittedForQa(r).pr = r.pr /\ QaPassed(r).pr = r.pr
         /\ SentBack(r).pr = r.pr /\ CeoRejected(r).pr = r.pr
         /\ DocsCompleted(r).pr = r.pr
         /\ SessionMerged(r).pr = r.pr /\ Completed(r).pr = r.pr
         /\ [r EXCEPT !.status = s].pr = r.pr
<1>1. Owned(r, a).pr = r.pr /\ Reassigned(r, a).pr = r.pr BY DEF Owned, Reassigned, Row
<1>2. FinalizeClaim(r, a).pr = r.pr BY DEF FinalizeClaim, Owned, Row
<1>3. Started(r).pr = r.pr BY DEF Started, Row
<1>4. SoftBlocked(r).pr = r.pr /\ Escalated(r, a).pr = r.pr
  BY DEF SoftBlocked, Escalated, Snapshot, Raised, Row
<1>5. DivertedToPool(r).pr = r.pr BY DEF DivertedToPool, Released, Row
<1>6. PlainUnblocked(r).pr = r.pr BY DEF PlainUnblocked, Row
<1>7. Restored(r).pr = r.pr BY DEF Restored, Owned, Row
<1>8. UnclaimedFromBlocked(r).pr = r.pr /\ UnclaimedFromWork(r).pr = r.pr
  BY DEF UnclaimedFromBlocked, UnclaimedFromWork, Released, Row
<1>9. Reaped(r).pr = r.pr BY DEF Reaped, Row
<1>10. SubmittedForQa(r).pr = r.pr /\ QaPassed(r).pr = r.pr
  BY DEF SubmittedForQa, QaPassed, Released, Row
<1>11. SentBack(r).pr = r.pr /\ CeoRejected(r).pr = r.pr
  BY DEF SentBack, CeoRejected, Row
<1>12. DocsCompleted(r).pr = r.pr BY DEF DocsCompleted, ToPmReview, Owned, Row
<1>13. SessionMerged(r).pr = r.pr /\ Completed(r).pr = r.pr
  BY DEF SessionMerged, Completed, Row
<1>14. [r EXCEPT !.status = s].pr = r.pr BY DEF Row
<1> QED BY <1>1, <1>2, <1>3, <1>4, <1>5, <1>6, <1>7, <1>8, <1>9, <1>10, <1>11, <1>12, <1>13, <1>14

----------------------------------------------------------------------------
(* What every step does: it writes one row that is not final, or none.     *)

ForgeStates == {"none", "open", "merged", "closed"}

WritesRow(t) ==
  \E row : /\ RowInv(row)
           /\ task[t].status \notin Terminal
           /\ Put(t, row)
           /\ row.pr => forge'[t] # "none"

GitKept ==
  /\ forge' \in [Tasks -> ForgeStates]
  /\ \A u \in Tasks : forge[u] # "none" => forge'[u] # "none"
  /\ unread' \subseteq Tasks
  /\ unmerged' \subseteq Tasks

LegalStep(t) == GitKept /\ (WritesRow(t) \/ UNCHANGED <<task, rest>>)

LEMMA GitUnchanged ==
  ASSUME IInv, UNCHANGED git
  PROVE  GitKept
BY DEF IInv, TypeOK, git, GitKept, ForgeStates

LEMMA PutRowIsLegal ==
  ASSUME IInv, NEW t \in Tasks, NEW row, RowInv(row), row.pr = task[t].pr,
         task[t].status \notin Terminal, PutRow(t, row)
  PROVE  LegalStep(t)
<1>1. GitKept /\ Put(t, row)
  BY GitUnchanged DEF PutRow
<1>2. row.pr => forge'[t] # "none"
  BY DEF IInv, PutRow, git
<1> QED BY <1>1, <1>2 DEF LegalStep, WritesRow

LEMMA LegalStepKeeps ==
  ASSUME IInv, NEW t \in Tasks, LegalStep(t)
  PROVE  IInv'
<1>1. CASE UNCHANGED <<task, rest>>
  BY <1>1 DEF IInv, TypeOK, LegalStep, GitKept, ForgeStates
<1>2. CASE WritesRow(t)
  <2>1. PICK row : /\ RowInv(row)
                   /\ task[t].status \notin Terminal
                   /\ Put(t, row)
                   /\ row.pr => forge'[t] # "none"
    BY <1>2 DEF WritesRow
  <2>2. task' = [task EXCEPT ![t] = row]
    BY <2>1 DEF Put
  <2>3. \A u \in Tasks : task'[u] = IF u = t THEN row ELSE task[u]
    BY <2>2 DEF IInv, TypeOK
  <2>4. \A u \in Tasks : RowInv(task[u]) /\ (task[u].pr => forge[u] # "none")
    BY DEF IInv
  <2>5. \A u \in Tasks : RowInv(task'[u])
    BY <2>1, <2>3, <2>4
  <2>6. \A u \in Tasks : task'[u].pr => forge'[u] # "none"
    BY <2>1, <2>3, <2>4 DEF LegalStep, GitKept
  <2>7. task' \in [Tasks -> Row]
    BY <2>1, <2>2 DEF IInv, TypeOK, RowInv, RowTyped
  <2>8. rest' \in [Tasks -> [status: Live \cup {"none"}, owner: AgentOrNone]]
    <3>1. task[t] \in Row
      BY DEF IInv, TypeOK
    <3>2. task[t].status # "blocked" => task[t].status \in Live
      BY <2>1, <3>1, StatusFacts DEF Row
    <3>3. task[t].assigned \in AgentOrNone
      BY <3>1 DEF Row
    <3>4. NoRest \in [status: Live \cup {"none"}, owner: AgentOrNone]
      BY AgentFacts DEF NoRest
    <3>5. rest' = [rest EXCEPT ![t] =
                     IF row.status # "blocked" THEN NoRest
                     ELSE IF task[t].status = "blocked" THEN @
                     ELSE [status |-> task[t].status, owner |-> task[t].assigned]]
      BY <2>1 DEF Put
    <3> QED BY <3>2, <3>3, <3>4, <3>5 DEF IInv, TypeOK
  <2>9. TypeOK'
    BY <2>5, <2>7, <2>8 DEF TypeOK, LegalStep, GitKept, ForgeStates, RowInv, RowTyped
  <2>10. IInv' = (TypeOK' /\ \A u \in Tasks : RowInv(task'[u]) /\ (task'[u].pr => forge'[u] # "none"))
    BY DEF IInv, RowInv, RowTyped, RowPooled, RowBranched, RowReviewed, DevOnRecord
  <2> QED BY <2>5, <2>6, <2>9, <2>10
<1> QED BY <1>1, <1>2 DEF LegalStep

----------------------------------------------------------------------------
(* The actions, in the groups of Next.                                     *)

LEMMA RowOfTask ==
  ASSUME IInv, NEW t \in Tasks
  PROVE  task[t] \in Row /\ RowInv(task[t])
BY DEF IInv, TypeOK

LEMMA OpensPrIsLegal ==
  ASSUME IInv, NEW t \in Tasks, NEW a, OpensPr(a, t)
  PROVE  LegalStep(t)
<1>1. RowInv(PrMarked(task[t]))
  BY RowOfTask, PrMarkedKeeps, StatusFacts DEF OpensPr
<1>2. task[t].status \notin Terminal /\ Put(t, PrMarked(task[t]))
  BY StatusFacts DEF OpensPr
<1>3. GitKept /\ forge'[t] # "none"
  BY DEF OpensPr, OpenedOnForge, GitKept, ForgeStates, IInv, TypeOK
<1> QED BY <1>1, <1>2, <1>3 DEF LegalStep, WritesRow

LEMMA DevStepIsLegal ==
  ASSUME IInv, NEW t \in Tasks, NEW d \in Devs, DevStep(d, t)
  PROVE  LegalStep(t)
<1> DEFINE r == task[t]
<1>0. r \in Row /\ RowInv(r) /\ d \in Agents
  BY RowOfTask, AgentFacts
<1>1. CASE IWillWorkOn(d, t)
  <2>1. r.status \in {"pending", "needs_revision"} /\ PutRow(t, Started(FinalizeClaim(r, d)))
    BY <1>1 DEF IWillWorkOn
  <2>2. /\ RowInv(FinalizeClaim(r, d)) /\ FinalizeClaim(r, d).branch
        /\ FinalizeClaim(r, d).pr = r.pr /\ FinalizeClaim(r, d).assigned # Nobody
    BY <1>0, <2>1, FinalizeClaimKeeps, PrUntouched, AgentFacts
  <2>3. RowInv(Started(FinalizeClaim(r, d)))
    BY <2>2, StatusFacts, StatusWriteKeeps DEF Started
  <2>4. Started(FinalizeClaim(r, d)).pr = r.pr
    BY <2>2, PrUntouched DEF RowInv, RowTyped
  <2> QED BY <2>1, <2>3, <2>4, StatusFacts, PutRowIsLegal
<1>2. CASE ClaimOnBehalf(d, t)
  BY <1>0, <1>2, FinalizeClaimKeeps, PrUntouched, StatusFacts, PutRowIsLegal DEF ClaimOnBehalf
<1>3. CASE ResumeFromClaimed(d, t)
  <2>1. ASSUME NEW s, RowInv(s)
        PROVE  LET u == [s EXCEPT !.session = IF @ = "none" THEN "live" ELSE @]
               IN  RowInv(u) /\ u.pr = s.pr
    BY <2>1 DEF RowInv, RowTyped, RowPooled, RowBranched, RowReviewed, DevOnRecord, Row
  <2>2. r.status = "claimed" /\ r.branch
    BY <1>0, <1>3, StatusFacts DEF ResumeFromClaimed, RowInv, RowBranched
  <2>3. RowInv(Started(r)) /\ Started(r).pr = r.pr
    BY <1>0, <2>2, StatusFacts, StatusWriteKeeps, PrUntouched DEF Started
  <2> QED BY <1>3, <2>1, <2>2, <2>3, StatusFacts, PutRowIsLegal DEF ResumeFromClaimed
<1>4. CASE Commit(d, t)
  BY <1>4 DEF Commit, IInv, TypeOK, LegalStep, GitKept, ForgeStates
<1>5. CASE OpenPr(d, t)
  BY <1>5, OpensPrIsLegal DEF OpenPr
<1>6. CASE SubmitVerification(d, t)
  <2>1. r.status = "in_progress" /\ r.branch
    BY <1>0, <1>6, StatusFacts DEF SubmitVerification, RowInv, RowBranched
  <2>2. RowInv([r EXCEPT !.status = "verifying"]) /\ [r EXCEPT !.status = "verifying"].pr = r.pr
    BY <1>0, <2>1, StatusFacts, StatusWriteKeeps, PrUntouched
  <2> QED BY <1>6, <2>1, <2>2, StatusFacts, PutRowIsLegal DEF SubmitVerification
<1>7. CASE Reassign(d, t)
  BY <1>0, <1>7, OwnedKeeps, PrUntouched, StatusFacts, PutRowIsLegal DEF Reassign
<1>8. ASSUME NEW q \in QAs \cup {Nobody}, IAmDone(d, q, t)
      PROVE  LegalStep(t)
  <2>1. r.status \in Engaged \ InReview /\ r.assigned \in Devs /\ r.pr
    BY <1>8, StatusFacts DEF IAmDone
  <2> r.assigned \in Agents
    BY <2>1 DEF Agents
  <2>2. RowInv(SubmittedForQa(r)) /\ SubmittedForQa(r).pr = r.pr /\ SubmittedForQa(r) \in Row
    BY <1>0, <2>1, SubmittedKeeps, PrUntouched DEF RowInv, RowTyped
  <2> DEFINE s == IF q = Nobody THEN SubmittedForQa(r) ELSE Reassigned(SubmittedForQa(r), q)
  <2>3. RowInv(s) /\ s.pr = r.pr
    <3>1. CASE q = Nobody
      BY <2>2, <3>1
    <3>2. CASE q \in QAs
      BY <2>2, <3>2, ReassignedKeeps, PrUntouched, AgentFacts
    <3> QED BY <3>1, <3>2
  <2>4. PutRow(t, s)
    BY <1>8 DEF IAmDone
  <2>5. r.status \notin Terminal
    BY <2>1, StatusFacts
  <2> HIDE DEF s
  <2> QED BY <2>3, <2>4, <2>5, PutRowIsLegal
<1> QED BY <1>1, <1>2, <1>3, <1>4, <1>5, <1>6, <1>7, <1>8 DEF DevStep

LEMMA ReviewStepIsLegal ==
  ASSUME IInv, NEW t \in Tasks, ReviewStep(t)
  PROVE  LegalStep(t)
<1> DEFINE r == task[t]
<1>0. r \in Row /\ RowInv(r)
  BY RowOfTask
<1>1. ASSUME r.status \in {"awaiting_qa", "awaiting_pm_review"}, PutRow(t, SentBack(r))
      PROVE  LegalStep(t)
  <2>1. r.branch /\ r.status \notin Terminal
    BY <1>0, <1>1, StatusFacts DEF RowInv, RowBranched
  <2> QED BY <1>0, <1>1, <2>1, RejectsKeep, PrUntouched, PutRowIsLegal
<1>2. ASSUME NEW a \in Agents, NEW s \in InReview, ReviewClaim(a, t, s)
      PROVE  LegalStep(t)
  BY <1>0, <1>2, OwnedKeeps, PrUntouched, StatusFacts, PutRowIsLegal DEF ReviewClaim
<1>3. ASSUME NEW q \in QAs, ClaimReview(q, t)
      PROVE  LegalStep(t)
  BY <1>2, <1>3, AgentFacts, StatusFacts DEF ClaimReview
<1>4. ASSUME NEW q \in QAs, FailReview(q, t)
      PROVE  LegalStep(t)
  BY <1>4, <1>1 DEF FailReview
<1>5. ASSUME NEW q \in QAs, NEW doc \in Docs \cup {Nobody}, PassReview(q, doc, t)
      PROVE  LegalStep(t)
  <2>1. r.status = "awaiting_qa" /\ r.status \notin Terminal
    BY <1>5, StatusFacts DEF PassReview
  <2>2. RowInv(QaPassed(r)) /\ QaPassed(r).pr = r.pr /\ QaPassed(r) \in Row
    BY <1>0, <2>1, QaPassedKeeps, PrUntouched DEF RowInv, RowTyped
  <2> DEFINE s == IF doc = Nobody THEN QaPassed(r) ELSE Reassigned(QaPassed(r), doc)
  <2>3. RowInv(s) /\ s.pr = r.pr
    <3>1. CASE doc = Nobody
      BY <2>2, <3>1
    <3>2. CASE doc \in Docs
      BY <2>2, <3>2, ReassignedKeeps, PrUntouched, AgentFacts
    <3> QED BY <3>1, <3>2
  <2>4. Put(t, s)
    BY <1>5 DEF PassReview
  <2> HIDE DEF s
  <2>5. GitKept
    BY <1>5 DEF PassReview, GitKept, ForgeStates, IInv, TypeOK
  <2>6. s.pr => forge'[t] # "none"
    BY <2>3, <2>5 DEF IInv, GitKept
  <2> QED BY <2>1, <2>3, <2>4, <2>5, <2>6 DEF LegalStep, WritesRow
<1>6. ASSUME NEW doc \in Docs, ClaimDoc(doc, t)
      PROVE  LegalStep(t)
  BY <1>2, <1>6, AgentFacts, StatusFacts DEF ClaimDoc
<1>7. ASSUME NEW doc \in Docs, IDocumented(doc, t)
      PROVE  LegalStep(t)
  <2>1. /\ r.status \in QaQueues /\ r.branch /\ DevOnRecord(r) /\ r.pr
        /\ r.status \notin Terminal
    BY <1>0, <1>7, StatusFacts DEF IDocumented, RowInv, RowBranched, RowReviewed, DevOnRecord
  <2> QED BY <1>0, <1>7, <2>1, DocsCompletedKeeps, PrUntouched, PutRowIsLegal DEF IDocumented
<1>8. CASE RequestChanges(t)
  BY <1>8, <1>1 DEF RequestChanges
<1>9. CASE AssignReviewPm(t)
  BY <1>0, <1>9, OwnedKeeps, PrUntouched, AgentFacts, StatusFacts, PutRowIsLegal
  DEF AssignReviewPm
<1> QED BY <1>3, <1>4, <1>5, <1>6, <1>7, <1>8, <1>9 DEF ReviewStep

LEMMA BlockStepIsLegal ==
  ASSUME IInv, NEW t \in Tasks, BlockStep(t)
  PROVE  LegalStep(t)
<1> DEFINE r == task[t]
<1>0. r \in Row /\ RowInv(r)
  BY RowOfTask
<1>1. CASE IAmBlocked(t)
  BY <1>0, <1>1, EscalatedKeeps, PrUntouched, AgentFacts, StatusFacts, PutRowIsLegal DEF IAmBlocked
<1>2. CASE HttpSoftBlock(t)
  BY <1>0, <1>2, SoftBlockedKeeps, PrUntouched, StatusFacts, PutRowIsLegal DEF HttpSoftBlock
<1>3. CASE EscalateUp(t)
  BY <1>0, <1>3, EscalatedKeeps, PrUntouched, AgentFacts, PutRowIsLegal DEF EscalateUp
<1>4. CASE MainPmEscalateUp(t)
  BY <1>0, <1>4, ReleasesKeep, PrUntouched, PutRowIsLegal DEF MainPmEscalateUp
<1>5. CASE UnblockRestore(t)
  BY <1>0, <1>5, RestoredKeeps, PrUntouched, StatusFacts, PutRowIsLegal DEF UnblockRestore
<1>6. CASE UnblockPlain(t)
  BY <1>0, <1>6, PlainUnblockedKeeps, PrUntouched, StatusFacts, PutRowIsLegal DEF UnblockPlain
<1> QED BY <1>1, <1>2, <1>3, <1>4, <1>5, <1>6 DEF BlockStep

LEMMA OwnerStepIsLegal ==
  ASSUME IInv, NEW t \in Tasks, NEW a \in Agents, OwnerStep(a, t)
  PROVE  LegalStep(t)
<1> DEFINE r == task[t]
<1>0. r \in Row /\ RowInv(r)
  BY RowOfTask
<1>1. ASSUME r.status \in {"claimed", "paused", "needs_revision"}, r.assigned = a,
             PutRow(t, Started(r))
      PROVE  LegalStep(t)
  <2>1. r.branch /\ r.status \notin Terminal /\ r.assigned # Nobody
    BY <1>0, <1>1, StatusFacts, AgentFacts DEF RowInv, RowBranched
  <2>2. RowInv(Started(r)) /\ Started(r).pr = r.pr
    BY <1>0, <2>1, StatusWriteKeeps, StatusFacts, PrUntouched DEF Started
  <2> QED BY <1>1, <2>1, <2>2, PutRowIsLegal
<1>2. CASE HttpStart(a, t)
  BY <1>1, <1>2 DEF HttpStart
<1>3. CASE Pause(a, t)
  <2>1. r.status = "in_progress" /\ r.branch
    BY <1>0, <1>3, StatusFacts DEF Pause, RowInv, RowBranched
  <2>2. RowInv([r EXCEPT !.status = "paused"]) /\ [r EXCEPT !.status = "paused"].pr = r.pr
    BY <1>0, <2>1, StatusFacts, StatusWriteKeeps, PrUntouched
  <2> QED BY <1>3, <2>1, <2>2, StatusFacts, PutRowIsLegal DEF Pause
<1>4. CASE Resume(a, t)
  BY <1>1, <1>4 DEF Resume
<1>5. CASE HttpCreatePr(a, t)
  BY <1>5, OpensPrIsLegal DEF HttpCreatePr
<1>6. CASE UnclaimPending(a, t)
  <2>1. [r EXCEPT !.assigned = Nobody, !.claimant = Nobody].pr = r.pr
    BY <1>0 DEF Row
  <2> QED BY <1>0, <1>6, <2>1, ReleasesKeep, StatusFacts, PutRowIsLegal DEF UnclaimPending
<1>7. CASE UnclaimBlocked(a, t)
  BY <1>0, <1>7, ReleasesKeep, PrUntouched, StatusFacts, PutRowIsLegal DEF UnclaimBlocked
<1>8. CASE UnclaimWork(a, t)
  BY <1>0, <1>8, ReleasesKeep, PrUntouched, StatusFacts, PutRowIsLegal DEF UnclaimWork
<1> QED BY <1>2, <1>3, <1>4, <1>5, <1>6, <1>7, <1>8 DEF OwnerStep

LEMMA LandedKeepsGit ==
  ASSUME IInv, NEW t \in Tasks, LandedOnForge(t)
  PROVE  GitKept
BY DEF LandedOnForge, IInv, TypeOK, GitKept, ForgeStates

(* complete() keeps the row's promises: a final status makes none.         *)
LEMMA FinalizeIsLegal ==
  ASSUME IInv, NEW t \in Tasks, task[t].status \notin Terminal,
         GitKept, NEW row, RowInv(row), row.pr = task[t].pr,
         row.status \notin {"needs_revision", "cancelled"}, Finalize(t, row)
  PROVE  LegalStep(t)
<1>1. RowInv(Completed(row)) /\ Completed(row).pr = row.pr
  BY StatusFacts, StatusWriteKeeps, PrUntouched DEF Completed, RowInv, RowTyped
<1>2. Completed(row).pr => forge'[t] # "none"
  BY <1>1 DEF IInv, GitKept
<1> QED BY <1>1, <1>2 DEF Finalize, LegalStep, WritesRow

LEMMA MergeStepIsLegal ==
  ASSUME IInv, NEW t \in Tasks, MergeStep(t)
  PROVE  LegalStep(t)
<1> DEFINE r == task[t]
<1>0. /\ r \in Row /\ RowInv(r)
      /\ RowInv(SessionMerged(r)) /\ SessionMerged(r).pr = r.pr
      /\ SessionMerged(r).status = r.status
  BY RowOfTask, SessionMergedKeeps, PrUntouched DEF SessionMerged, Row
<1>1. MayComplete(t) => /\ r.status = "awaiting_pm_review" /\ r.status \in InReview
                        /\ r.status \notin Terminal /\ r.status # "needs_revision"
  BY StatusFacts DEF MayComplete
<1>2. CASE CompleteByMerging(t)
  BY <1>0, <1>1, <1>2, LandedKeepsGit, FinalizeIsLegal DEF CompleteByMerging
<1>3. CASE CompleteCutShort(t)
  BY <1>3, LandedKeepsGit DEF CompleteCutShort, LegalStep
<1>4. CASE CompleteAlreadyMerged(t)
  BY <1>0, <1>1, <1>4, GitUnchanged, FinalizeIsLegal DEF CompleteAlreadyMerged
<1>5. CASE CompleteSuperseded(t)
  <2>1. GitKept
    BY <1>5 DEF CompleteSuperseded, IInv, TypeOK, GitKept, ForgeStates
  <2>2. CASE PrMergedForComplete(r)
    BY <1>0, <1>1, <1>5, <2>1, <2>2, FinalizeIsLegal DEF CompleteSuperseded, Finalize
  <2>3. CASE ~PrMergedForComplete(r)
    BY <1>5, <2>1, <2>3 DEF CompleteSuperseded, LegalStep
  <2> QED BY <2>2, <2>3
<1>6. ASSUME r.status \in InReview
      PROVE  LET u == [r EXCEPT !.status = "awaiting_ceo_approval"]
             IN  /\ RowInv(u) /\ u.pr = r.pr
                 /\ RowInv([u EXCEPT !.claimant = Nobody])
                 /\ [u EXCEPT !.claimant = Nobody].pr = r.pr
  <2>1. /\ r.branch /\ r.pr /\ (ThroughQa => DevOnRecord(r))
        /\ r.status \notin {"needs_revision", "cancelled"}
    BY <1>0, <1>6, StatusFacts DEF RowInv, RowBranched, RowReviewed, DevOnRecord
  <2>2. RowInv([r EXCEPT !.status = "awaiting_ceo_approval"])
    BY <1>0, <2>1, StatusFacts, StatusWriteKeeps
  <2>3. ASSUME NEW u, RowInv(u)
        PROVE  RowInv([u EXCEPT !.claimant = Nobody]) /\ [u EXCEPT !.claimant = Nobody].pr = u.pr
    BY <2>3, AgentFacts DEF RowInv, RowTyped, RowPooled, RowBranched, RowReviewed, DevOnRecord, Row
  <2>4. [r EXCEPT !.status = "awaiting_ceo_approval"].pr = r.pr
    BY <1>0, PrUntouched
  <2>5. /\ RowInv([[r EXCEPT !.status = "awaiting_ceo_approval"] EXCEPT !.claimant = Nobody])
        /\ [[r EXCEPT !.status = "awaiting_ceo_approval"] EXCEPT !.claimant = Nobody].pr = r.pr
    BY <2>2, <2>3, <2>4
  <2> QED BY <2>2, <2>4, <2>5
<1>7. CASE CompleteRoutedToCeo(t)
  BY <1>1, <1>6, <1>7, PutRowIsLegal DEF CompleteRoutedToCeo
<1>8. CASE CompleteInConflict(t)
  <2>1. [r EXCEPT !.status = "awaiting_ceo_approval", !.claimant = Nobody]
          = [[r EXCEPT !.status = "awaiting_ceo_approval"] EXCEPT !.claimant = Nobody]
    BY <1>0 DEF Row
  <2> QED BY <1>1, <1>6, <1>8, <2>1, PutRowIsLegal DEF CompleteInConflict
<1>9. ASSUME r.status \notin Terminal \cup {"needs_revision"}, MergeForTask(t)
      PROVE  LegalStep(t)
  BY <1>0, StatusFacts, <1>9, LandedKeepsGit, GitUnchanged, FinalizeIsLegal DEF MergeForTask
<1>10. CASE HttpMerge(t)
  BY <1>9, <1>10, StatusFacts DEF HttpMerge
<1>11. CASE CeoApproveAndMerge(t)
  BY <1>9, <1>11, StatusFacts DEF CeoApproveAndMerge
<1>12. CASE CeoMergeCutShort(t)
  BY <1>12, LandedKeepsGit DEF CeoMergeCutShort, LegalStep
<1>13. CASE CeoApprove(t)
  BY <1>0, <1>13, StatusFacts, GitUnchanged, FinalizeIsLegal DEF CeoApprove
<1>14. CASE CeoReject(t)
  <2>1. r.branch /\ r.status \notin Terminal
    BY <1>0, <1>14, StatusFacts DEF CeoReject, RowInv, RowBranched
  <2> QED BY <1>0, <1>14, <2>1, RejectsKeep, PrUntouched, PutRowIsLegal DEF CeoReject
<1> QED
  BY <1>2, <1>3, <1>4, <1>5, <1>7, <1>8, <1>10, <1>11, <1>12, <1>13, <1>14 DEF MergeStep

LEMMA HttpStepIsLegal ==
  ASSUME IInv, NEW t \in Tasks, HttpStep(t)
  PROVE  LegalStep(t)
<1> DEFINE r == task[t]
<1>0. r \in Row /\ RowInv(r)
  BY RowOfTask
<1>1. ASSUME NEW a \in Agents, SubmitPmReview(a, t)
      PROVE  LegalStep(t)
  <2>1. r.status = "in_progress" /\ r.branch /\ r.pr /\ ~ThroughQa
    BY <1>1 DEF SubmitPmReview, ThroughQa
  <2> DEFINE pm == IF a = CellPm THEN MainPm ELSE CellPm
             s == [r EXCEPT !.assigned = pm]
             c == [s EXCEPT !.status = "awaiting_pm_review"]
  <2>0. pm \in Agents
    BY DEF Agents
  <2> HIDE DEF pm
  <2>6. s \in Row /\ RowInv(s) /\ s.status = r.status /\ s.branch = r.branch /\ s.pr = r.pr
    BY <1>0, <2>0, AssignedKeeps DEF RowInv, RowTyped
  <2>2. /\ "awaiting_pm_review" \in Statuses /\ "awaiting_pm_review" \notin QaQueues
        /\ r.status \notin {"needs_revision", "cancelled"} /\ r.status \notin Terminal
    BY <2>1, StatusFacts DEF QaQueues
  <2>5. PutRow(t, c)
    <3>1. c = [r EXCEPT !.status = "awaiting_pm_review", !.assigned = pm]
      BY <1>0 DEF Row
    <3> QED BY <1>1, <3>1 DEF SubmitPmReview, pm
  <2> HIDE DEF s
  <2>3. RowInv(c)
    BY <2>1, <2>2, <2>6, StatusWriteKeeps
  <2>4. c.pr = r.pr
    BY <2>6 DEF Row
  <2> HIDE DEF c
  <2> QED BY <2>2, <2>3, <2>4, <2>5, PutRowIsLegal
<1>2. ASSUME NEW a \in Agents, HttpClaimReview(a, t)
      PROVE  LegalStep(t)
  <2> DEFINE s == Owned(r, a)
             c == [s EXCEPT !.status = "claimed"]
  <2>1. r.status \in QaQueues /\ r.branch /\ r.status \notin Terminal
    BY <1>0, <1>2, StatusFacts DEF HttpClaimReview, RowInv, RowBranched
  <2>2. s \in Row /\ RowInv(s)
    BY <1>0, OwnedKeeps DEF RowInv, RowTyped
  <2>3. s.branch = r.branch /\ s.pr = r.pr /\ s.assigned = a /\ a # Nobody
    BY <1>0, AgentFacts DEF Owned, Row
  <2>4. PutRow(t, c)
    BY <1>2 DEF HttpClaimReview
  <2> HIDE DEF s
  <2>5. "claimed" \in Statuses /\ "claimed" \notin InReview
    BY StatusFacts
  <2>6. RowInv(c)
    BY <2>1, <2>2, <2>3, <2>5, StatusWriteKeeps
  <2>7. c.pr = s.pr
    BY <2>2 DEF Row
  <2> HIDE DEF c
  <2> QED BY <2>1, <2>3, <2>4, <2>6, <2>7, PutRowIsLegal
<1>3. ASSUME NEW a \in Agents, HttpComplete(a, t)
      PROVE  LegalStep(t)
  BY <1>0, <1>3, StatusFacts, GitUnchanged, FinalizeIsLegal DEF HttpComplete
<1>4. CASE HttpDocsComplete(t)
  <2>1. r.status \in Engaged /\ r.branch /\ ~ThroughQa /\ r.status \notin Terminal
    BY <1>0, <1>4, StatusFacts DEF HttpDocsComplete, ThroughQa, RowInv, RowBranched
  <2> DEFINE s == DocsCompleted(r)
             c == [s EXCEPT !.assigned = CellPm]
  <2>2. RowInv(s) /\ s.pr = r.pr
    BY <1>0, <2>1, DocsCompletedKeeps, PrUntouched
  <2>3. PutRow(t, c)
    BY <1>4 DEF HttpDocsComplete
  <2> HIDE DEF s
  <2>4. RowInv(c) /\ c.pr = s.pr
    BY <2>2, AssignedKeeps DEF Agents
  <2> HIDE DEF c
  <2> QED BY <2>1, <2>2, <2>3, <2>4, PutRowIsLegal
<1>5. CASE HttpPassReview(t)
  <2>1. r.status = "awaiting_qa" /\ r.status \notin Terminal
    BY <1>5, StatusFacts DEF HttpPassReview
  <2>2. RowInv(QaPassed(r)) /\ QaPassed(r).pr = r.pr
    BY <1>0, <2>1, QaPassedKeeps, PrUntouched
  <2>3. GitKept /\ Put(t, QaPassed(r))
    BY <1>5 DEF HttpPassReview, GitKept, ForgeStates, IInv, TypeOK
  <2>4. QaPassed(r).pr => forge'[t] # "none"
    BY <2>2, <2>3 DEF IInv, GitKept
  <2> QED BY <2>1, <2>2, <2>3, <2>4 DEF LegalStep, WritesRow
<1>6. CASE HttpFailReview(t)
  <2>1. r.branch /\ r.status \notin Terminal
    BY <1>0, <1>6, StatusFacts DEF HttpFailReview, RowInv, RowBranched
  <2> QED BY <1>0, <1>6, <2>1, RejectsKeep, PrUntouched, PutRowIsLegal DEF HttpFailReview
<1>7. CASE HttpEscalate(t)
  BY <1>0, <1>7, EscalatedKeeps, PrUntouched, AgentFacts, PutRowIsLegal DEF HttpEscalate
<1>8. ASSUME NEW a \in Agents, HttpVerify(a, t)
      PROVE  LegalStep(t)
  <2>1. r.status = "in_progress" /\ r.branch
    BY <1>0, <1>8, StatusFacts DEF HttpVerify, RowInv, RowBranched
  <2>2. RowInv([r EXCEPT !.status = "verifying"]) /\ [r EXCEPT !.status = "verifying"].pr = r.pr
    BY <1>0, <2>1, StatusFacts, StatusWriteKeeps, PrUntouched
  <2> QED BY <1>8, <2>1, <2>2, StatusFacts, PutRowIsLegal DEF HttpVerify
<1>9. ASSUME NEW a \in Agents, HttpSubmitQa(a, t)
      PROVE  LegalStep(t)
  <2>1. /\ r.status \in Engaged /\ r.status \notin Terminal /\ r.pr
        /\ r.assigned \in Agents /\ "http_submit_qa" \in Enabled
    BY <1>9, StatusFacts DEF HttpSubmitQa
  <2>2. RowInv(SubmittedForQa(r)) /\ SubmittedForQa(r).pr = r.pr
    BY <1>0, <2>1, SubmittedKeeps, PrUntouched
  <2> QED BY <1>9, <2>1, <2>2, PutRowIsLegal DEF HttpSubmitQa
<1> QED BY <1>1, <1>2, <1>3, <1>4, <1>5, <1>6, <1>7, <1>8, <1>9 DEF HttpStep

LEMMA StepIsLegal ==
  ASSUME IInv, NEW t \in Tasks,
         \/ \E d \in Devs : DevStep(d, t)
         \/ ReviewStep(t)
         \/ HttpStep(t)
         \/ MergeStep(t)
         \/ BlockStep(t)
         \/ \E a \in Agents : OwnerStep(a, t)
         \/ Reap(t)
         \/ Cancel(t)
  PROVE  LegalStep(t)
<1>1. CASE Reap(t)
  BY <1>1, RowOfTask, ReapedKeeps, PrUntouched, StatusFacts, PutRowIsLegal DEF Reap
<1>2. CASE Cancel(t)
  <2> DEFINE row == [task[t] EXCEPT !.status = "cancelled"]
  <2>1. RowInv(row) /\ row.pr = task[t].pr
    BY RowOfTask, StatusFacts, StatusWriteKeeps, PrUntouched
  <2>2. task[t].status \notin Terminal /\ Put(t, row)
    BY <1>2 DEF Cancel
  <2> HIDE DEF row
  <2>3. GitKept
    BY <1>2 DEF Cancel, IInv, TypeOK, GitKept, ForgeStates
  <2>4. row.pr => forge'[t] # "none"
    BY <2>1, <2>3 DEF IInv, GitKept
  <2> QED BY <2>1, <2>2, <2>3, <2>4 DEF LegalStep, WritesRow
<1> QED
  BY <1>1, <1>2, DevStepIsLegal, ReviewStepIsLegal, HttpStepIsLegal, MergeStepIsLegal,
     BlockStepIsLegal, OwnerStepIsLegal

LEMMA NextIsLegal ==
  ASSUME IInv, Next
  PROVE  \E t \in Tasks : LegalStep(t)
BY StepIsLegal DEF Next

----------------------------------------------------------------------------
LEMMA InitInv == Init => IInv
<1> SUFFICES ASSUME Init PROVE IInv
  OBVIOUS
<1>1. ASSUME NEW a \in Devs \cup {Nobody}
      PROVE  RowInv(NewRow(a)) /\ ~NewRow(a).pr
  <2>1. NewRow(a) \in Row
    BY AgentFacts, StatusFacts DEF NewRow, Row
  <2> QED
    BY <2>1, AgentFacts, StatusFacts
    DEF NewRow, RowInv, RowTyped, RowPooled, RowBranched, RowReviewed, DevOnRecord
<1>2. \A t \in Tasks : RowInv(task[t]) /\ ~task[t].pr
  BY <1>1 DEF Init
<1>3. task \in [Tasks -> Row]
  <2>1. \A a \in Devs \cup {Nobody} : NewRow(a) \in Row
    BY <1>1 DEF RowInv, RowTyped
  <2> QED BY <2>1 DEF Init
<1>4. rest \in [Tasks -> [status: Live \cup {"none"}, owner: AgentOrNone]]
  BY AgentFacts DEF Init, NoRest
<1> QED BY <1>2, <1>3, <1>4 DEF Init, IInv, TypeOK, RowInv, RowTyped

LEMMA StepInv == IInv /\ [Next]_vars => IInv'
<1>1. ASSUME IInv, UNCHANGED vars
      PROVE  IInv'
  BY <1>1 DEF vars, IInv, TypeOK, RowInv, RowTyped, RowPooled, RowBranched, RowReviewed, DevOnRecord
<1> QED BY <1>1, NextIsLegal, LegalStepKeeps

(* Whichever of the modelled verbs, routes and sweeps write a row, in any  *)
(* order, it is well typed and holds already what the status it will be    *)
(* restored to promises (the columns _snapshot_pre_block and the claims    *)
(* maintain).  That a developer is on record is a promise only where no    *)
(* route breaks it: /submit-qa records any assignee, and /submit-pm-review *)
(* and /docs-complete take a task to PM review and record nobody.          *)
THEOREM Invariance == Spec => []IInv
BY InitInv, StepInv, PTL DEF Spec

(* Every column keeps to its values, and a blocked task always has a       *)
(* snapshot of a status it can be restored to: block, soft_block and       *)
(* apply_escalation all go through _snapshot_pre_block, once.              *)
THEOREM TypeCorrectness == Spec => []TypeOK
<1>1. IInv => TypeOK
  BY DEF IInv
<1> QED BY <1>1, Invariance, PTL

(* No verb or route of the model leaves a task in the pool with its lock   *)
(* held; rejected tasks apart, whose lock ceo_reject does not write.       *)
THEOREM PoolUnlocked == Spec => []PoolIsUnlocked
<1>1. IInv => PoolIsUnlocked
  BY DEF IInv, RowInv, RowPooled, PoolIsUnlocked
<1> QED BY <1>1, Invariance, PTL

(* No claim, restore, plain unblock or restart of work leaves a task at    *)
(* work without the branch the dispatcher needs.                           *)
THEOREM WorkBranched == Spec => []WorkHasBranch
<1>1. IInv => WorkHasBranch
  BY StatusFacts DEF IInv, RowInv, RowBranched, WorkHasBranch
<1> QED BY <1>1, Invariance, PTL

(* fail_qa, request_changes and ceo_reject always know whom to send the    *)
(* rework to: the developer submit_for_qa recorded.  Without the routes    *)
(* that put a task under review past it: POST /submit-pm-review, which a   *)
(* developer may call, POST /docs-complete on work in progress, and POST   *)
(* /submit-qa by an assignee of another role, who is recorded instead.     *)
THEOREM ReworkOwned ==
  ASSUME Enabled \cap {"http_submit_pm_review", "http_submit_qa", "http_docs_complete"} = {}
  PROVE  Spec => []ReworkHasDeveloper
<1>1. IInv => ReworkHasDeveloper
  BY DEF IInv, RowInv, RowReviewed, DevOnRecord, ReworkHasDeveloper, ThroughQa
<1> QED BY <1>1, Invariance, PTL

(* A task enters review only with a pull request on its row, and a row     *)
(* records one only after GitHub opened it.                                *)
THEOREM ReviewedOnForge == Spec => []ReviewHasPullRequest
<1>1. IInv => ReviewHasPullRequest
  BY DEF IInv, RowInv, RowReviewed, ReviewHasPullRequest
<1> QED BY <1>1, Invariance, PTL

(* No verb, route or sweep of the model writes a completed or cancelled    *)
(* task.                                                                   *)
THEOREM TerminalFinal == Spec => TerminalIsFinal
<1>1. ASSUME IInv, [Next]_vars
      PROVE  [\A t \in Tasks : task[t].status \in Terminal => task'[t] = task[t]]_vars
  <2>1. CASE Next
    <3>1. PICK t \in Tasks : LegalStep(t)
      BY <1>1, <2>1, NextIsLegal
    <3>2. CASE UNCHANGED <<task, rest>>
      BY <3>2
    <3>3. CASE WritesRow(t)
      <4>1. PICK row : task[t].status \notin Terminal /\ task' = [task EXCEPT ![t] = row]
        BY <3>3 DEF WritesRow, Put
      <4>2. task \in [Tasks -> Row]
        BY <1>1 DEF IInv, TypeOK
      <4>3. \A u \in Tasks : u # t => task'[u] = task[u]
        BY <4>1, <4>2
      <4> QED BY <4>1, <4>3
    <3> QED BY <3>1, <3>2, <3>3 DEF LegalStep
  <2>2. CASE UNCHANGED vars
    BY <2>2
  <2> QED BY <1>1, <2>1, <2>2
<1> QED BY <1>1, Invariance, PTL DEF Spec, TerminalIsFinal
=============================================================================
