------------------------ MODULE ReleaseProposalProofs ------------------------
(***************************************************************************)
(* Proofs about ReleaseProposal, for any number of approves, rejects,      *)
(* restarts and pushes: what the retries of a release may leave behind.    *)
(***************************************************************************)
EXTENDS ReleaseProposal, TLAPS

LEMMA Locals ==
  ASSUME TypeOK, NEW c \in Calls, NEW s \in Stages, Goto(c, s)
  PROVE  pc' \in [Calls -> Stages]
  BY DEF TypeOK, Goto

LEMMA Named ==
  /\ CloneStages \subseteq Stages /\ Executing \subseteq Stages /\ MayOutlast \subseteq Stages
  /\ {"idle", "acquire", "close", "reread", "flush", "unlock", "commit", "done",
      "clone", "tag", "detect", "edit", "gate", "push", "ci", "publish"} \subseteq Stages
  BY ClonesAreQuick DEF Stages, CloneStages, Executing

LEMMA Grows ==
  ASSUME TypeOK, NEW k \in {"work", "release"}
  PROVE  /\ Append(prod, k) \in Seq({"work", "release"})
         /\ Len(Append(prod, k)) = Len(prod) + 1
         /\ DOMAIN Append(prod, k) = 1..(Len(prod) + 1)
         /\ DOMAIN prod = 1..Len(prod) /\ Len(prod) \in Nat
         /\ \A i \in 1..Len(prod) : Append(prod, k)[i] = prod[i]
         /\ Append(prod, k)[Len(prod) + 1] = k
  BY DEF TypeOK

LEMMA TypePreserved == TypeOK /\ [Next]_vars => TypeOK'
<1> SUFFICES ASSUME TypeOK, [Next]_vars PROVE TypeOK'
  OBVIOUS
<1> USE Named
<1>1. ASSUME NEW c \in Calls, Precheck(c) PROVE TypeOK'
  BY <1>1, Locals DEF Precheck, TypeOK, record, forge, Goto
<1>2. ASSUME NEW c \in Calls, NEW s \in {"clone", "reread"}, Acquire(c, s) PROVE TypeOK'
  BY <1>2, Locals DEF Acquire, TypeOK, record, forge, Goto
<1>3. ASSUME NEW c \in Calls, PrepareClone(c) PROVE TypeOK'
  BY <1>3 DEF PrepareClone, TypeOK, record, forge, Goto, GotoOrFail
<1>4. ASSUME NEW c \in Calls, IsAlreadyPublished(c) PROVE TypeOK'
  BY <1>4 DEF IsAlreadyPublished, TypeOK, record, forge, Goto
<1>5. ASSUME NEW c \in Calls, ReleaseCommitSha(c) PROVE TypeOK'
  <2>1. sha' \in [Calls -> Nat]
    <3>1. ReleaseCommits \subseteq Nat
      BY DEF ReleaseCommits, TypeOK
    <3>2. sha' = sha \/ \E i \in ReleaseCommits : sha' = [sha EXCEPT ![c] = i]
      BY <1>5 DEF ReleaseCommitSha
    <3> HIDE DEF ReleaseCommits
    <3> QED BY <3>1, <3>2 DEF TypeOK
  <2>2. /\ Goto(c, "edit") \/ Goto(c, "ci")
        /\ UNCHANGED <<record, lock, redis, forge, clone, restarts>>
    BY <1>5 DEF ReleaseCommitSha
  <2>3. pc' \in [Calls -> Stages]
    BY <2>2, Locals
  <2> QED BY <2>1, <2>2, <2>3 DEF TypeOK, record, forge
<1>6. ASSUME NEW c \in Calls, EditFiles(c) PROVE TypeOK'
  <2>1. clone' \in [base : Nat, edited : BOOLEAN] /\ clone'.base = clone.base
    BY <1>6 DEF EditFiles, TypeOK
  <2>2. pc' \in [Calls -> Stages]
    BY <1>6 DEF EditFiles, TypeOK, Goto, GotoOrFail
  <2> QED BY <1>6, <2>1, <2>2 DEF EditFiles, TypeOK, record, forge
<1>7. ASSUME NEW c \in Calls, RunGate(c) PROVE TypeOK'
  BY <1>7 DEF RunGate, TypeOK, record, forge, Goto, GotoOrFail
<1>8. ASSUME NEW c \in Calls, CommitAndPush(c) PROVE TypeOK'
  <2>1. CASE prod' = Append(prod, "release")
    <3>1. PICK s \in Stages : Goto(c, s)
      BY <1>8 DEF CommitAndPush, Goto, GotoOrFail
    <3>2. pc' \in [Calls -> Stages]
      BY <3>1, Locals
    <3>3. /\ prod' \in Seq({"work", "release"}) /\ Len(prod') = Len(prod) + 1
          /\ DOMAIN prod \subseteq DOMAIN prod' /\ Len(prod) \in Nat
      BY <2>1, Grows
    <3>4. prod' # prod
      BY <3>3
    <3>5. /\ clone' = [base |-> Len(prod) + 1, edited |-> FALSE]
          /\ sha' = [sha EXCEPT ![c] = Len(prod) + 1]
          /\ UNCHANGED <<record, lock, redis, green, tag, pushes, restarts>>
      BY <1>8, <3>4 DEF CommitAndPush
    <3> QED BY <3>2, <3>3, <3>5 DEF TypeOK, record
  <2>2. CASE Goto(c, "unlock") /\ UNCHANGED <<prod, clone, sha>>
    BY <1>8, <2>2 DEF CommitAndPush, TypeOK, record, Goto
  <2> QED BY <1>8, <2>1, <2>2 DEF CommitAndPush
<1>9. ASSUME NEW c \in Calls, WaitForCi(c) PROVE TypeOK'
  <2>1. PICK s \in {"publish", "unlock"} : Goto(c, s)
    BY <1>9 DEF WaitForCi
  <2>2. pc' \in [Calls -> Stages]
    BY <2>1, Locals
  <2> QED BY <1>9, <2>2 DEF WaitForCi, TypeOK, record, forge
<1>10. ASSUME NEW c \in Calls, PublishRelease(c) PROVE TypeOK'
  BY <1>10 DEF PublishRelease, TypeOK, record, Goto, GotoOrFail
<1>11. ASSUME NEW c \in Calls, CloseProposal(c) PROVE TypeOK'
  BY <1>11 DEF CloseProposal, TypeOK, forge, Goto
<1>12. ASSUME NEW c \in Calls, HeartbeatCancels(c) PROVE TypeOK'
  BY <1>12 DEF HeartbeatCancels, TypeOK, record, forge, Goto
<1>13. ASSUME NEW c \in Calls, RejectCheck(c) PROVE TypeOK'
  BY <1>13 DEF RejectCheck, TypeOK, record, forge, Goto
<1>14. ASSUME NEW c \in Calls, RejectReread(c) PROVE TypeOK'
  BY <1>14 DEF RejectReread, TypeOK, record, forge, Goto
<1>15. ASSUME NEW c \in Calls, RejectFlush(c) PROVE TypeOK'
  BY <1>15 DEF RejectFlush, TypeOK, record, forge, Goto
<1>16. ASSUME NEW c \in Calls, Unlock(c) PROVE TypeOK'
  BY <1>16 DEF Unlock, TypeOK, record, forge, Goto
<1>17. ASSUME NEW c \in Calls, RejectCommit(c) PROVE TypeOK'
  BY <1>17 DEF RejectCommit, TypeOK, forge, Goto
<1>18. ASSUME Expire PROVE TypeOK'
  BY <1>18 DEF Expire, TypeOK, record, forge
<1>19. ASSUME RedisToggles PROVE TypeOK'
  BY <1>19 DEF RedisToggles, TypeOK, record, forge
<1>20. ASSUME Restart PROVE TypeOK'
  BY <1>20 DEF Restart, TypeOK, forge
<1>21. ASSUME OthersPush PROVE TypeOK'
  BY <1>21, Grows DEF OthersPush, TypeOK, record
<1>22. ASSUME CiSucceeds PROVE TypeOK'
  BY <1>22 DEF CiSucceeds, TypeOK, record
<1>23. CASE UNCHANGED vars
  BY <1>23 DEF vars, TypeOK
<1> QED
  BY <1>1, <1>2, <1>3, <1>4, <1>5, <1>6, <1>7, <1>8, <1>9, <1>10, <1>11, <1>12, <1>13,
     <1>14, <1>15, <1>16, <1>17, <1>18, <1>19, <1>20, <1>21, <1>22, <1>23
  DEF Next, Step, AcquireForApprove, AcquireForReject

\* Every state of the release machinery is of the kinds release_proposal.py and
\* release_executor.py know.
THEOREM TypeCorrect == Spec => []TypeOK
<1>1. Init => TypeOK
  BY CallsAreDistinct, BoundsAreNaturals DEF Init, TypeOK, Stages
<1> QED
  BY <1>1, TypePreserved, PTL DEF Spec

-----------------------------------------------------------------------------
(* The invariant: up to its push an execute owns the mutex and with it the  *)
(* clone; what it goes on with afterwards is the one release commit.        *)

OwnsClone == \A c \in Calls : pc[c] \in CloneStages => lock = c
NotReleasedYet == \A c \in Calls : pc[c] \in {"edit", "gate", "push"} =>
                    \A i \in 1..clone.base : ~IsRelease(i)
GoesOnWithRelease ==
  \A c \in Calls : /\ pc[c] \in {"ci", "publish"} => IsRelease(sha[c])
                   /\ pc[c] = "publish" => sha[c] \in green
                   /\ pc[c] = "close" => tag # 0
ReleaseIsRecent == /\ pushes <= MaxPushes
                   /\ \A i \in DOMAIN prod : IsRelease(i) => Len(prod) <= i + pushes
Safe == OneReleaseCommit /\ PublishedIsGreen /\ CompletedIsPublished

IInv == OwnsClone /\ NotReleasedYet /\ GoesOnWithRelease /\ ReleaseIsRecent /\ Safe

\* A step of one call that leaves the forge and the clone alone.
LEMMA QuietStep ==
  ASSUME TypeOK, IInv, NEW c \in Calls, NEW s \in Stages, Goto(c, s),
         UNCHANGED <<forge, clone>>,
         \A d \in Calls \ {c} : sha'[d] = sha[d],
         \A d \in Calls \ {c} : pc[d] \in CloneStages => lock' = d,
         s \in CloneStages => lock' = c,
         s \in {"edit", "gate", "push"} => \A i \in 1..clone.base : ~IsRelease(i),
         s \in {"ci", "publish"} => IsRelease(sha'[c]),
         s = "publish" => sha'[c] \in green,
         s = "close" \/ row' = "completed" => tag # 0
  PROVE  IInv'
<1>1. \A d \in Calls : pc'[d] = IF d = c THEN s ELSE pc[d]
  BY DEF Goto, TypeOK
<1>2. prod' = prod /\ green' = green /\ tag' = tag /\ pushes' = pushes /\ clone' = clone
  BY DEF forge
<1>3. OwnsClone'
  BY <1>1 DEF OwnsClone, IInv
<1>4. NotReleasedYet'
  BY <1>1, <1>2 DEF NotReleasedYet, IInv, IsRelease
<1>5. GoesOnWithRelease'
  BY <1>1, <1>2 DEF GoesOnWithRelease, IInv, IsRelease
<1>6. ReleaseIsRecent' /\ OneReleaseCommit' /\ PublishedIsGreen'
  BY <1>2 DEF ReleaseIsRecent, IInv, Safe, OneReleaseCommit, PublishedIsGreen, IsRelease
<1>7. CompletedIsPublished'
  BY <1>2 DEF CompletedIsPublished
<1> QED
  BY <1>3, <1>4, <1>5, <1>6, <1>7 DEF IInv, Safe

LEMMA Initially == Init => IInv
<1> SUFFICES ASSUME Init PROVE IInv
  OBVIOUS
<1>1. /\ \A c \in Calls : pc[c] = "idle"
      /\ \A i \in DOMAIN prod : ~IsRelease(i)
  BY DEF Init, IsRelease
<1>2. OwnsClone /\ NotReleasedYet /\ GoesOnWithRelease
  BY <1>1 DEF OwnsClone, NotReleasedYet, GoesOnWithRelease, CloneStages
<1>3. ReleaseIsRecent
  BY <1>1, BoundsAreNaturals DEF ReleaseIsRecent, Init
<1>4. Safe
  BY <1>1 DEF Safe, OneReleaseCommit, PublishedIsGreen, CompletedIsPublished, Init, IsRelease
<1> QED BY <1>2, <1>3, <1>4 DEF IInv

\* What the log of the clone does not show is not there.
LEMMA WindowShows ==
  ASSUME TypeOK, IInv, MaxPushes < LogWindow, ReleaseCommits = {}
  PROVE  \A i \in 1..clone.base : ~IsRelease(i)
<1> SUFFICES ASSUME NEW i \in 1..clone.base, IsRelease(i) PROVE FALSE
  OBVIOUS
<1>1. /\ i \in Nat /\ clone.base \in Nat /\ clone.base <= Len(prod) /\ Len(prod) \in Nat
      /\ pushes \in Nat /\ MaxPushes \in Nat /\ LogWindow \in Nat
  BY BoundsAreNaturals DEF TypeOK
<1>2. Len(prod) <= i + pushes /\ pushes <= MaxPushes
  BY DEF IInv, ReleaseIsRecent, IsRelease
<1> QED BY <1>1, <1>2 DEF ReleaseCommits

\* The branch grows under an execute: nothing it relies on goes away.
LEMMA Persists ==
  ASSUME TypeOK, NEW k \in {"work", "release"}, prod' = Append(prod, k)
  PROVE  /\ \A i : IsRelease(i) => IsRelease(i)'
         /\ \A i \in 1..Len(prod) : IsRelease(i)' => IsRelease(i)
         /\ \A i : i = Len(prod) + 1 => (IsRelease(i)' <=> k = "release")
         /\ DOMAIN prod' = 1..(Len(prod) + 1) /\ Len(prod') = Len(prod) + 1
         /\ DOMAIN prod = 1..Len(prod) /\ Len(prod) \in Nat
  BY Grows DEF IsRelease

LEMMA Preserved ==
  ASSUME TypeOK, TypeOK', IInv, [Next]_vars, MaxPushes < LogWindow
  PROVE  IInv'
<1> USE Named
<1>1. ASSUME NEW c \in Calls, Precheck(c) PROVE IInv'
  <2>1. PICK s \in {"acquire", "done"} : Goto(c, s)
    BY <1>1 DEF Precheck
  <2> QED
    BY <1>1, <2>1, QuietStep DEF Precheck, IInv, OwnsClone, CloneStages, Safe, CompletedIsPublished, record
<1>2. ASSUME NEW c \in Calls, NEW t \in {"clone", "reread"}, Acquire(c, t) PROVE IInv'
  <2>1. CASE redis /\ lock = Nobody /\ lock' = c
    <3>1. PICK s \in {t, "done"} : Goto(c, s)
      BY <1>2, <2>1, CallsAreDistinct DEF Acquire
    <3>2. \A d \in Calls : pc[d] \notin CloneStages
      BY <2>1, CallsAreDistinct DEF IInv, OwnsClone
    <3> QED
      BY <1>2, <2>1, <3>1, <3>2, QuietStep
      DEF Acquire, IInv, CloneStages, Safe, CompletedIsPublished, record
  <2>2. CASE Goto(c, "done") /\ UNCHANGED lock
    BY <1>2, <2>2, QuietStep
    DEF Acquire, IInv, OwnsClone, CloneStages, Safe, CompletedIsPublished, record
  <2> QED BY <1>2, <2>1, <2>2 DEF Acquire
<1>3. ASSUME NEW c \in Calls, PrepareClone(c) PROVE IInv'
  <2>1. PICK s \in {"tag", "unlock"} : Goto(c, s)
    BY <1>3 DEF PrepareClone, GotoOrFail
  <2>2. \A d \in Calls : pc'[d] = IF d = c THEN s ELSE pc[d]
    BY <2>1 DEF Goto, TypeOK
  <2>3. /\ lock = c /\ lock' = lock /\ sha' = sha /\ row' = row
        /\ prod' = prod /\ green' = green /\ tag' = tag /\ pushes' = pushes
    BY <1>3 DEF PrepareClone, IInv, OwnsClone, CloneStages, forge, record
  <2>4. OwnsClone'
    BY <2>2, <2>3 DEF IInv, OwnsClone
  <2>5. NotReleasedYet'
    BY <2>2, <2>3, <2>4 DEF NotReleasedYet, OwnsClone, CloneStages
  <2>6. GoesOnWithRelease' /\ ReleaseIsRecent' /\ Safe'
    BY <2>2, <2>3 DEF IInv, GoesOnWithRelease, ReleaseIsRecent, Safe, OneReleaseCommit,
       PublishedIsGreen, CompletedIsPublished, IsRelease
  <2> QED BY <2>4, <2>5, <2>6 DEF IInv
<1>4. ASSUME NEW c \in Calls, IsAlreadyPublished(c) PROVE IInv'
  <2>1. PICK s \in {"close", "detect"} : Goto(c, s) /\ (s = "close" => tag # 0)
    BY <1>4 DEF IsAlreadyPublished
  <2> QED
    BY <1>4, <2>1, QuietStep
    DEF IsAlreadyPublished, IInv, OwnsClone, CloneStages, Safe, CompletedIsPublished, record
<1>5. ASSUME NEW c \in Calls, ReleaseCommitSha(c) PROVE IInv'
  <2>1. CASE ReleaseCommits = {}
    <3>1. \A i \in 1..clone.base : ~IsRelease(i)
      BY <2>1, WindowShows
    <3> QED
      BY <1>5, <2>1, <3>1, QuietStep
      DEF ReleaseCommitSha, IInv, OwnsClone, CloneStages, Safe, CompletedIsPublished, record
  <2>2. CASE ReleaseCommits # {}
    <3>1. PICK i \in ReleaseCommits : sha' = [sha EXCEPT ![c] = i]
      BY <1>5, <2>2 DEF ReleaseCommitSha
    <3>2. IsRelease(i) /\ sha'[c] = i /\ \A d \in Calls \ {c} : sha'[d] = sha[d]
      BY <3>1 DEF ReleaseCommits, TypeOK
    <3> QED
      BY <1>5, <2>2, <3>2, QuietStep
      DEF ReleaseCommitSha, IInv, OwnsClone, CloneStages, Safe, CompletedIsPublished, record
  <2> QED BY <2>1, <2>2
<1>6. ASSUME NEW c \in Calls, EditFiles(c) PROVE IInv'
  <2>1. PICK s \in {"gate", "unlock"} : Goto(c, s)
    BY <1>6 DEF EditFiles, GotoOrFail
  <2>2. \A d \in Calls : pc'[d] = IF d = c THEN s ELSE pc[d]
    BY <2>1 DEF Goto, TypeOK
  <2>3. /\ pc[c] = "edit" /\ clone'.base = clone.base
        /\ lock' = lock /\ sha' = sha /\ row' = row
        /\ prod' = prod /\ green' = green /\ tag' = tag /\ pushes' = pushes
    BY <1>6 DEF EditFiles, TypeOK, forge, record
  <2>4. OwnsClone'
    BY <2>2, <2>3 DEF IInv, OwnsClone, CloneStages
  <2>5. NotReleasedYet'
    BY <2>2, <2>3 DEF IInv, NotReleasedYet, IsRelease
  <2>6. GoesOnWithRelease' /\ ReleaseIsRecent' /\ Safe'
    BY <2>2, <2>3 DEF IInv, GoesOnWithRelease, ReleaseIsRecent, Safe, OneReleaseCommit,
       PublishedIsGreen, CompletedIsPublished, IsRelease
  <2> QED BY <2>4, <2>5, <2>6 DEF IInv
<1>7. ASSUME NEW c \in Calls, RunGate(c) PROVE IInv'
  <2>1. PICK s \in {"push", "unlock"} : Goto(c, s)
    BY <1>7 DEF RunGate, GotoOrFail
  <2> QED
    BY <1>7, <2>1, QuietStep
    DEF RunGate, IInv, OwnsClone, NotReleasedYet, CloneStages, Safe, CompletedIsPublished, record
<1>8. ASSUME NEW c \in Calls, CommitAndPush(c) PROVE IInv'
  <2>1. CASE Goto(c, "unlock") /\ UNCHANGED <<prod, clone, sha>>
    BY <1>8, <2>1, QuietStep DEF CommitAndPush, forge, IInv, OwnsClone, CloneStages, Safe, CompletedIsPublished, record
  <2>2. CASE /\ clone.base = Len(prod) /\ prod' = Append(prod, "release")
             /\ clone' = [base |-> Len(prod) + 1, edited |-> FALSE]
             /\ sha' = [sha EXCEPT ![c] = Len(prod) + 1]
             /\ GotoOrFail(c, "ci")
    <3>1. PICK s \in {"ci", "unlock"} : Goto(c, s)
      BY <2>2 DEF GotoOrFail
    <3>2. /\ \A d \in Calls : pc'[d] = IF d = c THEN s ELSE pc[d]
          /\ \A d \in Calls : sha'[d] = IF d = c THEN Len(prod) + 1 ELSE sha[d]
      BY <2>2, <3>1 DEF Goto, TypeOK
    <3>3. /\ pc[c] = "push" /\ lock = c /\ lock' = lock /\ row' = row
          /\ green' = green /\ tag' = tag /\ pushes' = pushes
      BY <1>8 DEF CommitAndPush, IInv, OwnsClone, CloneStages, record
    <3>4. \A d \in Calls : pc'[d] \notin CloneStages
      BY <3>1, <3>2, <3>3 DEF IInv, OwnsClone, CloneStages
    <3>5. OwnsClone' /\ NotReleasedYet'
      BY <3>4 DEF OwnsClone, NotReleasedYet, CloneStages
    <3>6. /\ \A i : IsRelease(i) => IsRelease(i)'
          /\ \A i \in 1..Len(prod) : IsRelease(i)' => IsRelease(i)
          /\ DOMAIN prod' = 1..(Len(prod) + 1) /\ Len(prod') = Len(prod) + 1
          /\ DOMAIN prod = 1..Len(prod) /\ Len(prod) \in Nat
          /\ \A i : i = Len(prod) + 1 => IsRelease(i)'
      BY <2>2, Persists
    <3>7. ASSUME NEW d \in Calls, sha'[d] = Len(prod) + 1 PROVE IsRelease(sha[d])'
      BY <3>6, <3>7
    <3>8. \A i \in 1..Len(prod) : ~IsRelease(i)
      BY <2>2, <3>3 DEF IInv, NotReleasedYet
    <3>9. GoesOnWithRelease'
      <4>1. ASSUME NEW d \in Calls
            PROVE  /\ pc'[d] \in {"ci", "publish"} => IsRelease(sha[d])'
                   /\ pc'[d] = "publish" => sha'[d] \in green'
                   /\ pc'[d] = "close" => tag' # 0
        <5>1. CASE d = c
          <6>1. sha'[d] = Len(prod) + 1 /\ pc'[d] = s
            BY <5>1, <3>2
          <6> QED BY <3>1, <3>7, <6>1
        <5>2. CASE d # c
          <6>1. sha'[d] = sha[d] /\ pc'[d] = pc[d]
            BY <5>2, <3>2
          <6> QED BY <3>3, <3>6, <6>1 DEF IInv, GoesOnWithRelease, IsRelease
        <5> QED BY <5>1, <5>2
      <4> QED BY <4>1 DEF GoesOnWithRelease
    <3>10. \A i \in DOMAIN prod' : IsRelease(i)' => i = Len(prod) + 1
      BY <3>6, <3>8
    <3>11. ReleaseIsRecent' /\ OneReleaseCommit'
      BY <3>3, <3>6, <3>10 DEF IInv, ReleaseIsRecent, OneReleaseCommit, TypeOK, IsRelease
    <3>12. PublishedIsGreen' /\ CompletedIsPublished'
      BY <3>3, <3>6 DEF IInv, Safe, PublishedIsGreen, CompletedIsPublished, TypeOK
    <3> QED BY <3>5, <3>9, <3>11, <3>12 DEF IInv, Safe
  <2> QED BY <1>8, <2>1, <2>2 DEF CommitAndPush
<1>9. ASSUME NEW c \in Calls, WaitForCi(c) PROVE IInv'
  <2>1. PICK s \in {"publish", "unlock"} : Goto(c, s) /\ (s = "publish" => sha[c] \in green)
    BY <1>9 DEF WaitForCi
  <2>2. IsRelease(sha[c])
    BY <1>9 DEF WaitForCi, IInv, GoesOnWithRelease
  <2>3. sha' = sha /\ green' = green /\ (IsRelease(sha[c]) => IsRelease(sha'[c]))
    BY <1>9 DEF WaitForCi, forge
  <2> QED
    BY <1>9, <2>1, <2>2, <2>3, QuietStep DEF WaitForCi, IInv, OwnsClone, CloneStages, Safe, CompletedIsPublished, record
<1>10. ASSUME NEW c \in Calls, PublishRelease(c) PROVE IInv'
  <2>1. CASE Goto(c, "unlock") /\ UNCHANGED tag
    BY <1>10, <2>1, QuietStep DEF PublishRelease, forge, IInv, OwnsClone, CloneStages, Safe, CompletedIsPublished, record
  <2>2. CASE tag = 0 /\ tag' = Len(prod) /\ GotoOrFail(c, "close")
    <3>1. PICK s \in {"close", "unlock"} : Goto(c, s)
      BY <2>2 DEF GotoOrFail
    <3>2. \A d \in Calls : pc'[d] = IF d = c THEN s ELSE pc[d]
      BY <3>1 DEF Goto, TypeOK
    <3>3. /\ pc[c] = "publish" /\ lock' = lock /\ row' = row /\ sha' = sha
          /\ prod' = prod /\ green' = green /\ pushes' = pushes /\ clone' = clone
      BY <1>10 DEF PublishRelease, record
    <3>4. sha[c] \in 1..Len(prod) /\ IsRelease(sha[c]) /\ sha[c] \in green
      BY <3>3 DEF IInv, GoesOnWithRelease, IsRelease, TypeOK
    <3>5. tag' # 0
      BY <2>2, <3>4 DEF TypeOK
    <3>6. PublishedIsGreen'
      BY <2>2, <3>3, <3>4 DEF PublishedIsGreen, IsRelease
    <3>7. OwnsClone' /\ NotReleasedYet'
      BY <3>2, <3>3 DEF IInv, OwnsClone, NotReleasedYet, CloneStages, IsRelease
    <3>8. GoesOnWithRelease'
      BY <3>2, <3>3, <3>5 DEF IInv, GoesOnWithRelease, IsRelease
    <3>9. ReleaseIsRecent' /\ OneReleaseCommit' /\ CompletedIsPublished'
      BY <3>3, <3>5 DEF IInv, ReleaseIsRecent, Safe, OneReleaseCommit, CompletedIsPublished, IsRelease
    <3> QED BY <3>6, <3>7, <3>8, <3>9 DEF IInv, Safe
  <2> QED BY <1>10, <2>1, <2>2 DEF PublishRelease
<1>11. ASSUME NEW c \in Calls, CloseProposal(c) PROVE IInv'
  <2>1. tag # 0
    BY <1>11 DEF CloseProposal, IInv, GoesOnWithRelease
  <2> QED
    BY <1>11, <2>1, QuietStep DEF CloseProposal, IInv, OwnsClone, CloneStages
<1>12. ASSUME NEW c \in Calls, HeartbeatCancels(c) PROVE IInv'
  BY <1>12, QuietStep DEF HeartbeatCancels, IInv, OwnsClone, CloneStages, Safe, CompletedIsPublished, record
<1>13. ASSUME NEW c \in Calls, RejectCheck(c) PROVE IInv'
  BY <1>13, QuietStep DEF RejectCheck, IInv, OwnsClone, CloneStages, Safe, CompletedIsPublished, record
<1>14. ASSUME NEW c \in Calls, RejectReread(c) PROVE IInv'
  BY <1>14, QuietStep DEF RejectReread, IInv, OwnsClone, CloneStages, Safe, CompletedIsPublished, record
<1>15. ASSUME NEW c \in Calls, RejectFlush(c) PROVE IInv'
  BY <1>15, QuietStep DEF RejectFlush, IInv, OwnsClone, CloneStages, Safe, CompletedIsPublished, record
<1>16. ASSUME NEW c \in Calls, Unlock(c) PROVE IInv'
  BY <1>16, QuietStep DEF Unlock, IInv, OwnsClone, CloneStages, Safe, CompletedIsPublished, record
<1>17. ASSUME NEW c \in Calls, RejectCommit(c) PROVE IInv'
  <2>1. row' = "completed" => row = "completed"
    BY <1>17 DEF RejectCommit
  <2> QED
    BY <1>17, <2>1, QuietStep DEF RejectCommit, IInv, OwnsClone, CloneStages, Safe, CompletedIsPublished
<1>18. ASSUME Expire PROVE IInv'
  <2>1. lock \in Calls /\ pc[lock] \notin CloneStages /\ lock' = Nobody
    BY <1>18, ClonesAreQuick DEF Expire, TypeOK, CloneStages
  <2>2. \A d \in Calls : pc[d] \notin CloneStages
    BY <2>1 DEF IInv, OwnsClone
  <2>3. UNCHANGED <<row, pc, sha, prod, green, tag, pushes, clone>>
    BY <1>18 DEF Expire, forge, record
  <2>4. OwnsClone'
    BY <2>2, <2>3 DEF OwnsClone
  <2> QED
    BY <2>3, <2>4 DEF IInv, NotReleasedYet, GoesOnWithRelease, ReleaseIsRecent, Safe,
       OneReleaseCommit, PublishedIsGreen, CompletedIsPublished, IsRelease
<1>19. CASE RedisToggles \/ UNCHANGED vars
  <2>1. UNCHANGED <<row, lock, pc, sha, prod, green, tag, pushes, clone>>
    BY <1>19 DEF RedisToggles, vars, forge, record
  <2> QED
    BY <2>1 DEF IInv, OwnsClone, NotReleasedYet, GoesOnWithRelease, ReleaseIsRecent, Safe,
       OneReleaseCommit, PublishedIsGreen, CompletedIsPublished, IsRelease
<1>20. ASSUME Restart PROVE IInv'
  <2>1. \A d \in Calls : pc'[d] \in {"idle", "done"}
    BY <1>20 DEF Restart
  <2>2. UNCHANGED <<row, sha, prod, green, tag, pushes, clone>>
    BY <1>20 DEF Restart, forge
  <2>3. OwnsClone' /\ NotReleasedYet' /\ GoesOnWithRelease'
    BY <2>1 DEF OwnsClone, NotReleasedYet, GoesOnWithRelease, CloneStages
  <2> QED
    BY <2>2, <2>3 DEF IInv, ReleaseIsRecent, Safe, OneReleaseCommit, PublishedIsGreen,
       CompletedIsPublished, IsRelease
<1>21. ASSUME OthersPush PROVE IInv'
  <2>1. /\ prod' = Append(prod, "work") /\ pushes' = pushes + 1 /\ pushes < MaxPushes
        /\ UNCHANGED <<row, lock, pc, sha, green, tag, clone>>
    BY <1>21 DEF OthersPush, record
  <2>2. /\ \A i : IsRelease(i) => IsRelease(i)'
        /\ \A i \in 1..Len(prod) : IsRelease(i)' => IsRelease(i)
        /\ \A i : i = Len(prod) + 1 => ~IsRelease(i)'
        /\ DOMAIN prod' = 1..(Len(prod) + 1) /\ Len(prod') = Len(prod) + 1
        /\ DOMAIN prod = 1..Len(prod) /\ Len(prod) \in Nat
    BY <2>1, Persists
  <2>3. OwnsClone'
    BY <2>1 DEF IInv, OwnsClone
  <2>4. NotReleasedYet'
    <3>1. 1..clone.base \subseteq 1..Len(prod)
      BY <2>2 DEF TypeOK
    <3> QED BY <2>1, <2>2, <3>1 DEF IInv, NotReleasedYet
  <2>5. GoesOnWithRelease'
    BY <2>1, <2>2 DEF IInv, GoesOnWithRelease, IsRelease
  <2>6. \A i \in DOMAIN prod' : IsRelease(i)' => i \in DOMAIN prod /\ IsRelease(i)
    BY <2>2
  <2>7. ReleaseIsRecent'
    <3>1. MaxPushes \in Nat /\ pushes \in Nat
      BY BoundsAreNaturals DEF TypeOK
    <3>2. pushes' <= MaxPushes
      BY <2>1, <3>1
    <3>3. ASSUME NEW i \in DOMAIN prod', IsRelease(i)' PROVE Len(prod') <= i + pushes'
      <4>1. i \in DOMAIN prod /\ Len(prod) <= i + pushes
        BY <2>6, <3>3 DEF IInv, ReleaseIsRecent
      <4> QED BY <2>1, <2>2, <3>1, <4>1
    <3> QED BY <3>2, <3>3 DEF ReleaseIsRecent
  <2>8. OneReleaseCommit'
    BY <2>6 DEF IInv, Safe, OneReleaseCommit
  <2>9. PublishedIsGreen' /\ CompletedIsPublished'
    BY <2>1, <2>2 DEF IInv, Safe, PublishedIsGreen, CompletedIsPublished, TypeOK
  <2> QED BY <2>3, <2>4, <2>5, <2>7, <2>8, <2>9 DEF IInv, Safe
<1>22. ASSUME CiSucceeds PROVE IInv'
  <2>1. green \subseteq green' /\ UNCHANGED <<row, lock, pc, sha, prod, tag, pushes, clone>>
    BY <1>22 DEF CiSucceeds, record
  <2> QED
    BY <2>1 DEF IInv, OwnsClone, NotReleasedYet, GoesOnWithRelease, ReleaseIsRecent, Safe,
       OneReleaseCommit, PublishedIsGreen, CompletedIsPublished, IsRelease
<1> QED
  BY <1>1, <1>2, <1>3, <1>4, <1>5, <1>6, <1>7, <1>8, <1>9, <1>10, <1>11, <1>12, <1>13,
     <1>14, <1>15, <1>16, <1>17, <1>18, <1>19, <1>20, <1>21, <1>22
  DEF Next, Step, AcquireForApprove, AcquireForReject

-----------------------------------------------------------------------------
LEMMA Invariance == ASSUME MaxPushes < LogWindow PROVE Spec => []IInv
<1>1. TypeOK /\ IInv /\ [Next]_vars => (TypeOK /\ IInv)'
  BY TypePreserved, Preserved
<1>2. Init => TypeOK
  BY CallsAreDistinct, BoundsAreNaturals DEF Init, TypeOK, Stages
<1> QED
  BY <1>1, <1>2, Initially, PTL DEF Spec

\* While fewer commits than the log window are pushed by others, no retry, crash
\* or lost answer of a release bumps the version a second time
\* (release_executor.py:85).
THEOREM BumpsOnce == ASSUME MaxPushes < LogWindow PROVE Spec => []OneReleaseCommit
<1>1. IInv => OneReleaseCommit
  BY DEF IInv, Safe
<1> QED BY <1>1, Invariance, PTL

\* What carries the version's tag contains the release commit with a green run of
\* its own, whichever of the approves put the tag there (release_executor.py:118).
THEOREM TagsGreen == ASSUME MaxPushes < LogWindow PROVE Spec => []PublishedIsGreen
<1>1. IInv => PublishedIsGreen
  BY DEF IInv, Safe
<1> QED BY <1>1, Invariance, PTL

\* A proposal is COMPLETED only when its version is tagged
\* (release_proposal.py:250).
THEOREM ClosesPublished == ASSUME MaxPushes < LogWindow PROVE Spec => []CompletedIsPublished
<1>1. IInv => CompletedIsPublished
  BY DEF IInv, Safe
<1> QED BY <1>1, Invariance, PTL

-----------------------------------------------------------------------------
(* The release is the one VersionRelease promises.                          *)

LEMMA Commits ==
  ASSUME TypeOK
  PROVE  \A i : i \in ReleaseCommitsOnBranch <=> IsRelease(i)
  BY DEF ReleaseCommitsOnBranch, IsRelease

\* A step that touches none of what the abstract release sees.
LEMMA Unseen ==
  ASSUME UNCHANGED <<prod, green, tag, row>>
  PROVE  UNCHANGED Version!vars
  BY DEF Version!vars, ReleaseCommitsOnBranch, IsRelease

\* All of a call's steps but four are of that kind.
LEMMA StepIsUnseen ==
  ASSUME NEW c \in Calls, Step(c) \/ HeartbeatCancels(c)
  PROVE  \/ UNCHANGED <<prod, green, tag, row>>
         \/ CommitAndPush(c) \/ PublishRelease(c) \/ CloseProposal(c) \/ RejectCommit(c)
<1> USE DEF forge, record
<1>1. CASE Precheck(c) \/ AcquireForApprove(c) \/ RejectCheck(c) \/ AcquireForReject(c)
  BY <1>1 DEF Precheck, AcquireForApprove, RejectCheck, AcquireForReject, Acquire
<1>2. CASE PrepareClone(c) \/ IsAlreadyPublished(c) \/ ReleaseCommitSha(c)
  BY <1>2 DEF PrepareClone, IsAlreadyPublished, ReleaseCommitSha
<1>3. CASE EditFiles(c) \/ RunGate(c) \/ WaitForCi(c) \/ HeartbeatCancels(c)
  BY <1>3 DEF EditFiles, RunGate, WaitForCi, HeartbeatCancels
<1>4. CASE RejectReread(c) \/ RejectFlush(c) \/ Unlock(c)
  BY <1>4 DEF RejectReread, RejectFlush, Unlock
<1> QED BY <1>1, <1>2, <1>3, <1>4 DEF Step

\* The push of a release commit is the first one: its clone held none, and the
\* push is a fast-forward of the clone.
LEMMA PushBumps ==
  ASSUME TypeOK, IInv, NEW c \in Calls, CommitAndPush(c)
  PROVE  Version!Next \/ UNCHANGED <<prod, green, tag, row>>
<1>1. CASE UNCHANGED prod
  BY <1>1 DEF CommitAndPush, record
<1>2. CASE clone.base = Len(prod) /\ prod' = Append(prod, "release")
  <2>1. /\ pc[c] = "push" /\ green' = green /\ tag' = tag /\ row' = row
    BY <1>2 DEF CommitAndPush, record
  <2>2. /\ \A i \in 1..Len(prod) : IsRelease(i)' => IsRelease(i)
        /\ \A i : i = Len(prod) + 1 => IsRelease(i)'
        /\ DOMAIN prod' = 1..(Len(prod) + 1)
        /\ DOMAIN prod = 1..Len(prod) /\ Len(prod) \in Nat
    BY <1>2, Persists
  <2>3. \A i \in 1..Len(prod) : ~IsRelease(i)
    BY <1>2, <2>1 DEF IInv, NotReleasedYet
  <2>4. ReleaseCommitsOnBranch = {}
    BY <2>2, <2>3 DEF ReleaseCommitsOnBranch
  <2>5. ReleaseCommitsOnBranch' = {Len(prod) + 1}
    BY <2>2, <2>3 DEF ReleaseCommitsOnBranch
  <2>6. Len(prod) + 1 \notin green
    BY <2>2 DEF TypeOK
  <2>7. /\ ReleaseCommitsOnBranch \cap green = {}
        /\ ReleaseCommitsOnBranch' \cap green' = {}
    BY <2>1, <2>4, <2>5, <2>6
  <2>8. Version!Bump
    BY <2>1, <2>4, <2>5, <2>7 DEF Version!Bump
  <2> QED BY <2>8 DEF Version!Next
<1> QED BY <1>1, <1>2 DEF CommitAndPush

\* What others push is no release commit.
LEMMA OthersPushUnseen ==
  ASSUME TypeOK, OthersPush
  PROVE  UNCHANGED Version!vars
<1>1. prod' = Append(prod, "work") /\ green' = green /\ tag' = tag /\ row' = row
  BY DEF OthersPush, record
<1>2. /\ \A i : IsRelease(i) => IsRelease(i)'
      /\ \A i \in 1..Len(prod) : IsRelease(i)' => IsRelease(i)
      /\ \A i : i = Len(prod) + 1 => ~IsRelease(i)'
      /\ DOMAIN prod' = 1..(Len(prod) + 1)
      /\ DOMAIN prod = 1..Len(prod) /\ Len(prod) \in Nat
  BY <1>1, Persists
<1>3. ReleaseCommitsOnBranch' = ReleaseCommitsOnBranch
  <2>1. \A i \in DOMAIN prod' : IsRelease(i)' => i \in DOMAIN prod /\ IsRelease(i)
    BY <1>2
  <2>2. \A i \in DOMAIN prod : IsRelease(i) => i \in DOMAIN prod' /\ IsRelease(i)'
    BY <1>2
  <2> QED BY <2>1, <2>2 DEF ReleaseCommitsOnBranch
<1> QED BY <1>1, <1>3 DEF Version!vars

LEMMA CiPasses ==
  ASSUME TypeOK, CiSucceeds
  PROVE  [Version!Next]_(Version!vars)
<1> DEFINE commits == ReleaseCommitsOnBranch
<1>1. PICK i \in DOMAIN prod : green' = green \cup {i}
  BY DEF CiSucceeds
<1>2. prod' = prod /\ tag' = tag /\ row' = row
  BY DEF CiSucceeds, record
<1>3. commits' = commits
  BY <1>2 DEF ReleaseCommitsOnBranch, IsRelease
<1> HIDE DEF commits
<1>4. CASE i \in commits
  <2>1. commits' \cap green' = (commits \cap green) \cup {i}
    BY <1>1, <1>3, <1>4
  <2>2. Version!Pass
    BY <1>2, <1>3, <1>4, <2>1 DEF Version!Pass, commits
  <2> QED BY <2>2 DEF Version!Next
<1>5. CASE i \notin commits
  <2>1. commits' \cap green' = commits \cap green
    BY <1>1, <1>3, <1>5
  <2> QED BY <1>2, <1>3, <2>1 DEF Version!vars, commits
<1> QED BY <1>4, <1>5

\* The tag is put on the tip of the branch, behind a release commit that is
\* green: publish is reached with one.
LEMMA PublishTags ==
  ASSUME TypeOK, IInv, NEW c \in Calls, PublishRelease(c)
  PROVE  Version!Next \/ UNCHANGED <<prod, green, tag, row>>
<1>1. prod' = prod /\ green' = green /\ row' = row
  BY DEF PublishRelease, record
<1>2. CASE tag = 0 /\ tag' = Len(prod)
  <2>1. IsRelease(sha[c]) /\ sha[c] \in green
    BY DEF PublishRelease, IInv, GoesOnWithRelease
  <2>2. sha[c] \in 1..Len(prod) /\ Len(prod) \in Nat
    BY <2>1 DEF IsRelease, TypeOK
  <2>3. sha[c] \in ReleaseCommitsOnBranch \cap green
    BY <2>1, Commits
  <2>4. UNCHANGED ReleaseCommitsOnBranch
    BY <1>1 DEF ReleaseCommitsOnBranch, IsRelease
  <2>5. sha[c] <= tag' /\ tag' # 0
    BY <1>2, <2>2
  <2>6. Version!Publish
    BY <1>1, <1>2, <2>3, <2>4, <2>5 DEF Version!Publish
  <2> QED BY <2>6 DEF Version!Next
<1>3. CASE UNCHANGED tag
  BY <1>1, <1>3
<1> QED BY <1>2, <1>3 DEF PublishRelease

\* While fewer commits than the log window are pushed by others, the retries of
\* a release, its crashes and lost answers included, make one release of it
\* (release_executor.py:77, "Orchestrate a fail-closed release").
THEOREM ImplementsVersionRelease ==
  ASSUME MaxPushes < LogWindow
  PROVE  Spec => ReleasesVersionOnce
<1>1. Init => Version!Init
  BY DEF Init, Version!Init, ReleaseCommitsOnBranch, IsRelease
<1>2. ASSUME TypeOK, IInv, [Next]_vars
      PROVE  [Version!Next]_(Version!vars)
  <2>1. CASE UNCHANGED <<prod, green, tag, row>>
    BY <2>1, Unseen
  <2>2. ASSUME NEW c \in Calls, CommitAndPush(c)
        PROVE  [Version!Next]_(Version!vars)
    BY <1>2, <2>1, <2>2, PushBumps
  <2>3. ASSUME NEW c \in Calls, PublishRelease(c)
        PROVE  [Version!Next]_(Version!vars)
    BY <1>2, <2>1, <2>3, PublishTags
  <2>4. ASSUME NEW c \in Calls, CloseProposal(c)
        PROVE  [Version!Next]_(Version!vars)
    <3>1. tag # 0
      BY <1>2, <2>4 DEF CloseProposal, IInv, GoesOnWithRelease
    <3>2. UNCHANGED <<ReleaseCommitsOnBranch, green, tag>> /\ row' \in {"completed", row}
      BY <2>4 DEF CloseProposal, forge, ReleaseCommitsOnBranch, IsRelease
    <3> QED BY <3>1, <3>2 DEF Version!Next, Version!Close, Version!vars
  <2>5. ASSUME NEW c \in Calls, RejectCommit(c)
        PROVE  [Version!Next]_(Version!vars)
    <3>1. UNCHANGED <<ReleaseCommitsOnBranch, green, tag>> /\ row' \in {"cancelled", row}
      BY <2>5 DEF RejectCommit, forge, ReleaseCommitsOnBranch, IsRelease
    <3> QED BY <3>1 DEF Version!Next, Version!Decline, Version!vars
  <2>6. CASE Expire \/ RedisToggles \/ Restart \/ UNCHANGED vars
    BY <2>1, <2>6 DEF Expire, RedisToggles, Restart, vars, forge, record
  <2>7. CASE OthersPush
    BY <1>2, <2>7, OthersPushUnseen
  <2>8. CASE CiSucceeds
    BY <1>2, <2>8, CiPasses
  <2>9. ASSUME NEW c \in Calls, Step(c) \/ HeartbeatCancels(c)
        PROVE  [Version!Next]_(Version!vars)
    BY <2>1, <2>2, <2>3, <2>4, <2>5, <2>9, StepIsUnseen
  <2> QED BY <1>2, <2>6, <2>7, <2>8, <2>9 DEF Next
<1>3. Spec => []TypeOK
  BY TypeCorrect
<1> QED
  BY <1>1, <1>2, <1>3, Invariance, PTL DEF Spec, ReleasesVersionOnce, Version!Spec
=============================================================================
