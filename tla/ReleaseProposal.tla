--------------------------- MODULE ReleaseProposal ---------------------------
(***************************************************************************)
(* One held release proposal, the CEO's approve and reject calls on it,    *)
(* the Redis mutex they share and the release executor an approve runs:    *)
(* services/release_proposal.py and services/release_executor.py.          *)
(*                                                                         *)
(* The forge is the sequence `prod' of commits on the production branch,   *)
(* the commits whose CI is green and the commit the version's tag is on.   *)
(* A call may die at every await; the next approve finds what it left.     *)
(***************************************************************************)
EXTENDS Naturals, Sequences, FiniteSets

CONSTANTS Approves,     \* the approve calls, each dispatched at most once
          Rejects,      \* the reject requests, each sent at most once
          Nobody,       \* the value of a mutex key that is not set
          LogWindow,    \* how many commits release_commit_sha looks back (50)
          MayOutlast,   \* where an execute may stay longer than the key's TTL
          MaxPushes,    \* bound: commits others push to the branch
          MaxRestarts   \* bound: restarts of the orchestrator

Calls == Approves \cup Rejects
CloneStages == {"clone", "tag", "detect", "edit", "gate", "push"}
Executing == (CloneStages \ {"clone"}) \cup {"ci", "publish"}
Stages == CloneStages \cup Executing \cup
          {"idle", "acquire", "close", "reread", "flush", "unlock", "commit", "done"}

ASSUME CallsAreDistinct == Approves \cap Rejects = {} /\ Nobody \notin Calls
ASSUME BoundsAreNaturals == {LogWindow, MaxPushes, MaxRestarts} \subseteq Nat
\* The git commands of a fresh clone are over long before the 50 minutes of the
\* TTL; waiting for CI is what may outlast it.
ASSUME ClonesAreQuick == MayOutlast \subseteq {"ci", "publish"}

VARIABLES row,       \* the proposal's committed status
          wrote,     \* rejects whose CANCELLED is flushed and not committed
          lock,      \* the mutex key: the call whose token it holds
          redis,     \* whether Redis answers
          pc,        \* where each call is
          sha,       \* the release commit an execute goes on with
          prod,      \* the production branch
          green,     \* positions of `prod' whose CI run succeeded
          tag,       \* the position the version's tag is on, 0 for no tag
          clone,     \* the shared release clone: commits fetched, files edited
          pushes, restarts
vars == <<row, wrote, lock, redis, pc, sha, prod, green, tag, clone, pushes, restarts>>
forge == <<prod, green, tag, pushes>>
record == <<row, wrote>>

Init == /\ row = "pending" /\ wrote = {} /\ lock = Nobody /\ redis = TRUE
        /\ pc = [c \in Calls |-> "idle"] /\ sha = [c \in Calls |-> 0]
        /\ prod = <<"work">> /\ green = {} /\ tag = 0
        /\ clone = [base |-> 0, edited |-> FALSE]
        /\ pushes = 0 /\ restarts = 0

IsRelease(i) == i \in DOMAIN prod /\ prod[i] = "release"
Goto(c, stage) == pc' = [pc EXCEPT ![c] = stage]
\* The run goes on at `stage', or fails and leaves through `finally'.
GotoOrFail(c, stage) == \E s \in {stage, "unlock"} : Goto(c, s)
\* PostgreSQL: an UPDATE of the row waits for the transaction that updated it.
RowIsFree == wrote = {}

-----------------------------------------------------------------------------
(* approve(): _approve_precheck reads the row before the mutex is taken.   *)

Precheck(c) ==
  /\ pc[c] = "idle" /\ c \in Approves
  /\ Goto(c, IF row = "pending" THEN "acquire" ELSE "done")
  /\ UNCHANGED <<record, lock, redis, sha, forge, clone, restarts>>

\* SET NX EX. When the answer is lost the key stays set and the call gives up.
Acquire(c, stage) ==
  /\ pc[c] = "acquire"
  /\ \/ /\ redis /\ lock = Nobody /\ lock' = c
        /\ \E s \in {stage, "done"} : Goto(c, s)
     \/ (~redis \/ lock # Nobody) /\ Goto(c, "done") /\ UNCHANGED lock
  /\ UNCHANGED <<record, redis, sha, forge, clone, restarts>>

AcquireForApprove(c) == c \in Approves /\ Acquire(c, "clone")

\* rm -rf of the one directory every execute uses, and a clone of the branch.
PrepareClone(c) ==
  /\ pc[c] = "clone" /\ GotoOrFail(c, "tag")
  /\ clone' = [base |-> Len(prod), edited |-> FALSE]
  /\ UNCHANGED <<record, lock, redis, sha, forge, restarts>>

\* A failed ls-remote reads as "not published".
IsAlreadyPublished(c) ==
  /\ pc[c] = "tag"
  /\ \/ tag # 0 /\ Goto(c, "close")
     \/ Goto(c, "detect")
  /\ UNCHANGED <<record, lock, redis, sha, forge, clone, restarts>>

\* Fault: every retry runs the whole pipeline.
AlwaysFresh(c) ==
  /\ pc[c] = "detect" /\ Goto(c, "edit")
  /\ UNCHANGED <<record, lock, redis, sha, forge, clone, restarts>>

\* The release commit a former run left, among the last LogWindow commits.
ReleaseCommits == {i \in 1..clone.base : IsRelease(i) /\ clone.base < i + LogWindow}

ReleaseCommitSha(c) ==
  /\ pc[c] = "detect"
  /\ IF ReleaseCommits = {}
     THEN Goto(c, "edit") /\ UNCHANGED sha
     ELSE Goto(c, "ci") /\ \E i \in ReleaseCommits : sha' = [sha EXCEPT ![c] = i]
  /\ UNCHANGED <<record, lock, redis, forge, clone, restarts>>

\* promote_env_chain, apply_version_bumps and write_changelog_entry.
EditFiles(c) ==
  /\ pc[c] = "edit" /\ GotoOrFail(c, "gate")
  /\ clone' = [clone EXCEPT !.edited = TRUE]
  /\ UNCHANGED <<record, lock, redis, sha, forge, restarts>>

RunGate(c) ==
  /\ pc[c] = "gate" /\ GotoOrFail(c, "push")
  /\ UNCHANGED <<record, lock, redis, sha, forge, clone, restarts>>

\* The commit is refused when nothing changed, the push when the branch moved;
\* a push cut by its deadline has landed and counts as failed.
CommitAndPush(c) ==
  /\ pc[c] = "push"
  /\ \/ /\ clone.edited /\ clone.base = Len(prod)
        /\ prod' = Append(prod, "release")
        /\ clone' = [base |-> Len(prod) + 1, edited |-> FALSE]
        /\ sha' = [sha EXCEPT ![c] = Len(prod) + 1]
        /\ GotoOrFail(c, "ci")
     \/ Goto(c, "unlock") /\ UNCHANGED <<prod, clone, sha>>
  /\ UNCHANGED <<record, lock, redis, green, tag, pushes, restarts>>

\* Fault: any finished run ends the wait.
WaitForAnyCi(c) ==
  /\ pc[c] = "ci" /\ GotoOrFail(c, "publish")
  /\ UNCHANGED <<record, lock, redis, sha, forge, clone, restarts>>

WaitForCi(c) ==
  /\ pc[c] = "ci"
  /\ \/ sha[c] \in green /\ Goto(c, "publish")
     \/ Goto(c, "unlock")
  /\ UNCHANGED <<record, lock, redis, sha, forge, clone, restarts>>

\* Fault: a status other than 201 is taken for success.
PublishUnanswered(c) ==
  /\ pc[c] = "publish" /\ Goto(c, "close") /\ tag' \in {tag, Len(prod)}
  /\ UNCHANGED <<record, lock, redis, sha, prod, green, pushes, clone, restarts>>

\* Fault: the tag names a commit that is not on the branch yet.
PublishAhead(c) ==
  /\ pc[c] = "publish" /\ Goto(c, "close") /\ tag' = Len(prod) + 1
  /\ UNCHANGED <<record, lock, redis, sha, prod, green, pushes, clone, restarts>>

\* The forge puts the tag on the tip of the branch; it refuses a second release
\* of the tag; an answer that is lost counts as a failure.
PublishRelease(c) ==
  /\ pc[c] = "publish"
  /\ \/ tag = 0 /\ tag' = Len(prod) /\ GotoOrFail(c, "close")
     \/ Goto(c, "unlock") /\ UNCHANGED tag
  /\ UNCHANGED <<record, lock, redis, sha, prod, green, pushes, clone, restarts>>

\* COMPLETED is committed while the mutex is held. A failed commit rolls back.
CloseProposal(c) ==
  /\ pc[c] = "close" /\ Goto(c, "unlock")
  /\ \/ RowIsFree /\ row' = "completed"
     \/ UNCHANGED row
  /\ UNCHANGED <<wrote, lock, redis, sha, forge, clone, restarts>>

\* The heartbeat finds the key no longer the execute's own and cancels it.
HeartbeatCancels(c) ==
  /\ pc[c] \in Executing /\ redis /\ lock # c /\ Goto(c, "unlock")
  /\ UNCHANGED <<record, lock, redis, sha, forge, clone, restarts>>

-----------------------------------------------------------------------------
(* reject(): checks, takes the mutex, reads again, flushes CANCELLED and   *)
(* gives the mutex back; the route commits afterwards.                     *)

RejectCheck(c) ==
  /\ pc[c] = "idle" /\ c \in Rejects
  /\ Goto(c, IF row = "completed" THEN "done" ELSE "acquire")
  /\ UNCHANGED <<record, lock, redis, sha, forge, clone, restarts>>

AcquireForReject(c) == c \in Rejects /\ Acquire(c, "reread")

RejectReread(c) ==
  /\ pc[c] = "reread" /\ Goto(c, IF row = "completed" THEN "unlock" ELSE "flush")
  /\ UNCHANGED <<record, lock, redis, sha, forge, clone, restarts>>

RejectFlush(c) ==
  /\ pc[c] = "flush" /\ RowIsFree /\ wrote' = {c} /\ Goto(c, "unlock")
  /\ UNCHANGED <<row, lock, redis, sha, forge, clone, restarts>>

\* The compare-and-delete of both finally clauses; without Redis it is skipped.
Unlock(c) ==
  /\ pc[c] = "unlock" /\ Goto(c, IF c \in wrote THEN "commit" ELSE "done")
  /\ lock' = IF redis /\ lock = c THEN Nobody ELSE lock
  /\ UNCHANGED <<record, redis, sha, forge, clone, restarts>>

RejectCommit(c) ==
  /\ pc[c] = "commit" /\ Goto(c, "done") /\ wrote' = {}
  /\ row' \in {"cancelled", row}
  /\ UNCHANGED <<lock, redis, sha, forge, clone, restarts>>

-----------------------------------------------------------------------------
(* The surroundings.                                                       *)

\* Fault: SET NX without EX.
NoExpiry == FALSE /\ UNCHANGED vars

\* The TTL runs out: of a key nobody renews, or during an outage of Redis.
Expire ==
  /\ lock # Nobody /\ lock' = Nobody
  /\ \/ pc[lock] \in {"unlock", "commit", "done"}
     \/ ~redis /\ pc[lock] \in MayOutlast
  /\ UNCHANGED <<record, redis, pc, sha, forge, clone, restarts>>

RedisToggles ==
  redis' = ~redis /\ UNCHANGED <<record, lock, pc, sha, forge, clone, restarts>>

\* The process dies with its calls. sweep_orphan_release_locks deletes the keys
\* of calls that are not in flight, none after a restart, if Redis answers.
Restart ==
  /\ restarts < MaxRestarts /\ restarts' = restarts + 1
  /\ pc' = [c \in Calls |-> IF pc[c] = "idle" THEN "idle" ELSE "done"]
  /\ wrote' = {}
  /\ lock' = IF redis THEN Nobody ELSE lock
  /\ UNCHANGED <<row, redis, sha, forge, clone>>

OthersPush ==
  /\ pushes < MaxPushes /\ pushes' = pushes + 1 /\ prod' = Append(prod, "work")
  /\ UNCHANGED <<record, lock, redis, pc, sha, green, tag, clone, restarts>>

CiSucceeds ==
  /\ \E i \in DOMAIN prod \ green : green' = green \cup {i}
  /\ UNCHANGED <<record, lock, redis, pc, sha, prod, tag, pushes, clone, restarts>>

Step(c) ==
  \/ Precheck(c) \/ AcquireForApprove(c) \/ PrepareClone(c)
  \/ IsAlreadyPublished(c) \/ ReleaseCommitSha(c) \/ EditFiles(c) \/ RunGate(c)
  \/ CommitAndPush(c) \/ WaitForCi(c) \/ PublishRelease(c) \/ CloseProposal(c)
  \/ RejectCheck(c) \/ AcquireForReject(c) \/ RejectReread(c) \/ RejectFlush(c)
  \/ Unlock(c) \/ RejectCommit(c)

Next == \/ \E c \in Calls : Step(c) \/ HeartbeatCancels(c)
        \/ Expire \/ RedisToggles \/ Restart \/ OthersPush \/ CiSucceeds

Spec == Init /\ [][Next]_vars

\* The event loop resumes every call that can go on (they all carry deadlines),
\* and Redis expires keys; nothing is promised about the forge or the CEO.
FairSpec == Spec /\ (\A c \in Calls : WF_vars(pc[c] # "idle" /\ Step(c))) /\ WF_vars(Expire)

-----------------------------------------------------------------------------
(* Properties.                                                             *)

TypeOK ==
  /\ row \in {"pending", "completed", "cancelled"} /\ wrote \subseteq Calls
  /\ lock \in Calls \cup {Nobody} /\ redis \in BOOLEAN
  /\ pc \in [Calls -> Stages] /\ sha \in [Calls -> Nat]
  /\ prod \in Seq({"work", "release"}) /\ green \subseteq DOMAIN prod
  /\ tag \in Nat /\ tag <= Len(prod)
  /\ clone \in [base : Nat, edited : BOOLEAN] /\ clone.base <= Len(prod)
  /\ pushes \in Nat /\ restarts \in Nat

\* However often the CEO retries after a failure, a crash or a lost answer, the
\* version is bumped once: the branch never gets a second release commit and
\* the changelog no second entry (release_executor.py:85, the half-landed
\* retry).
OneReleaseCommit == \A i, j \in DOMAIN prod : IsRelease(i) /\ IsRelease(j) => i = j

\* Fail-closed: what is tagged contains the release commit, and that commit's
\* own CI run was green when the release was published.
PublishedIsGreen == tag # 0 => \E i \in 1..tag : IsRelease(i) /\ i \in green

\* The proposal is closed as published only once the tag is there, whichever
\* run of whichever approve put it there.
CompletedIsPublished == row = "completed" => tag # 0

\* Step by step the release is the one VersionRelease promises: the commit is
\* made once, the tag is put on once, after that commit's green run, and is never
\* moved, and each COMPLETED is written over a tag (release_executor.py:77).
ReleaseCommitsOnBranch == {i \in DOMAIN prod : IsRelease(i)}

Version == INSTANCE VersionRelease WITH
             commits <- ReleaseCommitsOnBranch,
             passed  <- ReleaseCommitsOnBranch \cap green,
             status  <- row

ReleasesVersionOnce == Version!Spec

\* No crash, outage or lost answer wedges the proposal: the mutex is free again
\* and again (release_proposal.py:591, the sweep, and the TTL behind it).
LockIsFreed == []<>(lock = Nobody)

\* A reject stands: once CANCELLED is committed no approve publishes the version
\* or closes the proposal as published. approve "re-running the executor over a
\* stale report the CEO explicitly declined" is what its precheck is there for
\* (release_proposal.py:128).
RejectStands == [][row = "cancelled" => row' = "cancelled" /\ tag' = tag]_vars
=============================================================================
