---------------------------- MODULE VersionRelease ----------------------------
(***************************************************************************)
(* What approving a release promises, however often it is retried: one     *)
(* release commit, one tag, put on after that commit's own CI run was      *)
(* green, and never moved; and "completed" is written only over a tag.     *)
(***************************************************************************)
EXTENDS Naturals

VARIABLES
  commits,   \* positions of the version's release commits on the branch
  passed,    \* those of them whose CI run was green
  tag,       \* the position of the version's tag, 0 for none
  status     \* of the proposal

vars == <<commits, passed, tag, status>>

Init == commits = {} /\ passed = {} /\ tag = 0 /\ status = "pending"

Bump ==
  /\ commits = {}
  /\ \E i \in commits' : commits' = {i}
  /\ UNCHANGED <<passed, tag, status>>

Pass ==
  /\ \E i \in commits : passed' = passed \cup {i}
  /\ UNCHANGED <<commits, tag, status>>

Publish ==
  /\ tag = 0 /\ tag' # 0
  /\ \E i \in passed : i <= tag'
  /\ UNCHANGED <<commits, passed, status>>

Close == tag # 0 /\ status' = "completed" /\ UNCHANGED <<commits, passed, tag>>

(* The CEO may decline at any time, a release under way not excepted.      *)
Decline == status' = "cancelled" /\ UNCHANGED <<commits, passed, tag>>

Next == Bump \/ Pass \/ Publish \/ Close \/ Decline

Spec == Init /\ [][Next]_vars
=============================================================================
