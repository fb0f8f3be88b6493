--------------------------- MODULE MCCollisionDag ---------------------------
(***************************************************************************)
(* The surfaces the instances of CollisionDag declare.                     *)
(***************************************************************************)
EXTENDS CollisionDag, TLC

Surface(files, migrates, shared) ==
  [files |-> files, adds_migration |-> migrates, touches_shared |-> shared]

\* No surface, a migration that touches a file, and a shared one that does.
MCSurfaces == {Surface({}, FALSE, FALSE), Surface({"f"}, TRUE, FALSE), Surface({"f"}, TRUE, TRUE)}
\* Subtasks that declare nothing: only their lane orders them.
MCUndeclared == {Surface({}, FALSE, FALSE)}
\* Developers are only compared with each other.
DevSymmetry == Permutations(Devs)
=============================================================================
