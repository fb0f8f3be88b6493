------------------------- MODULE MCTaskLifecycle -------------------------
(* Instances of TaskLifecycle for TLC: one task with the agents' own verbs *)
(* only, and one with every modelled path.                                 *)
EXTENDS TaskLifecycleInv, TLC

EveryPath == OptionalPaths

(* Two developers differ in name only: nothing chooses between them.       *)
DevsInterchangeable == Permutations(Devs)
=============================================================================
