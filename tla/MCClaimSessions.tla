------------------------- MODULE MCClaimSessions -------------------------
(* ClaimSessions on a small instance: agents, tasks and requests are each  *)
(* interchangeable.                                                        *)
EXTENDS ClaimSessions, TLC

Interchangeable == Permutations(Tasks) \cup Permutations(Devs)
                     \cup Permutations(QAs) \cup Permutations(Calls)
=============================================================================
