------------------------- MODULE MCClusterLifecycle --------------------------
(* Instances of ClusterLifecycle for TLC.                                   *)
EXTENDS ClusterLifecycle, TLC

\* Requests are interchangeable: which one is a destroy is chosen in Init.
OpSymmetry == Permutations(Ops)
==============================================================================
