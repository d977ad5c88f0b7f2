-------------------------- MODULE MCClusterSecrets ---------------------------
(* Instances of ClusterSecrets for TLC.  No property singles a request out. *)
EXTENDS ClusterSecrets, TLC

OpSymmetry == Permutations(Ops)
==============================================================================
