----------------------------- MODULE MCConfigForm -----------------------------
(* Instances of ConfigForm for TLC.                                          *)
EXTENDS ConfigForm, TLC

\* Secrets are as good as one another.
SecretSymmetry == Permutations(Typed)
==============================================================================
