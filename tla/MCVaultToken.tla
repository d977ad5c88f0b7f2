---------------------------- MODULE MCVaultToken -----------------------------
(* Instances of VaultToken for TLC.                                          *)
EXTENDS VaultToken
==============================================================================
