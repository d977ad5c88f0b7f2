--------------------------- MODULE MCAuthSessions ----------------------------
(* Instances of AuthSessions for TLC.                                        *)
EXTENDS AuthSessions, TLC

\* Requests are interchangeable, for what each asks for is chosen when it
\* arrives, and so are passwords, which are only compared.
AuthSymmetry == Permutations(Requests) \cup Permutations(Passwords)
==============================================================================
