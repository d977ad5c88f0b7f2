--------------------------- MODULE MCAppOperations ---------------------------
(* Instances of AppOperations for TLC: two releases, the single-chart        *)
(* operations on one of them, and two bundles: one with a skip, which        *)
(* succeeds when the first release is absent and else fails at its last      *)
(* chart; and one that names the first release twice, and so must fail after *)
(* two successes and has two charts to roll back.                            *)
EXTENDS AppOperations, TLC

CONSTANTS r1, r2

Take(r) == [release |-> r, skip |-> FALSE]
Skip(r) == [release |-> r, skip |-> TRUE]
Bundle(list) == [kind |-> "bundle", choices |-> list]

MCSingle  == {[kind |-> k, choices |-> <<Take(r1)>>] : k \in {"install", "upgrade", "uninstall"}}
MCBundles == {Bundle(<<Skip(r1), Take(r2), Take(r1)>>), Bundle(<<Take(r1), Take(r2), Take(r1)>>)}
MCRequests == MCSingle \cup MCBundles

\* A cluster without releases, or with the first one deployed.
MCStored == {[r \in Releases |-> IF r \in there THEN "deployed" ELSE "absent"] : there \in {{}, {r1}}}
==============================================================================
