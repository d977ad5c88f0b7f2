---------------------------- MODULE MCChartRepos -----------------------------
(* Two clusters that both know a repository x, at different addresses, or do *)
(* not know it yet, and the factory repository t of the ingress controller.  *)
(* The name of x ends in that of t, as in "my-traefik" and "traefik".        *)
EXTENDS ChartRepos, TLC

CONSTANTS c1, c2, x, t, u1, u2, ut

MCFactory == [n \in Names |-> IF n = t THEN ut ELSE NoUrl]

\* A search for t lists x as well, wherever x leads.
MCMatches == {<<n, m, u>> \in Names \X Names \X Urls : m = n \/ (n = t /\ m = x)}

Row(ux, vt) == [n \in Names |-> IF n = x THEN ux ELSE vt]

\* The second cluster has a mirror of the factory repository, or was made
\* before there was one.
MCStored == {[c \in Clusters |-> IF c = c1 THEN Row(ux, ut) ELSE Row(u2, vt)] :
                ux \in {u1, NoUrl}, vt \in {u2, NoUrl}}

Ask(k, c, n, u) == [kind |-> k, cluster |-> c, name |-> n, url |-> u]

MCRequests == {Ask("add", c1, x, u1), Ask("add", c2, x, u1), Ask("remove", c1, x, u1),
               Ask("remove", c2, x, u1), Ask("remove", c1, t, ut)}
        \cup {Ask("catalog", c, x, u1) : c \in Clusters}
        \cup {Ask("install", c, x, u1) : c \in Clusters}
        \cup {Ask("install", c2, t, ut), Ask("deploy", c1, t, ut)}

OpSymmetry == Permutations(Ops)
==============================================================================
