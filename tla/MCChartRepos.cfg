\* Two requests on two clusters with two repositories, one restart.
CONSTANTS
    c1 = c1
    c2 = c2
    x = x
    t = t
    u1 = u1
    u2 = u2
    ut = ut
    Clusters = {c1, c2}
    Names = {x, t}
    Urls = {u1, u2, ut}
    NoUrl = NoUrl
    NoCatalog = NoCatalog
    Factory <- MCFactory
    Default <- MCFactory
    Matches <- MCMatches
    Stored <- MCStored
    Ops = {o1, o2}
    Requests <- MCRequests
    MaxCrashes = 1
SYMMETRY OpSymmetry
SPECIFICATION Spec
INVARIANTS
    TypeOK
    SourceExplained
    CatalogFresh
\* The bounded set of requests runs out.
CHECK_DEADLOCK FALSE
