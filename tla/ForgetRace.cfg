\* A DELETE that read its status before the deploy began.
CONSTANTS
    Clusters = {c1}
    Ops = {o1, o2}
    Kinds = {"deploy", "forget"}
    NoOp = NoOp
    MaxCrashes = 0
SPECIFICATION Spec
SYMMETRY OpSymmetry
INVARIANT NoOrphanedInfra
\* The bounded set of requests runs out.
CHECK_DEADLOCK FALSE
