\* Two requests of any kind, three certificates, one restart.
CONSTANTS
    Ops = {o1, o2}
    Kinds = {"edit", "replace", "kubeconfig", "join_token", "deploy", "destroy", "cascade", "forget"}
    Earlier = Earlier
    NoOne = NoOne
    MaxCerts = 3
    MaxMissed = 1
    MaxCrashes = 1
SYMMETRY OpSymmetry
SPECIFICATION Spec
INVARIANTS
    TypeOK
    NoDrift
    InitializedIsWhole
    ReadyAnswers
    ServedIsStored
    NoLeftovers
PROPERTY KeysKept
\* The bounded set of requests runs out.
CHECK_DEADLOCK FALSE
