\* Two requests of any kind on one cluster, two restarts, fair goroutines.
CONSTANTS
    Clusters = {c1}
    Ops = {o1, o2}
    Kinds = {"deploy", "destroy", "upgrade", "cascade", "forget", "initialize", "app"}
    NoOp = NoOp
    MaxCrashes = 2
SPECIFICATION FairSpec
INVARIANTS
    LockOwnership
    StatusTellsInfra
    RunningRowExplained
    InFlightExplained
    LatchExplained
    CascadeForgets
PROPERTIES
    TerminalRowsStable
    ImplementsSerialJobs
    RequestsEnd
\* The bounded set of requests runs out.
CHECK_DEADLOCK FALSE
