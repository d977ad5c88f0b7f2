\* Two helm operations, one reader of the release list, one restart.
CONSTANTS
    r1 = r1
    r2 = r2
    Releases = {r1, r2}
    Requests <- MCRequests
    Stored <- MCStored
    Ops = {o1, o2}
    NoOp = NoOp
    Readers = {d1}
    NoList = NoList
    MaxCrashes = 1
SPECIFICATION FairSpec
INVARIANTS
    SuccessIsReal
    FailedBundleRestores
    RunningInstallExplained
PROPERTIES
    LockReleased
\* The bounded set of requests runs out.
CHECK_DEADLOCK FALSE
