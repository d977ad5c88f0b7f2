\* One operation and one reader of the release list.
CONSTANTS
    r1 = r1
    r2 = r2
    Releases = {r1, r2}
    Requests <- MCRequests
    Stored <- MCStored
    Ops = {o1}
    NoOp = NoOp
    Readers = {d1}
    NoList = NoList
    MaxCrashes = 0
SPECIFICATION Spec
INVARIANT FreshListAfterOperation
\* The bounded set of requests runs out.
CHECK_DEADLOCK FALSE
