\* One page, two connections, five events of which the hub keeps three.
CONSTANTS
    Viewers = {v1}
    Sessions = {s1, s2}
    NoSession = NoSession
    LastEvent = 5
    HistoryCap = 3
    Buf = 2
    MaxRestarts = 1
SPECIFICATION FairSpec
INVARIANTS
    SessionInOrder
    NothingSlipsThrough
PROPERTY ViewerSeesEnd
\* The log ends.
CHECK_DEADLOCK FALSE
