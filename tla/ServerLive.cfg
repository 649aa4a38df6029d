SPECIFICATION FairSpec
CONSTANTS
    n1 = n1
    n2 = n2
    me = me
    None = None
    Nodes = {n1, n2, me}
    Self = me
    Table = {n1, n2}
    StaticNodes = {n1}
    TrustedNodes = {n2}
    AddedNodes = {n2}
    Callers = {n1}
    PeerLimits = {1}
    MaxResults = 1
    MaxActiveDialTasks = 1
    MaxPendingPeers = 1
PROPERTIES StaticRedialled StopReturns
CHECK_DEADLOCK FALSE
