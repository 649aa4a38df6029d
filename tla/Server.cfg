SPECIFICATION Spec
CONSTANTS
    n1 = n1
    n2 = n2
    me = me
    None = None
    Nodes = {n1, n2, me}
    Self = me
    Table = {n1, n2}
    StaticNodes = {}
    TrustedNodes = {n2}
    AddedNodes = {n1}
    Callers = {n1, n2}
    PeerLimits = {1, 2}
    MaxResults = 2
    MaxActiveDialTasks = 1
    MaxPendingPeers = 1
INVARIANT DialsLimited
PROPERTY PeersAdmitted
CHECK_DEADLOCK FALSE
