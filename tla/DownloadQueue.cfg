SPECIFICATION Spec
CONSTANTS
    q1 = q1
    q2 = q2
    h1 = h1
    h2 = h2
    h3 = h3
    f3 = f3
    None = None
    Peers = {q1, q2}
    Headers <- MCHeaders
    Number <- MCNumber
    Parent <- MCParent
    Batches <- MCBatches
    Empty <- MCEmpty
    Syncs <- MCSyncs
    PathLength = 2
    BlockCacheLimit = 2
    ForceVerify = 1
    Capacities = {2}
    MaxCycles = 2
    MaxFailures = 1
SYMMETRY Symmetry
INVARIANTS QueueConsistent DeliveredComplete
PROPERTIES DeliversInOrder
CHECK_DEADLOCK FALSE
