SPECIFICATION Spec
CONSTANTS
    q1 = q1
    q2 = q2
    h1 = h1
    h2 = h2
    h3 = h3
    f3 = f3
    None = None
    Peers = {q1, q2}
    Headers <- MCHeaders
    Number <- MCNumber
    Parent <- MCParent
    Batches <- MCBatches
    Empty <- MCEmpty
    Syncs <- MCSyncs
    PathLength = 2
    BlockCacheLimit = 2
    ForceVerify = 1
    Capacities = {1, 2}
    MaxCycles = 1
    MaxFailures = 0
SYMMETRY Symmetry
INVARIANTS SleepsOnlyIdle
CHECK_DEADLOCK FALSE
