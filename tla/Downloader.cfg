SPECIFICATION FairSpec
CONSTANTS
    q1 = q1
    q2 = q2
    h1 = h1
    h2 = h2
    h3 = h3
    None = None
    Peers = {q1, q2}
    Master = q1
    Fetchers = {"body"}
    Headers <- MCHeaders
    Number <- MCNumber
    Parent <- MCParent
    Batches <- MCBatches
    Empty <- MCEmpty
    Syncs <- MCSyncs
    PathLength = 1
    BlockCacheLimit = 2
    ForceVerify = 1
    MaxQueuedHeaders = 3
    Capacities = {2}
    MaxCycles = 1
    MaxFailures = 1
INVARIANTS  SleepsOnlyIdle CompleteUnlessPeerLeft
 
CHECK_DEADLOCK FALSE
