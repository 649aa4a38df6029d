SPECIFICATION FairSpec
CONSTANTS
    r1 = r1
    r2 = r2
    n1 = n1
    n2 = n2
    n3 = n3
    cd = cd
    NoRoot = NoRoot
    Nodes <- MCNodes
    Roots <- MCRoots
    Refs <- MCRefs
    MaxSyncs = 3
INVARIANTS RequestsConsistent SubtriesStored IdleMeansComplete
PROPERTIES StateCompletes
CHECK_DEADLOCK FALSE
