SPECIFICATION FairSpec
CONSTANTS
    p62 = p62
    p61 = p61
    a1 = a1
    a2 = a2
    c1 = c1
    g = g
    x = x
    None = None
    Peers = {p62, p61}
    Peers61 = {p61}
    Hashes = {a1, a2, c1}
    Genesis = g
    Number <- BlockNumber
    Parent <- BlockParent
    Body <- BlockBody
    Invalid = {c1}
    Claims = {0, 1, 2}
    HashLimit = 1
    BlockLimit = 1
    MaxUncleDist = 0
    MaxQueueDist = 2
    MaxGossip = 2
INVARIANTS OneImport Bookkeeping DropsJustified
PROPERTY AnnouncesProcessed
