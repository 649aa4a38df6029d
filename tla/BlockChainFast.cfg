SPECIFICATION Spec
CONSTANTS
    g = g
    a1 = a1
    a2 = a2
    a3 = a3
    b1 = b1
    b2 = b2
    b3 = b3
    d2 = d2
    x = x
    y = y
    z = z
    None = None
    Genesis = g
    Blocks <- Tree
    Parent <- TreeParent
    Number <- TreeNumber
    Td <- TreeTd
    Txs <- TreeTxs
    TxsOf <- TreeTxsOf
    Bad = {d2}
    Lead <- AllPast
    Chains <- NoSeqs
    Mined = {}
    HeaderChains <- Headers
    ReceiptChains <- Receipts
    Pivots = {b2}
    MaxRewinds = 1
    MaxRollbacks = 1
    MaxCrashes = 1
    MaxUpsets = 1
INVARIANTS HeadersCanonical FastHeadComplete HeadersHaveTd
