SPECIFICATION FairSpec
CONSTANTS
  a1 = a1
  t0 = t0
  t1 = t1
  u1 = u1
  h0 = h0
  h1 = h1
  h2 = h2
  h3 = h3
  Accounts <- OneAccount
  Txs <- OneTxs
  From <- OneFrom
  Nonce <- OneNonce
  Cost <- OneCost
  Price <- OnePrice
  Heads <- OneHeads
  Genesis = h0
  HeadNonce <- OneHeadNonce
  HeadBalance <- OneHeadBalance
  Admits <- OneAdmits
  Included <- OneIncluded
  Available <- OneAvailable
  Prices = {0, 1}
  Batches <- OneBatches
  MaxQueued = 1
  MaxHeadEvents = 1
INVARIANTS
  OneHome
  PendingValid
PROPERTIES
  
  NothingDueLeft
  JustifiedLoss
  ReorgedReturn
  StalePurged
