------------------------------- MODULE TxPool -------------------------------
(***************************************************************************)
(* The transaction pool (core/transaction_pool.go) on top of the managed   *)
(* nonces of core/state/managed_state.go, together with the part of its    *)
(* environment it reacts to: the head of the chain, which moves while the  *)
(* pool works, and the events the chain posts about it.                    *)
(*                                                                         *)
(* Every operation of the pool runs under pool.mu, but the chain has a     *)
(* lock of its own: pool.currentState() is called several times in one     *)
(* operation and may answer differently each time.  An operation is        *)
(* therefore a sequence of steps, each of which reads the head once;       *)
(* `todo' holds the steps still to do, and pool.mu is free when it is      *)
(* empty.                                                                  *)
(*                                                                         *)
(* A transaction is an element of Txs: From, Nonce, Cost and Price are     *)
(* what the pool reads of it.  A head is an element of Heads; HeadNonce,   *)
(* HeadBalance, Admits, Included and Available are what it determines.     *)
(***************************************************************************)
EXTENDS Naturals, Sequences, FiniteSets

CONSTANTS
    Accounts,       \* senders
    Txs,            \* transactions (with distinct hashes)
    From,           \* Txs -> Accounts
    Nonce,          \* Txs -> Nat
    Cost,           \* Txs -> Nat: value + gas price * gas
    Price,          \* Txs -> Nat: gas price
    Heads,          \* possible heads of the chain
    Genesis,        \* the head at start
    HeadNonce,      \* Heads -> [Accounts -> Nat]
    HeadBalance,    \* Heads -> [Accounts -> Nat]
    Admits,         \* Heads -> SUBSET Txs: signed, sender known, within the gas limit,
                    \* value not negative, enough intrinsic gas
    Included,       \* Heads -> SUBSET Txs: mined in the chain that ends in this head
    Available,      \* heads whose state can be opened
    Prices,         \* values of the miner's gas price
    MaxQueued,      \* maxQueued
    Batches,        \* bound: the sets of transactions peers and the miner name at once
    MaxHeadEvents   \* bound: ChainHeadEvents in flight

ASSUME TxAssumption ==
    /\ From \in [Txs -> Accounts]
    /\ Nonce \in [Txs -> Nat]
    /\ Cost \in [Txs -> Nat]
    /\ Price \in [Txs -> Nat]

ASSUME HeadAssumption ==
    /\ Genesis \in Heads
    /\ HeadNonce \in [Heads -> [Accounts -> Nat]]
    /\ HeadBalance \in [Heads -> [Accounts -> Nat]]
    /\ Admits \in [Heads -> SUBSET Txs]
    /\ Included \in [Heads -> SUBSET Txs]
    /\ Available \subseteq Heads

ASSUME BoundAssumption ==
    /\ MaxQueued \in Nat \ {0}
    /\ MaxHeadEvents \in Nat
    /\ Prices \subseteq Nat
    /\ Batches \subseteq SUBSET Txs

\* Pools are finite, so the transactions of a pool have a highest nonce.
ASSUME HighestNonceAssumption ==
    \A S \in SUBSET Txs :
        S # {} => \E tx \in S : \A t \in S : Nonce[t] <= Nonce[tx]

VARIABLES
    pending,        \* pool.pending, the processable transactions
    queue,          \* pool.queue, all accounts together: the future transactions
    hasState,       \* pool.pendingState # nil
    pendingNonce,   \* pool.pendingState.GetNonce
    minGasPrice,    \* pool.minGasPrice
    batch,          \* transactions AddTransactions has still to add
    todo,           \* steps of the running operation; <<>> when pool.mu is free
    head,           \* head of the chain
    headEvents,     \* ChainHeadEvents in flight
    removedEvents,  \* RemovedTransactionEvents in flight
    silent          \* head was last set without a ChainHeadEvent

poolVars == <<pending, queue, hasState, pendingNonce, minGasPrice, batch, todo>>
chainVars == <<head, headEvents, removedEvents, silent>>
vars == <<poolVars, chainVars>>

Steps == {"add", "checkQueue", "validatePool", "rebase"}

\* Every variable holds a value of its type; the counted events stay in their bound.
TypeOK ==
    /\ pending \subseteq Txs
    /\ queue \subseteq Txs
    /\ hasState \in BOOLEAN
    /\ pendingNonce \in [Accounts -> Nat]
    /\ minGasPrice \in Nat
    /\ batch \subseteq Txs
    /\ todo \in Seq(Steps)
    /\ head \in Heads
    /\ headEvents \in 0..MaxHeadEvents
    /\ removedEvents \subseteq SUBSET Txs
    /\ silent \in BOOLEAN

-----------------------------------------------------------------------------
(* Validity of a transaction against the state of a head.                  *)

Past(h, tx) == HeadNonce[h][From[tx]] > Nonce[tx]
Funded(h, tx) == Cost[tx] <= HeadBalance[h][From[tx]]
Valid(h, tx) == ~Past(h, tx) /\ Funded(h, tx)

ValidateTx(tx) ==
    /\ minGasPrice <= Price[tx]
    /\ head \in Available
    /\ tx \in Admits[head]
    /\ Valid(head, tx)

\* Mutation: add forgets to refuse a transaction that is already pending.
AcceptedKnown(tx) == ValidateTx(tx)

\* add: known pending transactions are refused, queued ones overwrite themselves.
Accepted(tx) == tx \notin pending /\ ValidateTx(tx)

Of(a, S) == {tx \in S : From[tx] = a}

-----------------------------------------------------------------------------
(* The steps operations are made of.                                       *)

Unlocked == todo = <<>>
At(step) == todo # <<>> /\ Head(todo) = step
Pop == todo' = Tail(todo)

\* Mutation: resetState without validatePool.
ResetWithoutValidation == <<"rebase", "checkQueue">>

ResetSteps == <<"validatePool", "rebase", "checkQueue">>

\* The first step of resetState: a fresh managed state over the current one.
ManageState(rest) ==
    /\ hasState' = TRUE
    /\ pendingNonce' = HeadNonce[head]
    /\ todo' = ResetSteps \o rest

AddStep(tx) ==
    /\ At("add")
    /\ tx \in batch
    /\ batch' = batch \ {tx}
    /\ queue' = IF Accepted(tx) THEN queue \cup {tx} ELSE queue
    /\ IF batch = {tx} THEN Pop ELSE UNCHANGED todo
    /\ UNCHANGED <<pending, hasState, pendingNonce, minGasPrice, chainVars>>

\* Transactions of the queue that survive the first pass of checkQueue.
Live == {tx \in queue : Valid(head, tx)}

\* Mutation: the guessed nonce is not pushed forward.
PromotableOnce(S) == {tx \in S : Nonce[tx] <= pendingNonce[From[tx]]}

\* Sorted by nonce, a transaction is reached without meeting a gap when every
\* nonce from the guessed one to its own is taken by another live transaction.
Promotable(S) ==
    {tx \in S : \A n \in pendingNonce[From[tx]]..(Nonce[tx] - 1) :
                    \E t \in S : From[t] = From[tx] /\ Nonce[t] = n}

Highest(S) == CHOOSE tx \in S : \A t \in S : Nonce[t] <= Nonce[tx]

\* addTx for each of S in the order of their nonces: the last one sets the nonce.
SetNonces(S) ==
    [a \in Accounts |->
        LET added == Of(a, S \ pending)
        IN  IF added = {} THEN pendingNonce[a] ELSE Nonce[Highest(added)] + 1]

\* Mutation: promote[i+maxQueued+1:] is dropped instead of promote[i+maxQueued:].
LimitedOffByOne(S) ==
    {K \in SUBSET S : \A a \in Accounts :
        IF Cardinality(Of(a, S)) <= MaxQueued + 1
        THEN Of(a, K) = Of(a, S)
        ELSE /\ Cardinality(Of(a, K)) = MaxQueued + 1
             /\ \A k \in Of(a, K), d \in Of(a, S \ K) : Nonce[k] <= Nonce[d]}

\* What may be kept of the transactions S behind the gap: the first maxQueued of
\* each account (sort.Sort may leave equal nonces in any order).
Limited(S) ==
    {K \in SUBSET S : \A a \in Accounts :
        IF Cardinality(Of(a, S)) <= MaxQueued
        THEN Of(a, K) = Of(a, S)
        ELSE /\ Cardinality(Of(a, K)) = MaxQueued
             /\ \A k \in Of(a, K), d \in Of(a, S \ K) : Nonce[k] <= Nonce[d]}

Promote ==
    LET promoted == Promotable(Live)
    IN  /\ pending' = pending \cup promoted
        /\ queue' \in Limited(Live \ promoted)
        /\ pendingNonce' = SetNonces(promoted)

CheckQueue ==
    /\ At("checkQueue")
    /\ \/ /\ head \notin Available
          /\ Pop
          /\ UNCHANGED <<pending, queue, hasState, pendingNonce>>
       \/ /\ head \in Available
          /\ ~hasState
          /\ ManageState(todo)
          /\ UNCHANGED <<pending, queue>>
       \/ /\ head \in Available
          /\ hasState
          /\ Promote
          /\ Pop
          /\ UNCHANGED hasState
    /\ UNCHANGED <<minGasPrice, batch, chainVars>>

\* Pending transactions behind one that can no longer be paid for.
BehindGap(S) ==
    {tx \in S : \E t \in pending : /\ From[t] = From[tx]
                                   /\ ~Past(head, t) /\ ~Funded(head, t)
                                   /\ Nonce[tx] >= Nonce[t]}

\* Mutation: transactions behind a gap are dropped instead of postponed.
ValidatePoolDropping ==
    /\ At("validatePool")
    /\ IF head \in Available
       THEN LET valid == {tx \in pending : Valid(head, tx)}
            IN  pending' = valid \ BehindGap(valid)
       ELSE UNCHANGED pending
    /\ Pop
    /\ UNCHANGED <<queue, hasState, pendingNonce, minGasPrice, batch, chainVars>>

ValidatePool ==
    /\ At("validatePool")
    /\ IF head \in Available
       THEN LET valid == {tx \in pending : Valid(head, tx)}
            IN  /\ pending' = valid \ BehindGap(valid)
                /\ queue' = queue \cup BehindGap(valid)
       ELSE UNCHANGED <<pending, queue>>
    /\ Pop
    /\ UNCHANGED <<hasState, pendingNonce, minGasPrice, batch, chainVars>>

\* The loop of resetState that bases the nonces on the pending transactions.
Rebase ==
    /\ At("rebase")
    /\ pendingNonce' =
           [a \in Accounts |->
               LET ahead == {tx \in Of(a, pending) : pendingNonce[a] <= Nonce[tx]}
               IN  IF ahead = {} THEN pendingNonce[a] ELSE Nonce[Highest(ahead)] + 1]
    /\ Pop
    /\ UNCHANGED <<pending, queue, hasState, minGasPrice, batch, chainVars>>

PoolStep ==
    \/ \E tx \in Txs : AddStep(tx)
    \/ CheckQueue
    \/ ValidatePool
    \/ Rebase

-----------------------------------------------------------------------------
(* Operations.                                                             *)

\* A refused transaction leaves the pool as it is.
Add(tx) ==
    /\ Unlocked
    /\ Accepted(tx)
    /\ queue' = queue \cup {tx}
    /\ todo' = <<"checkQueue">>
    /\ UNCHANGED <<pending, hasState, pendingNonce, minGasPrice, batch, chainVars>>

StartBatch(S) ==
    /\ Unlocked
    /\ batch' = S
    /\ todo' = IF S = {} THEN <<"checkQueue">> ELSE <<"add", "checkQueue">>
    /\ UNCHANGED <<pending, queue, hasState, pendingNonce, minGasPrice>>

AddTransactions(S) == StartBatch(S) /\ UNCHANGED chainVars

GetTransactions ==
    /\ Unlocked
    /\ todo' = <<"checkQueue", "validatePool">>
    /\ UNCHANGED <<pending, queue, hasState, pendingNonce, minGasPrice, batch, chainVars>>

Remove(S) ==
    /\ pending' = pending \ S
    /\ queue' = queue \ S
    /\ UNCHANGED <<hasState, pendingNonce, minGasPrice, batch, todo, chainVars>>

RemoveTransactions(S) == Unlocked /\ Remove(S)

\* RemoveTx takes no lock; the RPC server calls it directly.
RemoveTx(tx) == Remove({tx})

\* Mutation: the reset put off as long as transactions can be mined.
HeadEventWhenEmpty ==
    /\ Unlocked
    /\ headEvents > 0 /\ pending = {}
    /\ headEvents' = headEvents - 1
    /\ IF head \in Available
       THEN ManageState(<<>>)
       ELSE UNCHANGED <<hasState, pendingNonce, todo>>
    /\ UNCHANGED <<pending, queue, minGasPrice, batch, head, removedEvents, silent>>

HeadEvent ==
    /\ Unlocked
    /\ headEvents > 0
    /\ headEvents' = headEvents - 1
    /\ IF head \in Available
       THEN ManageState(<<>>)
       ELSE UNCHANGED <<hasState, pendingNonce, todo>>
    /\ UNCHANGED <<pending, queue, minGasPrice, batch, head, removedEvents, silent>>

GasPriceChanged(p) ==
    /\ Unlocked
    /\ minGasPrice' = p
    /\ UNCHANGED <<pending, queue, hasState, pendingNonce, batch, todo, chainVars>>

\* Mutation: the event is received and its transactions are not added.
RemovedEventIgnored(S) ==
    /\ Unlocked
    /\ S \in removedEvents
    /\ removedEvents' = removedEvents \ {S}
    /\ UNCHANGED <<poolVars, head, headEvents, silent>>

RemovedEvent(S) ==
    /\ S \in removedEvents
    /\ removedEvents' = removedEvents \ {S}
    /\ StartBatch(S)
    /\ UNCHANGED <<head, headEvents, silent>>

-----------------------------------------------------------------------------
(* The chain.  Both events are posted from goroutines of their own, so they *)
(* reach the pool in any order; an event is not posted when its block is no *)
(* longer the head by then.                                                 *)

MoveHead(h) ==
    LET diff == Included[head] \ Included[h]
    IN  /\ h # head
        /\ head' = h
        /\ silent' = FALSE
        /\ headEvents' \in {headEvents + 1} \cup (IF headEvents > 0 THEN {headEvents} ELSE {})
        /\ headEvents' <= MaxHeadEvents
        /\ removedEvents' = IF diff = {} THEN removedEvents ELSE removedEvents \cup {diff}
        /\ UNCHANGED poolVars

\* A rewind by SetHead, or an InsertChain that fails after importing some blocks.
MoveHeadSilently(h) ==
    /\ h # head
    /\ head' = h
    /\ silent' = TRUE
    /\ UNCHANGED <<poolVars, headEvents, removedEvents>>

Init ==
    /\ pending = {}
    /\ queue = {}
    /\ hasState = FALSE
    /\ pendingNonce = [a \in Accounts |-> 0]
    /\ minGasPrice = 0
    /\ batch = {}
    /\ todo = <<>>
    /\ head = Genesis
    /\ headEvents = 0
    /\ removedEvents = {}
    /\ silent = FALSE

Next ==
    \/ PoolStep
    \/ \E tx \in Txs : Add(tx)
    \/ \E S \in Batches : AddTransactions(S)
    \/ GetTransactions
    \/ \E S \in Batches : RemoveTransactions(S)
    \/ \E tx \in Txs : RemoveTx(tx)
    \/ HeadEvent
    \/ \E p \in Prices : GasPriceChanged(p)
    \/ \E S \in removedEvents : RemovedEvent(S)
    \/ \E h \in Heads : MoveHead(h)
    \/ \E h \in Heads : MoveHeadSilently(h)

Spec == Init /\ [][Next]_vars

\* The sets of transactions a RemovedTransactionEvent can carry.
Reorged == {Included[g] \ Included[h] : g, h \in Heads}

\* The goroutine that holds pool.mu runs on; the event loop, queued behind other
\* users of the lock, gets it in its turn.
Fairness ==
    /\ WF_vars(PoolStep)
    /\ SF_vars(HeadEvent)
    /\ \A S \in Reorged : SF_vars(RemovedEvent(S))

FairSpec == Spec /\ Fairness

-----------------------------------------------------------------------------
(* Properties.                                                             *)

\* No transaction is both processable and queued: promotion by checkQueue and
\* postponement by validatePool each move a transaction, whatever operations
\* and head changes come between.
OneHome == pending \cap queue = {}

\* Every head of the chain has been announced and every announcement handled.
Settled == Unlocked /\ headEvents = 0 /\ ~silent /\ head \in Available

\* Once the pool has handled the last ChainHeadEvent, every processable
\* transaction has a nonce the head has not passed and a sender that can pay for
\* it, even if the head moved in the middle of earlier operations.
PendingValid == Settled => \A tx \in pending : Valid(head, tx)

Checked == CheckQueue /\ hasState /\ head \in Available

\* checkQueue leaves at most maxQueued transactions of an account in the queue,
\* those validatePool has just postponed included.
QueueLimited ==
    [][Checked => \A a \in Accounts : Cardinality(Of(a, queue')) <= MaxQueued]_vars

\* checkQueue leaves nothing behind that is due: what stays in the queue lies
\* beyond the nonce the pool hands out next, also after that nonce was lowered.
NothingDueLeft ==
    [][Checked => \A tx \in queue' : Nonce[tx] > pendingNonce'[From[tx]]]_vars

Removal == (\E S \in Batches : RemoveTransactions(S)) \/ (\E tx \in Txs : RemoveTx(tx))

\* A transaction leaves the pool only because it was removed by name, the head has
\* passed its nonce, its sender cannot pay, or its account has filled the queue
\* with transactions that come no later; the limit never hits a transaction
\* that could have been promoted.
JustifiedLoss ==
    [][~Removal =>
         \A tx \in (pending \cup queue) \ (pending' \cup queue') :
             /\ head \in Available
             /\ \/ ~Valid(head, tx)
                \/ /\ Nonce[tx] > pendingNonce'[From[tx]]
                   /\ MaxQueued <= Cardinality({t \in queue' : /\ From[t] = From[tx]
                                                              /\ Nonce[t] <= Nonce[tx]})]_vars

\* A transaction the reorganised chain dropped comes back: it is in the pool
\* again, unless it is refused by the state, the gas price or the block limits of
\* the head at that moment.
ReorgedReturn ==
    \A S \in Reorged : \A tx \in S :
        S \in removedEvents ~> tx \in pending \cup queue \/ ~ValidateTx(tx)

\* A processable transaction the head has passed or its sender cannot pay for is
\* eventually dropped, or the head changes so that it is valid again.
StalePurged ==
    \A tx \in Txs :
        []<>(tx \notin pending \/ Valid(head, tx) \/ silent \/ head \notin Available)

=============================================================================
