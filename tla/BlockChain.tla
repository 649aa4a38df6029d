---------------------------- MODULE BlockChain ----------------------------
(***************************************************************************)
(* The chain manager, core/blockchain.go: what it keeps in the database     *)
(* and in memory, and the operations that change either.                    *)
(*                                                                          *)
(* The database has no transactions: every Put and Delete is durable on its *)
(* own.  An operation that holds `mu' is therefore a plan, the sequence of  *)
(* its database writes (writes), made one per step.  Nobody else gets `mu'  *)
(* in between, but the process may stop between any two of them, and        *)
(* restarts from what the database then holds.  A field of the chain        *)
(* manager changes together with the database key that mirrors it.          *)
(*                                                                          *)
(* A header and the block it belongs to are the same element of Blocks;     *)
(* their contents are the constants Parent, Number, Td and TxsOf.  Caches   *)
(* other than tdCache are coherent with the database and are left out.      *)
(***************************************************************************)
EXTENDS Integers, Sequences, FiniteSets

CONSTANTS
    Blocks,       \* every block and header that may be met
    Genesis,      \* the genesis block
    None,         \* no block
    Parent,       \* Parent[b], for b other than Genesis
    Number,       \* Number[b]
    Td,           \* Td[b]: the total difficulty of the chain that ends in b
    Txs,          \* transactions
    TxsOf,        \* TxsOf[b]: the transactions in b
    Bad,          \* blocks that do not pass validation or processing
    Lead,         \* Lead[b]: 0 in the past, 1 a bit in the future, 2 too far
    Chains,       \* the arguments of InsertChain
    Mined,        \* blocks the miner may find
    HeaderChains, \* the arguments of InsertHeaderChain
    ReceiptChains,\* the arguments of InsertReceiptChain
    Pivots,       \* the arguments of FastSyncCommitHead
    MaxRewinds,   \* bound: calls of SetHead
    MaxRollbacks, \* bound: calls of Rollback
    MaxCrashes,   \* bound: stops of the process
    MaxUpsets     \* bound: calls of SetHead and Rollback, and stops, together

Heights == {Number[b] : b \in Blocks}

\* The blocks from b down to the genesis block, both included.
Ancestors[b \in Blocks] ==
    IF b = Genesis THEN {Genesis} ELSE {b} \cup Ancestors[Parent[b]]

ASSUME BlockAssumption ==
    /\ IsFiniteSet(Blocks) /\ IsFiniteSet(Txs)
    /\ Genesis \in Blocks /\ None \notin Blocks
    /\ Parent \in [Blocks \ {Genesis} -> Blocks]
    /\ Number \in [Blocks -> Nat] /\ Number[Genesis] = 0
    /\ Td \in [Blocks -> Nat]
    /\ \A b \in Blocks \ {Genesis} : /\ Number[b] = Number[Parent[b]] + 1
                                     /\ Td[b] > Td[Parent[b]]
    /\ TxsOf \in [Blocks -> SUBSET Txs]
    /\ Bad \in SUBSET (Blocks \ {Genesis})
    /\ Lead \in [Blocks -> 0..2] /\ Lead[Genesis] = 0

\* The genesis block contains no transaction (WriteGenesisBlock), and a chain of
\* valid blocks contains one at most once: applying it raises its sender's nonce.
ASSUME TxAssumption ==
    /\ TxsOf[Genesis] = {}
    /\ \A b \in Blocks : Ancestors[b] \cap Bad = {} =>
          \A a, c \in Ancestors[b] : a # c => TxsOf[a] \cap TxsOf[c] = {}

ASSUME InputAssumption ==
    /\ Chains \subseteq Seq(Blocks \ {Genesis})
    /\ HeaderChains \subseteq Seq(Blocks \ {Genesis})
    /\ ReceiptChains \subseteq Seq(Blocks \ {Genesis})
    /\ <<>> \notin Chains \cup HeaderChains \cup ReceiptChains
    /\ Mined \subseteq Blocks \ {Genesis} /\ Pivots \subseteq Blocks
    /\ MaxRewinds \in Nat /\ MaxRollbacks \in Nat /\ MaxCrashes \in Nat
    /\ MaxUpsets \in Nat

VARIABLES
    \* the database
    headers,        \* blocks whose header is stored
    bodies,         \* blocks whose body is stored
    tds,            \* blocks whose total difficulty is stored
    states,         \* blocks whose state trie is stored
    canon,          \* canon[n]: the canonical hash of number n, or None
    lookup,         \* lookup[t]: the block the transaction t is found in, or None
    headBlock, headHeader, headFast,        \* the three head hashes
    \* the chain manager
    currentBlock, currentHeader, currentFast,
    tdCache,        \* blocks whose total difficulty is cached
    futureBlocks,   \* blocks to be processed later
    \* the operations in progress
    writes,         \* the database writes left to the holder of mu
    batch,          \* the blocks left to the InsertChain that holds chainmu
    hbatch,         \* the headers left to the InsertHeaderChain that holds it
    ready,          \* ready[p]: the block p is about to pass to WriteBlock
    index,          \* index[p]: the canonical block p wrote and not yet indexed
    rleft, rhead,   \* InsertReceiptChain: the bodies left to write, the new head
    \* the environment
    lead,           \* how far in the future the timestamps are now
    rewinds, rollbacks, crashes,
    panicked        \* the process has ended with a panic before

disk == <<headers, bodies, tds, states, canon, lookup, headBlock, headHeader, headFast>>
heads == <<currentBlock, currentHeader, currentFast>>
import == <<batch, hbatch, ready, index>>
fast == <<rleft, rhead>>
counters == <<rewinds, rollbacks, crashes, panicked>>
vars == <<disk, heads, tdCache, futureBlocks, writes, import, fast, lead, counters>>

\* The goroutine that runs InsertChain and the one that takes mined blocks.
Procs == {"import", "mine"}

\* GetBlock answers for a block when both of its parts are stored.
Stored == headers \cap bodies

HasTd(b) == b \in tds \cup tdCache

\* GetTd caches what it has found.
CacheTds(S) == tdCache' = tdCache \cup (S \cap tds)

Unlocked == writes = <<>>
MayUpset == rewinds + rollbacks + crashes < MaxUpsets
ChainUnlocked == /\ batch = <<>> /\ hbatch = <<>>
                 /\ ready["import"] = None /\ index["import"] = None

---------------------------------------------------------------------------
(* Plans.                                                                   *)

Put(op, arg) == [op |-> op, arg |-> arg]

BlockOps == {"canon", "headBlock", "headHeader", "headFast", "td", "body", "header",
             "delHeader", "delBody", "delTd", "index", "unfuture", "panic"}
Puts == [op : BlockOps, arg : Blocks] \cup [op : {"uncanon"}, arg : Heights]
            \cup [op : {"unindex"}, arg : Txs]

\* The sequences in ss, one after the other.
Joined(ss) ==
    LET upTo[i \in 0..Len(ss)] == IF i = 0 THEN <<>> ELSE upTo[i-1] \o ss[i]
    IN  upTo[Len(ss)]

\* The sequence s with every element replaced by the sequence F gives for it.
Expand(s, F(_)) == Joined([i \in DOMAIN s |-> F(s[i])])

\* The elements of S in all orders; and the blocks of a chain, or the numbers
\* of a set, from the highest down.
Orders(S) == {s \in [1..Cardinality(S) -> S] : \A e \in S : \E i \in DOMAIN s : s[i] = e}

Descending(S) ==
    CHOOSE s \in Orders(S) : \A i, j \in DOMAIN s : i < j => Number[s[i]] > Number[s[j]]
DescendingNumbers(S) ==
    CHOOSE s \in Orders(S) : \A i, j \in DOMAIN s : i < j => s[i] > s[j]

\* Marks b as the head block, and moves the other heads onto it if b is not
\* the canonical block of its number yet.
Insert(b) ==
    <<Put("canon", b), Put("headBlock", b)>>
        \o IF canon[Number[b]] # b THEN <<Put("headHeader", b), Put("headFast", b)>> ELSE <<>>

NewChainWithoutSplit(b) ==
    {c \in Ancestors[b] \ Ancestors[currentBlock] :
        c = b \/ Parent[c] \notin Ancestors[currentBlock]}

OldChain(b) == Ancestors[currentBlock] \ Ancestors[b]
NewChain(b) == Ancestors[b] \ Ancestors[currentBlock]
CommonBlock(b) == CHOOSE c \in Ancestors[b] \cap Ancestors[currentBlock] :
                     \A d \in Ancestors[b] \cap Ancestors[currentBlock] : Number[d] <= Number[c]

ReorganisableAlways(b) == TRUE

\* reorg walks down both chains with GetBlock, and gives up on a missing block.
Reorganisable(b) ==
    (OldChain(b) \cup NewChain(b) \cup {CommonBlock(b)}) \ {b, currentBlock} \subseteq Stored

DroppedTxsWithShared(b) == UNION {TxsOf[c] : c \in OldChain(b)}

DroppedTxs(b) == (UNION {TxsOf[c] : c \in OldChain(b)}) \ (UNION {TxsOf[c] : c \in NewChain(b)})

\* Inserts and indexes the new chain, highest block first, then unindexes the
\* transactions that are no longer in the chain.
Reorg(b) ==
    LET InsertAndIndex(c) == Append(Insert(c), Put("index", c))
        Unindex(t) == <<Put("unindex", t)>>
    IN  Expand(Descending(NewChain(b)), InsertAndIndex)
            \o Expand(CHOOSE s \in Orders(DroppedTxs(b)) : TRUE, Unindex)

\* What WriteBlock writes for b as the new head: the blocks of a longer new
\* chain are canonical, b included, by the time b is inserted.
InsertHead(b) ==
    IF Parent[b] = currentBlock THEN Insert(b)
    ELSE Reorg(b) \o <<Put("canon", b), Put("headBlock", b)>>

StoreHeaderFirst(b) ==
    <<Put("header", b), Put("td", b), Put("body", b), Put("unfuture", b)>>

StoreKeepingFuture(b) ==
    <<Put("td", b), Put("body", b), Put("header", b)>>

StoreBlock(b) ==
    <<Put("td", b), Put("body", b), Put("header", b), Put("unfuture", b)>>

\* Makes the next write of the holder of mu.
Write ==
    /\ writes # <<>> /\ Head(writes).op # "panic"
    /\ writes' = Tail(writes)
    /\ LET op == Head(writes).op
           arg == Head(writes).arg
           Updated(S, put, delete) ==
               IF op = put THEN S \cup {arg} ELSE IF op = delete THEN S \ {arg} ELSE S
           Pointed(old, key) == IF op = key THEN arg ELSE old
       IN  /\ headers' = Updated(headers, "header", "delHeader")
           /\ bodies' = Updated(bodies, "body", "delBody")
           /\ tds' = Updated(tds, "td", "delTd")
           /\ futureBlocks' = Updated(futureBlocks, "", "unfuture")
           /\ canon' = IF op = "canon" THEN [canon EXCEPT ![Number[arg]] = arg]
                       ELSE IF op = "uncanon" THEN [canon EXCEPT ![arg] = None] ELSE canon
           /\ lookup' = IF op = "index"
                        THEN [t \in Txs |-> IF t \in TxsOf[arg] THEN arg ELSE lookup[t]]
                        ELSE IF op = "unindex" THEN [lookup EXCEPT ![arg] = None] ELSE lookup
           /\ headBlock' = Pointed(headBlock, "headBlock")
           /\ headHeader' = Pointed(headHeader, "headHeader")
           /\ headFast' = Pointed(headFast, "headFast")
           /\ currentBlock' = Pointed(currentBlock, "headBlock")
           /\ currentHeader' = Pointed(currentHeader, "headHeader")
           /\ currentFast' = Pointed(currentFast, "headFast")
    /\ UNCHANGED <<states, tdCache, import, fast, lead, counters>>

---------------------------------------------------------------------------
(* Importing blocks.                                                        *)

InsertChain(chain) ==
    /\ ChainUnlocked
    /\ batch' = chain
    /\ UNCHANGED <<disk, heads, tdCache, futureBlocks, writes, hbatch, ready, index,
                   fast, lead, counters>>

\* The timer of update: all of futureBlocks, in the order of their numbers.
ProcFutureBlocks ==
    /\ ChainUnlocked /\ futureBlocks # {}
    /\ batch' \in {s \in Orders(futureBlocks) :
                      \A i, j \in DOMAIN s : i < j => Number[s[i]] <= Number[s[j]]}
    /\ UNCHANGED <<disk, heads, tdCache, futureBlocks, writes, hbatch, ready, index,
                   fast, lead, counters>>

\* What ValidateBlock, Process and ValidateState say of b.
Verdict(b) ==
    IF b \in Stored \cap states THEN "known"
    ELSE IF Parent[b] \notin Stored \cap states
         THEN IF Parent[b] \in futureBlocks THEN "later" ELSE "error"
    ELSE IF lead[b] = 1 THEN "later"
    ELSE IF lead[b] = 2 \/ b \in Bad THEN "error"
    ELSE "valid"

\* Validates the next block.  A valid one has its state committed; a known one
\* is skipped; one to process later is kept; any other ends the InsertChain.
ValidateNext ==
    /\ Unlocked /\ batch # <<>> /\ ready["import"] = None /\ index["import"] = None
    /\ LET b == Head(batch)
           verdict == Verdict(b)
       IN  /\ batch' = IF verdict = "error" THEN <<>> ELSE Tail(batch)
           /\ futureBlocks' = IF verdict = "later" THEN futureBlocks \cup {b} ELSE futureBlocks
           /\ states' = IF verdict = "valid" THEN states \cup {b} ELSE states
           /\ ready' = IF verdict = "valid" THEN [ready EXCEPT !["import"] = b] ELSE ready
    /\ UNCHANGED <<headers, bodies, tds, canon, lookup, headBlock, headHeader, headFast,
                   heads, tdCache, writes, hbatch, index, fast, lead, counters>>

\* The miner has found b, committed its state and checked that the parent and
\* the header are fine.
Mine(b) ==
    /\ ready["mine"] = None /\ index["mine"] = None
    /\ b \notin headers /\ b \notin Bad
    /\ Parent[b] \in Stored \cap states
    /\ states' = states \cup {b}
    /\ ready' = [ready EXCEPT !["mine"] = b]
    /\ UNCHANGED <<headers, bodies, tds, canon, lookup, headBlock, headHeader, headFast,
                   heads, tdCache, futureBlocks, writes, batch, hbatch, index, fast, lead,
                   counters>>

HeavierByNumber(b) == Number[b] > Number[currentBlock]

Heavier(b) == Td[b] > Td[currentBlock]

\* WriteBlock, called by p.  The block becomes the head when its chain is
\* heavier than that of the head; it is stored in any case, unless its parent
\* has no total difficulty or the chains cannot be walked.
WriteBlock(p) ==
    /\ Unlocked /\ ready[p] # None
    /\ ready' = [ready EXCEPT ![p] = None]
    /\ LET b == ready[p]
           heavier == Heavier(b)
           failed == \/ ~HasTd(Parent[b])
                     \/ heavier /\ Parent[b] # currentBlock /\ ~Reorganisable(b)
       IN  /\ writes' = IF failed THEN <<>>
                        ELSE (IF heavier THEN InsertHead(b) ELSE <<>>) \o StoreBlock(b)
           /\ index' = IF heavier /\ ~failed THEN [index EXCEPT ![p] = b] ELSE index
           /\ batch' = IF failed /\ p = "import" THEN <<>> ELSE batch
           /\ CacheTds({Parent[b], currentBlock})
    /\ UNCHANGED <<disk, heads, futureBlocks, hbatch, fast, lead, counters>>

\* The caller of WriteBlock indexes the transactions of a canonical block
\* after WriteBlock has returned, that is without mu.
IndexBlock(p) ==
    /\ Unlocked /\ index[p] # None
    /\ lookup' = [t \in Txs |-> IF t \in TxsOf[index[p]] THEN index[p] ELSE lookup[t]]
    /\ index' = [index EXCEPT ![p] = None]
    /\ UNCHANGED <<headers, bodies, tds, states, canon, headBlock, headHeader, headFast,
                   heads, tdCache, futureBlocks, writes, batch, hbatch, ready, fast, lead,
                   counters>>

---------------------------------------------------------------------------
(* Rewinding, and the start of the process.                                 *)

\* The walk of SetHead from b down to number n through the blocks in S: what it
\* passes, and where it ends (at the genesis block if it meets a missing one).
Passed(b, n, S) == {a \in Ancestors[b] :
    /\ Number[a] > n
    /\ \A c \in Ancestors[b] \ {b} : Number[c] >= Number[a] => c \in S}

AncestorAt(b, n) == CHOOSE a \in Ancestors[b] : Number[a] = n

RewoundOffByOne(b, n, S) ==
    IF Number[b] <= n + 1 THEN b
    ELSE IF \A a \in Ancestors[b] \ {b} : Number[a] >= n => a \in S THEN AncestorAt(b, n + 1)
    ELSE Genesis

Rewound(b, n, S) ==
    IF Number[b] <= n THEN b
    ELSE IF \A a \in Ancestors[b] \ {b} : Number[a] >= n => a \in S THEN AncestorAt(b, n)
    ELSE Genesis

DropDifficultyFirst(b) == <<Put("delTd", b), Put("delHeader", b), Put("delBody", b)>>

DropBlock(b) == <<Put("delHeader", b), Put("delBody", b), Put("delTd", b)>>

\* Deletes the canonical numbers above n, then what the three walks passed in
\* any order, then writes the heads.
SetHead(n) ==
    /\ Unlocked /\ rewinds < MaxRewinds /\ MayUpset
    /\ rewinds' = rewinds + 1
    /\ \E drop \in Orders(Passed(currentHeader, n, headers)
                             \cup Passed(currentBlock, n, Stored)
                             \cup Passed(currentFast, n, Stored)) :
         LET Uncanon(k) == <<Put("uncanon", k)>>
             height == {Number[currentHeader], Number[currentBlock], Number[currentFast]}
         IN  writes' = Expand(DescendingNumbers({k \in Heights : k > n /\ \E h \in height : k <= h}),
                              Uncanon)
                         \o Expand(drop, DropBlock)
                         \o << Put("headBlock", Rewound(currentBlock, n, Stored)),
                               Put("headHeader", Rewound(currentHeader, n, headers)),
                               Put("headFast", Rewound(currentFast, n, Stored)) >>
    /\ futureBlocks' = {}
    /\ UNCHANGED <<disk, heads, tdCache, import, fast, lead, rollbacks, crashes,
                   panicked>>

RestartFromHeader ==
    LET found == headHeader \in Stored
        block == IF found THEN headHeader ELSE Genesis
        header == IF found THEN headHeader ELSE Genesis
        fastBlock == IF found THEN headFast ELSE Genesis
    IN  /\ headBlock' = block /\ headHeader' = header /\ headFast' = fastBlock
        /\ currentBlock' = block
        /\ currentHeader' = IF header \in headers THEN header ELSE block
        /\ currentFast' = IF fastBlock \in Stored THEN fastBlock ELSE block
        /\ tdCache' = {currentBlock', currentHeader', currentFast'} \cap tds
        /\ futureBlocks' = {} /\ writes' = <<>> /\ batch' = <<>> /\ hbatch' = <<>>
        /\ ready' = [p \in Procs |-> None] /\ index' = [p \in Procs |-> None]
        /\ rleft' = {} /\ rhead' = None
        /\ UNCHANGED <<headers, bodies, tds, states, canon, lookup, lead, rewinds, rollbacks>>

\* The process starts on the database the last one left: loadLastState, which
\* resets the chain to the genesis block when the head block is missing.
Restart ==
    LET found == headBlock \in Stored
        block == IF found THEN headBlock ELSE Genesis
        header == IF found THEN headHeader ELSE Genesis
        fastBlock == IF found THEN headFast ELSE Genesis
    IN  /\ headBlock' = block /\ headHeader' = header /\ headFast' = fastBlock
        /\ currentBlock' = block
        /\ currentHeader' = IF header \in headers THEN header ELSE block
        /\ currentFast' = IF fastBlock \in Stored THEN fastBlock ELSE block
        /\ tdCache' = {currentBlock', currentHeader', currentFast'} \cap tds
        /\ futureBlocks' = {} /\ writes' = <<>> /\ batch' = <<>> /\ hbatch' = <<>>
        /\ ready' = [p \in Procs |-> None] /\ index' = [p \in Procs |-> None]
        /\ rleft' = {} /\ rhead' = None
        /\ UNCHANGED <<headers, bodies, tds, states, canon, lookup, lead, rewinds, rollbacks>>

Crash ==
    /\ crashes < MaxCrashes /\ MayUpset
    /\ crashes' = crashes + 1 /\ UNCHANGED panicked
    /\ Restart

\* The holder of mu dereferences a block or a difficulty it did not find.
Panic ==
    /\ writes # <<>> /\ Head(writes).op = "panic"
    /\ panicked' = TRUE /\ UNCHANGED crashes
    /\ Restart

---------------------------------------------------------------------------
(* Fast synchronisation: headers first, then bodies, then one head block.   *)

\* Every header is verified before the first one is written.
InsertHeaderChain(chain) ==
    /\ ChainUnlocked
    /\ \A i \in DOMAIN chain : chain[i] \in headers \/ chain[i] \notin Bad
    /\ chain[1] \in headers \/ Parent[chain[1]] \in headers
    /\ hbatch' = chain
    /\ UNCHANGED <<disk, heads, tdCache, futureBlocks, writes, batch, ready, index, fast,
                   lead, counters>>

\* The numbers above that of h up to the first one without a canonical hash.
NumbersAbove(h) == {n \in Heights : /\ n > Number[h]
                                    /\ \A k \in Number[h] + 1 .. n : canon[k] # None}

ParentOnly(h) == {a \in {Parent[h]} : canon[Number[a]] # a}

\* The ancestors of h that are not canonical, down to the first one that is.
StaleAncestors(h) == {a \in Ancestors[h] \ {h} :
    \A c \in Ancestors[h] \ {h} : Number[c] >= Number[a] => canon[Number[c]] # c}

\* What writeHeader writes for a header heavier than the current one.  The walk
\* down the ancestors fails on the first one whose header is missing.
ExtendHeaders(h) ==
    LET Uncanon(n) == <<Put("uncanon", n)>>
        Canon(a) == <<Put("canon", a)>>
        walk == StaleAncestors(h)
        found == {a \in walk : \A c \in walk : Number[c] >= Number[a] => c \in headers}
        rest == Ancestors[h] \ (found \cup {h})
        next == CHOOSE a \in rest : \A c \in rest : Number[c] <= Number[a]
        numbers == DescendingNumbers(NumbersAbove(h))
    IN  Expand([i \in 1..Len(numbers) |-> numbers[Len(numbers) + 1 - i]], Uncanon)
          \o Expand(Descending(found), Canon)
          \o IF next \in headers THEN <<Put("canon", h), Put("headHeader", h)>>
             ELSE <<Put("panic", h)>>

WriteHeader ==
    /\ Unlocked /\ hbatch # <<>>
    /\ LET h == Head(hbatch)
           failed == ~HasTd(Parent[h])
       IN  IF h \in headers
           THEN hbatch' = Tail(hbatch) /\ UNCHANGED <<writes, tdCache>>
           ELSE /\ hbatch' = IF failed THEN <<>> ELSE Tail(hbatch)
                /\ writes' = IF failed THEN <<>>
                             ELSE (IF Td[h] > Td[currentHeader] THEN ExtendHeaders(h) ELSE <<>>)
                                    \o <<Put("td", h), Put("header", h)>>
                /\ CacheTds({Parent[h], currentHeader})
    /\ UNCHANGED <<disk, heads, futureBlocks, batch, ready, index, fast, lead, counters>>

\* The bodies are written by several workers, without a lock and in any order.
InsertReceiptChain(chain) ==
    /\ rhead = None
    /\ rleft' = {chain[i] : i \in DOMAIN chain}
    /\ rhead' = chain[Len(chain)]
    /\ UNCHANGED <<disk, heads, tdCache, futureBlocks, writes, import, lead, counters>>

\* A worker takes b.  All of them stop at the first header that is unknown.
WriteBody(b) ==
    /\ b \in rleft
    /\ IF b \in headers
       THEN bodies' = bodies \cup {b} /\ rleft' = rleft \ {b} /\ UNCHANGED rhead
       ELSE rleft' = {} /\ rhead' = None /\ UNCHANGED bodies
    /\ UNCHANGED <<headers, tds, states, canon, lookup, headBlock, headHeader, headFast,
                   heads, tdCache, futureBlocks, writes, import, lead, counters>>

CommitReceiptsEarly ==
    /\ Unlocked /\ rhead # None
    /\ writes' = IF Td[currentFast] < Td[rhead] THEN <<Put("headFast", rhead)>> ELSE <<>>
    /\ rhead' = None /\ rleft' = {}
    /\ CacheTds({rhead, currentFast})
    /\ UNCHANGED <<disk, heads, futureBlocks, import, lead, counters>>

\* All bodies are there: the last block becomes the fast head if it is heavier.
CommitReceipts ==
    /\ Unlocked /\ rleft = {} /\ rhead # None
    /\ writes' = IF ~HasTd(rhead) THEN <<Put("panic", rhead)>>
                 ELSE IF Td[currentFast] < Td[rhead] THEN <<Put("headFast", rhead)>>
                 ELSE <<>>
    /\ rhead' = None
    /\ CacheTds({rhead, currentFast})
    /\ UNCHANGED <<disk, heads, futureBlocks, import, rleft, lead, counters>>

\* The state of b has been downloaded: b becomes the head block, in memory only.
FastSyncCommitHead(b) ==
    /\ Unlocked /\ b \in Stored
    /\ states' = states \cup {b}
    /\ currentBlock' = b
    /\ UNCHANGED <<headers, bodies, tds, canon, lookup, headBlock, headHeader, headFast,
                   currentHeader, currentFast, tdCache, futureBlocks, writes, import, fast,
                   lead, counters>>

\* Takes the heads off the headers above number n, highest first.  The headers
\* themselves and their canonical numbers stay.  A head without a parent in the
\* database ends the process.
Rollback(n) ==
    /\ Unlocked /\ rollbacks < MaxRollbacks /\ MayUpset /\ Number[currentHeader] > n
    /\ rollbacks' = rollbacks + 1
    /\ LET hashes == {a \in Ancestors[currentHeader] : Number[a] > n}
           Moved(cur, a, S, key) ==
               IF cur \in hashes /\ a \in Ancestors[cur]
               THEN <<Put(IF Parent[a] \in S THEN key ELSE "panic", Parent[a])>> ELSE <<>>
           Back(a) == Moved(currentHeader, a, headers, "headHeader")
                        \o Moved(currentFast, a, Stored, "headFast")
                        \o Moved(currentBlock, a, Stored, "headBlock")
       IN  writes' = Expand(Descending(hashes), Back)
    /\ UNCHANGED <<disk, heads, tdCache, futureBlocks, import, fast, lead, rewinds, crashes,
                   panicked>>

---------------------------------------------------------------------------

\* Timestamps in the future come closer.
Tick ==
    /\ \E b \in Blocks : lead[b] > 0
    /\ lead' = [b \in Blocks |-> IF lead[b] > 0 THEN lead[b] - 1 ELSE 0]
    /\ UNCHANGED <<disk, heads, tdCache, futureBlocks, writes, import, fast, counters>>

\* A database that holds the genesis block, and the chain manager started on it.
Init ==
    /\ headers = {Genesis} /\ bodies = {Genesis} /\ tds = {Genesis} /\ states = {Genesis}
    /\ canon = [n \in Heights |-> IF n = 0 THEN Genesis ELSE None]
    /\ lookup = [t \in Txs |-> None]
    /\ headBlock = Genesis /\ headHeader = Genesis /\ headFast = Genesis
    /\ currentBlock = Genesis /\ currentHeader = Genesis /\ currentFast = Genesis
    /\ tdCache = {Genesis} /\ futureBlocks = {}
    /\ writes = <<>> /\ batch = <<>> /\ hbatch = <<>>
    /\ ready = [p \in Procs |-> None] /\ index = [p \in Procs |-> None]
    /\ rleft = {} /\ rhead = None
    /\ lead = Lead /\ rewinds = 0 /\ rollbacks = 0 /\ crashes = 0
    /\ panicked = FALSE

Next ==
    \/ Write
    \/ \E chain \in Chains : InsertChain(chain)
    \/ ProcFutureBlocks
    \/ ValidateNext
    \/ \E b \in Mined : Mine(b)
    \/ \E p \in Procs : WriteBlock(p)
    \/ \E p \in Procs : IndexBlock(p)
    \/ \E n \in Heights : SetHead(n)
    \/ Crash
    \/ Panic
    \/ \E chain \in HeaderChains : InsertHeaderChain(chain)
    \/ WriteHeader
    \/ \E chain \in ReceiptChains : InsertReceiptChain(chain)
    \/ \E b \in Blocks : WriteBody(b)
    \/ CommitReceipts
    \/ \E b \in Pivots : FastSyncCommitHead(b)
    \/ \E n \in Heights : Rollback(n)
    \/ Tick

Spec == Init /\ [][Next]_vars

\* A goroutine that holds a lock goes on, one that waits for chainmu gets it in
\* the end (the timer of update fires every five seconds), and time passes.
\* Nothing makes anybody call the other operations.
FairSpec ==
    /\ Spec
    /\ WF_vars(Write) /\ WF_vars(ValidateNext) /\ SF_vars(ProcFutureBlocks) /\ WF_vars(Tick)
    /\ \A p \in Procs : WF_vars(WriteBlock(p)) /\ WF_vars(IndexBlock(p))

---------------------------------------------------------------------------
(* Properties.                                                              *)

\* Every variable has its type: the database holds parts of known blocks, the
\* heads are blocks, and a plan consists of database writes.
TypeOK ==
    /\ headers \subseteq Blocks /\ bodies \subseteq Blocks
    /\ tds \subseteq Blocks /\ states \subseteq Blocks
    /\ canon \in [Heights -> Blocks \cup {None}]
    /\ lookup \in [Txs -> Blocks \cup {None}]
    /\ headBlock \in Blocks /\ headHeader \in Blocks /\ headFast \in Blocks
    /\ currentBlock \in Blocks /\ currentHeader \in Blocks /\ currentFast \in Blocks
    /\ tdCache \subseteq Blocks /\ futureBlocks \subseteq Blocks
    /\ writes \in Seq(Puts) /\ batch \in Seq(Blocks) /\ hbatch \in Seq(Blocks)
    /\ ready \in [Procs -> Blocks \cup {None}] /\ index \in [Procs -> Blocks \cup {None}]
    /\ rleft \subseteq Blocks /\ rhead \in Blocks \cup {None}
    /\ lead \in [Blocks -> 0..2]
    /\ rewinds \in 0..MaxRewinds /\ rollbacks \in 0..MaxRollbacks /\ crashes \in 0..MaxCrashes
    /\ panicked \in BOOLEAN

\* Whenever mu is free, the head block and all of its ancestors are the
\* canonical blocks of their numbers: insert and reorg rewrite the whole chain.
CanonicalChain ==
    Unlocked => \A b \in Ancestors[currentBlock] : canon[Number[b]] = b

\* The database and the heads keep their types and agree on the chain.
WellFormed == TypeOK /\ CanonicalChain

\* Whenever mu is free, no block that was imported is heavier than the head,
\* whatever the order in which InsertChain and the miner call WriteBlock.
HeaviestHead ==
    Unlocked => \A b \in Stored : Td[b] <= Td[currentBlock]

\* When no import is in progress, a transaction is found by its hash exactly
\* when it is in the canonical chain, and in the block that contains it: reorg
\* indexes the new chain and unindexes what only the old one contained.
TxIndexed ==
    Unlocked /\ (\A p \in Procs : index[p] = None) =>
        \A t \in Txs :
            LET in == {b \in Ancestors[currentBlock] : t \in TxsOf[b]}
            IN  IF in = {} THEN lookup[t] = None ELSE lookup[t] \in in

\* A stored header owns a body and a total difficulty, at every moment the
\* process may stop: WriteBlock writes the header last, SetHead deletes it
\* first ("signaling full block ownership", core/database_util.go).
OwnedBlocks == headers \subseteq bodies \cap tds

\* A stored header has a total difficulty, at every moment the process may
\* stop, also when headers are written without bodies.
HeadersHaveTd == headers \subseteq tds

\* Whenever mu is free, the head block can be used: it is stored, with its
\* difficulty and its state, after any SetHead and any restart.
HeadUsable == Unlocked => currentBlock \in Stored \cap tds \cap states

\* Whenever mu is free, all ancestors of the head block are stored: WriteBlock
\* refuses a block of a side chain that SetHead has cut.  A stop in the middle
\* of SetHead may leave a head without ancestors.
AncestryStored == Unlocked /\ crashes = 0 => Ancestors[currentBlock] \subseteq Stored

\* A restart while no operation holds mu comes back to the same three heads:
\* the database mirrors them.
RestartKeepsHeads ==
    [][crashes' > crashes /\ Unlocked => UNCHANGED heads]_vars

\* Whenever mu is free, the head header and its ancestors are stored and are
\* the canonical headers of their numbers: writeHeader overwrites the stale
\* ones, also after Rollback or after SetHead.  (A stop or a panic may come
\* half-way, and a SetHead after a Rollback leaves the canonical numbers above
\* the head.)
HeaderChainCanonical ==
    Unlocked /\ crashes = 0 /\ ~panicked /\ (rewinds = 0 \/ rollbacks = 0) =>
        \A b \in Ancestors[currentHeader] : b \in headers /\ canon[Number[b]] = b

\* As long as headers are only added, a number has a canonical hash only if it
\* is that of an ancestor of the head header: writeHeader deletes the numbers
\* above a new head header that is lower than the last one.
NumbersCanonical ==
    Unlocked /\ crashes = 0 /\ rewinds = 0 /\ rollbacks = 0 =>
        \A n \in Heights : canon[n] # None => canon[n] \in Ancestors[currentHeader]

\* The canonical numbers are those of the head header's chain, none missing and
\* none left over, whichever header chain overtakes which (writeHeader).
HeadersCanonical == HeaderChainCanonical /\ NumbersCanonical

\* Whenever mu is free, the fast head is stored with its body and difficulty:
\* InsertReceiptChain moves it after all of its workers have finished.  (SetHead
\* may delete the block in between.)
FastHeadComplete == Unlocked /\ rewinds = 0 => currentFast \in Stored \cap tds

\* futureBlocks are "blocks added for later processing": a valid one does not
\* stay there for ever.
FutureProcessed ==
    \A b \in Blocks \ Bad : b \in futureBlocks ~> b \notin futureBlocks

===========================================================================
