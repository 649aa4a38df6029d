------------------------------ MODULE TrieSync ------------------------------
(***************************************************************************)
(* The scheduler of a state download, trie/sync.go and core/state/sync.go:  *)
(* which trie nodes to retrieve next, what to do with one that arrived, and *)
(* when a node may be written to the database, which is not before the      *)
(* whole of its subtrie is there.                                           *)
(*                                                                          *)
(* Refs[n] are the hashes in the node n: those of its child nodes, and, in  *)
(* the leaf of an account, the root of the account's storage and the hash   *)
(* of its code (the callback of NewStateSync).  The three are scheduled by  *)
(* children, AddSubTrie and AddRawEntry in the same way.  The priority      *)
(* queue hands its hashes out deepest first; here it hands out any.         *)
(*                                                                          *)
(* A crash or an aborted sync loses the scheduler and keeps the database.   *)
(* Results that the goroutine of an aborted sync still holds are processed  *)
(* by the scheduler that followed it (queue.go, deliverNodeData).           *)
(***************************************************************************)
EXTENDS Integers, Sequences, FiniteSets

CONSTANTS
    Nodes,        \* trie nodes and contract codes, by their hash
    Refs,         \* Refs[n]: the hashes in n, in order, repetitions included
    Roots,        \* the roots that may be synced
    MaxSyncs,     \* bound: schedulers created
    NoRoot        \* no scheduler yet

ASSUME TrieAssumption ==
    /\ IsFiniteSet(Nodes) /\ Roots \subseteq Nodes /\ NoRoot \notin Nodes
    /\ Refs \in [Nodes -> Seq(Nodes)]
    /\ \A S \in (SUBSET Nodes) \ {{}} :      \* a hash covers what it refers to
         \E n \in S : \A i \in DOMAIN Refs[n] : Refs[n][i] \notin S
    /\ MaxSyncs \in Nat

VARIABLES
    database,     \* nodes written to disk
    root,         \* the root of the current scheduler
    requests,     \* hashes with a request
    deps,         \* deps[n]: what n waits for, by the scheduler's count
    parents,      \* parents[n]: the references that wait for n
    taskQueue,    \* hashes that Missing has not handed out
    fetching,     \* hashes handed out whose data is awaited
    late,         \* hashes whose data an earlier sync still holds
    processed,    \* processed[n]: how often the data of n was processed
    syncs         \* schedulers created so far

scheduler == <<root, requests, deps, parents, taskQueue, processed>>
vars == <<database, scheduler, fetching, late, syncs>>

\* A reference: the index-th hash of the node from, met when the data of
\* that node was processed for the round-th time.
References == [from : Nodes, round : Nat, index : Nat]

WaitsOf(p, S) == {w \in S : w.from = p}

\* The scheduler's maps keep their types; no count of dependencies is negative.
TypeOK ==
    /\ database \subseteq Nodes /\ root \in Roots \cup {NoRoot}
    /\ requests \subseteq Nodes /\ taskQueue \subseteq Nodes
    /\ fetching \subseteq Nodes /\ late \subseteq Nodes
    /\ deps \in [Nodes -> Nat] /\ processed \in [Nodes -> Nat]
    /\ parents \in [Nodes -> SUBSET References] /\ syncs \in 0..MaxSyncs

---------------------------------------------------------------------------
(* Creating a scheduler.                                                    *)

\* NewStateSync, NewTrieSync and AddSubTrie on the root: a root that is in
\* the database needs nothing.
NewTrieSync(r) ==
    /\ syncs < MaxSyncs
    /\ syncs' = syncs + 1
    /\ root' = r
    /\ requests' = {r} \ database
    /\ taskQueue' = {r} \ database
    /\ deps' = [n \in Nodes |-> 0]
    /\ parents' = [n \in Nodes |-> {}]
    /\ processed' = [n \in Nodes |-> 0]
    /\ fetching' = {}
    /\ late' \in SUBSET (fetching \cup late)
    /\ UNCHANGED database

---------------------------------------------------------------------------
(* Handing out the missing nodes.                                           *)

\* Mutation: Missing popping one hash more than it returns.
MissingLosesOne(S) ==
    /\ S # {} /\ S \subseteq taskQueue
    /\ taskQueue' = taskQueue \ S
    /\ \E h \in S : fetching' = fetching \cup (S \ {h})
    /\ UNCHANGED <<database, root, requests, deps, parents, processed, late, syncs>>

\* Missing(max): up to max hashes leave the queue.
Missing(S) ==
    /\ S # {} /\ S \subseteq taskQueue
    /\ taskQueue' = taskQueue \ S
    /\ fetching' = fetching \cup S
    /\ UNCHANGED <<database, root, requests, deps, parents, processed, late, syncs>>

---------------------------------------------------------------------------
(* Processing a node.                                                       *)

\* Mutation: children skipping what is already requested for another parent.
UnresolvedNew(h) ==
    {[from |-> h, round |-> processed[h], index |-> i] :
        i \in {j \in DOMAIN Refs[h] : Refs[h][j] \notin database \cup requests}}

\* The references of h that the database cannot resolve: children, and the
\* early returns of AddSubTrie and AddRawEntry.
Unresolved(h) ==
    {[from |-> h, round |-> processed[h], index |-> i] :
        i \in {j \in DOMAIN Refs[h] : Refs[h][j] \notin database}}

\* The hash a reference holds: a child's or, in the leaf of an account, the root of
\* its storage or the hash of its code, as the callback of NewStateSync reads them.
Target(w) == Refs[w.from][w.index]

\* Mutation: the dependencies counted without the ones requested before.
ScheduleCountsNew(h, W) ==
    LET new == {Target(w) : w \in W} \ requests
    IN  /\ requests' = requests \cup new
        /\ taskQueue' = taskQueue \cup new
        /\ parents' = [n \in Nodes |-> parents[n] \cup {w \in W : Target(w) = n}]
        /\ deps' = [deps EXCEPT ![h] = @ + Cardinality(new)]
        /\ UNCHANGED database

\* schedule, for every hash in W: one that already has a request gets another
\* parent, another one is queued.
Schedule(h, W) ==
    LET new == {Target(w) : w \in W} \ requests
    IN  /\ requests' = requests \cup new
        /\ taskQueue' = taskQueue \cup new
        /\ parents' = [n \in Nodes |-> parents[n] \cup {w \in W : Target(w) = n}]
        /\ deps' = [deps EXCEPT ![h] = @ + Cardinality(W)]
        /\ UNCHANGED database

\* What the parents of the nodes in C lose when C is committed.
Released(C) == UNION {parents[n] : n \in C}

\* C is what commit(h) writes: h, then every parent whose last dependency is
\* in C, up the trie.
IsCommit(h, C) ==
    /\ h \in C
    /\ \A p \in Nodes \ {h} :
         p \in C <=> /\ WaitsOf(p, Released(C)) # {}
                     /\ deps[p] = Cardinality(WaitsOf(p, Released(C)))

\* Mutation: the parents that complete forgotten without being written.
CommitOnlyItself(h) ==
    \E C \in SUBSET requests :
        /\ IsCommit(h, C)
        /\ database' = database \cup {h}
        /\ requests' = requests \ C
        /\ deps' = [p \in Nodes |-> IF p \in C THEN 0
                                    ELSE deps[p] - Cardinality(WaitsOf(p, Released(C)))]
        /\ parents' = [n \in Nodes |-> IF n \in C THEN {} ELSE parents[n]]
        /\ UNCHANGED taskQueue

\* commit and the commits of the parents it completes, in one batch.
Commit(h) ==
    \E C \in SUBSET requests :
        /\ IsCommit(h, C)
        /\ database' = database \cup C
        /\ requests' = requests \ C
        /\ deps' = [p \in Nodes |-> IF p \in C THEN 0
                                    ELSE deps[p] - Cardinality(WaitsOf(p, Released(C)))]
        /\ parents' = [n \in Nodes |-> IF n \in C THEN {} ELSE parents[n]]
        /\ UNCHANGED taskQueue

\* Process, on the data of one hash the scheduler knows: the children that
\* are not in the database are scheduled, and a node without any, and that
\* waits for none, is committed at once.
ProcessKnown(h) ==
    LET W == Unresolved(h)
    IN  /\ IF W = {} /\ deps[h] = 0 THEN Commit(h) ELSE Schedule(h, W)
        /\ processed' = [processed EXCEPT ![h] = @ + 1]
        /\ UNCHANGED <<root, syncs>>

\* Process, on a hash without a request: an error.
ProcessUnknown(h) == UNCHANGED <<database, scheduler, syncs>>

\* The scheduler's Process, called by deliverNodeData with a result of this
\* sync or of an earlier one.
Process(h) ==
    /\ root # NoRoot
    /\ \/ h \in fetching /\ fetching' = fetching \ {h} /\ UNCHANGED late
       \/ h \in late /\ late' = late \ {h} /\ UNCHANGED fetching
    /\ IF h \in requests THEN ProcessKnown(h) ELSE ProcessUnknown(h)

Init ==
    /\ database = {} /\ root = NoRoot /\ syncs = 0
    /\ requests = {} /\ taskQueue = {} /\ fetching = {} /\ late = {}
    /\ deps = [n \in Nodes |-> 0] /\ processed = [n \in Nodes |-> 0]
    /\ parents = [n \in Nodes |-> {}]

Next ==
    \/ \E r \in Roots : NewTrieSync(r)
    \/ \E S \in SUBSET taskQueue : Missing(S)
    \/ \E h \in Nodes : Process(h)

Spec == Init /\ [][Next]_vars

\* The fetcher asks for what is missing, and what it asks for arrives from
\* some peer and is processed.
FairSpec ==
    /\ Spec
    /\ WF_vars(\E S \in SUBSET taskQueue : Missing(S))
    /\ \A h \in Nodes : WF_vars(Process(h))

---------------------------------------------------------------------------
(* Properties.                                                              *)

\* A node is in the database only with its whole subtrie, at every instant a
\* crash may come: AddSubTrie and children take a node on disk for a subtrie
\* on disk and never look below it again.
SubtriesStored ==
    \A n \in database : \A i \in DOMAIN Refs[n] : Refs[n][i] \in database

\* Pending() = 0, for which the processor waits before it commits the pivot
\* block, means that the root was written, however the schedulers before
\* this one ended.
IdleMeansComplete == root # NoRoot /\ requests = {} => root \in database

\* The count of dependencies of a request is the number of references that
\* wait for a pending request, also when its data is processed twice: too low
\* and the node is written before its subtrie, too high and it never is.
DepsExact ==
    \A n \in Nodes :
        LET W == WaitsOf(n, Released(requests))
        IN  /\ deps[n] = Cardinality(W)
            /\ \A w \in W : w.round < processed[n]

\* While no earlier sync interferes, a hash that is queued or being fetched
\* has a request, so that its data is never refused as not requested (which
\* would cancel the sync).
OwnResultsKnown == syncs <= 1 => fetching \cup taskQueue \subseteq requests

\* Requests, queue and counts of dependencies agree after every Process, however
\* the trie shares its nodes and whatever an earlier sync left behind.
RequestsConsistent == TypeOK /\ DepsExact /\ OwnResultsKnown

\* The download of a state ends: the root of a scheduler is in the database
\* at last, or another scheduler takes over.  No order of results, sharing of
\* nodes or leftover of an earlier sync leaves two nodes waiting for ever.
StateCompletes ==
    \A r \in Roots : root = r ~> (r \in database \/ root # r)
==============================================================================
