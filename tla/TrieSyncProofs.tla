--------------------------- MODULE TrieSyncProofs ---------------------------
(***************************************************************************)
(* Proofs about TrieSync for any finite set of nodes, any acyclic          *)
(* references, any roots and any number of schedulers.                     *)
(***************************************************************************)
EXTENDS TrieSync, FiniteSetTheorems, TLAPS

\* What is requested is not stored, and the root is one or the other.
RootPending ==
    /\ requests \cap database = {}
    /\ root # NoRoot => root \in requests \cup database

\* A reference waits for the node it refers to; both ends are requested.
WaitsTargeted ==
    /\ IsFiniteSet(Released(requests))
    /\ \A n \in Nodes : \A w \in parents[n] :
         /\ n \in requests /\ w.from \in requests
         /\ w.index \in DOMAIN Refs[w.from] /\ Target(w) = n

\* A request whose data was processed waits for each of its references that is
\* not stored.  What was processed and is no longer requested is stored.
ReferencesCovered ==
    \A n \in Nodes : processed[n] > 0 =>
        /\ n \in requests \cup database
        /\ n \in requests =>
             \A i \in DOMAIN Refs[n] :
                \/ Refs[n][i] \in database
                \/ \E w \in parents[Refs[n][i]] : w.from = n

\* Until a second scheduler is created there are no late results, and what is
\* queued or being fetched is requested, once, and was not processed.
FirstSync ==
    /\ syncs = 0 => fetching = {} /\ taskQueue = {}
    /\ syncs <= 1 => /\ late = {} /\ fetching \cap taskQueue = {}
                     /\ \A n \in fetching \cup taskQueue : n \in requests /\ processed[n] = 0

IInv == /\ TypeOK /\ DepsExact /\ SubtriesStored
        /\ RootPending /\ WaitsTargeted /\ ReferencesCovered /\ FirstSync

-----------------------------------------------------------------------------
(* Facts about references and commits.                                     *)

\* A set of references contains finitely many of any one node if it is finite.
LEMMA WaitsFinite ==
    ASSUME NEW S, IsFiniteSet(S), NEW T \in SUBSET S, NEW p
    PROVE  /\ IsFiniteSet(WaitsOf(p, T)) /\ WaitsOf(p, T) \in SUBSET WaitsOf(p, S)
           /\ Cardinality(WaitsOf(p, T)) \in Nat
<1>1. WaitsOf(p, T) \in SUBSET S /\ WaitsOf(p, T) \in SUBSET WaitsOf(p, S)
  BY DEF WaitsOf
<1>2. IsFiniteSet(WaitsOf(p, T))
  BY <1>1, FS_Subset
<1> QED
  BY <1>1, <1>2, FS_CardinalityType

\* The references met when h is processed are finitely many, all of this round,
\* and each refers to a node that is not stored.
LEMMA UnresolvedProperties ==
    ASSUME TypeOK, NEW h \in Nodes
    PROVE  /\ IsFiniteSet(Unresolved(h)) /\ Cardinality(Unresolved(h)) \in Nat
           /\ Unresolved(h) \in SUBSET References
           /\ \A w \in Unresolved(h) :
                /\ w.from = h /\ w.round = processed[h] /\ w.index \in DOMAIN Refs[h]
                /\ Target(w) \in Nodes \ database
           /\ \A i \in DOMAIN Refs[h] :
                \/ Refs[h][i] \in database
                \/ \E w \in Unresolved(h) : w.from = h /\ Target(w) = Refs[h][i]
<1> DEFINE D == {j \in DOMAIN Refs[h] : Refs[h][j] \notin database}
           f == [i \in D |-> [from |-> h, round |-> processed[h], index |-> i]]
<1>1. Refs[h] \in Seq(Nodes) /\ DOMAIN Refs[h] = 1..Len(Refs[h]) /\ Len(Refs[h]) \in Nat
  BY TrieAssumption
<1>2. IsFiniteSet(1..Len(Refs[h]))
  BY <1>1, FS_Interval
<1>3. IsFiniteSet(D)
  BY <1>1, <1>2, FS_Subset
<1>4. f \in Surjection(D, Unresolved(h))
  BY DEF Surjection, Unresolved
<1>5. IsFiniteSet(Unresolved(h))
  <2> HIDE DEF D, f
  <2> QED
    BY <1>3, <1>4, FS_Surjection
<1>6. Cardinality(Unresolved(h)) \in Nat
  BY <1>5, FS_CardinalityType
<1>7. processed[h] \in Nat
  BY DEF TypeOK
<1>8. \A i \in DOMAIN Refs[h] : i \in Nat /\ Refs[h][i] \in Nodes
  BY <1>1
<1>9. ASSUME NEW i \in DOMAIN Refs[h], Refs[h][i] \notin database
      PROVE  \E w \in Unresolved(h) : w.from = h /\ Target(w) = Refs[h][i]
  <2>1. [from |-> h, round |-> processed[h], index |-> i] \in Unresolved(h)
    BY <1>9 DEF Unresolved
  <2> QED
    BY <2>1 DEF Target
<1>10. ASSUME NEW w \in Unresolved(h)
       PROVE  /\ w \in References
              /\ w.from = h /\ w.round = processed[h] /\ w.index \in DOMAIN Refs[h]
              /\ Target(w) \in Nodes \ database
  BY <1>7, <1>8 DEF Unresolved, References, Target
<1> QED
  BY <1>5, <1>6, <1>9, <1>10

\* What waits for a request waits for one in C exactly if it refers to one in C.
LEMMA ReleasedByTarget ==
    ASSUME TypeOK, WaitsTargeted, NEW C \in SUBSET requests
    PROVE  /\ Released(C) \in SUBSET Released(requests)
           /\ \A w \in Released(requests) :
                /\ Target(w) \in requests /\ w \in parents[Target(w)]
                /\ w.from \in requests /\ w.index \in DOMAIN Refs[w.from]
                /\ w \in Released(C) <=> Target(w) \in C
  BY DEF Released, WaitsTargeted, TypeOK

\* All that a committed node waits for is committed with it, so that its
\* references are all stored then.
LEMMA CommitClosed ==
    ASSUME IInv, NEW h \in requests, Unresolved(h) = {}, deps[h] = 0,
           NEW C \in SUBSET requests, IsCommit(h, C), NEW p \in C
    PROVE  /\ WaitsOf(p, Released(requests)) \in SUBSET Released(C)
           /\ p # h => processed[p] > 0
           /\ \A i \in DOMAIN Refs[p] : Refs[p][i] \in database \cup C
<1> DEFINE all == WaitsOf(p, Released(requests))
           gone == WaitsOf(p, Released(C))
<1>1. p \in Nodes /\ h \in Nodes /\ processed[p] \in Nat
  BY DEF IInv, TypeOK
<1>2. IsFiniteSet(all) /\ gone \in SUBSET all
  BY ReleasedByTarget, WaitsFinite DEF IInv, WaitsTargeted
<1>3. CASE p = h
  <2>1. all = {}
    <3>1. Cardinality(all) = 0
      BY <1>1, <1>3 DEF IInv, DepsExact
    <3> HIDE DEF all
    <3> QED
      BY <1>2, <3>1, FS_EmptySet
  <2>2. \A i \in DOMAIN Refs[p] : Refs[p][i] \in database
    BY <1>1, <1>3, UnresolvedProperties DEF IInv
  <2> QED
    BY <1>3, <2>1, <2>2
<1>4. CASE p # h
  <2>1. gone # {} /\ deps[p] = Cardinality(gone) /\ deps[p] = Cardinality(all)
    BY <1>1, <1>4 DEF IsCommit, IInv, DepsExact
  <2>2. gone = all
    BY <1>2, <2>1, FS_Subset, Zenon
  <2>3. processed[p] > 0
    <3>1. PICK w \in all : TRUE
      BY <2>1, <2>2
    <3>2. w.round < processed[p]
      BY <1>1, <3>1 DEF IInv, DepsExact
    <3>3. w \in References
      BY DEF IInv, WaitsOf, Released, TypeOK
    <3> QED
      BY <1>1, <3>2, <3>3 DEF References
  <2>4. ASSUME NEW i \in DOMAIN Refs[p], Refs[p][i] \notin database
        PROVE  Refs[p][i] \in C
    <3>1. p \in requests
      OBVIOUS
    <3>2. PICK w \in parents[Refs[p][i]] : w.from = p
      BY <1>1, <2>3, <2>4, <3>1 DEF IInv, ReferencesCovered
    <3>3. Refs[p][i] \in Nodes
      BY <1>1, TrieAssumption
    <3>4. Target(w) = Refs[p][i] /\ Refs[p][i] \in requests
      BY <3>2, <3>3 DEF IInv, WaitsTargeted
    <3>5. w \in all
      BY <3>2, <3>4 DEF WaitsOf, Released
    <3>6. w \in Released(C) /\ w \in Released(requests)
      BY <2>2, <3>5 DEF WaitsOf
    <3> QED
      BY <3>4, <3>6, ReleasedByTarget DEF IInv
  <2> QED
    BY <2>2, <2>3, <2>4 DEF WaitsOf
<1> QED
  BY <1>3, <1>4

-----------------------------------------------------------------------------
(* The inductive invariant.                                                *)

\* There is no scheduler at first, and nothing in the database.
LEMMA InitIInv == Init => IInv
<1> SUFFICES ASSUME Init PROVE IInv
  OBVIOUS
<1>1. Released(requests) = {} /\ \A n \in Nodes : WaitsOf(n, Released(requests)) = {}
  BY DEF Init, Released, WaitsOf
<1>2. TypeOK
  BY TrieAssumption DEF Init, TypeOK
<1>3. DepsExact /\ WaitsTargeted
  BY <1>1, FS_EmptySet DEF Init, DepsExact, WaitsTargeted
<1>4. SubtriesStored /\ RootPending /\ ReferencesCovered /\ FirstSync
  BY DEF Init, SubtriesStored, RootPending, ReferencesCovered, FirstSync
<1> QED
  BY <1>2, <1>3, <1>4 DEF IInv

\* A new scheduler asks for its root unless it is stored.
LEMMA NewTrieSyncIInv ==
    ASSUME IInv, NEW r \in Roots, NewTrieSync(r)
    PROVE  IInv'
<1>1. /\ requests' = {r} \ database /\ root' = r /\ database' = database /\ r \in Nodes
      /\ parents' = [n \in Nodes |-> {}] /\ processed' = [n \in Nodes |-> 0]
      /\ deps' = [n \in Nodes |-> 0]
  BY TrieAssumption DEF NewTrieSync
<1>2. /\ Released(requests)' = {}
      /\ \A n \in Nodes : WaitsOf(n, Released(requests))' = {}
  BY <1>1 DEF Released, WaitsOf
<1>3. TypeOK'
  <2>1. syncs' \in 0..MaxSyncs
    BY TrieAssumption DEF NewTrieSync, IInv, TypeOK
  <2>2. taskQueue' \subseteq Nodes /\ fetching' \subseteq Nodes /\ late' \subseteq Nodes
    BY <1>1 DEF NewTrieSync, IInv, TypeOK
  <2> QED
    BY <1>1, <2>1, <2>2 DEF IInv, TypeOK
<1>4. DepsExact' /\ WaitsTargeted'
  BY <1>1, <1>2, FS_EmptySet, SMTT(30) DEF DepsExact, WaitsTargeted
<1>5. SubtriesStored' /\ RootPending' /\ ReferencesCovered'
  BY <1>1 DEF IInv, SubtriesStored, RootPending, ReferencesCovered
<1>6. FirstSync'
  BY <1>1 DEF NewTrieSync, IInv, TypeOK, FirstSync
<1> QED
  BY <1>3, <1>4, <1>5, <1>6 DEF IInv

\* Hashes go from the queue to the fetcher.
LEMMA MissingIInv ==
    ASSUME IInv, NEW S \in SUBSET taskQueue, Missing(S)
    PROVE  IInv'
<1>1. TypeOK' /\ FirstSync'
  BY DEF Missing, IInv, TypeOK, FirstSync
<1>2. UNCHANGED <<database, root, requests, deps, parents, processed>>
  BY DEF Missing
<1>3. DepsExact' /\ SubtriesStored' /\ RootPending' /\ WaitsTargeted' /\ ReferencesCovered'
  BY <1>2 DEF IInv, DepsExact, SubtriesStored, RootPending, WaitsTargeted, ReferencesCovered,
              Released, WaitsOf, Target
<1> QED
  BY <1>1, <1>3 DEF IInv

\* The data of h arrives, from this sync or from an earlier one.
Arrives(h) == \/ h \in fetching /\ fetching' = fetching \ {h} /\ UNCHANGED late
              \/ h \in late /\ late' = late \ {h} /\ UNCHANGED fetching

\* h is processed and now waits for the references that are not stored.
LEMMA ScheduleIInv ==
    ASSUME IInv, NEW h \in requests, Arrives(h), Schedule(h, Unresolved(h)),
           processed' = [processed EXCEPT ![h] = @ + 1], UNCHANGED <<root, syncs>>
    PROVE  IInv'
<1> DEFINE W == Unresolved(h)
           new == {Target(w) : w \in W} \ requests
<1>1. /\ h \in Nodes /\ processed \in [Nodes -> Nat] /\ deps \in [Nodes -> Nat]
      /\ parents \in [Nodes -> SUBSET References] /\ requests \subseteq Nodes
  BY DEF IInv, TypeOK
<1>2. /\ requests' = requests \cup new /\ taskQueue' = taskQueue \cup new
      /\ parents' = [n \in Nodes |-> parents[n] \cup {w \in W : Target(w) = n}]
      /\ deps' = [deps EXCEPT ![h] = @ + Cardinality(W)]
      /\ database' = database
  BY DEF Schedule
<1>3. /\ IsFiniteSet(W) /\ Cardinality(W) \in Nat /\ W \in SUBSET References
      /\ \A w \in W : /\ w.from = h /\ w.round = processed[h] /\ w.index \in DOMAIN Refs[h]
                      /\ Target(w) \in Nodes \ database
      /\ \A i \in DOMAIN Refs[h] :
           Refs[h][i] \in database \/ \E w \in W : w.from = h /\ Target(w) = Refs[h][i]
  BY <1>1, UnresolvedProperties DEF IInv
<1> HIDE DEF W
<1>4. Released(requests)' = Released(requests) \cup W
  <2>1. \A n \in Nodes \ requests : parents[n] = {}
    BY DEF IInv, WaitsTargeted
  <2>2. \A w \in W : Target(w) \in requests \cup new /\ Target(w) \in Nodes
    BY <1>3
  <2>3. requests \cup new \subseteq Nodes
    BY <1>1, <1>3
  <2> HIDE DEF new
  <2> QED
    BY <1>2, <2>1, <2>2, <2>3 DEF Released
<1>5. TypeOK'
  <2>1. processed' \in [Nodes -> Nat] /\ deps' \in [Nodes -> Nat]
    BY <1>1, <1>2, <1>3
  <2>2. parents' \in [Nodes -> SUBSET References]
    BY <1>1, <1>2, <1>3
  <2>3. requests' \subseteq Nodes /\ taskQueue' \subseteq Nodes
    BY <1>2, <1>3 DEF IInv, TypeOK
  <2>4. fetching' \subseteq Nodes /\ late' \subseteq Nodes
    BY DEF Arrives, IInv, TypeOK
  <2> QED
    BY <1>2, <2>1, <2>2, <2>3, <2>4 DEF IInv, TypeOK
<1>6. DepsExact'
  <2> SUFFICES ASSUME NEW n \in Nodes
               PROVE  /\ deps'[n] = Cardinality(WaitsOf(n, Released(requests))')
                      /\ \A w \in WaitsOf(n, Released(requests))' : w.round < processed'[n]
    BY DEF DepsExact
  <2> DEFINE old == WaitsOf(n, Released(requests))
  <2>1. /\ deps[n] = Cardinality(old) /\ \A w \in old : w.round < processed[n]
        /\ IsFiniteSet(old) /\ old \in SUBSET References
    <3>1. IsFiniteSet(old)
      BY WaitsFinite DEF IInv, WaitsTargeted
    <3>2. old \in SUBSET References
      BY <1>1 DEF WaitsOf, Released
    <3> QED
      BY <3>1, <3>2 DEF IInv, DepsExact
  <2>2. CASE n # h
    <3>1. WaitsOf(n, Released(requests))' = old
      BY <1>3, <1>4, <2>2 DEF WaitsOf
    <3> QED
      BY <1>1, <1>2, <2>1, <2>2, <3>1, Zenon
  <2>3. CASE n = h
    <3>1. WaitsOf(n, Released(requests))' = old \cup W
      BY <1>3, <1>4, <2>3 DEF WaitsOf
    <3>2. \A w \in W : w.round = processed[n] /\ processed[n] \in Nat
      BY <1>1, <1>3, <2>3
    <3>3. old \cap W = {}
      <4> HIDE DEF old
      <4> QED
        BY <2>1, <3>2
    <3>4. Cardinality(old \cup W) = Cardinality(old) + Cardinality(W)
      <4> HIDE DEF old
      <4>1. Cardinality(old) \in Nat
        BY <2>1, FS_CardinalityType
      <4>2. Cardinality(old \cup W) = Cardinality(old) + Cardinality(W) - Cardinality(old \cap W)
        BY <1>3, <2>1, FS_Union
      <4>3. Cardinality(old \cap W) = 0
        BY <3>3, FS_EmptySet
      <4> QED
        BY <1>3, <4>1, <4>2, <4>3
    <3>5. deps'[n] = Cardinality(old) + Cardinality(W)
      BY <1>1, <1>2, <2>1, <2>3
    <3>6. \A w \in old \cup W : w.round < processed'[n]
      <4>1. processed'[n] = processed[n] + 1 /\ processed[n] \in Nat
        BY <1>1, <2>3
      <4>2. \A w \in old : w.round \in Nat
        BY <2>1 DEF References
      <4> HIDE DEF old
      <4> QED
        BY <2>1, <3>2, <4>1, <4>2
    <3> QED
      BY <3>1, <3>4, <3>5, <3>6
  <2> QED
    BY <2>2, <2>3
<1>7. WaitsTargeted'
  <2>1. IsFiniteSet(Released(requests)')
    <3>1. IsFiniteSet(Released(requests))
      BY DEF IInv, WaitsTargeted
    <3>2. IsFiniteSet(Released(requests) \cup W)
      BY <1>3, <3>1, FS_Union, Zenon
    <3> QED
      BY <1>4, <3>2
  <2>2. ASSUME NEW n \in Nodes, NEW w \in parents'[n]
        PROVE  /\ n \in requests' /\ w.from \in requests'
               /\ w.index \in DOMAIN Refs[w.from] /\ Target(w) = n
    BY <1>2, <1>3, <2>2 DEF IInv, WaitsTargeted
  <2> QED
    BY <2>1, <2>2 DEF WaitsTargeted, Target
<1>8. SubtriesStored' /\ RootPending'
  BY <1>2, <1>3 DEF IInv, SubtriesStored, RootPending
<1>9. ReferencesCovered'
  <2> SUFFICES ASSUME NEW n \in Nodes, processed'[n] > 0
               PROVE  /\ n \in requests' \cup database'
                      /\ n \in requests' =>
                           \A i \in DOMAIN Refs[n] :
                              \/ Refs[n][i] \in database'
                              \/ \E w \in parents'[Refs[n][i]] : w.from = n
    BY DEF ReferencesCovered
  <2>1. \A i \in DOMAIN Refs[n] : Refs[n][i] \in Nodes
    BY TrieAssumption
  <2>2. CASE n = h
    BY <1>2, <1>3, <2>1, <2>2
  <2>3. CASE n # h
    <3>1. processed[n] > 0
      BY <1>1, <2>3
    <3>2. n \in requests \cup database /\ n \notin new
      BY <1>3, <3>1 DEF IInv, ReferencesCovered
    <3> QED
      BY <1>2, <2>1, <3>1, <3>2 DEF IInv, ReferencesCovered
  <2> QED
    BY <2>2, <2>3
<1>10. FirstSync'
  <2> SUFFICES ASSUME syncs <= 1
               PROVE  /\ syncs # 0
                      /\ late' = {} /\ fetching' \cap taskQueue' = {}
                      /\ \A n \in fetching' \cup taskQueue' : n \in requests' /\ processed'[n] = 0
    BY DEF FirstSync, IInv, TypeOK
  <2>1. /\ late = {} /\ fetching \cap taskQueue = {}
        /\ \A n \in fetching \cup taskQueue : n \in requests /\ processed[n] = 0
    BY DEF IInv, FirstSync
  <2>2. h \in fetching /\ fetching' = fetching \ {h} /\ late' = {}
    BY <2>1 DEF Arrives
  <2>3. syncs # 0
    BY <2>2 DEF IInv, FirstSync
  <2>4. \A n \in new : n \in Nodes \ requests /\ processed[n] = 0
    BY <1>1, <1>3 DEF IInv, ReferencesCovered
  <2>5. h \notin fetching' \cup taskQueue'
    BY <1>2, <2>1, <2>2
  <2> HIDE DEF new
  <2> QED
    BY <1>1, <1>2, <2>1, <2>2, <2>3, <2>4, <2>5 DEF IInv, TypeOK
<1> QED
  BY <1>5, <1>6, <1>7, <1>8, <1>9, <1>10 DEF IInv

\* h and the parents it completes are written.
LEMMA CommitIInv ==
    ASSUME IInv, NEW h \in requests, Arrives(h), Unresolved(h) = {}, deps[h] = 0, Commit(h),
           processed' = [processed EXCEPT ![h] = @ + 1], UNCHANGED <<root, syncs>>
    PROVE  IInv'
<1>1. PICK C \in SUBSET requests :
        /\ IsCommit(h, C)
        /\ database' = database \cup C
        /\ requests' = requests \ C
        /\ deps' = [p \in Nodes |-> IF p \in C THEN 0
                                    ELSE deps[p] - Cardinality(WaitsOf(p, Released(C)))]
        /\ parents' = [n \in Nodes |-> IF n \in C THEN {} ELSE parents[n]]
        /\ taskQueue' = taskQueue
  BY DEF Commit
<1>2. /\ h \in Nodes /\ processed \in [Nodes -> Nat] /\ deps \in [Nodes -> Nat]
      /\ parents \in [Nodes -> SUBSET References] /\ requests \subseteq Nodes /\ h \in C
  BY <1>1 DEF IInv, TypeOK, IsCommit
<1>3. \A p \in C : /\ WaitsOf(p, Released(requests)) \in SUBSET Released(C)
                   /\ p # h => processed[p] > 0
                   /\ \A i \in DOMAIN Refs[p] : Refs[p][i] \in database \cup C
  BY <1>1, CommitClosed
<1>4. /\ Released(C) \in SUBSET Released(requests)
      /\ \A w \in Released(requests) : /\ Target(w) \in requests /\ w \in parents[Target(w)]
                                       /\ w \in Released(C) <=> Target(w) \in C
  BY ReleasedByTarget DEF IInv
<1>5. Released(requests)' = Released(requests) \ Released(C)
  <2>1. Released(requests)' = UNION {parents[n] : n \in requests \ C}
    BY <1>1, <1>2, Zenon DEF Released
  <2>2. \A n \in requests : \A w \in parents[n] : Target(w) = n
    BY <1>2 DEF IInv, WaitsTargeted
  <2> QED
    BY <1>4, <2>1, <2>2 DEF Released
<1>6. ASSUME NEW p \in Nodes
      PROVE  /\ deps'[p] \in Nat /\ deps'[p] = Cardinality(WaitsOf(p, Released(requests))')
             /\ WaitsOf(p, Released(requests))' \in SUBSET WaitsOf(p, Released(requests))
  <2> DEFINE all == WaitsOf(p, Released(requests))
             gone == WaitsOf(p, Released(C))
             left == WaitsOf(p, Released(requests))'
  <2>1. left = all \ gone
    BY <1>5 DEF WaitsOf
  <2>2. IsFiniteSet(all) /\ Cardinality(all) \in Nat /\ IsFiniteSet(gone)
        /\ Cardinality(gone) \in Nat /\ gone \in SUBSET all
    BY <1>4, WaitsFinite, Zenon DEF IInv, WaitsTargeted
  <2>3. CASE p \in C
    <3>1. left = {}
      BY <1>3, <2>1, <2>3 DEF WaitsOf
    <3> QED
      BY <1>1, <2>3, <3>1, FS_EmptySet, SMTT(30)
  <2>4. CASE p \notin C
    <3>1. deps'[p] = Cardinality(all) - Cardinality(gone)
      BY <1>1, <2>4 DEF IInv, DepsExact
    <3> HIDE DEF all, gone, left
    <3>2. all \cap gone = gone /\ Cardinality(gone) <= Cardinality(all)
      BY <2>2, FS_Subset
    <3>3. Cardinality(all \ gone) = Cardinality(all) - Cardinality(gone)
      BY <2>2, <3>2, FS_Difference, Zenon
    <3> QED
      BY <2>1, <2>2, <3>1, <3>2, <3>3 DEF all, left
  <2> QED
    BY <2>3, <2>4
<1>7. TypeOK'
  <2>1. processed' \in [Nodes -> Nat] /\ deps' \in [Nodes -> Nat]
    BY <1>1, <1>2, <1>6
  <2>2. parents' \in [Nodes -> SUBSET References]
    BY <1>1, <1>2
  <2>3. fetching' \subseteq Nodes /\ late' \subseteq Nodes
    BY DEF Arrives, IInv, TypeOK
  <2>4. database' \subseteq Nodes /\ requests' \subseteq Nodes /\ taskQueue' \subseteq Nodes
    BY <1>1 DEF IInv, TypeOK
  <2> QED
    BY <2>1, <2>2, <2>3, <2>4 DEF IInv, TypeOK
<1>8. DepsExact'
  <2>1. ASSUME NEW n \in Nodes, NEW w \in WaitsOf(n, Released(requests))'
        PROVE  w.round < processed'[n]
    <3>0. w \in WaitsOf(n, Released(requests))
      BY <1>6, <2>1
    <3>1. w \in WaitsOf(n, Released(requests)) /\ w \in References
      BY <1>2, <3>0 DEF WaitsOf, Released
    <3>2. w.round < processed[n] /\ w.round \in Nat
      BY <3>1 DEF IInv, DepsExact, References
    <3>3. processed[n] \in Nat /\ processed'[n] \in {processed[n], processed[n] + 1}
      BY <1>2, SMTT(30)
    <3> QED
      BY <3>2, <3>3
  <2> QED
    BY <1>6, <2>1 DEF DepsExact
<1>9. SubtriesStored'
  BY <1>1, <1>3 DEF IInv, SubtriesStored
<1>10. RootPending'
  BY <1>1 DEF IInv, RootPending
<1>11. WaitsTargeted'
  <2>1. IsFiniteSet(Released(requests)')
    BY <1>5, FS_Difference, Zenon DEF IInv, WaitsTargeted
  <2>2. ASSUME NEW n \in Nodes, NEW w \in parents'[n]
        PROVE  /\ n \in requests' /\ w.from \in requests'
               /\ w.index \in DOMAIN Refs[w.from] /\ Target(w) = n
    <3>1. n \notin C /\ w \in parents[n]
      BY <1>1, <2>2
    <3>2. n \in requests /\ w.from \in requests /\ w.index \in DOMAIN Refs[w.from] /\ Target(w) = n
      BY <3>1 DEF IInv, WaitsTargeted
    <3>3. w \in WaitsOf(w.from, Released(requests)) /\ w \in Released(requests)
      BY <3>1, <3>2 DEF WaitsOf, Released
    <3>4. w.from \notin C
      BY <1>3, <1>4, <3>1, <3>2, <3>3, SMTT(30)
    <3> QED
      BY <1>1, <3>1, <3>2, <3>4
  <2> QED
    BY <2>1, <2>2, SMTT(30) DEF WaitsTargeted, Target
<1>12. ReferencesCovered'
  <2> SUFFICES ASSUME NEW n \in Nodes, processed'[n] > 0
               PROVE  /\ n \in requests' \cup database'
                      /\ n \in requests' =>
                           \A i \in DOMAIN Refs[n] :
                              \/ Refs[n][i] \in database'
                              \/ \E w \in parents'[Refs[n][i]] : w.from = n
    BY DEF ReferencesCovered
  <2>1. \A i \in DOMAIN Refs[n] : Refs[n][i] \in Nodes
    BY TrieAssumption
  <2>2. CASE n = h
    BY <1>1, <1>2, <2>2, SMTT(30)
  <2>3. CASE n # h
    <3>1. processed[n] > 0
      BY <1>2, <2>3
    <3> QED
      BY <1>1, <2>1, <3>1 DEF IInv, ReferencesCovered
  <2> QED
    BY <2>2, <2>3
<1>13. FirstSync'
  <2> SUFFICES ASSUME syncs <= 1
               PROVE  /\ syncs # 0
                      /\ late' = {} /\ fetching' \cap taskQueue' = {}
                      /\ \A n \in fetching' \cup taskQueue' : n \in requests' /\ processed'[n] = 0
    BY DEF FirstSync, IInv, TypeOK
  <2>1. /\ late = {} /\ fetching \cap taskQueue = {}
        /\ \A n \in fetching \cup taskQueue : n \in requests /\ processed[n] = 0 /\ n \in Nodes
    BY DEF IInv, FirstSync, TypeOK
  <2>2. h \in fetching /\ fetching' = fetching \ {h} /\ late' = {}
    BY <2>1 DEF Arrives
  <2>3. syncs # 0
    BY <2>2 DEF IInv, FirstSync
  <2>4. h \notin fetching' \cup taskQueue'
    BY <1>1, <2>1, <2>2
  <2>5. \A n \in fetching' \cup taskQueue' : n \notin C
    BY <1>1, <1>3, <2>1, <2>2, <2>4
  <2> QED
    BY <1>1, <1>2, <2>1, <2>2, <2>3, <2>4, <2>5
<1> QED
  BY <1>7, <1>8, <1>9, <1>10, <1>11, <1>12, <1>13 DEF IInv

\* A result without a request is refused.
LEMMA UnknownIInv ==
    ASSUME IInv, NEW h \in Nodes, h \notin requests, Arrives(h), ProcessUnknown(h)
    PROVE  IInv'
<1>1. UNCHANGED <<database, root, requests, deps, parents, taskQueue, processed, syncs>>
  BY DEF ProcessUnknown, scheduler
<1>2. TypeOK' /\ FirstSync'
  BY <1>1, SMTT(30) DEF Arrives, IInv, TypeOK, FirstSync
<1>3. Released(requests)' = Released(requests)
  BY <1>1 DEF Released
<1>4. DepsExact'
  BY <1>1, <1>3 DEF IInv, DepsExact, WaitsOf
<1>5. SubtriesStored' /\ RootPending'
  BY <1>1 DEF IInv, SubtriesStored, RootPending
<1>6. WaitsTargeted'
  BY <1>1, <1>3 DEF IInv, WaitsTargeted, Target
<1>7. ReferencesCovered'
  BY <1>1 DEF IInv, ReferencesCovered
<1> QED
  BY <1>2, <1>4, <1>5, <1>6, <1>7 DEF IInv

\* Every step keeps the invariant.
LEMMA NextIInv == IInv /\ [Next]_vars => IInv'
<1> SUFFICES ASSUME IInv, [Next]_vars PROVE IInv'
  OBVIOUS
<1>1. ASSUME NEW r \in Roots, NewTrieSync(r) PROVE IInv'
  BY <1>1, NewTrieSyncIInv
<1>2. ASSUME NEW S \in SUBSET taskQueue, Missing(S) PROVE IInv'
  BY <1>2, MissingIInv
<1>3. ASSUME NEW h \in Nodes, Process(h) PROVE IInv'
  <2>1. Arrives(h)
    BY <1>3 DEF Process, Arrives
  <2>2. CASE h \notin requests
    BY <1>3, <2>1, <2>2, UnknownIInv DEF Process
  <2>3. CASE h \in requests /\ Unresolved(h) = {} /\ deps[h] = 0
    <3>1. Commit(h) /\ processed' = [processed EXCEPT ![h] = @ + 1] /\ UNCHANGED <<root, syncs>>
      BY <1>3, <2>3 DEF Process, ProcessKnown
    <3> QED
      BY <2>1, <2>3, <3>1, CommitIInv, Zenon
  <2>4. CASE h \in requests /\ ~(Unresolved(h) = {} /\ deps[h] = 0)
    <3>1. /\ Schedule(h, Unresolved(h)) /\ processed' = [processed EXCEPT ![h] = @ + 1]
          /\ UNCHANGED <<root, syncs>>
      BY <1>3, <2>4 DEF Process, ProcessKnown
    <3> QED
      BY <2>1, <2>4, <3>1, ScheduleIInv, Zenon
  <2> QED
    BY <2>2, <2>3, <2>4
<1>4. CASE UNCHANGED vars
  <2>1. TypeOK' /\ SubtriesStored' /\ RootPending' /\ FirstSync'
    BY <1>4 DEF vars, scheduler, IInv, TypeOK, SubtriesStored, RootPending, FirstSync
  <2>2. DepsExact' /\ WaitsTargeted' /\ ReferencesCovered'
    BY <1>4 DEF vars, scheduler, IInv, DepsExact, WaitsTargeted, ReferencesCovered, Released,
                WaitsOf, Target
  <2> QED
    BY <2>1, <2>2 DEF IInv
<1> QED
  BY <1>1, <1>2, <1>3, <1>4 DEF Next

-----------------------------------------------------------------------------
(* The theorems.                                                           *)

\* The invariant holds in every reachable state, for every trie.
THEOREM Invariance == Spec => []IInv
  BY InitIInv, NextIInv, PTL DEF Spec

\* A node is in the database only with its whole subtrie, whatever the order of
\* the results, the sharing of nodes and the schedulers that were dropped before:
\* children and AddSubTrie may stop at a stored node, and commit may write a
\* parent when its count of dependencies is zero.
THEOREM SubtriesStoredAlways == Spec => []SubtriesStored
<1>1. IInv => SubtriesStored
  BY DEF IInv
<1> QED
  BY <1>1, Invariance, PTL

\* The counts of dependencies that commit relies on are exact, and the results of
\* the first sync are never refused as not requested.
THEOREM RequestsConsistentAlways == Spec => []RequestsConsistent
<1>1. IInv => RequestsConsistent
  BY DEF IInv, RequestsConsistent, OwnResultsKnown, FirstSync
<1> QED
  BY <1>1, Invariance, PTL

\* A scheduler with nothing pending has written its root, so that the processor
\* may commit the pivot block.
THEOREM IdleMeansCompleteAlways == Spec => []IdleMeansComplete
<1>1. IInv => IdleMeansComplete
  BY DEF IInv, IdleMeansComplete, RootPending
<1> QED
  BY <1>1, Invariance, PTL
=============================================================================
