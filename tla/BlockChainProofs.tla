------------------------- MODULE BlockChainProofs -------------------------
(***************************************************************************)
(* What BlockChain keeps, for any finite tree of blocks and any bounds on  *)
(* the calls: the theorems.  The lemmas on the steps are those of          *)
(* BlockChainPlans and BlockChainInvariants; the facts by induction that   *)
(* they take as a hypothesis are proved here from the library.             *)
(***************************************************************************)
EXTENDS BlockChainInvariants, FiniteSetTheorems, WellFoundedInduction

\* A set of natural numbers that is not empty has a least element.
LEMMA LeastElement ==
    ASSUME NEW T \in SUBSET Nat, T # {}
    PROVE  \E i \in T : \A j \in T : i <= j
<1>1. PICK i \in T : \A j \in T : ~(<<j, i>> \in OpToRel(<, Nat))
  BY WFMin, NatLessThanWellFounded, Zenon
<1>2. ASSUME NEW j \in T
      PROVE  i <= j
  <2>1. i \in Nat /\ j \in Nat /\ <<j, i>> \in Nat \X Nat
    OBVIOUS
  <2>2. ~(j < i)
    BY <1>1, <2>1, Zenon DEF OpToRel
  <2> QED
    BY <2>1, <2>2
<1> QED
  BY <1>2, Zenon

\* A finite set can be put in order.
LEMMA OrdersExist ==
    ASSUME NEW S, IsFiniteSet(S)
    PROVE  \E s : s \in Orders(S)
<1>1. PICK s : s \in Bijection(1..Cardinality(S), S)
  BY FS_CardinalityType, Zenon DEF ExistsBijection
<1>2. s \in [1..Cardinality(S) -> S] /\ \A e \in S : \E i \in DOMAIN s : s[i] = e
  BY <1>1, Zenon DEF Bijection, Surjection
<1> QED
  BY <1>2, Zenon DEF Orders

\* A finite set on which key is injective can be put in the order of falling keys.
LEMMA FallingOrderExists ==
    ASSUME NEW S, IsFiniteSet(S), NEW key \in [S -> Nat],
           \A e, f \in S : key[e] = key[f] => e = f
    PROVE  \E s \in Orders(S) : \A i, j \in DOMAIN s : i < j => key[s[i]] > key[s[j]]
<1> DEFINE Sorted(R, s) == s \in Orders(R) /\ \A i, j \in DOMAIN s : i < j => key[s[i]] > key[s[j]]
           N == {n \in Nat : \A R \in SUBSET S : Cardinality(R) = n => \E s : Sorted(R, s)}
           size == Cardinality(S)
<1>1. size \in Nat
  BY FS_CardinalityType, Zenon
<1>2. 0 \in N
  <2>1. ASSUME NEW R \in SUBSET S, Cardinality(R) = 0
        PROVE  Sorted(R, <<>>)
    <3>1. IsFiniteSet(R)
      BY FS_Subset, Zenon
    <3>2. R = {} /\ 1..Cardinality(R) = {}
      BY <2>1, <3>1, FS_EmptySet
    <3>3. DOMAIN <<>> = {} /\ <<>> \in [1..Cardinality(R) -> R]
      BY <3>2
    <3> QED
      BY <3>2, <3>3, Zenon DEF Orders
  <2> QED
    BY <2>1, Zenon
<1>3. ASSUME NEW n \in 1..size, n - 1 \in N
      PROVE  n \in N
  <2>1. n \in Nat /\ n # 0
    BY <1>1
  <2>2. ASSUME NEW R \in SUBSET S, Cardinality(R) = n
        PROVE  \E s : Sorted(R, s)
    <3>1. IsFiniteSet(R) /\ R # {}
      BY <2>1, <2>2, FS_Subset, FS_EmptySet, Zenon
    <3>2. {key[e] : e \in R} \in SUBSET Nat /\ {key[e] : e \in R} # {}
      BY <3>1
    <3>3. PICK k \in {key[e] : e \in R} : \A l \in {key[e] : e \in R} : k <= l
      BY <3>2, LeastElement, Zenon
    <3>4. PICK least \in R : \A e \in R : key[least] <= key[e]
      BY <3>3
    <3> DEFINE Q == R \ {least}
    <3>5. IsFiniteSet(Q) /\ Cardinality(Q) = n - 1 /\ Q \in SUBSET S
      BY <2>2, <3>1, <3>4, FS_RemoveElement, Zenon
    <3> HIDE DEF Sorted
    <3>6. PICK s : Sorted(Q, s)
      BY <1>3, <3>5, Zenon
    <3> USE DEF Sorted
    <3>7. /\ s \in [1..(n - 1) -> Q] /\ DOMAIN s = 1..(n - 1)
          /\ \A e \in Q : \E i \in DOMAIN s : s[i] = e
      BY <3>5, <3>6, Zenon DEF Orders
    <3> DEFINE w == [i \in 1..n |-> IF i = n THEN least ELSE s[i]]
    <3>8. w \in [1..n -> R] /\ DOMAIN w = 1..n
      BY <2>1, <3>7
    <3>9. w[n] = least /\ \A i \in 1..(n - 1) : w[i] = s[i] /\ i \in DOMAIN w
      BY <2>1
    <3> HIDE DEF w
    <3>10. ASSUME NEW e \in R
           PROVE  \E i \in DOMAIN w : w[i] = e
      <4>1. CASE e = least
        BY <2>1, <3>8, <3>9, <4>1
      <4>2. CASE e # least
        <5>1. PICK i \in DOMAIN s : s[i] = e
          BY <3>7, <4>2, Zenon
        <5> QED
          BY <3>7, <3>9, <5>1, Zenon
      <4> QED
        BY <4>1, <4>2, Zenon
    <3>11. ASSUME NEW i \in DOMAIN w, NEW j \in DOMAIN w, i < j
           PROVE  key[w[i]] > key[w[j]]
      <4>1. CASE j = n
        <5>1. i \in 1..(n - 1) /\ w[j] = least /\ w[i] \in Q
          BY <2>1, <3>7, <3>8, <3>9, <3>11, <4>1
        <5>2. key[w[i]] # key[least] /\ key[least] <= key[w[i]] /\ key[w[i]] \in Nat /\ key[least] \in Nat
          BY <3>4, <5>1, Zenon
        <5> QED
          BY <5>1, <5>2
      <4>2. CASE j # n
        <5>1. i \in 1..(n - 1) /\ j \in 1..(n - 1)
          BY <2>1, <3>8, <3>11, <4>2
        <5>2. key[s[i]] > key[s[j]]
          BY <3>6, <3>7, <3>11, <5>1, Zenon
        <5> QED
          BY <3>9, <5>1, <5>2, Zenon
      <4> QED
        BY <4>1, <4>2, Zenon
    <3>12. w \in Orders(R)
      BY <2>2, <3>8, <3>10, Zenon DEF Orders
    <3> QED
      BY <3>11, <3>12, Zenon
  <2> QED
    BY <2>1, <2>2, Zenon
<1> HIDE DEF N
<1>4. size \in N
  <2>1. \A n \in 1..size : n - 1 \in N => n \in N
    BY <1>3, Zenon
  <2> HIDE DEF size
  <2> DEFINE T == {n \in 0..size : n \notin N}
  <2>2. ASSUME T # {}
        PROVE  FALSE
    <3>1. T \in SUBSET Nat
      BY <1>1
    <3>2. PICK i \in T : \A k \in T : i <= k
      BY <2>2, <3>1, LeastElement, Zenon
    <3>3. i \in 1..size /\ i - 1 \in 0..size /\ ~(i <= i - 1) /\ i \notin N
      BY <1>1, <1>2, <3>2
    <3> QED
      BY <2>1, <3>2, <3>3, Zenon
  <2> QED
    BY <1>1, <2>2
<1> QED
  BY <1>4, Zenon DEF N

\* The facts by induction that the lemmas on the chain take as a hypothesis.
LEMMA FoundationsHold == Foundations
<1>1. WellOrdered
  BY LeastElement, Zenon DEF WellOrdered
<1>2. SubsetsFinite
  BY FS_Subset, Zenon DEF SubsetsFinite
<1>3. Orderable
  BY OrdersExist, FS_CardinalityType, Zenon DEF Orderable
<1>4. Sortable
  BY FallingOrderExists, Zenon DEF Sortable
<1>5. IsFiniteSet(Heights)
  <2>1. Number \in Surjection(Blocks, Heights)
    BY BlockAssumption, Zenon DEF Heights, Surjection
  <2> QED
    BY <2>1, BlockAssumption, FS_Surjection, Zenon
<1> QED
  BY <1>1, <1>2, <1>3, <1>4, <1>5, Zenon DEF Foundations

\* A header in the database has its total difficulty there, after any calls of
\* InsertChain, InsertHeaderChain, InsertReceiptChain, SetHead and Rollback, any
\* crash between two writes included: WriteTd comes before WriteHeader, and
\* DeleteHeader before DeleteTd.
THEOREM HeadersHaveTdAlways ==
    Spec => []HeadersHaveTd
<1>1. Base => HeadersHaveTd
  BY Zenon DEF Base, Owned, HeadersHaveTd
<1>2. Base /\ [Next]_vars => Base'
  BY BaseNext, FoundationsHold, Zenon
<1> QED
  BY <1>1, <1>2, BaseInit, PTL DEF Spec

\* As long as no headers are inserted on their own, every header in the database
\* has its body there too, across crashes: WriteBody comes before WriteHeader, and
\* DeleteHeader before DeleteBody.
THEOREM OwnedBlocksAlways ==
    ASSUME HeaderChains = {}
    PROVE  Spec => []OwnedBlocks
<1>1. Base => OwnedBlocks
  BY Zenon DEF Base, Owned, OwnedBlocks
<1>2. Base /\ [Next]_vars => Base'
  BY BaseNext, FoundationsHold, Zenon
<1> QED
  BY <1>1, <1>2, BaseInit, PTL DEF Spec

\* The inductive invariant of full synchronisation.
THEOREM FullSyncInvariance ==
    ASSUME FullSync
    PROVE  Spec => [](Base /\ Full /\ Unbroken)
<1>1. Init => Base /\ Full /\ Unbroken
  BY BaseInit, FullInit, Zenon
<1>2. Base /\ Full /\ Unbroken /\ [Next]_vars => (Base /\ Full /\ Unbroken)'
  BY BaseNext, FullNext, FoundationsHold, Zenon
<1> QED
  BY <1>1, <1>2, PTL DEF Spec

\* In full synchronisation, whenever mu is free, the head block is stored with its
\* difficulty and its state, after any sequence of imports, mined blocks,
\* reorganisations, SetHeads and stops between any two writes (loadLastState).
THEOREM HeadUsableAlways ==
    ASSUME FullSync
    PROVE  Spec => []HeadUsable
<1>1. Base /\ Full /\ Unbroken => HeadUsable
  <2>1. SUFFICES ASSUME Base, Full, writes = <<>>
                 PROVE  currentBlock \in Stored \cap tds \cap states
    BY Zenon DEF HeadUsable, Unlocked
  <2>2. currentBlock \in Stored /\ currentBlock \in Blocks
    BY <2>1, NothingPlanned, ZenonT(30) DEF Base, Full, Types, TypeOK
  <2> QED
    BY <2>1, <2>2, Zenon DEF Base, Owned, Full, Stored
<1> QED
  BY <1>1, FullSyncInvariance, PTL

\* In full synchronisation, until the process is stopped, all ancestors of the head
\* block are stored, whatever WriteBlock reorganises and SetHead cuts off.
THEOREM AncestryStoredAlways ==
    ASSUME FullSync
    PROVE  Spec => []AncestryStored
<1>1. Base /\ Full /\ Unbroken => AncestryStored
  <2>1. SUFFICES ASSUME Base, Unbroken, writes = <<>>, crashes = 0, NEW a \in Ancestors[currentBlock]
                 PROVE  a \in Stored
    BY ZenonT(30) DEF AncestryStored, Unlocked
  <2>2. currentBlock \in Blocks
    BY <2>1, Zenon DEF Base, Types, TypeOK
  <2> QED
    BY <2>1, <2>2, NothingPlanned, ZenonT(30) DEF Base, Unbroken
<1> QED
  BY <1>1, FullSyncInvariance, PTL

\* In full synchronisation without a stop, whenever mu is free, the head block and
\* all of its ancestors are the canonical blocks of their numbers: insert, reorg and
\* SetHead rewrite the numbers of the whole chain.
THEOREM WellFormedAlways ==
    ASSUME FullSync, MaxCrashes = 0
    PROVE  Spec => []WellFormed
<1>1. Base /\ Full /\ Unbroken => WellFormed
  <2>1. SUFFICES ASSUME Base, Unbroken
                 PROVE  WellFormed
    BY Zenon
  <2>2. TypeOK /\ currentBlock \in Blocks /\ crashes = 0
    BY <2>1 DEF Base, Types, TypeOK
  <2>3. ASSUME writes = <<>>, NEW a \in Ancestors[currentBlock]
        PROVE  canon[Number[a]] = a
    <3>1. a \in Blocks
      BY <2>2, <2>3, AncestorsType, FoundationsHold, ZenonT(30)
    <3>2. (Canonical(a) <=> canon[Number[a]] = a) /\ Target("headBlock", currentBlock, currentBlock)
      BY <2>1, <2>2, <2>3, <3>1, NothingPlanned, Zenon DEF Base
    <3> QED
      BY <2>1, <2>2, <2>3, <3>2, ZenonT(30) DEF Unbroken
  <2> QED
    BY <2>2, <2>3, Zenon DEF WellFormed, CanonicalChain, Unlocked
<1> QED
  BY <1>1, FullSyncInvariance, PTL

\* In full synchronisation the first restart, if no operation holds mu, loads the
\* three heads that the stopped process had: insert and SetHead mirror them in the
\* database.  (After a stop in the middle of an operation they may differ.)
THEOREM RestartKeepsHeadsAlways ==
    ASSUME FullSync, MaxCrashes <= 1
    PROVE  Spec => RestartKeepsHeads
<1>1. Base /\ Full /\ Unbroken /\ [Next]_vars =>
         [crashes' > crashes /\ Unlocked => UNCHANGED heads]_vars
  <2>1. SUFFICES ASSUME Base, Full, Unbroken, [Next]_vars, (Base)', crashes' > crashes, writes = <<>>
                 PROVE  UNCHANGED heads
    BY BaseNext, FoundationsHold, Zenon DEF Unlocked
  <2>2. crashes \in 0..MaxCrashes /\ crashes' \in 0..MaxCrashes /\ MaxCrashes \in Nat
    BY <2>1, InputAssumption, Zenon DEF Base, Types, TypeOK
  <2>3. crashes = 0
    BY <2>1, <2>2
  <2>4. Crash
    <3>1. crashes' # crashes
      BY <2>1, <2>2
    <3>2. \/ Crash \/ Panic
      BY <2>1, <3>1, ZenonT(30) DEF Next, vars, counters, Write, InsertChain, ProcFutureBlocks, ValidateNext, Mine,
         WriteBlock, IndexBlock, SetHead, InsertHeaderChain, WriteHeader, InsertReceiptChain, WriteBody,
         CommitReceipts, FastSyncCommitHead, Rollback, Tick
    <3> QED
      BY <2>1, <3>2, Zenon DEF Panic
  <2>5. /\ headBlock = currentBlock /\ headHeader = currentHeader /\ headFast = currentFast
        /\ currentBlock \in Stored /\ currentHeader \in Stored /\ currentFast \in Stored
    <3>1. currentBlock \in Blocks /\ currentHeader \in Blocks /\ currentFast \in Blocks
      BY <2>1, Zenon DEF Base, Types, TypeOK
    <3> QED
      BY <2>1, <2>3, <3>1, NothingPlanned, ZenonT(30) DEF Base, Full, Unbroken
  <2> QED
    BY <2>4, <2>5, Zenon DEF Crash, Restart, heads, Stored
<1> QED
  BY <1>1, FullSyncInvariance, PTL DEF Spec, RestartKeepsHeads

\* With imports and mined blocks only, whenever mu is free, no stored block is heavier
\* than the head block: WriteBlock compares with the head it finds under mu, however
\* importer and miner interleave.
THEOREM HeaviestHeadAlways ==
    ASSUME FullSync, MaxRewinds = 0, MaxCrashes = 0
    PROVE  Spec => []HeaviestHead
<1>1. Init => Heaviest
  <2>1. SUFFICES ASSUME Init
                 PROVE  Heaviest
    OBVIOUS
  <2>2. writes = <<>> /\ headers = {Genesis} /\ currentBlock = Genesis /\ Types
    BY <2>1, TypesInit, Zenon DEF Init
  <2>3. Last(Genesis) /\ PlannedHeaders = {Genesis}
    BY <2>2, LastUnlocked, NothingPlanned, Zenon
  <2> QED
    BY <2>3, BlockAssumption DEF Heaviest
<1>2. Base /\ Full /\ Unbroken /\ Heaviest /\ [Next]_vars => Heaviest'
  BY HeaviestNext, FoundationsHold, Zenon
<1>3. Base /\ Heaviest => HeaviestHead
  <2>1. SUFFICES ASSUME Base, Heaviest, writes = <<>>, NEW c \in Stored
                 PROVE  Td[c] <= Td[currentBlock]
    BY Zenon DEF HeaviestHead, Unlocked
  <2>2. PlannedHeaders = headers /\ \A b : Last(b) <=> b = currentBlock
    BY <2>1, NothingPlanned, LastUnlocked, Zenon DEF Base
  <2> QED
    BY <2>1, <2>2, Zenon DEF Heaviest, Stored
<1> QED
  BY <1>1, <1>2, <1>3, FullSyncInvariance, PTL DEF Spec

\* With imports only, when none is in progress, a transaction is found exactly if the
\* chain of the head block contains it, and in a block of that chain: reorg indexes
\* the new chain and unindexes what only the old one contained.
THEOREM TxIndexedAlways ==
    ASSUME FullSync, MaxRewinds = 0, MaxCrashes = 0, Mined = {}
    PROVE  Spec => []TxIndexed
<1>1. Init => Findable
  <2>1. SUFFICES ASSUME Init
                 PROVE  Findable
    BY Zenon
  <2>2. /\ writes = <<>> /\ currentBlock = Genesis /\ lookup = [t \in Txs |-> None]
        /\ ready = [p \in Procs |-> None] /\ index = [p \in Procs |-> None]
    BY <2>1, Zenon DEF Init
  <2>3. Last(Genesis) /\ Genesis \in Blocks /\ \A op, a : ~Pending(op, a)
    BY <2>2, LastUnlocked, HasNothing, BlockAssumption, Zenon DEF Pending
  <2>4. /\ index["mine"] = None /\ ready["mine"] = None /\ ready["import"] = None
        /\ index["import"] = None /\ \A t \in Txs : lookup[t] = None
    BY <2>2, Zenon DEF Procs
  <2>5. \A t \in Txs : Containing(Genesis, t) = {}
    BY AncestorsStep, TxAssumption, Zenon DEF Containing
  <2>6. Indexed(Genesis)
    BY <2>3, <2>4, <2>5, ZenonT(30) DEF Indexed
  <2> QED
    BY <2>3, <2>6, Zenon DEF Findable
<1>2. Base /\ Full /\ Unbroken /\ Findable /\ [Next]_vars => Findable'
  BY FindableNext, FoundationsHold, Zenon
<1>3. Base /\ Findable => TxIndexed
  <2>1. SUFFICES ASSUME Base, Findable, writes = <<>>, \A p \in Procs : index[p] = None, NEW t \in Txs
                 PROVE  IF Containing(currentBlock, t) = {} THEN lookup[t] = None
                        ELSE lookup[t] \in Containing(currentBlock, t)
    BY ZenonT(30) DEF TxIndexed, Unlocked, Containing
  <2>2. Indexed(currentBlock) /\ currentBlock \in Blocks /\ None \notin Blocks
    BY <2>1, LastUnlocked, BlockAssumption, ZenonT(30) DEF Findable
  <2>3. (\A op, a : ~Pending(op, a)) /\ index["import"] # currentBlock
    BY <2>1, <2>2, HasNothing, Zenon DEF Pending, Procs
  <2> QED
    BY <2>2, <2>3, ZenonT(30) DEF Indexed, Traced
<1> QED
  BY <1>1, <1>2, <1>3, FullSyncInvariance, PTL DEF Spec

\* Until SetHead is called, whenever mu is free, the fast head is stored with its
\* body and its difficulty, whatever imports, header and receipt insertions, rollbacks
\* and stops come together: InsertReceiptChain moves the head after its workers have
\* finished, and Rollback moves it only onto a block it finds.
THEOREM FastHeadCompleteAlways ==
    Spec => []FastHeadComplete
<1>1. Init => Base /\ Complete
  <2>1. SUFFICES ASSUME Init
                 PROVE  Complete
    BY BaseInit, Zenon
  <2>2. /\ writes = <<>> /\ Base /\ currentFast = Genesis /\ Stored = {Genesis} /\ rhead = None
        /\ Genesis \in Blocks
    BY <2>1, BaseInit, BlockAssumption, Zenon DEF Init, Stored
  <2> QED
    BY <2>2, NothingPlanned DEF Complete, Base
<1>2. Base /\ Complete /\ [Next]_vars => (Base /\ Complete)'
  BY BaseNext, CompleteNext, FoundationsHold
<1>3. Base /\ Complete => FastHeadComplete
  <2>1. SUFFICES ASSUME Base, Complete, writes = <<>>, rewinds = 0
                 PROVE  currentFast \in Stored \cap tds
    BY Zenon DEF FastHeadComplete, Unlocked
  <2>2. currentFast \in Blocks /\ currentFast \in Stored
    BY <2>1, NothingPlanned, Zenon DEF Complete, Base, Types, TypeOK
  <2> QED
    BY <2>1, <2>2 DEF Base, Owned, Stored
<1> QED
  BY <1>1, <1>2, <1>3, PTL DEF Spec

\* It holds whenever only headers and receipts are inserted.
THEOREM HeadersInvariance ==
    ASSUME HeadersOnly
    PROVE  Spec => []HeadersInv
<1>1. Init => HeadersInv
  <2>1. SUFFICES ASSUME Init
                 PROVE  HeadersInv
    BY Zenon
  <2>2. /\ writes = <<>> /\ Base /\ currentFast = Genesis /\ Stored = {Genesis} /\ rhead = None
        /\ currentHeader = Genesis /\ headers = {Genesis} /\ tds = {Genesis} /\ tdCache = {Genesis}
        /\ panicked = FALSE /\ Genesis \in Blocks
    BY <2>1, BaseInit, BlockAssumption, Zenon DEF Init, Stored
  <2>3. /\ PlannedHeaders = headers /\ PlannedStored = Stored
        /\ \A a \in Blocks : Canonical(a) <=> canon[Number[a]] = a
        /\ \A key, cur : \A b \in Blocks : Target(key, cur, b) <=> b = cur
        /\ \A op, a : ~Pending(op, a)
    BY <2>2, NothingPlanned DEF Base
  <2>4. \A a \in Blocks : canon[Number[a]] = a <=> a = Genesis
    <3>1. canon = [n \in Heights |-> IF n = 0 THEN Genesis ELSE None] /\ None \notin Blocks
      BY <2>1, BlockAssumption, Zenon DEF Init
    <3>2. \A a \in Blocks : Number[a] \in Heights /\ (Number[a] = 0 => a = Genesis)
      BY ZeroIsGenesis, Zenon DEF Heights
    <3> QED
      BY <2>2, <3>1, <3>2, BlockAssumption, Zenon
  <2>5. Complete
    BY <2>2, <2>3, Zenon DEF Complete
  <2>6. NoImport
    BY <2>1, Zenon DEF NoImport, Init
  <2>7. HeaderChain
    <3>1. Genesis \in Ancestors[Genesis]
      BY AncestorsStep, Zenon
    <3> QED
      BY <2>2, <2>3, <2>4, <3>1 DEF HeaderChain
  <2>8. Additive
    BY <2>2, <2>3, Zenon DEF Additive
  <2> QED
    BY <2>2, <2>5, <2>6, <2>7, <2>8, Zenon DEF HeadersInv
<1>2. HeadersInv /\ [Next]_vars => HeadersInv'
  BY BaseNext, CompleteNext, NoImportNext, HeaderChainNext, AdditiveNext, FoundationsHold, Zenon DEF HeadersInv, Base
<1> QED
  BY <1>1, <1>2, PTL DEF Spec

\* When only headers and receipts are inserted, whenever mu is free, the head header
\* and its ancestors are stored and canonical, unless a stop, a panic or a SetHead
\* together with a Rollback came before; and as long as headers are only added no other
\* number has a canonical header: the walk of writeHeader.
THEOREM HeadersCanonicalAlways ==
    ASSUME HeadersOnly
    PROVE  Spec => []HeadersCanonical
<1>1. HeadersInv => HeadersCanonical
  <2>1. SUFFICES ASSUME HeadersInv
                 PROVE  HeaderChainCanonical /\ NumbersCanonical
    BY Zenon DEF HeadersCanonical
  <2>2. HeaderChainCanonical
    BY <2>1, HeaderChainUnlocked, FoundationsHold, Zenon DEF HeadersInv, HeaderChainCanonical, Unlocked
  <2>3. NumbersCanonical
    <3>1. SUFFICES ASSUME writes = <<>>, crashes = 0, rewinds = 0, rollbacks = 0, NEW n \in Heights,
                          canon[n] # None
                   PROVE  canon[n] \in Ancestors[currentHeader]
      BY Zenon DEF NumbersCanonical, Unlocked
    <3>2. ~panicked
      BY <2>1, <3>1, Zenon DEF HeadersInv, Additive
    <3>3. canon[n] \in Blocks /\ Number[canon[n]] = n
      BY <2>1, <3>1, Zenon DEF HeadersInv, Base, Consistent, Types, TypeOK
    <3> QED
      BY <2>1, <3>1, <3>2, <3>3, HeaderChainUnlocked, FoundationsHold, Zenon DEF HeadersInv
  <2> QED
    BY <2>2, <2>3, Zenon
<1> QED
  BY <1>1, HeadersInvariance, PTL
==============================================================================
