----------------------- MODULE BlockChainInvariants -----------------------
(***************************************************************************)
(* Lemmas about BlockChain: what full synchronisation, fast                *)
(* synchronisation and the insertion of headers keep of the chain, of the  *)
(* heads and of the index of transactions, step by step.                   *)
(***************************************************************************)
EXTENDS BlockChainPlans

---------------------------------------------------------------------------
(* Full synchronisation: blocks are only imported and mined.                *)

\* Full synchronisation: InsertHeaderChain, InsertReceiptChain, FastSyncCommitHead
\* and Rollback, which only fast synchronisation calls, are not called.
FullSync == HeaderChains = {} /\ ReceiptChains = {} /\ Pivots = {} /\ MaxRollbacks = 0

\* Headers belong to valid blocks with a state, and every head is, and will be, stored.
Full ==
    /\ \A b \in Blocks : ~Pending("panic", b)
    /\ \A b \in Blocks : b \in headers \/ Pending("header", b) => b \in states \ Bad
    /\ \A p \in Procs : ready[p] # None => ready[p] \in states \ Bad
    /\ headBlock = currentBlock
    /\ \A b \in Blocks :
          (\/ Target("headBlock", currentBlock, b)
           \/ Target("headHeader", currentHeader, b)
           \/ Target("headFast", currentFast, b)) => b \in PlannedStored

\* Unless the process has been stopped, the database mirrors the heads, and the
\* chain of the head block is, and will be, stored and canonical.
Unbroken ==
    crashes = 0 =>
        /\ headHeader = currentHeader /\ headFast = currentFast
        /\ \A b \in Blocks : Target("headBlock", currentBlock, b) =>
              \A a \in Ancestors[b] : a \in PlannedStored /\ Canonical(a)

\* Every step keeps it.
LEMMA FullNext ==
    ASSUME Foundations, FullSync, Base, Base', Full, Unbroken, [Next]_vars
    PROVE  Full' /\ Unbroken'
\* A write keeps the invariant of full synchronisation.
<1>FullWrite. ASSUME Foundations, Base, Full, Unbroken, Write
              PROVE  Full' /\ Unbroken'
  <2> USE <1>FullWrite
  <2>1. PICK op, arg : Made(op, arg)
    BY WriteMakes, Zenon DEF Base, Types, TypeOK
  <2>2. writes \in Seq(Puts)
    BY DEF Base, Types, TypeOK
  <2>3. \A o, a : Pending(o, a) <=> (o = op /\ a = arg) \/ Pending(o, a)'
    BY <2>1, <2>2, MadePending, Zenon
  <2>4. /\ PlannedStored' = PlannedStored
        /\ \A a \in Blocks : Canonical(a)' <=> Canonical(a)
    BY <2>1, MadePlanned
  <2>5. \A b \in Blocks :
           /\ Target("headBlock", currentBlock, b)' => Target("headBlock", currentBlock, b)
           /\ Target("headHeader", currentHeader, b)' => Target("headHeader", currentHeader, b)
           /\ Target("headFast", currentFast, b)' => Target("headFast", currentFast, b)
    BY <2>1, <2>2, MadeTargets, Zenon
  <2>6. /\ states' = states /\ ready' = ready /\ crashes' = crashes
        /\ headers' = IF op = "header" THEN headers \cup {arg}
                      ELSE IF op = "delHeader" THEN headers \ {arg} ELSE headers
        /\ headBlock' = (IF op = "headBlock" THEN arg ELSE headBlock)
        /\ headHeader' = (IF op = "headHeader" THEN arg ELSE headHeader)
        /\ headFast' = (IF op = "headFast" THEN arg ELSE headFast)
        /\ currentBlock' = (IF op = "headBlock" THEN arg ELSE currentBlock)
        /\ currentHeader' = (IF op = "headHeader" THEN arg ELSE currentHeader)
        /\ currentFast' = (IF op = "headFast" THEN arg ELSE currentFast)
    BY <2>1 DEF Made, import, counters
  <2>7. \A b \in Blocks : ~Pending("panic", b)'
    BY <2>3, Zenon DEF Full
  <2>8. \A b \in Blocks : b \in headers' \/ Pending("header", b)' => b \in states' \ Bad
    BY <2>3, <2>6, Zenon DEF Full
  <2>9. headBlock' = currentBlock'
    BY <2>6, Zenon DEF Full
  <2>10. Full'
    <3>1. \A b \in Blocks :
            (\/ Target("headBlock", currentBlock, b)'
             \/ Target("headHeader", currentHeader, b)'
             \/ Target("headFast", currentFast, b)') => b \in PlannedStored'
      BY <2>4, <2>5 DEF Full
    <3> QED
      BY <2>6, <2>7, <2>8, <2>9, <3>1, Zenon DEF Full
  <2>11. Unbroken'
    <3>1. SUFFICES ASSUME crashes' = 0
                   PROVE  /\ headHeader' = currentHeader' /\ headFast' = currentFast'
                          /\ \A b \in Blocks : Target("headBlock", currentBlock, b)' =>
                                \A a \in Ancestors[b] : a \in PlannedStored' /\ Canonical(a)'
      BY Zenon DEF Unbroken
    <3>2. headHeader' = currentHeader' /\ headFast' = currentFast'
      BY <2>6, <3>1, Zenon DEF Unbroken
    <3>3. ASSUME NEW b \in Blocks, Target("headBlock", currentBlock, b)', NEW a \in Ancestors[b]
          PROVE  a \in PlannedStored' /\ Canonical(a)'
      <4>1. a \in Blocks
        BY <3>3, AncestorsType, Zenon
      <4>2. a \in PlannedStored /\ Canonical(a)
        BY <2>5, <2>6, <3>1, <3>3, Zenon DEF Unbroken
      <4> QED
        BY <2>4, <4>1, <4>2
    <3> QED
      BY <3>2, <3>3, ZenonT(30)
  <2> QED
    BY <2>10, <2>11, Zenon
\* A step that leaves the chain and the plan alone.
<1>FullKept. ASSUME Full, Unbroken,
                    UNCHANGED <<headers, bodies, canon, headBlock, headHeader, headFast,
                                currentBlock, currentHeader, currentFast, writes, crashes>>,
                    states \subseteq states', \A p \in Procs : ready'[p] # None => ready'[p] \in states' \ Bad
             PROVE  Full' /\ Unbroken'
  <2> USE <1>FullKept
  <2>1. \A op, a : Pending(op, a)' <=> Pending(op, a)
    BY DEF Pending
  <2>2. PlannedStored' = PlannedStored
    BY <2>1, Zenon DEF PlannedStored, PlannedHeaders, PlannedBodies
  <2>3. \A a : Canonical(a)' <=> Canonical(a)
    BY <2>1, Zenon DEF Canonical
  <2>4. /\ \A b : Target("headBlock", currentBlock, b)' <=> Target("headBlock", currentBlock, b)
        /\ \A b : Target("headHeader", currentHeader, b)' <=> Target("headHeader", currentHeader, b)
        /\ \A b : Target("headFast", currentFast, b)' <=> Target("headFast", currentFast, b)
    BY <2>1 DEF Target
  <2>5. Full'
    BY <2>1, <2>2, <2>4, ZenonT(30) DEF Full
  <2>6. Unbroken'
    BY <2>2, <2>3, <2>4, Zenon DEF Unbroken
  <2> QED
    BY <2>5, <2>6, Zenon
\* WriteBlock starts a plan that keeps it: reorg has found both chains.
<1>FullWriteBlock. ASSUME Foundations, Base, Full, Unbroken, NEW p \in Procs, WriteBlock(p)
                   PROVE  Full' /\ Unbroken'
  <2> USE <1>FullWriteBlock
  <2>0. PICK b : b = ready[p]
    OBVIOUS
  <2>1. /\ b \in Blocks \ {Genesis} /\ writes = <<>>
        /\ \/ writes' = <<>> /\ index' = index
           \/ /\ writes' = BlockPlan(b) /\ HasTd(Parent[b])
              /\ Heavier(b) /\ Parent[b] # currentBlock => Reorganisable(b)
    BY <2>0, WriteBlockPlan, ZenonT(30) DEF Base
  <2>2. /\ UNCHANGED <<headers, bodies, tds, states, canon, lookup, headBlock, headHeader, headFast>>
        /\ UNCHANGED <<currentBlock, currentHeader, currentFast>> /\ crashes' = crashes
        /\ ready' = [ready EXCEPT ![p] = None]
    BY ZenonT(30) DEF WriteBlock, disk, heads, counters
  <2>3. ready \in [Procs -> Blocks \cup {None}] /\ None \notin Blocks
    BY BlockAssumption, Zenon DEF Base, Types, TypeOK
  <2>4. \A r \in Procs : ready'[r] # None => ready'[r] \in states' \ Bad
    BY <2>2, <2>3, Zenon DEF Full
  <2>5. CASE writes' = <<>>
    BY <2>1, <2>2, <2>4, <2>5, <1>FullKept, Zenon
  <2>6. CASE /\ writes' = BlockPlan(b) /\ HasTd(Parent[b])
             /\ Heavier(b) /\ Parent[b] # currentBlock => Reorganisable(b)
    <3>1. b \in states \ Bad /\ b \in Blocks /\ Ancestors[b] \in SUBSET Blocks /\ b \in Ancestors[b]
      BY <2>0, <2>1, <2>3, AncestorsType, Zenon DEF Full
    <3>2. /\ PlannedStored' = Stored \cup {b} /\ PlannedHeaders' = headers \cup {b}
          /\ ~Heavier(b) => \A a \in Blocks : Canonical(a)' <=> canon[Number[a]] = a
          /\ Heavier(b) => \A a \in Ancestors[b] :
                a \in NewChain(b) \cup {b} \/ canon[Number[a]] = a => Canonical(a)'
      BY <2>1, <2>2, <2>6, BlockPlanned, ZenonT(30)
    <3>3. currentBlock \in Blocks /\ currentHeader \in Blocks /\ currentFast \in Blocks
      BY DEF Base, Types, TypeOK
    <3>4. /\ \A op, a : Pending(op, a)' =>
                \/ a = b /\ op \in {"td", "body", "header", "unfuture"}
                \/ /\ Heavier(b) /\ a \in NewChain(b) \cup {b}
                   /\ op \in {"canon", "headBlock", "headHeader", "headFast", "index"}
                \/ op = "unindex"
          /\ Heavier(b) => Pending("headBlock", b)'
      BY <2>1, <2>6, <3>3, BlockPlanProperties, ZenonT(30) DEF Pending
    <3>5. /\ PlannedStored = Stored
          /\ \A a \in Blocks : Canonical(a) <=> canon[Number[a]] = a
          /\ \A key, cur : \A a \in Blocks : Target(key, cur, a) <=> a = cur
      BY <2>1, NothingPlanned, ZenonT(30) DEF Base
    <3>6. currentBlock \in Stored /\ currentHeader \in Stored /\ currentFast \in Stored
      BY <3>3, <3>5, Zenon DEF Full
    <3>7. Heavier(b) => NewChain(b) \subseteq Stored \cup {b}
      <4>1. CASE Parent[b] = currentBlock
        BY <2>1, <3>3, <4>1, NewChainOfChild, Zenon
      <4>2. CASE Parent[b] # currentBlock
        BY <2>6, <3>6, <4>2, Zenon DEF Reorganisable
      <4> QED
        BY <4>1, <4>2, Zenon
    <3>8. ASSUME NEW a \in Blocks, NEW op \in {"headBlock", "headHeader", "headFast"}, Pending(op, a)'
          PROVE  a \in PlannedStored'
      BY <3>2, <3>4, <3>7, <3>8, ZenonT(30)
    <3>9. Full'
      <4>1. \A a \in Blocks : ~Pending("panic", a)'
        BY <3>4
      <4>2. \A a \in Blocks : a \in headers' \/ Pending("header", a)' => a \in states' \ Bad
        BY <2>2, <3>1, <3>4, ZenonT(30) DEF Full
      <4>3. ASSUME NEW a \in Blocks,
                   \/ Target("headBlock", currentBlock, a)'
                   \/ Target("headHeader", currentHeader, a)'
                   \/ Target("headFast", currentFast, a)'
            PROVE  a \in PlannedStored'
        <5>1. \/ Pending("headBlock", a)' \/ Pending("headHeader", a)' \/ Pending("headFast", a)'
              \/ a \in {currentBlock, currentHeader, currentFast}
          BY <2>2, <4>3 DEF Target
        <5> QED
          BY <3>2, <3>6, <3>8, <5>1, Zenon
      <4>4. headBlock' = currentBlock'
        BY <2>2, Zenon DEF Full
      <4> QED
        BY <2>4, <4>1, <4>2, <4>3, <4>4, ZenonT(30) DEF Full
    <3>10. Unbroken'
      <4>1. SUFFICES ASSUME crashes = 0, NEW c \in Blocks, Target("headBlock", currentBlock, c)',
                            NEW a \in Ancestors[c]
                     PROVE  a \in PlannedStored' /\ Canonical(a)'
        BY <2>2, Zenon DEF Unbroken
      <4>2. \A e \in Ancestors[currentBlock] : e \in Blocks /\ e \in Stored /\ canon[Number[e]] = e
        BY <3>3, <3>5, <4>1, AncestorsType, Zenon DEF Unbroken
      <4>3. CASE Heavier(b)
        <5>1. c \in NewChain(b) \cup {b}
          BY <2>1, <3>4, <4>1, <4>3, Zenon DEF Target
        <5>2. c \in Ancestors[b] /\ a \in Ancestors[b]
          BY <3>1, <4>1, <5>1, AncestorsNest, Zenon DEF NewChain
        <5>3. a \in NewChain(b) \/ a \in Ancestors[currentBlock]
          BY <5>2 DEF NewChain
        <5> QED
          BY <3>2, <3>7, <4>2, <4>3, <5>2, <5>3, Zenon
      <4>4. CASE ~Heavier(b)
        <5>1. c = currentBlock
          BY <2>2, <3>4, <4>1, <4>4, Zenon DEF Target
        <5> QED
          BY <3>2, <4>1, <4>2, <4>4, <5>1, ZenonT(30)
      <4> QED
        BY <4>3, <4>4, Zenon
    <3> QED
      BY <3>9, <3>10, Zenon
  <2> QED
    BY <2>1, <2>5, <2>6, Zenon
\* SetHead starts a plan that keeps it: the heads move down their own chains.
<1>FullSetHead. ASSUME Foundations, Base, Full, Unbroken, HeaderChains = {}, NEW n \in Heights, SetHead(n)
                PROVE  Full' /\ Unbroken'
  <2> USE <1>FullSetHead
  <2>1. writes = <<>> /\ currentBlock \in Blocks /\ currentHeader \in Blocks /\ currentFast \in Blocks
        /\ headers \in SUBSET Blocks /\ bodies \in SUBSET Blocks
    BY Zenon DEF SetHead, Unlocked, Base, Types, TypeOK
  <2>2. /\ UNCHANGED <<headers, bodies, tds, states, canon, lookup, headBlock, headHeader, headFast>>
        /\ UNCHANGED <<currentBlock, currentHeader, currentFast>> /\ crashes' = crashes
        /\ ready' = ready
    BY Zenon DEF SetHead, disk, heads, import
  <2>3. PICK drop \in Orders(Dropped(n)) : writes' = HeadPlan(n, drop)
    BY SetHeadPlan, Zenon
  <2>4. \A op, a : Pending(op, a)' <=>
           \/ op = "uncanon" /\ a \in Lowered(n)
           \/ op \in Deletions /\ a \in Dropped(n)
           \/ op = "headBlock" /\ a = Rewound(currentBlock, n, Stored)
           \/ op = "headHeader" /\ a = Rewound(currentHeader, n, headers)
           \/ op = "headFast" /\ a = Rewound(currentFast, n, Stored)
    BY <2>1, <2>3, HeadPlanProperties, Zenon DEF Pending
  <2>5. \A a \in Dropped(n) : Number[a] > n
    BY <2>1, DroppedType
  <2>6. /\ PlannedStored = Stored
        /\ \A a \in Blocks : Canonical(a) <=> canon[Number[a]] = a
        /\ \A key, cur : \A a \in Blocks : Target(key, cur, a) <=> a = cur
    BY <2>1, NothingPlanned, ZenonT(30) DEF Base
  <2>7. /\ currentBlock \in Stored /\ currentHeader \in Stored /\ currentFast \in Stored
        /\ Genesis \in Stored /\ Stored = headers
    <3>1. headers \subseteq bodies /\ Genesis \in Stored
      BY Zenon DEF Base, Owned, Rooted
    <3> QED
      BY <2>1, <2>6, <3>1, ZenonT(30) DEF Full, Stored
  <2>8. n \in Nat /\ \A a \in Blocks : Number[a] \in Nat
    BY BlockAssumption DEF Heights
  <2>9. ASSUME NEW a \in Stored, Number[a] <= n
        PROVE  a \in PlannedStored'
    <3>1. ~Pending("delHeader", a)' /\ ~Pending("delBody", a)'
      <4>1. a \in Blocks /\ Number[a] \in Nat
        BY <2>1, <2>8, <2>9, Zenon DEF Stored
      <4>2. a \notin Dropped(n)
        BY <2>5, <2>8, <2>9, <4>1
      <4> QED
        BY <2>4, <4>2, Zenon
    <3> QED
      BY <2>1, <2>2, <2>9, <3>1, Zenon DEF PlannedStored, PlannedHeaders, PlannedBodies, Stored
  <2>10. \A a \in {Rewound(currentBlock, n, Stored), Rewound(currentHeader, n, headers),
                    Rewound(currentFast, n, Stored)} : a \in PlannedStored'
    <3>1. /\ Rewound(currentBlock, n, Stored) \in Stored /\ Number[Rewound(currentBlock, n, Stored)] <= n
      BY <2>1, <2>7, RewoundProperties, ZenonT(30)
    <3>2. /\ Rewound(currentHeader, n, headers) \in Stored /\ Number[Rewound(currentHeader, n, headers)] <= n
      BY <2>1, <2>7, RewoundProperties, ZenonT(30)
    <3>3. /\ Rewound(currentFast, n, Stored) \in Stored /\ Number[Rewound(currentFast, n, Stored)] <= n
      BY <2>1, <2>7, RewoundProperties, ZenonT(30)
    <3> QED
      BY <2>9, <3>1, <3>2, <3>3, Zenon
  <2>11. \A a \in Blocks :
           /\ Target("headBlock", currentBlock, a)' => a = Rewound(currentBlock, n, Stored)
           /\ Target("headHeader", currentHeader, a)' => a = Rewound(currentHeader, n, headers)
           /\ Target("headFast", currentFast, a)' => a = Rewound(currentFast, n, Stored)
    <3>1. /\ Rewound(currentBlock, n, Stored) \in Blocks
          /\ Rewound(currentHeader, n, headers) \in Blocks
          /\ Rewound(currentFast, n, Stored) \in Blocks
      BY <2>1, RewoundProperties, ZenonT(30)
    <3>2. \A a : /\ a = Rewound(currentBlock, n, Stored) => Pending("headBlock", a)'
                 /\ a = Rewound(currentHeader, n, headers) => Pending("headHeader", a)'
                 /\ a = Rewound(currentFast, n, Stored) => Pending("headFast", a)'
      BY <2>4
    <3>3. \A a : /\ Pending("headBlock", a)' => a = Rewound(currentBlock, n, Stored)
                 /\ Pending("headHeader", a)' => a = Rewound(currentHeader, n, headers)
                 /\ Pending("headFast", a)' => a = Rewound(currentFast, n, Stored)
      BY <2>4, Zenon DEF Deletions
    <3> QED
      BY <3>1, <3>2, <3>3, Zenon DEF Target
  <2>12. Full'
    <3>1. \A a \in Blocks : ~Pending("panic", a)' /\ ~Pending("header", a)'
      BY <2>4 DEF Deletions
    <3> QED
      BY <2>2, <2>10, <2>11, <3>1, Zenon DEF Full
  <2>13. Unbroken'
    <3>1. SUFFICES ASSUME crashes = 0, NEW a \in Ancestors[Rewound(currentBlock, n, Stored)]
                   PROVE  a \in PlannedStored' /\ Canonical(a)'
      BY <2>2, <2>11, ZenonT(30) DEF Unbroken
    <3> DEFINE r == Rewound(currentBlock, n, Stored)
    <3>2. r \in Blocks /\ r \in Ancestors[currentBlock] /\ Number[r] <= n
      BY <2>1, RewoundProperties, ZenonT(30)
    <3>3. a \in Ancestors[currentBlock] /\ a \in Blocks /\ Number[a] <= Number[r]
      BY <2>1, <3>1, <3>2, AncestorsNest, AncestorsType, AncestorNumbers, ZenonT(30)
    <3>4. Number[a] <= n
      BY <2>8, <3>2, <3>3
    <3>5. a \in Stored /\ canon[Number[a]] = a
      BY <2>1, <2>6, <3>1, <3>3, ZenonT(30) DEF Unbroken
    <3>6. ~Pending("uncanon", Number[a])'
      <4>1. Number[a] \notin Lowered(n)
        BY <2>8, <3>3, <3>4 DEF Lowered
      <4> QED
        BY <2>4, <4>1, ZenonT(30) DEF Deletions
    <3>7. \A c \in Blocks : ~Pending("canon", c)'
      BY <2>4 DEF Deletions
    <3> QED
      BY <2>2, <2>9, <3>4, <3>5, <3>6, <3>7, ZenonT(30) DEF Canonical
  <2> QED
    BY <2>12, <2>13, Zenon
\* A stop and the restart keep it: loadLastState finds the heads of the database.
<1>FullCrash. ASSUME Base, Base', Full, Unbroken, HeaderChains = {}, Crash
              PROVE  Full' /\ Unbroken'
  <2> USE <1>FullCrash
  <2>1. /\ writes' = <<>> /\ ready' = [p \in Procs |-> None]
        /\ UNCHANGED <<headers, bodies, tds, states, canon>>
        /\ headBlock' = (IF headBlock \in Stored THEN headBlock ELSE Genesis)
        /\ currentBlock' = headBlock'
        /\ currentHeader' \in headers \cup {currentBlock'}
        /\ currentFast' \in Stored \cup {currentBlock'}
        /\ crashes' = crashes + 1
    BY Zenon DEF Crash, Restart
  <2>2. headers \subseteq bodies /\ Genesis \in Stored /\ crashes \in 0..MaxCrashes
    BY Zenon DEF Base, Owned, Rooted, Types, TypeOK
  <2>3. currentBlock' \in Stored /\ currentHeader' \in Stored /\ currentFast' \in Stored
    BY <2>1, <2>2, Zenon DEF Stored
  <2>4. /\ PlannedStored' = Stored'
        /\ \A key, cur : \A b \in Blocks : Target(key, cur, b)' <=> b = cur
        /\ \A op, a : ~Pending(op, a)'
    <3>1. Types' /\ writes' = <<>>
      BY <2>1 DEF Base
    <3> QED
      BY <3>1, HasNothing, Zenon DEF PlannedStored, PlannedHeaders, PlannedBodies, Pending, Target, Stored, Types, TypeOK
  <2>5. Stored' = Stored
    BY <2>1 DEF Stored
  <2>6. \A b \in Blocks : ~Pending("panic", b)' /\ ~Pending("header", b)'
    BY <2>4
  <2>7. \A b \in Blocks :
          (\/ Target("headBlock", currentBlock, b)'
           \/ Target("headHeader", currentHeader, b)'
           \/ Target("headFast", currentFast, b)') => b \in PlannedStored'
    <3>1. ASSUME NEW b \in Blocks
          PROVE  /\ Target("headBlock", currentBlock, b)' <=> b = currentBlock'
                 /\ Target("headHeader", currentHeader, b)' <=> b = currentHeader'
                 /\ Target("headFast", currentFast, b)' <=> b = currentFast'
      BY <2>4, Zenon DEF Target
    <3> QED
      BY <2>3, <2>4, <2>5, <3>1, Zenon
  <2>8. Full'
    BY <2>1, <2>6, <2>7, Zenon DEF Full
  <2>9. crashes' # 0
    BY <2>1, <2>2
  <2>10. Unbroken'
    BY <2>9, Zenon DEF Unbroken
  <2> QED
    BY <2>8, <2>10, Zenon
\* A validation keeps it: the state is there before the block is written.
<1>FullValidate. ASSUME Base, Full, Unbroken, ValidateNext
                 PROVE  Full' /\ Unbroken'
  <2> USE <1>FullValidate
  <2>1. /\ UNCHANGED <<headers, bodies, canon, headBlock, headHeader, headFast,
                       currentBlock, currentHeader, currentFast, writes, crashes>>
        /\ states' = IF Verdict(Head(batch)) = "valid" THEN states \cup {Head(batch)} ELSE states
        /\ ready' = IF Verdict(Head(batch)) = "valid"
                    THEN [ready EXCEPT !["import"] = Head(batch)] ELSE ready
    BY Zenon DEF ValidateNext, heads, counters
  <2>2. ready \in [Procs -> Blocks \cup {None}]
    BY Zenon DEF Base, Types, TypeOK
  <2>3. Verdict(Head(batch)) = "valid" => Head(batch) \notin Bad
    BY Zenon DEF Verdict
  <2>4. \A p \in Procs : ready'[p] # None => ready'[p] \in states' \ Bad
    BY <2>1, <2>2, <2>3, Zenon DEF Full
  <2>5. states \subseteq states'
    BY <2>1
  <2> QED
    BY <2>1, <2>4, <2>5, <1>FullKept, Zenon
\* A mined block keeps it.
<1>FullMine. ASSUME Base, Full, Unbroken, NEW b \in Mined, Mine(b)
             PROVE  Full' /\ Unbroken'
  <2> USE <1>FullMine
  <2>1. /\ UNCHANGED <<headers, bodies, canon, headBlock, headHeader, headFast,
                       currentBlock, currentHeader, currentFast, writes, crashes>>
        /\ states' = states \cup {b} /\ ready' = [ready EXCEPT !["mine"] = b] /\ b \notin Bad
    BY Zenon DEF Mine, heads, counters
  <2>2. ready \in [Procs -> Blocks \cup {None}]
    BY Zenon DEF Base, Types, TypeOK
  <2>3. \A p \in Procs : ready'[p] # None => ready'[p] \in states' \ Bad
    BY <2>1, <2>2 DEF Full
  <2> QED
    BY <2>1, <2>3, <1>FullKept, Zenon
<1>1. /\ HeaderChains = {} /\ ReceiptChains = {} /\ Pivots = {} /\ MaxRollbacks = 0
      /\ hbatch = <<>> /\ rhead = None /\ rleft = {} /\ rollbacks \in 0..0
      /\ writes \in Seq(Puts)
  BY Zenon DEF FullSync, Base, Types, TypeOK
<1>2. CASE Write
  BY <1>2, <1>FullWrite, Zenon
<1>3. ASSUME UNCHANGED <<headers, bodies, canon, headBlock, headHeader, headFast,
                         currentBlock, currentHeader, currentFast, writes, crashes, states, ready>>
      PROVE  Full' /\ Unbroken'
  <2>1. \A p \in Procs : ready'[p] # None => ready'[p] \in states' \ Bad
    BY <1>3 DEF Full
  <2> QED
    BY <1>3, <2>1, <1>FullKept, Zenon
<1>4. ASSUME NEW chain \in Chains, InsertChain(chain)
      PROVE  Full' /\ Unbroken'
  BY <1>3, <1>4, Zenon DEF InsertChain, disk, heads, counters
<1>5. CASE ProcFutureBlocks
  BY <1>3, <1>5, Zenon DEF ProcFutureBlocks, disk, heads, counters
<1>6. ASSUME NEW p \in Procs, IndexBlock(p)
      PROVE  Full' /\ Unbroken'
  BY <1>3, <1>6, Zenon DEF IndexBlock, heads, counters
<1>7. CASE Tick
  BY <1>3, <1>7, Zenon DEF Tick, disk, heads, import, counters
<1>8. CASE UNCHANGED vars
  BY <1>3, <1>8, Zenon DEF vars, disk, heads, import, counters
<1>9. CASE ValidateNext
  BY <1>9, <1>FullValidate, Zenon
<1>10. ASSUME NEW b \in Mined, Mine(b)
       PROVE  Full' /\ Unbroken'
  BY <1>10, <1>FullMine, Zenon
<1>11. ASSUME NEW p \in Procs, WriteBlock(p)
       PROVE  Full' /\ Unbroken'
  BY <1>11, <1>FullWriteBlock, Zenon
<1>12. ASSUME NEW n \in Heights, SetHead(n)
       PROVE  Full' /\ Unbroken'
  BY <1>1, <1>12, <1>FullSetHead, Zenon
<1>13. CASE Crash
  BY <1>1, <1>13, <1>FullCrash, Zenon
<1>14. ~Panic
  <2>1. SUFFICES ASSUME Panic
                 PROVE  FALSE
    OBVIOUS
  <2>2. writes # <<>> /\ Head(writes).op = "panic"
    BY <2>1, Zenon DEF Panic
  <2>3. Head(writes) \in Puts /\ Head(writes) = writes[1] /\ 1 \in DOMAIN writes
    BY <1>1, <2>2
  <2>4. writes[1].arg \in Blocks /\ writes[1].op = "panic"
    BY <2>2, <2>3, Zenon DEF Puts, BlockOps
  <2> QED
    BY <2>3, <2>4, Zenon DEF Full, Pending, Has
<1>15. ~WriteHeader /\ ~CommitReceipts /\ \A b \in Blocks : ~WriteBody(b)
  BY <1>1, Zenon DEF WriteHeader, CommitReceipts, WriteBody
<1>16. \A n \in Heights : ~Rollback(n)
  <2>1. SUFFICES ASSUME NEW n \in Heights, Rollback(n)
                 PROVE  FALSE
    OBVIOUS
  <2>2. rollbacks < MaxRollbacks
    BY <2>1, Zenon DEF Rollback
  <2> QED
    BY <1>1, <2>2
<1> QED
  BY <1>1, <1>2, <1>4, <1>5, <1>6, <1>7, <1>8, <1>9, <1>10, <1>11, <1>12, <1>13, <1>14, <1>15, <1>16, Zenon
  DEF Next

\* It holds of the initial state.
LEMMA FullInit ==
    ASSUME Init
    PROVE  Full /\ Unbroken
<1>1. Base /\ writes = <<>>
  BY BaseInit, ZenonT(30) DEF Init
<1>2. /\ PlannedStored = Stored
      /\ \A a \in Blocks : Canonical(a) <=> canon[Number[a]] = a
      /\ \A key, cur : \A b \in Blocks : Target(key, cur, b) <=> b = cur
      /\ \A op, a : ~Pending(op, a)
  BY <1>1, NothingPlanned, Zenon DEF Base
<1>3. Stored = {Genesis} /\ Genesis \in Blocks /\ Genesis \notin Bad /\ Ancestors[Genesis] = {Genesis}
  BY BlockAssumption, AncestorsStep, ZenonT(30) DEF Init, Stored
<1>4. Full
  BY <1>2, <1>3, ZenonT(30) DEF Full, Init
<1>5. canon[Number[Genesis]] = Genesis
  BY BlockAssumption, ZenonT(30) DEF Init, Heights
<1>6. currentBlock = Genesis /\ headHeader = currentHeader /\ headFast = currentFast
  BY Zenon DEF Init
<1>7. Unbroken
  BY <1>2, <1>3, <1>5, <1>6, Zenon DEF Unbroken
<1> QED
  BY <1>4, <1>7

---------------------------------------------------------------------------
(* The head block is the heaviest one.                                      *)

\* b will be the head block when the plan has been made.
Last(b) ==
    \/ b = currentBlock /\ \A c \in Blocks : ~Pending("headBlock", c)
    \/ Ends(writes, "headBlock", b)

\* No planned header is heavier than the head block will be.
Heaviest == \E b \in Blocks : Last(b) /\ \A c \in PlannedHeaders : Td[c] <= Td[b]

\* To make a write does not change what the head will be.
LEMMA LastWrite ==
    ASSUME writes \in Seq(Puts), NEW op, NEW arg, Made(op, arg), NEW b \in Blocks, Last(b)
    PROVE  Last(b)'
<1>1. \A o, a : Pending(o, a) <=> (o = op /\ a = arg) \/ Pending(o, a)'
  BY MadePending
<1>2. currentBlock' = (IF op = "headBlock" THEN arg ELSE currentBlock)
  BY Zenon DEF Made
<1>3. CASE b = currentBlock /\ \A c \in Blocks : ~Pending("headBlock", c)
  <2>1. op = "headBlock" => arg \in Blocks
    BY Zenon DEF Made
  <2> QED
    BY <1>1, <1>2, <1>3, <2>1, Zenon DEF Last
<1>4. CASE Ends(writes, "headBlock", b)
  <2>1. PICK j \in DOMAIN writes : /\ writes[j].op = "headBlock" /\ writes[j].arg = b
                                   /\ \A k \in DOMAIN writes : k > j => writes[k].op # "headBlock"
    BY <1>4 DEF Ends
  <2>2. \A k \in DOMAIN writes' : k + 1 \in DOMAIN writes /\ writes'[k] = writes[k + 1]
    BY MadePositions, Zenon
  <2>3. j \in Nat /\ j >= 1 /\ \A k \in DOMAIN writes' : k \in Nat /\ k >= 1
    BY DEF Made
  <2>4. CASE j = 1
    <3>1. op = "headBlock" /\ arg = b
      BY <2>1, <2>4, ZenonT(30) DEF Made
    <3>2. \A k \in DOMAIN writes' : writes'[k].op # "headBlock"
      BY <2>1, <2>2, <2>3, <2>4
    <3> QED
      BY <1>2, <3>1, <3>2, ZenonT(30) DEF Last, Pending, Has
  <2>5. CASE j # 1
    <3>1. j - 1 \in DOMAIN writes'
      BY <2>3, <2>5 DEF Made
    <3>2. writes'[j - 1] = writes[j]
      BY <2>2, <2>3, <3>1
    <3>3. \A k \in DOMAIN writes' : k > j - 1 => writes'[k].op # "headBlock"
      BY <2>1, <2>2, <2>3
    <3>4. Ends(writes', "headBlock", b)
      BY <2>1, <3>1, <3>2, <3>3, Zenon DEF Ends
    <3> QED
      BY <3>4, Zenon DEF Last
  <2> QED
    BY <2>4, <2>5, Zenon
<1> QED
  BY <1>3, <1>4 DEF Last

\* What WriteBlock does to the last head and to the headers.
LEMMA LastWriteBlock ==
    ASSUME Foundations, Base, NEW b \in Blocks \ {Genesis}, writes = <<>>, writes' = BlockPlan(b),
           UNCHANGED <<headers, bodies, canon, currentBlock>>
    PROVE  /\ Heavier(b) => Last(b)'
           /\ ~Heavier(b) => \A c : c = currentBlock => Last(c)'
           /\ PlannedHeaders' = headers \cup {b} /\ PlannedHeaders = headers
<1>1. currentBlock \in Blocks
  BY DEF Base, Types, TypeOK
<1>2. Heavier(b) => Ends(writes', "headBlock", b)
  BY <1>1, BlockPlanProperties, ZenonT(30)
<1>3. \A a : Pending("headBlock", a)' => Heavier(b)
  BY <1>1, BlockPlanProperties, ZenonT(30) DEF Pending
<1>4. PlannedHeaders' = headers \cup {b} /\ PlannedHeaders = headers
  BY BlockPlanned, NothingPlanned, Zenon DEF Base
<1> QED
  BY <1>2, <1>3, <1>4, Zenon DEF Last

\* Without a plan the head will be what it is.
LEMMA LastUnlocked ==
    ASSUME writes = <<>>
    PROVE  \A b : Last(b) <=> b = currentBlock
<1>1. \A op, a : ~Pending(op, a)
  BY HasNothing DEF Pending
<1>2. \A b : ~Ends(writes, "headBlock", b)
  <2>1. DOMAIN writes = {}
    OBVIOUS
  <2> QED
    BY <2>1 DEF Ends
<1> QED
  BY <1>1, <1>2, Zenon DEF Last

\* The steps that start a plan, and those that are out of question here.
LEMMA ImportSteps ==
    ASSUME FullSync, MaxRewinds = 0, MaxCrashes = 0, Base, Full, [Next]_vars
    PROVE  \/ Write
           \/ \E p \in Procs : WriteBlock(p)
           \/ \E p \in Procs : IndexBlock(p)
           \/ ValidateNext
           \/ \E b \in Mined : Mine(b)
           \/ /\ UNCHANGED <<headers, bodies, canon, lookup, currentBlock, writes, ready, index>>
<1>1. /\ HeaderChains = {} /\ ReceiptChains = {} /\ Pivots = {} /\ MaxRollbacks = 0
      /\ hbatch = <<>> /\ rhead = None /\ rleft = {} /\ rollbacks \in 0..0
      /\ writes \in Seq(Puts) /\ rewinds \in 0..0 /\ crashes \in 0..0
  BY DEF FullSync, Base, Types, TypeOK
<1>2. ~Panic
  <2>1. SUFFICES ASSUME Panic
                 PROVE  FALSE
    OBVIOUS
  <2>2. writes # <<>> /\ Head(writes).op = "panic"
    BY <2>1, Zenon DEF Panic
  <2>3. Head(writes) \in Puts /\ Head(writes) = writes[1] /\ 1 \in DOMAIN writes
    BY <1>1, <2>2
  <2>4. writes[1].arg \in Blocks /\ writes[1].op = "panic"
    BY <2>2, <2>3, Zenon DEF Puts, BlockOps
  <2> QED
    BY <2>3, <2>4, Zenon DEF Full, Pending, Has
<1>3. ~WriteHeader /\ ~CommitReceipts /\ \A b \in Blocks : ~WriteBody(b)
  BY <1>1, Zenon DEF WriteHeader, CommitReceipts, WriteBody
<1>4. \A n \in Heights : ~Rollback(n) /\ ~SetHead(n)
  <2>1. SUFFICES ASSUME NEW n \in Heights, Rollback(n) \/ SetHead(n)
                 PROVE  FALSE
    OBVIOUS
  <2>2. rollbacks < MaxRollbacks \/ rewinds < MaxRewinds
    BY <2>1, Zenon DEF Rollback, SetHead
  <2> QED
    BY <1>1, <2>2
<1>5. ~Crash
  <2>1. SUFFICES ASSUME Crash
                 PROVE  FALSE
    OBVIOUS
  <2>2. crashes < MaxCrashes
    BY <2>1 DEF Crash
  <2> QED
    BY <1>1, <2>2
<1>6. ASSUME \/ \E chain \in Chains : InsertChain(chain)
             \/ ProcFutureBlocks \/ Tick \/ UNCHANGED vars
      PROVE  UNCHANGED <<headers, bodies, canon, lookup, currentBlock, writes, ready, index>>
  BY <1>6, ZenonT(30) DEF InsertChain, ProcFutureBlocks, Tick, vars, disk, heads, import
<1> QED
  BY <1>1, <1>2, <1>3, <1>4, <1>5, <1>6, Zenon DEF Next

\* Every step of imports and mining keeps the head the heaviest.
LEMMA HeaviestNext ==
    ASSUME Foundations, FullSync, MaxRewinds = 0, MaxCrashes = 0, Base, Full, Heaviest, [Next]_vars
    PROVE  Heaviest'
<1>1. PICK b \in Blocks : Last(b) /\ \A c \in PlannedHeaders : Td[c] <= Td[b]
  BY DEF Heaviest
<1>2. CASE Write
  <2>1. writes \in Seq(Puts)
    BY DEF Base, Types, TypeOK
  <2>2. PICK op, arg : Made(op, arg)
    BY <1>2, <2>1, WriteMakes, Zenon
  <2>3. Last(b)' /\ PlannedHeaders' = PlannedHeaders
    BY <1>1, <2>1, <2>2, LastWrite, MadePlanned, Zenon
  <2> QED
    BY <1>1, <2>3, Zenon DEF Heaviest
<1>3. ASSUME UNCHANGED <<headers, currentBlock, writes>>
      PROVE  Heaviest'
  <2>1. \A op, a : Pending(op, a)' <=> Pending(op, a)
    BY <1>3, Zenon DEF Pending
  <2>2. PlannedHeaders' = PlannedHeaders
    BY <1>3, <2>1 DEF PlannedHeaders
  <2>3. Last(b)'
    BY <1>1, <1>3, <2>1, Zenon DEF Last
  <2> QED
    BY <1>1, <2>2, <2>3, Zenon DEF Heaviest
<1>4. ASSUME NEW p \in Procs, WriteBlock(p)
      PROVE  Heaviest'
  <2>0. PICK e : e = ready[p]
    OBVIOUS
  <2>1. /\ e \in Blocks \ {Genesis} /\ writes = <<>>
        /\ writes' = <<>> \/ writes' = BlockPlan(e)
    BY <1>4, <2>0, WriteBlockPlan, ZenonT(30) DEF Base
  <2>2. UNCHANGED <<headers, bodies, canon, currentBlock>>
    BY <1>4, Zenon DEF WriteBlock, disk, heads
  <2>3. b = currentBlock
    BY <1>1, <2>1, LastUnlocked, Zenon
  <2>4. CASE writes' = BlockPlan(e)
    <3>1. /\ Heavier(e) => Last(e)'
          /\ ~Heavier(e) => Last(b)'
          /\ PlannedHeaders' = headers \cup {e} /\ PlannedHeaders = headers
      BY <2>1, <2>2, <2>3, <2>4, LastWriteBlock, Zenon
    <3>2. Td[b] \in Nat /\ Td[e] \in Nat /\ headers \subseteq Blocks /\ \A c \in Blocks : Td[c] \in Nat
      BY <2>1, BlockAssumption, ZenonT(30) DEF Base, Types, TypeOK
    <3>3. CASE Heavier(e)
      <4>1. \A c \in headers \cup {e} : Td[c] <= Td[e]
        BY <1>1, <2>3, <3>1, <3>2, <3>3 DEF Heavier
      <4> QED
        BY <2>1, <3>1, <3>3, <4>1, Zenon DEF Heaviest
    <3>4. CASE ~Heavier(e)
      <4>1. \A c \in headers \cup {e} : Td[c] <= Td[b]
        BY <1>1, <2>3, <3>1, <3>2, <3>4 DEF Heavier
      <4> QED
        BY <3>1, <3>4, <4>1, Zenon DEF Heaviest
    <3> QED
      BY <3>3, <3>4, Zenon
  <2> QED
    BY <1>3, <2>1, <2>2, <2>4, Zenon
<1>5. ASSUME NEW p \in Procs, IndexBlock(p)
      PROVE  Heaviest'
  BY <1>3, <1>5, Zenon DEF IndexBlock, heads
<1>6. CASE ValidateNext
  BY <1>3, <1>6, Zenon DEF ValidateNext, heads
<1>7. ASSUME NEW e \in Mined, Mine(e)
      PROVE  Heaviest'
  BY <1>3, <1>7, Zenon DEF Mine, heads
<1> QED
  BY <1>2, <1>3, <1>4, <1>5, <1>6, <1>7, ImportSteps, Zenon

---------------------------------------------------------------------------
(* The transaction index follows the chain.                                 *)

\* The blocks of the chain of b that contain t.
Containing(b, t) == {a \in Ancestors[b] : t \in TxsOf[a]}

\* t is found in the chain of b, or will be when the plan has been made and the
\* importer has indexed the block it wrote.
Traced(b, t) ==
    \/ lookup[t] \in Containing(b, t)
    \/ \E e \in Blocks : Pending("index", e) /\ t \in TxsOf[e]
    \/ index["import"] = b /\ t \in TxsOf[b]

\* The index agrees with the chain of b, or will when the plan has been made and the
\* importer has written the lookup entries of b.
Indexed(b) ==
    /\ index["mine"] = None /\ ready["mine"] = None
    /\ ready["import"] = None \/ index["import"] = None
    /\ index["import"] \in {None, b}
    /\ \A e \in Blocks : Pending("index", e) => e \in Ancestors[b]
    /\ \A t \in Txs :
          /\ Containing(b, t) = {} => lookup[t] = None \/ Pending("unindex", t)
          /\ Containing(b, t) # {} => ~Pending("unindex", t) /\ Traced(b, t)

\* The index agrees with the chain of the block that will be the head.
Findable == \E b \in Blocks : Last(b) /\ Indexed(b)

\* Every step of an import keeps the index in agreement with the chain.
LEMMA FindableNext ==
    ASSUME Foundations, FullSync, MaxRewinds = 0, MaxCrashes = 0, Mined = {}, Base, Full, Unbroken, Findable,
           [Next]_vars
    PROVE  Findable'
\* A write keeps the index in agreement with the chain.
<1>IndexedWrite. ASSUME Base, NEW op, NEW arg, Made(op, arg), NEW b \in Blocks, Indexed(b)
                 PROVE  Indexed(b)'
  <2> USE <1>IndexedWrite
  <2>1. writes \in Seq(Puts) /\ lookup \in [Txs -> Blocks \cup {None}]
    BY Zenon DEF Base, Types, TypeOK
  <2>2. \A o, a : Pending(o, a) <=> (o = op /\ a = arg) \/ Pending(o, a)'
    BY <2>1, MadePending, Zenon
  <2>3. /\ UNCHANGED <<ready, index>>
        /\ lookup' = IF op = "index" THEN [t \in Txs |-> IF t \in TxsOf[arg] THEN arg ELSE lookup[t]]
                     ELSE IF op = "unindex" THEN [lookup EXCEPT ![arg] = None] ELSE lookup
        /\ op = "index" => arg \in Blocks
        /\ op = "unindex" => arg \in Txs
    BY ZenonT(30) DEF Made, import, BlockOps
  <2>4. \A e \in Blocks : Pending("index", e)' => e \in Ancestors[b]
    BY <2>2, ZenonT(30) DEF Indexed
  <2>5. ASSUME NEW t \in Txs
        PROVE  /\ Containing(b, t) = {} => lookup'[t] = None \/ Pending("unindex", t)'
               /\ Containing(b, t) # {} => ~Pending("unindex", t)' /\ Traced(b, t)'
    <3>1. CASE op = "index"
      <4>1. lookup'[t] = (IF t \in TxsOf[arg] THEN arg ELSE lookup[t])
        BY <2>3, <3>1, Zenon
      <4>2. arg \in Ancestors[b] /\ arg \in Blocks
        BY <2>2, <2>3, <3>1, ZenonT(30) DEF Indexed
      <4>3. Pending("unindex", t)' <=> Pending("unindex", t)
        BY <2>2, <3>1, Zenon
      <4>4. CASE t \in TxsOf[arg]
        <5>1. arg \in Containing(b, t) /\ lookup'[t] = arg
          BY <4>1, <4>2, <4>4, ZenonT(30) DEF Containing
        <5> QED
          BY <4>3, <5>1, ZenonT(30) DEF Indexed, Traced
      <4>5. CASE t \notin TxsOf[arg]
        <5>1. lookup'[t] = lookup[t]
          BY <4>1, <4>5, Zenon
        <5>2. \A e \in Blocks : Pending("index", e) /\ t \in TxsOf[e] => Pending("index", e)'
          BY <2>2, <4>5, Zenon
        <5>3. Traced(b, t) => Traced(b, t)'
          BY <2>3, <5>1, <5>2, ZenonT(30) DEF Traced
        <5> QED
          BY <4>3, <5>1, <5>3, ZenonT(30) DEF Indexed
      <4> QED
        BY <4>4, <4>5, ZenonT(30)
    <3>2. CASE op = "unindex"
      <4>1. lookup'[t] = IF t = arg THEN None ELSE lookup[t]
        BY <2>1, <2>3, <3>2, Zenon
      <4>2. \A e \in Blocks : Pending("index", e)' <=> Pending("index", e)
        BY <2>2, <3>2, Zenon
      <4>3. CASE t = arg
        <5>1. Pending("unindex", t)
          BY <2>2, <3>2, <4>3, Zenon
        <5> QED
          BY <4>1, <4>3, <5>1, ZenonT(30) DEF Indexed
      <4>4. CASE t # arg
        <5>1. lookup'[t] = lookup[t] /\ (Pending("unindex", t)' <=> Pending("unindex", t))
          BY <2>2, <4>1, <4>4, Zenon
        <5>2. Traced(b, t) => Traced(b, t)'
          BY <2>3, <4>2, <5>1, ZenonT(30) DEF Traced
        <5> QED
          BY <5>1, <5>2, ZenonT(30) DEF Indexed
      <4> QED
        BY <4>3, <4>4, Zenon
    <3>3. CASE op \notin {"index", "unindex"}
      <4>1. /\ lookup' = lookup /\ (Pending("unindex", t)' <=> Pending("unindex", t))
            /\ \A e \in Blocks : Pending("index", e)' <=> Pending("index", e)
        BY <2>2, <2>3, <3>3, ZenonT(30)
      <4>2. Traced(b, t) => Traced(b, t)'
        BY <2>3, <4>1, ZenonT(30) DEF Traced
      <4> QED
        BY <4>1, <4>2, ZenonT(30) DEF Indexed
    <3> QED
      BY <3>1, <3>2, <3>3, Zenon
  <2> QED
    BY <2>3, <2>4, <2>5, ZenonT(30) DEF Indexed
\* The transactions that reorg unindexes.
<1>DroppedTxsMembers. ASSUME NEW e, NEW t
                      PROVE  t \in DroppedTxs(e) <=> /\ \E c \in OldChain(e) : t \in TxsOf[c]
                                                     /\ \A a \in NewChain(e) : t \notin TxsOf[a]
  <2>1. ASSUME NEW S
        PROVE  t \in UNION {TxsOf[c] : c \in S} <=> \E c \in S : t \in TxsOf[c]
    BY ZenonT(30)
  <2> QED
    BY <2>1 DEF DroppedTxs
\* WriteBlock makes e the head.
<1>IndexedHead. ASSUME Foundations, Base, Full, Unbroken, crashes = 0, Indexed(currentBlock), writes = <<>>,
                       NEW e \in Blocks \ {Genesis}, e = ready["import"], Heavier(e), writes' = BlockPlan(e),
                       index' = [index EXCEPT !["import"] = e], ready' = [ready EXCEPT !["import"] = None],
                       lookup' = lookup
                PROVE  Indexed(e)'
  <2> USE <1>IndexedHead
  <2>1. /\ currentBlock \in Blocks /\ index \in [Procs -> Blocks \cup {None}]
        /\ ready \in [Procs -> Blocks \cup {None}] /\ None \notin Blocks
        /\ lookup \in [Txs -> Blocks \cup {None}]
    BY BlockAssumption, ZenonT(30) DEF Base, Types, TypeOK
  <2>2. /\ index'["import"] = e /\ index'["mine"] = None
        /\ ready'["import"] = None /\ ready'["mine"] = None
        /\ index["import"] = None
    BY <2>1 DEF Procs, Indexed
  <2>3. \A op, a : ~Pending(op, a)
    BY HasNothing, Zenon DEF Pending
  <2>4. \A t \in Txs :
           /\ Containing(currentBlock, t) = {} => lookup[t] = None
           /\ Containing(currentBlock, t) # {} => lookup[t] \in Containing(currentBlock, t)
    BY <2>1, <2>2, <2>3, Zenon DEF Indexed, Traced
  <2>5. /\ \A a : Pending("index", a)' => a \in NewChain(e) \cup {e}
        /\ \A t : Pending("unindex", t)' => t \in DroppedTxs(e)
        /\ Parent[e] # currentBlock =>
              /\ \A a \in NewChain(e) : Pending("index", a)'
              /\ \A t \in DroppedTxs(e) : Pending("unindex", t)'
    BY <2>1, BlockPlanProperties DEF Pending
  <2>6. Ancestors[e] \in SUBSET Blocks /\ e \in Ancestors[e] /\ Ancestors[currentBlock] \in SUBSET Blocks
    BY <2>1, AncestorsType, Zenon
  <2>7. \A a, c \in Ancestors[currentBlock] : \A t : t \in TxsOf[a] /\ t \in TxsOf[c] => a = c
    <3>1. PlannedStored = Stored /\ Target("headBlock", currentBlock, currentBlock)
      BY <2>1, NothingPlanned, Zenon DEF Base
    <3>2. Ancestors[currentBlock] \subseteq Stored
      BY <2>1, <3>1, Zenon DEF Unbroken
    <3>3. Ancestors[currentBlock] \cap Bad = {}
      BY <2>6, <3>2, ZenonT(30) DEF Full, Stored
    <3> QED
      BY <2>1, <3>3, TxAssumption, Zenon
  <2>8. Parent[e] = currentBlock =>
           NewChain(e) \subseteq {e} /\ Ancestors[currentBlock] \subseteq Ancestors[e]
    BY <2>1, NewChainOfChild, AncestorsStep
  <2>9. ASSUME NEW t \in Txs, Containing(e, t) = {}
        PROVE  lookup'[t] = None \/ Pending("unindex", t)'
    <3>1. CASE Containing(currentBlock, t) = {}
      BY <2>4, <3>1, ZenonT(30)
    <3>2. CASE Containing(currentBlock, t) # {}
      <4>1. PICK c \in Ancestors[currentBlock] : t \in TxsOf[c]
        BY <3>2, Zenon DEF Containing
      <4>2. c \notin Ancestors[e] /\ \A a \in NewChain(e) : t \notin TxsOf[a]
        BY <2>9, <4>1, Zenon DEF Containing, NewChain
      <4>3. t \in DroppedTxs(e)
        <5>1. c \in OldChain(e)
          BY <4>1, <4>2, Zenon DEF OldChain
        <5> QED
          BY <4>1, <4>2, <5>1, <1>DroppedTxsMembers, ZenonT(30)
      <4>4. Parent[e] # currentBlock
        BY <2>8, <4>1, <4>2, Zenon
      <4> QED
        BY <2>5, <4>3, <4>4, ZenonT(30)
    <3> QED
      BY <3>1, <3>2, ZenonT(30)
  <2>10. ASSUME NEW t \in Txs, Containing(e, t) # {}
         PROVE  ~Pending("unindex", t)' /\ Traced(e, t)'
    <3>1. PICK a \in Ancestors[e] : t \in TxsOf[a]
      BY <2>10, ZenonT(30) DEF Containing
    <3>2. ~Pending("unindex", t)'
      <4>1. SUFFICES ASSUME t \in DroppedTxs(e)
                     PROVE  FALSE
        BY <2>5, ZenonT(30)
      <4>2. PICK c \in OldChain(e) : t \in TxsOf[c]
        BY <4>1, <1>DroppedTxsMembers, Zenon
      <4>3. a \notin NewChain(e)
        BY <3>1, <4>1, <1>DroppedTxsMembers, ZenonT(30)
      <4> QED
        BY <2>7, <3>1, <4>2, <4>3, Zenon DEF NewChain, OldChain
    <3>3. CASE a \in NewChain(e)
      <4>1. CASE Parent[e] = currentBlock
        BY <2>2, <2>8, <3>1, <3>2, <3>3, <4>1, ZenonT(30) DEF Traced
      <4>2. CASE Parent[e] # currentBlock
        BY <2>5, <2>6, <3>1, <3>2, <3>3, <4>2, ZenonT(30) DEF Traced
      <4> QED
        BY <4>1, <4>2, ZenonT(30)
    <3>4. CASE a \in Ancestors[currentBlock]
      <4>1. lookup[t] \in Ancestors[currentBlock] /\ t \in TxsOf[lookup[t]]
        BY <2>4, <3>1, <3>4, Zenon DEF Containing
      <4>2. lookup[t] = a
        BY <2>7, <3>1, <3>4, <4>1, ZenonT(30)
      <4> QED
        BY <3>1, <3>2, <4>2, ZenonT(30) DEF Traced, Containing
    <3> QED
      BY <3>1, <3>3, <3>4, ZenonT(30) DEF NewChain
  <2>11. \A a \in Blocks : Pending("index", a)' => a \in Ancestors[e]
    BY <2>5, <2>6 DEF NewChain
  <2> QED
    BY <2>2, <2>9, <2>10, <2>11, ZenonT(30) DEF Indexed
\* A step that leaves the head, the plan and the index alone.
<1>IndexedKept. ASSUME NEW b, Indexed(b), UNCHANGED <<writes, lookup, index>>,
                       ready'["mine"] = None, index["import"] = None \/ ready' = ready
                PROVE  Indexed(b)'
  <2> USE <1>IndexedKept
  <2>1. \A op, a : Pending(op, a)' <=> Pending(op, a)
    BY DEF Pending
  <2>2. \A t : Traced(b, t)' <=> Traced(b, t)
    BY <2>1, ZenonT(30) DEF Traced
  <2> QED
    BY <2>1, <2>2, Zenon DEF Indexed
\* WriteBlock stores the block the importer passes to it, or fails, and the
\* head stays.
<1>IndexedStored. ASSUME NEW b \in Blocks, Indexed(b), writes = <<>>, ready["import"] # None,
                         ready \in [Procs -> Blocks \cup {None}],
                         ready' = [ready EXCEPT !["import"] = None], UNCHANGED <<lookup, index>>,
                         \A a : ~Pending("index", a)' /\ ~Pending("unindex", a)'
                  PROVE  Indexed(b)'
  <2> USE <1>IndexedStored
  <2>1. \A op, a : ~Pending(op, a)
    BY HasNothing DEF Pending
  <2>2. ready'["mine"] = None /\ ready'["import"] = None /\ index["import"] = None
    BY ZenonT(30) DEF Indexed, Procs
  <2>3. \A t : Traced(b, t) => Traced(b, t)'
    BY <2>1, ZenonT(30) DEF Traced
  <2> QED
    BY <2>1, <2>2, <2>3, ZenonT(30) DEF Indexed
<1>1. PICK b \in Blocks : Last(b) /\ Indexed(b)
  BY Zenon DEF Findable
<1>2. /\ crashes = 0 /\ ready \in [Procs -> Blocks \cup {None}] /\ index \in [Procs -> Blocks \cup {None}]
      /\ writes \in Seq(Puts) /\ lookup \in [Txs -> Blocks \cup {None}] /\ None \notin Blocks
  <2>1. crashes \in 0..MaxCrashes /\ ready \in [Procs -> Blocks \cup {None}]
    BY Zenon DEF Base, Types, TypeOK
  <2>2. index \in [Procs -> Blocks \cup {None}] /\ writes \in Seq(Puts)
        /\ lookup \in [Txs -> Blocks \cup {None}]
    BY DEF Base, Types, TypeOK
  <2>3. crashes = 0
    BY <2>1
  <2> QED
    BY <2>1, <2>2, <2>3, BlockAssumption, Zenon
<1>3. CASE Write
  <2>1. PICK op, arg : Made(op, arg)
    BY <1>2, <1>3, WriteMakes, Zenon
  <2> QED
    BY <1>1, <1>2, <2>1, LastWrite, <1>IndexedWrite, Zenon DEF Findable
<1>4. ASSUME UNCHANGED <<currentBlock, writes, lookup, index>>,
             ready'["mine"] = None, index["import"] = None \/ ready' = ready
      PROVE  Findable'
  <2>1. Last(b)'
    BY <1>1, <1>4, Zenon DEF Last, Pending
  <2> QED
    BY <1>1, <1>4, <2>1, <1>IndexedKept, ZenonT(30) DEF Findable
<1>5. ASSUME NEW p \in Procs, WriteBlock(p)
      PROVE  Findable'
  <2>1. p = "import" /\ ready["import"] # None /\ writes = <<>>
    BY <1>1, <1>5, ZenonT(30) DEF Indexed, Procs, WriteBlock, Unlocked
  <2>2. PICK e : e = ready["import"]
    OBVIOUS
  <2>3. /\ e \in Blocks \ {Genesis}
        /\ \/ writes' = <<>> /\ index' = index
           \/ /\ writes' = BlockPlan(e)
              /\ index' = IF Heavier(e) THEN [index EXCEPT !["import"] = e] ELSE index
    BY <1>5, <2>1, <2>2, WriteBlockPlan, ZenonT(30) DEF Base
  <2>4. /\ UNCHANGED <<headers, bodies, canon, currentBlock, lookup>>
        /\ ready' = [ready EXCEPT !["import"] = None]
    BY <1>5, <2>1, ZenonT(30) DEF WriteBlock, disk, heads
  <2>5. b = currentBlock
    BY <1>1, <2>1, LastUnlocked, Zenon
  <2>6. CASE writes' = <<>> /\ index' = index
    <3>1. \A a : ~Pending("index", a)' /\ ~Pending("unindex", a)'
      BY <2>6, HasNothing, Zenon DEF Pending
    <3>2. Indexed(b)'
      BY <1>1, <1>2, <2>1, <2>4, <2>6, <3>1, <1>IndexedStored, Zenon
    <3>3. Last(b)'
      BY <2>1, <2>4, <2>6, <1>1, Zenon DEF Last, Pending
    <3> QED
      BY <3>2, <3>3, Zenon DEF Findable
  <2>7. CASE /\ writes' = BlockPlan(e)
             /\ index' = IF Heavier(e) THEN [index EXCEPT !["import"] = e] ELSE index
    <3>1. /\ Heavier(e) => Last(e)'
          /\ ~Heavier(e) => Last(b)'
      BY <2>1, <2>3, <2>4, <2>5, <2>7, LastWriteBlock, Zenon
    <3>2. CASE Heavier(e)
      <4>1. Indexed(e)'
        BY <1>1, <1>2, <2>1, <2>2, <2>3, <2>4, <2>5, <2>7, <3>2, <1>IndexedHead, ZenonT(30)
      <4> QED
        BY <2>3, <3>1, <3>2, <4>1, Zenon DEF Findable
    <3>3. CASE ~Heavier(e)
      <4>1. \A a : ~Pending("index", a)' /\ ~Pending("unindex", a)'
        <5>1. currentBlock \in Blocks
          BY <2>5, Zenon
        <5> QED
          BY <2>3, <2>7, <3>3, <5>1, BlockPlanProperties, ZenonT(30) DEF Pending
      <4>2. Indexed(b)'
        BY <1>1, <1>2, <2>1, <2>4, <2>7, <3>3, <4>1, <1>IndexedStored, Zenon
      <4> QED
        BY <3>1, <3>3, <4>2, Zenon DEF Findable
    <3> QED
      BY <3>2, <3>3, Zenon
  <2> QED
    BY <2>3, <2>6, <2>7, Zenon
<1>6. ASSUME NEW p \in Procs, IndexBlock(p)
      PROVE  Findable'
  <2>1. /\ p = "import" /\ index["import"] # None /\ writes = <<>>
        /\ UNCHANGED <<currentBlock, writes, ready>>
        /\ index' = [index EXCEPT ![p] = None]
        /\ lookup' = [t \in Txs |-> IF t \in TxsOf[index[p]] THEN index[p] ELSE lookup[t]]
    BY <1>1, <1>6, ZenonT(30) DEF Indexed, Procs, IndexBlock, Unlocked, heads
  <2>2. index["import"] = b
    BY <1>1, <2>1, ZenonT(30) DEF Indexed
  <2>3. /\ index'["import"] = None /\ index'["mine"] = None
        /\ \A t \in Txs : lookup'[t] = IF t \in TxsOf[b] THEN b ELSE lookup[t]
    BY <1>1, <1>2, <2>1, <2>2, ZenonT(30) DEF Indexed, Procs
  <2>4. Last(b)'
    BY <1>1, <2>1, Zenon DEF Last, Pending
  <2>5. \A op, a : ~Pending(op, a) /\ ~Pending(op, a)'
    BY <2>1, HasNothing, Zenon DEF Pending
  <2>6. b \in Ancestors[b]
    BY AncestorsType, Zenon
  <2>7. ASSUME NEW t \in Txs
        PROVE  /\ Containing(b, t) = {} => lookup'[t] = None
               /\ Containing(b, t) # {} => Traced(b, t)'
    <3>1. CASE t \in TxsOf[b]
      <4>1. b \in Containing(b, t) /\ lookup'[t] = b
        BY <2>3, <2>6, <3>1, Zenon DEF Containing
      <4> QED
        BY <4>1, Zenon DEF Traced
    <3>2. CASE t \notin TxsOf[b]
      <4>1. lookup'[t] = lookup[t]
        BY <2>3, <3>2, ZenonT(30)
      <4>2. Traced(b, t) => lookup[t] \in Containing(b, t)
        BY <2>5, <3>2, Zenon DEF Traced
      <4>3. /\ Containing(b, t) = {} => lookup[t] = None
            /\ Containing(b, t) # {} => Traced(b, t)
        BY <1>1, <2>5, ZenonT(30) DEF Indexed
      <4> QED
        BY <4>1, <4>2, <4>3, ZenonT(30) DEF Traced
    <3> QED
      BY <3>1, <3>2, ZenonT(30)
  <2>8. Indexed(b)'
    BY <1>1, <2>1, <2>3, <2>5, <2>7, ZenonT(30) DEF Indexed
  <2> QED
    BY <2>4, <2>8, Zenon DEF Findable
<1>7. CASE ValidateNext
  <2>1. /\ UNCHANGED <<currentBlock, writes, lookup, index>> /\ index["import"] = None
        /\ ready' = ready \/ ready' = [ready EXCEPT !["import"] = Head(batch)]
    BY <1>7 DEF ValidateNext, heads
  <2>2. ready'["mine"] = None
    BY <1>1, <1>2, <2>1, ZenonT(30) DEF Indexed, Procs
  <2> QED
    BY <1>4, <2>1, <2>2, ZenonT(30)
<1>8. ASSUME UNCHANGED <<headers, bodies, canon, lookup, currentBlock, writes, ready, index>>
      PROVE  Findable'
  BY <1>1, <1>4, <1>8, ZenonT(30) DEF Indexed
<1> QED
  BY <1>3, <1>5, <1>6, <1>7, <1>8, ImportSteps, Zenon

---------------------------------------------------------------------------
(* Fast synchronisation: the fast head is complete.                         *)

\* Unless SetHead has been called, nothing is deleted, the fast head is, and will
\* be, stored, and so is the last block of a receipt chain once its body is written.
Complete ==
    rewinds = 0 =>
        /\ \A b \in Blocks, del \in Deletions : ~Pending(del, b)
        /\ \A b \in Blocks : Target("headFast", currentFast, b) => b \in PlannedStored
        /\ rhead # None => rhead \in rleft \cup Stored

\* Every step keeps it.
LEMMA CompleteNext ==
    ASSUME Foundations, Base, Complete, [Next]_vars
    PROVE  Complete'
\* A write keeps the fast head complete.
<1>CompleteWrite. ASSUME Base, Complete, Write
                  PROVE  Complete'
  <2> USE <1>CompleteWrite
  <2>1. PICK op, arg : Made(op, arg)
    BY WriteMakes, Zenon DEF Base, Types, TypeOK
  <2>2. writes \in Seq(Puts)
    BY DEF Base, Types, TypeOK
  <2>3. \A o, a : Pending(o, a) <=> (o = op /\ a = arg) \/ Pending(o, a)'
    BY <2>1, <2>2, MadePending, Zenon
  <2>4. PlannedStored' = PlannedStored
    BY <2>1, MadePlanned, Zenon
  <2>5. \A b \in Blocks : Target("headFast", currentFast, b)' => Target("headFast", currentFast, b)
    BY <2>1, <2>2, MadeTargets, Zenon
  <2>6. /\ UNCHANGED <<rhead, rleft, rewinds>>
        /\ headers' = IF op = "header" THEN headers \cup {arg}
                      ELSE IF op = "delHeader" THEN headers \ {arg} ELSE headers
        /\ bodies' = IF op = "body" THEN bodies \cup {arg}
                     ELSE IF op = "delBody" THEN bodies \ {arg} ELSE bodies
        /\ op \in Deletions => arg \in Blocks
    BY <2>1, Zenon DEF Made, fast, counters, Deletions
  <2>7. SUFFICES ASSUME rewinds = 0
                 PROVE  /\ \A b \in Blocks, del \in Deletions : ~Pending(del, b)'
                        /\ \A b \in Blocks : Target("headFast", currentFast, b)' => b \in PlannedStored'
                        /\ rhead' # None => rhead' \in rleft' \cup Stored'
    BY <2>6 DEF Complete
  <2>8. op \notin Deletions
    BY <2>3, <2>6, <2>7, Zenon DEF Complete
  <2>9. Stored \subseteq Stored'
    BY <2>6, <2>8, Zenon DEF Stored, Deletions
  <2> QED
    BY <2>3, <2>4, <2>5, <2>6, <2>7, <2>9, Zenon DEF Complete
\* A step that starts a plan without deletions and moves the fast head, if at
\* all, onto blocks that will be stored.
<1>CompletePlan.
      ASSUME Base, Complete, writes = <<>>,
             UNCHANGED <<headers, bodies, currentFast, rewinds>>,
             \A b \in Blocks, del \in Deletions : ~Pending(del, b)',
             rewinds = 0 => \A b \in Blocks : Pending("headFast", b)' => b \in Stored \/ b \in PlannedStored',
             rhead' # None => rhead' = rhead /\ rleft' = rleft
      PROVE  Complete'
  <2> USE <1>CompletePlan
  <2>1. SUFFICES ASSUME rewinds = 0
                 PROVE  /\ \A b \in Blocks : Target("headFast", currentFast, b)' => b \in PlannedStored'
                        /\ rhead' # None => rhead' \in rleft' \cup Stored'
    BY Zenon DEF Complete
  <2>2. headers \in SUBSET Blocks /\ bodies \in SUBSET Blocks /\ currentFast \in Blocks
    BY Zenon DEF Base, Types, TypeOK
  <2>3. Stored \subseteq PlannedStored'
    BY <2>2, Zenon DEF Stored, PlannedStored, PlannedHeaders, PlannedBodies, Deletions
  <2>4. currentFast \in Stored
    BY <2>1, <2>2, NothingPlanned, Zenon DEF Base, Complete
  <2>5. Stored' = Stored
    BY DEF Stored
  <2> QED
    BY <2>1, <2>3, <2>4, <2>5, Zenon DEF Complete, Target
\* A step that leaves the plan alone.
<1>CompleteKept. ASSUME Complete, UNCHANGED <<headers, currentFast, writes, rewinds>>, bodies \subseteq bodies',
                        rhead' # None => rhead' \in rleft' \cup Stored' \/ (rhead' = rhead /\ rleft' = rleft)
                 PROVE  Complete'
  <2> USE <1>CompleteKept
  <2>1. \A op, a : Pending(op, a)' <=> Pending(op, a)
    BY Zenon DEF Pending
  <2>2. PlannedStored \subseteq PlannedStored'
    BY <2>1, Zenon DEF PlannedStored, PlannedHeaders, PlannedBodies
  <2>3. \A b : Target("headFast", currentFast, b)' <=> Target("headFast", currentFast, b)
    BY <2>1 DEF Target
  <2>4. Stored \subseteq Stored'
    BY DEF Stored
  <2> QED
    BY <2>1, <2>2, <2>3, <2>4, Zenon DEF Complete
\* WriteBlock keeps it: insert moves the fast head onto blocks that are stored.
<1>CompleteWriteBlock. ASSUME Foundations, Base, Complete, NEW p \in Procs, WriteBlock(p)
                       PROVE  Complete'
  <2> USE <1>CompleteWriteBlock
  <2>0. PICK b : b = ready[p]
    OBVIOUS
  <2>1. /\ b \in Blocks \ {Genesis} /\ writes = <<>>
        /\ \/ writes' = <<>>
           \/ /\ writes' = BlockPlan(b)
              /\ Heavier(b) /\ Parent[b] # currentBlock => Reorganisable(b)
    BY <2>0, WriteBlockPlan, Zenon DEF Base
  <2>2. UNCHANGED <<headers, bodies, canon, currentFast, rewinds, rhead, rleft>>
    BY DEF WriteBlock, disk, heads, counters, fast
  <2>3. CASE writes' = <<>>
    BY <2>1, <2>2, <2>3, <1>CompleteKept, Zenon
  <2>4. CASE /\ writes' = BlockPlan(b)
             /\ Heavier(b) /\ Parent[b] # currentBlock => Reorganisable(b)
    <3>1. currentBlock \in Blocks /\ currentBlock \in Ancestors[currentBlock]
      BY AncestorsType, Zenon DEF Base, Types, TypeOK
    <3>2. \A op, a : Pending(op, a)' =>
             \/ a = b /\ op \in {"td", "body", "header", "unfuture"}
             \/ /\ Heavier(b) /\ a \in NewChain(b) \cup {b}
                /\ op \in {"canon", "headBlock", "headHeader", "headFast", "index"}
             \/ op = "unindex"
      BY <2>1, <2>4, <3>1, BlockPlanProperties, Zenon DEF Pending
    <3>3. PlannedStored' = Stored \cup {b}
      BY <2>1, <2>2, <2>4, BlockPlanned, Zenon
    <3>4. Heavier(b) => NewChain(b) \subseteq Stored \cup {b}
      <4>1. CASE Parent[b] = currentBlock
        BY <2>1, <3>1, <4>1, NewChainOfChild, Zenon
      <4>2. CASE Parent[b] # currentBlock
        BY <2>4, <3>1, <4>2, Zenon DEF Reorganisable, NewChain
      <4> QED
        BY <4>1, <4>2, Zenon
    <3>5. \A a \in Blocks, del \in Deletions : ~Pending(del, a)'
      BY <3>2 DEF Deletions
    <3>6. \A a \in Blocks : Pending("headFast", a)' => a \in PlannedStored'
      BY <3>2, <3>3, <3>4, Zenon
    <3> QED
      BY <2>1, <2>2, <3>5, <3>6, <1>CompletePlan, Zenon
  <2> QED
    BY <2>1, <2>3, <2>4, Zenon
\* writeHeader keeps it: it does not move the fast head.
<1>CompleteWriteHeader. ASSUME Foundations, Base, Complete, WriteHeader
                        PROVE  Complete'
  <2> USE <1>CompleteWriteHeader
  <2>0. PICK h : h = Head(hbatch)
    OBVIOUS
  <2>1. /\ writes = <<>> /\ h \in Blocks
        /\ writes' = <<>> \/ writes' = HeaderPlan(h)
    BY <2>0, WriteHeaderPlan, Zenon DEF Base
  <2>2. UNCHANGED <<headers, bodies, canon, currentFast, rewinds, rhead, rleft>>
    BY DEF WriteHeader, disk, heads, counters, fast
  <2>3. CASE writes' = <<>>
    BY <2>1, <2>2, <2>3, <1>CompleteKept, Zenon
  <2>4. CASE writes' = HeaderPlan(h)
    <3>1. \A op, a : Pending(op, a)' => op \in {"td", "header", "uncanon", "canon", "headHeader", "panic"}
      BY <2>1, <2>4, HeaderPlanProperties, ExtendHeadersPlan DEF Pending
    <3>2. \A a \in Blocks : ~Pending("headFast", a)' /\ \A del \in Deletions : ~Pending(del, a)'
      BY <3>1 DEF Deletions
    <3> QED
      BY <2>1, <2>2, <3>2, <1>CompletePlan, Zenon
  <2> QED
    BY <2>1, <2>3, <2>4, Zenon
\* A restart keeps it: loadLastState takes the fast head only if it finds the block.
<1>CompleteRestart. ASSUME Base, Restart
                    PROVE  Complete'
  <2> USE <1>CompleteRestart
  <2>1. /\ writes' = <<>> /\ rhead' = None
        /\ UNCHANGED <<headers, bodies, tds, states, canon>>
        /\ currentBlock' \in Stored \cup {Genesis}
        /\ currentFast' \in Stored \cup {currentBlock'}
    BY Zenon DEF Restart
  <2>2. currentFast' \in Stored /\ headers \in SUBSET Blocks /\ bodies \in SUBSET Blocks
    BY <2>1, Zenon DEF Base, Rooted, Types, TypeOK
  <2>3. \A op, a : ~Pending(op, a)'
    BY <2>1, HasNothing, Zenon DEF Pending
  <2>4. PlannedStored' = Stored
    BY <2>1, <2>2, <2>3, Zenon DEF PlannedStored, PlannedHeaders, PlannedBodies, Stored
  <2> QED
    BY <2>1, <2>2, <2>3, <2>4, Zenon DEF Complete, Target
\* InsertReceiptChain keeps it: all bodies are written before the head moves.
<1>CompleteReceipts. ASSUME Base, Complete
                     PROVE  /\ \A chain \in ReceiptChains : InsertReceiptChain(chain) => Complete'
                            /\ \A b \in Blocks : WriteBody(b) => Complete'
                            /\ CommitReceipts => Complete'
  <2> USE <1>CompleteReceipts
  <2>1. ASSUME NEW chain \in ReceiptChains, InsertReceiptChain(chain)
        PROVE  Complete'
    <3>1. UNCHANGED <<headers, bodies, currentFast, writes, rewinds>>
          /\ rleft' = {chain[i] : i \in DOMAIN chain} /\ rhead' = chain[Len(chain)]
      BY <2>1, Zenon DEF InsertReceiptChain, disk, heads, counters
    <3>2. Len(chain) \in DOMAIN chain
      <4>1. chain \in Seq(Blocks \ {Genesis}) /\ chain # <<>>
        BY InputAssumption
      <4> QED
        BY <4>1
    <3>3. rhead' \in rleft'
      BY <3>1, <3>2, Zenon
    <3> QED
      BY <3>1, <3>3, <1>CompleteKept, Zenon
  <2>2. ASSUME NEW b \in Blocks, WriteBody(b)
        PROVE  Complete'
    <3>1. /\ UNCHANGED <<headers, currentFast, writes, rewinds>>
          /\ \/ b \in headers /\ bodies' = bodies \cup {b} /\ rleft' = rleft \ {b} /\ rhead' = rhead
             \/ rleft' = {} /\ rhead' = None /\ bodies' = bodies
      BY <2>2, Zenon DEF WriteBody, heads, counters
    <3>2. CASE rhead' = None
      BY <3>1, <3>2, <1>CompleteKept, Zenon
    <3>3. CASE b \in headers /\ bodies' = bodies \cup {b} /\ rleft' = rleft \ {b} /\ rhead' = rhead
      <4>1. CASE rewinds = 0
        <5>1. rhead # None => rhead \in rleft \cup Stored
          BY <4>1, Zenon DEF Complete
        <5>2. rhead' # None => rhead' \in rleft' \cup Stored'
          BY <3>1, <3>3, <5>1, Zenon DEF Stored
        <5> QED
          BY <3>1, <3>3, <5>2, <1>CompleteKept, Zenon
      <4>2. CASE rewinds # 0
        BY <3>1, <4>2, Zenon DEF Complete
      <4> QED
        BY <4>1, <4>2, Zenon
    <3> QED
      BY <3>1, <3>2, <3>3, Zenon
  <2>3. ASSUME CommitReceipts
        PROVE  Complete'
    <3>1. /\ rhead \in Blocks /\ writes = <<>> /\ rleft = {}
          /\ \A op, a : Pending(op, a)' => a = rhead /\ op \in {"headFast", "panic"}
      <4>1. \A op, a : Has(writes', op, a) => a = rhead /\ (op = "headFast" \/ op = "panic")
        BY <2>3, CommitReceiptsPlan, Zenon DEF Base
      <4> QED
        BY <2>3, <4>1, CommitReceiptsPlan, Zenon DEF Base, Pending
    <3>2. UNCHANGED <<headers, bodies, currentFast, rewinds>> /\ rhead' = None
      BY <2>3, Zenon DEF CommitReceipts, disk, heads, counters
    <3>3. rewinds = 0 => rhead \in Stored
      BY <3>1, BlockAssumption, Zenon DEF Complete
    <3>4. \A a \in Blocks, del \in Deletions : ~Pending(del, a)'
      BY <3>1, Zenon DEF Deletions
    <3>5. rewinds = 0 => \A a \in Blocks : Pending("headFast", a)' => a \in Stored
      BY <3>1, <3>3
    <3> QED
      BY <3>1, <3>2, <3>4, <3>5, <1>CompletePlan, Zenon
  <2> QED
    BY <2>1, <2>2, <2>3, Zenon
<1>1. CASE Write
  BY <1>1, <1>CompleteWrite, Zenon
<1>2. ASSUME NEW p \in Procs, WriteBlock(p)
      PROVE  Complete'
  BY <1>2, <1>CompleteWriteBlock, Zenon
<1>3. CASE WriteHeader
  BY <1>3, <1>CompleteWriteHeader, Zenon
<1>4. CASE Crash \/ Panic
  BY <1>4, <1>CompleteRestart, Zenon DEF Crash, Panic
<1>5. ASSUME NEW n \in Heights, SetHead(n)
      PROVE  Complete'
  <2>1. rewinds' = rewinds + 1 /\ rewinds \in 0..MaxRewinds /\ MaxRewinds \in Nat
    BY <1>5, InputAssumption, Zenon DEF SetHead, Base, Types, TypeOK
  <2>2. rewinds' # 0
    BY <2>1
  <2> QED
    BY <2>2, Zenon DEF Complete
<1>6. ASSUME NEW n \in Heights, Rollback(n)
      PROVE  Complete'
  <2>1. /\ writes = <<>> /\ UNCHANGED <<headers, bodies, currentFast, rewinds, rhead, rleft>>
        /\ currentHeader \in Blocks
    BY <1>6, Zenon DEF Rollback, Unlocked, disk, heads, fast, Base, Types, TypeOK
  <2>2. \A op, a : Pending(op, a)' => \/ op = "headHeader" \/ op = "panic"
                                      \/ op \in {"headFast", "headBlock"} /\ a \in Stored
    BY <1>6, <2>1, RollbackPlanned, RollbackPlanProperties, Zenon DEF Pending
  <2>3. \A a \in Blocks, del \in Deletions : ~Pending(del, a)'
    BY <2>2, Zenon DEF Deletions
  <2>4. \A a \in Blocks : Pending("headFast", a)' => a \in Stored
    BY <2>2
  <2> QED
    BY <2>1, <2>3, <2>4, <1>CompletePlan, Zenon
<1>7. ASSUME UNCHANGED <<headers, bodies, currentFast, writes, rewinds, rhead, rleft>>
      PROVE  Complete'
  BY <1>7, <1>CompleteKept, Zenon
<1>8. ASSUME \/ \E chain \in Chains : InsertChain(chain)
             \/ ProcFutureBlocks \/ ValidateNext \/ Tick \/ UNCHANGED vars
             \/ \E b \in Mined : Mine(b)
             \/ \E p \in Procs : IndexBlock(p)
             \/ \E chain \in HeaderChains : InsertHeaderChain(chain)
             \/ \E b \in Pivots : FastSyncCommitHead(b)
      PROVE  Complete'
  BY <1>7, <1>8, Zenon DEF InsertChain, ProcFutureBlocks, ValidateNext, Tick, Mine, IndexBlock,
     InsertHeaderChain, FastSyncCommitHead, vars, disk, heads, fast, counters
<1> QED
  BY <1>1, <1>2, <1>3, <1>4, <1>5, <1>6, <1>8, <1>CompleteReceipts, Zenon DEF Next

\* The walk ends on a proper ancestor of h.  If its header is there, the walk has
\* met no missing one, and passed all stale ancestors.
LEMMA WalkEndProperties ==
    ASSUME Foundations, NEW h \in Blocks \ {Genesis}, canon[0] = Genesis
    PROVE  /\ WalkEnd(h) \in Ancestors[h] \ {h}
           /\ WalkEnd(h) \in headers => Found(h) = StaleAncestors(h)
\* A set of blocks of a chain that is not empty has a highest one.
<1>Highest. ASSUME Foundations, NEW b \in Blocks, NEW S \in SUBSET Ancestors[b], S # {}
            PROVE  \E a \in S : \A c \in S : Number[c] <= Number[a]
  <2> USE <1>Highest
  <2> DEFINE D == {k \in Nat : \E c \in S : k = Number[b] - Number[c]}
  <2>1. \A c \in S : c \in Blocks /\ Number[c] \in Nat /\ Number[c] <= Number[b] /\ Number[b] \in Nat
    BY AncestorsType, AncestorNumbers, BlockAssumption, Zenon
  <2>2. \A c \in S : Number[b] - Number[c] \in D
    BY <2>1
  <2>3. D \in SUBSET Nat /\ D # {}
    BY <2>2, Zenon
  <2>4. PICK k \in D : \A j \in D : k <= j
    <3> HIDE DEF D
    <3> QED
      BY <2>3, Zenon DEF Foundations, WellOrdered
  <2>5. PICK a \in S : k = Number[b] - Number[a]
    BY <2>4, Zenon
  <2>6. \A c \in S : Number[c] <= Number[a]
    <3>1. SUFFICES ASSUME NEW c \in S
                   PROVE  Number[c] <= Number[a]
      OBVIOUS
    <3>2. Number[b] - Number[a] <= Number[b] - Number[c]
      BY <2>2, <2>4, <2>5, Zenon
    <3> QED
      BY <2>1, <3>2
  <2> QED
    BY <2>6, Zenon
<1> DEFINE P == Ancestors[h] \ {h}
           W == StaleAncestors(h)
           F == Found(h)
<1>1. /\ Number[h] \in Nat /\ Ancestors[h] \in SUBSET Blocks /\ Genesis \in P
      /\ \A c \in Blocks : Number[c] \in Nat
      /\ Number[Genesis] = 0
  BY BlockAssumption, AncestorsType, Zenon
<1>2. /\ \A c \in P : Number[c] < Number[h]
      /\ \A c, d \in Ancestors[h] : Number[c] = Number[d] => c = d
  BY AncestorNumbers, Zenon
<1>3. /\ W \subseteq P /\ Genesis \notin W
      /\ \A c \in W, e \in P : Number[e] >= Number[c] => e \in W
  <2>1. W \subseteq P /\ \A c \in W : \A e \in P : Number[e] >= Number[c] => canon[Number[e]] # e
    BY Zenon DEF StaleAncestors
  <2>2. Genesis \notin W
    BY <1>1, <2>1
  <2>3. ASSUME NEW c \in W, NEW e \in P, Number[e] >= Number[c]
        PROVE  e \in W
    <3>1. \A d \in P : Number[d] >= Number[e] => Number[d] >= Number[c]
      BY <1>1, <2>1, <2>3
    <3> QED
      BY <2>1, <2>3, <3>1, Zenon DEF StaleAncestors
  <2> QED
    BY <2>1, <2>2, <2>3, Zenon
<1>4. /\ F \subseteq W
      /\ \A c : c \in F <=> c \in W /\ \A e \in W : Number[e] >= Number[c] => e \in headers
  BY DEF Found
<1> HIDE DEF W, F
<1>5. PICK a \in P \ F : \A c \in P \ F : Number[c] <= Number[a]
  <2>1. P \ F \in SUBSET Ancestors[h] /\ P \ F # {}
    BY <1>1, <1>3, <1>4, Zenon
  <2> QED
    BY <2>1, <1>Highest, Zenon
<1>6. \A c \in F, e \in P : Number[e] >= Number[c] => e \in F
  <2>1. SUFFICES ASSUME NEW c \in F, NEW e \in P, Number[e] >= Number[c]
                 PROVE  e \in F
    OBVIOUS
  <2>2. e \in W
    BY <1>3, <1>4, <2>1, Zenon
  <2>3. \A d \in W : Number[d] >= Number[e] => Number[d] >= Number[c]
    BY <1>1, <1>3, <1>4, <2>1
  <2> QED
    BY <1>4, <2>1, <2>2, <2>3, Zenon
<1>7. F = {c \in P : Number[c] > Number[a]}
  <2>1. \A c \in F : c \in P /\ Number[c] > Number[a]
    <3>1. SUFFICES ASSUME NEW c \in F, ~(Number[c] > Number[a])
                   PROVE  FALSE
      BY <1>3, <1>4, Zenon
    <3>2. Number[a] >= Number[c]
      BY <1>1, <1>3, <1>4, <1>5, <3>1
    <3> QED
      BY <1>5, <1>6, <3>2, Zenon
  <2>2. \A c \in P : Number[c] > Number[a] => c \in F
    BY <1>1, <1>5
  <2> QED
    BY <2>1, <2>2, Zenon
<1>10. WalkEnd(h) = a
  <2>1. WalkEnd(h) = CHOOSE e \in P \ F : \A c \in P \ F : Number[c] <= Number[e]
    <3>1. Ancestors[h] \ (F \cup {h}) = P \ F
      OBVIOUS
    <3> QED
      BY <3>1, Zenon DEF WalkEnd, F
  <2>2. WalkEnd(h) \in P \ F /\ \A c \in P \ F : Number[c] <= Number[WalkEnd(h)]
    BY <1>5, <2>1, Zenon
  <2>3. Number[WalkEnd(h)] <= Number[a] /\ Number[a] <= Number[WalkEnd(h)]
    BY <1>5, <2>2, Zenon
  <2>4. Number[WalkEnd(h)] = Number[a]
    BY <1>1, <1>5, <2>2, <2>3
  <2> QED
    BY <1>2, <1>5, <2>2, <2>4, Zenon
<1>11. a \in headers => F = W
  <2>1. SUFFICES ASSUME a \in headers
                 PROVE  \A c \in W : c \in F
    BY <1>4, Zenon
  <2>2. a \notin W
    <3>1. SUFFICES ASSUME a \in W
                   PROVE  FALSE
      BY Zenon
    <3>2. \A e \in W : Number[e] >= Number[a] => e \in headers
      <4>1. SUFFICES ASSUME NEW e \in W, Number[e] >= Number[a], e # a
                     PROVE  e \in headers
        BY <2>1, Zenon
      <4>2. Number[e] > Number[a]
        BY <1>1, <1>2, <1>3, <1>5, <4>1
      <4>3. e \in F
        BY <1>3, <1>7, <4>2, Zenon
      <4> QED
        BY <1>1, <1>3, <1>4, <4>3
    <3> QED
      BY <1>4, <1>5, <3>1, <3>2, Zenon
  <2>3. \A c \in W : Number[c] > Number[a]
    BY <1>1, <1>2, <1>3, <1>5, <2>2
  <2> QED
    BY <1>3, <1>7, <2>3, Zenon
<1> QED
  BY <1>5, <1>10, <1>11, Zenon DEF F, W

\* A set closed under Parent contains the chains of its blocks.
LEMMA ClosedUnderParent ==
    ASSUME Foundations, NEW S, \A c \in S : c \in Blocks /\ (c # Genesis => Parent[c] \in S), NEW b \in S
    PROVE  Ancestors[b] \subseteq S
<1> DEFINE T == {c \in Blocks : c \in S => Ancestors[c] \subseteq S}
<1>1. Genesis \in T
  BY AncestorsStep, BlockAssumption, Zenon
<1>2. \A c \in Blocks \ {Genesis} : Parent[c] \in T => c \in T
  BY AncestorsStep, Zenon
<1>3. \A c \in Blocks : c \in T
  <2> HIDE DEF T
  <2> QED
    BY <1>1, <1>2, ChainInduction, Zenon
<1> QED
  BY <1>3, Zenon

---------------------------------------------------------------------------
(* Headers only: the canonical numbers follow the head header.              *)

\* No block is imported or mined: the chain grows by headers and receipts.
HeadersOnly == Chains = {} /\ Mined = {}

\* No block is being imported.
NoImport == batch = <<>> /\ futureBlocks = {} /\ \A p \in Procs : ready[p] = None

\* Neither a stop, nor a panic, nor a SetHead together with a Rollback.
Undisturbed ==
    /\ crashes = 0 /\ ~panicked /\ (rewinds = 0 \/ rollbacks = 0)
    /\ \A b \in Blocks : ~Pending("panic", b)

\* The canonical headers are, and will be, stored and a chain, the head header
\* is one of them, and after no Rollback the highest.
HeaderChain ==
    Undisturbed =>
        /\ \A c \in Blocks : Canonical(c) =>
              c \in PlannedHeaders /\ (c # Genesis => Canonical(Parent[c]))
        /\ \A b \in Blocks : Target("headHeader", currentHeader, b) =>
              /\ Canonical(b)
              /\ rollbacks = 0 => \A c \in Blocks : Canonical(c) => c \in Ancestors[b]

\* Then nothing is ever imported.
LEMMA NoImportNext ==
    ASSUME HeadersOnly, Types, NoImport, [Next]_vars
    PROVE  NoImport'
<1>1. Chains = {} /\ Mined = {} /\ writes \in Seq(Puts)
  BY Zenon DEF HeadersOnly, Types, TypeOK
<1>2. CASE Write
  <2>1. PICK op, arg : Made(op, arg)
    BY <1>1, <1>2, WriteMakes, Zenon
  <2>2. batch' = batch /\ ready' = ready /\ futureBlocks' \subseteq futureBlocks
    BY <2>1, Zenon DEF Made, import
  <2> QED
    BY <2>2 DEF NoImport
<1>3. ~ProcFutureBlocks /\ ~ValidateNext /\ \A p \in Procs : ~WriteBlock(p)
  BY Zenon DEF NoImport, ProcFutureBlocks, ValidateNext, WriteBlock
<1>4. CASE Crash \/ Panic
  BY <1>4, Zenon DEF Crash, Panic, Restart, NoImport
<1>5. ASSUME \/ \E p \in Procs : IndexBlock(p)
             \/ \E n \in Heights : SetHead(n) \/ Rollback(n)
             \/ \E chain \in HeaderChains : InsertHeaderChain(chain)
             \/ WriteHeader \/ CommitReceipts \/ Tick \/ UNCHANGED vars
             \/ \E chain \in ReceiptChains : InsertReceiptChain(chain)
             \/ \E b \in Blocks : WriteBody(b)
             \/ \E b \in Pivots : FastSyncCommitHead(b)
      PROVE  batch' = batch /\ ready' = ready /\ futureBlocks' \subseteq futureBlocks
  BY <1>5, Zenon DEF IndexBlock, SetHead, Rollback, InsertHeaderChain, WriteHeader, CommitReceipts, Tick,
     InsertReceiptChain, WriteBody, FastSyncCommitHead, vars, import
<1>6. batch' = batch /\ ready' = ready /\ futureBlocks' \subseteq futureBlocks => NoImport'
  BY DEF NoImport
<1> QED
  BY <1>1, <1>2, <1>3, <1>4, <1>5, <1>6, Zenon DEF Next

\* What HeaderChain says when no plan is being made.
LEMMA HeaderChainUnlocked ==
    ASSUME Foundations, Base, HeaderChain, writes = <<>>, crashes = 0, ~panicked, rewinds = 0 \/ rollbacks = 0
    PROVE  /\ \A c \in Blocks : canon[Number[c]] = c =>
                 c \in headers /\ (c # Genesis => canon[Number[Parent[c]]] = Parent[c])
           /\ \A a \in Ancestors[currentHeader] : a \in headers /\ canon[Number[a]] = a
           /\ rollbacks = 0 => \A c \in Blocks : canon[Number[c]] = c => c \in Ancestors[currentHeader]
           /\ currentHeader \in Blocks
<1>1. /\ PlannedHeaders = headers /\ currentHeader \in Blocks
      /\ \A a \in Blocks : Canonical(a) <=> canon[Number[a]] = a
      /\ Target("headHeader", currentHeader, currentHeader)
      /\ \A op, a : ~Pending(op, a)
  BY NothingPlanned, Zenon DEF Base, Types, TypeOK
<1>2. Undisturbed
  BY <1>1, Zenon DEF Undisturbed
<1>3. \A c \in Blocks \ {Genesis} : Parent[c] \in Blocks
  BY BlockAssumption, Zenon
<1> DEFINE C == {c \in Blocks : canon[Number[c]] = c}
<1>4. \A c \in C : c \in headers /\ c \in Blocks /\ (c # Genesis => Parent[c] \in C)
  BY <1>1, <1>2, <1>3, Zenon DEF HeaderChain
<1>5. /\ currentHeader \in C
      /\ rollbacks = 0 => \A c \in C : c \in Ancestors[currentHeader]
  BY <1>1, <1>2, Zenon DEF HeaderChain
<1>6. Ancestors[currentHeader] \subseteq C
  <2> HIDE DEF C
  <2> QED
    BY <1>4, <1>5, ClosedUnderParent, Zenon
<1> QED
  BY <1>1, <1>4, <1>5, <1>6, Zenon

\* Every step keeps it.
LEMMA HeaderChainNext ==
    ASSUME Foundations, HeadersOnly, Base, NoImport, HeaderChain, [Next]_vars
    PROVE  HeaderChain'
\* Blocks of one chain are ancestors of each other.
<1>LowerIsAncestor.
      ASSUME Foundations, NEW b \in Blocks, NEW a \in Ancestors[b], NEW c \in Ancestors[b], Number[c] <= Number[a]
      PROVE  c \in Ancestors[a]
  <2> USE <1>LowerIsAncestor
  <2>1. a \in Blocks /\ c \in Blocks /\ Number[c] \in 0..Number[a]
    BY AncestorsType, BlockAssumption
  <2>2. PICK e \in Ancestors[a] : Number[e] = Number[c]
    BY <2>1, AncestorNumbers, Zenon
  <2>3. e \in Ancestors[b]
    BY AncestorsNest, Zenon
  <2> QED
    BY <2>2, <2>3, AncestorNumbers, Zenon
\* What writeHeader plans for a header h that becomes the head: the canonical
\* headers are then the chain of h.
<1>WalkPlanned. ASSUME Foundations, Base, NEW h \in Blocks \ {Genesis}, writes = <<>>, writes' = HeaderPlan(h),
                       UNCHANGED <<headers, bodies, canon>>, Td[h] > Td[currentHeader], WalkEnd(h) \in headers,
                       \A c \in Blocks : canon[Number[c]] = c =>
                          c \in headers /\ (c # Genesis => canon[Number[Parent[c]]] = Parent[c])
                PROVE  /\ \A c \in Blocks : Canonical(c)' =>
                             /\ c \in PlannedHeaders' /\ c \in Ancestors[h]
                             /\ c # Genesis => Canonical(Parent[c])'
                       /\ Canonical(h)'
                       /\ \A b \in Blocks : Target("headHeader", currentHeader, b)' => b = h
  <2> USE <1>WalkPlanned
  <2> DEFINE P == Ancestors[h] \ {h}
             W == StaleAncestors(h)
             C == {c \in Blocks : canon[Number[c]] = c}
  <2>1. /\ headers \in SUBSET Blocks /\ canon[0] = Genesis /\ canon \in [Heights -> Blocks \cup {None}]
        /\ None \notin Blocks
    BY BlockAssumption, Zenon DEF Base, Types, TypeOK, Rooted
  <2>2. Found(h) = W
    BY <2>1, WalkEndProperties, Zenon
  <2>3. /\ \A op, a : Pending(op, a)' <=>
              \/ op \in {"td", "header"} /\ a = h
              \/ op = "uncanon" /\ a \in NumbersAbove(h)
              \/ op = "canon" /\ a \in W \cup {h}
              \/ op = "headHeader" /\ a = h
    <3>1. \A op, a : Has(HeaderPlan(h), op, a) <=>
                   \/ op \in {"td", "header"} /\ a = h
                   \/ Td[h] > Td[currentHeader] /\ Has(ExtendHeaders(h), op, a)
      BY HeaderPlanProperties, Zenon
    <3>2. \A op, a : Has(ExtendHeaders(h), op, a) <=>
                   \/ op = "uncanon" /\ a \in NumbersAbove(h)
                   \/ op = "canon" /\ a \in Found(h)
                   \/ op \in {"canon", "headHeader"} /\ a = h
      BY ExtendHeadersPlan, Zenon
    <3> QED
      BY <2>2, <3>1, <3>2 DEF Pending
  <2>4. PlannedHeaders' = headers \cup {h}
    <3>1. \A a \in Blocks : (Pending("header", a)' <=> a = h) /\ ~Pending("delHeader", a)'
      BY <2>3, Zenon
    <3> QED
      BY <2>1, <3>1, Zenon DEF PlannedHeaders
  <2>5. /\ Ancestors[h] \in SUBSET Blocks /\ h \in Ancestors[h] /\ Number[h] \in Nat
        /\ \A c \in Blocks : Number[c] \in Nat /\ Number[c] \in Heights
        /\ \A c \in P : Number[c] < Number[h]
        /\ \A c, d \in Ancestors[h] : Number[c] = Number[d] => c = d
    BY BlockAssumption, AncestorsType, AncestorNumbers, Zenon DEF Heights
  <2>6. W \subseteq P /\ \A a \in P : a \in W <=> \A c \in P : Number[c] >= Number[a] => canon[Number[c]] # c
    BY Zenon DEF StaleAncestors
  <2>7. \A c \in C : Ancestors[c] \subseteq C /\ c \in headers
    <3>1. \A c \in C : c \in Blocks /\ (c # Genesis => Parent[c] \in C)
      BY BlockAssumption, Zenon
    <3> HIDE DEF C
    <3>2. \A c \in C : Ancestors[c] \subseteq C
      BY <3>1, ClosedUnderParent, Zenon
    <3> QED
      BY <3>2, Zenon DEF C
  <2>8. \A a : a \in W \cup {h} => a \in Ancestors[h] /\ Canonical(a)'
    BY <2>3, <2>5, <2>6, Zenon DEF Canonical
  <2>9. ASSUME NEW a \in P, canon[Number[a]] = a
        PROVE  Canonical(a)'
    <3>1. ~Pending("uncanon", Number[a])'
      <4>1. Number[a] \notin NumbersAbove(h)
        BY <2>5, <2>9 DEF NumbersAbove
      <4> QED
        BY <2>3, <4>1, Zenon
    <3>2. \A c \in Blocks : Pending("canon", c)' /\ Number[c] = Number[a] => c = a
      BY <2>3, <2>5, <2>8, <2>9, Zenon
    <3> QED
      BY <2>9, <3>1, <3>2, Zenon DEF Canonical
  <2>10. ASSUME NEW c \in Blocks, Canonical(c)', c \notin W \cup {h}
         PROVE  c \in P /\ c \in C
    <3>1. /\ canon[Number[c]] = c /\ Number[c] \notin NumbersAbove(h) /\ c \in C
          /\ \A e \in W \cup {h} : Number[e] # Number[c]
      BY <2>3, <2>5, <2>8, <2>10, Zenon DEF Canonical
    <3>2. Number[c] < Number[h]
      <4> DEFINE m == Number[c]
                 k0 == Number[h]
      <4>0. m \in Nat /\ k0 \in Nat /\ k0 # m
        BY <2>5, <3>1, Zenon
      <4>1. SUFFICES ASSUME Number[c] > Number[h]
                     PROVE  FALSE
        <5> HIDE DEF m, k0
        <5>1. m < k0 \/ m > k0
          BY <4>0
        <5> QED
          BY <5>1, Zenon DEF m, k0
      <4>2. ASSUME NEW k \in Number[h] + 1 .. Number[c]
            PROVE  canon[k] # None
        <5>1. k \in 0..Number[c]
          BY <2>5
        <5>2. PICK a \in Ancestors[c] : Number[a] = k
          BY <5>1, AncestorNumbers
        <5>3. a \in C
          BY <2>7, <3>1, <5>2, Zenon
        <5> QED
          BY <2>1, <5>2, <5>3, Zenon
      <4>3. Number[c] \in NumbersAbove(h)
        BY <2>5, <4>1, <4>2, Zenon DEF NumbersAbove
      <4> QED
        BY <3>1, <4>3, Zenon
    <3>3. PICK e \in Ancestors[h] : Number[e] = Number[c]
      <4>1. Number[c] \in 0..Number[h]
        BY <2>5, <3>2
      <4>2. \A n \in 0..Number[h] : \E a \in Ancestors[h] : Number[a] = n
        BY AncestorNumbers, ZenonT(40)
      <4> QED
        BY <4>1, <4>2, Zenon
    <3>4. e \in P /\ e \notin W
      BY <2>5, <3>1, <3>2, <3>3, Zenon
    <3>5. PICK d \in P : Number[d] >= Number[e] /\ canon[Number[d]] = d
      BY <2>6, <3>4, Zenon
    <3>6. d \in C /\ Number[c] \in 0..Number[d]
      BY <2>5, <3>3, <3>5
    <3>7. PICK a \in Ancestors[d] : Number[a] = Number[c]
      BY <3>6, AncestorNumbers
    <3>8. a = c
      BY <2>7, <3>1, <3>6, <3>7, Zenon
    <3>9. c \in Ancestors[h]
      BY <2>5, <3>5, <3>7, <3>8, AncestorsNest, Zenon
    <3> QED
      BY <3>1, <3>2, <3>9, Zenon
  <2>11. ASSUME NEW c \in Blocks \ {Genesis}, Canonical(c)'
         PROVE  Canonical(Parent[c])'
    <3>1. c \in Ancestors[h]
      BY <2>8, <2>10, <2>11, Zenon
    <3>2. Parent[c] \in P /\ Number[c] = Number[Parent[c]] + 1
      <4>1. Parent[c] \in Ancestors[h] /\ Number[c] = Number[Parent[c]] + 1 /\ Parent[c] \in Blocks
        BY <3>1, AncestorsLinked, BlockAssumption, Zenon
      <4>2. Number[c] <= Number[h]
        BY <3>1, AncestorNumbers, Zenon
      <4>3. Number[Parent[c]] # Number[h]
        BY <2>5, <4>1, <4>2
      <4> QED
        BY <4>1, <4>3, Zenon
    <3>3. CASE canon[Number[Parent[c]]] = Parent[c]
      BY <2>9, <3>2, <3>3, Zenon
    <3>4. CASE canon[Number[Parent[c]]] # Parent[c]
      <4>1. c \in W \cup {h}
        BY <2>10, <2>11, <3>4, Zenon
      <4>2. \A d \in P : Number[d] >= Number[Parent[c]] => canon[Number[d]] # d
        <5>1. SUFFICES ASSUME NEW d \in P, Number[d] >= Number[Parent[c]], d # Parent[c]
                       PROVE  canon[Number[d]] # d
          BY <3>4, Zenon
        <5>2. Number[d] # Number[Parent[c]]
          BY <2>5, <3>2, <5>1, Zenon
        <5>3. Number[d] >= Number[c]
          BY <2>5, <3>2, <5>1, <5>2
        <5>4. c # h
          BY <2>5, <5>1, <5>3
        <5> QED
          BY <2>6, <4>1, <5>1, <5>3, <5>4, Zenon
      <4>3. Parent[c] \in W
        BY <2>6, <3>2, <4>2, Zenon
      <4> QED
        BY <2>8, <4>3, Zenon
    <3> QED
      BY <3>3, <3>4, Zenon
  <2>12. \A c \in W : c \in headers
    <3>1. \A c \in W : c \in Found(h) /\ Number[c] >= Number[c]
      BY <2>2, <2>5, <2>6
    <3> QED
      BY <3>1, Zenon DEF Found
  <2>13. \A c \in Blocks : Canonical(c)' => c \in PlannedHeaders' /\ c \in Ancestors[h]
    BY <2>4, <2>7, <2>8, <2>10, <2>12, Zenon
  <2>14. \A b \in Blocks : Target("headHeader", currentHeader, b)' => b = h
    BY <2>3, Zenon DEF Target
  <2> QED
    BY <2>8, <2>11, <2>13, <2>14, Zenon
\* A write keeps the canonical headers a chain.
<1>HeaderChainWrite. ASSUME Base, HeaderChain, Write
                     PROVE  HeaderChain'
  <2> USE <1>HeaderChainWrite
  <2>1. PICK op, arg : Made(op, arg)
    BY WriteMakes, Zenon DEF Base, Types, TypeOK
  <2>2. writes \in Seq(Puts)
    BY DEF Base, Types, TypeOK
  <2>3. \A o, a : Pending(o, a) <=> (o = op /\ a = arg) \/ Pending(o, a)'
    BY <2>1, <2>2, MadePending, Zenon
  <2>4. PlannedHeaders' = PlannedHeaders /\ \A a \in Blocks : Canonical(a)' <=> Canonical(a)
    BY <2>1, MadePlanned, Zenon
  <2>5. \A b \in Blocks : Target("headHeader", currentHeader, b)' => Target("headHeader", currentHeader, b)
    BY <2>1, <2>2, MadeTargets, Zenon
  <2>6. UNCHANGED <<crashes, panicked, rewinds, rollbacks>> /\ op # "panic"
    BY <2>1, Zenon DEF Made, counters
  <2>7. Undisturbed' => Undisturbed
    BY <2>3, <2>6, Zenon DEF Undisturbed
  <2>8. \A c \in Blocks \ {Genesis} : Parent[c] \in Blocks
    BY BlockAssumption, Zenon
  <2> QED
    BY <2>4, <2>5, <2>6, <2>7, <2>8, Zenon DEF HeaderChain
\* A step that leaves the headers, the numbers and their plan alone.
<1>HeaderChainKept.
      ASSUME HeaderChain, UNCHANGED <<headers, canon, currentHeader, crashes, panicked, rewinds, rollbacks>>,
             \A b \in Blocks : Pending("panic", b) => Pending("panic", b)',
             \A op \in {"header", "delHeader", "canon", "headHeader"}, b \in Blocks :
                Pending(op, b)' <=> Pending(op, b),
             \A n \in Heights : Pending("uncanon", n)' <=> Pending("uncanon", n)
      PROVE  HeaderChain'
  <2> USE <1>HeaderChainKept
  <2>1. Undisturbed' => Undisturbed
    BY DEF Undisturbed
  <2>2. PlannedHeaders' = PlannedHeaders
    BY Zenon DEF PlannedHeaders
  <2>3. \A b \in Blocks : Number[b] \in Heights
    BY Zenon DEF Heights
  <2>4. \A b \in Blocks : Canonical(b)' <=> Canonical(b)
    BY <2>3, Zenon DEF Canonical
  <2>5. \A b \in Blocks : Target("headHeader", currentHeader, b)' <=> Target("headHeader", currentHeader, b)
    BY Zenon DEF Target
  <2>6. \A c \in Blocks \ {Genesis} : Parent[c] \in Blocks
    BY BlockAssumption, Zenon
  <2> QED
    BY <2>1, <2>2, <2>4, <2>5, <2>6, Zenon DEF HeaderChain
\* writeHeader keeps it: it overwrites the numbers down to the common ancestor.
<1>HeaderChainWriteHeader. ASSUME Foundations, Base, HeaderChain, WriteHeader
                           PROVE  HeaderChain'
  <2> USE <1>HeaderChainWriteHeader
  <2>0. PICK h : h = Head(hbatch)
    OBVIOUS
  <2>1. /\ writes = <<>> /\ h \in Blocks \ {Genesis}
        /\ writes' = <<>> \/ writes' = HeaderPlan(h)
    BY <2>0, WriteHeaderPlan, Zenon DEF Base
  <2>2. UNCHANGED <<headers, bodies, canon, currentHeader, crashes, panicked, rewinds, rollbacks>>
    BY Zenon DEF WriteHeader, disk, heads, counters
  <2>3. CASE writes' = <<>>
    <3>1. \A op, a : Pending(op, a)' <=> Pending(op, a)
      BY <2>1, <2>3, Zenon DEF Pending
    <3> QED
      BY <2>2, <3>1, <1>HeaderChainKept, Zenon
  <2>4. CASE writes' = HeaderPlan(h)
    <3>1. SUFFICES ASSUME Undisturbed'
                   PROVE  HeaderChain'
      BY Zenon DEF HeaderChain
    <3>2. crashes = 0 /\ ~panicked /\ (rewinds = 0 \/ rollbacks = 0)
      BY <2>2, <3>1, Zenon DEF Undisturbed
    <3>3. /\ \A c \in Blocks : canon[Number[c]] = c =>
                c \in headers /\ (c # Genesis => canon[Number[Parent[c]]] = Parent[c])
          /\ \A a \in Ancestors[currentHeader] : a \in headers /\ canon[Number[a]] = a
          /\ rollbacks = 0 => \A c \in Blocks : canon[Number[c]] = c => c \in Ancestors[currentHeader]
          /\ currentHeader \in Blocks
      BY <2>1, <3>2, HeaderChainUnlocked, Zenon
    <3>4. \A op, a : Pending(op, a)' <=>
               \/ op \in {"td", "header"} /\ a = h
               \/ Td[h] > Td[currentHeader] /\ Has(ExtendHeaders(h), op, a)
      BY <2>1, <2>4, HeaderPlanProperties, Zenon DEF Pending
    <3>5. CASE Td[h] > Td[currentHeader]
      <4>1. WalkEnd(h) \in headers
        <5>1. SUFFICES ASSUME WalkEnd(h) \notin headers
                       PROVE  FALSE
          OBVIOUS
        <5>2. Has(ExtendHeaders(h), "panic", h)
          BY <2>1, <5>1, ExtendHeadersPlan, Zenon
        <5>3. Pending("panic", h)'
          BY <3>4, <3>5, <5>2, Zenon
        <5> QED
          BY <2>1, <3>1, <5>3, Zenon DEF Undisturbed
      <4>2. /\ \A c \in Blocks : Canonical(c)' =>
                  /\ c \in PlannedHeaders' /\ c \in Ancestors[h]
                  /\ c # Genesis => Canonical(Parent[c])'
            /\ Canonical(h)'
            /\ \A b \in Blocks : Target("headHeader", currentHeader, b)' => b = h
        BY <2>1, <2>2, <2>4, <3>3, <3>5, <4>1, <1>WalkPlanned, Zenon
      <4> QED
        BY <4>2, Zenon DEF HeaderChain
    <3>6. CASE ~(Td[h] > Td[currentHeader])
      <4>1. \A op, a : Pending(op, a)' <=> op \in {"td", "header"} /\ a = h
        BY <3>4, <3>6, Zenon
      <4>2. headers \in SUBSET Blocks
        BY Zenon DEF Base, Types, TypeOK
      <4>3. \A a \in Blocks : Canonical(a)' <=> canon[Number[a]] = a
        BY <2>2, <4>1, Zenon DEF Canonical
      <4>4. headers \subseteq PlannedHeaders'
        BY <2>2, <4>1, <4>2, Zenon DEF PlannedHeaders
      <4>5. \A b \in Blocks : Target("headHeader", currentHeader, b)' => b = currentHeader
        BY <2>2, <4>1, Zenon DEF Target
      <4>6. currentHeader \in Ancestors[currentHeader]
        BY <3>3, AncestorsType, Zenon
      <4>7. \A c \in Blocks \ {Genesis} : Parent[c] \in Blocks
        BY BlockAssumption, Zenon
      <4>8. \A c \in Blocks : Canonical(c)' =>
                c \in PlannedHeaders' /\ (c # Genesis => Canonical(Parent[c])')
        BY <3>3, <4>3, <4>4, <4>7, Zenon
      <4>9. \A b \in Blocks : Target("headHeader", currentHeader, b)' =>
                /\ Canonical(b)'
                /\ rollbacks' = 0 => \A c \in Blocks : Canonical(c)' => c \in Ancestors[b]
        BY <2>2, <3>3, <4>3, <4>5, <4>6, Zenon
      <4> QED
        BY <4>8, <4>9, Zenon DEF HeaderChain
    <3> QED
      BY <3>5, <3>6, Zenon
  <2> QED
    BY <2>1, <2>3, <2>4, Zenon
\* SetHead keeps it: it deletes the canonical numbers above the new head header.
<1>HeaderChainSetHead. ASSUME Foundations, Base, HeaderChain, NEW n \in Heights, SetHead(n)
                       PROVE  HeaderChain'
  <2> USE <1>HeaderChainSetHead
  <2>1. /\ writes = <<>> /\ currentBlock \in Blocks /\ currentHeader \in Blocks /\ currentFast \in Blocks
        /\ headers \in SUBSET Blocks
    BY Zenon DEF SetHead, Unlocked, Base, Types, TypeOK
  <2>2. /\ UNCHANGED <<headers, bodies, canon, currentHeader, crashes, panicked, rollbacks>>
        /\ rewinds' # 0
    <3>1. /\ UNCHANGED <<headers, bodies, canon, currentHeader, crashes, panicked, rollbacks>>
          /\ rewinds' = rewinds + 1 /\ rewinds \in 0..MaxRewinds /\ MaxRewinds \in Nat
      BY InputAssumption, Zenon DEF SetHead, disk, heads, Base, Types, TypeOK
    <3> QED
      BY <3>1
  <2>3. PICK drop \in Orders(Dropped(n)) : writes' = HeadPlan(n, drop)
    BY SetHeadPlan, Zenon
  <2>4. \A op, a : Pending(op, a)' <=>
           \/ op = "uncanon" /\ a \in Lowered(n)
           \/ op \in Deletions /\ a \in Dropped(n)
           \/ op = "headBlock" /\ a = Rewound(currentBlock, n, Stored)
           \/ op = "headHeader" /\ a = Rewound(currentHeader, n, headers)
           \/ op = "headFast" /\ a = Rewound(currentFast, n, Stored)
    BY <2>1, <2>3, HeadPlanProperties, Zenon DEF Pending
  <2>5. SUFFICES ASSUME Undisturbed'
                 PROVE  HeaderChain'
    BY Zenon DEF HeaderChain
  <2>6. crashes = 0 /\ ~panicked /\ rollbacks = 0
    BY <2>2, <2>5, Zenon DEF Undisturbed
  <2>7. \A a \in Blocks : canon[Number[a]] = a => a \in Ancestors[currentHeader]
    BY <2>1, <2>6, HeaderChainUnlocked, Zenon
  <2>8. \A a \in Ancestors[currentHeader] : a \in headers /\ canon[Number[a]] = a /\ a \in Blocks
    BY <2>1, <2>6, HeaderChainUnlocked, AncestorsType, Zenon
  <2>9. n \in Nat /\ \A a \in Blocks : Number[a] \in Nat /\ Number[a] \in Heights
    BY BlockAssumption DEF Heights
  <2>10. ASSUME NEW a \in Blocks
         PROVE  Canonical(a)' <=> a \in Ancestors[currentHeader] /\ Number[a] <= n
    <3>1. \A c \in Blocks : ~Pending("canon", c)'
      BY <2>4, Zenon DEF Deletions
    <3>2. Pending("uncanon", Number[a])' <=> Number[a] \in Lowered(n)
      BY <2>4, Zenon DEF Deletions
    <3>3. Canonical(a)' <=> canon[Number[a]] = a /\ Number[a] \notin Lowered(n)
      BY <2>2, <3>1, <3>2, Zenon DEF Canonical
    <3>4. a \in Ancestors[currentHeader] => (Number[a] \in Lowered(n) <=> Number[a] > n)
      <4>1. a \in Ancestors[currentHeader] => Number[a] <= Number[currentHeader]
        BY <2>1, AncestorNumbers, Zenon
      <4> QED
        BY <2>9, <4>1, Zenon DEF Lowered
    <3> QED
      BY <2>7, <2>8, <2>9, <3>3, <3>4
  <2>11. ASSUME NEW a \in Ancestors[currentHeader], Number[a] <= n
         PROVE  a \in PlannedHeaders'
    <3>1. a \notin Dropped(n)
      BY <2>1, <2>8, <2>9, <2>11, DroppedType
    <3>2. ~Pending("delHeader", a)'
      BY <2>4, <3>1, Zenon
    <3> QED
      BY <2>2, <2>8, <3>2, Zenon DEF PlannedHeaders
  <2>12. ASSUME NEW c \in Blocks \ {Genesis}, Canonical(c)'
         PROVE  Canonical(Parent[c])'
    <3>1. c \in Ancestors[currentHeader] /\ Number[c] <= n
      BY <2>10, <2>12, Zenon
    <3>2. Parent[c] \in Ancestors[currentHeader] /\ Parent[c] \in Blocks /\ Number[c] = Number[Parent[c]] + 1
      BY <2>1, <3>1, AncestorsLinked, BlockAssumption, Zenon
    <3>3. Number[Parent[c]] <= n
      BY <2>9, <3>1, <3>2
    <3> QED
      BY <2>10, <3>2, <3>3, Zenon
  <2>13. ASSUME NEW b \in Blocks, Target("headHeader", currentHeader, b)'
         PROVE  Canonical(b)' /\ \A c \in Blocks : Canonical(c)' => c \in Ancestors[b]
    <3>1. b = Rewound(currentHeader, n, headers)
      <4>1. \E c \in Blocks : Pending("headHeader", c)'
        BY <2>1, <2>4, RewoundProperties, Zenon
      <4>2. Pending("headHeader", b)'
        BY <2>13, <4>1, Zenon DEF Target
      <4> QED
        BY <2>4, <4>2, Zenon DEF Deletions
    <3>2. b \in Ancestors[currentHeader] /\ Number[b] <= n
      BY <2>1, <3>1, RewoundProperties, Zenon
    <3>3. Number[b] = n \/ b = currentHeader
      <4>1. Number[currentHeader] <= n \/ Number[b] = n
        BY <2>1, <2>8, <3>1, RewoundProperties, Zenon
      <4> QED
        BY <3>1, <4>1, Zenon DEF Rewound
    <3>4. ASSUME NEW c \in Blocks, Canonical(c)'
          PROVE  c \in Ancestors[b]
      <4>1. c \in Ancestors[currentHeader] /\ Number[c] <= n
        BY <2>10, <3>4, Zenon
      <4>2. CASE b = currentHeader
        BY <4>1, <4>2, Zenon
      <4>3. CASE Number[b] = n
        BY <2>1, <3>2, <4>1, <4>3, <1>LowerIsAncestor, Zenon
      <4> QED
        BY <3>3, <4>2, <4>3, Zenon
    <3> QED
      BY <2>10, <3>2, <3>4, Zenon
  <2>14. \A c \in Blocks : Canonical(c)' => c \in PlannedHeaders'
    BY <2>10, <2>11, Zenon
  <2> QED
    BY <2>12, <2>13, <2>14, Zenon DEF HeaderChain
\* Rollback keeps it: the head header moves down its own chain.
<1>HeaderChainRollback. ASSUME Foundations, Base, HeaderChain, NEW n \in Heights, Rollback(n)
                        PROVE  HeaderChain'
  <2> USE <1>HeaderChainRollback
  <2>1. /\ writes = <<>> /\ UNCHANGED <<headers, canon, currentHeader, crashes, panicked, rewinds>>
        /\ currentHeader \in Blocks /\ headers \in SUBSET Blocks
    BY Zenon DEF Rollback, Unlocked, disk, heads, Base, Types, TypeOK
  <2>2. rollbacks' # 0
    <3>1. rollbacks' = rollbacks + 1 /\ rollbacks \in 0..MaxRollbacks /\ MaxRollbacks \in Nat
      BY InputAssumption, Zenon DEF Rollback, Base, Types, TypeOK
    <3> QED
      BY <3>1
  <2>3. \A op, a : Pending(op, a)' =>
           a \in Ancestors[currentHeader] /\ op \in {"headHeader", "headFast", "headBlock", "panic"}
    BY <2>1, RollbackPlanned, RollbackPlanProperties, Zenon DEF Pending
  <2>4. SUFFICES ASSUME Undisturbed'
                 PROVE  HeaderChain'
    BY Zenon DEF HeaderChain
  <2>5. crashes = 0 /\ ~panicked /\ rewinds = 0
    BY <2>1, <2>2, <2>4, Zenon DEF Undisturbed
  <2>6. /\ \A c \in Blocks : canon[Number[c]] = c =>
              c \in headers /\ (c # Genesis => canon[Number[Parent[c]]] = Parent[c])
        /\ \A a \in Ancestors[currentHeader] : a \in headers /\ canon[Number[a]] = a
    BY <2>1, <2>5, HeaderChainUnlocked, Zenon
  <2>7. \A a \in Blocks : Canonical(a)' <=> canon[Number[a]] = a
    <3>1. \A a \in Blocks : ~Pending("canon", a)' /\ ~Pending("uncanon", Number[a])'
      BY <2>3
    <3> QED
      BY <2>1, <3>1, Zenon DEF Canonical
  <2>8. PlannedHeaders' = headers
    BY <2>1, <2>3 DEF PlannedHeaders
  <2>9. \A b \in Blocks : Target("headHeader", currentHeader, b)' => b \in Ancestors[currentHeader]
    BY <2>1, <2>3, AncestorsType, Zenon DEF Target
  <2>10. \A c \in Blocks \ {Genesis} : Parent[c] \in Blocks
    BY BlockAssumption, Zenon
  <2>11. \A c \in Blocks : Canonical(c)' =>
             c \in PlannedHeaders' /\ (c # Genesis => Canonical(Parent[c])')
    BY <2>6, <2>7, <2>8, <2>10, Zenon
  <2>12. \A b \in Blocks : Target("headHeader", currentHeader, b)' => Canonical(b)'
    BY <2>6, <2>7, <2>9, Zenon
  <2> QED
    BY <2>2, <2>11, <2>12, Zenon DEF HeaderChain
<1>1. Chains = {} /\ Mined = {} /\ writes \in Seq(Puts)
  BY Zenon DEF HeadersOnly, Base, Types, TypeOK
<1>2. CASE Write
  BY <1>2, <1>HeaderChainWrite, Zenon
<1>3. CASE WriteHeader
  BY <1>3, <1>HeaderChainWriteHeader, Zenon
<1>4. ASSUME NEW n \in Heights, SetHead(n)
      PROVE  HeaderChain'
  BY <1>4, <1>HeaderChainSetHead, Zenon
<1>5. ASSUME NEW n \in Heights, Rollback(n)
      PROVE  HeaderChain'
  BY <1>5, <1>HeaderChainRollback, Zenon
<1>6. ~ProcFutureBlocks /\ ~ValidateNext /\ \A p \in Procs : ~WriteBlock(p)
  BY Zenon DEF NoImport, ProcFutureBlocks, ValidateNext, WriteBlock
<1>7. CASE Crash
  <2>1. crashes' = crashes + 1 /\ crashes \in 0..MaxCrashes /\ MaxCrashes \in Nat
    BY <1>7, InputAssumption, Zenon DEF Crash, Base, Types, TypeOK
  <2>2. crashes' # 0
    BY <2>1
  <2> QED
    BY <2>2, Zenon DEF HeaderChain, Undisturbed
<1>8. CASE Panic
  BY <1>8, Zenon DEF Panic, HeaderChain, Undisturbed
<1>9. CASE CommitReceipts
  <2>1. /\ UNCHANGED <<headers, canon, currentHeader, crashes, panicked, rewinds, rollbacks>>
        /\ writes = <<>>
    BY <1>9, Zenon DEF CommitReceipts, Unlocked, disk, heads, counters
  <2>2. \A op, a : ~Pending(op, a)
    BY <2>1, HasNothing, Zenon DEF Pending
  <2>3. \A op, a : Pending(op, a)' => op \in {"headFast", "panic"}
    <3>1. \A op, a : Has(writes', op, a) => a = rhead /\ (op = "headFast" \/ op = "panic")
      BY <1>9, CommitReceiptsPlan, Zenon DEF Base
    <3> QED
      BY <3>1, Zenon DEF Pending
  <2>4. \A op \in {"header", "delHeader", "canon", "headHeader"}, b \in Blocks :
           Pending(op, b)' <=> Pending(op, b)
    BY <2>2, <2>3, Zenon
  <2>5. \A n \in Heights : Pending("uncanon", n)' <=> Pending("uncanon", n)
    BY <2>2, <2>3
  <2> QED
    BY <2>1, <2>2, <2>4, <2>5, <1>HeaderChainKept, Zenon
<1>10. ASSUME UNCHANGED <<headers, canon, currentHeader, crashes, panicked, rewinds, rollbacks, writes>>
       PROVE  HeaderChain'
  <2>1. \A op, a : Pending(op, a)' <=> Pending(op, a)
    BY <1>10, Zenon DEF Pending
  <2> QED
    BY <1>10, <2>1, <1>HeaderChainKept, Zenon
<1>11. ASSUME \/ \E p \in Procs : IndexBlock(p)
              \/ \E chain \in HeaderChains : InsertHeaderChain(chain)
              \/ Tick \/ UNCHANGED vars
              \/ \E chain \in ReceiptChains : InsertReceiptChain(chain)
              \/ \E b \in Blocks : WriteBody(b)
              \/ \E b \in Pivots : FastSyncCommitHead(b)
       PROVE  HeaderChain'
  BY <1>10, <1>11, Zenon DEF IndexBlock, InsertHeaderChain, Tick, InsertReceiptChain, WriteBody,
     FastSyncCommitHead, vars, disk, heads, counters
<1> QED
  BY <1>1, <1>2, <1>3, <1>4, <1>5, <1>6, <1>7, <1>8, <1>9, <1>11, Zenon DEF Next

\* As long as headers are only added, a difficulty, stored or cached, is that of a
\* header whose ancestors are there, and nothing panics.
Additive ==
    crashes = 0 /\ rewinds = 0 /\ rollbacks = 0 =>
        /\ ~panicked /\ \A b \in Blocks : ~Pending("panic", b)
        /\ \A b \in Blocks : b \in tds \/ b \in tdCache \/ Pending("td", b) => b \in PlannedHeaders
        /\ \A b \in Blocks \ {Genesis} : b \in PlannedHeaders => Parent[b] \in PlannedHeaders

\* Every step keeps it.
LEMMA AdditiveNext ==
    ASSUME Foundations, HeadersOnly, Base, NoImport, Complete, Additive, [Next]_vars
    PROVE  Additive'
\* A write keeps it.
<1>AdditiveWrite. ASSUME Base, Additive, Write
                  PROVE  Additive'
  <2> USE <1>AdditiveWrite
  <2>1. PICK op, arg : Made(op, arg)
    BY WriteMakes, Zenon DEF Base, Types, TypeOK
  <2>2. writes \in Seq(Puts)
    BY Zenon DEF Base, Types, TypeOK
  <2>3. \A o, a : Pending(o, a) <=> (o = op /\ a = arg) \/ Pending(o, a)'
    BY <2>1, <2>2, MadePending, Zenon
  <2>4. PlannedHeaders' = PlannedHeaders
    BY <2>1, MadePlanned, Zenon
  <2>5. /\ UNCHANGED <<crashes, panicked, rewinds, rollbacks, tdCache>>
        /\ tds' = IF op = "td" THEN tds \cup {arg} ELSE IF op = "delTd" THEN tds \ {arg} ELSE tds
    BY <2>1, Zenon DEF Made, counters
  <2> QED
    BY <2>3, <2>4, <2>5, Zenon DEF Additive
\* A step that leaves the headers and the plan alone keeps it.
<1>AdditiveKept. ASSUME Additive, UNCHANGED <<headers, crashes, panicked, rewinds, rollbacks, tds, writes>>,
                        tdCache' \subseteq tdCache \cup tds
                 PROVE  Additive'
  <2> USE <1>AdditiveKept
  <2>1. \A op, a : Pending(op, a)' <=> Pending(op, a)
    BY Zenon DEF Pending
  <2>2. PlannedHeaders' = PlannedHeaders
    BY <2>1, Zenon DEF PlannedHeaders
  <2> QED
    BY <2>1, <2>2, Zenon DEF Additive
\* writeHeader keeps it: the walk finds all headers it needs.
<1>AdditiveWriteHeader. ASSUME Foundations, Base, Additive, WriteHeader
                        PROVE  Additive'
  <2> USE <1>AdditiveWriteHeader
  <2>0. PICK h : h = Head(hbatch)
    OBVIOUS
  <2>1. /\ writes = <<>> /\ h \in Blocks \ {Genesis}
        /\ writes' = <<>> \/ (writes' = HeaderPlan(h) /\ HasTd(Parent[h]))
    BY <2>0, WriteHeaderPlan, Zenon DEF Base
  <2>2. /\ UNCHANGED <<headers, crashes, panicked, rewinds, rollbacks, tds>>
        /\ tdCache' \subseteq tdCache \cup tds
    BY DEF WriteHeader, CacheTds, disk, counters
  <2>3. CASE writes' = <<>>
    BY <2>1, <2>2, <2>3, <1>AdditiveKept, Zenon
  <2>4. CASE writes' = HeaderPlan(h) /\ HasTd(Parent[h])
    <3>1. SUFFICES ASSUME crashes = 0, rewinds = 0, rollbacks = 0
                   PROVE  Additive'
      BY <2>2, Zenon DEF Additive
    <3>2. /\ PlannedHeaders = headers /\ headers \in SUBSET Blocks /\ canon[0] = Genesis
          /\ Parent[h] \in Blocks /\ \A c \in Blocks \ {Genesis} : Parent[c] \in Blocks
      BY <2>1, NothingPlanned, BlockAssumption, Zenon DEF Base, Types, TypeOK, Rooted
    <3>3. Parent[h] \in headers /\ \A c \in headers : c # Genesis => Parent[c] \in headers
      BY <2>4, <3>1, <3>2, Zenon DEF Additive, HasTd
    <3>4. Ancestors[Parent[h]] \subseteq headers
      BY <3>2, <3>3, ClosedUnderParent, Zenon
    <3>5. WalkEnd(h) \in headers
      BY <2>1, <3>2, <3>4, WalkEndProperties, AncestorsStep, Zenon
    <3>6. \A op, a : Pending(op, a)' => op \in {"uncanon", "canon", "headHeader"} \/ (op \in {"td", "header"} /\ a = h)
      <4>1. \A op, a : Has(HeaderPlan(h), op, a) =>
               (op \in {"td", "header"} /\ a = h) \/ Has(ExtendHeaders(h), op, a)
        BY <2>1, HeaderPlanProperties, Zenon
      <4>2. \A op, a : Has(ExtendHeaders(h), op, a) => op \in {"uncanon", "canon", "headHeader"}
        BY <2>1, <3>5, ExtendHeadersPlan, Zenon
      <4> QED
        BY <2>4, <4>1, <4>2, Zenon DEF Pending
    <3>7. Pending("header", h)'
      BY <2>1, <2>4, HeaderPlanProperties, Zenon DEF Pending
    <3>8. PlannedHeaders' = headers \cup {h}
      <4>1. \A a \in Blocks : (Pending("header", a)' <=> a = h) /\ ~Pending("delHeader", a)'
        BY <3>6, <3>7
      <4> QED
        BY <2>1, <2>2, <3>2, <4>1, Zenon DEF PlannedHeaders
    <3>9. \A b \in Blocks : b \in tds \/ b \in tdCache => b \in headers
      BY <3>1, <3>2, Zenon DEF Additive
    <3>10. \A b \in Blocks : ~Pending("panic", b)' /\ (Pending("td", b)' => b = h)
      BY <3>6
    <3>11. ~panicked
      BY <3>1, Zenon DEF Additive
    <3> QED
      BY <2>2, <3>3, <3>8, <3>9, <3>10, <3>11, Zenon DEF Additive
  <2> QED
    BY <2>1, <2>3, <2>4, Zenon
\* The end of InsertReceiptChain keeps it: the difficulty of the last block is there.
<1>AdditiveCommit. ASSUME Base, Complete, Additive, CommitReceipts
                   PROVE  Additive'
  <2> USE <1>AdditiveCommit
  <2>1. /\ UNCHANGED <<headers, crashes, panicked, rewinds, rollbacks, tds>>
        /\ tdCache' \subseteq tdCache \cup tds
    BY DEF CommitReceipts, CacheTds, disk, counters
  <2>2. /\ rhead \in Blocks /\ writes = <<>> /\ rleft = {}
        /\ \A op, a : Pending(op, a)' => op = "headFast" \/ (op = "panic" /\ ~HasTd(rhead))
    <3>1. \A op, a : Has(writes', op, a) => a = rhead /\ (op = "headFast" \/ (op = "panic" /\ ~HasTd(rhead)))
      BY CommitReceiptsPlan, Zenon DEF Base
    <3>2. rhead \in Blocks /\ writes = <<>> /\ rleft = {}
      BY CommitReceiptsPlan, Zenon DEF Base
    <3> QED
      BY <3>1, <3>2, Zenon DEF Pending
  <2>3. SUFFICES ASSUME crashes = 0, rewinds = 0, rollbacks = 0
                 PROVE  Additive'
    BY <2>1, Zenon DEF Additive
  <2>4. HasTd(rhead)
    <3>1. rhead \in Stored
      BY <2>2, <2>3, BlockAssumption, Zenon DEF Complete
    <3> QED
      BY <3>1, Zenon DEF Stored, HasTd, Base, Owned
  <2>5. PlannedHeaders = headers /\ headers \in SUBSET Blocks
    BY <2>2, NothingPlanned, Zenon DEF Base, Types, TypeOK
  <2>6. PlannedHeaders' = headers
    BY <2>1, <2>2, <2>5 DEF PlannedHeaders
  <2>7. \A b \in Blocks : ~Pending("panic", b)' /\ ~Pending("td", b)'
    BY <2>2, <2>4, Zenon
  <2> QED
    BY <2>1, <2>3, <2>5, <2>6, <2>7, Zenon DEF Additive
<1>1. /\ Chains = {} /\ Mined = {} /\ writes \in Seq(Puts)
      /\ crashes \in 0..MaxCrashes /\ rewinds \in 0..MaxRewinds /\ rollbacks \in 0..MaxRollbacks
      /\ MaxCrashes \in Nat /\ MaxRewinds \in Nat /\ MaxRollbacks \in Nat
  BY InputAssumption, Zenon DEF HeadersOnly, Base, Types, TypeOK
<1>2. CASE Write
  BY <1>2, <1>AdditiveWrite, Zenon
<1>3. CASE WriteHeader
  BY <1>3, <1>AdditiveWriteHeader, Zenon
<1>4. CASE CommitReceipts
  BY <1>4, <1>AdditiveCommit, Zenon
<1>5. ASSUME NEW n \in Heights, SetHead(n) \/ Rollback(n)
      PROVE  Additive'
  <2>1. rewinds' = rewinds + 1 \/ rollbacks' = rollbacks + 1
    BY <1>5, Zenon DEF SetHead, Rollback
  <2>2. rewinds' # 0 \/ rollbacks' # 0
    BY <1>1, <2>1
  <2> QED
    BY <2>2, Zenon DEF Additive
<1>6. ~ProcFutureBlocks /\ ~ValidateNext /\ \A p \in Procs : ~WriteBlock(p)
  BY Zenon DEF NoImport, ProcFutureBlocks, ValidateNext, WriteBlock
<1>7. CASE Crash
  <2>1. crashes' = crashes + 1
    BY <1>7, Zenon DEF Crash
  <2>2. crashes' # 0
    BY <1>1, <2>1
  <2> QED
    BY <2>2, Zenon DEF Additive
<1>8. CASE Panic
  <2>1. /\ writes # <<>> /\ Head(writes).op = "panic"
        /\ UNCHANGED <<crashes, rewinds, rollbacks>>
    BY <1>8, Zenon DEF Panic, Restart
  <2>2. Head(writes) \in Puts /\ Head(writes) = writes[1] /\ 1 \in DOMAIN writes
    BY <1>1, <2>1
  <2>3. writes[1].arg \in Blocks /\ writes[1].op = "panic"
    BY <2>1, <2>2, Zenon DEF Puts, BlockOps
  <2>4. \E b \in Blocks : Pending("panic", b)
    BY <2>2, <2>3, Zenon DEF Pending, Has
  <2> QED
    BY <2>1, <2>4, Zenon DEF Additive
<1>9. ASSUME \/ \E p \in Procs : IndexBlock(p)
             \/ \E chain \in HeaderChains : InsertHeaderChain(chain)
             \/ Tick \/ UNCHANGED vars
             \/ \E chain \in ReceiptChains : InsertReceiptChain(chain)
             \/ \E b \in Blocks : WriteBody(b)
             \/ \E b \in Pivots : FastSyncCommitHead(b)
      PROVE  Additive'
  <2>1. UNCHANGED <<headers, crashes, panicked, rewinds, rollbacks, tds, writes, tdCache>>
    BY <1>9, Zenon DEF IndexBlock, InsertHeaderChain, Tick, InsertReceiptChain, WriteBody,
       FastSyncCommitHead, vars, disk, heads, counters
  <2> QED
    BY <2>1, <1>AdditiveKept, Zenon
<1> QED
  BY <1>1, <1>2, <1>3, <1>4, <1>5, <1>6, <1>7, <1>8, <1>9, Zenon DEF Next

\* The inductive invariant of header insertion.
HeadersInv == Base /\ Complete /\ NoImport /\ HeaderChain /\ Additive
===========================================================================
