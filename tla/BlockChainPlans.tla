-------------------------- MODULE BlockChainPlans --------------------------
(***************************************************************************)
(* Lemmas about BlockChain, for any finite tree of blocks and any bounds   *)
(* on the calls: chains and their ancestors, what each operation plans to  *)
(* write (its writes are a sequence, made one at a time by Write), the     *)
(* types of the variables, and the order in which a header and what it     *)
(* stands for are written and deleted.                                     *)
(*                                                                         *)
(* The invariants speak of the database as it will be when the pending     *)
(* writes have been made: a write leaves that alone, so that only the      *)
(* start of a plan, a restart and the end of a plan have to be looked at.  *)
(***************************************************************************)
EXTENDS BlockChain, TLAPS

\* Facts about numbers and finite sets that are proved by induction; BlockChainProofs
\* proves them from the library.  A set of numbers has a least element.
WellOrdered == \A T \in SUBSET Nat : T # {} => \E i \in T : \A j \in T : i <= j

\* A part of a finite set is finite.
SubsetsFinite == \A S : IsFiniteSet(S) => \A T \in SUBSET S : IsFiniteSet(T)

\* A finite set has a size, and its elements can be put in an order.
Orderable == \A S : IsFiniteSet(S) => Cardinality(S) \in Nat /\ \E s : s \in Orders(S)

\* A finite set on which key is injective can be put in the order of falling keys.
Sortable ==
    \A S : IsFiniteSet(S) => \A key \in [S -> Nat] : (\A e, f \in S : key[e] = key[f] => e = f) =>
        \E s \in Orders(S) : \A i, j \in DOMAIN s : i < j => key[s[i]] > key[s[j]]

Foundations == WellOrdered /\ SubsetsFinite /\ Orderable /\ Sortable /\ IsFiniteSet(Heights)

\* Induction up to a number, on the set of the numbers it holds for.
LEMMA Induction ==
    ASSUME Foundations, NEW n \in Nat, NEW S, 0 \in S, \A i \in 1..n : i - 1 \in S => i \in S
    PROVE  \A i \in 0..n : i \in S
<1> DEFINE T == {i \in 0..n : i \notin S}
<1>1. SUFFICES ASSUME T # {} PROVE FALSE
  BY Zenon
<1>2. T \in SUBSET Nat
  OBVIOUS
<1>3. PICK i \in T : \A k \in T : i <= k
  BY <1>1, <1>2, Zenon DEF Foundations, WellOrdered
<1>4. i \in 0..n /\ i \notin S /\ i # 0
  BY Zenon
<1>5. i \in 1..n /\ i - 1 \in 0..n /\ ~(i <= i - 1)
  BY <1>4
<1>6. i - 1 \notin T
  BY <1>3, <1>5, Zenon
<1> QED
  BY <1>4, <1>5, <1>6, Zenon

\* The positions of a concatenation.
LEMMA Concatenation ==
    ASSUME NEW X, NEW u \in Seq(X), NEW w \in Seq(X)
    PROVE  /\ u \o w \in Seq(X) /\ Len(u) \in Nat /\ Len(w) \in Nat
           /\ DOMAIN (u \o w) = 1..(Len(u) + Len(w)) /\ DOMAIN u = 1..Len(u) /\ DOMAIN w = 1..Len(w)
           /\ \A q \in DOMAIN u : (u \o w)[q] = u[q] /\ q \in DOMAIN (u \o w)
           /\ \A q \in DOMAIN w : (u \o w)[Len(u) + q] = w[q] /\ Len(u) + q \in DOMAIN (u \o w)
           /\ \A q \in DOMAIN (u \o w) : q \in DOMAIN u \/ q - Len(u) \in DOMAIN w
OBVIOUS

\* Where the elements of the second sequence are.
LEMMA SecondPart ==
    ASSUME NEW X, NEW u \in Seq(X), NEW w \in Seq(X), NEW q \in DOMAIN w
    PROVE  (u \o w)[Len(u) + q] = w[q]
OBVIOUS

\* v[q] is w[k], and all that is before it in w comes before it in v.
Follows(v, q, w, k) ==
    v[q] = w[k] /\ \A j \in 1..(k - 1) : \E p \in 1..(q - 1) : v[p] = w[j]

\* What Joined is: all elements of the sequences, each after those before it in its own.
LEMMA JoinedProperties ==
    ASSUME Foundations, NEW X, NEW ss \in Seq(Seq(X))
    PROVE  /\ Joined(ss) \in Seq(X)
           /\ \A q \in DOMAIN Joined(ss) : \E m \in DOMAIN ss : \E k \in DOMAIN ss[m] :
                 Follows(Joined(ss), q, ss[m], k)
           /\ \A m \in DOMAIN ss : \A k \in DOMAIN ss[m] :
                 \E q \in DOMAIN Joined(ss) : Joined(ss)[q] = ss[m][k]
<1> DEFINE N == Len(ss)
           Step(f, i) == IF i = 0 THEN <<>> ELSE f[i - 1] \o ss[i]
           Rec(f, n) == f = [i \in 0..n |-> Step(f, i)]
           joined == CHOOSE f : Rec(f, N)
<1>1. N \in Nat /\ DOMAIN ss = 1..N /\ \A i \in 1..N : ss[i] \in Seq(X)
  OBVIOUS
<1> HIDE DEF N, Step
<1>2. \E f : Rec(f, N)
  <2> DEFINE S == {n \in Nat : \E f : Rec(f, n)}
  <2>1. 0 \in S
    <3>1. Rec([i \in 0..0 |-> <<>>], 0)
      BY DEF Step
    <3> QED
      BY <3>1, Zenon
  <2>2. ASSUME NEW n \in 1..N, n - 1 \in S
        PROVE  n \in S
    <3>1. PICK f : Rec(f, n - 1)
      BY <2>2, Zenon
    <3> DEFINE h == [i \in 0..n |-> IF i = n THEN f[n - 1] \o ss[n] ELSE f[i]]
    <3>2. \A i \in 0..(n - 1) : f[i] = Step(f, i)
      BY <3>1, Zenon
    <3>3. \A i \in 0..(n - 1) : h[i] = f[i]
      OBVIOUS
    <3>4. n \in 0..n /\ n - 1 \in 0..(n - 1)
      BY <1>1
    <3>5. h[n] = f[n - 1] \o ss[n]
      BY <3>4, Zenon
    <3>6. h = [i \in 0..n |-> h[i]]
      BY Zenon
    <3> HIDE DEF h
    <3>7. ASSUME NEW i \in 0..n
          PROVE  h[i] = Step(h, i)
      <4>1. CASE i = n
        <5>1. i # 0
          BY <1>1, <4>1
        <5>2. h[n - 1] = f[n - 1]
          BY <3>3, <3>4, Zenon
        <5> QED
          BY <3>5, <4>1, <5>1, <5>2, Zenon DEF Step
      <4>2. CASE i # n /\ i # 0
        <5>1. i \in 0..(n - 1) /\ i - 1 \in 0..(n - 1)
          BY <4>2
        <5> QED
          BY <3>2, <3>3, <4>2, <5>1, Zenon DEF Step
      <4>3. CASE i = 0
        <5>1. 0 \in 0..(n - 1)
          OBVIOUS
        <5> QED
          BY <3>2, <3>3, <4>3, <5>1, Zenon DEF Step
      <4> QED
        BY <4>1, <4>2, <4>3, Zenon
    <3>8. Rec(h, n)
      BY <3>6, <3>7, Zenon
    <3> QED
      BY <3>8
  <2> HIDE DEF S
  <2>3. \A n \in 0..N : n \in S
    BY <1>1, <2>1, <2>2, Induction, Zenon
  <2> QED
    BY <1>1, <2>3 DEF S
<1>3. Rec(joined, N)
  BY <1>2, Zenon
<1>4. Joined(ss) = joined[N]
  BY Zenon DEF Joined, N, Step
<1> HIDE DEF joined
<1>5. \A i \in 0..N : joined[i] = Step(joined, i)
  BY <1>3, Zenon
<1> DEFINE After(i) == \A q \in DOMAIN joined[i] : \E m \in 1..i : \E k \in DOMAIN ss[m] :
                         Follows(joined[i], q, ss[m], k)
           All(i) == \A m \in 1..i : \A k \in DOMAIN ss[m] : \E q \in DOMAIN joined[i] : joined[i][q] = ss[m][k]
           S == {i \in 0..N : joined[i] \in Seq(X) /\ After(i) /\ All(i)}
<1>6. 0 \in S
  <2>1. joined[0] = <<>> /\ 0 \in 0..N
    BY <1>1, <1>5 DEF Step
  <2>2. joined[0] \in Seq(X) /\ After(0) /\ All(0)
    BY <2>1
  <2> QED
    BY <2>1, <2>2, Zenon
<1>7. ASSUME NEW i \in 1..N, i - 1 \in S
      PROVE  i \in S
  <2> DEFINE u == joined[i - 1]
             w == ss[i]
             v == joined[i]
  <2>1. i \in Nat /\ i - 1 \in 0..N /\ i \in 0..N /\ i # 0
    BY <1>1
  <2>0. v = u \o w
    BY <1>5, <2>1, Zenon DEF Step
  <2>2. u \in Seq(X) /\ w \in Seq(X) /\ After(i - 1) /\ All(i - 1)
    BY <1>1, <1>7, Zenon
  <2>3. /\ v \in Seq(X) /\ Len(u) \in Nat /\ Len(w) \in Nat
        /\ DOMAIN v = 1..(Len(u) + Len(w)) /\ DOMAIN u = 1..Len(u) /\ DOMAIN w = 1..Len(w)
        /\ \A q \in DOMAIN u : v[q] = u[q] /\ q \in DOMAIN v
        /\ \A q \in DOMAIN w : v[Len(u) + q] = w[q] /\ Len(u) + q \in DOMAIN v
        /\ \A q \in DOMAIN v : q \in DOMAIN u \/ q - Len(u) \in DOMAIN w
    <3>1. u \in Seq(X) /\ w \in Seq(X)
      BY <2>2, Zenon
    <3> HIDE DEF u, v, w
    <3> QED
      BY <2>0, <3>1, Concatenation
  <2>4. After(i)
    <3>1. ASSUME NEW q \in DOMAIN u
          PROVE  \E m \in 1..i : \E k \in DOMAIN ss[m] :
                    Follows(v, q, ss[m], k)
      <4>1. PICK m \in 1..(i - 1) : \E k \in DOMAIN ss[m] : Follows(u, q, ss[m], k)
        BY <2>2, Zenon
      <4>2. PICK k \in DOMAIN ss[m] : Follows(u, q, ss[m], k)
        BY <4>1, Zenon
      <4> HIDE DEF u, v, w
      <4>3. m \in 1..i /\ \A p \in 1..(q - 1) : p \in DOMAIN u
        BY <2>1, <2>3
      <4>4. v[q] = u[q] /\ \A p \in 1..(q - 1) : v[p] = u[p]
        BY <2>3, <4>3, ZenonT(30)
      <4>5. Follows(v, q, ss[m], k)
        BY <4>2, <4>4, Zenon DEF Follows
      <4> QED
        BY <4>3, <4>5, Zenon
    <3>2. ASSUME NEW q \in DOMAIN v, q - Len(u) \in DOMAIN w
          PROVE  \E m \in 1..i : \E k \in DOMAIN ss[m] :
                    Follows(v, q, ss[m], k)
      <4> HIDE DEF u, v
      <4>1. PICK k \in DOMAIN w : q = Len(u) + k
        <5>1. q \in Nat
          BY <2>3
        <5> QED
          BY <2>3, <3>2, <5>1
      <4>2. \A j \in 1..(k - 1) : Len(u) + j \in 1..(q - 1) /\ j \in DOMAIN w
        <5> HIDE DEF w
        <5> QED
          BY <2>3, <4>1
      <4>3. v[q] = w[k] /\ \A j \in 1..(k - 1) : v[Len(u) + j] = w[j]
        <5> HIDE DEF w
        <5> QED
          BY <2>3, <4>1, <4>2, Zenon
      <4>4. i \in 1..i
        BY <2>1
      <4>5. Follows(v, q, w, k)
        <5> HIDE DEF w
        <5> QED
          BY <4>2, <4>3, Zenon DEF Follows
      <4> QED
        BY <4>1, <4>4, <4>5, Zenon
    <3> HIDE DEF u, w
    <3> QED
      BY <2>3, <3>1, <3>2, Zenon
  <2>5. All(i)
    <3>1. ASSUME NEW m \in 1..i, NEW k \in DOMAIN ss[m]
          PROVE  \E q \in DOMAIN v : v[q] = ss[m][k]
      <4>1. CASE m = i
        <5>1. k \in DOMAIN w /\ ss[m] = w
          BY <4>1, Zenon
        <5> HIDE DEF u, v, w
        <5> QED
          BY <2>3, <5>1, Zenon
      <4>2. CASE m # i
        <5>1. m \in 1..(i - 1)
          BY <4>2
        <5>2. PICK q \in DOMAIN u : u[q] = ss[m][k]
          BY <2>2, <5>1, Zenon
        <5> HIDE DEF u, v, w
        <5> QED
          BY <2>3, <5>2, Zenon
      <4> QED
        BY <4>1, <4>2, Zenon
    <3> QED
      BY <3>1, Zenon
  <2> QED
    BY <2>1, <2>3, <2>4, <2>5, Zenon
<1>8. N \in S
  <2> HIDE DEF S
  <2>1. \A i \in 1..N : i - 1 \in S => i \in S
    BY <1>7, Zenon
  <2>2. \A i \in 0..N : i \in S
    BY <1>1, <1>6, <2>1, Induction, Zenon
  <2> QED
    BY <1>1, <2>2
<1>9. Joined(ss) \in Seq(X) /\ After(N) /\ All(N)
  <2> HIDE DEF After, All
  <2> QED
    BY <1>4, <1>8, Zenon
<1> HIDE DEF S
<1>10. \A q \in DOMAIN Joined(ss) : \E m \in DOMAIN ss : \E k \in DOMAIN ss[m] :
                 Follows(Joined(ss), q, ss[m], k)
  <2> HIDE DEF All
  <2> QED
    BY <1>1, <1>4, <1>9, Zenon
<1>11. \A m \in DOMAIN ss : \A k \in DOMAIN ss[m] :
                 \E q \in DOMAIN Joined(ss) : Joined(ss)[q] = ss[m][k]
  <2> HIDE DEF After
  <2> QED
    BY <1>1, <1>4, <1>9
<1> QED
  BY <1>9, <1>10, <1>11, Zenon

\* An order of S is a sequence of the elements of S.
LEMMA OrderProperties ==
    ASSUME Foundations, NEW S, IsFiniteSet(S), NEW s \in Orders(S)
    PROVE  /\ s \in Seq(S) /\ DOMAIN s = 1..Cardinality(S)
           /\ \A i \in DOMAIN s : s[i] \in S
           /\ \A e \in S : \E i \in DOMAIN s : s[i] = e
<1>1. Cardinality(S) \in Nat
  BY Zenon DEF Foundations, Orderable
<1>2. s \in [1..Cardinality(S) -> S] /\ \A e \in S : \E i \in DOMAIN s : s[i] = e
  BY Zenon DEF Orders
<1> QED
  BY <1>1, <1>2

\* What holds of the genesis block and of a block whenever of its parent, holds of all.
LEMMA ChainInduction ==
    ASSUME Foundations, NEW S, Genesis \in S, \A b \in Blocks \ {Genesis} : Parent[b] \in S => b \in S
    PROVE  \A b \in Blocks : b \in S
<1> DEFINE T == {Number[b] : b \in Blocks \ S}
<1>1. SUFFICES ASSUME T # {} PROVE FALSE
  OBVIOUS
<1>2. T \in SUBSET Nat
  BY BlockAssumption
<1>3. PICK i \in T : \A k \in T : i <= k
  BY <1>1, <1>2, Zenon DEF Foundations, WellOrdered
<1>4. PICK b \in Blocks \ S : i = Number[b]
  BY <1>3, Zenon
<1>5. Parent[b] \in Blocks \ S /\ Number[b] = Number[Parent[b]] + 1
  BY <1>4, BlockAssumption
<1>6. Number[b] <= Number[Parent[b]] /\ Number[Parent[b]] \in Nat
  BY <1>3, <1>4, <1>5, BlockAssumption
<1> QED
  BY <1>5, <1>6

\* The chain of a block is the block and the chain of its parent.
LEMMA AncestorsStep ==
    /\ Ancestors[Genesis] = {Genesis}
    /\ \A b \in Blocks \ {Genesis} : Ancestors[b] = {b} \cup Ancestors[Parent[b]]
\* The recursive definition of Ancestors, the walk along ParentHash, has a value:
\* the chain of a block is the block and the chain of its parent.
<1>AncestorsDef. Ancestors = [b \in Blocks |-> IF b = Genesis THEN {Genesis} ELSE {b} \cup Ancestors[Parent[b]]]
  <2> DEFINE Closed(S) == \A c \in S \ {Genesis} : Parent[c] \in S
             F == [b \in Blocks |-> {a \in Blocks : \A S \in SUBSET Blocks : b \in S /\ Closed(S) => a \in S}]
             G == [b \in Blocks |-> IF b = Genesis THEN {Genesis} ELSE {b} \cup F[Parent[b]]]
  <2>1. F = G
    <3>1. ASSUME NEW b \in Blocks PROVE F[b] = G[b]
      <4>1. CASE b = Genesis
        <5>1. {Genesis} \in SUBSET Blocks /\ Closed({Genesis}) BY BlockAssumption, Zenon
        <5>2. F[b] \subseteq {Genesis} BY <4>1, <5>1, Zenon
        <5>3. Genesis \in F[b] BY <4>1, BlockAssumption, Zenon
        <5> QED BY <4>1, <5>2, <5>3, Zenon
      <4>2. CASE b # Genesis
        <5>1. Parent[b] \in Blocks BY <4>2, BlockAssumption, Zenon
        <5>2. ASSUME NEW a \in F[b], a # b PROVE a \in F[Parent[b]]
          <6>1. SUFFICES ASSUME NEW S \in SUBSET Blocks, Parent[b] \in S, Closed(S) PROVE a \in S
            BY <5>1, <5>2, Zenon
          <6>2. Closed(S \cup {b}) /\ S \cup {b} \in SUBSET Blocks BY <6>1, Zenon
          <6> QED BY <5>2, <6>2, Zenon
        <5>3. ASSUME NEW a \in F[Parent[b]] PROVE a \in F[b]
          <6>1. SUFFICES ASSUME NEW S \in SUBSET Blocks, b \in S, Closed(S) PROVE a \in S
            BY <5>1, <5>3, Zenon
          <6>2. Parent[b] \in S BY <4>2, <6>1, Zenon
          <6> QED BY <5>1, <5>3, <6>2, <6>1, Zenon
        <5>4. b \in F[b] BY Zenon
        <5> HIDE DEF F
        <5> QED BY <4>2, <5>2, <5>3, <5>4, Zenon
      <4> QED BY <4>1, <4>2, Zenon
    <3> HIDE DEF F
    <3>2. DOMAIN F = Blocks BY Zenon DEF F
    <3>3. F = [b \in Blocks |-> F[b]] BY <3>2, Zenon DEF F
    <3> QED BY <3>1, <3>3, Zenon
  <2> HIDE DEF F
  <2>2. \E f : f = [b \in Blocks |-> IF b = Genesis THEN {Genesis} ELSE {b} \cup f[Parent[b]]]
    <3>1. F = [b \in Blocks |-> IF b = Genesis THEN {Genesis} ELSE {b} \cup F[Parent[b]]]
      BY <2>1, Zenon
    <3> QED BY <3>1, Zenon
  <2> QED
    BY <2>2, Zenon DEF Ancestors
<1> QED
  BY <1>AncestorsDef, BlockAssumption, Zenon

\* A chain leads from its head to the genesis block.
LEMMA AncestorsType ==
    ASSUME Foundations
    PROVE  \A b \in Blocks : /\ Ancestors[b] \in SUBSET Blocks /\ IsFiniteSet(Ancestors[b])
                             /\ b \in Ancestors[b] /\ Genesis \in Ancestors[b]
<1> DEFINE S == {b \in Blocks : /\ Ancestors[b] \in SUBSET Blocks /\ IsFiniteSet(Ancestors[b])
                                /\ b \in Ancestors[b] /\ Genesis \in Ancestors[b]}
<1>1. Genesis \in S
  BY AncestorsStep, BlockAssumption DEF Foundations, SubsetsFinite
<1>2. ASSUME NEW b \in Blocks \ {Genesis}, Parent[b] \in S
      PROVE  b \in S
  <2>1. Ancestors[b] = {b} \cup Ancestors[Parent[b]]
    BY AncestorsStep, Zenon
  <2>2. Ancestors[b] \in SUBSET Blocks
    BY <1>2, <2>1, Zenon
  <2>3. IsFiniteSet(Ancestors[b])
    BY <2>2, BlockAssumption, Zenon DEF Foundations, SubsetsFinite
  <2> QED
    BY <1>2, <2>1, <2>2, <2>3, Zenon
<1> HIDE DEF S
<1>3. \A b \in Blocks : b \in S
  BY <1>1, <1>2, ChainInduction, Zenon
<1> QED
  BY <1>3, Zenon DEF S

\* The chain of an ancestor is part of the chain.
LEMMA AncestorsNest ==
    ASSUME Foundations
    PROVE  \A b \in Blocks : \A a \in Ancestors[b] : Ancestors[a] \subseteq Ancestors[b]
<1> DEFINE S == {b \in Blocks : \A a \in Ancestors[b] : Ancestors[a] \subseteq Ancestors[b]}
<1>1. Genesis \in S
  BY AncestorsStep, BlockAssumption, Zenon
<1>2. ASSUME NEW b \in Blocks \ {Genesis}, Parent[b] \in S
      PROVE  b \in S
  <2>1. Ancestors[b] = {b} \cup Ancestors[Parent[b]]
    BY AncestorsStep, Zenon
  <2> QED
    BY <1>2, <2>1, Zenon
<1> HIDE DEF S
<1>3. \A b \in Blocks : b \in S
  BY <1>1, <1>2, ChainInduction, Zenon
<1> QED
  BY <1>3, Zenon DEF S

\* A chain has exactly one block of every number up to that of its head.
LEMMA AncestorNumbers ==
    ASSUME Foundations
    PROVE  \A b \in Blocks :
               /\ \A a \in Ancestors[b] : Number[a] <= Number[b] /\ (a # b => Number[a] < Number[b])
               /\ \A a, c \in Ancestors[b] : Number[a] = Number[c] => a = c
               /\ \A n \in 0..Number[b] : \E a \in Ancestors[b] : Number[a] = n
<1> DEFINE S == {b \in Blocks :
                   /\ \A a \in Ancestors[b] : Number[a] <= Number[b] /\ (a # b => Number[a] < Number[b])
                   /\ \A a, c \in Ancestors[b] : Number[a] = Number[c] => a = c
                   /\ \A n \in 0..Number[b] : \E a \in Ancestors[b] : Number[a] = n}
<1>1. Genesis \in S
  <2>1. Number[Genesis] = 0 /\ Ancestors[Genesis] = {Genesis} /\ Genesis \in Blocks
    BY AncestorsStep, BlockAssumption, Zenon
  <2> QED
    BY <2>1
<1>2. ASSUME NEW b \in Blocks \ {Genesis}, Parent[b] \in S
      PROVE  b \in S
  <2>1. Ancestors[b] = {b} \cup Ancestors[Parent[b]]
    BY AncestorsStep, Zenon
  <2>2. /\ Number[b] = Number[Parent[b]] + 1 /\ Number[Parent[b]] \in Nat /\ Number[b] \in Nat
        /\ Parent[b] \in Blocks
    BY BlockAssumption, Zenon
  <2>3. ASSUME NEW a \in Ancestors[Parent[b]]
        PROVE  Number[a] \in Nat /\ Number[a] <= Number[Parent[b]] /\ Number[a] < Number[b]
    <3>1. a \in Blocks
      BY <2>2, <2>3, AncestorsType, Zenon
    <3>2. Number[a] \in Nat
      BY <3>1, BlockAssumption, Zenon
    <3>3. Number[a] <= Number[Parent[b]]
      BY <1>2, <2>3, Zenon
    <3> QED
      BY <2>2, <3>2, <3>3
  <2>4. \A a \in Ancestors[b] : Number[a] <= Number[b] /\ (a # b => Number[a] < Number[b])
    BY <2>1, <2>2, <2>3
  <2>5. ASSUME NEW a \in Ancestors[b], NEW c \in Ancestors[b], Number[a] = Number[c]
        PROVE  a = c
    <3>1. a = b <=> c = b
      BY <2>1, <2>2, <2>3, <2>5
    <3> QED
      BY <1>2, <2>1, <2>5, <3>1, Zenon
  <2>6. ASSUME NEW n \in 0..Number[b]
        PROVE  \E a \in Ancestors[b] : Number[a] = n
    <3>1. CASE n = Number[b]
      BY <2>1, <3>1, Zenon
    <3>2. CASE n \in 0..Number[Parent[b]]
      BY <1>2, <2>1, <3>2, Zenon
    <3> QED
      BY <2>2, <3>1, <3>2
  <2> QED
    BY <2>4, <2>5, <2>6, Zenon
<1> HIDE DEF S
<1>3. \A b \in Blocks : b \in S
  BY <1>1, <1>2, ChainInduction, Zenon
<1> QED
  BY <1>3, Zenon DEF S

\* Every block of a chain but its head has a child in it.
LEMMA AncestorsLinked ==
    ASSUME Foundations
    PROVE  \A b \in Blocks :
               /\ \A a \in Ancestors[b] \ {Genesis} : Parent[a] \in Ancestors[b]
               /\ \A a \in Ancestors[b] \ {b} : \E c \in Ancestors[b] \ {Genesis} : Parent[c] = a
<1> DEFINE S == {b \in Blocks :
        /\ \A a \in Ancestors[b] \ {Genesis} : Parent[a] \in Ancestors[b]
        /\ \A a \in Ancestors[b] \ {b} : \E c \in Ancestors[b] \ {Genesis} : Parent[c] = a}
<1>1. Genesis \in S
  BY AncestorsStep, BlockAssumption, Zenon
<1>2. ASSUME NEW b \in Blocks \ {Genesis}, Parent[b] \in S
      PROVE  b \in S
  <2>1. Ancestors[b] = {b} \cup Ancestors[Parent[b]] /\ Parent[b] \in Blocks
    BY AncestorsStep, BlockAssumption, Zenon
  <2>2. Parent[b] \in Ancestors[Parent[b]]
    BY <2>1, AncestorsType, Zenon
  <2>3. \A a \in Ancestors[b] \ {Genesis} : Parent[a] \in Ancestors[b]
    BY <1>2, <2>1, <2>2, Zenon
  <2>4. \A a \in Ancestors[b] \ {b} : \E c \in Ancestors[b] \ {Genesis} : Parent[c] = a
    BY <1>2, <2>1, <2>2, Zenon
  <2> QED
    BY <2>3, <2>4, Zenon
<1> HIDE DEF S
<1>3. \A b \in Blocks : b \in S
  BY <1>1, <1>2, ChainInduction, Zenon
<1> QED
  BY <1>3, Zenon DEF S

\* The plan s contains the write op of a.
Has(s, op, a) == \E i \in DOMAIN s : s[i].op = op /\ s[i].arg = a

\* A plan made of two contains what either contains.
LEMMA HasConcatenation ==
    ASSUME NEW u \in Seq(Puts), NEW w \in Seq(Puts), NEW op, NEW a
    PROVE  Has(u \o w, op, a) <=> Has(u, op, a) \/ Has(w, op, a)
<1>1. ASSUME Has(u \o w, op, a)
      PROVE  Has(u, op, a) \/ Has(w, op, a)
  <2>1. PICK q \in DOMAIN (u \o w) : (u \o w)[q].op = op /\ (u \o w)[q].arg = a
    BY <1>1, Zenon DEF Has
  <2>2. CASE q \in DOMAIN u
    BY <2>1, <2>2, Concatenation DEF Has
  <2>3. CASE q - Len(u) \in DOMAIN w
    <3>1. q = Len(u) + (q - Len(u))
      BY <2>1, Concatenation
    <3>2. (u \o w)[q] = w[q - Len(u)]
      BY <2>3, <3>1, Concatenation
    <3> QED
      BY <2>1, <2>3, <3>2, Zenon DEF Has
  <2> QED
    BY <2>1, <2>2, <2>3, Concatenation, Zenon
<1>2. ASSUME Has(u, op, a)
      PROVE  Has(u \o w, op, a)
  BY <1>2, Concatenation DEF Has
<1>3. ASSUME Has(w, op, a)
      PROVE  Has(u \o w, op, a)
  <2>1. PICK q \in DOMAIN w : w[q].op = op /\ w[q].arg = a
    BY <1>3, Zenon DEF Has
  <2>2. (u \o w)[Len(u) + q] = w[q] /\ Len(u) + q \in DOMAIN (u \o w)
    BY <2>1, Concatenation, Zenon
  <2> QED
    BY <2>1, <2>2, Zenon DEF Has
<1> QED
  BY <1>1, <1>2, <1>3, Zenon

\* The empty plan contains no write.
LEMMA HasNothing ==
    ASSUME NEW op, NEW a
    PROVE  ~Has(<<>>, op, a)
  BY DEF Has

\* A plan contains its first write and what the rest contains.
LEMMA HasHeadTail ==
    ASSUME NEW s \in Seq(Puts), s # <<>>, NEW op, NEW a
    PROVE  /\ Tail(s) \in Seq(Puts) /\ Head(s) \in Puts
           /\ Has(s, op, a) <=> (Head(s).op = op /\ Head(s).arg = a) \/ Has(Tail(s), op, a)
<1>1. /\ Tail(s) \in Seq(Puts) /\ Head(s) \in Puts /\ Head(s) = s[1] /\ 1 \in DOMAIN s
      /\ \A i \in DOMAIN Tail(s) : i + 1 \in DOMAIN s /\ Tail(s)[i] = s[i + 1]
      /\ \A i \in DOMAIN s \ {1} : i - 1 \in DOMAIN Tail(s) /\ Tail(s)[i - 1] = s[i]
  OBVIOUS
<1>2. ASSUME Has(s, op, a), ~(Head(s).op = op /\ Head(s).arg = a)
      PROVE  Has(Tail(s), op, a)
  <2>1. PICK i \in DOMAIN s : s[i].op = op /\ s[i].arg = a
    BY <1>2, Zenon DEF Has
  <2>2. i # 1
    BY <1>1, <1>2, <2>1, Zenon
  <2> QED
    BY <1>1, <2>1, <2>2, Zenon DEF Has
<1>3. ASSUME Has(Tail(s), op, a)
      PROVE  Has(s, op, a)
  <2>1. PICK i \in DOMAIN Tail(s) : Tail(s)[i].op = op /\ Tail(s)[i].arg = a
    BY <1>3, Zenon DEF Has
  <2> QED
    BY <1>1, <2>1, Zenon DEF Has
<1>4. ASSUME Head(s).op = op, Head(s).arg = a
      PROVE  Has(s, op, a)
  BY <1>1, <1>4, Zenon DEF Has
<1> QED
  BY <1>1, <1>2, <1>3, <1>4, Zenon

\* A plan joined from several contains what they contain.
LEMMA HasJoined ==
    ASSUME Foundations, NEW ss \in Seq(Seq(Puts)), NEW op, NEW a
    PROVE  Has(Joined(ss), op, a) <=> \E m \in DOMAIN ss : Has(ss[m], op, a)
<1>1. ASSUME Has(Joined(ss), op, a)
      PROVE  \E m \in DOMAIN ss : Has(ss[m], op, a)
  <2>1. PICK q \in DOMAIN Joined(ss) : Joined(ss)[q].op = op /\ Joined(ss)[q].arg = a
    BY <1>1, Zenon DEF Has
  <2>2. PICK m \in DOMAIN ss : \E k \in DOMAIN ss[m] : Follows(Joined(ss), q, ss[m], k)
    BY <2>1, JoinedProperties, Zenon
  <2>3. PICK k \in DOMAIN ss[m] : Follows(Joined(ss), q, ss[m], k)
    BY <2>2, Zenon
  <2>4. Joined(ss)[q] = ss[m][k]
    BY <2>3, Zenon DEF Follows
  <2> QED
    BY <2>1, <2>2, <2>3, <2>4, Zenon DEF Has
<1>2. ASSUME NEW m \in DOMAIN ss, Has(ss[m], op, a)
      PROVE  Has(Joined(ss), op, a)
  <2>1. PICK k \in DOMAIN ss[m] : ss[m][k].op = op /\ ss[m][k].arg = a
    BY <1>2, Zenon DEF Has
  <2>2. PICK q \in DOMAIN Joined(ss) : Joined(ss)[q] = ss[m][k]
    BY <2>1, JoinedProperties, Zenon
  <2> QED
    BY <2>1, <2>2, Zenon DEF Has
<1> QED
  BY <1>1, <1>2, Zenon

\* The writes that Put makes.
LEMMA PutType ==
    /\ \A op \in BlockOps, b \in Blocks : Put(op, b) \in Puts
    /\ \A n \in Heights : Put("uncanon", n) \in Puts
    /\ \A t \in Txs : Put("unindex", t) \in Puts
    /\ \A op, a : Put(op, a).op = op /\ Put(op, a).arg = a
  BY Zenon DEF Put, Puts

\* A plan of one write makes that write.
LEMMA HasOne ==
    \A o, b, op, a : Has(<<Put(o, b)>>, op, a) <=> op = o /\ a = b
  BY PutType DEF Has

\* No write is a plan, and no block a batch.
LEMMA EmptySequence ==
    \A X : <<>> \in Seq(X)
  OBVIOUS

\* The number before the next one.
LEMMA StepBack ==
    \A k \in Nat : (k + 1) - 1 = k
  OBVIOUS

\* Where the elements of a sequence are in its tail.
LEMMA TailPositions ==
    ASSUME NEW X, NEW w \in Seq(X), w # <<>>
    PROVE  /\ 1 \in DOMAIN w
           /\ \A j \in DOMAIN Tail(w) : j \in Nat /\ j + 1 \in DOMAIN w /\ Tail(w)[j] = w[j + 1]
           /\ \A i \in DOMAIN w \ {1} : i - 1 \in DOMAIN Tail(w) /\ Tail(w)[i - 1] = w[i]
  OBVIOUS

\* A function on the positions of a sequence is a sequence.
LEMMA SequenceOfValues ==
    ASSUME NEW X, NEW s \in Seq(X), NEW Y, NEW f \in [DOMAIN s -> Y]
    PROVE  f \in Seq(Y) /\ DOMAIN f = DOMAIN s
  OBVIOUS

\* Descending puts blocks of one chain in the order of falling numbers.
LEMMA DescendingOrder ==
    ASSUME Foundations, NEW b \in Blocks, NEW S \in SUBSET Ancestors[b]
    PROVE  /\ IsFiniteSet(S) /\ Descending(S) \in Orders(S)
           /\ \A i, j \in DOMAIN Descending(S) :
                 i < j => Number[Descending(S)[i]] > Number[Descending(S)[j]]
<1> DEFINE key == [e \in S |-> Number[e]]
<1>1. S \in SUBSET Blocks /\ IsFiniteSet(S)
  BY AncestorsType, Zenon DEF Foundations, SubsetsFinite
<1>2. key \in [S -> Nat] /\ \A e, f \in S : key[e] = key[f] => e = f
  <2>1. \A e \in S : Number[e] \in Nat
    BY <1>1, BlockAssumption, Zenon
  <2> QED
    BY <2>1, AncestorNumbers, Zenon
<1> HIDE DEF key
<1>3. PICK s \in Orders(S) : \A i, j \in DOMAIN s : i < j => key[s[i]] > key[s[j]]
  BY <1>1, <1>2, Zenon DEF Foundations, Sortable
<1>4. \A i \in DOMAIN s : s[i] \in S
  BY <1>1, <1>3, OrderProperties, Zenon
<1>5. \A i, j \in DOMAIN s : i < j => Number[s[i]] > Number[s[j]]
  BY <1>3, <1>4, Zenon DEF key
<1> QED
  BY <1>1, <1>3, <1>5, Zenon DEF Descending

\* DescendingNumbers puts numbers in some order.
LEMMA DescendingNumbersOrder ==
    ASSUME Foundations, NEW S \in SUBSET Heights
    PROVE  IsFiniteSet(S) /\ DescendingNumbers(S) \in Orders(S)
<1> DEFINE key == [e \in S |-> e]
<1>2. IsFiniteSet(S)
  BY Zenon DEF Foundations, SubsetsFinite
<1>3. S \in SUBSET Nat
  BY BlockAssumption DEF Heights
<1>4. key \in [S -> Nat] /\ \A e, f \in S : key[e] = key[f] => e = f
  BY <1>3, Zenon
<1> HIDE DEF key
<1>5. PICK s \in Orders(S) : \A i, j \in DOMAIN s : i < j => key[s[i]] > key[s[j]]
  BY <1>2, <1>4, Zenon DEF Foundations, Sortable
<1>6. \A i \in DOMAIN s : s[i] \in S
  BY <1>2, <1>5, OrderProperties, Zenon
<1>7. \A i, j \in DOMAIN s : i < j => s[i] > s[j]
  BY <1>5, <1>6, Zenon DEF key
<1> QED
  BY <1>2, <1>5, <1>7, Zenon DEF DescendingNumbers

\* The plan s contains the write op of a before its position j.
Before(s, j, op, a) == \E i \in 1..(j - 1) : s[i].op = op /\ s[i].arg = a

\* Whenever the plan s makes one of the writes ops of something, it has made the
\* write first of it before.
Guarded(s, ops, first) == \A j \in DOMAIN s : s[j].op \in ops => Before(s, j, first, s[j].arg)

\* The last write op of the plan s is that of a.
Ends(s, op, a) == \E j \in DOMAIN s : /\ s[j].op = op /\ s[j].arg = a
                                      /\ \A k \in DOMAIN s : k > j => s[k].op # op

\* What WriteBlock writes for b if it finds its parent and both chains.
BlockPlan(b) == (IF Heavier(b) THEN InsertHead(b) ELSE <<>>) \o StoreBlock(b)

\* Plans that make one write after another do so when put together.
LEMMA GuardedConcatenation ==
    ASSUME NEW u \in Seq(Puts), NEW w \in Seq(Puts), NEW ops, NEW first,
           Guarded(u, ops, first), Guarded(w, ops, first)
    PROVE  Guarded(u \o w, ops, first)
<1>1. SUFFICES ASSUME NEW j \in DOMAIN (u \o w), (u \o w)[j].op \in ops
               PROVE  Before(u \o w, j, first, (u \o w)[j].arg)
  BY Zenon DEF Guarded
<1>2. CASE j \in DOMAIN u
  <2>1. (u \o w)[j] = u[j]
    BY <1>2, Concatenation
  <2>2. PICK i \in 1..(j - 1) : u[i].op = first /\ u[i].arg = u[j].arg
    BY <1>1, <1>2, <2>1, Zenon DEF Guarded, Before
  <2>3. i \in DOMAIN u
    BY <1>2, <2>2, Concatenation
  <2>4. (u \o w)[i] = u[i]
    BY <2>3, Concatenation
  <2> QED
    BY <2>1, <2>2, <2>4, Zenon DEF Before
<1>3. CASE j - Len(u) \in DOMAIN w
  <2> DEFINE k == j - Len(u)
  <2>1. j = Len(u) + k /\ Len(u) \in Nat /\ k \in Nat
    BY <1>3, Concatenation
  <2>2. (u \o w)[j] = w[k]
    BY <1>3, <2>1, Concatenation
  <2>3. PICK i \in 1..(k - 1) : w[i].op = first /\ w[i].arg = w[k].arg
    BY <1>1, <1>3, <2>2, Zenon DEF Guarded, Before
  <2>4. i \in DOMAIN w /\ Len(u) + i \in 1..(j - 1)
    <3>1. DOMAIN w = 1..Len(w) /\ Len(w) \in Nat
      BY Concatenation, Zenon
    <3>2. i \in Nat /\ 1 <= i /\ i < k
      BY <2>1, <2>3
    <3>3. k <= Len(w)
      BY <1>3, <2>1, <3>1
    <3> QED
      BY <2>1, <3>1, <3>2, <3>3
  <2>5. (u \o w)[Len(u) + i] = w[i]
    BY <2>4, SecondPart, Zenon
  <2> QED
    BY <2>2, <2>3, <2>4, <2>5, Zenon DEF Before
<1> QED
  BY <1>1, <1>2, <1>3, Concatenation, Zenon

\* A plan without the later writes makes none too early.
LEMMA GuardedWithout ==
    ASSUME NEW s \in Seq(Puts), NEW ops, NEW first, \A op \in ops : \A a : ~Has(s, op, a)
    PROVE  Guarded(s, ops, first)
  BY ZenonT(30) DEF Guarded, Has

\* The new chain is part of the chain of b, and no more than b if b extends the head.
LEMMA NewChainOfChild ==
    ASSUME Foundations, NEW b \in Blocks \ {Genesis}, currentBlock \in Blocks
    PROVE  /\ NewChain(b) \in SUBSET Ancestors[b] /\ Ancestors[b] \in SUBSET Blocks /\ b \in Ancestors[b]
           /\ Parent[b] = currentBlock => NewChain(b) \subseteq {b}
  BY AncestorsStep, AncestorsType DEF NewChain

\* What WriteBlock writes in all: the block only after its total difficulty and
\* body, and if the block is heavier than the head what makes it the head.
LEMMA BlockPlanProperties ==
    ASSUME Foundations, NEW top \in Blocks \ {Genesis}, currentBlock \in Blocks
    PROVE  /\ BlockPlan(top) \in Seq(Puts)
           /\ \A op, a : Has(BlockPlan(top), op, a) =>
                 \/ a = top /\ op \in {"td", "body", "header", "unfuture"}
                 \/ /\ Heavier(top) /\ a \in NewChain(top) \cup {top}
                    /\ op \in {"canon", "headBlock", "headHeader", "headFast", "index"}
                 \/ /\ Heavier(top) /\ Parent[top] # currentBlock
                    /\ op = "unindex" /\ a \in DroppedTxs(top)
           /\ \A op \in {"td", "body", "header"} : Has(BlockPlan(top), op, top)
           /\ Guarded(BlockPlan(top), {"header"}, "td") /\ Guarded(BlockPlan(top), {"header"}, "body")
           /\ Heavier(top) =>
                 /\ \A a \in NewChain(top) \cup {top} : Has(BlockPlan(top), "canon", a)
                 /\ Has(BlockPlan(top), "headBlock", top) /\ Ends(BlockPlan(top), "headBlock", top)
                 /\ Parent[top] # currentBlock =>
                       /\ \A a \in NewChain(top) : Has(BlockPlan(top), "index", a)
                       /\ \A t \in DroppedTxs(top) : Has(BlockPlan(top), "unindex", t)
\* What insert(block) writes: the canonical number and the head block, and the head
\* header and the head fast block if the canonical block of its number is another.
<1>InsertPlan. ASSUME NEW b \in Blocks
               PROVE  /\ Insert(b) \in Seq(Puts)
                      /\ \A op, a : Has(Insert(b), op, a) <=>
                            /\ a = b
                            /\ op \in {"canon", "headBlock"}
                                 \/ (op \in {"headHeader", "headFast"} /\ canon[Number[b]] # b)
  <2> DEFINE first == <<Put("canon", b), Put("headBlock", b)>>
             second == IF canon[Number[b]] # b THEN <<Put("headHeader", b), Put("headFast", b)>> ELSE <<>>
  <2>1. /\ Put("canon", b) \in Puts /\ Put("headBlock", b) \in Puts
        /\ Put("headHeader", b) \in Puts /\ Put("headFast", b) \in Puts
    BY PutType, Zenon DEF BlockOps
  <2>2. first \in Seq(Puts) /\ second \in Seq(Puts)
    BY <2>1
  <2>3. ASSUME NEW op, NEW a
        PROVE  Has(first, op, a) <=> a = b /\ op \in {"canon", "headBlock"}
    BY PutType DEF Has
  <2>4. ASSUME NEW op, NEW a
        PROVE  Has(second, op, a) <=> a = b /\ op \in {"headHeader", "headFast"} /\ canon[Number[b]] # b
    BY PutType DEF Has
  <2>5. Insert(b) = first \o second
    BY Zenon DEF Insert
  <2> HIDE DEF first, second
  <2>6. first \o second \in Seq(Puts)
    BY <2>2
  <2>7. ASSUME NEW op, NEW a
        PROVE  Has(Insert(b), op, a) <=> Has(first, op, a) \/ Has(second, op, a)
    BY <2>2, <2>5, HasConcatenation
  <2> QED
    BY <2>3, <2>4, <2>5, <2>6, <2>7, Zenon
\* What reorg writes: it inserts and indexes the new chain, and takes the
\* transactions of the old chain that the new one has not out of the index.
<1>ReorgPlan. ASSUME Foundations, NEW b \in Blocks, currentBlock \in Blocks
              PROVE  /\ Reorg(b) \in Seq(Puts)
                     /\ \A op, a : Has(Reorg(b), op, a) <=>
                           \/ a \in NewChain(b) /\ (op = "index" \/ Has(Insert(a), op, a))
                           \/ op = "unindex" /\ a \in DroppedTxs(b)
  <2> USE <1>ReorgPlan
  <2> DEFINE new == Descending(NewChain(b))
             old == CHOOSE s \in Orders(DroppedTxs(b)) : TRUE
             ss == [i \in DOMAIN new |-> Append(Insert(new[i]), Put("index", new[i]))]
             tt == [i \in DOMAIN old |-> <<Put("unindex", old[i])>>]
  <2>1. NewChain(b) \in SUBSET Ancestors[b] /\ NewChain(b) \in SUBSET Blocks
    BY AncestorsType, Zenon DEF NewChain
  <2>2. /\ new \in Seq(NewChain(b)) /\ \A i \in DOMAIN new : new[i] \in NewChain(b)
        /\ \A e \in NewChain(b) : \E i \in DOMAIN new : new[i] = e
    BY <2>1, DescendingOrder, OrderProperties
  <2>3. DroppedTxs(b) \in SUBSET Txs /\ IsFiniteSet(DroppedTxs(b))
    <3>1. OldChain(b) \in SUBSET Blocks
      BY AncestorsType, Zenon DEF OldChain
    <3>2. DroppedTxs(b) \in SUBSET Txs
      BY <3>1, BlockAssumption DEF DroppedTxs
    <3> QED
      BY <3>2, BlockAssumption, Zenon DEF Foundations, SubsetsFinite
  <2>4. old \in Orders(DroppedTxs(b))
    BY <2>3, Zenon DEF Foundations, Orderable
  <2>5. /\ old \in Seq(DroppedTxs(b)) /\ \A i \in DOMAIN old : old[i] \in DroppedTxs(b)
        /\ \A e \in DroppedTxs(b) : \E i \in DOMAIN old : old[i] = e
    BY <2>3, <2>4, OrderProperties, Zenon
  <2>6. Reorg(b) = Joined(ss) \o Joined(tt)
    BY Zenon DEF Reorg, Expand
  <2>7. ASSUME NEW c \in Blocks
        PROVE  /\ Append(Insert(c), Put("index", c)) \in Seq(Puts)
               /\ \A op, a : Has(Append(Insert(c), Put("index", c)), op, a) <=>
                     a = c /\ (op = "index" \/ Has(Insert(c), op, a))
    <3>1. Insert(c) \in Seq(Puts) /\ Put("index", c) \in Puts
      BY <1>InsertPlan, PutType, Zenon DEF BlockOps
    <3>2. <<Put("index", c)>> \in Seq(Puts) /\ Append(Insert(c), Put("index", c)) = Insert(c) \o <<Put("index", c)>>
      BY <3>1
    <3>3. \A op, a : Has(<<Put("index", c)>>, op, a) <=> op = "index" /\ a = c
      BY PutType DEF Has
    <3>4. \A op, a : Has(Insert(c) \o <<Put("index", c)>>, op, a) <=>
                        Has(Insert(c), op, a) \/ Has(<<Put("index", c)>>, op, a)
      BY <3>1, <3>2, HasConcatenation, Zenon
    <3>5. \A op, a : Has(Insert(c), op, a) => a = c
      BY <1>InsertPlan, Zenon
    <3>6. Append(Insert(c), Put("index", c)) \in Seq(Puts)
      BY <3>1
    <3>7. \A op, a : Has(Append(Insert(c), Put("index", c)), op, a) <=>
                        Has(Insert(c), op, a) \/ (op = "index" /\ a = c)
      BY <3>2, <3>3, <3>4, Zenon
    <3> HIDE DEF ss, tt, new, old
    <3>8. \A op, a : Has(Append(Insert(c), Put("index", c)), op, a) <=>
                        a = c /\ (op = "index" \/ Has(Insert(c), op, a))
      BY <3>5, <3>7, Zenon
    <3> QED
      BY <3>6, <3>8, Zenon
  <2>8. ss \in Seq(Seq(Puts)) /\ DOMAIN ss = DOMAIN new
    <3>1. ss \in [DOMAIN new -> Seq(Puts)]
      BY <2>1, <2>2, <2>7, Zenon
    <3> QED
      BY <2>2, <3>1, SequenceOfValues, Zenon
  <2>9. ASSUME NEW t \in Txs
        PROVE  /\ <<Put("unindex", t)>> \in Seq(Puts)
               /\ \A op, a : Has(<<Put("unindex", t)>>, op, a) <=> op = "unindex" /\ a = t
    BY PutType DEF Has
  <2>10. tt \in Seq(Seq(Puts)) /\ DOMAIN tt = DOMAIN old
    <3>1. tt \in [DOMAIN old -> Seq(Puts)]
      BY <2>3, <2>5, <2>9, ZenonT(30)
    <3> QED
      BY <2>5, <3>1, SequenceOfValues, Zenon
  <2>11. Joined(ss) \in Seq(Puts) /\ Joined(tt) \in Seq(Puts)
    <3> HIDE DEF ss, tt
    <3> QED
      BY <2>8, <2>10, JoinedProperties, Zenon
  <2>12. ASSUME NEW op, NEW a
         PROVE  Has(Joined(ss), op, a) <=> a \in NewChain(b) /\ (op = "index" \/ Has(Insert(a), op, a))
    <3>1. Has(Joined(ss), op, a) <=> \E m \in DOMAIN ss : Has(ss[m], op, a)
      <4> HIDE DEF ss
      <4> QED
        BY <2>8, HasJoined, Zenon
    <3>2. \A m \in DOMAIN new : Has(ss[m], op, a) <=> a = new[m] /\ (op = "index" \/ Has(Insert(a), op, a))
      BY <2>1, <2>2, <2>7
    <3> HIDE DEF ss, new
    <3> QED
      BY <2>2, <2>8, <3>1, <3>2, ZenonT(40)
  <2>13. ASSUME NEW op, NEW a
         PROVE  Has(Joined(tt), op, a) <=> op = "unindex" /\ a \in DroppedTxs(b)
    <3>1. Has(Joined(tt), op, a) <=> \E m \in DOMAIN tt : Has(tt[m], op, a)
      <4> HIDE DEF tt
      <4> QED
        BY <2>10, HasJoined, Zenon
    <3>2. \A m \in DOMAIN old : Has(tt[m], op, a) <=> op = "unindex" /\ a = old[m]
      BY <2>3, <2>5, <2>9, Zenon
    <3> HIDE DEF tt, old
    <3> QED
      BY <2>5, <2>10, <3>1, <3>2, Zenon
  <2> HIDE DEF ss, tt
  <2>14. Reorg(b) \in Seq(Puts)
    BY <2>6, <2>11
  <2>15. \A op, a : Has(Reorg(b), op, a) <=> Has(Joined(ss), op, a) \/ Has(Joined(tt), op, a)
    BY <2>6, <2>11, HasConcatenation
  <2> QED
    BY <2>12, <2>13, <2>14, <2>15, Zenon
\* The last write of a kind in a plan made of two.
<1>EndsConcatenation. ASSUME NEW u \in Seq(Puts), NEW w \in Seq(Puts), NEW op, NEW a
                      PROVE  /\ Ends(w, op, a) => Ends(u \o w, op, a)
                             /\ Ends(u, op, a) /\ (\A e : ~Has(w, op, e)) => Ends(u \o w, op, a)
  <2>1. ASSUME Ends(w, op, a)
        PROVE  Ends(u \o w, op, a)
    <3>1. PICK j \in DOMAIN w : /\ w[j].op = op /\ w[j].arg = a
                                /\ \A k \in DOMAIN w : k > j => w[k].op # op
      BY <2>1, Zenon DEF Ends
    <3>2. (u \o w)[Len(u) + j] = w[j] /\ Len(u) + j \in DOMAIN (u \o w)
      BY <3>1, Concatenation, Zenon
    <3>3. ASSUME NEW k \in DOMAIN (u \o w), k > Len(u) + j
          PROVE  (u \o w)[k].op # op
      <4>1. Len(u) \in Nat /\ j \in Nat /\ DOMAIN u = 1..Len(u) /\ DOMAIN w = 1..Len(w) /\ Len(w) \in Nat
            /\ k \in 1..(Len(u) + Len(w))
        BY <3>1, <3>3, Concatenation
      <4>2. k - Len(u) > j /\ k - Len(u) \in DOMAIN w /\ k = Len(u) + (k - Len(u))
        BY <3>1, <3>3, <4>1
      <4>3. (u \o w)[k] = w[k - Len(u)]
        BY <4>2, Concatenation
      <4> QED
        BY <3>1, <4>2, <4>3, Zenon
    <3> QED
      BY <3>1, <3>2, <3>3, Zenon DEF Ends
  <2>2. ASSUME Ends(u, op, a), \A e : ~Has(w, op, e)
        PROVE  Ends(u \o w, op, a)
    <3>1. PICK j \in DOMAIN u : /\ u[j].op = op /\ u[j].arg = a
                                /\ \A k \in DOMAIN u : k > j => u[k].op # op
      BY <2>2, Zenon DEF Ends
    <3>2. (u \o w)[j] = u[j] /\ j \in DOMAIN (u \o w)
      BY <3>1, Concatenation, Zenon
    <3>3. ASSUME NEW k \in DOMAIN (u \o w), k > j
          PROVE  (u \o w)[k].op # op
      <4>1. CASE k \in DOMAIN u
        BY <3>1, <3>3, <4>1, Concatenation
      <4>2. CASE k - Len(u) \in DOMAIN w
        <5>1. k = Len(u) + (k - Len(u))
          BY <3>3, Concatenation
        <5>2. (u \o w)[k] = w[k - Len(u)]
          BY <4>2, <5>1, Concatenation
        <5>3. \A i \in DOMAIN w : w[i].op # op
          BY <2>2, Zenon DEF Has
        <5> QED
          BY <4>2, <5>2, <5>3, Zenon
      <4> QED
        BY <3>3, <4>1, <4>2, Concatenation, Zenon
    <3> QED
      BY <3>1, <3>2, <3>3, Zenon DEF Ends
  <2> QED
    BY <2>1, <2>2, Zenon
\* What WriteBlock writes to make b the head, after reorg if b does not extend it:
\* every block of the new chain becomes canonical, and the last head written is b.
<1>InsertHeadPlan. ASSUME Foundations, NEW b \in Blocks \ {Genesis}, currentBlock \in Blocks
                   PROVE  /\ InsertHead(b) \in Seq(Puts)
                          /\ \A op, a : Has(InsertHead(b), op, a) =>
                                \/ /\ a \in NewChain(b) \cup {b}
                                   /\ op \in {"canon", "headBlock", "headHeader", "headFast", "index"}
                                \/ op = "unindex" /\ a \in DroppedTxs(b) /\ Parent[b] # currentBlock
                          /\ \A a \in NewChain(b) \cup {b} : Has(InsertHead(b), "canon", a)
                          /\ Parent[b] # currentBlock =>
                                /\ \A a \in NewChain(b) : Has(InsertHead(b), "index", a)
                                /\ \A t \in DroppedTxs(b) : Has(InsertHead(b), "unindex", t)
                          /\ Ends(InsertHead(b), "headBlock", b)
  <2> USE <1>InsertHeadPlan
  <2> DEFINE last == <<Put("canon", b), Put("headBlock", b)>>
  <2>1. /\ Insert(b) \in Seq(Puts)
        /\ \A op, a : Has(Insert(b), op, a) <=>
                   /\ a = b
                   /\ op \in {"canon", "headBlock"}
                        \/ (op \in {"headHeader", "headFast"} /\ canon[Number[b]] # b)
    BY <1>InsertPlan, Zenon
  <2>2. /\ last \in Seq(Puts) /\ DOMAIN last = 1..2 /\ last[1] = Put("canon", b) /\ last[2] = Put("headBlock", b)
        /\ \A op, a : Has(last, op, a) <=> a = b /\ op \in {"canon", "headBlock"}
        /\ Ends(last, "headBlock", b)
    <3>1. Put("canon", b) \in Puts /\ Put("headBlock", b) \in Puts
      BY PutType, Zenon DEF BlockOps
    <3>2. last \in Seq(Puts) /\ DOMAIN last = 1..2 /\ last[1] = Put("canon", b) /\ last[2] = Put("headBlock", b)
      BY <3>1
    <3>3. \A op, a : Has(last, op, a) <=> a = b /\ op \in {"canon", "headBlock"}
      BY <3>2, PutType DEF Has
    <3>4. Ends(last, "headBlock", b)
      BY <3>2, PutType DEF Ends
    <3> QED
      BY <3>2, <3>3, <3>4, Zenon
  <2> HIDE DEF last
  <2>3. CASE Parent[b] = currentBlock
    <3>1. InsertHead(b) = Insert(b)
      BY <2>3, Zenon DEF InsertHead
    <3>2. NewChain(b) \subseteq {b}
      BY <2>3, NewChainOfChild, Zenon
    <3>3. Ends(Insert(b), "headBlock", b)
      <4> DEFINE rest == IF canon[Number[b]] # b THEN <<Put("headHeader", b), Put("headFast", b)>> ELSE <<>>
      <4>1. Insert(b) = last \o rest
        BY Zenon DEF Insert, last
      <4>2. rest \in Seq(Puts) /\ \A e : ~Has(rest, "headBlock", e)
        <5>1. Put("headHeader", b) \in Puts /\ Put("headFast", b) \in Puts
          BY PutType, Zenon DEF BlockOps
        <5> QED
          BY <5>1, PutType DEF Has
      <4> HIDE DEF rest
      <4> QED
        BY <2>2, <4>1, <4>2, <1>EndsConcatenation, Zenon
    <3> QED
      BY <2>1, <2>3, <3>1, <3>2, <3>3, Zenon
  <2>4. CASE Parent[b] # currentBlock
    <3>1. InsertHead(b) = Reorg(b) \o last
      BY <2>4, Zenon DEF InsertHead, last
    <3>2. /\ Reorg(b) \in Seq(Puts)
          /\ \A op, a : Has(Reorg(b), op, a) <=>
                   \/ a \in NewChain(b) /\ (op = "index" \/ Has(Insert(a), op, a))
                   \/ op = "unindex" /\ a \in DroppedTxs(b)
      BY <1>ReorgPlan, Zenon
    <3>3. InsertHead(b) \in Seq(Puts)
      BY <2>2, <3>1, <3>2
    <3>4. \A op, a : Has(InsertHead(b), op, a) <=> Has(Reorg(b), op, a) \/ Has(last, op, a)
      BY <2>2, <3>1, <3>2, HasConcatenation
    <3>5. ASSUME NEW a \in NewChain(b)
          PROVE  /\ \A op : Has(Insert(a), op, a) => op \in {"canon", "headBlock", "headHeader", "headFast"}
                 /\ Has(Insert(a), "canon", a)
      <4>1. a \in Blocks
        BY NewChainOfChild, Zenon
      <4> QED
        BY <4>1, <1>InsertPlan, Zenon
    <3>6. \A op, a : Has(InsertHead(b), op, a) =>
                   \/ /\ a \in NewChain(b) \cup {b}
                      /\ op \in {"canon", "headBlock", "headHeader", "headFast", "index"}
                   \/ op = "unindex" /\ a \in DroppedTxs(b) /\ Parent[b] # currentBlock
      BY <2>2, <2>4, <3>2, <3>4, <3>5, Zenon
    <3>7. /\ \A a \in NewChain(b) \cup {b} : Has(InsertHead(b), "canon", a)
          /\ \A a \in NewChain(b) : Has(InsertHead(b), "index", a)
          /\ \A t \in DroppedTxs(b) : Has(InsertHead(b), "unindex", t)
      BY <2>2, <3>2, <3>4, <3>5, Zenon
    <3>8. Ends(InsertHead(b), "headBlock", b)
      BY <2>2, <3>1, <3>2, <1>EndsConcatenation
    <3> QED
      BY <3>3, <3>6, <3>7, <3>8, Zenon
  <2> QED
    BY <2>3, <2>4, Zenon
<1> DEFINE first == IF Heavier(top) THEN InsertHead(top) ELSE <<>>
<1>1. /\ StoreBlock(top) \in Seq(Puts) /\ DOMAIN StoreBlock(top) = 1..4
      /\ StoreBlock(top)[1].op = "td" /\ StoreBlock(top)[2].op = "body" /\ StoreBlock(top)[3].op = "header"
      /\ StoreBlock(top)[4].op = "unfuture" /\ \A i \in 1..4 : StoreBlock(top)[i].arg = top
  <2>1. Put("td", top) \in Puts /\ Put("body", top) \in Puts /\ Put("header", top) \in Puts /\ Put("unfuture", top) \in Puts
    BY PutType, Zenon DEF BlockOps
  <2> QED
    BY <2>1, PutType DEF StoreBlock
<1>2. \A op, a : Has(StoreBlock(top), op, a) <=> a = top /\ op \in {"td", "body", "header", "unfuture"}
  BY <1>1 DEF Has
<1>3. /\ first \in Seq(Puts)
      /\ \A op, a : Has(first, op, a) =>
                 \/ /\ Heavier(top) /\ a \in NewChain(top) \cup {top}
                    /\ op \in {"canon", "headBlock", "headHeader", "headFast", "index"}
                 \/ /\ Heavier(top) /\ Parent[top] # currentBlock
                    /\ op = "unindex" /\ a \in DroppedTxs(top)
  <2>1. CASE Heavier(top)
    BY <2>1, <1>InsertHeadPlan
  <2>2. CASE ~Heavier(top)
    BY <2>2, HasNothing
  <2> QED
    BY <2>1, <2>2, Zenon
<1>4. Heavier(top) => first = InsertHead(top)
  BY Zenon
<1>5. BlockPlan(top) = first \o StoreBlock(top)
  BY Zenon DEF BlockPlan
<1> HIDE DEF first
<1>6. BlockPlan(top) \in Seq(Puts)
  BY <1>1, <1>3, <1>5
<1>7. \A op, a : Has(BlockPlan(top), op, a) <=> Has(first, op, a) \/ Has(StoreBlock(top), op, a)
  BY <1>1, <1>3, <1>5, HasConcatenation
<1>8. Guarded(BlockPlan(top), {"header"}, "td") /\ Guarded(BlockPlan(top), {"header"}, "body")
  <2>1. Guarded(StoreBlock(top), {"header"}, "td") /\ Guarded(StoreBlock(top), {"header"}, "body")
    BY <1>1 DEF Guarded, Before
  <2>2. \A a : ~Has(first, "header", a)
    BY <1>3
  <2>3. Guarded(first, {"header"}, "td") /\ Guarded(first, {"header"}, "body")
    BY <1>3, <2>2, GuardedWithout, ZenonT(40)
  <2> QED
    BY <1>1, <1>3, <1>5, <2>1, <2>3, GuardedConcatenation, Zenon
<1>9. ASSUME Heavier(top)
      PROVE  /\ \A a \in NewChain(top) \cup {top} : Has(BlockPlan(top), "canon", a)
             /\ Ends(BlockPlan(top), "headBlock", top)
             /\ Parent[top] # currentBlock =>
                   /\ \A a \in NewChain(top) : Has(BlockPlan(top), "index", a)
                   /\ \A t \in DroppedTxs(top) : Has(BlockPlan(top), "unindex", t)
  <2>1. Ends(first, "headBlock", top) /\ \A e : ~Has(StoreBlock(top), "headBlock", e)
    BY <1>2, <1>4, <1>9, <1>InsertHeadPlan
  <2>2. Ends(BlockPlan(top), "headBlock", top)
    BY <1>1, <1>3, <1>5, <2>1, <1>EndsConcatenation, Zenon
  <2>3. /\ \A a \in NewChain(top) \cup {top} : Has(InsertHead(top), "canon", a)
        /\ Parent[top] # currentBlock =>
              /\ \A a \in NewChain(top) : Has(InsertHead(top), "index", a)
              /\ \A t \in DroppedTxs(top) : Has(InsertHead(top), "unindex", t)
    BY <1>InsertHeadPlan, Zenon
  <2>4. \A op, a : Has(InsertHead(top), op, a) => Has(BlockPlan(top), op, a)
    BY <1>4, <1>7, <1>9, Zenon
  <2> QED
    BY <2>2, <2>3, <2>4, Zenon
<1>10. Ends(BlockPlan(top), "headBlock", top) => Has(BlockPlan(top), "headBlock", top)
  BY Zenon DEF Ends, Has
<1>11. \A op \in {"td", "body", "header"} : Has(BlockPlan(top), op, top)
  BY <1>2, <1>7, Zenon
<1> QED
  BY <1>2, <1>3, <1>6, <1>7, <1>8, <1>9, <1>10, <1>11, ZenonT(30)

\* The blocks SetHead(n) deletes.
Dropped(n) == Passed(currentHeader, n, headers) \cup Passed(currentBlock, n, Stored)
                 \cup Passed(currentFast, n, Stored)

\* The numbers of which SetHead(n) deletes the canonical block.
Lowered(n) == {k \in Heights :
    k > n /\ \E h \in {Number[currentHeader], Number[currentBlock], Number[currentFast]} : k <= h}

\* What SetHead(n) writes, when it drops the blocks in the order drop.
HeadPlan(n, drop) ==
    Joined([i \in DOMAIN DescendingNumbers(Lowered(n)) |->
               <<Put("uncanon", DescendingNumbers(Lowered(n))[i])>>])
      \o Joined([i \in DOMAIN drop |-> DropBlock(drop[i])])
      \o << Put("headBlock", Rewound(currentBlock, n, Stored)),
            Put("headHeader", Rewound(currentHeader, n, headers)),
            Put("headFast", Rewound(currentFast, n, Stored)) >>

\* SetHead makes that plan.
LEMMA SetHeadPlan ==
    ASSUME NEW n \in Heights, SetHead(n)
    PROVE  \E drop \in Orders(Dropped(n)) : writes' = HeadPlan(n, drop)
  BY ZenonT(30) DEF SetHead, HeadPlan, Expand, Dropped, Lowered

\* The walk of SetHead ends on the block itself, on its ancestor of the number n
\* or on the genesis block, in any case at most at n.
LEMMA RewoundProperties ==
    ASSUME Foundations, NEW b \in Blocks, NEW n \in Heights, NEW S
    PROVE  /\ Rewound(b, n, S) \in Ancestors[b] /\ Rewound(b, n, S) \in Blocks
           /\ Number[Rewound(b, n, S)] <= n
           /\ Rewound(b, n, S) \in S \cup {b, Genesis}
           /\ Rewound(b, n, S) = b => Number[b] <= n
           /\ (\A a \in Ancestors[b] : a \in S) => Number[b] <= n \/ Number[Rewound(b, n, S)] = n
<1>1. n \in Nat /\ Number[b] \in Nat /\ Number[Genesis] = 0 /\ Genesis \in Ancestors[b] /\ b \in Ancestors[b]
      /\ Ancestors[b] \in SUBSET Blocks
  BY BlockAssumption, AncestorsType DEF Heights
<1>2. CASE Number[b] <= n
  BY <1>1, <1>2, Zenon DEF Rewound
<1>3. CASE ~(Number[b] <= n) /\ \A a \in Ancestors[b] \ {b} : Number[a] >= n => a \in S
  <2>1. Rewound(b, n, S) = AncestorAt(b, n)
    BY <1>3, Zenon DEF Rewound
  <2>2. n \in 0..Number[b]
    BY <1>1, <1>3
  <2>3. \E a \in Ancestors[b] : Number[a] = n
    BY <2>2, AncestorNumbers, Zenon
  <2>4. AncestorAt(b, n) \in Ancestors[b] /\ Number[AncestorAt(b, n)] = n
    BY <2>3, Zenon DEF AncestorAt
  <2>5. AncestorAt(b, n) # b
    BY <1>1, <1>3, <2>4
  <2> QED
    BY <1>1, <1>3, <2>1, <2>4, <2>5
<1>4. CASE ~(Number[b] <= n) /\ ~\A a \in Ancestors[b] \ {b} : Number[a] >= n => a \in S
  <2>1. Rewound(b, n, S) = Genesis
    BY <1>4, Zenon DEF Rewound
  <2> QED
    BY <1>1, <1>4, <2>1
<1> QED
  BY <1>2, <1>3, <1>4, Zenon

\* The writes that delete.
Deletions == {"delHeader", "delBody", "delTd"}

\* SetHead deletes only blocks above n.
LEMMA DroppedType ==
    ASSUME Foundations, currentHeader \in Blocks, currentBlock \in Blocks, currentFast \in Blocks, NEW n \in Heights
    PROVE  /\ Dropped(n) \in SUBSET Blocks /\ IsFiniteSet(Dropped(n))
           /\ \A a \in Dropped(n) : Number[a] > n
<1>1. Dropped(n) \in SUBSET Blocks /\ \A a \in Dropped(n) : Number[a] > n
  BY AncestorsType, Zenon DEF Dropped, Passed
<1> QED
  BY <1>1, BlockAssumption, Zenon DEF Foundations, SubsetsFinite

\* What SetHead writes; it deletes a header before what it stands for.
LEMMA HeadPlanProperties ==
    ASSUME Foundations, currentHeader \in Blocks, currentBlock \in Blocks, currentFast \in Blocks,
           NEW n \in Heights, NEW drop \in Orders(Dropped(n))
    PROVE  /\ HeadPlan(n, drop) \in Seq(Puts)
           /\ \A op, a : Has(HeadPlan(n, drop), op, a) <=>
                 \/ op = "uncanon" /\ a \in Lowered(n)
                 \/ op \in Deletions /\ a \in Dropped(n)
                 \/ op = "headBlock" /\ a = Rewound(currentBlock, n, Stored)
                 \/ op = "headHeader" /\ a = Rewound(currentHeader, n, headers)
                 \/ op = "headFast" /\ a = Rewound(currentFast, n, Stored)
           /\ Guarded(HeadPlan(n, drop), {"delBody", "delTd"}, "delHeader")
\* Plans that make one write after another do so when joined.
<1>GuardedJoined. ASSUME Foundations, NEW ss \in Seq(Seq(Puts)), NEW ops, NEW first,
                         \A m \in DOMAIN ss : Guarded(ss[m], ops, first)
                  PROVE  Guarded(Joined(ss), ops, first)
  <2> USE <1>GuardedJoined
  <2>1. SUFFICES ASSUME NEW q \in DOMAIN Joined(ss), Joined(ss)[q].op \in ops
                 PROVE  Before(Joined(ss), q, first, Joined(ss)[q].arg)
    BY Zenon DEF Guarded
  <2>2. PICK m \in DOMAIN ss : \E k \in DOMAIN ss[m] : Follows(Joined(ss), q, ss[m], k)
    BY <2>1, JoinedProperties, Zenon
  <2>3. PICK k \in DOMAIN ss[m] : Follows(Joined(ss), q, ss[m], k)
    BY <2>2, Zenon
  <2>4. Joined(ss)[q] = ss[m][k] /\ \A j \in 1..(k - 1) : \E p \in 1..(q - 1) : Joined(ss)[p] = ss[m][j]
    BY <2>3, Zenon DEF Follows
  <2>5. PICK i \in 1..(k - 1) : ss[m][i].op = first /\ ss[m][i].arg = ss[m][k].arg
    BY <2>1, <2>3, <2>4, Zenon DEF Guarded, Before
  <2> QED
    BY <2>4, <2>5, Zenon DEF Before
<1> DEFINE low == DescendingNumbers(Lowered(n))
           ss == [i \in DOMAIN low |-> <<Put("uncanon", low[i])>>]
           tt == [i \in DOMAIN drop |-> DropBlock(drop[i])]
           last == << Put("headBlock", Rewound(currentBlock, n, Stored)),
                      Put("headHeader", Rewound(currentHeader, n, headers)),
                      Put("headFast", Rewound(currentFast, n, Stored)) >>
<1>1. /\ low \in Seq(Lowered(n)) /\ \A i \in DOMAIN low : low[i] \in Lowered(n)
      /\ \A e \in Lowered(n) : \E i \in DOMAIN low : low[i] = e
      /\ Lowered(n) \in SUBSET Heights
  <2>1. Lowered(n) \in SUBSET Heights
    BY Zenon DEF Lowered
  <2> QED
    BY <2>1, DescendingNumbersOrder, OrderProperties
<1>2. /\ drop \in Seq(Dropped(n)) /\ \A i \in DOMAIN drop : drop[i] \in Dropped(n)
      /\ \A e \in Dropped(n) : \E i \in DOMAIN drop : drop[i] = e
      /\ Dropped(n) \in SUBSET Blocks
  BY DroppedType, OrderProperties
<1>3. HeadPlan(n, drop) = Joined(ss) \o Joined(tt) \o last
  BY Zenon DEF HeadPlan
<1>4. ASSUME NEW k \in Heights
      PROVE  /\ <<Put("uncanon", k)>> \in Seq(Puts)
             /\ \A op, a : Has(<<Put("uncanon", k)>>, op, a) <=> op = "uncanon" /\ a = k
  BY PutType DEF Has
<1>5. ASSUME NEW b \in Blocks
      PROVE  /\ DropBlock(b) \in Seq(Puts)
             /\ \A op, a : Has(DropBlock(b), op, a) <=> op \in Deletions /\ a = b
             /\ Guarded(DropBlock(b), {"delBody", "delTd"}, "delHeader")
  <2>1. Put("delHeader", b) \in Puts /\ Put("delBody", b) \in Puts /\ Put("delTd", b) \in Puts
    BY PutType, Zenon DEF BlockOps
  <2>2. /\ DropBlock(b) \in Seq(Puts) /\ DOMAIN DropBlock(b) = 1..3
        /\ DropBlock(b)[1].op = "delHeader" /\ DropBlock(b)[2].op = "delBody" /\ DropBlock(b)[3].op = "delTd"
        /\ \A i \in 1..3 : DropBlock(b)[i].arg = b
    BY <2>1, PutType DEF DropBlock
  <2> QED
    BY <2>2 DEF Has, Guarded, Before, Deletions
<1>6. ss \in Seq(Seq(Puts)) /\ DOMAIN ss = DOMAIN low
  <2>1. ss \in [DOMAIN low -> Seq(Puts)]
    BY <1>1, <1>4, ZenonT(30)
  <2> QED
    BY <1>1, <2>1, SequenceOfValues, Zenon
<1>7. tt \in Seq(Seq(Puts)) /\ DOMAIN tt = DOMAIN drop
  <2>1. tt \in [DOMAIN drop -> Seq(Puts)]
    BY <1>2, <1>5, Zenon
  <2> QED
    BY <1>2, <2>1, SequenceOfValues, Zenon
<1>8. /\ last \in Seq(Puts)
      /\ \A op, a : Has(last, op, a) <=>
                 \/ op = "headBlock" /\ a = Rewound(currentBlock, n, Stored)
                 \/ op = "headHeader" /\ a = Rewound(currentHeader, n, headers)
                 \/ op = "headFast" /\ a = Rewound(currentFast, n, Stored)
  <2>1. /\ Put("headBlock", Rewound(currentBlock, n, Stored)) \in Puts
        /\ Put("headHeader", Rewound(currentHeader, n, headers)) \in Puts
        /\ Put("headFast", Rewound(currentFast, n, Stored)) \in Puts
    BY PutType, RewoundProperties, ZenonT(40) DEF BlockOps
  <2> QED
    BY <2>1, PutType DEF Has
<1>9. /\ Joined(ss) \in Seq(Puts)
      /\ \A op, a : Has(Joined(ss), op, a) <=> op = "uncanon" /\ a \in Lowered(n)
  <2>1. \A m \in DOMAIN ss : \A op, a : Has(ss[m], op, a) <=> op = "uncanon" /\ a = low[m]
    BY <1>1, <1>4, Zenon
  <2> HIDE DEF ss, low
  <2>2. Joined(ss) \in Seq(Puts) /\ \A op, a : Has(Joined(ss), op, a) <=> \E m \in DOMAIN ss : Has(ss[m], op, a)
    BY <1>6, JoinedProperties, HasJoined, ZenonT(40)
  <2> QED
    BY <1>1, <1>6, <2>1, <2>2
<1>10. /\ Joined(tt) \in Seq(Puts)
       /\ \A op, a : Has(Joined(tt), op, a) <=> op \in Deletions /\ a \in Dropped(n)
       /\ Guarded(Joined(tt), {"delBody", "delTd"}, "delHeader")
  <2>1. \A m \in DOMAIN tt : /\ \A op, a : Has(tt[m], op, a) <=> op \in Deletions /\ a = drop[m]
                             /\ Guarded(tt[m], {"delBody", "delTd"}, "delHeader")
    BY <1>2, <1>5, Zenon
  <2> HIDE DEF tt
  <2>2. Joined(tt) \in Seq(Puts) /\ \A op, a : Has(Joined(tt), op, a) <=> \E m \in DOMAIN tt : Has(tt[m], op, a)
    BY <1>7, JoinedProperties, HasJoined, Zenon
  <2>3. Guarded(Joined(tt), {"delBody", "delTd"}, "delHeader")
    BY <1>7, <2>1, <1>GuardedJoined, Zenon
  <2> QED
    BY <1>2, <1>7, <2>1, <2>2, <2>3
<1> HIDE DEF ss, tt, last
<1>11. Joined(ss) \o Joined(tt) \in Seq(Puts) /\ (Joined(ss) \o Joined(tt)) \o last \in Seq(Puts)
  BY <1>8, <1>9, <1>10
<1>12. \A op, a : Has(HeadPlan(n, drop), op, a) <=>
                     Has(Joined(ss), op, a) \/ Has(Joined(tt), op, a) \/ Has(last, op, a)
  <2>1. \A op, a : Has(HeadPlan(n, drop), op, a) <=> Has(Joined(ss) \o Joined(tt), op, a) \/ Has(last, op, a)
    <3> DEFINE front == Joined(ss) \o Joined(tt)
    <3>1. front \in Seq(Puts) /\ last \in Seq(Puts) /\ HeadPlan(n, drop) = front \o last
      BY <1>3, <1>8, <1>11, Zenon
    <3> HIDE DEF front
    <3>2. \A op, a : Has(HeadPlan(n, drop), op, a) <=> Has(front, op, a) \/ Has(last, op, a)
      BY <3>1, HasConcatenation
    <3> QED
      BY <3>2, Zenon DEF front
  <2>2. \A op, a : Has(Joined(ss) \o Joined(tt), op, a) <=> Has(Joined(ss), op, a) \/ Has(Joined(tt), op, a)
    BY <1>9, <1>10, HasConcatenation, Zenon
  <2> QED
    BY <2>1, <2>2, Zenon
<1>13. Guarded(HeadPlan(n, drop), {"delBody", "delTd"}, "delHeader")
  <2>1. Guarded(Joined(ss), {"delBody", "delTd"}, "delHeader") /\ Guarded(last, {"delBody", "delTd"}, "delHeader")
    BY <1>8, <1>9, GuardedWithout, Zenon
  <2>2. Guarded(Joined(ss) \o Joined(tt), {"delBody", "delTd"}, "delHeader")
    BY <1>9, <1>10, <2>1, GuardedConcatenation, Zenon
  <2> QED
    BY <1>3, <1>8, <1>11, <2>1, <2>2, GuardedConcatenation, ZenonT(30)
<1>14. HeadPlan(n, drop) \in Seq(Puts)
  BY <1>3, <1>11, Zenon
<1> QED
  BY <1>8, <1>9, <1>10, <1>12, <1>13, <1>14, Zenon

\* The headers that the walk of writeHeader below h makes canonical.
Found(h) == {a \in StaleAncestors(h) :
                \A c \in StaleAncestors(h) : Number[c] >= Number[a] => c \in headers}

\* The ancestor at which that walk ends.
WalkEnd(h) ==
    LET rest == Ancestors[h] \ (Found(h) \cup {h})
    IN  CHOOSE a \in rest : \A c \in rest : Number[c] <= Number[a]

\* What writeHeader writes for h if it finds the difficulty of its parent.
HeaderPlan(h) == (IF Td[h] > Td[currentHeader] THEN ExtendHeaders(h) ELSE <<>>)
                    \o <<Put("td", h), Put("header", h)>>

\* What writeHeader writes to make h the head header: the canonical numbers above
\* go, those on the way are overwritten, and h becomes the head unless the walk
\* met a missing header.
LEMMA ExtendHeadersPlan ==
    ASSUME Foundations, NEW h \in Blocks
    PROVE  /\ ExtendHeaders(h) \in Seq(Puts)
           /\ \A op, a : Has(ExtendHeaders(h), op, a) <=>
                 \/ op = "uncanon" /\ a \in NumbersAbove(h)
                 \/ op = "canon" /\ a \in Found(h)
                 \/ op \in {"canon", "headHeader"} /\ a = h /\ WalkEnd(h) \in headers
                 \/ op = "panic" /\ a = h /\ WalkEnd(h) \notin headers
<1> DEFINE numbers == DescendingNumbers(NumbersAbove(h))
           up == [i \in 1..Len(numbers) |-> numbers[Len(numbers) + 1 - i]]
           new == Descending(Found(h))
           ss == [i \in DOMAIN up |-> <<Put("uncanon", up[i])>>]
           tt == [i \in DOMAIN new |-> <<Put("canon", new[i])>>]
           last == IF WalkEnd(h) \in headers THEN <<Put("canon", h), Put("headHeader", h)>>
                   ELSE <<Put("panic", h)>>
<1>1. /\ up \in Seq(NumbersAbove(h)) /\ \A i \in DOMAIN up : up[i] \in NumbersAbove(h)
      /\ \A e \in NumbersAbove(h) : \E i \in DOMAIN up : up[i] = e
      /\ NumbersAbove(h) \in SUBSET Heights
  <2>1. NumbersAbove(h) \in SUBSET Heights
    BY Zenon DEF NumbersAbove
  <2>2. /\ numbers \in Seq(NumbersAbove(h)) /\ \A i \in DOMAIN numbers : numbers[i] \in NumbersAbove(h)
        /\ \A e \in NumbersAbove(h) : \E i \in DOMAIN numbers : numbers[i] = e
    BY <2>1, DescendingNumbersOrder, OrderProperties, ZenonT(40)
  <2> DEFINE n == Len(numbers)
  <2> HIDE DEF numbers
  <2>3. n \in Nat /\ DOMAIN numbers = 1..n /\ DOMAIN up = 1..n
    BY <2>2
  <2>4. \A i \in 1..n : n + 1 - i \in 1..n /\ n + 1 - (n + 1 - i) = i
    BY <2>3
  <2>5. \A i \in 1..n : up[i] = numbers[n + 1 - i] /\ up[i] \in NumbersAbove(h)
    BY <2>2, <2>3, <2>4, Zenon
  <2>6. up \in Seq(NumbersAbove(h))
    BY <2>3, <2>5
  <2> HIDE DEF n, up
  <2>7. ASSUME NEW e \in NumbersAbove(h)
        PROVE  \E i \in DOMAIN up : up[i] = e
    <3>1. PICK i \in 1..n : numbers[i] = e
      BY <2>2, <2>3, Zenon
    <3>2. up[n + 1 - i] = numbers[n + 1 - (n + 1 - i)] /\ n + 1 - i \in 1..n /\ n + 1 - (n + 1 - i) = i
      BY <2>4, <2>5, Zenon
    <3> QED
      BY <2>3, <3>1, <3>2, Zenon
  <2> QED
    BY <2>1, <2>3, <2>5, <2>6, <2>7, Zenon
<1>2. /\ new \in Seq(Found(h)) /\ \A i \in DOMAIN new : new[i] \in Found(h)
      /\ \A e \in Found(h) : \E i \in DOMAIN new : new[i] = e
      /\ Found(h) \in SUBSET Blocks
  <2>1. Found(h) \in SUBSET Ancestors[h] /\ Found(h) \in SUBSET Blocks
    BY AncestorsType, Zenon DEF Found, StaleAncestors
  <2> QED
    BY <2>1, DescendingOrder, OrderProperties
<1>3. ExtendHeaders(h) = Joined(ss) \o Joined(tt) \o last
  BY Zenon DEF ExtendHeaders, Expand, Found, WalkEnd
<1> HIDE DEF up, new
<1>4. ASSUME NEW k \in Heights
      PROVE  /\ <<Put("uncanon", k)>> \in Seq(Puts)
             /\ \A op, a : Has(<<Put("uncanon", k)>>, op, a) <=> op = "uncanon" /\ a = k
  BY PutType DEF Has
<1>5. ASSUME NEW b \in Blocks
      PROVE  /\ <<Put("canon", b)>> \in Seq(Puts)
             /\ \A op, a : Has(<<Put("canon", b)>>, op, a) <=> op = "canon" /\ a = b
  BY PutType DEF Has, BlockOps
<1>6. ss \in Seq(Seq(Puts)) /\ DOMAIN ss = DOMAIN up
  <2>1. ss \in [DOMAIN up -> Seq(Puts)]
    BY <1>1, <1>4, Zenon
  <2> QED
    BY <1>1, <2>1, SequenceOfValues, Zenon
<1>7. tt \in Seq(Seq(Puts)) /\ DOMAIN tt = DOMAIN new
  <2>1. tt \in [DOMAIN new -> Seq(Puts)]
    BY <1>2, <1>5, Zenon
  <2> QED
    BY <1>2, <2>1, SequenceOfValues, Zenon
<1>8. /\ last \in Seq(Puts)
      /\ \A op, a : Has(last, op, a) <=>
                 \/ op \in {"canon", "headHeader"} /\ a = h /\ WalkEnd(h) \in headers
                 \/ op = "panic" /\ a = h /\ WalkEnd(h) \notin headers
  <2>1. Put("canon", h) \in Puts /\ Put("headHeader", h) \in Puts /\ Put("panic", h) \in Puts
    BY PutType, Zenon DEF BlockOps
  <2> QED
    BY <2>1, PutType DEF Has
<1>9. /\ Joined(ss) \in Seq(Puts)
      /\ \A op, a : Has(Joined(ss), op, a) <=> op = "uncanon" /\ a \in NumbersAbove(h)
  <2>1. \A m \in DOMAIN ss : \A op, a : Has(ss[m], op, a) <=> op = "uncanon" /\ a = up[m]
    BY <1>1, <1>4, Zenon
  <2> HIDE DEF ss
  <2>2. Joined(ss) \in Seq(Puts) /\ \A op, a : Has(Joined(ss), op, a) <=> \E m \in DOMAIN ss : Has(ss[m], op, a)
    BY <1>6, JoinedProperties, HasJoined, ZenonT(30)
  <2> QED
    BY <1>1, <1>6, <2>1, <2>2
<1>10. /\ Joined(tt) \in Seq(Puts)
       /\ \A op, a : Has(Joined(tt), op, a) <=> op = "canon" /\ a \in Found(h)
  <2>1. \A m \in DOMAIN tt : \A op, a : Has(tt[m], op, a) <=> op = "canon" /\ a = new[m]
    BY <1>2, <1>5, Zenon
  <2> HIDE DEF tt
  <2>2. Joined(tt) \in Seq(Puts) /\ \A op, a : Has(Joined(tt), op, a) <=> \E m \in DOMAIN tt : Has(tt[m], op, a)
    BY <1>7, JoinedProperties, HasJoined, Zenon
  <2> QED
    BY <1>2, <1>7, <2>1, <2>2
<1> HIDE DEF ss, tt, last
<1>11. Joined(ss) \o Joined(tt) \in Seq(Puts) /\ (Joined(ss) \o Joined(tt)) \o last \in Seq(Puts)
  BY <1>8, <1>9, <1>10
<1>12. \A op, a : Has(ExtendHeaders(h), op, a) <=> Has(Joined(ss) \o Joined(tt), op, a) \/ Has(last, op, a)
  <2> DEFINE front == Joined(ss) \o Joined(tt)
  <2>1. front \in Seq(Puts) /\ last \in Seq(Puts) /\ ExtendHeaders(h) = front \o last
    BY <1>3, <1>8, <1>11, Zenon
  <2> HIDE DEF front
  <2>2. \A op, a : Has(ExtendHeaders(h), op, a) <=> Has(front, op, a) \/ Has(last, op, a)
    BY <2>1, HasConcatenation
  <2> QED
    BY <2>2, Zenon DEF front
<1>13. \A op, a : Has(Joined(ss) \o Joined(tt), op, a) <=> Has(Joined(ss), op, a) \/ Has(Joined(tt), op, a)
  BY <1>9, <1>10, HasConcatenation, Zenon
<1>14. ExtendHeaders(h) \in Seq(Puts)
  BY <1>3, <1>11, Zenon
<1> QED
  BY <1>8, <1>9, <1>10, <1>12, <1>13, <1>14, ZenonT(30)

\* What writeHeader writes in all: the header only after its total difficulty.
LEMMA HeaderPlanProperties ==
    ASSUME Foundations, NEW h \in Blocks
    PROVE  /\ HeaderPlan(h) \in Seq(Puts)
           /\ \A op, a : Has(HeaderPlan(h), op, a) <=>
                 \/ op \in {"td", "header"} /\ a = h
                 \/ Td[h] > Td[currentHeader] /\ Has(ExtendHeaders(h), op, a)
           /\ Guarded(HeaderPlan(h), {"header"}, "td")
<1> DEFINE first == IF Td[h] > Td[currentHeader] THEN ExtendHeaders(h) ELSE <<>>
           last == <<Put("td", h), Put("header", h)>>
<1>1. /\ first \in Seq(Puts)
      /\ \A op, a : Has(first, op, a) <=> Td[h] > Td[currentHeader] /\ Has(ExtendHeaders(h), op, a)
  BY ExtendHeadersPlan, HasNothing
<1>2. /\ last \in Seq(Puts) /\ DOMAIN last = 1..2 /\ last[1].op = "td" /\ last[2].op = "header"
      /\ last[1].arg = h /\ last[2].arg = h
  <2>1. Put("td", h) \in Puts /\ Put("header", h) \in Puts
    BY PutType, Zenon DEF BlockOps
  <2> QED
    BY <2>1, PutType
<1>3. HeaderPlan(h) = first \o last
  BY Zenon DEF HeaderPlan
<1> HIDE DEF first, last
<1>4. \A op, a : Has(last, op, a) <=> op \in {"td", "header"} /\ a = h
  BY <1>2 DEF Has
<1>5. \A op, a : Has(HeaderPlan(h), op, a) <=> Has(first, op, a) \/ Has(last, op, a)
  BY <1>1, <1>2, <1>3, HasConcatenation
<1>6. Guarded(last, {"header"}, "td")
  BY <1>2 DEF Guarded, Before
<1>7. \A a : ~Has(first, "header", a)
  BY <1>1, ExtendHeadersPlan
<1>8. Guarded(first, {"header"}, "td")
  BY <1>1, <1>7, GuardedWithout, Zenon
<1>9. Guarded(HeaderPlan(h), {"header"}, "td")
  BY <1>1, <1>2, <1>3, <1>6, <1>8, GuardedConcatenation, ZenonT(40)
<1>10. HeaderPlan(h) \in Seq(Puts)
  BY <1>1, <1>2, <1>3
<1> QED
  BY <1>1, <1>4, <1>5, <1>9, <1>10

\* The headers that Rollback takes back, down to number n.
Undone(n) == {a \in Ancestors[currentHeader] : Number[a] > n}

\* The move of one head when Rollback undoes a.
Moved(n, cur, a, S, key) ==
    IF cur \in Undone(n) /\ a \in Ancestors[cur]
    THEN <<Put(IF Parent[a] \in S THEN key ELSE "panic", Parent[a])>> ELSE <<>>

\* The moves of the three heads when Rollback undoes a.
Back(n, a) == Moved(n, currentHeader, a, headers, "headHeader")
                 \o Moved(n, currentFast, a, Stored, "headFast")
                 \o Moved(n, currentBlock, a, Stored, "headBlock")

\* What Rollback writes.
RollbackPlan(n) ==
    Joined([i \in DOMAIN Descending(Undone(n)) |-> Back(n, Descending(Undone(n))[i])])

\* Rollback makes that plan.
LEMMA RollbackPlanned ==
    ASSUME NEW n \in Heights, Rollback(n)
    PROVE  writes' = RollbackPlan(n)
  BY ZenonT(40) DEF Rollback, RollbackPlan, Back, Moved, Undone, Expand

\* Rollback moves heads only onto headers and blocks it finds.
LEMMA RollbackPlanProperties ==
    ASSUME Foundations, NEW n \in Heights, currentHeader \in Blocks
    PROVE  /\ RollbackPlan(n) \in Seq(Puts)
           /\ \A op, a : Has(RollbackPlan(n), op, a) =>
                 /\ a \in Ancestors[currentHeader]
                 /\ \/ op = "headHeader" /\ a \in headers
                    \/ op \in {"headFast", "headBlock"} /\ a \in Stored
                    \/ op = "panic"
<1> DEFINE all == Descending(Undone(n))
           ss == [i \in DOMAIN all |-> Back(n, all[i])]
<1>1. /\ all \in Seq(Undone(n)) /\ \A i \in DOMAIN all : all[i] \in Undone(n)
      /\ Undone(n) \in SUBSET Ancestors[currentHeader]
  <2>1. Undone(n) \in SUBSET Ancestors[currentHeader]
    BY Zenon DEF Undone
  <2> QED
    BY <2>1, DescendingOrder, OrderProperties, Zenon
<1>2. ASSUME NEW c \in Undone(n), NEW cur, NEW S, NEW key \in {"headHeader", "headFast", "headBlock"}
      PROVE  /\ Moved(n, cur, c, S, key) \in Seq(Puts)
             /\ \A op, a : Has(Moved(n, cur, c, S, key), op, a) =>
                    a \in Ancestors[currentHeader] /\ (op = "panic" \/ (op = key /\ a \in S))
  <2>1. c \in Ancestors[currentHeader] \ {Genesis} /\ c \in Blocks
    <3>1. Number[c] > n /\ n \in Nat /\ c \in Blocks
      BY AncestorsType, BlockAssumption DEF Undone, Heights
    <3> QED
      BY <3>1, BlockAssumption DEF Undone
  <2>2. Parent[c] \in Ancestors[currentHeader] /\ Parent[c] \in Blocks
    BY <2>1, AncestorsLinked, BlockAssumption, Zenon
  <2> DEFINE op1 == IF Parent[c] \in S THEN key ELSE "panic"
  <2>3. Put(op1, Parent[c]) \in Puts /\ op1 \in BlockOps
    BY <2>2, PutType, ZenonT(40) DEF BlockOps
  <2>4. \A op, a : Has(<<Put(op1, Parent[c])>>, op, a) <=> op = op1 /\ a = Parent[c]
    <3> HIDE DEF op1
    <3> QED
      BY HasOne, Zenon
  <2>5. CASE cur \in Undone(n) /\ c \in Ancestors[cur]
    <3>1. Moved(n, cur, c, S, key) = <<Put(op1, Parent[c])>>
      BY <2>5, ZenonT(40) DEF Moved
    <3> QED
      BY <2>2, <2>3, <2>4, <3>1
  <2>6. CASE ~(cur \in Undone(n) /\ c \in Ancestors[cur])
    BY <2>6, HasNothing DEF Moved
  <2> QED
    BY <2>5, <2>6, ZenonT(30)
<1>3. ASSUME NEW c \in Undone(n)
      PROVE  /\ Back(n, c) \in Seq(Puts)
             /\ \A op, a : Has(Back(n, c), op, a) =>
                 /\ a \in Ancestors[currentHeader]
                 /\ \/ op = "headHeader" /\ a \in headers
                    \/ op \in {"headFast", "headBlock"} /\ a \in Stored
                    \/ op = "panic"
  <2> DEFINE u == Moved(n, currentHeader, c, headers, "headHeader")
             v == Moved(n, currentFast, c, Stored, "headFast")
             w == Moved(n, currentBlock, c, Stored, "headBlock")
  <2>1. /\ u \in Seq(Puts)
        /\ \A op, a : Has(u, op, a) => a \in Ancestors[currentHeader] /\ (op = "panic" \/ (op = "headHeader" /\ a \in headers))
    BY <1>2, ZenonT(30)
  <2>2. /\ v \in Seq(Puts)
        /\ \A op, a : Has(v, op, a) => a \in Ancestors[currentHeader] /\ (op = "panic" \/ (op = "headFast" /\ a \in Stored))
    BY <1>2, Zenon
  <2>3. /\ w \in Seq(Puts)
        /\ \A op, a : Has(w, op, a) => a \in Ancestors[currentHeader] /\ (op = "panic" \/ (op = "headBlock" /\ a \in Stored))
    BY <1>2, Zenon
  <2>4. Back(n, c) = u \o v \o w
    BY Zenon DEF Back
  <2> DEFINE uv == u \o v
  <2> HIDE DEF u, v, w
  <2>5. uv \in Seq(Puts) /\ uv \o w \in Seq(Puts) /\ Back(n, c) = uv \o w
    BY <2>1, <2>2, <2>3, <2>4
  <2>6. \A op, a : Has(uv, op, a) <=> Has(u, op, a) \/ Has(v, op, a)
    BY <2>1, <2>2, HasConcatenation, Zenon
  <2> HIDE DEF uv
  <2>7. \A op, a : Has(Back(n, c), op, a) <=> Has(uv, op, a) \/ Has(w, op, a)
    BY <2>3, <2>5, HasConcatenation
  <2>8. ASSUME NEW op, NEW a, Has(Back(n, c), op, a)
        PROVE  /\ a \in Ancestors[currentHeader]
               /\ \/ op = "headHeader" /\ a \in headers
                  \/ op \in {"headFast", "headBlock"} /\ a \in Stored
                  \/ op = "panic"
    <3>1. Has(u, op, a) \/ Has(v, op, a) \/ Has(w, op, a)
      BY <2>6, <2>7, <2>8, Zenon
    <3>2. CASE Has(u, op, a)
      BY <2>1, <3>2, Zenon
    <3>3. CASE Has(v, op, a)
      BY <2>2, <3>3, Zenon
    <3>4. CASE Has(w, op, a)
      BY <2>3, <3>4, Zenon
    <3> QED
      BY <3>1, <3>2, <3>3, <3>4, Zenon
  <2> QED
    BY <2>5, <2>8, Zenon
<1>4. ss \in Seq(Seq(Puts)) /\ DOMAIN ss = DOMAIN all
  <2>1. ss \in [DOMAIN all -> Seq(Puts)]
    BY <1>1, <1>3, Zenon
  <2> QED
    BY <1>1, <2>1, SequenceOfValues, Zenon
<1>5. \A m \in DOMAIN ss : ss[m] = Back(n, all[m]) /\ all[m] \in Undone(n)
  BY <1>1, Zenon
<1>6. RollbackPlan(n) = Joined(ss)
  BY Zenon DEF RollbackPlan
<1> HIDE DEF ss
<1>7. \A op, a : Has(Joined(ss), op, a) <=> \E m \in DOMAIN ss : Has(ss[m], op, a)
  BY <1>4, HasJoined, Zenon
<1>8. Joined(ss) \in Seq(Puts)
  BY <1>4, JoinedProperties, Zenon
<1> QED
  BY <1>3, <1>5, <1>6, <1>7, <1>8

\* The holder of mu has still to make the write op of a.
Pending(op, a) == Has(writes, op, a)

\* What a step of Write does when op of arg comes next.
Made(op, arg) ==
    /\ writes' = Tail(writes) /\ writes # <<>> /\ op # "panic"
    /\ writes[1].op = op /\ writes[1].arg = arg
    /\ \/ op \in BlockOps /\ arg \in Blocks
       \/ op = "uncanon" /\ arg \in Heights
       \/ op = "unindex" /\ arg \in Txs
    /\ headers' = IF op = "header" THEN headers \cup {arg}
                  ELSE IF op = "delHeader" THEN headers \ {arg} ELSE headers
    /\ bodies' = IF op = "body" THEN bodies \cup {arg}
                 ELSE IF op = "delBody" THEN bodies \ {arg} ELSE bodies
    /\ tds' = IF op = "td" THEN tds \cup {arg} ELSE IF op = "delTd" THEN tds \ {arg} ELSE tds
    /\ futureBlocks' = IF op = "unfuture" THEN futureBlocks \ {arg} ELSE futureBlocks
    /\ canon' = IF op = "canon" THEN [canon EXCEPT ![Number[arg]] = arg]
                ELSE IF op = "uncanon" THEN [canon EXCEPT ![arg] = None] ELSE canon
    /\ lookup' = IF op = "index" THEN [t \in Txs |-> IF t \in TxsOf[arg] THEN arg ELSE lookup[t]]
                 ELSE IF op = "unindex" THEN [lookup EXCEPT ![arg] = None] ELSE lookup
    /\ headBlock' = (IF op = "headBlock" THEN arg ELSE headBlock)
    /\ headHeader' = (IF op = "headHeader" THEN arg ELSE headHeader)
    /\ headFast' = (IF op = "headFast" THEN arg ELSE headFast)
    /\ currentBlock' = (IF op = "headBlock" THEN arg ELSE currentBlock)
    /\ currentHeader' = (IF op = "headHeader" THEN arg ELSE currentHeader)
    /\ currentFast' = (IF op = "headFast" THEN arg ELSE currentFast)
    /\ UNCHANGED <<states, tdCache, import, fast, lead, counters>>

\* A step of Write makes the first write of the plan.
LEMMA WriteMakes ==
    ASSUME writes \in Seq(Puts), Write
    PROVE  /\ \E op, arg : Made(op, arg)
           /\ writes' \in Seq(Puts)
<1> DEFINE op == Head(writes).op
           arg == Head(writes).arg
<1>0. writes # <<>>
  BY Zenon DEF Write
<1>1. Head(writes) \in Puts /\ Head(writes) = writes[1] /\ Tail(writes) \in Seq(Puts) /\ writes # <<>>
  BY <1>0
<1>2. \/ op \in BlockOps /\ arg \in Blocks
      \/ op = "uncanon" /\ arg \in Heights
      \/ op = "unindex" /\ arg \in Txs
  BY <1>1, Zenon DEF Puts
<1>3. Made(op, arg)
  BY <1>1, <1>2, ZenonT(30) DEF Made, Write, BlockOps
<1> QED
  BY <1>1, <1>3, ZenonT(30) DEF Write

\* A write that was to be made is the one made, or is still to be made.
LEMMA MadePending ==
    ASSUME writes \in Seq(Puts), NEW op, NEW arg, Made(op, arg), NEW o, NEW a
    PROVE  Pending(o, a) <=> (o = op /\ a = arg) \/ Pending(o, a)'
<1>1. Has(writes, o, a) <=> (Head(writes).op = o /\ Head(writes).arg = a) \/ Has(Tail(writes), o, a)
  BY HasHeadTail, ZenonT(30) DEF Made
<1>2. Head(writes) = writes[1]
  BY DEF Made
<1>3. writes' = Tail(writes) /\ writes[1].op = op /\ writes[1].arg = arg
  BY Zenon DEF Made
<1> QED
  BY <1>1, <1>2, <1>3, Zenon DEF Pending

---------------------------------------------------------------------------
(* Types.                                                                   *)

\* TypeOK, strengthened by what is never done to the genesis block and by what does
\* not happen without header chains and receipt chains.
Types ==
    /\ TypeOK
    /\ batch \in Seq(Blocks \ {Genesis}) /\ hbatch \in Seq(Blocks \ {Genesis})
    /\ futureBlocks \in SUBSET (Blocks \ {Genesis}) /\ \A p \in Procs : ready[p] # Genesis
    /\ HeaderChains = {} => hbatch = <<>>
    /\ ReceiptChains = {} => rhead = None /\ rleft = {}

\* What a call of WriteBlock plans.
LEMMA WriteBlockPlan ==
    ASSUME Types, NEW p \in Procs, WriteBlock(p)
    PROVE  /\ ready[p] \in Blocks \ {Genesis} /\ writes = <<>>
           /\ \/ writes' = <<>> /\ index' = index
              \/ /\ writes' = BlockPlan(ready[p])
                 /\ HasTd(Parent[ready[p]])
                 /\ Heavier(ready[p]) /\ Parent[ready[p]] # currentBlock => Reorganisable(ready[p])
                 /\ index' = IF Heavier(ready[p]) THEN [index EXCEPT ![p] = ready[p]] ELSE index
<1>1. ready[p] \in Blocks \ {Genesis} /\ writes = <<>>
  BY ZenonT(30) DEF Types, TypeOK, WriteBlock, Unlocked
<1> QED
  BY <1>1, ZenonT(30) DEF WriteBlock, BlockPlan

\* What a call of writeHeader plans.
LEMMA WriteHeaderPlan ==
    ASSUME Types, WriteHeader
    PROVE  /\ writes = <<>> /\ Head(hbatch) \in Blocks \ {Genesis}
           /\ hbatch' \in Seq(Blocks \ {Genesis}) /\ HeaderChains # {}
           /\ tdCache' \in SUBSET Blocks
           /\ \/ writes' = <<>>
              \/ /\ writes' = HeaderPlan(Head(hbatch)) /\ HasTd(Parent[Head(hbatch)])
                 /\ Head(hbatch) \notin headers
<1>1. hbatch # <<>> /\ hbatch \in Seq(Blocks \ {Genesis}) /\ writes = <<>> /\ tdCache \in SUBSET Blocks
      /\ tds \in SUBSET Blocks
  BY Zenon DEF WriteHeader, Types, TypeOK, Unlocked
<1>2. Head(hbatch) \in Blocks \ {Genesis} /\ Tail(hbatch) \in Seq(Blocks \ {Genesis})
      /\ <<>> \in Seq(Blocks \ {Genesis})
  BY <1>1
<1>3. hbatch' \in Seq(Blocks \ {Genesis}) /\ tdCache' \in SUBSET Blocks
  BY <1>1, <1>2, Zenon DEF WriteHeader, CacheTds
<1>4. HeaderChains # {}
  BY <1>1, Zenon DEF Types
<1>5. \/ writes' = <<>>
      \/ /\ writes' = HeaderPlan(Head(hbatch)) /\ HasTd(Parent[Head(hbatch)])
         /\ Head(hbatch) \notin headers
  BY <1>1, ZenonT(30) DEF WriteHeader, HeaderPlan
<1> QED
  BY <1>1, <1>2, <1>3, <1>4, <1>5, ZenonT(40)

\* What the end of InsertReceiptChain plans.
LEMMA CommitReceiptsPlan ==
    ASSUME Types, CommitReceipts
    PROVE  /\ rhead \in Blocks /\ writes = <<>> /\ rleft = {}
           /\ \/ writes' = <<>>
              \/ writes' = <<Put("panic", rhead)>> /\ ~HasTd(rhead)
              \/ writes' = <<Put("headFast", rhead)>> /\ HasTd(rhead)
           /\ writes' \in Seq(Puts)
           /\ \A op, a : Has(writes', op, a) => a = rhead /\ (op = "headFast" \/ (op = "panic" /\ ~HasTd(rhead)))
<1>1. rhead \in Blocks /\ writes = <<>> /\ rleft = {}
  BY Zenon DEF CommitReceipts, Types, TypeOK, Unlocked
<1>2. \/ writes' = <<>>
      \/ writes' = <<Put("panic", rhead)>> /\ ~HasTd(rhead)
      \/ writes' = <<Put("headFast", rhead)>> /\ HasTd(rhead)
  BY Zenon DEF CommitReceipts
<1>3. Put("panic", rhead) \in Puts /\ Put("headFast", rhead) \in Puts
  BY <1>1, PutType, Zenon DEF BlockOps
<1>4. writes' \in Seq(Puts)
  <2>1. <<>> \in Seq(Puts) /\ <<Put("panic", rhead)>> \in Seq(Puts) /\ <<Put("headFast", rhead)>> \in Seq(Puts)
    BY <1>3
  <2> QED
    BY <1>2, <2>1, Zenon
<1>5. \A op, a : /\ Has(<<Put("panic", rhead)>>, op, a) => op = "panic" /\ a = rhead
                 /\ Has(<<Put("headFast", rhead)>>, op, a) => op = "headFast" /\ a = rhead
  BY PutType DEF Has
<1> QED
  BY <1>1, <1>2, <1>4, <1>5, HasNothing

\* Every step keeps the types.
LEMMA TypesNext ==
    ASSUME Foundations, Types, [Next]_vars
    PROVE  Types'
\* A write keeps the types.
<1>WriteTypes. ASSUME Types, Write
               PROVE  Types'
  <2> USE <1>WriteTypes
  <2>1. writes \in Seq(Puts) /\ writes' \in Seq(Puts)
    BY WriteMakes, Zenon DEF Types, TypeOK
  <2>2. PICK op, arg : Made(op, arg)
    BY <2>1, WriteMakes, Zenon
  <2>3. op \in BlockOps => arg \in Blocks /\ Number[arg] \in Heights
    BY <2>2, ZenonT(30) DEF Made, BlockOps, Heights
  <2>4. canon' \in [Heights -> Blocks \cup {None}]
    BY <2>2, <2>3, ZenonT(30) DEF Made, Types, TypeOK, BlockOps
  <2>5. lookup' \in [Txs -> Blocks \cup {None}]
    BY <2>2, <2>3, ZenonT(30) DEF Made, Types, TypeOK, BlockOps
  <2>6. headers' \in SUBSET Blocks /\ bodies' \in SUBSET Blocks /\ tds' \in SUBSET Blocks
        /\ futureBlocks' \in SUBSET (Blocks \ {Genesis})
    BY <2>2, <2>3, ZenonT(30) DEF Made, Types, TypeOK, BlockOps
  <2>7. /\ headBlock' \in Blocks /\ headHeader' \in Blocks /\ headFast' \in Blocks
        /\ currentBlock' \in Blocks /\ currentHeader' \in Blocks /\ currentFast' \in Blocks
    BY <2>2, <2>3, ZenonT(30) DEF Made, Types, TypeOK, BlockOps
  <2>8. UNCHANGED <<states, tdCache, batch, hbatch, ready, index, rleft, rhead, lead, rewinds, rollbacks, crashes, panicked>>
    BY <2>2, ZenonT(30) DEF Made, import, fast, counters
  <2> QED
    BY <2>1, <2>4, <2>5, <2>6, <2>7, <2>8, ZenonT(40) DEF Types, TypeOK
\* A validation keeps the types.
<1>ValidateNextTypes. ASSUME Types, ValidateNext
                      PROVE  Types'
  <2> USE <1>ValidateNextTypes
  <2> DEFINE b == Head(batch)
  <2>1. batch # <<>> /\ batch \in Seq(Blocks \ {Genesis})
    BY Zenon DEF ValidateNext, Types
  <2>2. b \in Blocks \ {Genesis} /\ Tail(batch) \in Seq(Blocks \ {Genesis})
        /\ Tail(batch) \in Seq(Blocks) /\ <<>> \in Seq(Blocks)
    BY <2>1
  <2> HIDE DEF b
  <2>3. /\ batch' \in Seq(Blocks \ {Genesis}) /\ batch' \in Seq(Blocks)
        /\ futureBlocks' \in SUBSET (Blocks \ {Genesis}) /\ states' \in SUBSET Blocks
        /\ ready' \in [Procs -> Blocks \cup {None}] /\ \A p \in Procs : ready'[p] # Genesis
    <3>1. batch' \in {batch, Tail(batch), <<>>}
      BY ZenonT(40) DEF ValidateNext
    <3>2. /\ futureBlocks' \in {futureBlocks, futureBlocks \cup {b}}
          /\ states' \in {states, states \cup {b}}
          /\ ready' \in {ready, [ready EXCEPT !["import"] = b]}
      BY ZenonT(40) DEF ValidateNext, b
    <3>3. batch' \in Seq(Blocks \ {Genesis}) /\ batch' \in Seq(Blocks)
      BY <2>1, <2>2, <3>1, EmptySequence, ZenonT(40) DEF Types, TypeOK
    <3>4. futureBlocks' \in SUBSET (Blocks \ {Genesis}) /\ states' \in SUBSET Blocks
      BY <2>2, <3>2, ZenonT(40) DEF Types, TypeOK
    <3>5. CASE ready' = ready
      BY <3>3, <3>4, <3>5, ZenonT(40) DEF Types, TypeOK
    <3>6. CASE ready' = [ready EXCEPT !["import"] = b]
      BY <2>2, <3>3, <3>4, <3>6, ZenonT(40) DEF Types, TypeOK
    <3> QED
      BY <3>2, <3>5, <3>6, Zenon
  <2>4. UNCHANGED <<headers, bodies, tds, canon, lookup, headBlock, headHeader, headFast, currentBlock,
                    currentHeader, currentFast, tdCache, writes, hbatch, index, rleft, rhead, lead,
                    rewinds, rollbacks, crashes, panicked>>
    BY Zenon DEF ValidateNext, heads, fast, counters
  <2> QED
    BY <2>3, <2>4, ZenonT(30) DEF Types, TypeOK
\* A mined block keeps the types.
<1>MineTypes. ASSUME Types, NEW b \in Mined, Mine(b)
              PROVE  Types'
  <2> USE <1>MineTypes
  <2>1. b \in Blocks \ {Genesis}
    BY InputAssumption, Zenon
  <2>2. states' \in SUBSET Blocks /\ ready' \in [Procs -> Blocks \cup {None}] /\ \A p \in Procs : ready'[p] # Genesis
    BY <2>1, ZenonT(30) DEF Mine, Types, TypeOK, Procs
  <2>3. UNCHANGED <<headers, bodies, tds, canon, lookup, headBlock, headHeader, headFast, currentBlock,
                    currentHeader, currentFast, tdCache, futureBlocks, writes, batch, hbatch, index, rleft,
                    rhead, lead, rewinds, rollbacks, crashes, panicked>>
    BY ZenonT(30) DEF Mine, heads, fast, counters
  <2> QED
    BY <2>2, <2>3, Zenon DEF Types, TypeOK
\* The start of WriteBlock keeps the types.
<1>WriteBlockTypes. ASSUME Foundations, Types, NEW p \in Procs, WriteBlock(p)
                    PROVE  Types'
  <2> USE <1>WriteBlockTypes
  <2> DEFINE b == ready[p]
  <2>1. b \in Blocks \ {Genesis} /\ currentBlock \in Blocks
    BY WriteBlockPlan, Zenon DEF Types, TypeOK
  <2>2. writes' \in Seq(Puts)
    <3>1. BlockPlan(b) \in Seq(Puts)
      BY <2>1, BlockPlanProperties, ZenonT(30)
    <3>2. writes' = <<>> \/ writes' = BlockPlan(b)
      BY WriteBlockPlan, Zenon
    <3>3. <<>> \in Seq(Puts)
      OBVIOUS
    <3> QED
      BY <3>1, <3>2, <3>3, ZenonT(30)
  <2>3. index' = index \/ index' = [index EXCEPT ![p] = b]
    BY WriteBlockPlan, Zenon
  <2>4. index' \in [Procs -> Blocks \cup {None}]
    BY <2>1, <2>3, Zenon DEF Types, TypeOK
  <2>5. ready' = [ready EXCEPT ![p] = None] /\ (batch' = <<>> \/ batch' = batch)
        /\ tdCache' \in SUBSET Blocks
    BY ZenonT(30) DEF WriteBlock, CacheTds, Types, TypeOK
  <2>6. ready' \in [Procs -> Blocks \cup {None}] /\ \A q \in Procs : ready'[q] # Genesis
    BY <2>5, BlockAssumption, ZenonT(40) DEF Types, TypeOK
  <2>7. UNCHANGED <<headers, bodies, tds, states, canon, lookup, headBlock, headHeader, headFast, currentBlock,
                    currentHeader, currentFast, futureBlocks, hbatch, rleft,
                    rhead, lead, rewinds, rollbacks, crashes, panicked>>
    BY Zenon DEF WriteBlock, disk, heads, fast, counters
  <2>8. batch' \in Seq(Blocks \ {Genesis}) /\ batch' \in Seq(Blocks)
    <3>1. batch \in Seq(Blocks \ {Genesis}) /\ batch \in Seq(Blocks)
      BY Zenon DEF Types, TypeOK
    <3>2. <<>> \in Seq(Blocks \ {Genesis}) /\ <<>> \in Seq(Blocks)
      BY EmptySequence, Zenon
    <3> QED
      BY <2>5, <3>1, <3>2, Zenon
  <2> QED
    BY <2>2, <2>4, <2>5, <2>6, <2>7, <2>8, ZenonT(30) DEF Types, TypeOK
\* A restart keeps the types.
<1>RestartTypes. ASSUME Types, Restart, crashes' \in 0..MaxCrashes, panicked' \in BOOLEAN
                 PROVE  Types'
  <2> USE <1>RestartTypes
  <2>1. Genesis \in Blocks /\ None \notin Blocks
    BY BlockAssumption, Zenon
  <2>2. /\ headBlock' \in Blocks /\ headHeader' \in Blocks /\ headFast' \in Blocks
        /\ currentBlock' \in Blocks /\ currentHeader' \in Blocks /\ currentFast' \in Blocks
    BY <2>1, ZenonT(40) DEF Restart, Types, TypeOK
  <2>3. /\ tdCache' \in SUBSET Blocks /\ futureBlocks' = {} /\ writes' = <<>> /\ batch' = <<>> /\ hbatch' = <<>>
        /\ ready' = [p \in Procs |-> None] /\ index' = [p \in Procs |-> None]
        /\ rleft' = {} /\ rhead' = None
        /\ UNCHANGED <<headers, bodies, tds, states, canon, lookup, lead, rewinds, rollbacks>>
    BY <2>2, ZenonT(40) DEF Restart
  <2>4. /\ ready' \in [Procs -> Blocks \cup {None}] /\ index' \in [Procs -> Blocks \cup {None}]
        /\ \A p \in Procs : ready'[p] # Genesis
    BY <2>1, <2>3, ZenonT(40)
  <2>5. /\ writes' \in Seq(Puts) /\ batch' \in Seq(Blocks) /\ hbatch' \in Seq(Blocks)
        /\ batch' \in Seq(Blocks \ {Genesis}) /\ hbatch' \in Seq(Blocks \ {Genesis})
    BY <2>3, EmptySequence, ZenonT(40)
  <2>6. TypeOK'
    BY <2>2, <2>3, <2>4, <2>5, ZenonT(40) DEF Types, TypeOK
  <2> QED
    BY <2>3, <2>4, <2>5, <2>6, ZenonT(40) DEF Types
\* SetHead keeps the types.
<1>SetHeadTypes. ASSUME Foundations, Types, NEW n \in Heights, SetHead(n)
                 PROVE  Types'
  <2> USE <1>SetHeadTypes
  <2>1. currentHeader \in Blocks /\ currentBlock \in Blocks /\ currentFast \in Blocks
    BY Zenon DEF Types, TypeOK
  <2>2. PICK drop \in Orders(Dropped(n)) : writes' = HeadPlan(n, drop)
    BY SetHeadPlan, Zenon
  <2>3. writes' \in Seq(Puts)
    BY <2>1, <2>2, HeadPlanProperties, Zenon
  <2>4. rewinds' \in 0..MaxRewinds /\ futureBlocks' = {}
    <3>1. rewinds < MaxRewinds /\ rewinds' = rewinds + 1 /\ futureBlocks' = {}
      BY ZenonT(40) DEF SetHead
    <3>2. rewinds \in 0..MaxRewinds
      BY Zenon DEF Types, TypeOK
    <3> QED
      BY <3>1, <3>2, InputAssumption
  <2>5. UNCHANGED <<headers, bodies, tds, states, canon, lookup, headBlock, headHeader, headFast, currentBlock,
                    currentHeader, currentFast, tdCache, batch, hbatch, ready, index, rleft,
                    rhead, lead, rollbacks, crashes, panicked>>
    BY Zenon DEF SetHead, disk, heads, import, fast
  <2> QED
    BY <2>3, <2>4, <2>5, ZenonT(40) DEF Types, TypeOK
\* The start of writeHeader keeps the types.
<1>WriteHeaderTypes. ASSUME Foundations, Types, WriteHeader
                     PROVE  Types'
  <2> USE <1>WriteHeaderTypes
  <2>1. /\ HeaderPlan(Head(hbatch)) \in Seq(Puts) /\ hbatch' \in Seq(Blocks \ {Genesis})
        /\ HeaderChains # {} /\ tdCache' \in SUBSET Blocks
    BY WriteHeaderPlan, HeaderPlanProperties, Zenon
  <2>2. writes' \in Seq(Puts)
    <3>1. <<>> \in Seq(Puts)
      OBVIOUS
    <3> QED
      BY <2>1, <3>1, WriteHeaderPlan, Zenon
  <2>3. UNCHANGED <<headers, bodies, tds, states, canon, lookup, headBlock, headHeader, headFast, currentBlock,
                    currentHeader, currentFast, futureBlocks, batch, ready, index, rleft,
                    rhead, lead, rewinds, rollbacks, crashes, panicked>>
    BY Zenon DEF WriteHeader, disk, heads, fast, counters
  <2>4. hbatch' \in Seq(Blocks)
    BY <2>1
  <2> QED
    BY <2>1, <2>2, <2>3, <2>4, Zenon DEF Types, TypeOK
\* The steps of InsertReceiptChain keep the types.
<1>ReceiptTypes. ASSUME Types
                 PROVE  /\ \A chain \in ReceiptChains : InsertReceiptChain(chain) => Types'
                        /\ \A b \in Blocks : WriteBody(b) => Types'
                        /\ CommitReceipts => Types'
  <2> USE <1>ReceiptTypes
  <2>1. ASSUME NEW chain \in ReceiptChains, InsertReceiptChain(chain)
        PROVE  Types'
    <3>1. chain \in Seq(Blocks \ {Genesis}) /\ chain # <<>> /\ ReceiptChains # {}
      BY InputAssumption, Zenon
    <3>2. Len(chain) \in DOMAIN chain /\ \A i \in DOMAIN chain : chain[i] \in Blocks
      BY <3>1
    <3>3. rleft' \in SUBSET Blocks /\ rhead' \in Blocks \cup {None}
      BY <2>1, <3>2, Zenon DEF InsertReceiptChain
    <3>4. UNCHANGED <<headers, bodies, tds, states, canon, lookup, headBlock, headHeader, headFast, currentBlock,
                      currentHeader, currentFast, tdCache, futureBlocks, writes, batch, hbatch, ready, index,
                      lead, rewinds, rollbacks, crashes, panicked>>
      BY <2>1, ZenonT(30) DEF InsertReceiptChain, disk, heads, import, counters
    <3> QED
      BY <3>1, <3>3, <3>4, ZenonT(30) DEF Types, TypeOK
  <2>2. ASSUME NEW b \in Blocks, WriteBody(b)
        PROVE  Types'
    <3>1. /\ rleft' \in SUBSET Blocks /\ rhead' \in Blocks \cup {None} /\ bodies' \in SUBSET Blocks
          /\ ReceiptChains # {}
      BY <2>2, Zenon DEF WriteBody, Types, TypeOK
    <3>2. UNCHANGED <<headers, tds, states, canon, lookup, headBlock, headHeader, headFast, currentBlock,
                      currentHeader, currentFast, tdCache, futureBlocks, writes, batch, hbatch, ready, index,
                      lead, rewinds, rollbacks, crashes, panicked>>
      BY <2>2, Zenon DEF WriteBody, heads, import, counters
    <3> QED
      BY <3>1, <3>2, ZenonT(30) DEF Types, TypeOK
  <2>3. ASSUME CommitReceipts
        PROVE  Types'
    <3>1. writes' \in Seq(Puts)
      BY <2>3, CommitReceiptsPlan, Zenon
    <3>2. rhead' = None /\ tdCache' \in SUBSET Blocks
      BY <2>3, Zenon DEF CommitReceipts, CacheTds, Types, TypeOK
    <3>3. UNCHANGED <<headers, bodies, tds, states, canon, lookup, headBlock, headHeader, headFast, currentBlock,
                      currentHeader, currentFast, futureBlocks, batch, hbatch, ready, index, rleft,
                      lead, rewinds, rollbacks, crashes, panicked>>
      BY <2>3, Zenon DEF CommitReceipts, disk, heads, import, counters
    <3> QED
      BY <3>1, <3>2, <3>3, Zenon DEF Types, TypeOK
  <2> QED
    BY <2>1, <2>2, <2>3, Zenon
\* Rollback keeps the types.
<1>RollbackTypes. ASSUME Foundations, Types, NEW n \in Heights, Rollback(n)
                  PROVE  Types'
  <2> USE <1>RollbackTypes
  <2>1. writes' \in Seq(Puts)
    BY RollbackPlanned, RollbackPlanProperties, Zenon DEF Types, TypeOK
  <2>2. rollbacks' \in 0..MaxRollbacks
    <3>1. rollbacks < MaxRollbacks /\ rollbacks' = rollbacks + 1
      BY ZenonT(40) DEF Rollback
    <3>2. rollbacks \in 0..MaxRollbacks
      BY Zenon DEF Types, TypeOK
    <3> QED
      BY <3>1, <3>2, InputAssumption
  <2>3. UNCHANGED <<headers, bodies, tds, states, canon, lookup, headBlock, headHeader, headFast, currentBlock,
                    currentHeader, currentFast, tdCache, futureBlocks, batch, hbatch, ready, index, rleft,
                    rhead, lead, rewinds, crashes, panicked>>
    BY Zenon DEF Rollback, disk, heads, import, fast
  <2> QED
    BY <2>1, <2>2, <2>3, ZenonT(30) DEF Types, TypeOK
\* The steps that write nothing keep the types.
<1>QuietTypes. ASSUME Foundations, Types
               PROVE  /\ \A chain \in Chains : InsertChain(chain) => Types'
                      /\ ProcFutureBlocks => Types'
                      /\ \A p \in Procs : IndexBlock(p) => Types'
                      /\ \A chain \in HeaderChains : InsertHeaderChain(chain) => Types'
                      /\ \A b \in Pivots : FastSyncCommitHead(b) => Types'
                      /\ Tick => Types'
                      /\ UNCHANGED vars => Types'
  <2> USE <1>QuietTypes
  <2>1. ASSUME NEW chain \in Chains, InsertChain(chain)
        PROVE  Types'
    <3>1. batch' \in Seq(Blocks \ {Genesis}) /\ batch' \in Seq(Blocks)
      <4>1. chain \in Seq(Blocks \ {Genesis}) /\ batch' = chain
        BY <2>1, InputAssumption, Zenon DEF InsertChain
      <4> QED
        BY <4>1
    <3>2. UNCHANGED <<headers, bodies, tds, states, canon, lookup, headBlock, headHeader, headFast, currentBlock,
                      currentHeader, currentFast, tdCache, futureBlocks, writes, hbatch, ready, index,
                      rleft, rhead, lead, rewinds, rollbacks, crashes, panicked>>
      BY <2>1, Zenon DEF InsertChain, disk, heads, fast, counters
    <3> QED
      BY <3>1, <3>2, Zenon DEF Types, TypeOK
  <2>2. ASSUME ProcFutureBlocks
        PROVE  Types'
    <3>1. batch' \in Seq(Blocks \ {Genesis}) /\ batch' \in Seq(Blocks)
      <4>1. futureBlocks \in SUBSET (Blocks \ {Genesis}) /\ batch' \in Orders(futureBlocks)
        BY <2>2, ZenonT(30) DEF ProcFutureBlocks, Types
      <4>2. IsFiniteSet(futureBlocks)
        BY <4>1, BlockAssumption, Zenon DEF Foundations, SubsetsFinite
      <4>3. batch' \in Seq(futureBlocks)
        BY <4>1, <4>2, OrderProperties, Zenon
      <4> QED
        BY <4>1, <4>3
    <3>2. UNCHANGED <<headers, bodies, tds, states, canon, lookup, headBlock, headHeader, headFast, currentBlock,
                      currentHeader, currentFast, tdCache, futureBlocks, writes, hbatch, ready, index,
                      rleft, rhead, lead, rewinds, rollbacks, crashes, panicked>>
      BY <2>2, ZenonT(30) DEF ProcFutureBlocks, disk, heads, fast, counters
    <3> QED
      BY <3>1, <3>2, Zenon DEF Types, TypeOK
  <2>3. ASSUME NEW p \in Procs, IndexBlock(p)
        PROVE  Types'
    <3>1. lookup' \in [Txs -> Blocks \cup {None}] /\ index' \in [Procs -> Blocks \cup {None}]
      BY <2>3, ZenonT(30) DEF IndexBlock, Types, TypeOK
    <3>2. UNCHANGED <<headers, bodies, tds, states, canon, headBlock, headHeader, headFast, currentBlock,
                      currentHeader, currentFast, tdCache, futureBlocks, writes, batch, hbatch, ready,
                      rleft, rhead, lead, rewinds, rollbacks, crashes, panicked>>
      BY <2>3, ZenonT(30) DEF IndexBlock, heads, fast, counters
    <3> QED
      BY <3>1, <3>2, ZenonT(30) DEF Types, TypeOK
  <2>4. ASSUME NEW chain \in HeaderChains, InsertHeaderChain(chain)
        PROVE  Types'
    <3>1. hbatch' \in Seq(Blocks \ {Genesis}) /\ hbatch' \in Seq(Blocks) /\ HeaderChains # {}
      <4>1. chain \in Seq(Blocks \ {Genesis}) /\ hbatch' = chain
        BY <2>4, InputAssumption, Zenon DEF InsertHeaderChain
      <4> QED
        BY <4>1
    <3>2. UNCHANGED <<headers, bodies, tds, states, canon, lookup, headBlock, headHeader, headFast, currentBlock,
                      currentHeader, currentFast, tdCache, futureBlocks, writes, batch, ready, index,
                      rleft, rhead, lead, rewinds, rollbacks, crashes, panicked>>
      BY <2>4, ZenonT(30) DEF InsertHeaderChain, disk, heads, fast, counters
    <3> QED
      BY <3>1, <3>2, Zenon DEF Types, TypeOK
  <2>5. ASSUME NEW b \in Pivots, FastSyncCommitHead(b)
        PROVE  Types'
    <3>1. states' \in SUBSET Blocks /\ currentBlock' \in Blocks
      BY <2>5, InputAssumption, Zenon DEF FastSyncCommitHead, Types, TypeOK
    <3>2. UNCHANGED <<headers, bodies, tds, canon, lookup, headBlock, headHeader, headFast,
                      currentHeader, currentFast, tdCache, futureBlocks, writes, batch, hbatch, ready, index,
                      rleft, rhead, lead, rewinds, rollbacks, crashes, panicked>>
      BY <2>5, Zenon DEF FastSyncCommitHead, import, fast, counters
    <3> QED
      BY <3>1, <3>2, ZenonT(30) DEF Types, TypeOK
  <2>6. ASSUME Tick
        PROVE  Types'
    <3>1. lead' \in [Blocks -> 0..2]
      <4>1. lead' = [b \in Blocks |-> IF lead[b] > 0 THEN lead[b] - 1 ELSE 0]
        BY <2>6, Zenon DEF Tick
      <4>2. \A b \in Blocks : lead[b] \in 0..2
        BY Zenon DEF Types, TypeOK
      <4>3. \A l \in 0..2 : (IF l > 0 THEN l - 1 ELSE 0) \in 0..2
        OBVIOUS
      <4> QED
        BY <4>1, <4>2, <4>3, Zenon
    <3>2. UNCHANGED <<headers, bodies, tds, states, canon, lookup, headBlock, headHeader, headFast, currentBlock,
                      currentHeader, currentFast, tdCache, futureBlocks, writes, batch, hbatch, ready, index,
                      rleft, rhead, rewinds, rollbacks, crashes, panicked>>
      BY <2>6, Zenon DEF Tick, disk, heads, import, fast, counters
    <3> QED
      BY <3>1, <3>2, ZenonT(40) DEF Types, TypeOK
  <2>7. ASSUME UNCHANGED vars
        PROVE  Types'
    BY <2>7, ZenonT(30) DEF Types, TypeOK, vars, disk, heads, import, fast, counters
  <2> QED
    BY <2>1, <2>2, <2>3, <2>4, <2>5, <2>6, <2>7, Zenon
<1>1. CASE Write
  BY <1>1, <1>WriteTypes, Zenon
<1>2. CASE ValidateNext
  BY <1>2, <1>ValidateNextTypes, Zenon
<1>3. CASE \E b \in Mined : Mine(b)
  BY <1>3, <1>MineTypes, Zenon
<1>4. CASE \E p \in Procs : WriteBlock(p)
  BY <1>4, <1>WriteBlockTypes, Zenon
<1>5. CASE \E n \in Heights : SetHead(n)
  BY <1>5, <1>SetHeadTypes, Zenon
<1>6. CASE Crash
  <2>1. crashes' \in 0..MaxCrashes /\ panicked' \in BOOLEAN
    <3>1. crashes < MaxCrashes /\ crashes' = crashes + 1 /\ panicked' = panicked
      BY <1>6, Zenon DEF Crash
    <3>2. crashes \in 0..MaxCrashes /\ panicked \in BOOLEAN
      BY Zenon DEF Types, TypeOK
    <3>3. crashes' \in 0..MaxCrashes
      BY <3>1, <3>2, InputAssumption
    <3> QED
      BY <3>1, <3>2, <3>3, Zenon
  <2> QED
    BY <1>6, <2>1, <1>RestartTypes, Zenon DEF Crash
<1>7. CASE Panic
  <2>1. crashes' \in 0..MaxCrashes /\ panicked' \in BOOLEAN
    BY <1>7, Zenon DEF Panic, Types, TypeOK
  <2> QED
    BY <1>7, <2>1, <1>RestartTypes, Zenon DEF Panic
<1>8. CASE WriteHeader
  BY <1>8, <1>WriteHeaderTypes, Zenon
<1>9. CASE \E n \in Heights : Rollback(n)
  BY <1>9, <1>RollbackTypes, Zenon
<1> QED
  BY <1>1, <1>2, <1>3, <1>4, <1>5, <1>6, <1>7, <1>8, <1>9, <1>QuietTypes, <1>ReceiptTypes, Zenon DEF Next

\* The types hold of the initial state.
LEMMA TypesInit ==
    ASSUME Init
    PROVE  Types
<1>1. Genesis \in Blocks /\ Number[Genesis] = 0 /\ 0 \in Heights /\ None \notin Blocks
  BY BlockAssumption, Zenon DEF Heights
<1>2. /\ <<>> \in Seq(Blocks \ {Genesis}) /\ <<>> \in Seq(Blocks) /\ <<>> \in Seq(Puts)
  BY EmptySequence, Zenon
<1>3. lead \in [Blocks -> 0..2] /\ 0 \in 0..MaxRewinds /\ 0 \in 0..MaxRollbacks /\ 0 \in 0..MaxCrashes
  BY BlockAssumption, InputAssumption DEF Init
<1> QED
  BY <1>1, <1>2, <1>3, ZenonT(30) DEF Init, Types, TypeOK

---------------------------------------------------------------------------
(* The database under all calls.                                           *)

\* To make a write moves the others forward in the plan.
LEMMA MadePositions ==
    ASSUME writes \in Seq(Puts), NEW op, NEW arg, Made(op, arg), NEW j \in DOMAIN writes'
    PROVE  /\ j + 1 \in DOMAIN writes /\ writes'[j] = writes[j + 1]
           /\ \A o, a : Before(writes, j + 1, o, a) => (o = op /\ a = arg) \/ Before(writes', j, o, a)
<1>1. writes' = Tail(writes) /\ writes # <<>> /\ writes[1].op = op /\ writes[1].arg = arg
  BY Zenon DEF Made
<1>2. /\ j + 1 \in DOMAIN writes /\ j \in Nat /\ writes'[j] = writes[j + 1]
      /\ \A i \in DOMAIN writes \ {1} : i - 1 \in DOMAIN writes' /\ writes'[i - 1] = writes[i]
  BY <1>1, TailPositions, Zenon
<1>3. ASSUME NEW o, NEW a, Before(writes, j + 1, o, a), ~(o = op /\ a = arg)
      PROVE  Before(writes', j, o, a)
  <2>1. PICK i \in 1..j : writes[i].op = o /\ writes[i].arg = a
    <3>1. (j + 1) - 1 = j
      BY <1>2, StepBack, Zenon
    <3> QED
      BY <1>3, <3>1, Zenon DEF Before
  <2>2. i # 1 /\ i \in DOMAIN writes
    <3>1. i # 1
      BY <1>1, <1>3, <2>1, Zenon
    <3>2. DOMAIN writes = 1..Len(writes) /\ Len(writes) \in Nat
      OBVIOUS
    <3>3. i \in 1..j /\ j \in Nat /\ j + 1 \in 1..Len(writes)
      BY <1>2, <2>1, <3>2, Zenon
    <3> QED
      BY <3>1, <3>2, <3>3
  <2>3. writes'[i - 1] = writes[i] /\ i - 1 \in 1..(j - 1)
    BY <1>2, <2>1, <2>2
  <2> QED
    BY <2>1, <2>3, Zenon DEF Before
<1> QED
  BY <1>2, <1>3, Zenon

\* A header is there, or is written, only after what it stands for; and what it
\* stands for is deleted only after the header.
Owned ==
    /\ headers \subseteq tds
    /\ HeaderChains = {} => headers \subseteq bodies
    /\ \A j \in DOMAIN writes : writes[j].op = "header" =>
          /\ writes[j].arg \in tds \/ Before(writes, j, "td", writes[j].arg)
          /\ HeaderChains = {} => writes[j].arg \in bodies \/ Before(writes, j, "body", writes[j].arg)
    /\ \A j \in DOMAIN writes : writes[j].op \in {"delBody", "delTd"} =>
          writes[j].arg \notin headers \/ Before(writes, j, "delHeader", writes[j].arg)

\* A plan that stores deletes nothing, writes one canonical block for a number
\* at most, and does not delete the canonical numbers it writes.
Consistent ==
    /\ \A b, c \in Blocks : Pending("header", b) \/ Pending("body", b) =>
          \A del \in Deletions : ~Pending(del, c)
    /\ \A b, c \in Blocks :
          Pending("canon", b) /\ Pending("canon", c) /\ Number[b] = Number[c] => b = c
    /\ \A b \in Blocks : Pending("canon", b) => ~Pending("uncanon", Number[b])
    /\ \A n \in Heights : canon[n] # None => Number[canon[n]] = n

\* The genesis block stays.
Rooted ==
    /\ Genesis \in Stored \cap states /\ canon[0] = Genesis
    /\ \A del \in Deletions : ~Pending(del, Genesis)
    /\ ~Pending("uncanon", 0)

\* Only the genesis block has the number 0.
LEMMA ZeroIsGenesis ==
    \A b \in Blocks : Number[b] = 0 => b = Genesis
<1>1. \A b \in Blocks \ {Genesis} : Number[Parent[b]] \in Nat /\ Number[b] = Number[Parent[b]] + 1
  BY BlockAssumption, Zenon
<1> QED
  BY <1>1

\* The inductive invariant of the database under all calls.
Base == Types /\ Owned /\ Consistent /\ Rooted

\* Every step keeps the invariant.
LEMMA BaseNext ==
    ASSUME Foundations, Base, [Next]_vars
    PROVE  Base'
\* A write keeps the order of header, body and total difficulty.
<1>OwnedWrite. ASSUME Types, Owned, Consistent, Write
               PROVE  Owned'
  <2> USE <1>OwnedWrite
  <2>1. writes \in Seq(Puts)
    BY Zenon DEF Types, TypeOK
  <2>2. PICK op, arg : Made(op, arg)
    BY <2>1, WriteMakes, ZenonT(40)
  <2>3. /\ 1 \in DOMAIN writes /\ writes[1].op = op /\ writes[1].arg = arg
        /\ \A o, a : ~Before(writes, 1, o, a)
    <3>1. writes # <<>> /\ writes[1].op = op /\ writes[1].arg = arg
      BY <2>2, Zenon DEF Made
    <3>2. 1 \in DOMAIN writes
      BY <2>1, <3>1, TailPositions, Zenon
    <3>3. \A i \in 1..(1 - 1) : FALSE
      OBVIOUS
    <3> QED
      BY <3>1, <3>2, <3>3, Zenon DEF Before
  <2>4. \A o, a : Pending(o, a) <=> (o = op /\ a = arg) \/ Pending(o, a)'
    BY <2>1, <2>2, MadePending, Zenon
  <2>5. /\ op = "header" => arg \in tds /\ (HeaderChains = {} => arg \in bodies)
        /\ op \in {"delBody", "delTd"} => arg \notin headers
    BY <2>3, Zenon DEF Owned
  <2>6. headers' \subseteq tds' /\ (HeaderChains = {} => headers' \subseteq bodies')
    BY <2>2, <2>5, Zenon DEF Made, Owned
  <2>7. ASSUME NEW j \in DOMAIN writes'
        PROVE  /\ j + 1 \in DOMAIN writes /\ writes'[j] = writes[j + 1]
               /\ \A o, a : Before(writes, j + 1, o, a) => (o = op /\ a = arg) \/ Before(writes', j, o, a)
    BY <2>1, <2>2, MadePositions
  <2>8. \A j \in DOMAIN writes :
            /\ Pending(writes[j].op, writes[j].arg)
            /\ writes[j].op \in BlockOps => writes[j].arg \in Blocks
    <3>1. \A j \in DOMAIN writes : writes[j] \in Puts
      BY <2>1
    <3> QED
      BY <3>1, Zenon DEF Pending, Has, Puts, BlockOps
  <2>9. ASSUME NEW j \in DOMAIN writes', writes'[j].op = "header"
        PROVE  /\ writes'[j].arg \in tds' \/ Before(writes', j, "td", writes'[j].arg)
               /\ HeaderChains = {} => writes'[j].arg \in bodies' \/ Before(writes', j, "body", writes'[j].arg)
    <3>1. /\ writes'[j].arg \in tds \/ Before(writes, j + 1, "td", writes'[j].arg)
          /\ HeaderChains = {} => writes'[j].arg \in bodies \/ Before(writes, j + 1, "body", writes'[j].arg)
      BY <2>7, <2>9, Zenon DEF Owned
    <3>2. op \notin Deletions
      <4>1. Pending("header", writes'[j].arg) /\ writes'[j].arg \in Blocks
        BY <2>7, <2>8, <2>9, Zenon DEF BlockOps
      <4>2. Pending(op, arg)
        BY <2>4, Zenon
      <4>3. op \in Deletions => arg \in Blocks
        BY <2>2, Zenon DEF Made, Deletions, BlockOps
      <4> QED
        BY <4>1, <4>2, <4>3, Zenon DEF Consistent
    <3>3. tds \subseteq tds' /\ bodies \subseteq bodies'
      BY <2>2, <3>2, Zenon DEF Made, Deletions
    <3>4. Before(writes, j + 1, "td", writes'[j].arg) =>
             writes'[j].arg \in tds' \/ Before(writes', j, "td", writes'[j].arg)
      BY <2>2, <2>7, Zenon DEF Made
    <3>5. Before(writes, j + 1, "body", writes'[j].arg) =>
             writes'[j].arg \in bodies' \/ Before(writes', j, "body", writes'[j].arg)
      BY <2>2, <2>7, Zenon DEF Made
    <3> QED
      BY <3>1, <3>3, <3>4, <3>5, Zenon
  <2>10. ASSUME NEW j \in DOMAIN writes', writes'[j].op \in {"delBody", "delTd"}
         PROVE  writes'[j].arg \notin headers' \/ Before(writes', j, "delHeader", writes'[j].arg)
    <3>1. writes'[j].arg \notin headers \/ Before(writes, j + 1, "delHeader", writes'[j].arg)
      BY <2>7, <2>10, Zenon DEF Owned
    <3>2. op # "header"
      <4>1. Pending(writes'[j].op, writes'[j].arg) /\ writes'[j].arg \in Blocks
        BY <2>7, <2>8, <2>10, ZenonT(40) DEF BlockOps
      <4>2. Pending(op, arg)
        BY <2>4, Zenon
      <4>3. op = "header" => arg \in Blocks
        BY <2>2, Zenon DEF Made
      <4> QED
        BY <2>10, <4>1, <4>2, <4>3, Zenon DEF Consistent, Deletions
    <3>3. headers' \subseteq headers /\ (op = "delHeader" => arg \notin headers')
      BY <2>2, <3>2, Zenon DEF Made
    <3> QED
      BY <2>7, <3>1, <3>3, Zenon
  <2> QED
    BY <2>6, <2>9, <2>10, Zenon DEF Owned
\* A write keeps the plan free of contradictions, and the genesis block.
<1>ConsistentWrite. ASSUME Types, Consistent, Rooted, Write
                    PROVE  Consistent' /\ Rooted'
  <2> USE <1>ConsistentWrite
  <2>1. writes \in Seq(Puts)
    BY Zenon DEF Types, TypeOK
  <2>2. PICK op, arg : Made(op, arg)
    BY <2>1, WriteMakes, Zenon
  <2>3. \A o, a : Pending(o, a) <=> (o = op /\ a = arg) \/ Pending(o, a)'
    BY <2>1, <2>2, MadePending, Zenon
  <2>4. /\ \A b, c \in Blocks : Pending("header", b)' \/ Pending("body", b)' =>
            \A del \in Deletions : ~Pending(del, c)'
        /\ \A b, c \in Blocks :
            Pending("canon", b)' /\ Pending("canon", c)' /\ Number[b] = Number[c] => b = c
        /\ \A b \in Blocks : Pending("canon", b)' => ~Pending("uncanon", Number[b])'
        /\ \A del \in Deletions : ~Pending(del, Genesis)'
        /\ ~Pending("uncanon", 0)'
    BY <2>3, Zenon DEF Consistent, Rooted
  <2>5. op \in BlockOps => arg \in Blocks /\ Number[arg] \in Heights
    BY <2>2, Zenon DEF Made, BlockOps, Heights
  <2>6. ~(op \in Deletions /\ arg = Genesis) /\ ~(op = "uncanon" /\ arg = 0)
    BY <2>3, Zenon DEF Rooted
  <2>7. \A n \in Heights : canon'[n] # None => Number[canon'[n]] = n
    <3>1. canon \in [Heights -> Blocks \cup {None}]
      BY Zenon DEF Types, TypeOK
    <3> QED
      BY <2>2, <2>5, <3>1, Zenon DEF Made, Consistent, BlockOps
  <2>8. canon'[0] = Genesis
    <3>1. canon \in [Heights -> Blocks \cup {None}] /\ 0 \in Heights
      BY BlockAssumption, Zenon DEF Types, TypeOK, Heights
    <3>2. op = "canon" /\ Number[arg] = 0 => arg = Genesis
      BY <2>5, ZeroIsGenesis, Zenon DEF BlockOps
    <3> QED
      BY <2>2, <2>5, <2>6, <3>1, <3>2, Zenon DEF Made, Rooted, BlockOps
  <2>9. Genesis \in Stored' \cap states'
    BY <2>2, <2>6, Zenon DEF Made, Rooted, Stored, Deletions
  <2> QED
    BY <2>4, <2>7, <2>8, <2>9, ZenonT(40) DEF Consistent, Rooted
\* A step that makes a plan, and one that has nothing to do with the database.
<1>PlanStarts. ASSUME Owned, Consistent, Rooted, UNCHANGED <<headers, bodies, tds, canon, states>>,
                      Guarded(writes', {"header"}, "td"),
                      HeaderChains = {} => Guarded(writes', {"header"}, "body"),
                      Guarded(writes', {"delBody", "delTd"}, "delHeader"),
                      \A b, c \in Blocks : Has(writes', "header", b) \/ Has(writes', "body", b) =>
                         \A del \in Deletions : ~Has(writes', del, c),
                      \A b, c \in Blocks :
                         Has(writes', "canon", b) /\ Has(writes', "canon", c) /\ Number[b] = Number[c] => b = c,
                      \A b \in Blocks : Has(writes', "canon", b) => ~Has(writes', "uncanon", Number[b]),
                      \A del \in Deletions : ~Has(writes', del, Genesis),
                      ~Has(writes', "uncanon", 0)
               PROVE  Owned' /\ Consistent' /\ Rooted'
  <2> USE <1>PlanStarts
  <2>1. Owned'
    BY Zenon DEF Owned, Guarded
  <2>2. Consistent'
    BY Zenon DEF Consistent, Pending
  <2>3. Rooted'
    BY Zenon DEF Rooted, Pending, Stored
  <2> QED
    BY <2>1, <2>2, <2>3, Zenon
\* A step that finds nothing to write.
<1>PlanEmpty.
      ASSUME Owned, Consistent, Rooted, UNCHANGED <<headers, bodies, tds, canon, states>>, writes' = <<>>
      PROVE  Owned' /\ Consistent' /\ Rooted'
  <2> USE <1>PlanEmpty
  <2>1. DOMAIN writes' = {}
    OBVIOUS
  <2>2. \A op, a : ~Has(writes', op, a)
    BY HasNothing, Zenon
  <2>3. Owned'
    BY <2>1, ZenonT(40) DEF Owned
  <2>4. Consistent' /\ Rooted'
    BY <2>2, Zenon DEF Consistent, Rooted, Pending, Stored
  <2> QED
    BY <2>3, <2>4, Zenon
\* A step that leaves the plan alone and only adds bodies and states.
<1>PlanKept. ASSUME Owned, Consistent, Rooted, UNCHANGED <<headers, tds, canon, writes>>,
                    bodies \subseteq bodies', states \subseteq states'
             PROVE  Owned' /\ Consistent' /\ Rooted'
  <2> USE <1>PlanKept
  <2>1. Owned'
    BY Zenon DEF Owned
  <2>2. Consistent' /\ Rooted'
    BY Zenon DEF Consistent, Rooted, Pending, Stored
  <2> QED
    BY <2>1, <2>2, Zenon
\* WriteBlock starts a plan that keeps the invariant.
<1>WriteBlockBase. ASSUME Foundations, Base, NEW p \in Procs, WriteBlock(p)
                   PROVE  Owned' /\ Consistent' /\ Rooted'
  <2> USE <1>WriteBlockBase
  <2> DEFINE b == ready[p]
  <2>1. UNCHANGED <<headers, bodies, tds, canon, states>>
    BY Zenon DEF WriteBlock, disk
  <2>2. b \in Blocks \ {Genesis} /\ currentBlock \in Blocks /\ (writes' = <<>> \/ writes' = BlockPlan(b))
    BY WriteBlockPlan, Zenon DEF Base, Types, TypeOK
  <2> HIDE DEF b
  <2>3. CASE writes' = <<>>
    BY <2>1, <2>3, <1>PlanEmpty, Zenon DEF Base
  <2>4. CASE writes' = BlockPlan(b)
    <3>1. /\ BlockPlan(b) \in Seq(Puts)
          /\ Guarded(BlockPlan(b), {"header"}, "td") /\ Guarded(BlockPlan(b), {"header"}, "body")
          /\ \A op, a : Has(BlockPlan(b), op, a) =>
                   \/ a = b /\ op \in {"td", "body", "header", "unfuture"}
                   \/ /\ Heavier(b) /\ a \in NewChain(b) \cup {b}
                      /\ op \in {"canon", "headBlock", "headHeader", "headFast", "index"}
                   \/ /\ Heavier(b) /\ Parent[b] # currentBlock
                      /\ op = "unindex" /\ a \in DroppedTxs(b)
      BY <2>2, BlockPlanProperties, Zenon
    <3>2. \A op \in Deletions \cup {"uncanon"} : \A a : ~Has(BlockPlan(b), op, a)
      BY <3>1, Zenon DEF Deletions
    <3>3. Guarded(BlockPlan(b), {"delBody", "delTd"}, "delHeader")
      BY <3>1, <3>2, GuardedWithout, ZenonT(40) DEF Deletions
    <3>4. \A a, c \in Blocks :
             Has(BlockPlan(b), "canon", a) /\ Has(BlockPlan(b), "canon", c) /\ Number[a] = Number[c] => a = c
      <4>1. \A a : Has(BlockPlan(b), "canon", a) => a \in Ancestors[b]
        <5>1. NewChain(b) \subseteq Ancestors[b] /\ b \in Ancestors[b]
          BY <2>2, NewChainOfChild, Zenon
        <5>2. \A a : Has(BlockPlan(b), "canon", a) => a \in NewChain(b) \cup {b}
          <6>1. "canon" \notin {"td", "body", "header", "unfuture"} /\ "canon" # "unindex"
            OBVIOUS
          <6> QED
            BY <3>1, <6>1, Zenon
        <5> QED
          BY <5>1, <5>2, Zenon
      <4>2. \A a, c \in Ancestors[b] : Number[a] = Number[c] => a = c
        BY <2>2, AncestorNumbers, Zenon
      <4> QED
        BY <4>1, <4>2, Zenon
    <3> QED
      BY <2>1, <2>4, <3>1, <3>2, <3>3, <3>4, <1>PlanStarts, Zenon DEF Base
  <2> QED
    BY <2>2, <2>3, <2>4, Zenon
\* SetHead starts a plan that keeps the invariant.
<1>SetHeadBase. ASSUME Foundations, Base, NEW n \in Heights, SetHead(n)
                PROVE  Owned' /\ Consistent' /\ Rooted'
  <2> USE <1>SetHeadBase
  <2>1. UNCHANGED <<headers, bodies, tds, canon, states>>
    BY ZenonT(40) DEF SetHead, disk
  <2>2. currentHeader \in Blocks /\ currentBlock \in Blocks /\ currentFast \in Blocks
    BY Zenon DEF Base, Types, TypeOK
  <2>3. PICK drop \in Orders(Dropped(n)) : writes' = HeadPlan(n, drop)
    BY SetHeadPlan, Zenon
  <2>4. /\ writes' \in Seq(Puts) /\ Guarded(writes', {"delBody", "delTd"}, "delHeader")
        /\ \A op, a : Has(writes', op, a) <=>
                   \/ op = "uncanon" /\ a \in Lowered(n)
                   \/ op \in Deletions /\ a \in Dropped(n)
                   \/ op = "headBlock" /\ a = Rewound(currentBlock, n, Stored)
                   \/ op = "headHeader" /\ a = Rewound(currentHeader, n, headers)
                   \/ op = "headFast" /\ a = Rewound(currentFast, n, Stored)
    BY <2>2, <2>3, HeadPlanProperties, Zenon
  <2>5. \A op \in {"header", "body", "canon"} : \A a : ~Has(writes', op, a)
    BY <2>4, Zenon DEF Deletions
  <2>6. Guarded(writes', {"header"}, "td") /\ Guarded(writes', {"header"}, "body")
    BY <2>4, <2>5, GuardedWithout, Zenon
  <2>7. n \in Nat /\ Number[Genesis] = 0
    <3>1. Number \in [Blocks -> Nat] /\ Number[Genesis] = 0
      BY BlockAssumption, Zenon
    <3> QED
      BY <3>1, Zenon DEF Heights
  <2>8. Genesis \notin Dropped(n) /\ 0 \notin Lowered(n)
    <3>1. ~(0 > n)
      BY <2>7
    <3>2. \A a \in Dropped(n) : Number[a] > n
      BY <2>2, DroppedType, Zenon
    <3> QED
      BY <2>7, <3>1, <3>2, Zenon DEF Lowered
  <2>9. (\A del \in Deletions : ~Has(writes', del, Genesis)) /\ ~Has(writes', "uncanon", 0)
    BY <2>4, <2>8 DEF Deletions
  <2> QED
    BY <2>1, <2>4, <2>5, <2>6, <2>9, <1>PlanStarts, Zenon DEF Base
\* writeHeader starts a plan that keeps the invariant.
<1>WriteHeaderBase. ASSUME Foundations, Base, WriteHeader
                    PROVE  Owned' /\ Consistent' /\ Rooted'
  <2> USE <1>WriteHeaderBase
  <2> DEFINE h == Head(hbatch)
  <2>1. UNCHANGED <<headers, bodies, tds, canon, states>>
    BY Zenon DEF WriteHeader, disk
  <2>2. /\ h \in Blocks \ {Genesis} /\ HeaderChains # {} /\ currentBlock \in Blocks
        /\ (writes' = <<>> \/ writes' = HeaderPlan(h))
    BY WriteHeaderPlan, Zenon DEF Base, Types, TypeOK
  <2> HIDE DEF h
  <2>3. CASE writes' = <<>>
    BY <2>1, <2>3, <1>PlanEmpty, Zenon DEF Base
  <2>4. CASE writes' = HeaderPlan(h)
    <3>1. /\ writes' \in Seq(Puts) /\ Guarded(writes', {"header"}, "td")
          /\ \A op, a : Has(writes', op, a) =>
                   \/ op \in {"td", "header"} /\ a = h
                   \/ op = "uncanon" /\ a \in NumbersAbove(h)
                   \/ op = "canon" /\ a \in Found(h) \cup {h}
                   \/ op \in {"headHeader", "panic"} /\ a = h
      BY <2>2, <2>4, HeaderPlanProperties, ExtendHeadersPlan
    <3>2. \A op \in Deletions : \A a : ~Has(writes', op, a)
      BY <3>1, Zenon DEF Deletions
    <3>3. Guarded(writes', {"delBody", "delTd"}, "delHeader")
      BY <3>1, <3>2, GuardedWithout, Zenon DEF Deletions
    <3>4. Found(h) \cup {h} \in SUBSET Ancestors[h]
      BY <2>2, AncestorsType, Zenon DEF Found, StaleAncestors
    <3>5. \A a : Has(writes', "canon", a) => a \in Ancestors[h]
      BY <3>1, <3>4, Zenon
    <3>6. \A a, c \in Blocks :
             Has(writes', "canon", a) /\ Has(writes', "canon", c) /\ Number[a] = Number[c] => a = c
      <4>1. \A a, c \in Ancestors[h] : Number[a] = Number[c] => a = c
        BY <2>2, AncestorNumbers, Zenon
      <4> QED
        BY <3>5, <4>1, Zenon
    <3>7. \A a : Has(writes', "uncanon", a) => a > Number[h]
      BY <3>1 DEF NumbersAbove
    <3>8. \A a \in Blocks : Has(writes', "canon", a) => ~Has(writes', "uncanon", Number[a])
      <4>1. \A a \in Blocks : Number[a] \in Nat
        BY BlockAssumption, Zenon
      <4>2. \A a : Has(writes', "canon", a) => Number[a] <= Number[h]
        BY <2>2, <3>5, AncestorNumbers, Zenon
      <4> QED
        BY <2>2, <3>7, <4>1, <4>2
    <3>9. ~Has(writes', "uncanon", 0)
      <4>1. Number[h] \in Nat
        BY <2>2, BlockAssumption, Zenon
      <4> QED
        BY <3>7, <4>1
    <3> QED
      BY <2>1, <2>2, <3>1, <3>2, <3>3, <3>6, <3>8, <3>9, <1>PlanStarts, ZenonT(40) DEF Base
  <2> QED
    BY <2>2, <2>3, <2>4, Zenon
\* A plan of moves of the heads.
<1>HeadsOnlyBase.
      ASSUME Base, UNCHANGED <<headers, bodies, tds, canon, states>>, writes' \in Seq(Puts),
             \A op, a : Has(writes', op, a) => op \in {"headHeader", "headFast", "headBlock", "panic"}
      PROVE  Owned' /\ Consistent' /\ Rooted'
  <2> USE <1>HeadsOnlyBase
  <2>1. \A op \in Deletions \cup {"header", "body", "canon", "uncanon"} : \A a : ~Has(writes', op, a)
    BY Zenon DEF Deletions
  <2>2. /\ Guarded(writes', {"header"}, "td") /\ Guarded(writes', {"header"}, "body")
        /\ Guarded(writes', {"delBody", "delTd"}, "delHeader")
    BY <2>1, GuardedWithout, Zenon DEF Deletions
  <2> QED
    BY <2>1, <2>2, <1>PlanStarts, Zenon DEF Base
<1>1. Types'
  BY TypesNext, Zenon DEF Base
<1>2. CASE Write
  BY <1>1, <1>2, <1>OwnedWrite, <1>ConsistentWrite, Zenon DEF Base
<1>3. CASE \E p \in Procs : WriteBlock(p)
  BY <1>1, <1>3, <1>WriteBlockBase, Zenon DEF Base
<1>4. CASE \E n \in Heights : SetHead(n)
  BY <1>1, <1>4, <1>SetHeadBase, Zenon DEF Base
<1>5. CASE Crash \/ Panic
  <2>1. UNCHANGED <<headers, bodies, tds, canon, states>> /\ writes' = <<>>
    BY <1>5, Zenon DEF Crash, Panic, Restart
  <2> QED
    BY <1>1, <2>1, <1>PlanEmpty, Zenon DEF Base
<1>6. CASE WriteHeader
  BY <1>1, <1>6, <1>WriteHeaderBase, Zenon DEF Base
<1>7. CASE CommitReceipts
  <2>1. UNCHANGED <<headers, bodies, tds, canon, states>>
    BY <1>7, Zenon DEF CommitReceipts, disk
  <2>2. /\ writes' \in Seq(Puts)
        /\ \A op, a : Has(writes', op, a) => op \in {"headHeader", "headFast", "headBlock", "panic"}
    BY <1>7, CommitReceiptsPlan, Zenon DEF Base
  <2> QED
    BY <1>1, <2>1, <2>2, <1>HeadsOnlyBase, Zenon DEF Base
<1>8. CASE \E n \in Heights : Rollback(n)
  <2>1. PICK n \in Heights : Rollback(n)
    BY <1>8, Zenon
  <2>2. UNCHANGED <<headers, bodies, tds, canon, states>>
    BY <2>1, ZenonT(30) DEF Rollback, disk
  <2>3. /\ writes' \in Seq(Puts)
        /\ \A op, a : Has(writes', op, a) => op \in {"headHeader", "headFast", "headBlock", "panic"}
    BY <2>1, RollbackPlanned, RollbackPlanProperties, ZenonT(40) DEF Base, Types, TypeOK
  <2> QED
    BY <1>1, <2>2, <2>3, <1>HeadsOnlyBase, Zenon DEF Base
<1>9. CASE \/ \E chain \in Chains : InsertChain(chain)
           \/ ProcFutureBlocks \/ ValidateNext
           \/ \E b \in Mined : Mine(b)
           \/ \E p \in Procs : IndexBlock(p)
           \/ \E chain \in HeaderChains : InsertHeaderChain(chain)
           \/ \E chain \in ReceiptChains : InsertReceiptChain(chain)
           \/ \E b \in Blocks : WriteBody(b)
           \/ \E b \in Pivots : FastSyncCommitHead(b)
           \/ Tick \/ UNCHANGED vars
  <2>1. UNCHANGED <<headers, tds, canon, writes>> /\ bodies \subseteq bodies' /\ states \subseteq states'
    BY <1>9, Zenon DEF InsertChain, ProcFutureBlocks, ValidateNext, Mine, IndexBlock, InsertHeaderChain,
                InsertReceiptChain, WriteBody, FastSyncCommitHead, Tick, vars, disk
  <2> QED
    BY <1>1, <2>1, <1>PlanKept, Zenon DEF Base
<1> QED
  BY <1>2, <1>3, <1>4, <1>5, <1>6, <1>7, <1>8, <1>9, Zenon DEF Next

\* The invariant holds of the initial state.
LEMMA BaseInit ==
    ASSUME Init
    PROVE  Base
<1>1. Genesis \in Blocks /\ Number[Genesis] = 0 /\ 0 \in Heights /\ Genesis # None
  BY BlockAssumption, Zenon DEF Heights
<1>2. \A op, a : ~Pending(op, a)
  BY HasNothing, Zenon DEF Init, Pending
<1>3. DOMAIN writes = {}
  BY DEF Init
<1>4. Owned
  BY <1>3, ZenonT(40) DEF Init, Owned
<1>5. Consistent
  BY <1>1, <1>2, Zenon DEF Init, Consistent
<1>6. Rooted
  BY <1>1, <1>2, Zenon DEF Init, Rooted, Stored
<1> QED
  BY <1>4, <1>5, <1>6, TypesInit, Zenon DEF Base

---------------------------------------------------------------------------
(* The database and the heads as they will be when the plan has been made.  *)

\* The headers when the plan has been made.
PlannedHeaders ==
    {b \in Blocks : (b \in headers \/ Pending("header", b)) /\ ~Pending("delHeader", b)}

\* The bodies when the plan has been made.
PlannedBodies ==
    {b \in Blocks : (b \in bodies \/ Pending("body", b)) /\ ~Pending("delBody", b)}

\* The blocks GetBlock finds when the plan has been made.
PlannedStored == PlannedHeaders \cap PlannedBodies

\* a will be the canonical block of its number.
Canonical(a) ==
    \/ Pending("canon", a)
    \/ /\ canon[Number[a]] = a /\ ~Pending("uncanon", Number[a])
       /\ \A c \in Blocks : Pending("canon", c) => Number[c] # Number[a]

\* The head that the writes key move, and that is cur now, will move to b or be b.
Target(key, cur, b) == Pending(key, b) \/ (b = cur /\ \A c \in Blocks : ~Pending(key, c))

\* Without a plan everything is planned to be as it is.
LEMMA NothingPlanned ==
    ASSUME Types, writes = <<>>
    PROVE  /\ PlannedHeaders = headers /\ PlannedBodies = bodies /\ PlannedStored = Stored
           /\ \A a \in Blocks : Canonical(a) <=> canon[Number[a]] = a
           /\ \A key, cur : \A b \in Blocks : Target(key, cur, b) <=> b = cur
           /\ \A op, a : ~Pending(op, a)
<1>1. \A op, a : ~Pending(op, a)
  BY HasNothing, Zenon DEF Pending
<1>2. headers \in SUBSET Blocks /\ bodies \in SUBSET Blocks
  BY Zenon DEF Types, TypeOK
<1>3. PlannedHeaders = headers /\ PlannedBodies = bodies
  BY <1>1, <1>2, Zenon DEF PlannedHeaders, PlannedBodies
<1> QED
  BY <1>1, <1>3, Zenon DEF PlannedStored, Stored, Canonical, Target

\* To make a write changes nothing of what is planned.
LEMMA MadePlanned ==
    ASSUME Base, NEW op, NEW arg, Made(op, arg)
    PROVE  /\ PlannedHeaders' = PlannedHeaders /\ PlannedBodies' = PlannedBodies
           /\ PlannedStored' = PlannedStored
           /\ \A a \in Blocks : Canonical(a)' <=> Canonical(a)
<1>1. writes \in Seq(Puts) /\ headers \in SUBSET Blocks /\ bodies \in SUBSET Blocks
  BY Zenon DEF Base, Types, TypeOK
<1>2. \A o, a : Pending(o, a) <=> (o = op /\ a = arg) \/ Pending(o, a)'
  BY <1>1, MadePending, Zenon
<1>3. op \in BlockOps => arg \in Blocks /\ Number[arg] \in Heights
  BY Zenon DEF Made, BlockOps, Heights
<1>4. /\ \A b, c \in Blocks : Pending("header", b) \/ Pending("body", b) =>
            ~Pending("delHeader", c) /\ ~Pending("delBody", c)
  BY Zenon DEF Base, Consistent, Deletions
<1>5. ASSUME NEW b \in Blocks
      PROVE  b \in PlannedHeaders' <=> b \in PlannedHeaders
  <2>1. headers' = IF op = "header" THEN headers \cup {arg}
                   ELSE IF op = "delHeader" THEN headers \ {arg} ELSE headers
    BY Zenon DEF Made
  <2>2. b \in PlannedHeaders' <=> (b \in headers' \/ Pending("header", b)') /\ ~Pending("delHeader", b)'
    BY Zenon DEF PlannedHeaders
  <2>3. b \in PlannedHeaders <=> (b \in headers \/ Pending("header", b)) /\ ~Pending("delHeader", b)
    BY Zenon DEF PlannedHeaders
  <2> QED
    BY <1>2, <1>3, <1>4, <2>1, <2>2, <2>3, Zenon DEF BlockOps
<1>6. ASSUME NEW b \in Blocks
      PROVE  b \in PlannedBodies' <=> b \in PlannedBodies
  <2>1. bodies' = IF op = "body" THEN bodies \cup {arg}
                   ELSE IF op = "delBody" THEN bodies \ {arg} ELSE bodies
    BY Zenon DEF Made
  <2>2. b \in PlannedBodies' <=> (b \in bodies' \/ Pending("body", b)') /\ ~Pending("delBody", b)'
    BY Zenon DEF PlannedBodies
  <2>3. b \in PlannedBodies <=> (b \in bodies \/ Pending("body", b)) /\ ~Pending("delBody", b)
    BY Zenon DEF PlannedBodies
  <2> QED
    BY <1>2, <1>3, <1>4, <2>1, <2>2, <2>3, Zenon DEF BlockOps
<1>7. PlannedHeaders' = PlannedHeaders /\ PlannedBodies' = PlannedBodies
  <2>1. PlannedHeaders \in SUBSET Blocks /\ PlannedHeaders' \in SUBSET Blocks
        /\ PlannedBodies \in SUBSET Blocks /\ PlannedBodies' \in SUBSET Blocks
    BY Zenon DEF PlannedHeaders, PlannedBodies
  <2> QED
    BY <1>5, <1>6, <2>1, Zenon
<1>8. ASSUME NEW a \in Blocks
      PROVE  Canonical(a)' <=> Canonical(a)
  <2>1. /\ canon \in [Heights -> Blocks \cup {None}] /\ Number[a] \in Heights /\ None \notin Blocks
        /\ canon' = IF op = "canon" THEN [canon EXCEPT ![Number[arg]] = arg]
                    ELSE IF op = "uncanon" THEN [canon EXCEPT ![arg] = None] ELSE canon
    BY BlockAssumption, Zenon DEF Base, Types, TypeOK, Made, Heights
  <2>2. CASE op = "canon"
    <3>1. /\ arg \in Blocks /\ Number[arg] \in Heights /\ Pending("canon", arg)
          /\ canon'[Number[a]] = IF Number[a] = Number[arg] THEN arg ELSE canon[Number[a]]
      BY <1>2, <1>3, <2>1, <2>2, ZenonT(30) DEF BlockOps
    <3>2. \A c \in Blocks : Pending("canon", c) /\ Number[c] = Number[arg] => c = arg
      BY <3>1, Zenon DEF Base, Consistent
    <3>3. ~Pending("uncanon", Number[arg])
      BY <3>1, Zenon DEF Base, Consistent
    <3>4. CASE Number[a] = Number[arg]
      <4>1. Canonical(a) <=> a = arg
        BY <3>1, <3>2, <3>4, Zenon DEF Canonical
      <4>2. Canonical(a)' <=> a = arg
        <5>1. canon'[Number[a]] = arg /\ ~Pending("uncanon", Number[a])'
          BY <1>2, <3>1, <3>3, <3>4, Zenon
        <5>2. \A c \in Blocks : Pending("canon", c)' /\ Number[c] = Number[arg] => c = arg
          BY <1>2, <3>2, Zenon
        <5> QED
          BY <3>1, <3>4, <5>1, <5>2, Zenon DEF Canonical
      <4> QED
        BY <4>1, <4>2, Zenon
    <3>5. CASE Number[a] # Number[arg]
      <4>1. canon'[Number[a]] = canon[Number[a]]
        BY <3>1, <3>5, Zenon
      <4>2. (Pending("uncanon", Number[a])' <=> Pending("uncanon", Number[a])) /\ (Pending("canon", a)' <=> Pending("canon", a))
        BY <1>2, <2>2, <3>5, Zenon
      <4>3. \A c \in Blocks : Number[c] = Number[a] => (Pending("canon", c)' <=> Pending("canon", c))
        BY <1>2, <2>2, <3>5, Zenon
      <4> QED
        BY <4>1, <4>2, <4>3, Zenon DEF Canonical
    <3> QED
      BY <3>4, <3>5, Zenon
  <2>3. CASE op = "uncanon"
    <3>1. arg \in Heights /\ canon'[Number[a]] = IF Number[a] = arg THEN None ELSE canon[Number[a]]
      BY <2>1, <2>3, Zenon DEF Made, BlockOps
    <3>2. /\ \A c \in Blocks : Pending("canon", c)' <=> Pending("canon", c)
          /\ Pending("uncanon", Number[a]) <=> Number[a] = arg \/ Pending("uncanon", Number[a])'
      BY <1>2, <2>3, Zenon
    <3> QED
      BY <2>1, <3>1, <3>2, Zenon DEF Canonical
  <2>4. CASE op \notin {"canon", "uncanon"}
    <3>1. /\ canon' = canon
          /\ \A c \in Blocks : Pending("canon", c)' <=> Pending("canon", c)
          /\ Pending("uncanon", Number[a])' <=> Pending("uncanon", Number[a])
      BY <1>2, <2>1, <2>4, Zenon
    <3> QED
      BY <3>1, Zenon DEF Canonical
  <2> QED
    BY <2>2, <2>3, <2>4, Zenon
<1> QED
  BY <1>7, <1>8, Zenon DEF PlannedStored

\* To make a write adds nothing to where a head will move.
LEMMA MadeTarget ==
    ASSUME writes \in Seq(Puts), NEW op, NEW arg, Made(op, arg), NEW key, NEW cur, NEW next,
           next = IF op = key THEN arg ELSE cur, NEW b \in Blocks,
           Pending(key, b)' \/ (b = next /\ \A c \in Blocks : ~Pending(key, c)')
    PROVE  Target(key, cur, b)
<1>1. \A o, a : Pending(o, a) <=> (o = op /\ a = arg) \/ Pending(o, a)'
  BY MadePending, Zenon
<1>2. CASE op = key
  BY <1>1, <1>2, Zenon DEF Target
<1>3. CASE op # key
  BY <1>1, <1>3, Zenon DEF Target
<1> QED
  BY <1>2, <1>3, Zenon

\* The same for the three heads.
LEMMA MadeTargets ==
    ASSUME writes \in Seq(Puts), NEW op, NEW arg, Made(op, arg), NEW b \in Blocks
    PROVE  /\ Target("headBlock", currentBlock, b)' => Target("headBlock", currentBlock, b)
           /\ Target("headHeader", currentHeader, b)' => Target("headHeader", currentHeader, b)
           /\ Target("headFast", currentFast, b)' => Target("headFast", currentFast, b)
<1>1. /\ currentBlock' = (IF op = "headBlock" THEN arg ELSE currentBlock)
      /\ currentHeader' = (IF op = "headHeader" THEN arg ELSE currentHeader)
      /\ currentFast' = (IF op = "headFast" THEN arg ELSE currentFast)
  BY Zenon DEF Made
<1>2. ASSUME Target("headBlock", currentBlock, b)'
      PROVE  Target("headBlock", currentBlock, b)
  <2>1. Pending("headBlock", b)' \/ (b = currentBlock' /\ \A c \in Blocks : ~Pending("headBlock", c)')
    BY <1>2, Zenon DEF Target
  <2> QED
    BY <1>1, <2>1, MadeTarget, Zenon
<1>3. ASSUME Target("headHeader", currentHeader, b)'
      PROVE  Target("headHeader", currentHeader, b)
  <2>1. Pending("headHeader", b)' \/ (b = currentHeader' /\ \A c \in Blocks : ~Pending("headHeader", c)')
    BY <1>3, Zenon DEF Target
  <2> QED
    BY <1>1, <2>1, MadeTarget, Zenon
<1>4. ASSUME Target("headFast", currentFast, b)'
      PROVE  Target("headFast", currentFast, b)
  <2>1. Pending("headFast", b)' \/ (b = currentFast' /\ \A c \in Blocks : ~Pending("headFast", c)')
    BY <1>4, Zenon DEF Target
  <2> QED
    BY <1>1, <2>1, MadeTarget, Zenon
<1> QED
  BY <1>2, <1>3, <1>4, Zenon

\* What is planned for b when WriteBlock starts its plan.
LEMMA BlockPlanned ==
    ASSUME Foundations, Base, NEW b \in Blocks \ {Genesis}, writes = <<>>, writes' = BlockPlan(b),
           UNCHANGED <<headers, bodies, canon>>
    PROVE  /\ PlannedStored' = Stored \cup {b} /\ PlannedHeaders' = headers \cup {b}
           /\ ~Heavier(b) => \A a \in Blocks : Canonical(a)' <=> canon[Number[a]] = a
           /\ Heavier(b) => \A a \in Ancestors[b] :
                 a \in NewChain(b) \cup {b} \/ canon[Number[a]] = a => Canonical(a)'
<1>1. currentBlock \in Blocks /\ headers \in SUBSET Blocks /\ bodies \in SUBSET Blocks
  BY Zenon DEF Base, Types, TypeOK
<1>2. /\ \A op, a : Pending(op, a)' =>
            \/ a = b /\ op \in {"td", "body", "header", "unfuture"}
            \/ /\ Heavier(b) /\ a \in NewChain(b) \cup {b}
               /\ op \in {"canon", "headBlock", "headHeader", "headFast", "index"}
            \/ op = "unindex"
      /\ Pending("header", b)' /\ Pending("body", b)'
      /\ Heavier(b) => \A a \in NewChain(b) \cup {b} : Pending("canon", a)'
  BY <1>1, BlockPlanProperties, Zenon DEF Pending
<1>3. PlannedHeaders' = headers \cup {b} /\ PlannedBodies' = bodies \cup {b}
  <2>1. \A a \in Blocks : (Pending("header", a)' <=> a = b) /\ ~Pending("delHeader", a)'
    BY <1>2, Zenon
  <2>2. \A a \in Blocks : (Pending("body", a)' <=> a = b) /\ ~Pending("delBody", a)'
    BY <1>2, Zenon
  <2> QED
    BY <1>1, <2>1, <2>2, Zenon DEF PlannedHeaders, PlannedBodies
<1>4. PlannedStored' = Stored \cup {b}
  BY <1>3, Zenon DEF PlannedStored, Stored
<1>5. ASSUME ~Heavier(b), NEW a \in Blocks
      PROVE  Canonical(a)' <=> canon[Number[a]] = a
  <2>1. ~Pending("uncanon", Number[a])' /\ \A c \in Blocks : ~Pending("canon", c)'
    BY <1>2, <1>5, Zenon
  <2> QED
    BY <2>1, Zenon DEF Canonical
<1>6. ASSUME Heavier(b), NEW a \in Ancestors[b], a \in NewChain(b) \cup {b} \/ canon[Number[a]] = a
      PROVE  Canonical(a)'
  <2>1. CASE a \in NewChain(b) \cup {b}
    BY <1>2, <1>6, <2>1, Zenon DEF Canonical
  <2>2. CASE canon[Number[a]] = a
    <3>1. ~Pending("uncanon", Number[a])'
      BY <1>2, Zenon
    <3>2. \A c \in Blocks : Pending("canon", c)' => c \in Ancestors[b]
      BY <1>2, AncestorsType, Zenon DEF NewChain
    <3>3. \A c \in Ancestors[b] : Number[c] = Number[a] => c = a
      BY <1>6, AncestorNumbers, ZenonT(30)
    <3> QED
      BY <2>2, <3>1, <3>2, <3>3, Zenon DEF Canonical
  <2> QED
    BY <1>6, <2>1, <2>2, Zenon
<1> QED
  BY <1>3, <1>4, <1>5, <1>6, ZenonT(40)
===========================================================================
