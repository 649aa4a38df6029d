---------------------------- MODULE TxPoolProofs ----------------------------
(***************************************************************************)
(* Proofs about TxPool for any accounts, transactions, heads and bounds.   *)
(***************************************************************************)
EXTENDS TxPool, SequenceTheorems, TLAPS

\* The running operation has still to validate the pending transactions.
ValidationDue == \E i \in 1..Len(todo) : todo[i] = "validatePool"

\* PendingValid inside an operation: only a validatePool that is still to come
\* excuses an invalid pending transaction.
PendingSettles ==
    (headEvents = 0 /\ ~silent /\ head \in Available /\ ~ValidationDue)
        => \A tx \in pending : Valid(head, tx)

IInv == TypeOK /\ OneHome /\ PendingSettles

-----------------------------------------------------------------------------
(* Facts about the helpers.                                                *)

\* The highest nonce of a set of transactions is taken by one of them.
LEMMA HighestIsMember ==
    ASSUME NEW S \in SUBSET Txs, S # {}
    PROVE  /\ Highest(S) \in S
           /\ \A t \in S : Nonce[t] <= Nonce[Highest(S)]
  BY HighestNonceAssumption DEF Highest

\* Taking a step off the running operation keeps the others.
LEMMA TailSteps ==
    ASSUME NEW s \in Seq(Steps), s # <<>>
    PROVE  /\ Tail(s) \in Seq(Steps)
           /\ \A j \in 1..Len(s) : s[j] # Head(s) => /\ j - 1 \in 1..Len(Tail(s))
                                                     /\ Tail(s)[j - 1] = s[j]
<1>1. /\ Tail(s) \in Seq(Steps)
      /\ Len(Tail(s)) = Len(s) - 1
      /\ \A i \in 1..Len(Tail(s)) : Tail(s)[i] = s[i + 1]
  BY HeadTailProperties
<1>2. Head(s) = s[1] /\ Len(s) \in Nat
  OBVIOUS
<1>3. ASSUME NEW j \in 1..Len(s), s[j] # Head(s)
      PROVE  j - 1 \in 1..Len(Tail(s)) /\ Tail(s)[j - 1] = s[j]
  <2>1. j # 1 /\ j \in Nat /\ j >= 1 /\ j <= Len(s)
    BY <1>2, <1>3
  <2>2. j - 1 \in 1..Len(Tail(s)) /\ (j - 1) + 1 = j
    BY <1>1, <1>2, <2>1
  <2> QED
    BY <1>1, <2>2
<1> QED
  BY <1>1, <1>3

\* resetState pushes its steps, validatePool among them, before the others.
LEMMA ResetStepsDue ==
    ASSUME NEW s \in Seq(Steps)
    PROVE  /\ ResetSteps \o s \in Seq(Steps)
           /\ \E i \in 1..Len(ResetSteps \o s) : (ResetSteps \o s)[i] = "validatePool"
<1>1. ResetSteps \in Seq(Steps) /\ Len(ResetSteps) = 3 /\ ResetSteps[1] = "validatePool"
  BY DEF ResetSteps, Steps
<1>2. /\ ResetSteps \o s \in Seq(Steps)
      /\ Len(ResetSteps \o s) = Len(ResetSteps) + Len(s)
      /\ \A i \in 1..Len(ResetSteps) + Len(s) :
             (ResetSteps \o s)[i] = IF i <= Len(ResetSteps) THEN ResetSteps[i]
                                   ELSE s[i - Len(ResetSteps)]
  <2> HIDE DEF ResetSteps
  <2> QED
    BY <1>1, ConcatProperties, Zenon
<1>3. Len(s) \in Nat
  OBVIOUS
<1>4. 1 \in 1..Len(ResetSteps \o s) /\ (ResetSteps \o s)[1] = "validatePool"
  BY <1>1, <1>2, <1>3
<1> QED
  BY <1>2, <1>4

-----------------------------------------------------------------------------
(* The inductive invariant.                                                *)

\* The pool starts empty.
LEMMA InitIInv == Init => IInv
<1> SUFFICES ASSUME Init PROVE IInv
  OBVIOUS
<1>1. TypeOK
  <2>1. pendingNonce \in [Accounts -> Nat] /\ todo \in Seq(Steps)
    BY DEF Init
  <2>2. headEvents \in 0..MaxHeadEvents /\ head \in Heads
    BY HeadAssumption, BoundAssumption DEF Init
  <2> QED
    BY <2>1, <2>2, Zenon DEF Init, TypeOK
<1>2. OneHome /\ PendingSettles
  BY DEF Init, OneHome, PendingSettles
<1> QED
  BY <1>1, <1>2 DEF IInv

\* Nonces the pool computes are natural numbers.
LEMMA NoncesType ==
    ASSUME TypeOK, NEW S \in SUBSET Txs
    PROVE  SetNonces(S) \in [Accounts -> Nat]
<1> SUFFICES ASSUME NEW a \in Accounts, Of(a, S \ pending) # {}
             PROVE  Nonce[Highest(Of(a, S \ pending))] + 1 \in Nat
  BY Zenon DEF SetNonces, TypeOK
<1>1. Of(a, S \ pending) \in SUBSET Txs
  BY DEF Of
<1>2. Highest(Of(a, S \ pending)) \in Txs
  BY <1>1, HighestIsMember
<1> QED
  BY <1>2, TxAssumption

\* What happens to the steps when the first one is done: if the invariant does not
\* have to hold before the step, then validatePool was the step.
LEMMA PopSteps ==
    ASSUME TypeOK, NEW step, At(step), Pop
    PROVE  /\ todo' \in Seq(Steps)
           /\ step # "validatePool" /\ ValidationDue => ValidationDue'
<1>1. todo \in Seq(Steps) /\ todo # <<>> /\ Head(todo) = step /\ todo' = Tail(todo)
  BY DEF TypeOK, At, Pop
<1>2. ASSUME step # "validatePool", ValidationDue
      PROVE  ValidationDue'
  <2>1. PICK i \in 1..Len(todo) : todo[i] = "validatePool"
    BY <1>2 DEF ValidationDue
  <2>2. i - 1 \in 1..Len(Tail(todo)) /\ Tail(todo)[i - 1] = todo[i]
    BY <1>1, <1>2, <2>1, TailSteps
  <2> QED
    BY <1>1, <2>1, <2>2, Zenon DEF ValidationDue
<1> QED
  BY <1>1, <1>2, TailSteps

LEMMA AddStepIInv ==
    ASSUME IInv, NEW tx \in Txs, AddStep(tx)
    PROVE  IInv'
<1> USE DEF IInv
<1>1. /\ todo' \in Seq(Steps)
      /\ ValidationDue => ValidationDue'
  <2>1. CASE batch = {tx}
    <3>1. At("add") /\ Pop
      BY <2>1 DEF AddStep
    <3> QED
      BY <3>1, PopSteps
  <2>2. CASE batch # {tx}
    BY <2>2 DEF AddStep, TypeOK, ValidationDue
  <2> QED
    BY <2>1, <2>2
<1>2. TypeOK'
  BY <1>1 DEF AddStep, TypeOK, chainVars
<1>3. OneHome'
  BY DEF AddStep, OneHome, Accepted
<1>4. PendingSettles'
  BY <1>1 DEF AddStep, PendingSettles, Valid, Past, Funded, chainVars
<1> QED
  BY <1>2, <1>3, <1>4

LEMMA CheckQueueIInv ==
    ASSUME IInv, CheckQueue
    PROVE  IInv'
<1> USE DEF IInv
<1>1. CASE head \notin Available /\ Pop /\ UNCHANGED <<pending, queue, hasState, pendingNonce>>
  <2>1. todo' \in Seq(Steps)
    BY <1>1, PopSteps DEF CheckQueue
  <2>2. TypeOK'
    BY <1>1, <2>1 DEF CheckQueue, TypeOK, chainVars
  <2>3. OneHome' /\ PendingSettles'
    BY <1>1 DEF CheckQueue, OneHome, PendingSettles, chainVars
  <2> QED
    BY <2>2, <2>3
<1>2. CASE ManageState(todo) /\ UNCHANGED <<pending, queue>>
  <2>1. todo' \in Seq(Steps) /\ ValidationDue'
    BY <1>2, ResetStepsDue DEF ManageState, ValidationDue, TypeOK
  <2>2. pendingNonce' \in [Accounts -> Nat]
    BY <1>2, HeadAssumption DEF ManageState, TypeOK
  <2>3. TypeOK'
    BY <1>2, <2>1, <2>2 DEF CheckQueue, ManageState, TypeOK, chainVars
  <2>4. OneHome' /\ PendingSettles'
    BY <1>2, <2>1 DEF OneHome, PendingSettles
  <2> QED
    BY <2>3, <2>4
<1>3. CASE Promote /\ Pop /\ UNCHANGED hasState
  <2> DEFINE promoted == Promotable(Live)
  <2>1. /\ promoted \in SUBSET Txs
        /\ promoted \subseteq Live
    BY DEF Promotable, Live, TypeOK
  <2>2. /\ pending' = pending \cup promoted
        /\ queue' \subseteq Live \ promoted
        /\ pendingNonce' = SetNonces(promoted)
    BY <1>3 DEF Promote, Limited
  <2>3. todo' \in Seq(Steps) /\ (ValidationDue => ValidationDue')
    BY <1>3, PopSteps DEF CheckQueue
  <2>4. TypeOK'
    <3> HIDE DEF promoted
    <3>1. pendingNonce' \in [Accounts -> Nat]
      BY <2>1, <2>2, NoncesType
    <3> QED
      BY <1>3, <2>1, <2>2, <2>3, <3>1 DEF CheckQueue, TypeOK, Live, chainVars
  <2>5. OneHome'
    BY <2>1, <2>2 DEF OneHome, Live
  <2>6. PendingSettles'
    <3>1. \A tx \in promoted : Valid(head, tx)
      BY <2>1 DEF Live
    <3> QED
      BY <2>2, <2>3, <3>1 DEF CheckQueue, PendingSettles, Valid, Past, Funded, chainVars
  <2> QED
    BY <2>4, <2>5, <2>6
<1> QED
  BY <1>1, <1>2, <1>3 DEF CheckQueue

LEMMA ValidatePoolIInv ==
    ASSUME IInv, ValidatePool
    PROVE  IInv'
<1> USE DEF IInv
<1>1. todo' \in Seq(Steps)
  BY PopSteps DEF ValidatePool
<1>2. CASE head \in Available
  <2> DEFINE valid == {tx \in pending : Valid(head, tx)}
  <2>1. /\ pending' = valid \ BehindGap(valid)
        /\ queue' = queue \cup BehindGap(valid)
        /\ BehindGap(valid) \subseteq valid
    BY <1>2 DEF ValidatePool, BehindGap
  <2>2. TypeOK'
    BY <1>1, <2>1 DEF ValidatePool, TypeOK, chainVars
  <2>3. OneHome'
    BY <2>1 DEF OneHome
  <2>4. PendingSettles'
    BY <2>1 DEF ValidatePool, PendingSettles, Valid, Past, Funded, chainVars
  <2> QED
    BY <2>2, <2>3, <2>4
<1>3. CASE head \notin Available
  BY <1>1, <1>3 DEF ValidatePool, TypeOK, OneHome, PendingSettles, chainVars
<1> QED
  BY <1>2, <1>3

LEMMA RebaseIInv ==
    ASSUME IInv, Rebase
    PROVE  IInv'
<1> USE DEF IInv
<1>1. todo' \in Seq(Steps) /\ (ValidationDue => ValidationDue')
  BY PopSteps DEF Rebase
<1>2. pendingNonce' \in [Accounts -> Nat]
  <2> SUFFICES ASSUME NEW a \in Accounts,
                      NEW S, S = {tx \in Of(a, pending) : pendingNonce[a] <= Nonce[tx]},
                      S # {}
               PROVE  Nonce[Highest(S)] + 1 \in Nat
    BY DEF Rebase, TypeOK
  <2>1. S \in SUBSET Txs
    BY DEF Of, TypeOK
  <2>2. Highest(S) \in Txs
    BY <2>1, HighestIsMember
  <2> QED
    BY <2>2, TxAssumption
<1>3. TypeOK'
  BY <1>1, <1>2 DEF Rebase, TypeOK, chainVars
<1>4. OneHome' /\ PendingSettles'
  BY <1>1 DEF Rebase, OneHome, PendingSettles, Valid, Past, Funded, chainVars
<1> QED
  BY <1>3, <1>4

LEMMA OperationIInv ==
    ASSUME IInv,
           \/ \E tx \in Txs : Add(tx)
           \/ \E S \in Batches : AddTransactions(S)
           \/ GetTransactions
           \/ \E S \in Batches : RemoveTransactions(S)
           \/ \E tx \in Txs : RemoveTx(tx)
           \/ \E p \in Prices : GasPriceChanged(p)
           \/ \E S \in removedEvents : RemovedEvent(S)
    PROVE  IInv'
<1> USE DEF IInv
<1>1. ASSUME NEW tx \in Txs, Add(tx)
      PROVE  IInv'
  <2>1. todo' \in Seq(Steps) /\ ~ValidationDue
    BY <1>1 DEF Add, Steps, Unlocked, ValidationDue
  <2> QED
    BY <1>1, <2>1 DEF Add, TypeOK, OneHome, PendingSettles, Accepted, Valid, Past, Funded, chainVars
<1>2. ASSUME NEW S \in SUBSET Txs, StartBatch(S),
             UNCHANGED <<head, headEvents, silent>>,
             removedEvents' \subseteq removedEvents
      PROVE  IInv'
  <2>1. ~ValidationDue
    BY <1>2 DEF StartBatch, Unlocked, ValidationDue
  <2>2. <<"checkQueue">> \in Seq(Steps) /\ <<"add", "checkQueue">> \in Seq(Steps)
    BY DEF Steps
  <2>3. todo' \in Seq(Steps)
    BY <1>2, <2>2 DEF StartBatch
  <2> QED
    BY <1>2, <2>1, <2>3 DEF StartBatch, TypeOK, OneHome, PendingSettles, Valid, Past, Funded
<1>3. CASE GetTransactions
  <2>1. todo' \in Seq(Steps) /\ ~ValidationDue
    BY <1>3 DEF GetTransactions, Steps, Unlocked, ValidationDue
  <2> QED
    BY <1>3, <2>1 DEF GetTransactions, TypeOK, OneHome, PendingSettles, Valid, Past, Funded, chainVars
<1>4. ASSUME NEW S, Remove(S)
      PROVE  IInv'
  BY <1>4 DEF Remove, TypeOK, OneHome, PendingSettles, ValidationDue, Valid, Past, Funded, chainVars
<1>5. ASSUME NEW p \in Prices, GasPriceChanged(p)
      PROVE  IInv'
  BY <1>5, BoundAssumption
     DEF GasPriceChanged, TypeOK, OneHome, PendingSettles, ValidationDue, Valid, Past, Funded, chainVars
<1>6. ASSUME NEW S \in Batches, AddTransactions(S)
      PROVE  IInv'
  BY <1>2, <1>6, BoundAssumption DEF AddTransactions, chainVars
<1>7. ASSUME NEW S \in removedEvents, RemovedEvent(S)
      PROVE  IInv'
  BY <1>2, <1>7 DEF RemovedEvent, TypeOK
<1> QED
  BY <1>1, <1>3, <1>4, <1>5, <1>6, <1>7, Zenon DEF RemoveTransactions, RemoveTx

LEMMA HeadIInv ==
    ASSUME IInv,
           \/ HeadEvent
           \/ \E h \in Heads : MoveHead(h)
           \/ \E h \in Heads : MoveHeadSilently(h)
    PROVE  IInv'
<1> USE DEF IInv
<1>1. CASE HeadEvent
  <2>1. headEvents' \in 0..MaxHeadEvents
    BY <1>1, BoundAssumption DEF HeadEvent, TypeOK
  <2>2. CASE head \in Available
    <3>1. ManageState(<<>>)
      BY <1>1, <2>2 DEF HeadEvent
    <3>2. todo' \in Seq(Steps) /\ ValidationDue'
      <4>1. <<>> \in Seq(Steps)
        OBVIOUS
      <4> QED
        BY <3>1, <4>1, ResetStepsDue, Zenon DEF ManageState, ValidationDue
    <3>3. pendingNonce' \in [Accounts -> Nat]
      BY <3>1, HeadAssumption DEF ManageState, TypeOK
    <3> QED
      BY <1>1, <2>1, <3>1, <3>2, <3>3 DEF HeadEvent, ManageState, TypeOK, OneHome, PendingSettles
  <2>3. CASE head \notin Available
    BY <1>1, <2>1, <2>3 DEF HeadEvent, TypeOK, OneHome, PendingSettles
  <2> QED
    BY <2>2, <2>3
<1>2. ASSUME NEW h \in Heads, MoveHead(h)
      PROVE  IInv'
  <2>1. headEvents' \in 0..MaxHeadEvents /\ headEvents' # 0
    BY <1>2, BoundAssumption DEF MoveHead, TypeOK
  <2>2. removedEvents' \subseteq SUBSET Txs
    BY <1>2, HeadAssumption DEF MoveHead, TypeOK
  <2> QED
    BY <1>2, <2>1, <2>2, Zenon DEF MoveHead, TypeOK, OneHome, PendingSettles, poolVars
<1>3. ASSUME NEW h \in Heads, MoveHeadSilently(h)
      PROVE  IInv'
  BY <1>3 DEF MoveHeadSilently, TypeOK, OneHome, PendingSettles, poolVars
<1> QED
  BY <1>1, <1>2, <1>3

LEMMA NextIInv == IInv /\ [Next]_vars => IInv'
<1> SUFFICES ASSUME IInv, [Next]_vars PROVE IInv'
  OBVIOUS
<1>1. CASE PoolStep
  BY <1>1, AddStepIInv, CheckQueueIInv, ValidatePoolIInv, RebaseIInv DEF PoolStep
<1>2. CASE UNCHANGED vars
  BY <1>2 DEF IInv, TypeOK, OneHome, PendingSettles, ValidationDue, Valid, Past, Funded,
              vars, poolVars, chainVars
<1> QED
  BY <1>1, <1>2, OperationIInv, HeadIInv DEF Next

\* The invariant holds in every state the pool reaches.
THEOREM Invariance == Spec => []IInv
<1> QED
  BY InitIInv, NextIInv, PTL DEF Spec

\* The state of the pool keeps its type.
THEOREM TypeCorrectness == Spec => []TypeOK
<1>1. IInv => TypeOK
  BY DEF IInv
<1> QED
  BY <1>1, Invariance, PTL

\* No operation, in any interleaving with the chain, leaves a transaction both
\* pending and queued.
THEOREM OneHomeAlways == Spec => []OneHome
<1>1. IInv => OneHome
  BY DEF IInv
<1> QED
  BY <1>1, Invariance, PTL

\* Whenever the pool has caught up with the chain, its pending transactions are
\* valid at the head.
THEOREM PendingValidAlways == Spec => []PendingValid
<1>1. IInv => PendingValid
  BY DEF IInv, PendingValid, Settled, Unlocked, PendingSettles, ValidationDue
<1> QED
  BY <1>1, Invariance, PTL

-----------------------------------------------------------------------------
(* What checkQueue guarantees.                                             *)

\* With a managed state and an open head, checkQueue gets to promote.
LEMMA CheckedPromotes ==
    ASSUME Checked
    PROVE  Promote
  BY Zenon DEF Checked, CheckQueue

\* checkQueue enforces maxQueued for every account.
THEOREM QueueLimitedAlways == Spec => QueueLimited
<1>1. ASSUME Checked, NEW a \in Accounts
      PROVE  Cardinality(Of(a, queue')) <= MaxQueued
  <2>1. queue' \in Limited(Live \ Promotable(Live))
    BY <1>1, CheckedPromotes DEF Promote
  <2> DEFINE rest == Live \ Promotable(Live)
  <2>2. CASE Cardinality(Of(a, rest)) <= MaxQueued
    BY <2>1, <2>2 DEF Limited
  <2>3. CASE ~(Cardinality(Of(a, rest)) <= MaxQueued)
    <3>1. Cardinality(Of(a, queue')) = MaxQueued
      BY <2>1, <2>3 DEF Limited
    <3> QED
      BY <3>1, BoundAssumption
  <2> QED
    BY <2>2, <2>3
<1>2. [Next]_vars => [Checked => \A a \in Accounts : Cardinality(Of(a, queue')) <= MaxQueued]_vars
  BY <1>1
<1> QED
  BY <1>2, PTL DEF Spec, QueueLimited

\* What checkQueue does not promote lies beyond the next nonce.  The first nonce missing
\* between the guessed one and that of such a transaction stops every promotion, so the
\* nonce the last promotion sets does not pass it.
LEMMA BeyondNext ==
    ASSUME TypeOK, Checked, NEW tx \in Live \ Promotable(Live)
    PROVE  Nonce[tx] > pendingNonce'[From[tx]]
<1> DEFINE promoted == Promotable(Live)
           a == From[tx]
           added == Of(a, promoted \ pending)
<1>1. pendingNonce' = SetNonces(promoted)
  BY CheckedPromotes DEF Promote, Limited
<1>2. tx \in Txs /\ a \in Accounts /\ Nonce[tx] \in Nat /\ pendingNonce[a] \in Nat
  BY <1>1, TxAssumption DEF Live, TypeOK
<1>3. PICK n \in pendingNonce[a]..(Nonce[tx] - 1) :
          ~ \E t \in Live : From[t] = a /\ Nonce[t] = n
  BY <1>1 DEF Promotable
<1>4. n \in Nat /\ pendingNonce[a] <= n /\ n < Nonce[tx]
  BY <1>2, <1>3
<1>5. ASSUME NEW t \in promoted, From[t] = a
      PROVE  Nonce[t] < n
  <2>1. t \in Live /\ t \in Txs /\ Nonce[t] \in Nat
    BY <1>5, TxAssumption DEF Promotable, Live, TypeOK
  <2>2. \A k \in pendingNonce[a]..(Nonce[t] - 1) :
            \E u \in Live : From[u] = a /\ Nonce[u] = k
    BY <1>5 DEF Promotable
  <2>3. ~(n \in pendingNonce[a]..(Nonce[t] - 1))
    BY <1>3, <2>2
  <2>4. Nonce[t] # n
    BY <1>3, <1>5, <2>1
  <2> QED
    BY <1>2, <1>4, <2>1, <2>3, <2>4
<1>6. pendingNonce'[a] <= n
  <2>1. CASE added = {}
    BY <1>1, <1>2, <1>4, <2>1, Zenon DEF SetNonces
  <2>2. CASE added # {}
    <3>1. added \in SUBSET Txs
      BY DEF Of, Promotable, Live, TypeOK
    <3>2. Highest(added) \in added
      BY <2>2, <3>1, HighestIsMember, Zenon
    <3>3. pendingNonce'[a] = Nonce[Highest(added)] + 1
      BY <1>1, <1>2, <2>2, Zenon DEF SetNonces
    <3>4. Highest(added) \in promoted /\ From[Highest(added)] = a
      <4> HIDE DEF promoted
      <4> QED
        BY <3>2 DEF Of
    <3>5. Nonce[Highest(added)] < n
      BY <1>5, <3>4
    <3>6. Nonce[Highest(added)] \in Nat
      BY <3>1, <3>2, TxAssumption, Zenon
    <3> QED
      BY <1>4, <3>3, <3>5, <3>6
  <2> QED
    BY <2>1, <2>2
<1>7. pendingNonce'[a] \in Nat
  <2>1. promoted \in SUBSET Txs
    BY DEF Promotable, Live, TypeOK
  <2> HIDE DEF promoted
  <2> QED
    BY <1>1, <1>2, <2>1, NoncesType
<1> QED
  BY <1>2, <1>4, <1>6, <1>7

\* Nothing that is due stays behind in the queue after checkQueue.
THEOREM NothingDueLeftAlways == Spec => NothingDueLeft
<1>1. ASSUME TypeOK, Checked, NEW tx \in queue'
      PROVE  Nonce[tx] > pendingNonce'[From[tx]]
  <2>1. tx \in Live \ Promotable(Live)
    BY <1>1, CheckedPromotes DEF Promote, Limited
  <2> QED
    BY <1>1, <2>1, BeyondNext
<1>2. IInv /\ [Next]_vars =>
          [Checked => \A tx \in queue' : Nonce[tx] > pendingNonce'[From[tx]]]_vars
  BY <1>1 DEF IInv
<1> QED
  BY <1>2, Invariance, PTL DEF Spec, NothingDueLeft

\* checkQueue drops a transaction only because the head refuses it, or because the
\* queue of its account is full of transactions that come no later.
LEMMA CheckQueueLosses ==
    ASSUME TypeOK, CheckQueue, NEW tx \in (pending \cup queue) \ (pending' \cup queue')
    PROVE  /\ head \in Available
           /\ \/ ~Valid(head, tx)
              \/ /\ Nonce[tx] > pendingNonce'[From[tx]]
                 /\ MaxQueued <= Cardinality({t \in queue' : /\ From[t] = From[tx]
                                                            /\ Nonce[t] <= Nonce[tx]})
<1>1. Checked
  BY Zenon DEF CheckQueue, Checked
<1>2. SUFFICES ASSUME Valid(head, tx)
               PROVE  /\ Nonce[tx] > pendingNonce'[From[tx]]
                      /\ MaxQueued <= Cardinality({t \in queue' : /\ From[t] = From[tx]
                                                                 /\ Nonce[t] <= Nonce[tx]})
  BY <1>1, Zenon DEF Checked
<1> DEFINE S == Live \ Promotable(Live)
           a == From[tx]
<1>3. pending' = pending \cup Promotable(Live) /\ queue' \in Limited(S)
  BY <1>1, CheckedPromotes, Zenon DEF Promote
<1>4. tx \in S /\ tx \notin queue' /\ S \subseteq Txs /\ queue' \subseteq S
  BY <1>2, <1>3, Zenon DEF Live, TypeOK, Limited
<1>5. Nonce[tx] > pendingNonce'[a]
  BY <1>1, <1>4, BeyondNext, Zenon
<1> HIDE DEF S
<1>6. a \in Accounts /\ tx \in Of(a, S \ queue') /\ tx \notin Of(a, queue') /\ tx \in Of(a, S)
  BY <1>4, TxAssumption, Zenon DEF Of
<1>7. /\ Cardinality(Of(a, queue')) = MaxQueued
      /\ \A t \in Of(a, queue'), d \in Of(a, S \ queue') : Nonce[t] <= Nonce[d]
  BY <1>3, <1>6, Zenon DEF Limited
<1>8. {t \in queue' : From[t] = a /\ Nonce[t] <= Nonce[tx]} = Of(a, queue')
  BY <1>6, <1>7, Zenon DEF Of
<1>9. MaxQueued <= MaxQueued
  BY BoundAssumption
<1> QED
  BY <1>5, <1>7, <1>8, <1>9, Zenon

\* validatePool drops only what the head refuses; what comes behind it is postponed.
LEMMA ValidatePoolLosses ==
    ASSUME ValidatePool, NEW tx \in (pending \cup queue) \ (pending' \cup queue')
    PROVE  head \in Available /\ ~Valid(head, tx)
  BY Zenon DEF ValidatePool

\* A transaction is lost only by a call that names it, because the head refuses it, or
\* to the limit of the queue: what add, checkQueue, validatePool and resetState drop,
\* in any interleaving with the chain.
THEOREM JustifiedLossAlways == Spec => JustifiedLoss
<1> DEFINE Lost == (pending \cup queue) \ (pending' \cup queue')
           Justified(tx) ==
               /\ head \in Available
               /\ \/ ~Valid(head, tx)
                  \/ /\ Nonce[tx] > pendingNonce'[From[tx]]
                     /\ MaxQueued <= Cardinality({t \in queue' : /\ From[t] = From[tx]
                                                                /\ Nonce[t] <= Nonce[tx]})
<1>1. ASSUME TypeOK, Next, ~Removal, NEW tx \in Lost
      PROVE  Justified(tx)
  <2>1. CASE CheckQueue
    BY <1>1, <2>1, CheckQueueLosses
  <2>2. CASE ValidatePool
    BY <1>1, <2>2, ValidatePoolLosses, Zenon
  <2>3. CASE ~CheckQueue /\ ~ValidatePool
    <3>1. CASE PoolStep
      <4>1. pending' = pending /\ queue \subseteq queue'
        BY <2>3, <3>1, Zenon DEF PoolStep, AddStep, Rebase
      <4> QED
        BY <1>1, <4>1, Zenon
    <3>2. CASE (\E t \in Txs : Add(t)) \/ (\E T \in Batches : AddTransactions(T)) \/ GetTransactions
               \/ HeadEvent \/ (\E p \in Prices : GasPriceChanged(p))
               \/ (\E T \in removedEvents : RemovedEvent(T))
      <4>1. pending' = pending /\ queue \subseteq queue'
        BY <3>2, Zenon DEF Add, AddTransactions, StartBatch, GetTransactions, HeadEvent,
                           GasPriceChanged, RemovedEvent
      <4> QED
        BY <1>1, <4>1, Zenon
    <3>3. CASE \E h \in Heads : MoveHead(h) \/ MoveHeadSilently(h)
      <4>1. pending' = pending /\ queue' = queue
        BY <3>3, Zenon DEF MoveHead, MoveHeadSilently, poolVars
      <4> QED
        BY <1>1, <4>1, Zenon
    <3> QED
      BY <1>1, <2>3, <3>1, <3>2, <3>3, Zenon DEF Next, Removal
  <2> QED
    BY <2>1, <2>2, <2>3, Zenon
<1>2. IInv /\ [Next]_vars => [~Removal => \A tx \in Lost : Justified(tx)]_vars
  BY <1>1, Zenon DEF IInv
<1> QED
  BY <1>2, Invariance, PTL DEF Spec, JustifiedLoss

=============================================================================
