--------------------------- MODULE DownloadQueue ---------------------------
(***************************************************************************)
(* The download queue of a sync, eth/downloader/queue.go: headers scheduled *)
(* for the retrieval of their bodies and receipts, requests reserved for    *)
(* peers, what they deliver assembled in a bounded cache, and the finished  *)
(* blocks taken out in order by the processor, which sleeps on a condition  *)
(* variable while there are none.                                           *)
(*                                                                          *)
(* Every method runs under q.lock and is one step, except for two.          *)
(* WaitResults keeps the lock between its count and its Wait, but the state *)
(* scheduler it has asked changes under another lock.  deliverNodeData runs *)
(* in a goroutine, takes that other lock once per node, and signals the     *)
(* condition without holding q.lock.                                        *)
(*                                                                          *)
(* A header is its hash.  The scheduler of the state download, which the    *)
(* module TrieSync models, is here a trie that is one path: a node becomes  *)
(* known when the one above it is processed, and the whole is pending until *)
(* the last one is.  The hashes and blocks of eth/61 are left out.          *)
(***************************************************************************)
EXTENDS Integers, Sequences, FiniteSets, SequencesExt

CONSTANTS
    Peers,
    Headers, Number, Parent,
    Empty,          \* Empty[k]: the headers whose body or receipts are empty
    Batches,        \* sequences of headers a peer may send
    Syncs,          \* [mode, pivot, origin]: what a cycle may be prepared for
    PathLength,     \* nodes of the pivot's state
    BlockCacheLimit, ForceVerify,
    Capacities,     \* how much a peer may be asked for at once
    None,           \* no header, no result, no scheduler
    MaxCycles,      \* bound: sync cycles
    MaxFailures     \* bound: requests that time out or are refused

Kinds == {"body", "receipt"}
Nodes == 1..PathLength
Cache == 0..(BlockCacheLimit - 1)

ASSUME QueueAssumption ==
    /\ Number \in [Headers -> Nat] /\ Parent \in [Headers -> Headers \cup {None}]
    /\ Empty \in [Kinds -> SUBSET Headers]
    /\ Batches \subseteq Seq(Headers)
    /\ Syncs \subseteq [mode : {"full", "fast"}, pivot : Nat, origin : Nat]
    /\ PathLength \in Nat \ {0} /\ BlockCacheLimit \in Nat \ {0}
    /\ ForceVerify \in Nat /\ Capacities \subseteq Nat \ {0}
    /\ MaxCycles \in Nat /\ MaxFailures \in Nat

VARIABLES
    sync,           \* the mode, pivot and origin of the cycle (Prepare)
    headerHead,     \* the last header scheduled
    taskPool,       \* taskPool[k]: headers with an unfinished task
    taskQueue,      \* taskQueue[k]: those waiting for a peer, lowest first
    pendPool,       \* pendPool[k][p]: the headers p is asked for, <<>> if none
    donePool,       \* donePool[k]: headers whose part has come
    lacking,        \* lacking[p]: what p is known not to have
    resultCache, resultOffset,
    stateSched,     \* None, or [missing, done]: the nodes Missing has not handed
                    \* out, and how many were processed
    stateQueue,     \* node hashes waiting for a peer
    statePool,      \* node hashes not delivered (stateTaskPool)
    statePend,      \* statePend[p]: node hashes p is asked for
    processors,     \* goroutines in deliverNodeData: a bag of the nodes each has left
    invalid,        \* whether errInvalidChain was returned
    closed,
    proc,           \* the processor: "call", "counted", "wait", "done"
    scheduled,      \* headers accepted in this cycle
    delivered,      \* results handed out in this cycle
    cycles, failures

queueVars == <<headerHead, taskPool, taskQueue, pendPool, donePool, lacking>>
cacheVars == <<resultCache, resultOffset>>
stateVars == <<stateSched, stateQueue, statePool, statePend>>
history == <<scheduled, delivered>>
bounds == <<cycles, failures>>
queue == <<sync, queueVars, cacheVars, stateVars, processors, invalid, closed, proc, history, cycles>>
vars == <<queue, failures>>

---------------------------------------------------------------------------
(* Helpers.                                                                 *)

Minimum(a, b) == IF a < b THEN a ELSE b
Index(h) == Number[h] - resultOffset
NeedsReceipt(h) == sync.mode = "fast" /\ Number[h] <= sync.pivot
Components(h) == IF NeedsReceipt(h) THEN Kinds ELSE {"body"}

\* Priority queues: the lowest number is popped first.
Push(q, s) == SortSeq(q \o s, LAMBDA g, h : Number[g] < Number[h])

\* The methods of the queue wait while WaitResults has the lock.
LockFree == proc # "counted"

\* active.Signal and active.Broadcast: the processor is the only one that waits.
Woken == IF proc = "wait" THEN "call" ELSE proc
Signal(cond) == proc' = IF cond THEN Woken ELSE proc

---------------------------------------------------------------------------
(* Beginning and end of a cycle.                                            *)

\* synchronise: Reset of the queue and of the peers, then Prepare.  Nodes of
\* the cycle before may still be in deliverNodeData.
NewCycle(s) ==
    /\ proc = "done" /\ cycles < MaxCycles
    /\ cycles' = cycles + 1 /\ UNCHANGED failures
    /\ sync' = s /\ headerHead' = None
    /\ taskPool' = [k \in Kinds |-> {}] /\ taskQueue' = [k \in Kinds |-> <<>>]
    /\ pendPool' = [k \in Kinds |-> [p \in Peers |-> <<>>]]
    /\ donePool' = [k \in Kinds |-> {}]
    /\ lacking' = [p \in Peers |-> {}]
    /\ resultCache' = [i \in Cache |-> None] /\ resultOffset' = s.origin + 1
    /\ stateSched' = None /\ stateQueue' = <<>> /\ statePool' = {}
    /\ statePend' = [p \in Peers |-> {}]
    /\ closed' = FALSE /\ proc' = "call"
    /\ scheduled' = <<>> /\ delivered' = <<>>
    /\ UNCHANGED <<processors, invalid>>

\* Close, when the fetchers are done or one of them failed.
Close ==
    /\ LockFree /\ ~closed /\ cycles > 0
    /\ closed' = TRUE /\ Signal(TRUE)
    /\ UNCHANGED <<sync, queueVars, cacheVars, stateVars, processors, invalid, history, bounds>>

---------------------------------------------------------------------------
(* Scheduling headers.                                                      *)

\* Mutation: the parent of a header is not compared.
ContinuesNumbersOnly(hs, from, n) ==
    \A i \in 1..n : Number[hs[i]] = from + i - 1

\* The first n headers of hs continue the chain: the numbers follow from, and
\* each has the one before it as its parent.
Continues(hs, from, n) ==
    \A i \in 1..n :
        LET last == IF i = 1 THEN headerHead ELSE hs[i - 1]
        IN  /\ Number[hs[i]] = from + i - 1
            /\ last = None \/ Parent[hs[i]] = last
            /\ hs[i] \notin taskPool["body"] \cup taskPool["receipt"]

\* What Schedule returns: the headers up to the first that breaks the chain.
Inserts(hs, from) ==
    SubSeq(hs, 1, CHOOSE n \in 0..Len(hs) :
                     /\ Continues(hs, from, n)
                     /\ n = Len(hs) \/ ~Continues(hs, from, n + 1))

Schedule(hs, from) ==
    LET ins == Inserts(hs, from)
        receipts == SelectSeq(ins, NeedsReceipt)
        pivots == {h \in ToSet(ins) : sync.mode = "fast" /\ Number[h] = sync.pivot}
    IN  /\ LockFree
        /\ taskPool' = [body |-> taskPool["body"] \cup ToSet(ins),
                        receipt |-> taskPool["receipt"] \cup ToSet(receipts)]
        /\ taskQueue' = [body |-> Push(taskQueue["body"], ins),
                         receipt |-> Push(taskQueue["receipt"], receipts)]
        /\ stateSched' = IF pivots = {} THEN stateSched ELSE [missing |-> {1}, done |-> 0]
        /\ headerHead' = IF ins = <<>> THEN headerHead ELSE ins[Len(ins)]
        /\ scheduled' = scheduled \o ins
        /\ UNCHANGED <<sync, pendPool, donePool, lacking, cacheVars, stateQueue, statePool,
                       statePend, processors, invalid, closed, proc, delivered, cycles>>

---------------------------------------------------------------------------
(* Taking results.                                                          *)

PendingNodeData ==
    IF stateSched = None \/ stateSched.done = PathLength THEN 0 ELSE stateSched.done + 1

\* Mutation: nodes that are being processed do not hold the pivot back.
PivotHeldUntilDelivered(i) ==
    \/ i > 0 \/ statePool # {}
    \/ \E j \in 1..ForceVerify : i + j >= BlockCacheLimit \/ resultCache[i + j] = None

\* The pivot block is held back until its state is complete and the blocks
\* after it that vouch for it have arrived; it starts a batch of its own.
PivotHeld(i) ==
    \/ i > 0 \/ statePool # {} \/ PendingNodeData > 0
    \/ \E j \in 1..ForceVerify : i + j >= BlockCacheLimit \/ resultCache[i + j] = None

StopsAt(i) ==
    \/ resultCache[i] = None \/ resultCache[i].pending > 0
    \/ /\ sync.mode = "fast"
       /\ \/ Number[resultCache[i].header] = sync.pivot /\ PivotHeld(i)
          \/ Number[resultCache[i].header] = sync.pivot + 1 /\ i > 0

\* countProcessableItems
Processable ==
    CHOOSE n \in 0..BlockCacheLimit :
        /\ \A i \in 0..(n - 1) : ~StopsAt(i)
        /\ n = BlockCacheLimit \/ StopsAt(n)

\* WaitResults with nothing to return: it goes on to Wait with the lock held.
Count ==
    /\ proc = "call" /\ Processable = 0 /\ ~closed
    /\ proc' = "counted"
    /\ UNCHANGED <<sync, queueVars, cacheVars, stateVars, processors, invalid, closed, history, bounds>>

\* active.Wait: asleep, and the lock released.
Sleep ==
    /\ proc = "counted" /\ proc' = "wait"
    /\ UNCHANGED <<sync, queueVars, cacheVars, stateVars, processors, invalid, closed, history, bounds>>

\* WaitResults with results, after whose import the processor goes on with
\* next, or without any from a closed queue, which ends it.
TakeResults(next) ==
    LET n == Processable
        results == [i \in 1..n |-> resultCache[i - 1]]
        gone == {results[i].header : i \in 1..n}
    IN  /\ proc = "call" /\ (n > 0 \/ closed)
        /\ proc' = IF n = 0 THEN "done" ELSE next
        /\ delivered' = delivered \o results
        /\ donePool' = [k \in Kinds |-> donePool[k] \ gone]
        /\ resultCache' = [i \in Cache |->
               IF i + n < BlockCacheLimit THEN resultCache[i + n] ELSE None]
        /\ resultOffset' = resultOffset + n
        /\ UNCHANGED <<sync, headerHead, taskPool, taskQueue, pendPool, lacking, stateVars,
                       processors, invalid, closed, scheduled, cycles>>

---------------------------------------------------------------------------
(* Reserving bodies and receipts.                                           *)

InFlight(k) == Cardinality({<<p, i>> \in Peers \X (1..BlockCacheLimit) : i \in DOMAIN pendPool[k][p]})

Space(k) == BlockCacheLimit - Cardinality(donePool[k]) - InFlight(k)

ShouldThrottle(k) == InFlight(k) >= BlockCacheLimit - Cardinality(donePool[k])

\* The headers among the first n of the queue that p would be asked for.
Sent(k, p, n) ==
    SelectSeq(SubSeq(taskQueue[k], 1, n), LAMBDA h : h \notin Empty[k] \cup lacking[p])

\* How many headers are popped: as many as fit into the cache, up to the
\* count-th one sent.
Popped(k, p, count) ==
    LET fit == Minimum(Len(taskQueue[k]), Space(k))
    IN  CHOOSE n \in 0..Len(taskQueue[k]) :
            /\ n > 0 => n <= fit /\ Len(Sent(k, p, n - 1)) < count
            /\ n = 0 => fit <= 0
            /\ n < fit => Len(Sent(k, p, n)) = count

\* The result container of h, made when the first part of it is reserved.
Slot(h) ==
    IF resultCache[Index(h)] = None
    THEN [header |-> h, pending |-> Cardinality(Components(h)), parts |-> {}]
    ELSE resultCache[Index(h)]

Complete(slot, k) == [slot EXCEPT !.pending = @ - 1, !.parts = @ \cup {k}]

\* reserveHeaders: empty bodies and receipts are completed on the spot, what
\* the peer lacks is left in the queue, and the rest is a request.  A header
\* without a place in the cache is an error that loses all that was popped.
ReserveHeaders(k, p, count) ==
    LET limit == Popped(k, p, count)
        beyond == {i \in 1..limit : Index(taskQueue[k][i]) \notin Cache}
        n == IF beyond = {} THEN limit ELSE (CHOOSE i \in beyond : \A j \in beyond : i <= j) - 1
        popped == {taskQueue[k][i] : i \in 1..n}
        noops == popped \cap Empty[k]
        skipped == SelectSeq(SubSeq(taskQueue[k], 1, n), LAMBDA h : h \in lacking[p] \ Empty[k])
        rest == SubSeq(taskQueue[k], n + 1, Len(taskQueue[k]))
    IN  /\ LockFree /\ taskQueue[k] # <<>> /\ pendPool[k][p] = <<>>
        /\ donePool' = [donePool EXCEPT ![k] = @ \cup noops]
        /\ taskPool' = [taskPool EXCEPT ![k] = @ \ noops]
        /\ resultCache' = [i \in Cache |->
               IF \E h \in popped : Index(h) = i
               THEN LET h == CHOOSE g \in popped : Index(g) = i
                    IN  IF h \in noops THEN Complete(Slot(h), k) ELSE Slot(h)
               ELSE resultCache[i]]
        /\ IF beyond = {}
           THEN /\ taskQueue' = [taskQueue EXCEPT ![k] = Push(rest, skipped)]
                /\ pendPool' = [pendPool EXCEPT ![k][p] = Sent(k, p, n)]
                /\ Signal(noops # {})
                /\ UNCHANGED invalid
           ELSE /\ taskQueue' = [taskQueue EXCEPT ![k] = Tail(rest)]
                /\ invalid' = TRUE
                /\ UNCHANGED <<pendPool, proc>>
        /\ UNCHANGED <<sync, headerHead, lacking, resultOffset, stateVars, processors, closed,
                       history, bounds>>

---------------------------------------------------------------------------
(* Requests that end without an answer.                                     *)

\* Mutation: a request that expired stays with its peer.
ExpireKeepsRequest(k, S) ==
    /\ LockFree /\ S # {} /\ \A p \in S : pendPool[k][p] # <<>>
    /\ taskQueue' = [taskQueue EXCEPT ![k] = Push(@, SetToSeq(
           UNION {ToSet(pendPool[k][p]) : p \in S}))]
    /\ UNCHANGED <<sync, headerHead, taskPool, pendPool, donePool, lacking, cacheVars, stateVars,
                   processors, invalid, closed, proc, history, cycles>>

\* expire: the requests of the peers in S have timed out.
Expire(k, S) ==
    /\ LockFree /\ S # {} /\ \A p \in S : pendPool[k][p] # <<>>
    /\ taskQueue' = [taskQueue EXCEPT ![k] = Push(@, SetToSeq(
           UNION {ToSet(pendPool[k][p]) : p \in S}))]
    /\ pendPool' = [pendPool EXCEPT ![k] = [p \in Peers |-> IF p \in S THEN <<>> ELSE @[p]]]
    /\ UNCHANGED <<sync, headerHead, taskPool, donePool, lacking, cacheVars, stateVars, processors,
                   invalid, closed, proc, history, cycles>>

\* ExpireNodeData
ExpireNodeData(S) ==
    /\ LockFree /\ S # {} /\ \A p \in S : statePend[p] # {}
    /\ stateQueue' = stateQueue \o SetToSeq(UNION {statePend[p] : p \in S})
    /\ statePend' = [p \in Peers |-> IF p \in S THEN {} ELSE statePend[p]]
    /\ UNCHANGED <<sync, queueVars, cacheVars, stateSched, statePool, processors, invalid, closed,
                   proc, history, cycles>>

\* Revoke: a peer that left returns all it was asked for.
Revoke(p) ==
    /\ LockFree
    /\ taskQueue' = [k \in Kinds |-> Push(taskQueue[k], pendPool[k][p])]
    /\ pendPool' = [k \in Kinds |-> [pendPool[k] EXCEPT ![p] = <<>>]]
    /\ stateQueue' = stateQueue \o SetToSeq(statePend[p])
    /\ statePend' = [statePend EXCEPT ![p] = {}]
    /\ UNCHANGED <<sync, headerHead, taskPool, donePool, lacking, cacheVars, stateSched, statePool,
                   processors, invalid, closed, proc, history, cycles>>

---------------------------------------------------------------------------
(* Delivering bodies and receipts.                                          *)

\* The answer to a request is the sequence of headers its parts belong to;
\* the first n of them are what was asked for and have their place.
Matches(k, p, answer, n) ==
    \A i \in 1..n : /\ answer[i] = pendPool[k][p][i]
                     /\ Index(answer[i]) \in Cache /\ resultCache[Index(answer[i])] # None

Compared(k, p, answer) == Minimum(Len(answer), Len(pendPool[k][p]))

Accepted(k, p, answer) ==
    CHOOSE n \in 0..Compared(k, p, answer) :
        /\ Matches(k, p, answer, n)
        /\ n = Compared(k, p, answer) \/ ~Matches(k, p, answer, n + 1)

\* The error deliver returns.
DeliverError(k, p, answer) ==
    LET n == Accepted(k, p, answer)
    IN  CASE pendPool[k][p] = <<>> -> "errNoFetchesPending"
          [] n = Compared(k, p, answer) -> "nil"
          [] answer[n + 1] = pendPool[k][p][n + 1] -> "errInvalidChain"
          [] n > 0 -> "partial failure"
          [] OTHER -> "errStaleDelivery"

\* Mutation: the processor is woken once nothing is in flight any more.
DeliverSignalsIfAll(k, p, answer) ==
    LET request == pendPool[k][p]
        n == Accepted(k, p, answer)
        good == ToSet(SubSeq(request, 1, n))
    IN  /\ LockFree
        /\ pendPool' = [pendPool EXCEPT ![k][p] = <<>>]
        /\ lacking' = [lacking EXCEPT ![p] = IF answer = <<>> THEN @ \cup ToSet(request) ELSE @]
        /\ donePool' = [donePool EXCEPT ![k] = @ \cup good]
        /\ taskPool' = [taskPool EXCEPT ![k] = @ \ good]
        /\ resultCache' = [i \in Cache |->
               IF \E h \in good : Index(h) = i THEN Complete(resultCache[i], k) ELSE resultCache[i]]
        /\ taskQueue' = [taskQueue EXCEPT ![k] = Push(@, SubSeq(request, n + 1, Len(request)))]
        /\ Signal(n > 0 /\ InFlight(k) = Len(request))
        /\ invalid' = (invalid \/ DeliverError(k, p, answer) = "errInvalidChain")
        /\ UNCHANGED <<sync, headerHead, resultOffset, stateVars, processors, closed, history, cycles>>

\* deliver: the accepted parts go into the cache and the others back into the
\* queue; a peer that sent nothing lacks what it was asked for.
Deliver(k, p, answer) ==
    LET request == pendPool[k][p]
        n == Accepted(k, p, answer)
        good == ToSet(SubSeq(request, 1, n))
    IN  /\ LockFree
        /\ pendPool' = [pendPool EXCEPT ![k][p] = <<>>]
        /\ lacking' = [lacking EXCEPT ![p] = IF answer = <<>> THEN @ \cup ToSet(request) ELSE @]
        /\ donePool' = [donePool EXCEPT ![k] = @ \cup good]
        /\ taskPool' = [taskPool EXCEPT ![k] = @ \ good]
        /\ resultCache' = [i \in Cache |->
               IF \E h \in good : Index(h) = i THEN Complete(resultCache[i], k) ELSE resultCache[i]]
        /\ taskQueue' = [taskQueue EXCEPT ![k] = Push(@, SubSeq(request, n + 1, Len(request)))]
        /\ Signal(n > 0)
        /\ invalid' = (invalid \/ DeliverError(k, p, answer) = "errInvalidChain")
        /\ UNCHANGED <<sync, headerHead, resultOffset, stateVars, processors, closed, history, cycles>>

---------------------------------------------------------------------------
(* Node data.                                                               *)

InFlightNodes == UNION {statePend[p] : p \in Peers}

\* ReserveNodeData: the scheduler fills the queue up to the allowance, and the
\* peer is asked for what it does not lack.  An allowance of 0 is no limit.
ReserveNodeData(p, count) ==
    LET allowance == count - Cardinality(InFlightNodes)
        missing == IF stateSched = None THEN {} ELSE stateSched.missing
        fill == SetToSeq(IF Len(stateQueue) < allowance THEN missing ELSE {})
        tasks == stateQueue \o fill
        n == Minimum(Len(tasks), IF allowance = 0 THEN Len(tasks) ELSE allowance)
        fresh == SelectSeq(SubSeq(tasks, 1, n), LAMBDA h : h \notin lacking[p])
        sent == ToSet(SubSeq(fresh, 1, Minimum(Len(fresh), count)))
    IN  /\ LockFree /\ statePend[p] = {} /\ tasks # <<>>
        /\ stateSched' = IF fill = <<>> THEN stateSched ELSE [stateSched EXCEPT !.missing = {}]
        /\ statePool' = statePool \cup ToSet(fill)
        /\ stateQueue' = SelectSeq(tasks, LAMBDA h : h \notin sent)
        /\ statePend' = [statePend EXCEPT ![p] = sent]
        /\ UNCHANGED <<sync, queueVars, cacheVars, processors, invalid, closed, proc, history, bounds>>

\* DeliverNodeData: the nodes of the answer that were asked for go to a new
\* goroutine, the others back into the queue.
DeliverNodeData(p, answer) ==
    LET good == statePend[p] \cap answer
    IN  /\ LockFree /\ statePend[p] # {}
        /\ statePend' = [statePend EXCEPT ![p] = {}]
        /\ lacking' = [lacking EXCEPT ![p] = IF answer = {} THEN @ \cup statePend[p] ELSE @]
        /\ statePool' = statePool \ good
        /\ stateQueue' = stateQueue \o SetToSeq(statePend[p] \ good)
        /\ processors' = processors (+) SetToBag({SetToSeq(good)})
        /\ UNCHANGED <<sync, headerHead, taskPool, taskQueue, pendPool, donePool, cacheVars,
                       stateSched, invalid, closed, proc, history, cycles>>

\* StateSync.Process fails on a node without a request, and deliverNodeData
\* when the sync was reset.
Refused(node) ==
    stateSched = None \/ stateSched.done = PathLength \/ node > stateSched.done + 1

\* A goroutine that had the nodes m left has n left.
Replaced(m, n) == (processors (-) SetToBag({m})) (+) SetToBag({n})

\* deliverNodeData, under stateSchedLock: one node, or the error that drops
\* the rest.
ProcessNode(nodes) ==
    /\ nodes # <<>>
    /\ LET node == Head(nodes)
       IN  IF Refused(node)
           THEN processors' = Replaced(nodes, <<>>) /\ UNCHANGED stateSched
           ELSE /\ processors' = Replaced(nodes, Tail(nodes))
                /\ stateSched' = IF node <= stateSched.done THEN stateSched
                                 ELSE [missing |-> stateSched.missing \cup ({node + 1} \cap Nodes),
                                       done |-> node]
    /\ UNCHANGED <<sync, queueVars, cacheVars, stateQueue, statePool, statePend, invalid, closed,
                   proc, history, bounds>>

\* The end of deliverNodeData: it signals without holding the lock.
FinishNodes(nodes) ==
    /\ nodes = <<>>
    /\ processors' = processors (-) SetToBag({nodes})
    /\ Signal(TRUE)
    /\ UNCHANGED <<sync, queueVars, cacheVars, stateVars, invalid, closed, history, bounds>>

---------------------------------------------------------------------------
(* The queue with any sync around it.                                       *)

Init ==
    /\ sync = None /\ headerHead = None
    /\ taskPool = [k \in Kinds |-> {}] /\ taskQueue = [k \in Kinds |-> <<>>]
    /\ pendPool = [k \in Kinds |-> [p \in Peers |-> <<>>]]
    /\ donePool = [k \in Kinds |-> {}] /\ lacking = [p \in Peers |-> {}]
    /\ resultCache = [i \in Cache |-> None] /\ resultOffset = 0
    /\ stateSched = None /\ stateQueue = <<>> /\ statePool = {}
    /\ statePend = [p \in Peers |-> {}] /\ processors = EmptyBag
    /\ invalid = FALSE /\ closed = FALSE /\ proc = "done"
    /\ scheduled = <<>> /\ delivered = <<>> /\ cycles = 0 /\ failures = 0

Free == UNCHANGED failures
Failure == failures < MaxFailures /\ failures' = failures + 1

\* The header fetcher sends what follows its last batch, or junk.
Headers62 ==
    /\ cycles > 0 /\ ~closed /\ Free /\ \E hs \in Batches : Schedule(hs, sync.origin + 1 + Len(scheduled))

Reserve == /\ cycles > 0
           /\ \E p \in Peers, c \in Capacities :
                \/ \E k \in Kinds : ReserveHeaders(k, p, c)
                \/ ReserveNodeData(p, c)

\* A full answer, or one that is short, empty or not what was asked for.
Answer(k, p) ==
    /\ pendPool[k][p] # <<>>
    /\ \/ Deliver(k, p, pendPool[k][p]) /\ Free
       \/ \E answer \in {SubSeq(pendPool[k][p], 1, n) : n \in 0..(Len(pendPool[k][p]) - 1)}
                         \cup {Reverse(pendPool[k][p])} :
             answer # pendPool[k][p] /\ Deliver(k, p, answer) /\ Failure
AnswerNodes(p) ==
    \/ DeliverNodeData(p, statePend[p]) /\ Free
    \/ \E answer \in SUBSET statePend[p] :
           answer # statePend[p] /\ DeliverNodeData(p, answer) /\ Failure

Lose(p) ==
    \/ \E k \in Kinds : Expire(k, {p}) /\ Failure
    \/ ExpireNodeData({p}) /\ Failure
    \/ Revoke(p) /\ Failure

Next ==
    \/ \E s \in Syncs : NewCycle(s)
    \/ Close \/ Headers62 \/ Reserve \/ Count \/ Sleep \/ (TakeResults("call") /\ Free)
    \/ \E p \in Peers : (\E k \in Kinds : Answer(k, p)) \/ AnswerNodes(p) \/ Lose(p)
    \/ \E nodes \in BagToSet(processors) : ProcessNode(nodes) \/ FinishNodes(nodes)

Spec == Init /\ [][Next]_vars

---------------------------------------------------------------------------
(* Properties.                                                              *)

Results == [header : Headers, pending : 0..2, parts : SUBSET Kinds]

\* The pools, the cache and the state of the processor keep their types.
TypeOK ==
    /\ sync \in Syncs \cup {None} /\ headerHead \in Headers \cup {None}
    /\ taskPool \in [Kinds -> SUBSET Headers] /\ donePool \in [Kinds -> SUBSET Headers]
    /\ \A k \in Kinds : /\ taskQueue[k] \in Seq(Headers)
                        /\ \A p \in Peers : pendPool[k][p] \in Seq(Headers)
    /\ \A i \in Cache : resultCache[i] # None => resultCache[i] \in Results
    /\ resultOffset \in Nat /\ ToSet(stateQueue) \subseteq Nodes /\ statePool \subseteq Nodes
    /\ statePend \in [Peers -> SUBSET Nodes] /\ proc \in {"call", "counted", "wait", "done"}
    /\ closed \in BOOLEAN /\ invalid \in BOOLEAN

Holders(k, h) ==
    {<<"queue", i>> : i \in {j \in DOMAIN taskQueue[k] : taskQueue[k][j] = h}}
    \cup {<<p, i>> \in Peers \X (1..BlockCacheLimit) :
            i \in DOMAIN pendPool[k][p] /\ pendPool[k][p][i] = h}

\* A task is in exactly one place, the queue or the request of one peer, until
\* it is done, and nothing else is: no order of reservations, expiries,
\* revocations and short or wrong answers loses a block or has its part
\* counted twice.
TasksHeldOnce ==
    \A k \in Kinds : \A h \in Headers :
        /\ Cardinality(Holders(k, h)) = IF h \in taskPool[k] THEN 1 ELSE 0
        /\ h \in taskPool[k] => h \notin donePool[k]

\* The number of parts a result waits for is the number of parts it lacks,
\* and the parts it has are those counted as done.
PendingExact ==
    \A i \in Cache : resultCache[i] # None =>
        LET r == resultCache[i]
        IN  /\ Index(r.header) = i
            /\ r.pending = Cardinality(Components(r.header) \ r.parts)
            /\ r.parts = {k \in Kinds : r.header \in donePool[k]}

\* The space left by parts that are done or in flight always suffices for
\* what is reserved, and a delivery always finds its slot: the error that
\* reserveHeaders reports as an allocation beyond the cache, and which would
\* lose the headers popped so far, is never returned.
NeverBeyondCache == ~invalid

\* The pools, requests, cache and counters of the queue agree under all its
\* operations: every task is held once, counted rightly and finds its slot.
QueueConsistent == TypeOK /\ TasksHeldOnce /\ PendingExact /\ NeverBeyondCache

\* Every block the processor gets is complete, and the pivot block comes only
\* after the last node of its state was processed.
DeliveredComplete ==
    \A i \in DOMAIN delivered :
        /\ delivered[i].parts = Components(delivered[i].header)
        /\ (sync.mode = "fast" /\ Number[delivered[i].header] = sync.pivot)
               => stateSched # None /\ stateSched.done = PathLength

\* The queue implements ordered delivery: the blocks handed out are the
\* scheduled chain, in order, each once.
Delivery == INSTANCE OrderedDelivery
            WITH delivered <- [i \in DOMAIN delivered |-> delivered[i].header]
DeliversInOrder == Delivery!Spec

\* While the processor sleeps there is nothing to process, or a goroutine is
\* about to wake it.
SleepsOnlyIdle == proc = "wait" /\ Processable > 0 => processors # EmptyBag
==============================================================================
