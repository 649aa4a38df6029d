------------------------------ MODULE Fetcher ------------------------------
(***************************************************************************)
(* The block fetcher, eth/fetcher/fetcher.go: one loop that turns hash      *)
(* announcements into requests for blocks (eth/61) or for headers and then  *)
(* bodies (eth/62), and imports what arrives, each block in a goroutine of  *)
(* its own.                                                                 *)
(*                                                                          *)
(* The loop alternates between its top, where it drops expired fetches and  *)
(* starts the imports that fit, and a select, where it takes one event.     *)
(* Messages carry one block, header or body: a batch is its elements one    *)
(* after the other.  The local chain, which the downloader and the miner    *)
(* extend too, is the set of blocks it has.                                 *)
(***************************************************************************)
EXTENDS Integers, Sequences, FiniteSets

CONSTANTS
    Peers,         \* peers
    Peers61,       \* the peers that speak eth/61
    Hashes,        \* hashes of blocks
    Number,        \* Number[h]: the number of the block
    Parent,        \* Parent[h]: its parent, or the genesis block
    Genesis,       \* the genesis block, not in Hashes
    None,          \* nothing
    Body,          \* Body[h]: its transactions and uncles, None if it has neither
    Invalid,       \* blocks whose header is not valid
    Claims,        \* numbers a peer may announce
    HashLimit, BlockLimit, MaxUncleDist, MaxQueueDist,
    MaxGossip    \* bound: announcements and blocks sent unasked

ASSUME FetcherAssumption ==
    /\ IsFiniteSet(Hashes) /\ Peers61 \subseteq Peers /\ Genesis \notin Hashes
    /\ None \notin Peers \cup Hashes \cup {Genesis}
    /\ Number \in [Hashes -> Nat \ {0}]
    /\ DOMAIN Body = Hashes
    /\ Parent \in [Hashes -> Hashes \cup {Genesis}]
    /\ Invalid \subseteq Hashes /\ Claims \subseteq Nat
    /\ HashLimit \in Nat /\ BlockLimit \in Nat /\ MaxUncleDist \in Nat
    /\ MaxQueueDist \in Nat /\ MaxGossip \in Nat

VARIABLES
    loop,          \* where the loop is: "top" or "select"
    announces,     \* announces[p]: the announcements of p, by the fetcher's count
    announced,     \* announced[h]: the announcements of h, scheduled for fetching
    fetching,      \* fetching[h]: the one h is being fetched from, or None
    fetched,       \* fetched[h]: the one whose header is here, or None
    completing,    \* completing[h]: the one h is being completed from, or None
    fetchTimer, completeTimer,   \* whether a timer is set
    queue,         \* blocks waiting for their import
    queues,        \* queues[p]: the blocks of p, by the fetcher's count
    queued,        \* queued[h]: the peer the block is from, or None
    importing,     \* <<p, h>>: a goroutine in insert, with the block h of p
    finished,      \* blocks whose goroutine waits to report on done
    chain,         \* the blocks of the local chain
    gossip,      \* announcements and blocks sent unasked so far
    dropped,       \* peers that were dropped
    guilty         \* peers that announced a wrong number or an invalid block

announceVars == <<announces, announced, fetching, fetched, completing>>
timers == <<fetchTimer, completeTimer>>
queueVars == <<queue, queues, queued>>
imports == <<importing, finished>>
env == <<gossip, guilty>>
vars == <<loop, announceVars, timers, queueVars, imports, chain, dropped, env>>

Announces == [origin : Peers, number : Nat]
Maximum(S) == CHOOSE n \in S : \A k \in S : k <= n
ChainHeight == Maximum({0} \cup {Number[h] : h \in chain \cap Hashes})
TooFar(n) == n - ChainHeight < -MaxUncleDist \/ n - ChainHeight > MaxQueueDist

Waiting == {h \in Hashes : announced[h] # <<>>}
Incomplete == {h \in Hashes : fetched[h] # None}

---------------------------------------------------------------------------
(* Forgetting.                                                              *)

From(a, p) == a # None /\ a.origin = p

\* The entries of p that forgetHash finds for the hashes in S.
Traces(p, S) ==
    Cardinality({t \in S \X (1..MaxGossip) :
                    t[2] \in DOMAIN announced[t[1]] /\ From(announced[t[1]][t[2]], p)})
    + Cardinality({h \in S : From(fetching[h], p)})
    + Cardinality({h \in S : From(fetched[h], p)})
    + Cardinality({h \in S : From(completing[h], p)})

\* forgetHash for every hash in S.
ForgetHashes(S) ==
    /\ announces' = [p \in Peers |-> announces[p] - Traces(p, S)]
    /\ announced' = [h \in Hashes |-> IF h \in S THEN <<>> ELSE announced[h]]
    /\ fetching' = [h \in Hashes |-> IF h \in S THEN None ELSE fetching[h]]
    /\ fetched' = [h \in Hashes |-> IF h \in S THEN None ELSE fetched[h]]
    /\ completing' = [h \in Hashes |-> IF h \in S THEN None ELSE completing[h]]

\* forgetBlock for every hash in S.
ForgetBlocks(S) ==
    /\ queues' = [p \in Peers |-> queues[p] - Cardinality({h \in S : queued[h] = p})]
    /\ queued' = [h \in Hashes |-> IF h \in S THEN None ELSE queued[h]]

\* enqueue does not take a block of a peer with too many, or one too far away.
Refused(p, h) == queues[p] + 1 > BlockLimit \/ TooFar(Number[h])

\* Mutation: a block that is queued or being imported is scheduled again.
ScheduleAgain(p, h) ==
    /\ queues' = [queues EXCEPT ![p] = @ + 1]
    /\ queued' = [queued EXCEPT ![h] = p]
    /\ queue' = queue \cup {h}

\* The last part of enqueue.
Schedule(p, h) ==
    IF queued[h] # None THEN UNCHANGED queueVars
    ELSE /\ queues' = [queues EXCEPT ![p] = @ + 1]
         /\ queued' = [queued EXCEPT ![h] = p]
         /\ queue' = queue \cup {h}

\* enqueue.
Enqueue(p, h) ==
    IF Refused(p, h) THEN ForgetHashes({h}) /\ UNCHANGED queueVars
    ELSE Schedule(p, h) /\ UNCHANGED announceVars

---------------------------------------------------------------------------
(* The loop.                                                                *)

\* Mutation: only requests whose header has come expire.
ExpirableWithHeader == {h \in Hashes : fetching[h] # None /\ fetched[h] # None}

\* The requests that expire when they get older than fetchTimeout.
Expirable == {h \in Hashes : fetching[h] # None}

\* Forgets the fetches that took longer than fetchTimeout, then takes the
\* blocks up to one above the chain from the queue: a stale or known one is
\* forgotten, any other gets a goroutine.
Top(expired) ==
    LET height == ChainHeight
        due == {h \in queue : Number[h] <= height + 1}
        stale == {h \in due : Number[h] + MaxUncleDist < height \/ h \in chain}
    IN  /\ loop = "top" /\ loop' = "select"
        /\ expired \subseteq Expirable
        /\ ForgetHashes(expired)
        /\ queue' = queue \ due
        /\ ForgetBlocks(stale)
        /\ importing' = importing \cup {<<queued[h], h>> : h \in due \ stale}
        /\ UNCHANGED <<timers, finished, chain, dropped, env>>

Selected == loop = "select" /\ loop' = "top"

\* The block is downloading already.
Downloading(h) == fetching[h] # None \/ completing[h] # None

\* p announces h as block number n, 0 in eth/61.
Notify(p, h, n) ==
    /\ Selected /\ gossip < MaxGossip
    /\ (n = 0) <=> (p \in Peers61)
    /\ gossip' = gossip + 1
    /\ guilty' = IF (n # 0 /\ n # Number[h]) \/ h \in Invalid THEN guilty \cup {p} ELSE guilty
    /\ IF \/ announces[p] + 1 > HashLimit
          \/ n > 0 /\ TooFar(n)
          \/ Downloading(h)
       THEN UNCHANGED <<announces, announced, fetchTimer>>
       ELSE /\ announces' = [announces EXCEPT ![p] = @ + 1]
            /\ announced' = [announced EXCEPT ![h] = Append(@, [origin |-> p, number |-> n])]
            /\ fetchTimer' = (fetchTimer \/ Waiting \subseteq {h})
    /\ UNCHANGED <<fetching, fetched, completing, completeTimer, queueVars, imports, chain,
                   dropped>>

\* p sends the whole block h without being asked.
Inject(p, h) ==
    /\ Selected /\ gossip < MaxGossip
    /\ gossip' = gossip + 1
    /\ guilty' = IF h \in Invalid THEN guilty \cup {p} ELSE guilty
    /\ Enqueue(p, h)
    /\ UNCHANGED <<timers, imports, chain, dropped>>

\* The import of h has finished, one way or the other.
Done(h) ==
    /\ Selected /\ h \in finished
    /\ finished' = finished \ {h}
    /\ ForgetHashes({h}) /\ ForgetBlocks({h})
    /\ UNCHANGED <<timers, queue, importing, chain, dropped, env>>

\* Mutation: the timer is not set again after it fired.
RescheduledNever(due) == FALSE

\* rescheduleFetch sets the timer again if announcements are left.
Rescheduled(due) == Waiting \ due # {}

\* The fetch timer: a random announcement is picked for each hash in due, the
\* ones announced long enough ago, and the hash is requested from its peer
\* unless the block has arrived.
Fetch(due) ==
    /\ Selected /\ fetchTimer /\ due \subseteq Waiting
    /\ \E pick \in [due -> 1..MaxGossip] :
         /\ \A h \in due : pick[h] \in DOMAIN announced[h]
         /\ announces' = [p \in Peers |-> announces[p] - Traces(p, due)]
         /\ announced' = [h \in Hashes |-> IF h \in due THEN <<>> ELSE announced[h]]
         /\ fetching' = [h \in Hashes |-> IF h \in due \ chain THEN announced[h][pick[h]]
                                          ELSE IF h \in due THEN None ELSE fetching[h]]
    /\ fetched' = [h \in Hashes |-> IF h \in due THEN None ELSE fetched[h]]
    /\ completing' = [h \in Hashes |-> IF h \in due THEN None ELSE completing[h]]
    /\ fetchTimer' = Rescheduled(due)
    /\ UNCHANGED <<completeTimer, queueVars, imports, chain, dropped, env>>

\* The complete timer: the bodies of all fetched headers are requested.
Complete ==
    /\ Selected /\ completeTimer
    /\ announces' = [p \in Peers |-> announces[p] - Traces(p, Incomplete)]
    /\ announced' = [h \in Hashes |-> IF h \in Incomplete THEN <<>> ELSE announced[h]]
    /\ fetching' = [h \in Hashes |-> IF h \in Incomplete THEN None ELSE fetching[h]]
    /\ fetched' = [h \in Hashes |-> None]
    /\ completing' = [h \in Hashes |-> IF h \in Incomplete \ chain THEN fetched[h]
                                       ELSE IF h \in Incomplete THEN None ELSE completing[h]]
    /\ completeTimer' = FALSE
    /\ UNCHANGED <<fetchTimer, queueVars, imports, chain, dropped, env>>

\* A block arrives.  It is the fetcher's if it is being fetched and not queued.
FilterBlock(h) ==
    /\ Selected
    /\ IF fetching[h] = None \/ queued[h] # None THEN UNCHANGED <<announceVars, queueVars>>
       ELSE IF h \in chain THEN ForgetHashes({h}) /\ UNCHANGED queueVars
       ELSE Enqueue(fetching[h].origin, h)
    /\ UNCHANGED <<timers, imports, chain, dropped, env>>

\* Mutation: the announced number is compared with the wrong one.
MismatchOffByOne(h, a) == Number[h] # a.number + 1

\* The announcer did not tell the number the header has.
Mismatch(h, a) == Number[h] # a.number

\* A header arrives.  Its announcer is dropped if it had given another number;
\* an empty block is queued at once, any other waits for its body.
FilterHeader(h) ==
    /\ Selected
    /\ LET a == fetching[h]
           mine == a # None /\ fetched[h] = None /\ completing[h] = None /\ queued[h] = None
       IN  \/ /\ ~mine
              /\ UNCHANGED <<announceVars, queueVars, completeTimer, dropped>>
           \/ /\ mine /\ Mismatch(h, a)
              /\ dropped' = dropped \cup {a.origin}
              /\ ForgetHashes({h})
              /\ UNCHANGED <<queueVars, completeTimer>>
           \/ /\ mine /\ ~Mismatch(h, a) /\ h \in chain
              /\ ForgetHashes({h})
              /\ UNCHANGED <<queueVars, completeTimer, dropped>>
           \/ /\ mine /\ ~Mismatch(h, a) /\ h \notin chain /\ Body[h] # None
              /\ fetched' = [fetched EXCEPT ![h] = a]
              /\ completeTimer' = (completeTimer \/ Incomplete = {})
              /\ UNCHANGED <<announces, announced, fetching, completing, queueVars, dropped>>
           \/ /\ mine /\ ~Mismatch(h, a) /\ h \notin chain /\ Body[h] = None
              /\ IF Refused(a.origin, h)
                 THEN /\ announces' = [p \in Peers |-> announces[p] - Traces(p, {h})
                                                      - (IF From(a, p) THEN 1 ELSE 0)]
                      /\ announced' = [announced EXCEPT ![h] = <<>>]
                      /\ fetching' = [fetching EXCEPT ![h] = None]
                      /\ UNCHANGED <<fetched, completing, queueVars>>
                 ELSE /\ completing' = [completing EXCEPT ![h] = a]
                      /\ Schedule(a.origin, h)
                      /\ UNCHANGED <<announces, announced, fetching, fetched>>
              /\ UNCHANGED <<completeTimer, dropped>>
    /\ UNCHANGED <<fetchTimer, imports, chain, env>>

\* A body arrives, for every block being completed that has it and is not
\* queued.  Blocks are taken in the order of a map: any of a peer's, up to its
\* limit.
FilterBody(body) ==
    /\ Selected
    /\ LET origin(h) == completing[h].origin
           matched == {h \in Hashes : completing[h] # None /\ queued[h] = None /\ Body[h] = body}
           new == {h \in matched \ chain : ~TooFar(Number[h])}
           of(p, S) == {h \in S : origin(h) = p}
       IN  \E taken \in SUBSET new :
             /\ \A p \in Peers :
                  /\ queues[p] + Cardinality(of(p, taken)) <= BlockLimit
                  /\ of(p, new) \subseteq taken
                     \/ queues[p] + Cardinality(of(p, taken)) = BlockLimit
             /\ ForgetHashes(matched \ taken)
             /\ queues' = [p \in Peers |-> queues[p] + Cardinality(of(p, taken))]
             /\ queued' = [h \in Hashes |-> IF h \in taken THEN origin(h) ELSE queued[h]]
             /\ queue' = queue \cup taken
    /\ UNCHANGED <<timers, imports, chain, dropped, env>>

---------------------------------------------------------------------------
(* The goroutines of insert, and the rest of the node.                      *)

\* The goroutine ends: the parent is unknown, the header is not valid and the
\* peer is dropped, or the chain takes the block or fails to.
Insert(p, h) ==
    /\ <<p, h>> \in importing
    /\ importing' = importing \ {<<p, h>>}
    /\ finished' = finished \cup {h}
    /\ \/ /\ Parent[h] \notin chain
          /\ UNCHANGED <<chain, dropped>>
       \/ /\ Parent[h] \in chain /\ h \in Invalid
          /\ dropped' = dropped \cup {p}
          /\ UNCHANGED chain
       \/ /\ Parent[h] \in chain /\ h \notin Invalid
          /\ chain' \in {chain, chain \cup {h}}
          /\ UNCHANGED dropped
    /\ UNCHANGED <<loop, announceVars, timers, queueVars, env>>

\* The downloader or the miner adds a block to the chain.
Extend(h) ==
    /\ h \notin chain \cup Invalid /\ Parent[h] \in chain
    /\ chain' = chain \cup {h}
    /\ UNCHANGED <<loop, announceVars, timers, queueVars, imports, dropped, env>>

\* A message with nothing in it for the fetcher goes through a filter.
Pass ==
    /\ Selected
    /\ UNCHANGED <<announceVars, timers, queueVars, imports, chain, dropped, env>>

Init ==
    /\ loop = "top"
    /\ announces = [p \in Peers |-> 0]
    /\ announced = [h \in Hashes |-> <<>>]
    /\ fetching = [h \in Hashes |-> None]
    /\ fetched = [h \in Hashes |-> None]
    /\ completing = [h \in Hashes |-> None]
    /\ fetchTimer = TRUE /\ completeTimer = TRUE
    /\ queue = {} /\ queues = [p \in Peers |-> 0] /\ queued = [h \in Hashes |-> None]
    /\ importing = {} /\ finished = {}
    /\ chain = {Genesis}
    /\ gossip = 0 /\ dropped = {} /\ guilty = {}

Next ==
    \/ \E expired \in SUBSET Hashes : Top(expired)
    \/ \E p \in Peers, h \in Hashes, n \in Claims : Notify(p, h, n)
    \/ \E p \in Peers, h \in Hashes : Inject(p, h)
    \/ \E h \in Hashes : Done(h)
    \/ \E due \in SUBSET Hashes : Fetch(due)
    \/ Complete
    \/ \E h \in Hashes : FilterBlock(h)
    \/ \E h \in Hashes : FilterHeader(h)
    \/ \E h \in Hashes : FilterBody(Body[h])
    \/ \E p \in Peers, h \in Hashes : Insert(p, h)
    \/ \E h \in Hashes : Extend(h)
    \/ Pass

Spec == Init /\ [][Next]_vars

\* The loop runs and the goroutines end; select, which picks at random, does
\* not pass over an event for ever; a fetch gets too old; the node's other
\* traffic keeps coming through the filters.  No peer has to answer.
FairSpec ==
    /\ Spec
    /\ WF_vars(\E expired \in SUBSET Hashes : Top(expired))
    /\ WF_vars(Pass)
    /\ SF_vars(Complete)
    /\ SF_vars(\E h \in Hashes : Done(h))
    /\ WF_vars(\E p \in Peers, h \in Hashes : Insert(p, h))
    /\ \A h \in Hashes :
         /\ SF_vars(\E expired \in SUBSET Hashes : h \in expired /\ Top(expired))
         /\ SF_vars(\E due \in SUBSET Hashes : h \in due /\ Fetch(due))

---------------------------------------------------------------------------
(* Properties.                                                              *)

\* Every variable holds a value of its type.  The counts of announcements may
\* become negative: forgetHash takes one off for every later stage too, which
\* nothing had added.
TypeOK ==
    /\ loop \in {"top", "select"}
    /\ announces \in [Peers -> Int]
    /\ announced \in [Hashes -> Seq(Announces)]
    /\ fetching \in [Hashes -> Announces \cup {None}]
    /\ fetched \in [Hashes -> Announces \cup {None}]
    /\ completing \in [Hashes -> Announces \cup {None}]
    /\ fetchTimer \in BOOLEAN /\ completeTimer \in BOOLEAN
    /\ queue \subseteq Hashes
    /\ queues \in [Peers -> Nat]
    /\ queued \in [Hashes -> Peers \cup {None}]
    /\ importing \subseteq Peers \X Hashes
    /\ finished \subseteq Hashes
    /\ chain \subseteq Hashes \cup {Genesis}
    /\ gossip \in 0..MaxGossip
    /\ dropped \subseteq Peers /\ guilty \subseteq Peers

\* A block the fetcher has taken is in exactly one place: the queue, one import
\* goroutine, or waiting to report.  So no block is imported twice at a time
\* whatever peers send it, and none is lost (enqueue, the top of loop, insert).
OneImport ==
    LET running == {i[2] : i \in importing}
    IN  /\ {h \in Hashes : queued[h] # None} = queue \cup running \cup finished
        /\ queue \cap running = {} /\ queue \cap finished = {} /\ running \cap finished = {}
        /\ \A i \in importing : queued[i[2]] = i[1]

\* The count a peer is refused by is the number of its blocks, queued or being
\* imported, and stays within blockLimit (enqueue and forgetBlock).
QueuesExact ==
    \A p \in Peers : /\ queues[p] = Cardinality({h \in Hashes : queued[h] = p})
                     /\ queues[p] <= BlockLimit

\* A hash is in one stage at a time: an announced one is not being fetched or
\* completed, and one with its header here is still on the list of fetches, so
\* that it expires with it (notify, the timers and the header filter).
OneStage ==
    \A h \in Hashes :
        /\ announced[h] # <<>> => fetching[h] = None /\ fetched[h] = None /\ completing[h] = None
        /\ fetched[h] # None => fetching[h] = fetched[h] /\ completing[h] = None

\* Work is never left without its timer, though the timers are only set for the
\* first entry and when one fires (rescheduleFetch and rescheduleComplete).
TimersSet ==
    /\ Waiting # {} => fetchTimer
    /\ Incomplete # {} => completeTimer

\* The maps of the fetcher agree with each other, its counts and its timers at
\* the end of every iteration of the loop, whatever comes in which order.
Bookkeeping == TypeOK /\ QueuesExact /\ OneStage /\ TimersSet

\* A peer of eth/62 is dropped only if it announced a block with the wrong
\* number, or an invalid block, whoever delivered what.  An eth/61 peer, which
\* gives no number, can be dropped for nothing when another peer sends the header.
DropsJustified == dropped \subseteq guilty \cup Peers61

\* A hash that is announced, or whose header or block is requested, does not
\* stay so for ever, whether peers answer or not.
AnnouncesProcessed ==
    \A h \in Hashes :
        []<>(announced[h] = <<>> /\ fetching[h] = None /\ fetched[h] = None)
=============================================================================
