----------------------------- MODULE Downloader -----------------------------
(***************************************************************************)
(* A sync cycle of eth/downloader/downloader.go on eth/62 and above, with   *)
(* the peers of peer.go: the header fetcher, the fetchers of bodies and of  *)
(* receipts (fetchParts) and the processor, one goroutine each, around the  *)
(* queue of DownloadQueue, and spawnSync, which waits for them.  The state  *)
(* fetcher runs the same fetchParts and is left out, so a fast sync is one  *)
(* of a chain too short to have a pivot.                                    *)
(*                                                                          *)
(* A content fetcher selects between answers, wake signals and updates,     *)
(* which its ticker keeps coming.  An update goes through the idle peers    *)
(* one by one; each call of the queue in it takes the lock anew, and so do  *)
(* the two questions that decide whether the fetcher is done; the other     *)
(* reads at the beginning of an update are one step.  Peers answer what     *)
(* they were asked for, wholly, in part, late or never.                     *)
(***************************************************************************)
EXTENDS DownloadQueue

CONSTANTS
    Fetchers,           \* the content fetchers
    Master,             \* the peer synchronised with
    MaxQueuedHeaders

Channels == SelectSeq(<<"body", "receipt">>, LAMBDA f : f \in Fetchers)

ASSUME DownloaderAssumption ==
    /\ Fetchers \subseteq Kinds /\ "body" \in Fetchers
    /\ \A s \in Syncs : s.pivot = 0
    /\ Master \in Peers /\ MaxQueuedHeaders \in Nat \ {0}

VARIABLES
    online,       \* registered peers
    leaving,      \* peers unregistered, whose requests are not yet revoked
    idle,         \* idle[f]: peers without an assignment of f
    proven,       \* proven[f]: peers whose measured throughput is not 0
    net,          \* net[f][p]: requests p has not answered
    fetcher,      \* fetcher[f]: "select", "ending",
                  \* "assign", "done" or "failed"
    round,        \* round[f]: the update f is in
    finished,     \* fetchers that know that no more headers come
    wake,         \* wake[f]: what is in the wake channel of f
    headers,      \* the header fetcher: "run", "notify", "empty", "drop",
                  \* "timeout", "done" or "failed"
    untold,       \* channels the header fetcher has yet to send the end to
    cancelled,    \* cancelCh is closed
    interrupt,    \* the processor is to stop
    failed        \* the processor returned an error

fetchVars == <<idle, proven, net, fetcher, round, finished>>
headerVars == <<headers, untold>>
dvars == <<online, leaving, fetchVars, wake, headerVars, cancelled, interrupt, failed>>
allVars == <<vars, dvars>>

NoRound == [todo |-> {}, dropped |-> {}, progressed |-> FALSE, throttled |-> FALSE, running |-> FALSE, all |-> FALSE]

Asked(f, p) == pendPool[f][p] # <<>>

---------------------------------------------------------------------------
(* The header fetcher.                                                      *)

\* A batch of headers.  One that does not continue the chain ends the sync.
HeadersArrive(hs) ==
    LET from == sync.origin + 1 + Len(scheduled)
    IN  /\ headers = "run"
        /\ Schedule(hs, from)
        /\ IF Inserts(hs, from) = hs THEN headers' = "notify" /\ Free
                                     ELSE headers' = "failed" /\ Failure
        /\ UNCHANGED <<online, leaving, fetchVars, wake, untold, cancelled, interrupt, failed>>

\* In a fast sync the headers are inserted first, which may fail.
HeadersInvalid ==
    /\ headers = "run" /\ sync.mode = "fast"
    /\ headers' = "failed" /\ Failure
    /\ UNCHANGED <<queue, online, leaving, fetchVars, wake, untold, cancelled, interrupt, failed>>

\* The blocking send of the end, which a cancelled sync may skip.
SendEnd(f) ==
    \/ wake[f] = "none" /\ wake' = [wake EXCEPT ![f] = "end"]
    \/ cancelled /\ UNCHANGED wake

\* The fetchers are woken, and the next batch is requested; but with too many
\* headers queued the first fetcher is told that it was the last batch, and
\* the header fetcher returns.
HeadersNotify ==
    /\ headers = "notify" /\ LockFree
    /\ IF Len(taskQueue["body"]) < MaxQueuedHeaders \/ Len(taskQueue["receipt"]) < MaxQueuedHeaders
       THEN /\ headers' = "run"
            /\ wake' = [f \in Fetchers |-> IF wake[f] = "none" THEN "more" ELSE wake[f]]
       ELSE /\ headers' = "done"
            /\ SendEnd("body")
    /\ UNCHANGED <<vars, online, leaving, fetchVars, untold, cancelled, interrupt, failed>>

\* No more headers, or the request timed out and the peer is dropped: all
\* fetchers are told.
HeadersEnd ==
    /\ headers = "run" /\ untold' = Channels
    /\ \/ headers' = "empty" /\ Free /\ UNCHANGED <<online, leaving>>
       \/ headers' = "timeout" /\ Free /\ Master \notin online /\ UNCHANGED <<online, leaving>>
       \/ /\ headers' = "drop" /\ Failure /\ Master \in online
          /\ online' = online \ {Master} /\ leaving' = leaving \cup {Master}
    /\ UNCHANGED <<queue, fetchVars, wake, cancelled, interrupt, failed>>

\* One blocking send per channel.  After the last, a peer that delivered less
\* than it promised is an error.
HeadersTell ==
    /\ headers \in {"empty", "timeout"} /\ untold' = Tail(untold)
    /\ SendEnd(Head(untold))
    /\ \/ headers' = (IF Len(untold) > 1 THEN headers ELSE "done") /\ Free
       \/ /\ headers = "empty" /\ headers' = "failed" /\ Failure
          /\ Len(untold) = 1 /\ (scheduled = <<>> \/ sync.mode = "fast")
    /\ UNCHANGED <<queue, online, leaving, fetchVars, cancelled, interrupt, failed>>

HeadersCancel ==
    /\ headers = "run" /\ cancelled
    /\ headers' = "failed"
    /\ UNCHANGED <<vars, online, leaving, fetchVars, wake, untold, cancelled, interrupt, failed>>

---------------------------------------------------------------------------
(* The content fetchers.                                                    *)

\* Mutation: only a peer that delivered something becomes idle.
SetIdleIfUseful(f, p, accepted) ==
    /\ idle' = [idle EXCEPT ![f] = IF accepted = 0 THEN @ ELSE @ \cup {p}]
    /\ proven' = [proven EXCEPT ![f] = IF accepted = 0 THEN @ \ {p} ELSE @ \cup {p}]

\* setIdle: the throughput of a peer that delivered nothing is reset.
SetIdle(f, p, accepted) ==
    /\ idle' = [idle EXCEPT ![f] = @ \cup {p}]
    /\ proven' = [proven EXCEPT ![f] = IF accepted = 0 THEN @ \ {p} ELSE @ \cup {p}]

Answered(f, p) == net' = [net EXCEPT ![f][p] = Tail(@)]

\* What setIdle is not called for: a delivery that matches nothing of the
\* request it is taken for.
Stale(f, p, answer) == DeliverError(f, p, answer) = "errStaleDelivery"

\* Bodies or receipts arrive, as many as n of those asked for.
PartsArrive(f, p, n) ==
    LET answer == SubSeq(net[f][p][1], 1, n)
        error == DeliverError(f, p, answer)
        accepted == IF error = "errNoFetchesPending" THEN 0 ELSE Accepted(f, p, answer)
    IN  /\ fetcher[f] = "select" /\ p \in online /\ net[f][p] # <<>>
        /\ n \in 0..Len(net[f][p][1])
        /\ Answered(f, p)
        /\ IF error = "errNoFetchesPending"
           THEN LockFree /\ UNCHANGED vars
           ELSE Deliver(f, p, answer) /\ (IF n = Len(net[f][p][1]) THEN Free ELSE Failure)
        /\ fetcher' = IF error = "errInvalidChain" THEN [fetcher EXCEPT ![f] = "failed"] ELSE fetcher
        /\ IF Stale(f, p, answer) \/ error = "errInvalidChain"
           THEN UNCHANGED <<idle, proven>> ELSE SetIdle(f, p, accepted)
        /\ UNCHANGED <<online, leaving, round, finished, wake, headerVars, cancelled, interrupt, failed>>

\* A wake signal; the last one says that no more headers come.
Wake(f) ==
    /\ fetcher[f] = "select" /\ wake[f] # "none"
    /\ wake' = [wake EXCEPT ![f] = "none"]
    /\ finished' = IF wake[f] = "end" THEN finished \cup {f} ELSE finished
    /\ UNCHANGED <<vars, online, leaving, idle, proven, net, fetcher, round, headerVars, cancelled, interrupt, failed>>

\* An update: without peers the sync fails.  The requests of the peers in S
\* have timed out: a peer that was asked for one thing only is dropped.  Then
\* the idle peers get assignments, if anything is pending, once the dropped
\* ones have returned what they were asked for.
Update(f, S) ==
    LET single == {p \in S \cap online : Len(pendPool[f][p]) = 1}
        spared == (S \cap online) \ single
    IN  /\ fetcher[f] = "select"
        /\ IF online = {}
           THEN /\ S = {} /\ LockFree /\ fetcher' = [fetcher EXCEPT ![f] = "failed"]
                /\ UNCHANGED <<vars, online, leaving, idle, proven, round>>
           ELSE /\ IF S = {} THEN LockFree /\ UNCHANGED vars
                   ELSE Expire(f, S) /\ (IF S \cap online = {} THEN Free ELSE Failure)
                /\ online' = online \ single /\ leaving' = leaving \cup single
                /\ idle' = [idle EXCEPT ![f] = @ \cup spared]
                /\ proven' = [proven EXCEPT ![f] = @ \ spared]
                /\ IF S = {} /\ taskQueue[f] = <<>>
                   THEN fetcher' = [fetcher EXCEPT ![f] = "ending"] /\ UNCHANGED round
                   ELSE /\ fetcher' = [fetcher EXCEPT ![f] = "assign"]
                        /\ round' = [round EXCEPT ![f] =
                              [todo |-> idle'[f] \cap online', dropped |-> single, progressed |-> FALSE,
                               throttled |-> FALSE, running |-> \E p \in Peers \ S : Asked(f, p),
                               all |-> online' \subseteq idle'[f]]]
        /\ UNCHANGED <<net, finished, wake, headerVars, cancelled, interrupt, failed>>

\* Mutation: requests in flight are not waited for.
EndingInFlight(f) ==
    /\ fetcher[f] = "ending" /\ LockFree
    /\ fetcher' = [fetcher EXCEPT ![f] = IF f \in finished THEN "done" ELSE "select"]
    /\ UNCHANGED <<vars, online, leaving, idle, proven, net, round, finished, wake, headerVars, cancelled, interrupt, failed>>

\* Nothing pending: the fetcher is done if nothing is in flight either and no
\* more headers come.
Ending(f) ==
    /\ fetcher[f] = "ending" /\ LockFree
    /\ fetcher' = [fetcher EXCEPT ![f] = IF InFlight(f) = 0 /\ f \in finished THEN "done" ELSE "select"]
    /\ UNCHANGED <<vars, online, leaving, idle, proven, net, round, finished, wake, headerVars, cancelled, interrupt, failed>>

\* BlockCapacity and its like: one, for a peer without a measured throughput.
Capacity(f, p) == IF p \in proven[f] THEN Capacities ELSE {1}

\* reserve and fetch for one peer, the fastest first.  Without a request the loop continues.
Assign(f, p) ==
    /\ fetcher[f] = "assign" /\ round[f].dropped \cap leaving = {}
    /\ p \in round[f].todo /\ (p \in proven[f] \/ round[f].todo \cap proven[f] = {})
    /\ ~round[f].throttled /\ LockFree
    /\ IF ShouldThrottle(f)
       THEN round' = [round EXCEPT ![f].throttled = TRUE] /\ UNCHANGED <<vars, idle, net, fetcher>>
       ELSE IF Asked(f, p) \/ taskQueue[f] = <<>>
       THEN round' = [round EXCEPT ![f].todo = @ \ {p}] /\ UNCHANGED <<vars, idle, net, fetcher>>
       ELSE \E c \in Capacity(f, p) :
            /\ ReserveHeaders(f, p, c)
            /\ LET request == pendPool'[f][p]
                   sends == request # <<>>
                   progress == donePool'[f] # donePool[f]
               IN  /\ round' = [round EXCEPT ![f] = [@ EXCEPT !.todo = @ \ {p}, !.progressed = @ \/ progress,
                                                             !.running = @ \/ sends]]
                   /\ idle' = IF sends THEN [idle EXCEPT ![f] = @ \ {p}] ELSE idle
                   /\ net' = IF sends THEN [net EXCEPT ![f][p] = Append(@, request)] ELSE net
                   /\ fetcher' = IF invalid' /\ ~invalid THEN [fetcher EXCEPT ![f] = "failed"] ELSE fetcher
    /\ UNCHANGED <<online, leaving, proven, finished, wake, headerVars, cancelled, interrupt, failed>>

\* The end of an update.  If all peers are idle and none could be asked, the
\* sync fails.
Assigned(f) ==
    /\ fetcher[f] = "assign" /\ round[f].dropped \cap leaving = {}
    /\ LockFree /\ (round[f].todo = {} \/ round[f].throttled)
    /\ fetcher' = [fetcher EXCEPT ![f] =
           IF /\ ~round[f].progressed /\ ~round[f].throttled /\ ~round[f].running
              /\ round[f].all /\ taskQueue[f] # <<>>
           THEN "failed" ELSE "select"]
    /\ round' = [round EXCEPT ![f] = NoRound]
    /\ UNCHANGED <<vars, online, leaving, idle, proven, net, finished, wake, headerVars, cancelled, interrupt, failed>>

FetchCancel(f) ==
    /\ fetcher[f] = "select" /\ cancelled
    /\ fetcher' = [fetcher EXCEPT ![f] = "failed"]
    /\ UNCHANGED <<vars, online, leaving, idle, proven, net, round, finished, wake, headerVars, cancelled, interrupt, failed>>

---------------------------------------------------------------------------
(* Peers that leave.                                                        *)

\* UnregisterPeer, by the connection of the peer.
Unregister(p) ==
    /\ p \in online /\ Failure
    /\ online' = online \ {p} /\ leaving' = leaving \cup {p}
    /\ UNCHANGED <<queue, fetchVars, wake, headerVars, cancelled, interrupt, failed>>

\* The rest of UnregisterPeer.
RevokePeer(p) ==
    /\ p \in leaving /\ Revoke(p) /\ Free
    /\ leaving' = leaving \ {p}
    /\ net' = [f \in Fetchers |-> [net[f] EXCEPT ![p] = <<>>]]
    /\ headers' = IF headers = "drop" /\ p = Master THEN "timeout" ELSE headers
    /\ UNCHANGED <<online, idle, proven, fetcher, round, finished, wake, untold, cancelled,
                   interrupt, failed>>

---------------------------------------------------------------------------
(* The processor and spawnSync.                                             *)

\* WaitResults with nothing to return.  Without a state download all that it
\* reads is under the lock it holds until it sleeps.
Wait ==
    /\ proc = "call" /\ Processable = 0 /\ ~closed
    /\ proc' = "wait"
    /\ UNCHANGED <<sync, queueVars, cacheVars, stateVars, processors, invalid, closed, history, bounds>>

\* process: the results are imported, unless the node shuts down; an import
\* that fails ends it.
Process ==
    /\ \/ Wait /\ UNCHANGED failed
       \/ (Processable = 0 \/ ~interrupt) /\ TakeResults("call") /\ Free /\ UNCHANGED failed
       \/ /\ Processable > 0 /\ TakeResults("done") /\ failed' = TRUE
          /\ IF interrupt THEN Free ELSE Failure
    /\ UNCHANGED <<online, leaving, fetchVars, wake, headerVars, cancelled, interrupt>>

Fetched == headers = "done" /\ \A f \in Fetchers : fetcher[f] = "done"
Failing == headers = "failed" \/ failed \/ \E f \in Fetchers : fetcher[f] = "failed"

\* spawnSync, when all fetchers have returned without an error.
CloseFetched ==
    /\ Fetched /\ Close
    /\ UNCHANGED dvars

\* Mutation: an error cancels the fetchers but leaves the queue open.
CancelLeavesOpen ==
    /\ Failing \/ (Fetched /\ closed /\ proc = "done")
    /\ cycles > 0 /\ LockFree /\ ~cancelled
    /\ cancelled' = TRUE
    /\ UNCHANGED <<vars, online, leaving, fetchVars, wake, headerVars, interrupt, failed>>

\* spawnSync, after the first error or when all have returned: Close, then
\* cancel.
Cancel ==
    /\ Failing \/ (Fetched /\ closed /\ proc = "done")
    /\ cycles > 0 /\ LockFree /\ ~(closed /\ cancelled)
    /\ IF closed THEN UNCHANGED vars ELSE Close
    /\ cancelled' = TRUE
    /\ UNCHANGED <<online, leaving, fetchVars, wake, headerVars, interrupt, failed>>

\* wg.Wait has returned, or no sync was begun.
Over ==
    cycles > 0 => /\ closed /\ cancelled /\ proc = "done" /\ headers \in {"done", "failed"}
                  /\ \A f \in Fetchers : fetcher[f] \in {"done", "failed"}

\* Terminate, by the node that shuts down.
Terminate ==
    /\ ~Over /\ ~interrupt /\ interrupt' = TRUE /\ cancelled' = TRUE /\ Failure
    /\ UNCHANGED <<queue, online, leaving, fetchVars, wake, headerVars, failed>>

\* synchronise, with new wake and cancel channels and reset peers.  Answers
\* that came while no sync ran were dropped.
Synchronise(s) ==
    /\ Over /\ Master \in online /\ ~interrupt /\ NewCycle(s)
    /\ idle' = [f \in Fetchers |-> Peers] /\ proven' = [f \in Fetchers |-> {}]
    /\ fetcher' = [f \in Fetchers |-> "select"] /\ round' = [f \in Fetchers |-> NoRound]
    /\ finished' = {} /\ wake' = [f \in Fetchers |-> "none"]
    /\ headers' = "run" /\ untold' = <<>> /\ cancelled' = FALSE /\ failed' = FALSE
    /\ net' \in {net, [f \in Fetchers |-> [p \in Peers |-> <<>>]]}
    /\ UNCHANGED <<online, leaving, interrupt>>

---------------------------------------------------------------------------
DInit ==
    /\ Init
    /\ online = Peers /\ leaving = {}
    /\ idle = [f \in Fetchers |-> Peers] /\ proven = [f \in Fetchers |-> {}]
    /\ net = [f \in Fetchers |-> [p \in Peers |-> <<>>]]
    /\ fetcher = [f \in Fetchers |-> "done"] /\ round = [f \in Fetchers |-> NoRound]
    /\ finished = {} /\ wake = [f \in Fetchers |-> "none"]
    /\ headers = "done" /\ untold = <<>> /\ cancelled = FALSE
    /\ interrupt = FALSE /\ failed = FALSE

HeaderStep ==
    \/ \E hs \in Batches : HeadersArrive(hs)
    \/ HeadersInvalid \/ HeadersNotify \/ HeadersEnd \/ HeadersTell

Arrive(f, p) == net[f][p] # <<>> /\ \E n \in 0..Len(net[f][p][1]) : PartsArrive(f, p, n)

Timeouts(f) == {S \in SUBSET Peers : \A p \in S : Asked(f, p)}
Updating(f) == \E S \in Timeouts(f) : Update(f, S)
Reclaim(f) == \E S \in Timeouts(f) : S # {} /\ S \cap online = {} /\ Update(f, S)
Updated(f) == Ending(f) \/ Assigned(f) \/ \E p \in Peers : Assign(f, p)

DNext ==
    \/ \E s \in Syncs : Synchronise(s)
    \/ HeaderStep \/ HeadersCancel
    \/ \E f \in Fetchers : Wake(f) \/ Updating(f) \/ Updated(f) \/ FetchCancel(f)
    \/ \E f \in Fetchers, p \in Peers : Arrive(f, p)
    \/ \E p \in Peers : Unregister(p) \/ RevokePeer(p)
    \/ Process \/ CloseFetched \/ Cancel \/ Terminate

DSpec == DInit /\ [][DNext]_allVars

\* Every goroutine that can go on does, each case of a select that is ready
\* again and again is taken, and a request that stays unanswered times out.
CodeFairness ==
    /\ WF_allVars(HeaderStep \/ HeadersCancel)
    /\ \A f \in Fetchers :
         /\ SF_allVars(Wake(f)) /\ SF_allVars(FetchCancel(f)) /\ SF_allVars(Reclaim(f))
         /\ WF_allVars(Updating(f) \/ Updated(f))
    /\ WF_allVars(\E p \in Peers : RevokePeer(p))
    /\ WF_allVars(Process) /\ WF_allVars(CloseFetched \/ Cancel)

\* A peer that is asked for something answers or leaves.
PeerFairness == \A f \in Fetchers, p \in Peers : SF_allVars(Arrive(f, p))

FairSpec == DSpec /\ CodeFairness /\ PeerFairness

---------------------------------------------------------------------------
(* Properties.                                                              *)

\* The peers, fetchers and channels of a sync keep their types, and only a
\* peer that is no longer registered is about to return its requests.
DTypeOK ==
    /\ online \subseteq Peers /\ leaving \subseteq Peers \ online
    /\ idle \in [Fetchers -> SUBSET Peers] /\ proven \in [Fetchers -> SUBSET Peers]
    /\ fetcher \in [Fetchers -> {"select", "ending", "assign", "done", "failed"}]
    /\ finished \subseteq Fetchers /\ wake \in [Fetchers -> {"none", "more", "end"}]
    /\ headers \in {"run", "notify", "empty", "drop", "timeout", "done", "failed"}
    /\ cancelled \in BOOLEAN /\ interrupt \in BOOLEAN /\ failed \in BOOLEAN

\* An update asks only idle peers, so the panic of fetchParts on a peer that
\* is asked twice is never reached; and a registered peer that is not idle
\* still owes an answer, so no order of timeouts, late, short and stale
\* deliveries leaves a peer that nothing will make idle again.
PeersNotStranded ==
    \A f \in Fetchers :
        /\ fetcher[f] = "assign" => round[f].todo \subseteq idle[f]
        /\ \A p \in online : Asked(f, p) => p \notin idle[f]
        /\ fetcher[f] \notin {"done", "failed"} =>
               \A p \in online \ idle[f] : net[f][p] # <<>>

\* The fetchers' view of their peers agrees with what is on the way to them.
FetchersConsistent == DTypeOK /\ PeersNotStranded

\* A sync that ends without an error has delivered all blocks whose headers
\* it accepted, provided no peer left: fetchParts asks pending() and inFlight()
\* one after the other, and a Revoke between the two ends it with work left.
CompleteUnlessPeerLeft ==
    cycles > 0 /\ Over /\ Fetched /\ ~failed /\ online = Peers =>
        [i \in DOMAIN delivered |-> delivered[i].header] = scheduled

\* A sync ends, whichever one thing fails: spawnSync's wait returns, for which
\* every fetcher has to return and the processor to be woken.
SyncTerminates == []<>Over
==============================================================================
