------------------------------- MODULE Server -------------------------------
(***************************************************************************)
(* The peer-to-peer server, p2p/server.go: the run loop, which owns the set *)
(* of peers; the goroutines that set up connections, one for each active    *)
(* dial task and one for each slot of the listener; the goroutine of each   *)
(* peer; and Stop.  The dialler is DialState.                               *)
(*                                                                          *)
(* A goroutine's step ends where it may block for another one: at srv.lock  *)
(* and on the unbuffered channels of the run loop.  Dials and handshakes    *)
(* touch nothing shared and are part of the step that follows or comes      *)
(* before.  Stop holds srv.lock from its beginning to its end, the others   *)
(* only for an instant.                                                     *)
(***************************************************************************)
EXTENDS DialState

CONSTANTS
    Self,               \* the server's own id
    StaticNodes, TrustedNodes,
    AddedNodes,         \* nodes that a user may add with AddPeer
    Callers,            \* nodes that may connect to the server
    PeerLimits,         \* the values of MaxPeers that are tried
    MaxActiveDialTasks,
    MaxPendingPeers     \* slots for inbound connections

ASSUME ServerAssumption ==
    /\ Self \in Nodes /\ Self \notin Table /\ Table \subseteq Nodes
    /\ StaticNodes \cup TrustedNodes \cup AddedNodes \cup Callers \subseteq Nodes
    /\ PeerLimits \subseteq Nat
    /\ MaxActiveDialTasks \in Nat \ {0} /\ MaxPendingPeers \in Nat \ {0}

VARIABLES
    maxPeers,           \* the field MaxPeers, fixed at the start
    peers,              \* peers[n]: None, or the flag and the state of runPeer
    pendingTasks,       \* tasks for which there was no room
    task,               \* task[w]: the active task of worker w, or None
    at,                 \* at[p]: where the goroutine of a task or slot is
    who,                \* who[s]: the remote id on slot s, once it is known
    loop,               \* where the run loop is
    reply,              \* the connection and the answer of a checkpoint
    left,               \* peers still to be disconnected when the loop ends
    listener,           \* where listenLoop is
    stop                \* where Stop is

Workers == 1..MaxActiveDialTasks
Slots == MaxActiveDialTasks + 1 .. MaxActiveDialTasks + MaxPendingPeers
Procs == Workers \cup Slots

conns == <<at, who>>
vars == <<dialVars, maxPeers, peers, pendingTasks, task, conns, loop, reply, left, listener, stop>>

Connected == {n \in Nodes : peers[n] # None}
DynPeers == {n \in Connected : peers[n].flag = "dyn"}

\* The fields of a connection: its flag, and the id the encryption handshake
\* has to give (a dial task's) or gave (an inbound one's).
Flag(p) == IF p \in Slots THEN "inbound" ELSE task[p].kind
Id(p) == IF p \in Slots THEN who[p] ELSE task[p].dest

Running == stop = "idle"
Unlocked == stop # "wait"

-----------------------------------------------------------------------------
(* The run loop: tasks.                                                     *)

\* scheduleTasks: the first of the waiting and new tasks are started.  When
\* all workers are busy the new ones are kept nowhere.
ScheduleTasks(new) ==
    LET pt == pendingTasks \o new
        free == SelectSeq([w \in Workers |-> w], LAMBDA w : task[w] = None)
        start == IF Len(pt) < Len(free) THEN Len(pt) ELSE Len(free)
        Given(w) == \E i \in 1..start : free[i] = w
        Next1(w) == pt[CHOOSE i \in 1..start : free[i] = w]
    IN  /\ task' = [w \in Workers |-> IF Given(w) THEN Next1(w) ELSE task[w]]
        /\ at' = [p \in Procs |-> IF p \in Workers /\ Given(p)
                                  THEN IF Dials(Next1(p)) THEN "lock" ELSE "busy"
                                  ELSE at[p]]
        /\ pendingTasks' = IF start > 0 THEN SubSeq(pt, start + 1, Len(pt)) ELSE pendingTasks

\* The top of the loop.
Top ==
    /\ loop = "top" /\ loop' = "select"
    /\ \E order \in SetToSeqs(static), random \in RandomNodes(maxPeers \div 2) :
         LET nRunning == Len(pendingTasks) + Cardinality({w \in Workers : task[w] # None})
             plan == NewTasks(nRunning, maxPeers \div 2, Connected, DynPeers, order, random)
         IN  /\ ScheduleTasks(plan.tasks)
             /\ dialing' = plan.dialing
             /\ lookupBuf' = plan.lookupBuf
             /\ lookupRunning' = plan.lookupRunning
    /\ hist' = Recent /\ old' = 0
    /\ UNCHANGED <<bootstrapped, static, maxPeers, peers, who, reply, left, listener, stop>>

\* case <-taskdone
TaskDoneCase(w) ==
    /\ loop = "select" /\ loop' = "top"
    /\ at[w] = "ended"
    /\ TaskDone(task[w])
    /\ task' = [task EXCEPT ![w] = None]
    /\ at' = [at EXCEPT ![w] = "free"]
    /\ UNCHANGED <<maxPeers, peers, pendingTasks, who, reply, left, listener, stop>>

\* AddPeer and case <-addstatic.
AddStaticCase(n) ==
    /\ loop = "select" /\ loop' = "top"
    /\ AddStatic(n)
    /\ UNCHANGED <<maxPeers, peers, pendingTasks, task, conns, reply, left, listener, stop>>

-----------------------------------------------------------------------------
(* The run loop: checkpoints and peers.                                     *)

\* The checks of encHandshakeChecks before the one that asks for Self.
Refused(p) ==
    \/ /\ Id(p) \notin TrustedNodes /\ Flag(p) # "static"
       /\ Cardinality(Connected) >= maxPeers
    \/ Id(p) \in Connected

\* encHandshakeChecks: Self takes srv.lock, for which the loop waits for ever
\* when Stop holds it.
EncHandshakeChecks(p) ==
    IF Refused(p) THEN loop' = "cont" /\ reply' = [to |-> p, ok |-> FALSE]
    ELSE IF Unlocked THEN loop' = "cont" /\ reply' = [to |-> p, ok |-> Id(p) # Self]
    ELSE loop' = "self" /\ UNCHANGED reply

\* case <-posthandshake
PostHandshakeCase(p) ==
    /\ loop = "select"
    /\ at[p] = "post" /\ at' = [at EXCEPT ![p] = "postcont"]
    /\ EncHandshakeChecks(p)
    /\ UNCHANGED <<dialVars, maxPeers, peers, pendingTasks, task, who, left, listener, stop>>

\* Mutation: the checks not repeated.
ProtoHandshakeChecksOnce(p) ==
    loop' = "cont" /\ \E ok \in BOOLEAN : reply' = [to |-> p, ok |-> ok]

\* protoHandshakeChecks: without a common protocol the peer is useless.
ProtoHandshakeChecks(p) ==
    \/ loop' = "cont" /\ reply' = [to |-> p, ok |-> FALSE]
    \/ EncHandshakeChecks(p)

\* case <-addpeer: the peer is added before the task is unblocked.
AddPeerCase(p) ==
    /\ loop = "select"
    /\ at[p] = "add" /\ at' = [at EXCEPT ![p] = "addcont"]
    /\ ProtoHandshakeChecks(p)
    /\ peers' = IF loop' = "cont" /\ reply'.ok
                THEN [peers EXCEPT ![Id(p)] = [flag |-> Flag(p), at |-> "count"]] ELSE peers
    /\ UNCHANGED <<dialVars, maxPeers, pendingTasks, task, who, left, listener, stop>>

\* The goroutine p leaves setupConn.
Return(p) ==
    /\ at' = [at EXCEPT ![p] = IF p \in Slots THEN "free" ELSE "ended"]
    /\ who' = IF p \in Slots THEN [who EXCEPT ![p] = None] ELSE who

\* c.cont <- err, when checkpoint is still waiting for it; after the first one
\* doProtoHandshake follows, which may fail.
Cont ==
    LET p == reply.to
    IN  /\ loop = "cont" /\ loop' = "top"
        /\ at[p] \in {"postcont", "addcont"}
        /\ \/ Return(p)
           \/ /\ reply.ok /\ at[p] = "postcont"
              /\ at' = [at EXCEPT ![p] = "add"] /\ UNCHANGED who
        /\ reply' = None
        /\ UNCHANGED <<dialVars, maxPeers, peers, pendingTasks, task, left, listener, stop>>

PeerAt(n, state) == n \in Connected /\ peers[n].at = state

\* case <-peerOp, asked by PeerCount at the start of runPeer.
PeerOpCase(n) ==
    /\ loop = "select" /\ loop' = "top"
    /\ PeerAt(n, "count")
    /\ peers' = [peers EXCEPT ![n].at = "run"]
    /\ UNCHANGED <<dialVars, maxPeers, pendingTasks, task, conns, reply, left, listener, stop>>

\* case <-delpeer
DelPeerCase(n) ==
    /\ loop = "select" /\ loop' = "top"
    /\ PeerAt(n, "closed")
    /\ peers' = [peers EXCEPT ![n] = None]
    /\ UNCHANGED <<dialVars, maxPeers, pendingTasks, task, conns, reply, left, listener, stop>>

\* case <-quit
QuitCase ==
    /\ loop = "select" /\ ~Running
    /\ loop' = "disconnect" /\ left' = Connected
    /\ UNCHANGED <<dialVars, maxPeers, peers, pendingTasks, task, conns, reply, listener, stop>>

\* Mutation: a peer that has already ended is not noticed.
DisconnectRunning(n) ==
    /\ loop = "disconnect" /\ n \in left
    /\ PeerAt(n, "run")
    /\ peers' = [peers EXCEPT ![n].at = "closed"]
    /\ left' = left \ {n}
    /\ UNCHANGED <<dialVars, maxPeers, pendingTasks, task, conns, loop, reply, listener, stop>>

\* The loop that disconnects all peers; Disconnect waits for p.disc or p.closed.
Disconnect(n) ==
    /\ loop = "disconnect" /\ n \in left
    /\ PeerAt(n, "run") \/ PeerAt(n, "closed")
    /\ peers' = [peers EXCEPT ![n].at = "closed"]
    /\ left' = left \ {n}
    /\ UNCHANGED <<dialVars, maxPeers, pendingTasks, task, conns, loop, reply, listener, stop>>

\* The loop that waits for the peers on delpeer.
DrainPeer(n) ==
    /\ loop = "disconnect" /\ left = {}
    /\ PeerAt(n, "closed")
    /\ peers' = [peers EXCEPT ![n] = None]
    /\ UNCHANGED <<dialVars, maxPeers, pendingTasks, task, conns, loop, reply, left, listener, stop>>

\* run returns.
RunReturns ==
    /\ loop = "disconnect" /\ left = {} /\ Connected = {}
    /\ loop' = "done"
    /\ UNCHANGED <<dialVars, maxPeers, peers, pendingTasks, task, conns, reply, left, listener, stop>>

-----------------------------------------------------------------------------
(* The goroutines of tasks, connections and peers.                          *)

\* dialTask.Do fails to connect; the other tasks end, waitExpireTask when the
\* entry it waits for is due.
DoTask(w) ==
    /\ \/ at[w] = "lock"
       \/ at[w] = "busy" /\ (task[w].kind = "wait" => task[w].dest \notin ToSet(Recent))
    /\ at' = [at EXCEPT ![w] = "ended"]
    /\ UNCHANGED <<dialVars, maxPeers, peers, pendingTasks, task, who, loop, reply, left,
                   listener, stop>>

\* setupConn on a connection: the check whether the server is running and the
\* encryption handshake, which gives the id of the remote node.
EncHandshake(p) ==
    /\ at[p] = "lock" /\ Unlocked
    /\ \/ Return(p)
       \/ /\ Running
          /\ at' = [at EXCEPT ![p] = "post"]
          /\ IF p \in Slots THEN \E n \in Callers : who' = [who EXCEPT ![p] = n] ELSE UNCHANGED who
    /\ UNCHANGED <<dialVars, maxPeers, peers, pendingTasks, task, loop, reply, left, listener, stop>>

\* checkpoint, <-srv.quit.
CheckpointQuit(p) ==
    /\ at[p] \in {"post", "postcont", "add", "addcont"} /\ ~Running
    /\ Return(p)
    /\ UNCHANGED <<dialVars, maxPeers, peers, pendingTasks, task, loop, reply, left, listener, stop>>

\* PeerCount, <-srv.quit.
CountQuit(n) ==
    /\ PeerAt(n, "count") /\ ~Running
    /\ peers' = [peers EXCEPT ![n].at = "run"]
    /\ UNCHANGED <<dialVars, maxPeers, pendingTasks, task, conns, loop, reply, left, listener, stop>>

\* Peer.run ends by itself: a read or write error, a protocol that returns, a
\* disconnect requested by either side.
PeerEnds(n) ==
    /\ PeerAt(n, "run")
    /\ peers' = [peers EXCEPT ![n].at = "closed"]
    /\ UNCHANGED <<dialVars, maxPeers, pendingTasks, task, conns, loop, reply, left, listener, stop>>

-----------------------------------------------------------------------------
(* The listener and Stop.                                                   *)

\* listenLoop waits for a slot, which is free when no connection holds it.
TakeSlot ==
    /\ listener = "slots" /\ listener' = "accept"
    /\ \E s \in Slots : at[s] = "free"
    /\ UNCHANGED <<dialVars, maxPeers, peers, pendingTasks, task, conns, loop, reply, left, stop>>

\* Accept returns a connection, or an error once the listener is closed.
Accept ==
    /\ listener = "accept"
    /\ \/ /\ Running /\ listener' = "slots"
          /\ LET s == CHOOSE s \in Slots : at[s] = "free" IN at' = [at EXCEPT ![s] = "lock"]
       \/ ~Running /\ listener' = "done" /\ UNCHANGED at
    /\ UNCHANGED <<dialVars, maxPeers, peers, pendingTasks, task, who, loop, reply, left, stop>>

\* Stop takes srv.lock, clears running, closes the listener and quit.
Stop ==
    /\ stop = "idle" /\ stop' = "wait"
    /\ UNCHANGED <<dialVars, maxPeers, peers, pendingTasks, task, conns, loop, reply, left, listener>>

\* loopWG.Wait is over, and srv.lock is free again.
StopEnds ==
    /\ stop = "wait" /\ stop' = "done"
    /\ loop = "done" /\ listener = "done"
    /\ UNCHANGED <<dialVars, maxPeers, peers, pendingTasks, task, conns, loop, reply, left, listener>>

\* Time passes, as long as it matters for the dialler.
Elapse ==
    /\ Running /\ Age
    /\ UNCHANGED <<maxPeers, peers, pendingTasks, task, conns, loop, reply, left, listener, stop>>

\* Start.
Init ==
    /\ InitDial(StaticNodes)
    /\ maxPeers \in PeerLimits
    /\ peers = [n \in Nodes |-> None]
    /\ pendingTasks = <<>> /\ task = [w \in Workers |-> None]
    /\ at = [p \in Procs |-> "free"] /\ who = [s \in Slots |-> None]
    /\ loop = "top" /\ reply = None /\ left = {}
    /\ listener = "slots" /\ stop = "idle"

Next ==
    \/ Top \/ Cont \/ QuitCase \/ RunReturns
    \/ \E w \in Workers : TaskDoneCase(w) \/ DoTask(w)
    \/ \E n \in AddedNodes : AddStaticCase(n)
    \/ \E p \in Procs : \/ PostHandshakeCase(p) \/ AddPeerCase(p)
                        \/ EncHandshake(p) \/ CheckpointQuit(p)
    \/ \E n \in Nodes : \/ PeerOpCase(n) \/ DelPeerCase(n) \/ Disconnect(n) \/ DrainPeer(n)
                        \/ CountQuit(n) \/ PeerEnds(n)
    \/ TakeSlot \/ Accept \/ Stop \/ StopEnds \/ Elapse

Spec == Init /\ [][Next]_vars

\* Every goroutine that can go on does so; dials and handshakes end, as they have
\* timeouts; time passes.  The select of the run loop picks at random, so it does
\* not pass over a case for ever.  Nobody has to connect, to add a node or to
\* stop the server, and no dial has to fail and no peer to leave.
FairSpec ==
    /\ Spec
    /\ WF_vars(Top \/ Cont \/ RunReturns \/ \E n \in Nodes : Disconnect(n) \/ DrainPeer(n))
    /\ SF_vars(QuitCase)
    /\ \A w \in Workers : SF_vars(TaskDoneCase(w) \/ (at[w] = "busy" /\ DoTask(w)))
    /\ \A p \in Procs : SF_vars(\/ PostHandshakeCase(p) \/ AddPeerCase(p)
                                \/ EncHandshake(p) \/ CheckpointQuit(p))
    /\ \A n \in Nodes \ {Self} : SF_vars(PeerOpCase(n) \/ CountQuit(n) \/ DelPeerCase(n))
    /\ WF_vars(TakeSlot \/ (~Running /\ Accept)) /\ WF_vars(StopEnds) /\ WF_vars(Elapse)

-----------------------------------------------------------------------------
(* Properties.                                                              *)

\* Every variable keeps its type.
TypeOK ==
    /\ dialing \in [Nodes -> {"static", "dyn", None}] /\ static \subseteq Nodes
    /\ lookupRunning \in BOOLEAN /\ bootstrapped \in BOOLEAN
    /\ lookupBuf \in Seq(Table) /\ hist \in Seq(Nodes) /\ old \in 0..Len(hist)
    /\ \A n \in Connected : /\ peers[n].flag \in {"static", "dyn", "inbound"}
                            /\ peers[n].at \in {"count", "run", "closed"}
    /\ pendingTasks \in Seq(Tasks) /\ task \in [Workers -> Tasks \cup {None}]
    /\ at \in [Procs -> {"free", "busy", "lock", "post", "postcont", "add", "addcont", "ended"}]
    /\ who \in [Slots -> Nodes \cup {None}] /\ left \subseteq Connected
    /\ loop \in {"top", "select", "self", "cont", "disconnect", "done"}
    /\ listener \in {"slots", "accept", "done"} /\ stop \in {"idle", "wait", "done"}

\* The tasks that dial n, active or waiting.
DialsOf(n) ==
    {w \in Workers : task[w] # None /\ Dials(task[w]) /\ task[w].dest = n}
    \cup {-i : i \in {j \in DOMAIN pendingTasks :
                        Dials(pendingTasks[j]) /\ pendingTasks[j].dest = n}}

\* The dialler takes n for being dialled, and no task does it.
Dropped(n) == dialing[n] # None /\ DialsOf(n) = {}

\* No node is dialled by two tasks at a time or without dialstate knowing it, and
\* dynamic dials and the peers they led to stay within half of MaxPeers, also
\* between the admission of a peer and the end of its task (newTasks, taskDone).
DialsLimited ==
    /\ TypeOK
    /\ \A n \in Nodes : /\ Cardinality(DialsOf(n)) <= 1
                        /\ dialing[n] = None => DialsOf(n) = {}
    /\ Cardinality(DynPeers \cup {n \in Nodes : dialing[n] = "dyn"}) <= maxPeers \div 2

\* A connection becomes a peer only if its node is not one already and, unless it
\* is trusted or static, there is room for it, also when connections of one node
\* or of several pass the first check of encHandshakeChecks side by side.
PeersAdmitted ==
    [][\A n \in Nodes : peers'[n] # None /\ (peers[n] = None \/ peers'[n].flag # peers[n].flag) =>
          /\ peers[n] = None
          /\ \/ n \in TrustedNodes \/ peers'[n].flag = "static"
             \/ Cardinality(Connected) < maxPeers]_vars

\* AddPeer "maintains the connection until the server is shut down": a static node
\* is connected or dialled again and again, since waitExpireTask keeps the loop
\* ticking when nothing else happens; unless scheduleTasks dropped its task.
StaticRedialled ==
    \A n \in Nodes \ {Self} :
        []<>(n \in static => n \in Connected \/ DialsOf(n) # {} \/ Dropped(n) \/ ~Running)

\* Stop can hang in three ways: the loop asks for Self while Stop holds the lock;
\* it answers a checkpoint that has left on quit; or the listener waits for a
\* slot while every connection waits for the lock.
Hung ==
    \/ loop = "self"
    \/ loop = "cont" /\ at[reply.to] \notin {"postcont", "addcont"}
    \/ listener = "slots" /\ \A s \in Slots : at[s] = "lock"

\* Stop "blocks until all active connections have been closed", and then returns
\* with no peer left, but for the three ways in which it hangs.
StopReturns == stop = "wait" ~> Hung \/ (stop = "done" /\ Connected = {})
=============================================================================
