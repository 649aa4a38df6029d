----------------------------- MODULE DialState -----------------------------
(***************************************************************************)
(* The dialler, p2p/dial.go: which nodes the server should connect to now,  *)
(* asked on every iteration of the run loop (Server).  Static nodes are to  *)
(* be connected always; up to half of the peers are dialled dynamically,    *)
(* nodes read from the discovery table or found by a lookup.  A node that   *)
(* was dialled is left alone for dialHistoryExpiration.                     *)
(*                                                                          *)
(* Entries of the history expire in the order they were added, since the    *)
(* delay is the same for all: old counts those at its front that are due.   *)
(***************************************************************************)
EXTENDS Integers, Sequences, FiniteSets, SequencesExt

CONSTANTS
    Nodes,          \* identities
    Table,          \* the nodes that the discovery table may know
    None,
    MaxResults      \* bound: nodes found by one lookup

VARIABLES
    dialing,        \* dialing[n]: "static", "dyn" or None
    lookupRunning, bootstrapped,
    lookupBuf,      \* nodes found and not yet tried
    static,         \* the static nodes
    hist,           \* the history of dials, a sequence of nodes
    old             \* how many of its first entries are due to expire

dialVars == <<dialing, lookupRunning, bootstrapped, lookupBuf, static, hist, old>>

\* A dialTask with its flag, or a waitExpireTask for the entry of node n; and
\* the two kinds of discoverTask.
Dial(flag, n) == [kind |-> flag, dest |-> n]
BootstrapTask == [kind |-> "bootstrap", dest |-> None]
LookupTask == [kind |-> "lookup", dest |-> None]
Tasks == {Dial(flag, n) : flag \in {"static", "dyn", "wait"}, n \in Nodes}
         \cup {BootstrapTask, LookupTask}

Dials(t) == t.kind \in {"static", "dyn"}

-----------------------------------------------------------------------------

\* Mutation: dials in progress not counted.
NeedDynDialsByPeers(maxDynDials, dynPeers) == maxDynDials - Cardinality(dynPeers)

\* The number of dynamic dials that are necessary.
NeedDynDials(maxDynDials, dynPeers) ==
    maxDynDials - Cardinality(dynPeers) - Cardinality({n \in Nodes : dialing[n] = "dyn"})

\* The history after expire.
Recent == SubSeq(hist, old + 1, Len(hist))

\* The condition of addDial, connected being the ids of the peers.
Dialable(n, connected) ==
    dialing[n] = None /\ n \notin connected /\ n \notin ToSet(Recent)

\* ReadRandomNodes: different nodes of the table, at most as many as fit.
RandomNodes(maxDynDials) ==
    {r \in SetToAllKPermutations(Table) : Len(r) <= maxDynDials \div 2}

\* Mutation: nothing keeps the loop ticking.
TickingNever(nRunning, dials) == dials

\* The tasks to start: the ones found or, when no task is active either, one that
\* waits for the next entry of the history to expire.
Ticking(nRunning, dials) ==
    IF nRunning = 0 /\ dials = <<>> /\ Recent # <<>> THEN <<Dial("wait", Head(Recent))>> ELSE dials

\* newTasks, given the order in which the map of static nodes is walked and
\* what ReadRandomNodes returns: the tasks, and the new state.
NewTasks(nRunning, maxDynDials, connected, dynPeers, order, random) ==
    LET need == NeedDynDials(maxDynDials, dynPeers)
        Ok(n) == Dialable(n, connected)
        fixed == SelectSeq(order, Ok)
        half == IF bootstrapped THEN need \div 2 ELSE 0
        read == SelectSeq(SubSeq(random, 1, IF half < Len(random) THEN half ELSE Len(random)),
                          LAMBDA n : Ok(n) /\ n \notin ToSet(fixed))
        \* the dials made from the first k nodes of the buffer
        Found(k) == FoldLeft(LAMBDA found, n :
                                 IF Ok(n) /\ n \notin ToSet(fixed \o read \o found)
                                 THEN Append(found, n) ELSE found,
                             <<>>, SubSeq(lookupBuf, 1, k))
        enough == {k \in DOMAIN lookupBuf \cup {0} : Len(Found(k)) >= need - Len(read)}
        tried == IF enough = {} THEN Len(lookupBuf)
                 ELSE CHOOSE k \in enough : \A j \in enough : k <= j
        dyn == read \o Found(tried)
        rest == SubSeq(lookupBuf, tried + 1, Len(lookupBuf))
        discover == Len(rest) < need - Len(dyn) /\ ~lookupRunning
        dials == [i \in DOMAIN fixed |-> Dial("static", fixed[i])]
                 \o [i \in DOMAIN dyn |-> Dial("dyn", dyn[i])]
                 \o IF ~discover THEN <<>>
                    ELSE <<IF bootstrapped THEN LookupTask ELSE BootstrapTask>>
    IN  [tasks |-> Ticking(nRunning, dials),
         dialing |-> [n \in Nodes |-> IF n \in ToSet(fixed) THEN "static"
                                      ELSE IF n \in ToSet(dyn) THEN "dyn" ELSE dialing[n]],
         lookupBuf |-> rest,
         lookupRunning |-> lookupRunning \/ discover]

\* The nodes a lookup finds.
Results == UNION {[1..k -> Table] : k \in 0..MaxResults}

\* taskDone.
TaskDone(t) ==
    \/ /\ Dials(t)
       /\ hist' = Append(hist, t.dest)
       /\ dialing' = [dialing EXCEPT ![t.dest] = None]
       /\ UNCHANGED <<lookupRunning, bootstrapped, lookupBuf, static, old>>
    \/ /\ t \in {BootstrapTask, LookupTask}
       /\ bootstrapped' = (bootstrapped \/ t = BootstrapTask)
       /\ lookupRunning' = FALSE
       /\ \E found \in (IF t = LookupTask THEN Results ELSE {<<>>}) :
            lookupBuf' = lookupBuf \o found
       /\ UNCHANGED <<dialing, static, hist, old>>
    \/ t.kind = "wait" /\ UNCHANGED dialVars

\* addStatic.
AddStatic(n) ==
    /\ static' = static \cup {n}
    /\ UNCHANGED <<dialing, lookupRunning, bootstrapped, lookupBuf, hist, old>>

\* Time passes for the oldest entry that is not yet due.
Age ==
    /\ old < Len(hist)
    /\ old' = old + 1
    /\ UNCHANGED <<dialing, lookupRunning, bootstrapped, lookupBuf, static, hist>>

\* newDialState.
InitDial(nodes) ==
    /\ static = nodes
    /\ dialing = [n \in Nodes |-> None]
    /\ lookupRunning = FALSE /\ bootstrapped = FALSE
    /\ lookupBuf = <<>> /\ hist = <<>> /\ old = 0
=============================================================================
