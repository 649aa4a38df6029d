------------------------------ MODULE TypeMux ------------------------------
(***************************************************************************)
(* The event multiplexer, event/event.go, through which the chain, the      *)
(* transaction pool, the miner and the downloader tell one another what     *)
(* happened.  Posters hand an event to one subscriber after the other on    *)
(* unbuffered channels, and wait for each; subscribers read when they like, *)
(* or never; closers unsubscribe them or stop the mux meanwhile.            *)
(*                                                                          *)
(* A step ends where the code may block: at mux.mutex, at a subscription's  *)
(* closeMu and postMu, and in the select of deliver.  A goroutine that      *)
(* waits to write postMu keeps new readers out in Go; here they may still   *)
(* come, as they may before it waits.                                       *)
(***************************************************************************)
EXTENDS Integers, Sequences, FiniteSets, Functions

CONSTANTS
    Subs, Types,
    Wants,          \* Wants[s]: the types s subscribes to
    Posters, Closers,
    None,
    MaxPosts        \* bound: events posted

ASSUME MuxAssumption ==
    /\ Wants \in [Subs -> (SUBSET Types) \ {{}}] /\ MaxPosts \in Nat
    /\ None \notin Subs \cup Posters \cup Closers \cup {"unsubscribe", "stop"}

VARIABLES
    mutex,          \* the goroutine that holds mux.mutex across steps
    subm,           \* subm[t]: subscriptions to t
    stopped,
    created,        \* subscriptions made by newsub
    subscribed,     \* those for which Subscribe has returned
    closing,        \* subscriptions whose closing channel is closed
    closeMu,        \* closeMu[s]: the closer that holds it
    readers,        \* readers[s]: posters that hold postMu of s to read
    nilled,         \* subscriptions whose postC is nil
    chanClosed,     \* subscriptions whose channel is closed
    panicked,       \* subscriptions whose channel was closed again
    poster,         \* poster[p]: [at, type, fresh, todo]
    closer,         \* closer[c]: [op, at, todo, sub]
    received,       \* received[s]: events read from the channel of s
    posts

subVars == <<created, subscribed, closing, closeMu, readers, nilled, chanClosed, panicked>>
vars == <<mutex, subm, stopped, subVars, poster, closer, received, posts>>

Idle == [at |-> "idle", type |-> None, fresh |-> {}, todo |-> <<>>]
\* A panic ends the program.
Running == panicked = {}

NotCalled == [op |-> None, at |-> "idle", todo |-> {}, sub |-> None]

---------------------------------------------------------------------------
(* Subscribe.                                                               *)

\* newsub
NewSub(s) ==
    /\ Running /\ s \notin created /\ created' = created \cup {s}
    /\ UNCHANGED <<mutex, subm, stopped, subscribed, closing, closeMu, readers, nilled, chanClosed,
                   panicked, poster, closer, received, posts>>

\* The rest of Subscribe, under the mutex: on a stopped mux the channel is
\* closed at once.
Subscribe(s) ==
    /\ Running /\ s \in created \ subscribed /\ mutex = None
    /\ subscribed' = subscribed \cup {s}
    /\ IF stopped
       THEN chanClosed' = chanClosed \cup {s} /\ UNCHANGED subm
       ELSE /\ subm' = [t \in Types |-> IF t \in Wants[s] THEN Append(subm[t], s) ELSE subm[t]]
            /\ UNCHANGED chanClosed
    /\ UNCHANGED <<mutex, stopped, created, closing, closeMu, readers, nilled, panicked,
                   poster, closer, received, posts>>

---------------------------------------------------------------------------
(* Post.                                                                    *)

\* The event gets its time: the subscriptions there are by then are not
\* younger than it.
Post(p, t) ==
    /\ Running /\ poster[p].at = "idle" /\ posts < MaxPosts
    /\ posts' = posts + 1
    /\ poster' = [poster EXCEPT ![p] = [at |-> "lookup", type |-> t, fresh |-> created, todo |-> <<>>]]
    /\ UNCHANGED <<mutex, subm, stopped, subVars, closer, received>>

\* The subscriptions are copied under the read lock.  On a stopped mux Post
\* returns ErrMuxClosed.
Lookup(p) ==
    /\ Running /\ poster[p].at = "lookup" /\ mutex = None
    /\ poster' = [poster EXCEPT ![p] = IF stopped THEN Idle
                                       ELSE [@ EXCEPT !.at = "next", !.todo = subm[poster[p].type]]]
    /\ UNCHANGED <<mutex, subm, stopped, subVars, closer, received, posts>>

\* deliver, up to the select: a subscription younger than the event is
\* skipped, otherwise postMu is taken to read.  After the last one Post
\* returns.
Deliver(p) ==
    /\ Running /\ poster[p].at = "next"
    /\ LET todo == poster[p].todo
       IN  IF todo = <<>>
           THEN poster' = [poster EXCEPT ![p] = Idle] /\ UNCHANGED readers
           ELSE IF Head(todo) \notin poster[p].fresh
           THEN poster' = [poster EXCEPT ![p].todo = Tail(@)] /\ UNCHANGED readers
           ELSE /\ poster' = [poster EXCEPT ![p].at = "select"]
                /\ readers' = [readers EXCEPT ![Head(todo)] = @ \cup {p}]
    /\ UNCHANGED <<mutex, subm, stopped, created, subscribed, closing, closeMu, nilled, chanClosed,
                   panicked, closer, received, posts>>

\* The end of deliver.
Leave(p, s) ==
    /\ poster' = [poster EXCEPT ![p].at = "next", ![p].todo = Tail(@)]
    /\ readers' = [readers EXCEPT ![s] = @ \ {p}]

\* The select of deliver, when the subscriber reads its channel.
Receive(p, s) ==
    /\ Running /\ poster[p].at = "select" /\ s = Head(poster[p].todo) /\ s \notin nilled
    /\ Leave(p, s)
    /\ received' = [received EXCEPT ![s] = @ + 1]
    /\ UNCHANGED <<mutex, subm, stopped, created, subscribed, closing, closeMu, nilled, chanClosed,
                   panicked, closer, posts>>

\* Mutation: a poster waits until the channel is gone.
GiveUpOnNil(p, s) ==
    /\ Running /\ poster[p].at = "select" /\ s = Head(poster[p].todo) /\ s \in nilled
    /\ Leave(p, s)
    /\ UNCHANGED <<mutex, subm, stopped, created, subscribed, closing, closeMu, nilled, chanClosed,
                   panicked, closer, received, posts>>

\* The select of deliver, when the subscription is being closed.
GiveUp(p, s) ==
    /\ Running /\ poster[p].at = "select" /\ s = Head(poster[p].todo) /\ s \in closing
    /\ Leave(p, s)
    /\ UNCHANGED <<mutex, subm, stopped, created, subscribed, closing, closeMu, nilled, chanClosed,
                   panicked, closer, received, posts>>

---------------------------------------------------------------------------
(* Unsubscribe and Stop.                                                    *)

\* The list without the first s in it, as find and posdelete make it.
Without(subs, s) ==
    IF s \notin Range(subs) THEN subs
    ELSE LET pos == CHOOSE i \in DOMAIN subs : subs[i] = s /\ \A j \in 1..i-1 : subs[j] # s
         IN  [i \in 1..Len(subs)-1 |-> IF i < pos THEN subs[i] ELSE subs[i+1]]

\* Unsubscribe: del, under the mutex; closewait of s is left.  It may be
\* called again, and by several goroutines.
Unsubscribe(c, s) ==
    /\ Running /\ closer[c].at = "idle" /\ s \in subscribed /\ mutex = None
    /\ subm' = [t \in Types |-> Without(subm[t], s)]
    /\ closer' = [closer EXCEPT ![c] = [op |-> "unsubscribe", at |-> "next", todo |-> {s}, sub |-> s]]
    /\ UNCHANGED <<mutex, stopped, subVars, poster, received, posts>>

\* Stop takes the mutex, and keeps it until closewait of all subscriptions
\* has returned.
Stop(c) ==
    /\ Running /\ closer[c].at = "idle" /\ mutex = None
    /\ mutex' = c
    /\ closer' = [closer EXCEPT ![c] = [op |-> "stop", at |-> "next", sub |-> None,
                                        todo |-> UNION {Range(subm[t]) : t \in Types}]]
    /\ UNCHANGED <<subm, stopped, subVars, poster, received, posts>>

\* Mutation: whether s is closed is asked without closeMu.
CloseUnlocked(c, s) ==
    /\ Running /\ closer[c].at = "next" /\ s \in closer[c].todo
    /\ IF s \in closing
       THEN closer' = [closer EXCEPT ![c].todo = @ \ {s}] /\ UNCHANGED <<closing, closeMu>>
       ELSE /\ closing' = closing \cup {s} /\ closeMu' = [closeMu EXCEPT ![s] = c]
            /\ closer' = [closer EXCEPT ![c].at = "close", ![c].sub = s]
    /\ UNCHANGED <<mutex, subm, stopped, created, subscribed, readers, nilled, chanClosed,
                   panicked, poster, received, posts>>

\* Mutation: a closed subscription is closed again.
CloseAgain(c, s) ==
    /\ Running /\ closer[c].at = "next" /\ s \in closer[c].todo /\ closeMu[s] = None
    /\ closing' = closing \cup {s} /\ closeMu' = [closeMu EXCEPT ![s] = c]
    /\ closer' = [closer EXCEPT ![c].at = "close", ![c].sub = s]
    /\ UNCHANGED <<mutex, subm, stopped, created, subscribed, readers, nilled, chanClosed,
                   panicked, poster, received, posts>>

\* closewait, from closeMu up to the lock of postMu.  The flag closed and the
\* closed channel closing are one.
CloseWait(c, s) ==
    /\ Running /\ closer[c].at = "next" /\ s \in closer[c].todo /\ closeMu[s] = None
    /\ IF s \in closing
       THEN closer' = [closer EXCEPT ![c].todo = @ \ {s}] /\ UNCHANGED <<closing, closeMu>>
       ELSE /\ closing' = closing \cup {s} /\ closeMu' = [closeMu EXCEPT ![s] = c]
            /\ closer' = [closer EXCEPT ![c].at = "close", ![c].sub = s]
    /\ UNCHANGED <<mutex, subm, stopped, created, subscribed, readers, nilled, chanClosed,
                   panicked, poster, received, posts>>

\* The rest of closewait, once no poster is in the select of deliver.  A
\* channel that is closed already panics.
CloseChan(c) ==
    LET s == closer[c].sub
    IN  /\ Running /\ closer[c].at = "close" /\ readers[s] = {}
        /\ IF s \in chanClosed THEN panicked' = panicked \cup {s} ELSE UNCHANGED panicked
        /\ chanClosed' = chanClosed \cup {s} /\ nilled' = nilled \cup {s}
        /\ closeMu' = [closeMu EXCEPT ![s] = None]
        /\ closer' = [closer EXCEPT ![c].at = "next", ![c].todo = @ \ {s}]
        /\ UNCHANGED <<mutex, subm, stopped, created, subscribed, closing, readers, poster,
                       received, posts>>

\* Unsubscribe or Stop returns.
Return(c) ==
    /\ Running /\ closer[c].at = "next" /\ closer[c].todo = {}
    /\ closer' = [closer EXCEPT ![c].at = "done"]
    /\ IF closer[c].op = "stop"
       THEN stopped' = TRUE /\ subm' = [t \in Types |-> <<>>] /\ mutex' = None
       ELSE UNCHANGED <<stopped, subm, mutex>>
    /\ UNCHANGED <<subVars, poster, received, posts>>

---------------------------------------------------------------------------
Init ==
    /\ mutex = None /\ subm = [t \in Types |-> <<>>] /\ stopped = FALSE
    /\ created = {} /\ subscribed = {} /\ closing = {} /\ nilled = {} /\ chanClosed = {}
    /\ panicked = {}
    /\ closeMu = [s \in Subs |-> None] /\ readers = [s \in Subs |-> {}]
    /\ poster = [p \in Posters |-> Idle] /\ closer = [c \in Closers |-> NotCalled]
    /\ received = [s \in Subs |-> 0] /\ posts = 0

PostStep(p) == Lookup(p) \/ Deliver(p) \/ \E s \in Subs : GiveUp(p, s)
CloseStep(c) == CloseChan(c) \/ Return(c) \/ \E s \in Subs : CloseWait(c, s)

Next ==
    \/ \E s \in Subs : NewSub(s) \/ Subscribe(s)
    \/ \E p \in Posters : PostStep(p) \/ (\E t \in Types : Post(p, t))
                          \/ \E s \in Subs : Receive(p, s)
    \/ \E c \in Closers : CloseStep(c) \/ Stop(c) \/ \E s \in Subs : Unsubscribe(c, s)

Spec == Init /\ [][Next]_vars

\* Goroutines that can go on do; nothing is assumed of the subscribers, which
\* need not read their channels.
FairSpec ==
    /\ Spec
    /\ \A p \in Posters : WF_vars(PostStep(p))
    /\ \A c \in Closers : WF_vars(CloseStep(c))

---------------------------------------------------------------------------
(* Properties.                                                              *)

\* The locks and lists of the mux keep their types, only subscriptions that
\* Subscribe has returned are closed, and no subscriber reads an event twice.
TypeOK ==
    /\ mutex \in Closers \cup {None} /\ subm \in [Types -> Seq(Subs)] /\ stopped \in BOOLEAN
    /\ subscribed \subseteq created /\ created \subseteq Subs /\ closing \subseteq subscribed
    /\ nilled \subseteq chanClosed /\ closeMu \in [Subs -> Closers \cup {None}]
    /\ readers \in [Subs -> SUBSET Posters] /\ posts \in 0..MaxPosts
    /\ \A s \in Subs : received[s] \in 0..posts

\* Unsubscribe may be called several times, by several goroutines and while
\* the mux stops: the channel of a subscription is closed once.  Only one made
\* on a stopped mux, whose channel Subscribe has closed without setting
\* closed, makes Unsubscribe panic.  Every step keeps the types.
ClosedOnce ==
    [][TypeOK' /\ \A s \in panicked' \ panicked : s \in chanClosed \ nilled]_vars

\* After any call of Unsubscribe has returned the subscription gets no event,
\* even if another goroutine is still closing it or a poster had copied the
\* list of subscriptions before.  "Stop blocks until all current deliveries have
\* finished": after it has returned no event is received either, but for a
\* subscription that an Unsubscribe in progress has taken from the mux and
\* not yet closed, which Stop does not see.
NoLateEvents ==
    [][\A s \in Subs : received'[s] # received[s] =>
         LET Unsubscribes(c) == closer[c].op = "unsubscribe" /\ closer[c].sub = s
         IN  /\ \A c \in Closers : Unsubscribes(c) => closer[c].at # "done"
             /\ stopped => \E c \in Closers : Unsubscribes(c)]_vars

\* Unsubscribe and Stop return although posters wait for subscribers that
\* never read, and each for the locks of the other.
CallsReturn ==
    \A c \in Closers : closer[c].at \in {"next", "close"} ~> closer[c].at = "done" \/ panicked # {}

\* Stop frees every poster, also one that waits for a subscription which was
\* taken from the mux before, or comes to one that is closed already.
PostersFreed ==
    \A p \in Posters : stopped ~> poster[p].at = "idle" \/ panicked # {}

\* Every call in progress comes to its end: Unsubscribe and Stop always, Post at
\* the latest when the mux stops.
EveryoneReturns == CallsReturn /\ PostersFreed
=============================================================================
