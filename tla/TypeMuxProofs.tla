---------------------------- MODULE TypeMuxProofs ----------------------------
(***************************************************************************)
(* Proofs about TypeMux for any subscriptions, types of events, posters,   *)
(* closers and number of events.                                           *)
(***************************************************************************)
EXTENDS TypeMux, FiniteSetTheorems, SequenceTheorems, TLAPS

PosterStates == [at : {"idle", "lookup", "next", "select"}, type : Types \cup {None},
                 fresh : SUBSET Subs, todo : Seq(Subs)]
CloserStates == [op : {"unsubscribe", "stop", None}, at : {"idle", "next", "close", "done"},
                 todo : SUBSET Subs, sub : Subs \cup {None}]

Typed ==
    /\ TypeOK
    /\ poster \in [Posters -> PosterStates] /\ closer \in [Closers -> CloserStates]
    /\ received \in [Subs -> Nat]
    /\ nilled \subseteq closing /\ \A c \in Closers : closer[c].todo \subseteq subscribed

\* A subscription is in a list once, after Subscribe has returned.
ListsDistinct ==
    /\ \A t \in Types : IsInjective(subm[t]) /\ Range(subm[t]) \subseteq subscribed
    /\ \A p \in Posters : /\ IsInjective(poster[p].todo)
                          /\ poster[p].at = "lookup" => poster[p].type \in Types
                          /\ poster[p].at = "select" => poster[p].todo # <<>>

\* The posters that may still hand an event to s.
Pending(s) == {p \in Posters : poster[p].at = "lookup" \/ s \in Range(poster[p].todo)}

\* An event is read at most once by a subscription.
ReadOnce ==
    \A s \in Subs : IsFiniteSet(Pending(s)) /\ received[s] + Cardinality(Pending(s)) <= posts

\* closewait: who holds closeMu is closing the channel, which is still open then; when
\* nobody holds it, a subscription being closed is closed.
CloseLocked ==
    /\ \A c \in Closers : closer[c].at = "close" =>
         closer[c].sub \in closing \ nilled /\ closeMu[closer[c].sub] = c
    /\ \A s \in closing : closeMu[s] = None => s \in nilled

Unsubscribing(c, s) == closer[c].op = "unsubscribe" /\ closer[c].sub = s

\* A call of Unsubscribe still has to close its subscription, or it is closed.
UnsubscribeCloses ==
    \A c \in Closers : closer[c].op = "unsubscribe" =>
        /\ closer[c].sub \in Subs /\ closer[c].todo \subseteq {closer[c].sub}
        /\ closer[c].at # "idle"
        /\ closer[c].at \in {"next", "done"} /\ closer[c].sub \notin closer[c].todo
             => closer[c].sub \in nilled
        /\ closer[c].at = "done" => closer[c].todo = {}

Listed == UNION {Range(subm[t]) : t \in Types}

\* Stop holds the mutex and has still to close what is listed.
StopCloses ==
    /\ stopped => Listed = {}
    /\ \A c \in Closers : closer[c].op = "stop" /\ closer[c].at # "done" =>
         mutex = c /\ Listed \subseteq closer[c].todo \cup nilled

\* A subscription that a poster knows is listed, or closed, or being unsubscribed.
KnownListed ==
    \A p \in Posters : \A s \in Range(poster[p].todo) :
        s \in Listed \cup nilled \/ \E c \in Closers : Unsubscribing(c, s)

IInv == /\ Typed /\ ListsDistinct /\ ReadOnce /\ CloseLocked
        /\ UnsubscribeCloses /\ StopCloses /\ KnownListed

-----------------------------------------------------------------------------
(* Facts about lists of subscriptions.                                     *)

\* What deliver has done with leaves the list.
LEMMA TailOfList ==
    ASSUME NEW list \in Seq(Subs), list # <<>>, IsInjective(list)
    PROVE  /\ Tail(list) \in Seq(Subs) /\ IsInjective(Tail(list))
           /\ Head(list) \in Range(list) /\ Head(list) \in Subs
           /\ Range(Tail(list)) = Range(list) \ {Head(list)}
<1>1. /\ Len(list) \in Nat \ {0} /\ DOMAIN list = 1..Len(list) /\ Head(list) = list[1]
      /\ \A i \in 1..Len(list) : list[i] \in Subs
  OBVIOUS
<1>2. /\ Tail(list) \in Seq(Subs) /\ Len(Tail(list)) = Len(list) - 1
      /\ DOMAIN Tail(list) = 1..Len(list) - 1
      /\ \A i \in 1..Len(list) - 1 : Tail(list)[i] = list[i + 1]
  OBVIOUS
<1>3. IsInjective(Tail(list))
  <2> SUFFICES ASSUME NEW i \in 1..Len(list) - 1, NEW j \in 1..Len(list) - 1,
                      Tail(list)[i] = Tail(list)[j]
               PROVE  i = j
    BY <1>2, Zenon DEF IsInjective
  <2>1. i + 1 \in DOMAIN list /\ j + 1 \in DOMAIN list /\ list[i + 1] = list[j + 1]
    BY <1>1, <1>2
  <2> QED
    BY <2>1 DEF IsInjective
<1>4. ASSUME NEW x \in Range(Tail(list)) PROVE x \in Range(list) /\ x # Head(list)
  <2>1. PICK i \in 1..Len(list) - 1 : x = list[i + 1]
    BY <1>2, <1>4, Zenon DEF Range
  <2>2. i + 1 \in DOMAIN list /\ i + 1 # 1 /\ 1 \in DOMAIN list
    BY <1>1
  <2> QED
    BY <1>1, <2>1, <2>2, Zenon DEF Range, IsInjective
<1>5. ASSUME NEW x \in Range(list), x # Head(list) PROVE x \in Range(Tail(list))
  <2>1. PICK i \in 1..Len(list) : x = list[i]
    BY <1>1, <1>5, Zenon DEF Range
  <2>2. i # 1 /\ i - 1 \in 1..Len(list) - 1 /\ (i - 1) + 1 = i
    BY <1>1, <1>5, <2>1
  <2>3. x = Tail(list)[i - 1] /\ i - 1 \in DOMAIN Tail(list)
    BY <1>2, <2>1, <2>2, Zenon
  <2> QED
    BY <2>3, Zenon DEF Range
<1>6. Head(list) \in Range(list) /\ Head(list) \in Subs
  BY <1>1 DEF Range
<1> QED
  BY <1>2, <1>3, <1>4, <1>5, <1>6, Zenon

\* Subscribe adds a subscription that is in no list.
LEMMA AppendToList ==
    ASSUME NEW list \in Seq(Subs), NEW s \in Subs, IsInjective(list), s \notin Range(list)
    PROVE  /\ Append(list, s) \in Seq(Subs) /\ IsInjective(Append(list, s))
           /\ Range(Append(list, s)) = Range(list) \cup {s}
<1>1. /\ Len(list) \in Nat /\ DOMAIN list = 1..Len(list)
      /\ Append(list, s) \in Seq(Subs) /\ DOMAIN Append(list, s) = 1..Len(list) + 1
      /\ \A i \in 1..Len(list) : Append(list, s)[i] = list[i]
      /\ Append(list, s)[Len(list) + 1] = s
  OBVIOUS
<1>2. \A i \in 1..Len(list) : list[i] # s
  BY <1>1, Zenon DEF Range
<1>3. \A i \in 1..Len(list) + 1 : i \in 1..Len(list) \/ i = Len(list) + 1
  BY <1>1
<1>4. IsInjective(Append(list, s))
  BY <1>1, <1>2, <1>3, Zenon DEF IsInjective
<1>5. Range(Append(list, s)) = Range(list) \cup {s}
  <2>1. \A i \in DOMAIN list : i \in DOMAIN Append(list, s)
    BY <1>1
  <2>2. Len(list) + 1 \in DOMAIN Append(list, s)
    BY <1>1
  <2> QED
    BY <1>1, <1>3, <2>1, <2>2, Zenon DEF Range
<1> QED
  BY <1>1, <1>4, <1>5, Zenon

\* posdelete takes one subscription from a list and keeps the others.
LEMMA WithoutOne ==
    ASSUME NEW list \in Seq(Subs), NEW s \in Subs, IsInjective(list)
    PROVE  /\ Without(list, s) \in Seq(Subs) /\ IsInjective(Without(list, s))
           /\ Range(Without(list, s)) = Range(list) \ {s}
<1>1. CASE s \notin Range(list)
  BY <1>1, Zenon DEF Without
<1>2. CASE s \in Range(list)
  <2> DEFINE pos == CHOOSE i \in DOMAIN list : list[i] = s /\ \A j \in 1..i-1 : list[j] # s
             short == [i \in 1..Len(list)-1 |-> IF i < pos THEN list[i] ELSE list[i+1]]
  <2>1. /\ Len(list) \in Nat /\ DOMAIN list = 1..Len(list)
        /\ \A i \in 1..Len(list) : list[i] \in Subs
    OBVIOUS
  <2>2. pos \in 1..Len(list) /\ list[pos] = s
    <3>1. PICK i \in DOMAIN list : list[i] = s
      BY <1>2, Zenon DEF Range
    <3>2. \A j \in 1..i-1 : list[j] # s
      BY <2>1, <3>1 DEF IsInjective
    <3> QED
      BY <2>1, <3>1, <3>2, Zenon
  <2> HIDE DEF pos
  <2>3. Without(list, s) = short
    BY <1>2, Zenon DEF Without, pos
  <2>4. Len(list) - 1 \in Nat /\ short \in [1..Len(list)-1 -> Subs]
    BY <2>1, <2>2
  <2>5. short \in Seq(Subs) /\ DOMAIN short = 1..Len(list)-1
    <3> HIDE DEF short
    <3> QED
      BY <2>4, SeqDef
  <2>6. IsInjective(short)
    <3> SUFFICES ASSUME NEW i \in 1..Len(list)-1, NEW j \in 1..Len(list)-1, short[i] = short[j]
                 PROVE  i = j
      BY Zenon DEF IsInjective
    <3>1. /\ i \in DOMAIN list /\ i + 1 \in DOMAIN list
          /\ j \in DOMAIN list /\ j + 1 \in DOMAIN list
      BY <2>1
    <3> QED
      BY <2>1, <2>2, <3>1 DEF IsInjective
  <2>7. ASSUME NEW x \in Range(short) PROVE x \in Range(list) /\ x # s
    <3>1. PICK i \in 1..Len(list)-1 : x = short[i]
      BY <2>7, Zenon DEF Range
    <3>2. i \in DOMAIN list /\ i + 1 \in DOMAIN list
      BY <2>1
    <3> QED
      BY <2>1, <2>2, <3>1, <3>2 DEF Range, IsInjective
  <2>8. ASSUME NEW x \in Range(list), x # s PROVE x \in Range(short)
    <3>1. PICK i \in 1..Len(list) : x = list[i]
      BY <2>1, <2>8, Zenon DEF Range
    <3>2. i # pos
      BY <2>2, <2>8, <3>1, Zenon
    <3>3. CASE i < pos
      <4>1. i \in 1..Len(list)-1 /\ short[i] = x
        BY <2>1, <2>2, <3>1, <3>3
      <4> QED
        BY <4>1, Zenon DEF Range
    <3>4. CASE i > pos
      <4>1. i - 1 \in 1..Len(list)-1 /\ short[i - 1] = x
        BY <2>1, <2>2, <3>1, <3>4
      <4> QED
        BY <4>1, Zenon DEF Range
    <3> QED
      BY <2>1, <2>2, <3>2, <3>3, <3>4
  <2> QED
    BY <2>3, <2>5, <2>6, <2>7, <2>8, Zenon
<1> QED
  BY <1>1, <1>2, Zenon

-----------------------------------------------------------------------------
(* The inductive invariant.                                                *)

LockInv == CloseLocked /\ UnsubscribeCloses /\ StopCloses

\* A step of a poster or of Subscribe does not touch what the closers do.
LEMMA LocksLeft ==
    ASSUME LockInv, UNCHANGED <<mutex, subm, stopped, closing, closeMu, nilled, closer>>
    PROVE  LockInv'
  BY DEF LockInv, CloseLocked, UnsubscribeCloses, StopCloses, Listed, Range

\* A step of a closer does not touch what the posters have counted.
LEMMA ReadsLeft ==
    ASSUME ReadOnce, UNCHANGED <<poster, received, posts>>
    PROVE  ReadOnce'
  BY Zenon DEF ReadOnce, Pending, Range

\* Nobody subscribes, posts or closes at first.
LEMMA InitIInv == Init => IInv
<1> SUFFICES ASSUME Init PROVE IInv
  BY Zenon
<1>1. \A x : Range(<<>>) = {} /\ IsInjective(<<>>)
  BY DEF Range, IsInjective
<1>2. Idle \in PosterStates /\ Idle.at = "idle" /\ Idle.todo = <<>>
  BY DEF Idle, PosterStates
<1>3. NotCalled \in CloserStates /\ NotCalled.at = "idle" /\ NotCalled.op = None
  BY Zenon DEF NotCalled, CloserStates
<1>4. Typed
  <2>1. posts \in 0..MaxPosts /\ \A s \in Subs : received[s] \in 0..posts
    BY MuxAssumption DEF Init
  <2>2. subm \in [Types -> Seq(Subs)] /\ closeMu \in [Subs -> Closers \cup {None}]
        /\ readers \in [Subs -> SUBSET Posters] /\ received \in [Subs -> Nat]
    BY DEF Init
  <2>3. poster \in [Posters -> PosterStates] /\ closer \in [Closers -> CloserStates]
    BY <1>2, <1>3, Zenon DEF Init
  <2>4. TypeOK
    BY <2>1, <2>2, Zenon DEF Init, TypeOK
  <2> QED
    BY <2>2, <2>3, <2>4, Zenon DEF Init, Typed, NotCalled
<1>5. ListsDistinct
  BY <1>1, <1>2, Zenon DEF Init, ListsDistinct
<1>6. ReadOnce
  <2>1. \A s \in Subs : Pending(s) = {}
    BY <1>1, <1>2, Zenon DEF Init, Pending
  <2>2. \A s \in Subs : IsFiniteSet(Pending(s)) /\ Cardinality(Pending(s)) = 0
    BY <2>1, FS_EmptySet, Zenon
  <2>3. posts = 0 /\ \A s \in Subs : received[s] = 0
    BY Zenon DEF Init
  <2> QED
    BY <2>2, <2>3 DEF ReadOnce
<1>7. CloseLocked /\ UnsubscribeCloses
  BY <1>3, MuxAssumption, Zenon DEF Init, CloseLocked, UnsubscribeCloses
<1>8. StopCloses
  <2>1. Listed = {}
    BY <1>1, Zenon DEF Init, Listed
  <2> QED
    BY <1>3, <2>1, MuxAssumption, Zenon DEF Init, StopCloses
<1>9. KnownListed
  BY <1>1, <1>2, Zenon DEF Init, KnownListed
<1> QED
  BY <1>4, <1>5, <1>6, <1>7, <1>8, <1>9, Zenon DEF IInv

\* newsub.
LEMMA NewSubIInv ==
    ASSUME IInv, NEW s \in Subs, NewSub(s)
    PROVE  IInv'
<1>1. /\ created' = created \cup {s}
      /\ UNCHANGED <<mutex, subm, stopped, subscribed, closing, closeMu, readers, nilled,
                     chanClosed, poster, closer, received, posts>>
  BY Zenon DEF NewSub
<1>2. Typed'
  BY <1>1, Zenon DEF IInv, Typed, TypeOK
<1>3. LockInv' /\ ReadOnce'
  BY <1>1, LocksLeft, ReadsLeft, Zenon DEF IInv, LockInv
<1>4. ListsDistinct' /\ KnownListed'
  BY <1>1 DEF IInv, ListsDistinct, KnownListed, Listed, Range, IsInjective, Unsubscribing
<1> QED
  BY <1>2, <1>3, <1>4, Zenon DEF IInv, LockInv

\* The rest of Subscribe: the subscription enters its lists, unless the mux is stopped.
LEMMA SubscribeIInv ==
    ASSUME IInv, NEW s \in Subs, Subscribe(s)
    PROVE  IInv'
<1>1. /\ s \in created \ subscribed /\ mutex = None /\ subscribed' = subscribed \cup {s}
      /\ UNCHANGED <<mutex, stopped, created, closing, closeMu, readers, nilled, poster, closer,
                     received, posts>>
  BY Zenon DEF Subscribe
<1>2. ReadOnce'
  BY <1>1, ReadsLeft, Zenon DEF IInv
<1>3. CASE stopped /\ chanClosed' = chanClosed \cup {s} /\ UNCHANGED subm
  <2>1. Typed'
    BY <1>1, <1>3, Zenon DEF IInv, Typed, TypeOK
  <2>2. LockInv'
    BY <1>1, <1>3, LocksLeft, Zenon DEF IInv, LockInv
  <2>3. ListsDistinct' /\ KnownListed'
    BY <1>1, <1>3 DEF IInv, ListsDistinct, KnownListed, Listed, Range, IsInjective, Unsubscribing
  <2> QED
    BY <1>2, <2>1, <2>2, <2>3, Zenon DEF IInv, LockInv
<1>4. CASE /\ ~stopped /\ UNCHANGED chanClosed
           /\ subm' = [t \in Types |-> IF t \in Wants[s] THEN Append(subm[t], s) ELSE subm[t]]
  <2>1. ASSUME NEW t \in Types
        PROVE  /\ subm'[t] \in Seq(Subs) /\ IsInjective(subm'[t])
               /\ Range(subm[t]) \subseteq Range(subm'[t])
               /\ Range(subm'[t]) \subseteq subscribed'
    <3>1. subm[t] \in Seq(Subs) /\ IsInjective(subm[t]) /\ Range(subm[t]) \subseteq subscribed
      BY Zenon DEF IInv, Typed, TypeOK, ListsDistinct
    <3>2. s \notin Range(subm[t])
      BY <1>1, <3>1, Zenon
    <3>3. /\ Append(subm[t], s) \in Seq(Subs) /\ IsInjective(Append(subm[t], s))
          /\ Range(Append(subm[t], s)) = Range(subm[t]) \cup {s}
      BY <3>1, <3>2, AppendToList, Zenon
    <3>4. subm'[t] \in {subm[t], Append(subm[t], s)}
      BY <1>4, Zenon
    <3> QED
      BY <1>1, <3>1, <3>3, <3>4, Zenon
  <2>2. Typed'
    BY <1>1, <1>4, <2>1, Zenon DEF IInv, Typed, TypeOK
  <2>3. ListsDistinct'
    BY <1>1, <2>1, Zenon DEF IInv, ListsDistinct, IsInjective
  <2>4. Listed \subseteq Listed'
    BY <2>1, Zenon DEF Listed
  <2>5. KnownListed'
    BY <1>1, <2>4, Zenon DEF IInv, KnownListed, Unsubscribing
  <2>6. CloseLocked' /\ UnsubscribeCloses'
    BY <1>1, Zenon DEF IInv, CloseLocked, UnsubscribeCloses
  <2>7. StopCloses'
    BY <1>1, <1>4, MuxAssumption, Zenon DEF IInv, StopCloses
  <2> QED
    BY <1>2, <2>2, <2>3, <2>5, <2>6, <2>7, Zenon DEF IInv
<1> QED
  BY <1>3, <1>4, Zenon DEF Subscribe

\* Post, before it looks up the subscriptions.
LEMMA PostIInv ==
    ASSUME IInv, NEW p \in Posters, NEW t \in Types, Post(p, t)
    PROVE  IInv'
<1> DEFINE new == [at |-> "lookup", type |-> t, fresh |-> created, todo |-> <<>>]
<1>1. /\ poster[p].at = "idle" /\ posts < MaxPosts /\ posts' = posts + 1
      /\ poster' = [poster EXCEPT ![p] = new]
      /\ UNCHANGED <<mutex, subm, stopped, subVars, closer, received>>
  BY Zenon DEF Post
<1>2. new \in PosterStates /\ new.at = "lookup" /\ new.todo = <<>> /\ new.type = t
  BY DEF PosterStates, IInv, Typed, TypeOK
<1> HIDE DEF new
<1>3. \A q \in Posters : poster'[q] = IF q = p THEN new ELSE poster[q]
  BY <1>1, Zenon DEF IInv, Typed
<1>4. Range(<<>>) = {} /\ IsInjective(<<>>)
  BY DEF Range, IsInjective
<1>5. Typed'
  <2>1. posts' \in 0..MaxPosts /\ \A s \in Subs : received[s] \in 0..posts'
    BY <1>1, MuxAssumption DEF IInv, Typed, TypeOK
  <2>2. poster' \in [Posters -> PosterStates]
    BY <1>1, <1>2, Zenon DEF IInv, Typed
  <2> QED
    BY <1>1, <2>1, <2>2, Zenon DEF IInv, Typed, TypeOK, subVars
<1>6. ListsDistinct'
  BY <1>1, <1>2, <1>3, <1>4, Zenon DEF IInv, ListsDistinct, subVars
<1>7. ReadOnce'
  <2> SUFFICES ASSUME NEW s \in Subs
               PROVE  /\ IsFiniteSet(Pending(s)')
                      /\ received'[s] + Cardinality(Pending(s)') <= posts'
    BY Zenon DEF ReadOnce
  <2>1. Pending(s)' = Pending(s) \cup {p}
    BY <1>2, <1>3, <1>4, Zenon DEF Pending
  <2>2. /\ IsFiniteSet(Pending(s)) /\ received[s] + Cardinality(Pending(s)) <= posts
        /\ Cardinality(Pending(s)) \in Nat
    BY FS_CardinalityType, Zenon DEF IInv, ReadOnce
  <2>3. /\ IsFiniteSet(Pending(s)')
        /\ Cardinality(Pending(s)') <= Cardinality(Pending(s)) + 1
        /\ Cardinality(Pending(s)') \in Nat
    <3>1. /\ IsFiniteSet(Pending(s) \cup {p})
          /\ Cardinality(Pending(s) \cup {p})
               = IF p \in Pending(s) THEN Cardinality(Pending(s)) ELSE Cardinality(Pending(s)) + 1
      BY <2>2, FS_AddElement, Zenon
    <3>2. Cardinality(Pending(s) \cup {p}) \in {Cardinality(Pending(s)), Cardinality(Pending(s)) + 1}
      BY <3>1, Zenon
    <3>3. /\ Cardinality(Pending(s) \cup {p}) <= Cardinality(Pending(s)) + 1
          /\ Cardinality(Pending(s) \cup {p}) \in Nat
      BY <2>2, <3>2
    <3> QED
      BY <2>1, <3>1, <3>3, Zenon
  <2>4. received[s] \in Nat /\ posts \in Nat
    BY MuxAssumption DEF IInv, Typed, TypeOK
  <2> QED
    BY <1>1, <2>2, <2>3, <2>4
<1>8. KnownListed'
  BY <1>1, <1>2, <1>3, <1>4 DEF IInv, KnownListed, Listed, Unsubscribing, subVars
<1>9. LockInv'
  BY <1>1, LocksLeft, Zenon DEF IInv, LockInv, subVars
<1> QED
  BY <1>5, <1>6, <1>7, <1>8, <1>9, Zenon DEF IInv, LockInv

\* A poster that goes on to a shorter list has no more to hand out than before.
LEMMA PosterMoves ==
    ASSUME IInv, NEW p \in Posters, NEW state \in PosterStates,
           poster' = [poster EXCEPT ![p] = state],
           UNCHANGED <<mutex, subm, stopped, created, subscribed, closing, closeMu, nilled,
                       chanClosed, closer, posts>>,
           readers' \in [Subs -> SUBSET Posters],
           received' \in [Subs -> Nat],
           IsInjective(state.todo), state.at # "lookup", state.at = "select" => state.todo # <<>>,
           \A s \in Range(state.todo) : s \in Listed \/ s \in Range(poster[p].todo),
           \A s \in Subs : s \in Range(state.todo) => p \in Pending(s),
           \A s \in Subs : \/ received'[s] = received[s]
                           \/ /\ received'[s] = received[s] + 1
                              /\ p \in Pending(s) /\ s \notin Range(state.todo)
    PROVE  IInv'
<1>1. \A q \in Posters : poster'[q] = IF q = p THEN state ELSE poster[q]
  BY Zenon DEF IInv, Typed
<1>2. LockInv'
  BY LocksLeft, Zenon DEF IInv, LockInv
<1>3. ListsDistinct'
  BY <1>1, Zenon DEF IInv, ListsDistinct
<1>4. KnownListed'
  <2>1. Listed' = Listed
    BY Zenon DEF Listed
  <2> QED
    BY <1>1, <2>1 DEF IInv, KnownListed, Unsubscribing
<1>5. ASSUME NEW s \in Subs
      PROVE  /\ IsFiniteSet(Pending(s)') /\ Cardinality(Pending(s)') \in Nat
             /\ received'[s] + Cardinality(Pending(s)') <= posts
  <2>1. /\ IsFiniteSet(Pending(s)) /\ Cardinality(Pending(s)) \in Nat
        /\ received[s] + Cardinality(Pending(s)) <= posts
        /\ received[s] \in Nat /\ posts \in Nat
    BY FS_CardinalityType, MuxAssumption DEF IInv, ReadOnce, Typed, TypeOK
  <2>2. Pending(s)' \in SUBSET Pending(s)
    BY <1>1, Zenon DEF Pending
  <2>3. /\ IsFiniteSet(Pending(s)') /\ Cardinality(Pending(s)') \in Nat
        /\ Cardinality(Pending(s)') <= Cardinality(Pending(s))
    BY <2>1, <2>2, FS_Subset, FS_CardinalityType, Zenon
  <2>4. CASE received'[s] = received[s]
    BY <2>1, <2>3, <2>4
  <2>5. CASE received'[s] = received[s] + 1 /\ p \in Pending(s) /\ s \notin Range(state.todo)
    <3>1. p \notin Pending(s)'
      BY <1>1, <2>5, Zenon DEF Pending
    <3>2. Pending(s)' \in SUBSET (Pending(s) \ {p})
      BY <2>2, <3>1, Zenon
    <3>3. /\ IsFiniteSet(Pending(s) \ {p})
          /\ Cardinality(Pending(s) \ {p}) = Cardinality(Pending(s)) - 1
      BY <2>1, <2>5, FS_RemoveElement, Zenon
    <3>4. Cardinality(Pending(s)') <= Cardinality(Pending(s) \ {p})
      BY <3>2, <3>3, FS_Subset, Zenon
    <3> QED
      BY <2>1, <2>3, <2>5, <3>3, <3>4
  <2> QED
    BY <2>3, <2>4, <2>5, Zenon
<1>6. ReadOnce'
  BY <1>5, Zenon DEF ReadOnce
<1>7. Typed'
  <2>1. \A s \in Subs : received'[s] \in 0..posts'
    BY <1>5, MuxAssumption DEF IInv, Typed, TypeOK
  <2>2. poster' \in [Posters -> PosterStates]
    BY Zenon DEF IInv, Typed
  <2> QED
    BY <2>1, <2>2, Zenon DEF IInv, Typed, TypeOK
<1> QED
  BY <1>2, <1>3, <1>4, <1>6, <1>7, Zenon DEF IInv, LockInv

\* Post copies the list of its type, or gives up on a stopped mux.
LEMMA LookupIInv ==
    ASSUME IInv, NEW p \in Posters, Lookup(p)
    PROVE  IInv'
<1>1. poster[p].at = "lookup" /\ UNCHANGED <<mutex, subm, stopped, subVars, closer, received, posts>>
  BY Zenon DEF Lookup
<1>2. poster[p] \in PosterStates /\ poster[p].type \in Types
  BY <1>1, Zenon DEF IInv, Typed, ListsDistinct
<1>3. \A s \in Subs : p \in Pending(s)
  BY <1>1, Zenon DEF Pending
<1>4. readers' \in [Subs -> SUBSET Posters] /\ received' \in [Subs -> Nat]
  BY <1>1, Zenon DEF IInv, Typed, TypeOK, subVars
<1>5. CASE stopped
  <2>1. poster' = [poster EXCEPT ![p] = Idle]
    BY <1>5, Zenon DEF Lookup
  <2>2. Idle \in PosterStates /\ Idle.at = "idle" /\ Idle.todo = <<>>
    BY DEF Idle, PosterStates
  <2>3. Range(<<>>) = {} /\ IsInjective(<<>>)
    BY DEF Range, IsInjective
  <2> QED
    BY <1>1, <1>3, <1>4, <2>1, <2>2, <2>3, PosterMoves, Zenon DEF subVars
<1>6. CASE ~stopped
  <2> DEFINE state == [poster[p] EXCEPT !.at = "next", !.todo = subm[poster[p].type]]
  <2>1. poster' = [poster EXCEPT ![p] = state]
    BY <1>6, Zenon DEF Lookup, IInv, Typed
  <2>2. state \in PosterStates /\ state.at = "next" /\ state.todo = subm[poster[p].type]
    BY <1>2, Zenon DEF PosterStates, IInv, Typed, TypeOK
  <2>3. IsInjective(state.todo) /\ \A s \in Range(state.todo) : s \in Listed
    BY <1>2, <2>2, Zenon DEF IInv, ListsDistinct, Listed
  <2> HIDE DEF state
  <2> QED
    BY <1>1, <1>3, <1>4, <2>1, <2>2, <2>3, PosterMoves, Zenon DEF subVars
<1> QED
  BY <1>5, <1>6, Zenon

\* deliver, up to the select.
LEMMA DeliverIInv ==
    ASSUME IInv, NEW p \in Posters, Deliver(p)
    PROVE  IInv'
<1> DEFINE todo == poster[p].todo
<1>1. /\ poster[p].at = "next"
      /\ UNCHANGED <<mutex, subm, stopped, created, subscribed, closing, closeMu, nilled,
                     chanClosed, closer, received, posts>>
  BY Zenon DEF Deliver
<1>2. poster[p] \in PosterStates /\ todo \in Seq(Subs) /\ IsInjective(todo)
  BY Zenon DEF IInv, Typed, ListsDistinct, PosterStates
<1>3. /\ readers \in [Subs -> SUBSET Posters] /\ received' \in [Subs -> Nat]
      /\ \A s \in Range(todo) : p \in Pending(s)
  BY <1>1, Zenon DEF IInv, Typed, TypeOK, Pending
<1>4. CASE todo = <<>> /\ poster' = [poster EXCEPT ![p] = Idle] /\ UNCHANGED readers
  <2>1. Idle \in PosterStates /\ Idle.at = "idle" /\ Idle.todo = <<>>
    BY DEF Idle, PosterStates
  <2>2. Range(<<>>) = {} /\ IsInjective(<<>>)
    BY DEF Range, IsInjective
  <2> QED
    BY <1>1, <1>3, <1>4, <2>1, <2>2, PosterMoves, Zenon
<1>5. CASE /\ todo # <<>> /\ UNCHANGED readers
           /\ poster' = [poster EXCEPT ![p].todo = Tail(@)]
  <2> DEFINE state == [poster[p] EXCEPT !.todo = Tail(todo)]
  <2>1. poster' = [poster EXCEPT ![p] = state]
    BY <1>5, Zenon
  <2>2. /\ Tail(todo) \in Seq(Subs) /\ IsInjective(Tail(todo))
        /\ Range(Tail(todo)) = Range(todo) \ {Head(todo)}
    BY <1>2, <1>5, TailOfList, Zenon
  <2>3. state \in PosterStates /\ state.at = "next" /\ state.todo = Tail(todo)
    BY <1>1, <1>2, <2>2, Zenon DEF PosterStates
  <2> HIDE DEF state
  <2> QED
    BY <1>1, <1>3, <1>5, <2>1, <2>2, <2>3, PosterMoves, Zenon
<1>6. CASE /\ todo # <<>>
           /\ poster' = [poster EXCEPT ![p].at = "select"]
           /\ readers' = [readers EXCEPT ![Head(todo)] = @ \cup {p}]
  <2> DEFINE state == [poster[p] EXCEPT !.at = "select"]
  <2>1. poster' = [poster EXCEPT ![p] = state]
    BY <1>6, Zenon
  <2>2. state \in PosterStates /\ state.at = "select" /\ state.todo = todo
    BY <1>2, Zenon DEF PosterStates
  <2>3. readers' \in [Subs -> SUBSET Posters]
    BY <1>3, <1>6, Zenon
  <2> HIDE DEF state
  <2> QED
    BY <1>1, <1>2, <1>3, <1>6, <2>1, <2>2, <2>3, PosterMoves, Zenon
<1> QED
  BY <1>4, <1>5, <1>6, Zenon DEF Deliver

\* The end of deliver, whether the event was read or not.
LEMMA LeaveIInv ==
    ASSUME IInv, NEW p \in Posters, NEW s \in Subs, poster[p].at = "select",
           s = Head(poster[p].todo), Leave(p, s),
           UNCHANGED <<mutex, subm, stopped, created, subscribed, closing, closeMu, nilled,
                       chanClosed, closer, posts>>,
           received' \in {received, [received EXCEPT ![s] = @ + 1]}
    PROVE  IInv'
<1> DEFINE todo == poster[p].todo
           state == [poster[p] EXCEPT !.at = "next", !.todo = Tail(todo)]
<1>1. poster[p] \in PosterStates /\ todo \in Seq(Subs) /\ IsInjective(todo) /\ todo # <<>>
  BY Zenon DEF IInv, Typed, ListsDistinct, PosterStates
<1>2. poster' = [poster EXCEPT ![p] = state]
  BY Zenon DEF Leave, IInv, Typed
<1>3. /\ Tail(todo) \in Seq(Subs) /\ IsInjective(Tail(todo)) /\ s \in Range(todo)
      /\ Range(Tail(todo)) = Range(todo) \ {s}
  BY <1>1, TailOfList, Zenon
<1>4. state \in PosterStates /\ state.at = "next" /\ state.todo = Tail(todo)
  BY <1>1, <1>3, Zenon DEF PosterStates
<1>5. readers' \in [Subs -> SUBSET Posters]
  BY Zenon DEF Leave, IInv, Typed, TypeOK
<1>6. /\ received' \in [Subs -> Nat]
      /\ \A r \in Subs : received'[r] = received[r] \/ (r = s /\ received'[r] = received[r] + 1)
  BY DEF IInv, Typed
<1>7. \A r \in Range(todo) : p \in Pending(r)
  BY Zenon DEF Pending
<1> HIDE DEF state
<1>8. /\ \A r \in Range(state.todo) : r \in Listed \/ r \in Range(poster[p].todo)
      /\ \A r \in Subs : r \in Range(state.todo) => p \in Pending(r)
      /\ \A r \in Subs : \/ received'[r] = received[r]
                          \/ /\ received'[r] = received[r] + 1
                             /\ p \in Pending(r) /\ r \notin Range(state.todo)
  BY <1>3, <1>4, <1>6, <1>7, Zenon
<1>9. /\ state \in PosterStates /\ received' \in [Subs -> Nat]
      /\ IsInjective(state.todo) /\ state.at # "lookup" /\ state.at # "select"
  BY <1>3, <1>4, <1>6, Zenon
<1> HIDE DEF todo
<1> QED
  BY <1>2, <1>5, <1>8, <1>9, PosterMoves, Zenon

\* What changes when closer c gets the state new and the others keep theirs.
LEMMA CloserMoves ==
    ASSUME IInv, NEW c \in Closers, NEW new, closer' = [closer EXCEPT ![c] = new],
           new \in CloserStates, new.todo \subseteq subscribed
    PROVE  /\ closer' \in [Closers -> CloserStates]
           /\ \A d \in Closers : closer'[d] = IF d = c THEN new ELSE closer[d]
           /\ \A d \in Closers : closer'[d].todo \subseteq subscribed
  BY Zenon DEF IInv, Typed

\* Unsubscribe takes the subscription from the lists.
LEMMA UnsubscribeIInv ==
    ASSUME IInv, NEW c \in Closers, NEW s \in Subs, Unsubscribe(c, s)
    PROVE  IInv'
<1> DEFINE new == [op |-> "unsubscribe", at |-> "next", todo |-> {s}, sub |-> s]
<1>1. /\ closer[c].at = "idle" /\ s \in subscribed /\ mutex = None
      /\ subm' = [t \in Types |-> Without(subm[t], s)]
      /\ closer' = [closer EXCEPT ![c] = new]
      /\ UNCHANGED <<mutex, stopped, subVars, poster, received, posts>>
  BY Zenon DEF Unsubscribe
<1>2. /\ new \in CloserStates /\ new.op = "unsubscribe" /\ new.at = "next" /\ new.todo = {s}
      /\ new.sub = s
  BY Zenon DEF CloserStates
<1> HIDE DEF new
<1>3. /\ closer' \in [Closers -> CloserStates]
      /\ \A d \in Closers : closer'[d] = IF d = c THEN new ELSE closer[d]
      /\ \A d \in Closers : closer'[d].todo \subseteq subscribed
  <2>1. new.todo \subseteq subscribed
    BY <1>1, <1>2, Zenon
  <2> QED
    BY <1>1, <1>2, <2>1, CloserMoves, Zenon
<1>4. ASSUME NEW t \in Types
      PROVE  /\ subm'[t] \in Seq(Subs) /\ IsInjective(subm'[t])
             /\ Range(subm'[t]) = Range(subm[t]) \ {s}
             /\ Range(subm[t]) \subseteq subscribed
  <2>1. subm[t] \in Seq(Subs) /\ IsInjective(subm[t]) /\ Range(subm[t]) \subseteq subscribed
    BY Zenon DEF IInv, Typed, TypeOK, ListsDistinct
  <2> QED
    BY <1>1, <2>1, WithoutOne, Zenon
<1>5. Listed' = Listed \ {s}
  <2>1. \A r : r \in Listed <=> \E t \in Types : r \in Range(subm[t])
    BY Zenon DEF Listed
  <2>2. \A r : r \in Listed' <=> \E t \in Types : r \in Range(subm'[t])
    BY Zenon DEF Listed
  <2>3. \A t \in Types : Range(subm'[t]) = Range(subm[t]) \ {s}
    BY <1>4, Zenon
  <2>4. \A r : r \in Listed' <=> r \in Listed /\ r # s
    BY <2>1, <2>2, <2>3, ZenonT(40)
  <2> QED
    BY <2>4, Zenon
<1>6. Typed'
  <2>1. subm' \in [Types -> Seq(Subs)]
    BY <1>1, <1>4, Zenon
  <2> QED
    BY <1>1, <1>3, <2>1, Zenon DEF IInv, Typed, TypeOK, subVars
<1>7. ListsDistinct'
  BY <1>1, <1>4, Zenon DEF IInv, ListsDistinct, subVars
<1>8. ReadOnce'
  BY <1>1, ReadsLeft, Zenon DEF IInv
<1>9. CloseLocked'
  BY <1>1, <1>2, <1>3, Zenon DEF IInv, CloseLocked, subVars
<1>10. UnsubscribeCloses'
  BY <1>1, <1>2, <1>3, Zenon DEF IInv, UnsubscribeCloses, subVars
<1>11. StopCloses'
  BY <1>1, <1>2, <1>3, <1>5, MuxAssumption, Zenon DEF IInv, StopCloses, subVars
<1>12. KnownListed'
  <2> SUFFICES ASSUME NEW p \in Posters, NEW r \in Range(poster[p].todo)
               PROVE  r \in Listed' \cup nilled \/ \E d \in Closers : Unsubscribing(d, r)'
    BY <1>1, Zenon DEF KnownListed, subVars
  <2>1. r = s => Unsubscribing(c, r)'
    BY <1>2, <1>3, Zenon DEF Unsubscribing
  <2>2. \A d \in Closers : Unsubscribing(d, r) => Unsubscribing(d, r)'
    BY <1>1, <1>3, Zenon DEF Unsubscribing, IInv, UnsubscribeCloses
  <2> QED
    BY <1>5, <2>1, <2>2, Zenon DEF IInv, KnownListed
<1> QED
  BY <1>6, <1>7, <1>8, <1>9, <1>10, <1>11, <1>12, Zenon DEF IInv

\* Stop takes the mutex and sets out to close what is listed.
LEMMA StopIInv ==
    ASSUME IInv, NEW c \in Closers, Stop(c)
    PROVE  IInv'
<1> DEFINE new == [op |-> "stop", at |-> "next", sub |-> None, todo |-> Listed]
<1>1. /\ closer[c].at = "idle" /\ mutex = None /\ mutex' = c
      /\ closer' = [closer EXCEPT ![c] = new]
      /\ UNCHANGED <<subm, stopped, subVars, poster, received, posts>>
  BY Zenon DEF Stop, Listed
<1>2. Listed \subseteq subscribed /\ subscribed \subseteq Subs
  BY ZenonT(40) DEF IInv, ListsDistinct, Listed, Typed, TypeOK
<1>3. /\ new \in CloserStates /\ new.op = "stop" /\ new.at = "next" /\ new.todo = Listed
  BY <1>2, Zenon DEF CloserStates
<1> HIDE DEF new
<1>4. /\ closer' \in [Closers -> CloserStates]
      /\ \A d \in Closers : closer'[d] = IF d = c THEN new ELSE closer[d]
      /\ \A d \in Closers : closer'[d].todo \subseteq subscribed
  BY <1>1, <1>2, <1>3, CloserMoves, Zenon
<1>5. Listed' = Listed
  BY <1>1, Zenon DEF Listed
<1>6. Typed'
  BY <1>1, <1>4, Zenon DEF IInv, Typed, TypeOK, subVars
<1>7. ListsDistinct' /\ ReadOnce'
  BY <1>1, ReadsLeft, Zenon DEF IInv, ListsDistinct, subVars
<1>8. CloseLocked' /\ UnsubscribeCloses'
  BY <1>1, <1>3, <1>4, Zenon DEF IInv, CloseLocked, UnsubscribeCloses, subVars
<1>9. StopCloses'
  BY <1>1, <1>3, <1>4, <1>5, MuxAssumption, Zenon DEF IInv, StopCloses, subVars
<1>10. KnownListed'
  <2>1. \A d \in Closers, r \in Subs : Unsubscribing(d, r) => Unsubscribing(d, r)'
    BY <1>1, <1>4, Zenon DEF Unsubscribing, IInv, UnsubscribeCloses
  <2>2. \A p \in Posters : Range(poster[p].todo) \subseteq Subs
    BY DEF IInv, Typed, PosterStates, Range
  <2> QED
    BY <1>1, <1>5, <2>1, <2>2, Zenon DEF IInv, KnownListed, subVars
<1> QED
  BY <1>6, <1>7, <1>8, <1>9, <1>10, Zenon DEF IInv

\* closewait, up to the lock of postMu.
LEMMA CloseWaitIInv ==
    ASSUME IInv, NEW c \in Closers, NEW s \in Subs, CloseWait(c, s)
    PROVE  IInv'
<1>1. /\ closer[c].at = "next" /\ s \in closer[c].todo /\ closeMu[s] = None
      /\ UNCHANGED <<mutex, subm, stopped, created, subscribed, readers, nilled, chanClosed,
                     poster, received, posts>>
  BY Zenon DEF CloseWait
<1>2. /\ closer[c] \in CloserStates /\ closer[c].todo \subseteq subscribed
      /\ closer[c].op = "unsubscribe" => s = closer[c].sub
  BY <1>1, Zenon DEF IInv, Typed, UnsubscribeCloses
<1>3. Listed' = Listed
  BY <1>1, Zenon DEF Listed
<1>4. ListsDistinct' /\ ReadOnce'
  BY <1>1, ReadsLeft, Zenon DEF IInv, ListsDistinct
<1>5. CASE s \in closing /\ closer' = [closer EXCEPT ![c].todo = @ \ {s}] /\ UNCHANGED <<closing, closeMu>>
  <2> DEFINE new == [closer[c] EXCEPT !.todo = @ \ {s}]
  <2>1. /\ new \in CloserStates /\ new.op = closer[c].op /\ new.at = "next"
        /\ new.todo = closer[c].todo \ {s} /\ new.sub = closer[c].sub
        /\ closer' = [closer EXCEPT ![c] = new]
    BY <1>1, <1>2, <1>5, Zenon DEF CloserStates
  <2> HIDE DEF new
  <2>2. /\ closer' \in [Closers -> CloserStates]
        /\ \A d \in Closers : closer'[d] = IF d = c THEN new ELSE closer[d]
        /\ \A d \in Closers : closer'[d].todo \subseteq subscribed
    BY <1>2, <2>1, CloserMoves, Zenon
  <2>3. s \in nilled
    BY <1>1, <1>5, Zenon DEF IInv, CloseLocked
  <2>4. Typed'
    BY <1>1, <1>5, <2>2, Zenon DEF IInv, Typed, TypeOK
  <2>5. CloseLocked'
    BY <1>1, <1>5, <2>1, <2>2, Zenon DEF IInv, CloseLocked
  <2>6. UnsubscribeCloses'
    BY <1>1, <1>2, <2>1, <2>2, <2>3, Zenon DEF IInv, UnsubscribeCloses
  <2>7. StopCloses'
    BY <1>1, <1>3, <2>1, <2>2, <2>3, Zenon DEF IInv, StopCloses
  <2>8. KnownListed'
    BY <1>1, <1>3, <2>1, <2>2 DEF IInv, KnownListed, Unsubscribing
  <2> QED
    BY <1>4, <2>4, <2>5, <2>6, <2>7, <2>8, Zenon DEF IInv
<1>6. CASE /\ s \notin closing
           /\ closing' = closing \cup {s} /\ closeMu' = [closeMu EXCEPT ![s] = c]
           /\ closer' = [closer EXCEPT ![c].at = "close", ![c].sub = s]
  <2> DEFINE new == [closer[c] EXCEPT !.at = "close", !.sub = s]
  <2>1. /\ new \in CloserStates /\ new.op = closer[c].op /\ new.at = "close"
        /\ new.todo = closer[c].todo /\ new.sub = s
        /\ closer' = [closer EXCEPT ![c] = new]
    BY <1>2, <1>6, Zenon DEF CloserStates
  <2> HIDE DEF new
  <2>2. /\ closer' \in [Closers -> CloserStates]
        /\ \A d \in Closers : closer'[d] = IF d = c THEN new ELSE closer[d]
        /\ \A d \in Closers : closer'[d].todo \subseteq subscribed
    BY <1>2, <2>1, CloserMoves, Zenon
  <2>3. Typed'
    <3>1. closing' \subseteq subscribed /\ closeMu' \in [Subs -> Closers \cup {None}]
      BY <1>1, <1>2, <1>6, Zenon DEF IInv, Typed, TypeOK
    <3> QED
      BY <1>1, <1>6, <2>2, <3>1, Zenon DEF IInv, Typed, TypeOK
  <2>4. CloseLocked'
    <3>1. \A r \in Subs : closeMu'[r] = IF r = s THEN c ELSE closeMu[r]
      BY <1>6, Zenon DEF IInv, Typed, TypeOK
    <3>2. closing' \subseteq Subs /\ nilled \subseteq closing
      BY <2>3, Zenon DEF Typed, TypeOK, IInv
    <3> QED
      BY <1>1, <1>6, <2>1, <2>2, <3>1, <3>2, MuxAssumption DEF IInv, CloseLocked
  <2>5. UnsubscribeCloses'
    BY <1>1, <1>2, <2>1, <2>2, Zenon DEF IInv, UnsubscribeCloses
  <2>6. StopCloses'
    BY <1>1, <1>3, <2>1, <2>2, Zenon DEF IInv, StopCloses
  <2>7. KnownListed'
    BY <1>1, <1>2, <1>3, <2>1, <2>2 DEF IInv, KnownListed, Unsubscribing
  <2> QED
    BY <1>4, <2>3, <2>4, <2>5, <2>6, <2>7, Zenon DEF IInv
<1> QED
  BY <1>5, <1>6, Zenon DEF CloseWait

\* The rest of closewait: the channel is closed and postC is nil.
LEMMA CloseChanIInv ==
    ASSUME IInv, NEW c \in Closers, CloseChan(c)
    PROVE  IInv' /\ \A r \in panicked' \ panicked : r \in chanClosed \ nilled
<1> DEFINE s == closer[c].sub
           new == [closer[c] EXCEPT !.at = "next", !.todo = @ \ {s}]
<1>1. /\ closer[c].at = "close" /\ chanClosed' = chanClosed \cup {s} /\ nilled' = nilled \cup {s}
      /\ closeMu' = [closeMu EXCEPT ![s] = None]
      /\ closer' = [closer EXCEPT ![c].at = "next", ![c].todo = @ \ {s}]
      /\ IF s \in chanClosed THEN panicked' = panicked \cup {s} ELSE UNCHANGED panicked
      /\ UNCHANGED <<mutex, subm, stopped, created, subscribed, closing, readers, poster,
                     received, posts>>
  BY Zenon DEF CloseChan
<1>2. s \in closing /\ s \notin nilled /\ closeMu[s] = c /\ s \in Subs
  BY <1>1, Zenon DEF IInv, CloseLocked, Typed, TypeOK
<1>3. \A r \in panicked' \ panicked : r \in chanClosed \ nilled
  BY <1>1, <1>2, Zenon
<1>4. /\ new \in CloserStates /\ new.op = closer[c].op /\ new.at = "next" /\ new.sub = s
      /\ new.todo = closer[c].todo \ {s} /\ new.todo \subseteq subscribed
      /\ closer' = [closer EXCEPT ![c] = new]
  BY <1>1, Zenon DEF CloserStates, IInv, Typed
<1> HIDE DEF new
<1>5. /\ closer' \in [Closers -> CloserStates]
      /\ \A d \in Closers : closer'[d] = IF d = c THEN new ELSE closer[d]
      /\ \A d \in Closers : closer'[d].todo \subseteq subscribed
  BY <1>4, CloserMoves, Zenon
<1>6. Listed' = Listed
  BY <1>1, Zenon DEF Listed
<1>7. Typed'
  <2>1. closeMu' \in [Subs -> Closers \cup {None}]
    BY <1>1, Zenon DEF IInv, Typed, TypeOK
  <2> QED
    BY <1>1, <1>2, <1>5, <2>1, Zenon DEF IInv, Typed, TypeOK
<1>8. ListsDistinct' /\ ReadOnce'
  BY <1>1, ReadsLeft, Zenon DEF IInv, ListsDistinct
<1>9. CloseLocked'
  <2>1. \A r \in Subs : closeMu'[r] = IF r = s THEN None ELSE closeMu[r]
    BY <1>1, Zenon DEF IInv, Typed, TypeOK
  <2>2. closing \subseteq Subs
    BY Zenon DEF IInv, Typed, TypeOK
  <2>3. ASSUME NEW d \in Closers, closer'[d].at = "close"
        PROVE  closer'[d].sub \in closing' \ nilled' /\ closeMu'[closer'[d].sub] = d
    <3>1. d # c /\ closer'[d] = closer[d]
      BY <1>4, <1>5, <2>3, Zenon
    <3>2. closer[d].sub \in closing \ nilled /\ closeMu[closer[d].sub] = d
      BY <2>3, <3>1, Zenon DEF IInv, CloseLocked
    <3> QED
      BY <1>1, <1>2, <2>1, <2>2, <3>1, <3>2
  <2>4. \A r \in closing' : closeMu'[r] = None => r \in nilled'
    BY <1>1, <2>1, <2>2 DEF IInv, CloseLocked
  <2> QED
    BY <2>3, <2>4, Zenon DEF CloseLocked
<1>10. UnsubscribeCloses'
  BY <1>1, <1>4, <1>5 DEF IInv, UnsubscribeCloses
<1>11. StopCloses'
  BY <1>1, <1>4, <1>5, <1>6, Zenon DEF IInv, StopCloses
<1>12. KnownListed'
  BY <1>1, <1>4, <1>5, <1>6 DEF IInv, KnownListed, Unsubscribing
<1> QED
  BY <1>3, <1>7, <1>8, <1>9, <1>10, <1>11, <1>12, Zenon DEF IInv

\* Unsubscribe or Stop returns; Stop empties the lists.
LEMMA ReturnIInv ==
    ASSUME IInv, NEW c \in Closers, Return(c)
    PROVE  IInv'
<1> DEFINE new == [closer[c] EXCEPT !.at = "done"]
<1>1. /\ closer[c].at = "next" /\ closer[c].todo = {}
      /\ closer' = [closer EXCEPT ![c].at = "done"]
      /\ UNCHANGED <<subVars, poster, received, posts>>
  BY Zenon DEF Return
<1>2. /\ new \in CloserStates /\ new.op = closer[c].op /\ new.at = "done" /\ new.todo = {}
      /\ new.sub = closer[c].sub /\ closer' = [closer EXCEPT ![c] = new]
  BY <1>1, Zenon DEF CloserStates, IInv, Typed
<1> HIDE DEF new
<1>3. /\ closer' \in [Closers -> CloserStates]
      /\ \A d \in Closers : closer'[d] = IF d = c THEN new ELSE closer[d]
      /\ \A d \in Closers : closer'[d].todo \subseteq subscribed
  BY <1>2, CloserMoves, Zenon
<1>4. ReadOnce'
  BY <1>1, ReadsLeft, Zenon DEF IInv
<1>5. CloseLocked' /\ UnsubscribeCloses'
  BY <1>1, <1>2, <1>3 DEF IInv, CloseLocked, UnsubscribeCloses, subVars
<1>6. CASE /\ closer[c].op = "stop"
           /\ stopped' = TRUE /\ subm' = [t \in Types |-> <<>>] /\ mutex' = None
  <2>1. \A t \in Types : subm'[t] = <<>> /\ Range(subm'[t]) = {} /\ IsInjective(subm'[t])
    BY <1>6 DEF Range, IsInjective
  <2>2. Listed' = {} /\ Listed \subseteq nilled /\ mutex = c
    BY <1>1, <1>6, <2>1 DEF Listed, IInv, StopCloses
  <2>3. Typed'
    BY <1>1, <1>3, <1>6 DEF IInv, Typed, TypeOK, subVars
  <2>4. ListsDistinct'
    BY <1>1, <2>1, Zenon DEF IInv, ListsDistinct
  <2>5. StopCloses'
    BY <1>2, <1>3, <1>6, <2>2, Zenon DEF IInv, StopCloses
  <2>6. KnownListed'
    BY <1>1, <1>2, <1>3, <2>2 DEF IInv, KnownListed, Unsubscribing, subVars
  <2> QED
    BY <1>4, <1>5, <2>3, <2>4, <2>5, <2>6, Zenon DEF IInv
<1>7. CASE closer[c].op # "stop" /\ UNCHANGED <<stopped, subm, mutex>>
  <2>1. Listed' = Listed
    BY <1>7, Zenon DEF Listed
  <2>2. Typed'
    BY <1>1, <1>3, <1>7, Zenon DEF IInv, Typed, TypeOK, subVars
  <2>3. ListsDistinct'
    BY <1>1, <1>7, Zenon DEF IInv, ListsDistinct, subVars
  <2>4. StopCloses' /\ KnownListed'
    BY <1>1, <1>2, <1>3, <1>7, <2>1 DEF IInv, StopCloses, KnownListed, Unsubscribing, subVars
  <2> QED
    BY <1>4, <1>5, <2>2, <2>3, <2>4, Zenon DEF IInv
<1> QED
  BY <1>6, <1>7, Zenon DEF Return

\* A reading of s is one that no finished Unsubscribe and no finished Stop excludes.
LEMMA ReceiveTimely ==
    ASSUME IInv, NEW p \in Posters, NEW s \in Subs, Receive(p, s)
    PROVE  /\ \A c \in Closers : Unsubscribing(c, s) => closer[c].at # "done"
           /\ stopped => \E c \in Closers : Unsubscribing(c, s)
<1>1. poster[p].at = "select" /\ s = Head(poster[p].todo) /\ s \notin nilled
  BY Zenon DEF Receive
<1>2. poster[p].todo \in Seq(Subs) /\ poster[p].todo # <<>> /\ IsInjective(poster[p].todo)
  BY <1>1, Zenon DEF IInv, Typed, ListsDistinct, PosterStates
<1>3. s \in Range(poster[p].todo)
  BY <1>1, <1>2, TailOfList, Zenon
<1>4. \A c \in Closers : Unsubscribing(c, s) => closer[c].at # "done"
  BY <1>1, Zenon DEF IInv, UnsubscribeCloses, Unsubscribing
<1>5. stopped => \E c \in Closers : Unsubscribing(c, s)
  BY <1>1, <1>3, Zenon DEF IInv, StopCloses, KnownListed
<1> QED
  BY <1>4, <1>5, Zenon

\* Every step keeps the invariant, closes a channel once and hands out no event late.
LEMMA NextIInv ==
    ASSUME IInv, [Next]_vars
    PROVE  /\ IInv'
           /\ \A s \in panicked' \ panicked : s \in chanClosed \ nilled
           /\ \A s \in Subs : received'[s] # received[s] =>
                /\ \A c \in Closers : Unsubscribing(c, s) => closer[c].at # "done"
                /\ stopped => \E c \in Closers : Unsubscribing(c, s)
<1>1. ASSUME NEW s \in Subs, NewSub(s) \/ Subscribe(s)
      PROVE  IInv' /\ UNCHANGED <<panicked, received>>
  BY <1>1, NewSubIInv, SubscribeIInv, Zenon DEF NewSub, Subscribe
<1>2. ASSUME NEW p \in Posters, NEW t \in Types, Post(p, t)
      PROVE  IInv' /\ UNCHANGED <<panicked, received>>
  BY <1>2, PostIInv, Zenon DEF Post, subVars
<1>3. ASSUME NEW p \in Posters, Lookup(p)
      PROVE  IInv' /\ UNCHANGED <<panicked, received>>
  BY <1>3, LookupIInv, Zenon DEF Lookup, subVars
<1>4. ASSUME NEW p \in Posters, Deliver(p)
      PROVE  IInv' /\ UNCHANGED <<panicked, received>>
  BY <1>4, DeliverIInv, Zenon DEF Deliver
<1>5. ASSUME NEW p \in Posters, NEW s \in Subs, GiveUp(p, s)
      PROVE  IInv' /\ UNCHANGED <<panicked, received>>
  <2>1. received' \in {received, [received EXCEPT ![s] = @ + 1]} /\ UNCHANGED <<panicked, received>>
    BY <1>5, Zenon DEF GiveUp
  <2> QED
    BY <1>5, <2>1, LeaveIInv, Zenon DEF GiveUp
<1>6. ASSUME NEW p \in Posters, NEW s \in Subs, Receive(p, s)
      PROVE  /\ IInv' /\ UNCHANGED panicked
             /\ \A r \in Subs : r # s => received'[r] = received[r]
  <2>1. received' \in {received, [received EXCEPT ![s] = @ + 1]}
    BY <1>6, Zenon DEF Receive
  <2>2. IInv'
    BY <1>6, <2>1, LeaveIInv, Zenon DEF Receive
  <2> QED
    BY <1>6, <2>2, Zenon DEF Receive, IInv, Typed
<1>7. ASSUME NEW c \in Closers, NEW s \in Subs, Unsubscribe(c, s) \/ CloseWait(c, s)
      PROVE  IInv' /\ UNCHANGED <<panicked, received>>
  BY <1>7, UnsubscribeIInv, CloseWaitIInv, Zenon DEF Unsubscribe, CloseWait, subVars
<1>8. ASSUME NEW c \in Closers, Stop(c) \/ Return(c)
      PROVE  IInv' /\ UNCHANGED <<panicked, received>>
  BY <1>8, StopIInv, ReturnIInv, Zenon DEF Stop, Return, subVars
<1>9. ASSUME NEW c \in Closers, CloseChan(c)
      PROVE  /\ IInv' /\ UNCHANGED received
             /\ \A r \in panicked' \ panicked : r \in chanClosed \ nilled
  BY <1>9, CloseChanIInv, Zenon DEF CloseChan
<1>10. CASE UNCHANGED vars
  <2>1. LockInv' /\ ReadOnce'
    BY <1>10, LocksLeft, ReadsLeft, Zenon DEF IInv, LockInv, vars, subVars
  <2>2. Typed' /\ ListsDistinct'
    BY <1>10, Zenon DEF IInv, Typed, TypeOK, ListsDistinct, vars, subVars
  <2>3. KnownListed'
    BY <1>10 DEF IInv, KnownListed, Listed, Unsubscribing, vars, subVars
  <2> QED
    BY <1>10, <2>1, <2>2, <2>3, Zenon DEF IInv, LockInv, vars, subVars
<1>11. CASE \E p \in Posters, s \in Subs : Receive(p, s)
  <2>1. PICK p \in Posters, s \in Subs : Receive(p, s)
    BY <1>11, Zenon
  <2> QED
    BY <1>6, <2>1, ReceiveTimely, Zenon
<1>12. CASE \E c \in Closers : CloseChan(c)
  BY <1>9, <1>12, Zenon
<1> QED
  BY <1>1, <1>2, <1>3, <1>4, <1>5, <1>7, <1>8, <1>10, <1>11, <1>12, Zenon
     DEF Next, PostStep, CloseStep

-----------------------------------------------------------------------------
(* The theorems.                                                           *)

\* The invariant holds in every reachable state.
THEOREM Invariance == Spec => []IInv
<1>1. IInv /\ [Next]_vars => IInv'
  BY NextIInv, Zenon
<1> QED
  BY <1>1, InitIInv, PTL DEF Spec

\* However many goroutines unsubscribe and stop at once, closewait closes the channel
\* of a subscription once; only one made on a stopped mux is closed again.
THEOREM ClosedOnceAlways == Spec => ClosedOnce
<1>1. IInv /\ [Next]_vars => [TypeOK' /\ \A s \in panicked' \ panicked : s \in chanClosed \ nilled]_vars
  BY NextIInv, Zenon DEF IInv, Typed
<1> QED
  BY <1>1, Invariance, PTL DEF Spec, ClosedOnce

\* No event is read after Unsubscribe has returned, and after Stop has returned only
\* from a subscription that an Unsubscribe had taken from the mux before.
THEOREM NoLateEventsAlways == Spec => NoLateEvents
<1> DEFINE Timely == \A s \in Subs : received'[s] # received[s] =>
             LET Unsubscribes(c) == closer[c].op = "unsubscribe" /\ closer[c].sub = s
             IN  /\ \A c \in Closers : Unsubscribes(c) => closer[c].at # "done"
                 /\ stopped => \E c \in Closers : Unsubscribes(c)
<1>1. IInv /\ [Next]_vars => [Timely]_vars
  BY NextIInv, Zenon DEF Unsubscribing
<1> QED
  BY <1>1, Invariance, PTL DEF Spec, NoLateEvents
=============================================================================
