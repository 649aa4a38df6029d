---------------------------- MODULE FetcherProofs ----------------------------
(***************************************************************************)
(* Proofs about Fetcher for any peers, finite set of blocks, limits and    *)
(* amount of gossip.                                                       *)
(***************************************************************************)
EXTENDS Fetcher, FiniteSetTheorems, TLAPS

\* An announcement of h whose origin can only be dropped for a reason.
Backed(h, a) == a # None => /\ a.number = Number[h] \/ a.origin \in guilty \cup Peers61
                            /\ h \in Invalid => a.origin \in guilty

AnnounceInv ==
    /\ announces \in [Peers -> Int]
    /\ announced \in [Hashes -> Seq(Announces)]
    /\ fetching \in [Hashes -> Announces \cup {None}]
    /\ fetched \in [Hashes -> Announces \cup {None}]
    /\ completing \in [Hashes -> Announces \cup {None}]
    /\ OneStage
    /\ \A h \in Hashes : /\ Backed(h, fetching[h]) /\ Backed(h, fetched[h])
                         /\ Backed(h, completing[h])
                         /\ \A i \in DOMAIN announced[h] : Backed(h, announced[h][i])

QueueInv ==
    /\ queue \subseteq Hashes
    /\ queues \in [Peers -> Nat]
    /\ queued \in [Hashes -> Peers \cup {None}]
    /\ importing \subseteq Peers \X Hashes
    /\ finished \subseteq Hashes
    /\ QueuesExact /\ OneImport
    /\ \A h \in Invalid : queued[h] # None => queued[h] \in guilty

NodeInv ==
    /\ loop \in {"top", "select"}
    /\ fetchTimer \in BOOLEAN /\ completeTimer \in BOOLEAN
    /\ chain \subseteq Hashes \cup {Genesis}
    /\ gossip \in 0..MaxGossip
    /\ dropped \subseteq Peers /\ guilty \subseteq Peers
    /\ TimersSet /\ DropsJustified

IInv == AnnounceInv /\ QueueInv /\ NodeInv

-----------------------------------------------------------------------------
(* The parts of an action.                                                 *)

\* What forgetHash takes off a count is a number.
LEMMA TracesType ==
    ASSUME NEW p, NEW S \in SUBSET Hashes
    PROVE  Traces(p, S) \in Nat
<1>1. IsFiniteSet(S)
  BY FetcherAssumption, FS_Subset, Zenon
<1>2. IsFiniteSet(1..MaxGossip)
  BY FetcherAssumption, FS_Interval
<1>3. IsFiniteSet(S \X (1..MaxGossip))
  BY <1>1, <1>2, FS_Product, Zenon
<1>4. ASSUME NEW T, IsFiniteSet(T), NEW U \in SUBSET T PROVE Cardinality(U) \in Nat
  BY <1>4, FS_Subset, FS_CardinalityType, Zenon
<1>5. Cardinality({t \in S \X (1..MaxGossip) :
          t[2] \in DOMAIN announced[t[1]] /\ From(announced[t[1]][t[2]], p)}) \in Nat
  BY <1>3, <1>4, Zenon
<1>6. /\ Cardinality({h \in S : From(fetching[h], p)}) \in Nat
      /\ Cardinality({h \in S : From(fetched[h], p)}) \in Nat
      /\ Cardinality({h \in S : From(completing[h], p)}) \in Nat
  BY <1>1, <1>4, Zenon
<1> QED
  BY <1>5, <1>6 DEF Traces

\* Forgetting hashes keeps the stages apart and starts nothing.
LEMMA ForgetHashesKeeps ==
    ASSUME AnnounceInv, NEW S \in SUBSET Hashes, ForgetHashes(S), guilty \subseteq guilty'
    PROVE  AnnounceInv' /\ Waiting' \subseteq Waiting /\ Incomplete' \subseteq Incomplete
<1>1. announces' \in [Peers -> Int]
  <2>1. \A p \in Peers : Traces(p, S) \in Nat
    BY TracesType, Zenon
  <2> QED
    BY <2>1 DEF AnnounceInv, ForgetHashes
<1>2. /\ announced' \in [Hashes -> Seq(Announces)]
      /\ fetching' \in [Hashes -> Announces \cup {None}]
      /\ fetched' \in [Hashes -> Announces \cup {None}]
      /\ completing' \in [Hashes -> Announces \cup {None}]
  BY DEF AnnounceInv, ForgetHashes
<1>3. OneStage' /\ Waiting' \subseteq Waiting /\ Incomplete' \subseteq Incomplete
  BY Zenon DEF AnnounceInv, ForgetHashes, OneStage, Waiting, Incomplete
<1>4. ASSUME NEW h \in Hashes
      PROVE  /\ Backed(h, fetching[h])' /\ Backed(h, fetched[h])' /\ Backed(h, completing[h])'
             /\ \A i \in DOMAIN announced'[h] : Backed(h, announced[h][i])'
  BY DEF AnnounceInv, ForgetHashes, Backed
<1> QED
  BY <1>1, <1>2, <1>3, <1>4, Zenon DEF AnnounceInv

\* Announcements that are left alone stay in order when a peer turns out guilty.
LEMMA AnnouncesLeft ==
    ASSUME AnnounceInv, UNCHANGED announceVars, guilty \subseteq guilty'
    PROVE  AnnounceInv' /\ Waiting' = Waiting /\ Incomplete' = Incomplete
  BY Zenon DEF AnnounceInv, announceVars, OneStage, Waiting, Incomplete, Backed

\* So do the queue and the imports.
LEMMA QueueLeft ==
    ASSUME QueueInv, UNCHANGED <<queueVars, imports>>, guilty \subseteq guilty'
    PROVE  QueueInv'
  BY DEF QueueInv, queueVars, imports, QueuesExact, OneImport

\* The counts stay exact when blocks are forgotten.
LEMMA ForgetBlocksCounts ==
    ASSUME QueueInv, NEW S \in SUBSET Hashes, ForgetBlocks(S)
    PROVE  /\ queues' \in [Peers -> Nat]
           /\ queued' \in [Hashes -> Peers \cup {None}]
           /\ QueuesExact'
<1> SUFFICES ASSUME NEW p \in Peers
             PROVE  /\ queues'[p] \in Nat /\ queues'[p] <= BlockLimit
                    /\ queues'[p] = Cardinality({h \in Hashes : queued'[h] = p})
  BY Zenon DEF QueueInv, ForgetBlocks, QueuesExact
<1> DEFINE all == {h \in Hashes : queued[h] = p}
           gone == {h \in S : queued[h] = p}
<1>1. IsFiniteSet(all) /\ gone \in SUBSET all
  BY FetcherAssumption, FS_Subset, Zenon
<1>2. {h \in Hashes : queued'[h] = p} = all \ gone
  BY FetcherAssumption, Zenon DEF ForgetBlocks
<1>3. /\ queues'[p] = queues[p] - Cardinality(gone)
      /\ queues[p] = Cardinality(all) /\ queues[p] <= BlockLimit
  BY Zenon DEF ForgetBlocks, QueueInv, QueuesExact
<1> HIDE DEF all, gone
<1>4. /\ Cardinality(all) \in Nat /\ Cardinality(gone) \in Nat
      /\ Cardinality(gone) <= Cardinality(all)
  BY <1>1, FS_Subset, FS_CardinalityType, Zenon
<1>5. Cardinality(all \ gone) = Cardinality(all) - Cardinality(gone)
  <2>1. all \cap gone = gone
    BY <1>1, Zenon
  <2> QED
    BY <1>1, <2>1, FS_Difference, ZenonT(30)
<1>6. Cardinality({h \in Hashes : queued'[h] = p}) = Cardinality(all) - Cardinality(gone)
  BY <1>2, <1>5, Zenon
<1>7. BlockLimit \in Nat
  BY FetcherAssumption, Zenon
<1> QED
  BY <1>3, <1>4, <1>6, <1>7

\* A block that is scheduled for a peer below its limit is in one place.
LEMMA ScheduleKeeps ==
    ASSUME QueueInv, NEW p \in Peers, NEW h \in Hashes, Schedule(p, h), ~Refused(p, h),
           UNCHANGED imports, guilty \subseteq guilty', h \in Invalid => p \in guilty'
    PROVE  QueueInv'
<1>1. CASE queued[h] # None
  BY <1>1, QueueLeft, Zenon DEF Schedule
<1>2. CASE queued[h] = None
  <2>1. /\ queues' = [queues EXCEPT ![p] = @ + 1] /\ queued' = [queued EXCEPT ![h] = p]
        /\ queue' = queue \cup {h} /\ importing' = importing /\ finished' = finished
    BY <1>2, Zenon DEF Schedule, imports
  <2>2. QueuesExact' /\ queues' \in [Peers -> Nat]
    <3> SUFFICES ASSUME NEW q \in Peers
                 PROVE  /\ queues'[q] \in Nat /\ queues'[q] <= BlockLimit
                        /\ queues'[q] = Cardinality({k \in Hashes : queued'[k] = q})
      BY <2>1, Zenon DEF QueuesExact, QueueInv
    <3> DEFINE of == {k \in Hashes : queued[k] = q}
               now == {k \in Hashes : queued'[k] = q}
    <3>1. /\ queues[q] = Cardinality(of) /\ queues[q] <= BlockLimit /\ queues[q] \in Nat
          /\ IsFiniteSet(of) /\ h \notin of
      BY <1>2, FetcherAssumption, FS_Subset, Zenon DEF QueueInv, QueuesExact
    <3>2. CASE q = p
      <4>1. now = of \cup {h}
        BY <2>1, <3>2, Zenon DEF QueueInv
      <4>2. queues'[q] = queues[q] + 1 /\ queues[q] + 1 <= BlockLimit
        BY <2>1, <3>1, <3>2, FetcherAssumption DEF QueueInv, Refused
      <4>3. Cardinality(now) = Cardinality(of) + 1
        <5> HIDE DEF of, now
        <5> QED
          BY <3>1, <4>1, FS_AddElement, Zenon
      <4> QED
        BY <3>1, <4>2, <4>3
    <3>3. CASE q # p
      <4>1. \A k \in Hashes : queued'[k] = q <=> queued[k] = q
        BY <1>2, <2>1, <3>3, FetcherAssumption, Zenon DEF QueueInv
      <4>2. now = of /\ queues'[q] = queues[q]
        BY <2>1, <3>3, <4>1, Zenon DEF QueueInv
      <4> QED
        BY <3>1, <4>2, Zenon
    <3> QED
      BY <3>2, <3>3, Zenon
  <2>3. OneImport'
    BY <1>2, <2>1, FetcherAssumption DEF QueueInv, OneImport
  <2> QED
    BY <2>1, <2>2, <2>3, FetcherAssumption, Zenon DEF QueueInv
<1> QED
  BY <1>1, <1>2, Zenon

\* enqueue forgets the hash or schedules the block.
LEMMA EnqueueKeeps ==
    ASSUME AnnounceInv, QueueInv, NEW p \in Peers, NEW h \in Hashes, Enqueue(p, h),
           UNCHANGED imports, guilty \subseteq guilty', h \in Invalid => p \in guilty'
    PROVE  /\ AnnounceInv' /\ QueueInv'
           /\ Waiting' \subseteq Waiting /\ Incomplete' \subseteq Incomplete
<1>1. CASE Refused(p, h)
  <2>1. {h} \in SUBSET Hashes /\ ForgetHashes({h}) /\ UNCHANGED queueVars
    BY <1>1, Zenon DEF Enqueue
  <2> QED
    BY <2>1, ForgetHashesKeeps, QueueLeft, Zenon
<1>2. CASE ~Refused(p, h)
  BY <1>2, ScheduleKeeps, AnnouncesLeft, Zenon DEF Enqueue
<1> QED
  BY <1>1, <1>2, Zenon

\* A step that announces nothing and sets no timer leaves no work without one.
LEMMA NodeLeft ==
    ASSUME NodeInv, UNCHANGED <<timers, chain, dropped, env>>, loop' \in {"top", "select"},
           Waiting' \subseteq Waiting, Incomplete' \subseteq Incomplete
    PROVE  NodeInv' /\ guilty \subseteq guilty'
  BY Zenon DEF NodeInv, TimersSet, DropsJustified, timers, env

-----------------------------------------------------------------------------
(* The inductive invariant.                                                *)

\* The fetcher starts with nothing announced, fetched or queued.
LEMMA InitIInv == Init => IInv
<1> SUFFICES ASSUME Init PROVE IInv
  BY Zenon
<1>1. AnnounceInv
  BY DEF Init, AnnounceInv, OneStage, Backed
<1>2. QueueInv
  <2>1. ASSUME NEW p \in Peers PROVE {h \in Hashes : queued[h] = p} = {}
    BY FetcherAssumption, Zenon DEF Init
  <2>2. QueuesExact
    <3>1. BlockLimit >= 0
      BY FetcherAssumption
    <3>2. ASSUME NEW p \in Peers PROVE queues[p] = 0 /\ Cardinality({h \in Hashes : queued[h] = p}) = 0
      BY <2>1, FS_EmptySet, Zenon DEF Init
    <3> QED
      BY <3>1, <3>2, Zenon DEF QueuesExact
  <2>3. OneImport
    BY Zenon DEF Init, OneImport
  <2> QED
    BY <2>2, <2>3, FetcherAssumption, Zenon DEF Init, QueueInv
<1>3. NodeInv
  BY FetcherAssumption DEF Init, NodeInv, TimersSet, DropsJustified
<1> QED
  BY <1>1, <1>2, <1>3, Zenon DEF IInv

\* The top of the loop: a block that is due leaves the queue for a goroutine, or is
\* forgotten.
LEMMA TopIInv ==
    ASSUME IInv, NEW expired \in SUBSET Hashes, Top(expired)
    PROVE  IInv'
<1>1. AnnounceInv' /\ Waiting' \subseteq Waiting /\ Incomplete' \subseteq Incomplete
  BY ForgetHashesKeeps, Zenon DEF IInv, Top, env
<1>2. NodeInv' /\ guilty \subseteq guilty'
  BY <1>1, NodeLeft, Zenon DEF IInv, Top
<1>3. QueueInv'
  <2> DEFINE due == {h \in queue : Number[h] <= ChainHeight + 1}
             stale == {h \in due : Number[h] + MaxUncleDist < ChainHeight \/ h \in chain}
  <2>1. /\ queue' = queue \ due /\ ForgetBlocks(stale) /\ finished' = finished
        /\ importing' = importing \cup {<<queued[h], h>> : h \in due \ stale}
    BY Zenon DEF Top
  <2>2. due \subseteq queue /\ stale \subseteq due /\ queue \subseteq Hashes
    BY Zenon DEF IInv, QueueInv
  <2> HIDE DEF due, stale
  <2>3. /\ queues' \in [Peers -> Nat] /\ queued' \in [Hashes -> Peers \cup {None}]
        /\ QueuesExact'
    BY <2>1, <2>2, ForgetBlocksCounts, Zenon DEF IInv
  <2>4. \A h \in queue : queued[h] \in Peers
    BY Zenon DEF IInv, QueueInv, OneImport
  <2>5. importing' \subseteq Peers \X Hashes
    BY <2>1, <2>2, <2>4 DEF IInv, QueueInv
  <2>6. \A h \in Hashes : queued'[h] = IF h \in stale THEN None ELSE queued[h]
    BY <2>1, Zenon DEF ForgetBlocks
  <2>7. OneImport'
    <3> DEFINE running == {i[2] : i \in importing}
               started == {<<queued[h], h>> : h \in due \ stale}
    <3>1. /\ {h \in Hashes : queued[h] # None} = queue \cup running \cup finished
          /\ queue \cap running = {} /\ queue \cap finished = {} /\ running \cap finished = {}
          /\ \A i \in importing : queued[i[2]] = i[1] /\ i[2] \in Hashes
      BY Zenon DEF IInv, QueueInv, OneImport
    <3>2. {i[2] : i \in importing'} = running \cup (due \ stale)
      <4>1. {i[2] : i \in importing'} = running \cup {i[2] : i \in started}
        BY <2>1, Zenon
      <4>2. \A h \in due \ stale : <<queued[h], h>> \in started /\ <<queued[h], h>>[2] = h
        BY Zenon
      <4>3. \A i \in started : i[2] \in due \ stale
        OBVIOUS
      <4>4. {i[2] : i \in started} = due \ stale
        <5> HIDE DEF started
        <5> QED
          BY <4>2, <4>3, Zenon
      <4> QED
        BY <4>1, <4>4, Zenon
    <3>3. \A i \in importing' : queued'[i[2]] = i[1]
      <4>1. ASSUME NEW i \in importing PROVE queued'[i[2]] = i[1]
        <5>1. i[2] \in running /\ i[2] \notin stale
          BY <2>2, <3>1
        <5> QED
          BY <2>6, <3>1, <5>1, Zenon
      <4>2. ASSUME NEW i \in started PROVE queued'[i[2]] = i[1]
        BY <2>2, <2>6
      <4> QED
        BY <2>1, <4>1, <4>2, Zenon
    <3>4. {h \in Hashes : queued'[h] # None} = {h \in Hashes : queued[h] # None} \ stale
      BY <2>6, Zenon
    <3> HIDE DEF running
    <3>5. {h \in Hashes : queued'[h] # None} = (queue \ due) \cup (running \cup (due \ stale)) \cup finished
      BY <2>2, <3>1, <3>4, Zenon
    <3>6. /\ (queue \ due) \cap (running \cup (due \ stale)) = {}
          /\ (queue \ due) \cap finished = {}
          /\ (running \cup (due \ stale)) \cap finished = {}
      BY <2>2, <3>1, Zenon
    <3> DEFINE now == {i[2] : i \in importing'}
    <3>7. /\ {h \in Hashes : queued'[h] # None} = queue' \cup now \cup finished'
          /\ queue' \cap now = {} /\ queue' \cap finished' = {} /\ now \cap finished' = {}
      BY <2>1, <3>2, <3>5, <3>6, Zenon
    <3> QED
      BY <3>3, <3>7, Zenon DEF OneImport
  <2> QED
    BY <1>2, <2>1, <2>3, <2>5, <2>6, <2>7, FetcherAssumption, Zenon DEF IInv, QueueInv
<1> QED
  BY <1>1, <1>2, <1>3, Zenon DEF IInv

\* notify: an announcement is taken for a hash that is not being downloaded.
LEMMA NotifyIInv ==
    ASSUME IInv, NEW p \in Peers, NEW h \in Hashes, NEW n \in Claims, Notify(p, h, n)
    PROVE  IInv'
<1>1. /\ UNCHANGED <<fetching, fetched, completing, completeTimer, queueVars, imports, chain, dropped>>
      /\ loop' = "top" /\ gossip < MaxGossip /\ gossip' = gossip + 1
      /\ guilty' = IF (n # 0 /\ n # Number[h]) \/ h \in Invalid THEN guilty \cup {p} ELSE guilty
      /\ (n = 0) <=> (p \in Peers61)
  BY Zenon DEF Notify, Selected
<1>2. /\ guilty \subseteq guilty' /\ guilty' \subseteq Peers
      /\ gossip' \in 0..MaxGossip
  BY <1>1, FetcherAssumption DEF IInv, NodeInv
<1>3. QueueInv'
  BY <1>1, <1>2, QueueLeft, Zenon DEF IInv
<1>4. CASE UNCHANGED <<announces, announced, fetchTimer>>
  <2>1. AnnounceInv' /\ Waiting' = Waiting /\ Incomplete' = Incomplete
    BY <1>1, <1>2, <1>4, AnnouncesLeft, Zenon DEF IInv, announceVars
  <2>2. NodeInv'
    BY <1>1, <1>2, <1>4, <2>1, Zenon DEF IInv, NodeInv, TimersSet, DropsJustified
  <2> QED
    BY <1>3, <2>1, <2>2, Zenon DEF IInv
<1>5. CASE /\ ~Downloading(h)
           /\ announces' = [announces EXCEPT ![p] = @ + 1]
           /\ announced' = [announced EXCEPT ![h] = Append(@, [origin |-> p, number |-> n])]
           /\ fetchTimer' = (fetchTimer \/ Waiting \subseteq {h})
  <2> DEFINE a == [origin |-> p, number |-> n]
  <2>1. announces' \in [Peers -> Int]
    BY <1>5 DEF IInv, AnnounceInv
  <2>2. a \in Announces /\ announced[h] \in Seq(Announces)
    BY FetcherAssumption, Zenon DEF Announces, IInv, AnnounceInv
  <2>3. /\ announced'[h] = Append(announced[h], a) /\ announced'[h] # <<>>
        /\ announced'[h] \in Seq(Announces) /\ DOMAIN announced'[h] = 1..Len(announced[h]) + 1
        /\ DOMAIN announced[h] = 1..Len(announced[h]) /\ Len(announced[h]) \in Nat
        /\ \A i \in DOMAIN announced'[h] :
             announced'[h][i] = IF i = Len(announced[h]) + 1 THEN a ELSE announced[h][i]
    <3>1. announced'[h] = Append(announced[h], a)
      BY <1>5, Zenon DEF IInv, AnnounceInv
    <3> HIDE DEF a
    <3> QED
      BY <2>2, <3>1
  <2>4. \A k \in Hashes : k # h => announced'[k] = announced[k]
    BY <1>5, Zenon DEF IInv, AnnounceInv
  <2>5. announced' \in [Hashes -> Seq(Announces)]
    BY <1>5, <2>3, <2>4, Zenon DEF IInv, AnnounceInv
  <2>6. OneStage'
    BY <1>1, <1>5, <2>4, Zenon DEF IInv, AnnounceInv, OneStage, Downloading
  <2>7. Backed(h, a)'
    BY <1>1, Zenon DEF Backed
  <2>8. ASSUME NEW k \in Hashes, NEW i \in DOMAIN announced'[k]
        PROVE  Backed(k, announced[k][i])'
    <3>1. CASE k = h /\ i = Len(announced[h]) + 1
      <4>1. announced'[k][i] = a
        BY <2>3, <2>8, <3>1, Zenon
      <4> QED
        BY <2>7, <3>1, <4>1, Zenon DEF Backed
    <3>2. CASE ~(k = h /\ i = Len(announced[h]) + 1)
      <4>1. i \in DOMAIN announced[k] /\ announced'[k][i] = announced[k][i]
        <5>1. CASE k # h
          BY <2>4, <2>8, <5>1, Zenon
        <5>2. CASE k = h
          <6>1. i \in 1..Len(announced[h]) + 1 /\ i # Len(announced[h]) + 1
            BY <2>3, <2>8, <3>2, <5>2, Zenon
          <6>2. i \in 1..Len(announced[h])
            BY <2>3, <6>1
          <6> QED
            BY <2>3, <2>8, <5>2, <6>1, <6>2, Zenon
        <5> QED
          BY <5>1, <5>2, Zenon
      <4> QED
        BY <1>2, <4>1, Zenon DEF IInv, AnnounceInv, Backed
    <3> QED
      BY <3>1, <3>2, Zenon
  <2>9. AnnounceInv'
    <3>1. ASSUME NEW k \in Hashes
          PROVE  Backed(k, fetching[k])' /\ Backed(k, fetched[k])' /\ Backed(k, completing[k])'
      BY <1>1, <1>2, Zenon DEF IInv, AnnounceInv, Backed
    <3> QED
      BY <1>1, <2>1, <2>5, <2>6, <2>8, <3>1, Zenon DEF IInv, AnnounceInv
  <2>10. NodeInv'
    <3>1. Waiting' \subseteq Waiting \cup {h} /\ Incomplete' = Incomplete
      BY <1>1, <2>4, Zenon DEF Waiting, Incomplete
    <3>2. TimersSet'
      BY <1>1, <1>5, <3>1, Zenon DEF IInv, NodeInv, TimersSet
    <3>3. fetchTimer' \in BOOLEAN
      BY <1>5, Zenon
    <3> QED
      BY <1>1, <1>2, <3>2, <3>3, Zenon DEF IInv, NodeInv, DropsJustified
  <2> QED
    BY <1>3, <2>9, <2>10, Zenon DEF IInv
<1> QED
  BY <1>4, <1>5, Zenon DEF Notify

\* enqueue of a block nobody asked for.
LEMMA InjectIInv ==
    ASSUME IInv, NEW p \in Peers, NEW h \in Hashes, Inject(p, h)
    PROVE  IInv'
<1>1. /\ UNCHANGED <<timers, imports, chain, dropped>> /\ loop' = "top"
      /\ gossip < MaxGossip /\ gossip' = gossip + 1
      /\ guilty' = IF h \in Invalid THEN guilty \cup {p} ELSE guilty
      /\ Enqueue(p, h)
  BY Zenon DEF Inject, Selected
<1>2. /\ guilty \subseteq guilty' /\ guilty' \subseteq Peers /\ gossip' \in 0..MaxGossip
      /\ h \in Invalid => p \in guilty'
  BY <1>1, FetcherAssumption DEF IInv, NodeInv
<1>3. /\ AnnounceInv' /\ QueueInv' /\ Waiting' \subseteq Waiting /\ Incomplete' \subseteq Incomplete
  BY <1>1, <1>2, EnqueueKeeps, Zenon DEF IInv
<1>4. NodeInv'
  BY <1>1, <1>2, <1>3, Zenon DEF IInv, NodeInv, TimersSet, DropsJustified, timers
<1> QED
  BY <1>3, <1>4, Zenon DEF IInv

\* The report of an import goroutine.
LEMMA DoneIInv ==
    ASSUME IInv, NEW h \in Hashes, Done(h)
    PROVE  IInv'
<1>1. /\ h \in finished /\ finished' = finished \ {h} /\ queue' = queue /\ importing' = importing
      /\ ForgetHashes({h}) /\ ForgetBlocks({h}) /\ loop' = "top"
      /\ UNCHANGED <<timers, chain, dropped, env>>
  BY Zenon DEF Done, Selected
<1>2. AnnounceInv' /\ Waiting' \subseteq Waiting /\ Incomplete' \subseteq Incomplete
  BY <1>1, ForgetHashesKeeps, Zenon DEF IInv, env
<1>3. NodeInv' /\ guilty \subseteq guilty'
  BY <1>1, <1>2, NodeLeft, Zenon DEF IInv
<1>4. /\ queues' \in [Peers -> Nat] /\ queued' \in [Hashes -> Peers \cup {None}] /\ QueuesExact'
  BY <1>1, ForgetBlocksCounts, Zenon DEF IInv
<1>5. \A k \in Hashes : queued'[k] = IF k = h THEN None ELSE queued[k]
  BY <1>1, Zenon DEF ForgetBlocks
<1>6. OneImport'
  <2> DEFINE running == {i[2] : i \in importing}
  <2>1. /\ {k \in Hashes : queued[k] # None} = queue \cup running \cup finished
        /\ queue \cap running = {} /\ queue \cap finished = {} /\ running \cap finished = {}
        /\ \A i \in importing : queued[i[2]] = i[1] /\ i[2] \in Hashes /\ i[2] \in running
    BY Zenon DEF IInv, QueueInv, OneImport
  <2> HIDE DEF running
  <2>2. {k \in Hashes : queued'[k] # None} = queue \cup running \cup (finished \ {h})
    BY <1>1, <1>5, <2>1
  <2>3. \A i \in importing : queued'[i[2]] = i[1]
    BY <1>1, <1>5, <2>1, Zenon
  <2> QED
    BY <1>1, <2>1, <2>2, <2>3, Zenon DEF OneImport, running
<1>7. QueueInv'
  BY <1>1, <1>3, <1>4, <1>5, <1>6, FetcherAssumption, Zenon DEF IInv, QueueInv
<1> QED
  BY <1>2, <1>3, <1>7, Zenon DEF IInv

\* The fetch timer: a hash moves from the announced to the ones being fetched.
LEMMA FetchIInv ==
    ASSUME IInv, NEW due \in SUBSET Hashes, Fetch(due)
    PROVE  IInv'
<1>1. PICK pick \in [due -> 1..MaxGossip] :
        /\ \A h \in due : pick[h] \in DOMAIN announced[h]
        /\ announces' = [p \in Peers |-> announces[p] - Traces(p, due)]
        /\ announced' = [h \in Hashes |-> IF h \in due THEN <<>> ELSE announced[h]]
        /\ fetching' = [h \in Hashes |-> IF h \in due \ chain THEN announced[h][pick[h]]
                                         ELSE IF h \in due THEN None ELSE fetching[h]]
  BY SMTT(30) DEF Fetch
<1>2. /\ fetched' = [h \in Hashes |-> IF h \in due THEN None ELSE fetched[h]]
      /\ completing' = [h \in Hashes |-> IF h \in due THEN None ELSE completing[h]]
      /\ fetchTimer' = (Waiting \ due # {}) /\ loop' = "top"
      /\ UNCHANGED <<completeTimer, queueVars, imports, chain, dropped, env>>
  BY SMTT(30) DEF Fetch, Rescheduled, Selected
<1>3. QueueInv' /\ guilty' = guilty
  BY <1>2, QueueLeft, Zenon DEF IInv, env
<1>4. \A h \in due : announced[h][pick[h]] \in Announces /\ Backed(h, announced[h][pick[h]])
  BY <1>1 DEF IInv, AnnounceInv
<1>5. AnnounceInv'
  <2>1. announces' \in [Peers -> Int]
    <3>1. \A p \in Peers : Traces(p, due) \in Nat
      BY TracesType, Zenon
    <3> QED
      BY <1>1, <3>1 DEF IInv, AnnounceInv
  <2>2. /\ announced' \in [Hashes -> Seq(Announces)]
        /\ fetching' \in [Hashes -> Announces \cup {None}]
        /\ fetched' \in [Hashes -> Announces \cup {None}]
        /\ completing' \in [Hashes -> Announces \cup {None}]
    BY <1>1, <1>2, <1>4, SMTT(30) DEF IInv, AnnounceInv
  <2>3. OneStage'
    BY <1>1, <1>2, Zenon DEF IInv, AnnounceInv, OneStage
  <2>4. ASSUME NEW h \in Hashes
        PROVE  /\ Backed(h, fetching[h])' /\ Backed(h, fetched[h])' /\ Backed(h, completing[h])'
               /\ \A i \in DOMAIN announced'[h] : Backed(h, announced[h][i])'
    <3>1. /\ Backed(h, None) /\ Backed(h, fetching[h]) /\ Backed(h, fetched[h]) /\ Backed(h, completing[h])
          /\ \A i \in DOMAIN announced[h] : Backed(h, announced[h][i])
      BY Zenon DEF IInv, AnnounceInv, Backed
    <3>2. /\ fetching'[h] \in {None, fetching[h]} \/ (h \in due /\ fetching'[h] = announced[h][pick[h]])
          /\ fetched'[h] \in {None, fetched[h]} /\ completing'[h] \in {None, completing[h]}
          /\ announced'[h] \in {<<>>, announced[h]}
      BY <1>1, <1>2, Zenon
    <3>3. Backed(h, fetching'[h]) /\ Backed(h, fetched'[h]) /\ Backed(h, completing'[h])
      BY <1>4, <3>1, <3>2, Zenon
    <3>4. \A i \in DOMAIN announced'[h] : Backed(h, announced'[h][i])
      BY <3>1, <3>2
    <3> QED
      BY <1>3, <3>3, <3>4, Zenon DEF Backed
  <2> QED
    BY <2>1, <2>2, <2>3, <2>4, Zenon DEF AnnounceInv
<1>6. NodeInv'
  <2>1. Waiting' = Waiting \ due /\ Incomplete' \subseteq Incomplete
    BY <1>1, <1>2, Zenon DEF Waiting, Incomplete
  <2>2. TimersSet' /\ fetchTimer' \in BOOLEAN
    BY <1>2, <2>1, Zenon DEF IInv, NodeInv, TimersSet
  <2> QED
    BY <1>2, <2>2, Zenon DEF IInv, NodeInv, DropsJustified, env
<1> QED
  BY <1>3, <1>5, <1>6, Zenon DEF IInv

\* The complete timer: a fetched header is completed or forgotten.
LEMMA CompleteIInv ==
    ASSUME IInv, Complete
    PROVE  IInv'
<1>1. /\ announces' = [p \in Peers |-> announces[p] - Traces(p, Incomplete)]
      /\ announced' = [h \in Hashes |-> IF h \in Incomplete THEN <<>> ELSE announced[h]]
      /\ fetching' = [h \in Hashes |-> IF h \in Incomplete THEN None ELSE fetching[h]]
      /\ fetched' = [h \in Hashes |-> None]
      /\ completing' = [h \in Hashes |-> IF h \in Incomplete \ chain THEN fetched[h]
                                         ELSE IF h \in Incomplete THEN None ELSE completing[h]]
      /\ completeTimer' = FALSE /\ loop' = "top"
      /\ UNCHANGED <<fetchTimer, queueVars, imports, chain, dropped, env>>
  BY Zenon DEF Complete, Selected
<1>2. QueueInv' /\ guilty' = guilty
  BY <1>1, QueueLeft, Zenon DEF IInv, env
<1>3. Incomplete \in SUBSET Hashes
  BY Zenon DEF Incomplete
<1>4. AnnounceInv'
  <2>1. announces' \in [Peers -> Int]
    <3>1. \A p \in Peers : Traces(p, Incomplete) \in Nat
      BY <1>3, TracesType, Zenon
    <3> QED
      BY <1>1, <3>1 DEF IInv, AnnounceInv
  <2>2. /\ announced' \in [Hashes -> Seq(Announces)]
        /\ fetching' \in [Hashes -> Announces \cup {None}]
        /\ fetched' \in [Hashes -> Announces \cup {None}]
        /\ completing' \in [Hashes -> Announces \cup {None}]
    BY <1>1 DEF IInv, AnnounceInv
  <2>3. OneStage'
    BY <1>1, Zenon DEF IInv, AnnounceInv, OneStage
  <2>4. ASSUME NEW h \in Hashes
        PROVE  /\ Backed(h, fetching[h])' /\ Backed(h, fetched[h])' /\ Backed(h, completing[h])'
               /\ \A i \in DOMAIN announced'[h] : Backed(h, announced[h][i])'
    BY <1>1, <1>2 DEF IInv, AnnounceInv, Backed
  <2> QED
    BY <2>1, <2>2, <2>3, <2>4, Zenon DEF AnnounceInv
<1>5. NodeInv'
  <2>1. Waiting' \subseteq Waiting /\ Incomplete' = {}
    BY <1>1, Zenon DEF Waiting, Incomplete
  <2>2. TimersSet'
    BY <1>1, <2>1, Zenon DEF IInv, NodeInv, TimersSet
  <2> QED
    BY <1>1, <2>2, Zenon DEF IInv, NodeInv, DropsJustified, env
<1> QED
  BY <1>2, <1>4, <1>5, Zenon DEF IInv

\* The filter of blocks.
LEMMA FilterBlockIInv ==
    ASSUME IInv, NEW h \in Hashes, FilterBlock(h)
    PROVE  IInv'
<1>1. loop' = "top" /\ UNCHANGED <<timers, imports, chain, dropped, env>> /\ guilty' = guilty
  BY Zenon DEF FilterBlock, Selected, env
<1>2. /\ AnnounceInv' /\ QueueInv' /\ Waiting' \subseteq Waiting /\ Incomplete' \subseteq Incomplete
  <2>1. CASE UNCHANGED <<announceVars, queueVars>>
    BY <1>1, <2>1, AnnouncesLeft, QueueLeft, Zenon DEF IInv
  <2>2. CASE ForgetHashes({h}) /\ UNCHANGED queueVars
    BY <1>1, <2>2, ForgetHashesKeeps, QueueLeft, Zenon DEF IInv
  <2>3. CASE fetching[h] # None /\ Enqueue(fetching[h].origin, h)
    <3>1. fetching[h].origin \in Peers /\ (h \in Invalid => fetching[h].origin \in guilty')
      BY <1>1, <2>3, Zenon DEF IInv, AnnounceInv, Announces, Backed
    <3> QED
      BY <1>1, <2>3, <3>1, EnqueueKeeps, Zenon DEF IInv
  <2> QED
    BY <2>1, <2>2, <2>3, Zenon DEF FilterBlock
<1>3. NodeInv'
  BY <1>1, <1>2, NodeLeft, Zenon DEF IInv
<1> QED
  BY <1>2, <1>3, Zenon DEF IInv

\* The filter of headers: the announcer of a header with another number is dropped,
\* an empty block is queued, any other waits for its body.
LEMMA FilterHeaderIInv ==
    ASSUME IInv, NEW h \in Hashes, FilterHeader(h)
    PROVE  IInv'
<1> DEFINE a == fetching[h]
           mine == a # None /\ fetched[h] = None /\ completing[h] = None /\ queued[h] = None
<1>1. /\ loop' = "top" /\ UNCHANGED <<fetchTimer, imports, chain, env>> /\ guilty' = guilty
  BY Zenon DEF FilterHeader, Selected, env
<1>2. a # None => a \in Announces /\ a.origin \in Peers /\ Backed(h, a) /\ announced[h] = <<>>
  BY Zenon DEF IInv, AnnounceInv, OneStage, Announces
<1>3. CASE /\ UNCHANGED <<announceVars, queueVars, completeTimer, dropped>>
  <2>1. AnnounceInv' /\ QueueInv' /\ Waiting' = Waiting /\ Incomplete' = Incomplete
    BY <1>1, <1>3, AnnouncesLeft, QueueLeft, Zenon DEF IInv
  <2>2. NodeInv'
    BY <1>1, <1>3, <2>1, NodeLeft, Zenon DEF IInv, timers
  <2> QED
    BY <2>1, <2>2, Zenon DEF IInv
<1>4. CASE /\ mine /\ Mismatch(h, a)
           /\ dropped' = dropped \cup {a.origin}
           /\ ForgetHashes({h})
           /\ UNCHANGED <<queueVars, completeTimer>>
  <2>1. /\ AnnounceInv' /\ QueueInv' /\ Waiting' \subseteq Waiting /\ Incomplete' \subseteq Incomplete
    BY <1>1, <1>4, ForgetHashesKeeps, QueueLeft, Zenon DEF IInv
  <2>2. a.origin \in guilty \cup Peers61
    BY <1>2, <1>4, Zenon DEF Mismatch, Backed
  <2>3. NodeInv'
    BY <1>1, <1>2, <1>4, <2>1, <2>2, Zenon DEF IInv, NodeInv, TimersSet, DropsJustified, env
  <2> QED
    BY <2>1, <2>3, Zenon DEF IInv
<1>5. CASE /\ mine /\ ForgetHashes({h})
           /\ UNCHANGED <<queueVars, completeTimer, dropped>>
  <2>1. /\ AnnounceInv' /\ QueueInv' /\ Waiting' \subseteq Waiting /\ Incomplete' \subseteq Incomplete
    BY <1>1, <1>5, ForgetHashesKeeps, QueueLeft, Zenon DEF IInv
  <2>2. NodeInv'
    BY <1>1, <1>5, <2>1, NodeLeft, Zenon DEF IInv, timers
  <2> QED
    BY <2>1, <2>2, Zenon DEF IInv
<1>6. CASE /\ mine
           /\ fetched' = [fetched EXCEPT ![h] = a]
           /\ completeTimer' = (completeTimer \/ Incomplete = {})
           /\ UNCHANGED <<announces, announced, fetching, completing, queueVars, dropped>>
  <2>1. QueueInv'
    BY <1>1, <1>6, QueueLeft, Zenon DEF IInv
  <2>2. AnnounceInv'
    <3>1. \A k \in Hashes : fetched'[k] = IF k = h THEN a ELSE fetched[k]
      BY <1>6, Zenon DEF IInv, AnnounceInv
    <3>2. fetched' \in [Hashes -> Announces \cup {None}]
      BY <1>2, <1>6, Zenon DEF IInv, AnnounceInv
    <3>3. OneStage'
      BY <1>2, <1>6, <3>1, Zenon DEF IInv, AnnounceInv, OneStage
    <3>4. ASSUME NEW k \in Hashes
          PROVE  /\ Backed(k, fetching[k])' /\ Backed(k, fetched[k])' /\ Backed(k, completing[k])'
                 /\ \A i \in DOMAIN announced'[k] : Backed(k, announced[k][i])'
      BY <1>1, <1>6, <3>1, Zenon DEF IInv, AnnounceInv, Backed
    <3> QED
      BY <1>6, <3>2, <3>3, <3>4, Zenon DEF IInv, AnnounceInv
  <2>3. NodeInv'
    <3>1. Waiting' = Waiting
      BY <1>6, Zenon DEF Waiting
    <3>2. (completeTimer \/ Incomplete = {}) /\ completeTimer'
      BY <1>6, ZenonT(30) DEF IInv, NodeInv, TimersSet
    <3> QED
      BY <1>1, <1>6, <3>1, <3>2, Zenon DEF IInv, NodeInv, TimersSet, DropsJustified, env
  <2> QED
    BY <2>1, <2>2, <2>3, Zenon DEF IInv
<1>7. CASE /\ mine /\ Refused(a.origin, h)
           /\ announces' = [p \in Peers |-> announces[p] - Traces(p, {h}) - (IF From(a, p) THEN 1 ELSE 0)]
           /\ announced' = [announced EXCEPT ![h] = <<>>]
           /\ fetching' = [fetching EXCEPT ![h] = None]
           /\ UNCHANGED <<fetched, completing, queueVars, completeTimer, dropped>>
  <2>1. QueueInv'
    BY <1>1, <1>7, QueueLeft, Zenon DEF IInv
  <2>2. /\ announced' = announced
        /\ \A k \in Hashes : fetching'[k] = IF k = h THEN None ELSE fetching[k]
    BY <1>2, <1>7, Zenon DEF IInv, AnnounceInv
  <2>3. AnnounceInv'
    <3>1. announces' \in [Peers -> Int]
      <4>1. ASSUME NEW p \in Peers
            PROVE  announces[p] - Traces(p, {h}) - (IF From(a, p) THEN 1 ELSE 0) \in Int
        <5>1. Traces(p, {h}) \in Nat /\ announces[p] \in Int
          BY TracesType, Zenon DEF IInv, AnnounceInv
        <5>2. (IF From(a, p) THEN 1 ELSE 0) \in Nat
          BY SMTT(30)
        <5> HIDE DEF a
        <5> QED
          BY <5>1, <5>2
      <4> QED
        BY <1>7, <4>1, Zenon
    <3>2. fetching' \in [Hashes -> Announces \cup {None}]
      BY <1>7, Zenon DEF IInv, AnnounceInv
    <3>3. OneStage'
      BY <1>7, <2>2, ZenonT(30) DEF IInv, AnnounceInv, OneStage
    <3>4. ASSUME NEW k \in Hashes
          PROVE  /\ Backed(k, fetching[k])' /\ Backed(k, fetched[k])' /\ Backed(k, completing[k])'
                 /\ \A i \in DOMAIN announced'[k] : Backed(k, announced[k][i])'
      BY <1>1, <1>7, <2>2, ZenonT(30) DEF IInv, AnnounceInv, Backed
    <3> QED
      BY <1>7, <2>2, <3>1, <3>2, <3>3, <3>4, ZenonT(30) DEF IInv, AnnounceInv
  <2>4. NodeInv'
    <3>1. Waiting' = Waiting /\ Incomplete' = Incomplete
      BY <1>7, <2>2, ZenonT(30) DEF Waiting, Incomplete
    <3> QED
      BY <1>1, <1>7, <3>1, NodeLeft, ZenonT(30) DEF IInv, timers
  <2> QED
    BY <2>1, <2>3, <2>4, Zenon DEF IInv
<1>8. CASE /\ mine /\ ~Refused(a.origin, h)
           /\ completing' = [completing EXCEPT ![h] = a]
           /\ Schedule(a.origin, h)
           /\ UNCHANGED <<announces, announced, fetching, fetched, completeTimer, dropped>>
  <2>1. QueueInv'
    BY <1>1, <1>2, <1>8, ScheduleKeeps, Zenon DEF IInv, Backed
  <2>2. \A k \in Hashes : completing'[k] = IF k = h THEN a ELSE completing[k]
    BY <1>8, Zenon DEF IInv, AnnounceInv
  <2>3. AnnounceInv'
    <3>1. completing' \in [Hashes -> Announces \cup {None}]
      BY <1>2, <1>8, Zenon DEF IInv, AnnounceInv
    <3>2. OneStage'
      BY <1>2, <1>8, <2>2, ZenonT(30) DEF IInv, AnnounceInv, OneStage
    <3>3. ASSUME NEW k \in Hashes
          PROVE  /\ Backed(k, fetching[k])' /\ Backed(k, fetched[k])' /\ Backed(k, completing[k])'
                 /\ \A i \in DOMAIN announced'[k] : Backed(k, announced[k][i])'
      BY <1>1, <1>8, <2>2, Zenon DEF IInv, AnnounceInv, Backed
    <3> QED
      BY <1>8, <3>1, <3>2, <3>3, ZenonT(30) DEF IInv, AnnounceInv
  <2>4. NodeInv'
    <3>1. Waiting' = Waiting /\ Incomplete' = Incomplete
      BY <1>8, Zenon DEF Waiting, Incomplete
    <3> QED
      BY <1>1, <1>8, <3>1, NodeLeft, Zenon DEF IInv, timers
  <2> QED
    BY <2>1, <2>3, <2>4, Zenon DEF IInv
<1> QED
  BY <1>3, <1>4, <1>5, <1>6, <1>7, <1>8, Zenon DEF FilterHeader

\* The filter of bodies: the blocks a peer's limit leaves room for are queued, the
\* others with this body forgotten.
LEMMA FilterBodyIInv ==
    ASSUME IInv, NEW body, FilterBody(body)
    PROVE  IInv'
<1> DEFINE origin(h) == completing[h].origin
           of(p, S) == {h \in S : origin(h) = p}
<1>1. PICK matched \in SUBSET Hashes, taken \in SUBSET Hashes :
        /\ taken \subseteq matched
        /\ \A h \in matched : completing[h] # None /\ queued[h] = None
        /\ \A p \in Peers : queues[p] + Cardinality(of(p, taken)) <= BlockLimit
        /\ ForgetHashes(matched \ taken)
        /\ queues' = [p \in Peers |-> queues[p] + Cardinality(of(p, taken))]
        /\ queued' = [h \in Hashes |-> IF h \in taken THEN origin(h) ELSE queued[h]]
        /\ queue' = queue \cup taken
  <2> DEFINE m == {h \in Hashes : completing[h] # None /\ queued[h] = None /\ Body[h] = body}
             new == {h \in m \ chain : ~TooFar(Number[h])}
  <2>1. PICK taken \in SUBSET new :
          /\ \A p \in Peers : queues[p] + Cardinality(of(p, taken)) <= BlockLimit
          /\ ForgetHashes(m \ taken)
          /\ queues' = [p \in Peers |-> queues[p] + Cardinality(of(p, taken))]
          /\ queued' = [h \in Hashes |-> IF h \in taken THEN origin(h) ELSE queued[h]]
          /\ queue' = queue \cup taken
    BY Zenon DEF FilterBody
  <2>2. /\ m \in SUBSET Hashes /\ taken \in SUBSET Hashes /\ taken \subseteq m
        /\ \A h \in m : completing[h] # None /\ queued[h] = None
    BY Zenon
  <2> HIDE DEF m, of
  <2> QED
    BY <2>1, <2>2, Zenon
<1>2. loop' = "top" /\ UNCHANGED <<timers, imports, chain, dropped, env>> /\ guilty' = guilty
  BY Zenon DEF FilterBody, Selected, env
<1>3. /\ AnnounceInv' /\ Waiting' \subseteq Waiting /\ Incomplete' \subseteq Incomplete
  BY <1>1, <1>2, ForgetHashesKeeps, Zenon DEF IInv
<1>4. NodeInv'
  BY <1>2, <1>3, NodeLeft, Zenon DEF IInv
<1>5. \A h \in taken : origin(h) \in Peers /\ (h \in Invalid => origin(h) \in guilty) /\ h \in Hashes
  BY <1>1, Zenon DEF IInv, AnnounceInv, Announces, Backed
<1>6. queued' \in [Hashes -> Peers \cup {None}]
  BY <1>1, <1>5, Zenon DEF IInv, QueueInv
<1>7. QueuesExact' /\ queues' \in [Peers -> Nat]
  <2> SUFFICES ASSUME NEW p \in Peers
               PROVE  /\ queues'[p] \in Nat /\ queues'[p] <= BlockLimit
                      /\ queues'[p] = Cardinality({k \in Hashes : queued'[k] = p})
    BY <1>1, ZenonT(30) DEF QueuesExact
  <2> DEFINE old == {k \in Hashes : queued[k] = p}
             more == of(p, taken)
             now == {k \in Hashes : queued'[k] = p}
  <2>1. queues[p] = Cardinality(old) /\ IsFiniteSet(old) /\ IsFiniteSet(more)
    BY <1>1, FetcherAssumption, FS_Subset, Zenon DEF IInv, QueueInv, QueuesExact
  <2>2. old \cap more = {}
    BY <1>1, FetcherAssumption, Zenon
  <2>3. now = old \cup more
    BY <1>1, <1>5, FetcherAssumption, Zenon DEF IInv, QueueInv
  <2>4. queues'[p] = queues[p] + Cardinality(more) /\ queues[p] + Cardinality(more) <= BlockLimit
    BY <1>1, Zenon
  <2>5. Cardinality(now) = Cardinality(old) + Cardinality(more)
        /\ Cardinality(old) \in Nat /\ Cardinality(more) \in Nat
    <3> HIDE DEF old, more, now
    <3>1. Cardinality(old) \in Nat /\ Cardinality(more) \in Nat
      BY <2>1, FS_CardinalityType, Zenon
    <3>2. Cardinality(old \cup more) = Cardinality(old) + Cardinality(more) - Cardinality(old \cap more)
      BY <2>1, FS_Union, Zenon
    <3>3. Cardinality(old \cap more) = 0
      BY <2>2, FS_EmptySet, Zenon
    <3> QED
      BY <2>3, <3>1, <3>2, <3>3
  <2> HIDE DEF old, more
  <2>6. queues'[p] = Cardinality(now)
    <3> HIDE DEF now
    <3> QED
      BY <2>1, <2>4, <2>5, Zenon
  <2>7. queues'[p] \in Nat /\ queues'[p] <= BlockLimit
    <3> HIDE DEF now
    <3> QED
      BY <2>1, <2>4, <2>5, SMTT(30)
  <2> QED
    BY <2>6, <2>7, Zenon
<1>8. OneImport'
  <2> DEFINE running == {i[2] : i \in importing}
  <2>1. /\ {k \in Hashes : queued[k] # None} = queue \cup running \cup finished
        /\ queue \cap running = {} /\ queue \cap finished = {} /\ running \cap finished = {}
        /\ \A i \in importing : queued[i[2]] = i[1] /\ i[2] \in Hashes /\ i[2] \in running
    BY Zenon DEF IInv, QueueInv, OneImport
  <2>2. importing' = importing /\ finished' = finished
    BY <1>2, Zenon DEF imports
  <2> HIDE DEF running
  <2>3. \A k \in Hashes : queued'[k] # None <=> k \in taken \/ queued[k] # None
    BY <1>1, <1>5, FetcherAssumption, SMTT(30)
  <2>4. {k \in Hashes : queued'[k] # None} = queue' \cup running \cup finished
    BY <1>1, <1>5, <2>1, <2>3, Zenon
  <2>5. queue' \cap running = {} /\ queue' \cap finished = {}
    BY <1>1, <2>1, Zenon
  <2>6. \A i \in importing : queued'[i[2]] = i[1]
    BY <1>1, <2>1, Zenon
  <2> QED
    BY <2>1, <2>2, <2>4, <2>5, <2>6, Zenon DEF OneImport, running
<1>9. QueueInv'
  BY <1>1, <1>2, <1>5, <1>6, <1>7, <1>8, FetcherAssumption, Zenon DEF IInv, QueueInv, imports
<1> QED
  BY <1>3, <1>4, <1>9, Zenon DEF IInv

\* An import goroutine ends.
LEMMA InsertIInv ==
    ASSUME IInv, NEW p \in Peers, NEW h \in Hashes, Insert(p, h)
    PROVE  IInv'
<1>1. /\ <<p, h>> \in importing /\ importing' = importing \ {<<p, h>>}
      /\ finished' = finished \cup {h}
      /\ UNCHANGED <<loop, announceVars, timers, queueVars, env>> /\ guilty' = guilty
  BY Zenon DEF Insert, env
<1>2. AnnounceInv' /\ Waiting' = Waiting /\ Incomplete' = Incomplete
  BY <1>1, AnnouncesLeft, Zenon DEF IInv
<1>3. OneImport'
  <2> DEFINE running == {i[2] : i \in importing}
             now == {i[2] : i \in importing'}
  <2>1. /\ {k \in Hashes : queued[k] # None} = queue \cup running \cup finished
        /\ queue \cap running = {} /\ queue \cap finished = {} /\ running \cap finished = {}
        /\ \A i \in importing : queued[i[2]] = i[1] /\ i[2] \in Hashes /\ i = <<i[1], i[2]>>
    BY DEF IInv, QueueInv, OneImport
  <2>2. h \in running /\ h \notin now
    <3>1. <<p, h>>[2] = h /\ queued[h] = p
      BY <1>1, <2>1, Zenon
    <3>2. ASSUME NEW i \in importing' PROVE i[2] # h
      BY <1>1, <2>1, <3>1, Zenon
    <3> QED
      BY <1>1, <3>1, <3>2, Zenon
  <2>3. running = now \cup {h}
    <3>1. \A i \in importing : i \in importing' \/ i[2] = h
      BY <1>1
    <3>2. importing' \subseteq importing
      BY <1>1, Zenon
    <3>3. running \subseteq now \cup {h}
      BY <3>1, Zenon
    <3>4. now \subseteq running
      BY <3>2, Zenon
    <3> QED
      BY <2>2, <3>3, <3>4, Zenon
  <2>4. queue' = queue /\ queued' = queued /\ importing' \subseteq importing
    BY <1>1, Zenon DEF queueVars
  <2>5. \A i \in importing' : queued'[i[2]] = i[1]
    BY <2>1, <2>4, Zenon
  <2> HIDE DEF running, now
  <2>6. /\ {k \in Hashes : queued'[k] # None} = queue' \cup now \cup finished'
        /\ queue' \cap now = {} /\ queue' \cap finished' = {} /\ now \cap finished' = {}
    BY <1>1, <2>1, <2>2, <2>3, <2>4, SMTT(30)
  <2> QED
    BY <2>5, <2>6, Zenon DEF OneImport, now
<1>4. QueueInv'
  BY <1>1, <1>3, Zenon DEF IInv, QueueInv, QueuesExact, queueVars
<1>5. h \in Invalid => p \in guilty
  BY <1>1, FetcherAssumption, SMTT(30) DEF IInv, QueueInv, OneImport
<1>6. /\ chain' \subseteq Hashes \cup {Genesis} /\ dropped' \subseteq Peers /\ DropsJustified'
  BY <1>1, <1>5, Zenon DEF Insert, IInv, NodeInv, DropsJustified
<1>7. NodeInv'
  BY <1>1, <1>2, <1>6, Zenon DEF IInv, NodeInv, TimersSet, timers, env
<1> QED
  BY <1>2, <1>4, <1>7, Zenon DEF IInv

\* Every step keeps the invariant.
LEMMA NextIInv == IInv /\ [Next]_vars => IInv'
<1> SUFFICES ASSUME IInv, [Next]_vars PROVE IInv'
  BY Zenon
<1>1. ASSUME NEW h \in Hashes, Extend(h) PROVE IInv'
  <2>1. AnnounceInv' /\ QueueInv' /\ Waiting' = Waiting /\ Incomplete' = Incomplete
    BY <1>1, AnnouncesLeft, QueueLeft, Zenon DEF IInv, Extend, env
  <2>2. NodeInv'
    BY <1>1, <2>1, Zenon DEF Extend, IInv, NodeInv, TimersSet, DropsJustified, timers, env
  <2> QED
    BY <2>1, <2>2, Zenon DEF IInv
<1>2. ASSUME UNCHANGED <<announceVars, timers, queueVars, imports, chain, dropped, env>>,
             loop' \in {"top", "select"}
      PROVE IInv'
  <2>1. AnnounceInv' /\ QueueInv' /\ Waiting' = Waiting /\ Incomplete' = Incomplete
    BY <1>2, AnnouncesLeft, QueueLeft, Zenon DEF IInv, env
  <2>2. NodeInv'
    BY <1>2, <2>1, NodeLeft, Zenon DEF IInv
  <2> QED
    BY <2>1, <2>2, Zenon DEF IInv
<1>3. CASE Pass
  BY <1>2, <1>3, Zenon DEF Pass, Selected
<1>4. CASE UNCHANGED vars
  BY <1>2, <1>4, Zenon DEF vars, IInv, NodeInv
<1> QED
  BY <1>1, <1>3, <1>4, TopIInv, NotifyIInv, InjectIInv, DoneIInv, FetchIInv, CompleteIInv,
     FilterBlockIInv, FilterHeaderIInv, FilterBodyIInv, InsertIInv, Zenon DEF Next

-----------------------------------------------------------------------------
(* The theorems.                                                           *)

\* The invariant holds in every reachable state.
THEOREM Invariance == Spec => []IInv
  BY InitIInv, NextIInv, PTL DEF Spec

\* A block the fetcher has taken is in exactly one place, the queue, one import
\* goroutine or the channel done, whichever peers send it how often: enqueue, the
\* top of loop and insert never import a block twice at a time and lose none.
THEOREM OneImportAlways == Spec => []OneImport
<1>1. IInv => OneImport
  BY SMTT(30) DEF IInv, QueueInv
<1> QED
  BY <1>1, Invariance, PTL

\* The maps, the per-peer counts of blocks and the timers of the fetcher agree after
\* every event of its loop, and no peer exceeds blockLimit.
THEOREM BookkeepingAlways == Spec => []Bookkeeping
<1>1. IInv => Bookkeeping
  BY Zenon DEF IInv, AnnounceInv, QueueInv, NodeInv, Bookkeeping, TypeOK
<1> QED
  BY <1>1, Invariance, PTL

\* dropPeer hits an eth/62 peer only after it announced a wrong number or an invalid
\* block, whoever delivers the header and in whatever order.
THEOREM DropsJustifiedAlways == Spec => []DropsJustified
<1>1. IInv => DropsJustified
  BY Zenon DEF IInv, NodeInv
<1> QED
  BY <1>1, Invariance, PTL
=============================================================================
