------------------------ MODULE ResourceStoreProofs ------------------------
(***************************************************************************)
(* Theorems about ResourceStore: type correctness, that versions name one  *)
(* write, that a registered watch loses no event, and that it is told of a *)
(* change at most once (of a write in its snapshot at most twice), for     *)
(* every set of keys and watchers, every bound on versions and every size  *)
(* of the two queues.                                                      *)
(***************************************************************************)
EXTENDS ResourceStore, FiniteSetTheorems, TLAPS

-----------------------------------------------------------------------------
(* What one write appends to a queue is what its range gains.              *)
LEMMA RangeAppend ==
  ASSUME NEW S, NEW s \in Seq(S), NEW e \in S
  PROVE  Range(Append(s, e)) = Range(s) \union {e}
<1> DEFINE t == Append(s, e)
<1>1. DOMAIN t = 1..(Len(s) + 1) /\ DOMAIN s = 1..Len(s) /\ Len(s) \in Nat
  OBVIOUS
<1>2. t[Len(s) + 1] = e /\ \A i \in 1..Len(s) : t[i] = s[i]
  OBVIOUS
<1> HIDE DEF t
<1>3. Range(t) \subseteq Range(s) \union {e}
  <2>1. ASSUME NEW i \in DOMAIN t PROVE t[i] \in Range(s) \union {e}
    <3>1. i \in 1..Len(s) \/ i = Len(s) + 1
      BY <1>1
    <3>2. QED
      BY <1>1, <1>2, <3>1 DEF Range
  <2>2. QED
    BY <2>1 DEF Range
<1>4. e \in Range(t)
  <2>1. Len(s) + 1 \in DOMAIN t
    BY <1>1
  <2>2. QED
    BY <1>2, <2>1 DEF Range
<1>5. Range(s) \subseteq Range(t)
  <2>1. ASSUME NEW i \in 1..Len(s) PROVE i \in DOMAIN t /\ t[i] = s[i]
    BY <1>1, <1>2
  <2>2. QED
    BY <1>1, <2>1 DEF Range
<1>6. Range(t) = Range(s) \union {e}
  BY <1>3, <1>4, <1>5
<1>7. QED
  BY <1>6 DEF t

(* Taking the head of a queue takes at most that one event out of it.      *)
LEMMA RangeTail ==
  ASSUME NEW S, NEW s \in Seq(S), s # <<>>
  PROVE  /\ Tail(s) \in Seq(S) /\ Head(s) \in S
         /\ Range(s) = Range(Tail(s)) \union {Head(s)}
<1>1. Tail(s) \in Seq(S) /\ Head(s) \in S
  OBVIOUS
<1>2. Range(s) \subseteq Range(Tail(s)) \union {Head(s)}
  <2>1. SUFFICES ASSUME NEW i \in 1..Len(s)
                 PROVE  s[i] \in Range(Tail(s)) \union {Head(s)}
    BY DEF Range
  <2>2. CASE i = 1
    BY <2>2
  <2>3. CASE i # 1
    <3>1. /\ i-1 \in 1..Len(Tail(s)) /\ DOMAIN Tail(s) = 1..Len(Tail(s))
          /\ Tail(s)[i-1] = s[i]
      BY <2>3
    <3>2. QED BY <3>1 DEF Range
  <2>4. QED BY <2>2, <2>3
<1>3. Range(Tail(s)) \union {Head(s)} \subseteq Range(s)
  <2>1. Head(s) = s[1] /\ 1 \in 1..Len(s)
    OBVIOUS
  <2>2. \A i \in 1..Len(Tail(s)) : Tail(s)[i] = s[i+1] /\ i+1 \in 1..Len(s)
    OBVIOUS
  <2>3. QED BY <2>1, <2>2, <1>1 DEF Range
<1>4. QED BY <1>1, <1>2, <1>3

(* The pending events of a watch are finitely many events of live objects. *)
LEMMA PendingEvents ==
  ASSUME TypeOK, NEW w \in Watchers, NEW start \in 0..MaxVersion,
         \A k \in Keys : isLive(k) => cache[k].rv >= 1
  PROVE  /\ buildPendingWatchEvents(w, start) \subseteq Event
         /\ IsFiniteSet(buildPendingWatchEvents(w, start))
<1> DEFINE ev(k) == [type |-> "Added", key |-> k, rv |-> cache[k].rv]
           all == {ev(k) : k \in filterOutTombstones}
           f == [k \in filterOutTombstones |-> ev(k)]
<1>1. IsFiniteSet(filterOutTombstones)
  BY FS_Subset, StoreAssumption DEF filterOutTombstones
<1>2. f \in Surjection(filterOutTombstones, all)
  BY DEF Surjection
<1>3. IsFiniteSet(all)
  BY <1>1, <1>2, FS_Surjection
<1>4. buildPendingWatchEvents(w, start) \in SUBSET all
  BY DEF buildPendingWatchEvents
<1>5. all \subseteq Event
  <2>1. \A k \in Keys : isLive(k) => cache[k].rv \in 1..MaxVersion
    BY StoreAssumption DEF TypeOK, Entry
  <2>2. QED BY <2>1 DEF Event, filterOutTombstones
<1>6. QED BY <1>3, <1>4, <1>5, FS_Subset

(* An ordering has each element of its set once.                           *)
LEMMA OrderingOf ==
  ASSUME NEW S, IsFiniteSet(S), NEW q \in Orderings(S)
  PROVE  /\ q \in Seq(S) /\ Range(q) = S
         /\ \A i, j \in DOMAIN q : q[i] = q[j] => i = j
<1>1. /\ q \in [1..Cardinality(S) -> S]
      /\ \A t \in S : \E i \in 1..Cardinality(S) : q[i] = t
      /\ \A i, j \in DOMAIN q : q[i] = q[j] => i = j
  BY DEF Orderings, Bijection, Injection, Surjection, IsInjective
<1>2. Cardinality(S) \in Nat
  BY FS_CardinalityType
<1>3. q \in Seq(S)
  BY <1>1, <1>2
<1>4. Range(q) = S
  BY <1>1 DEF Range
<1>5. QED BY <1>1, <1>3, <1>4

(* An event is about one change.                                           *)
LEMMA ChangeOf == \A e \in Event : change(e) \in Changes
BY DEF change, Changes, Event
-----------------------------------------------------------------------------
(* What else holds of a Watch call in each phase.                          *)
WatchInv ==
  \A w \in Watchers :
    /\ IsFiniteSet(watch[w].prefix)
    /\ watch[w].pc \in {"idle", "snapshot", "registering"} =>
         watch[w].owed = {} /\ ~watch[w].registered /\ ~watch[w].stop
    /\ watch[w].pc \in {"selecting", "callback"} => ~watch[w].stop
    /\ watch[w].held \in (IF watch[w].pc = "callback" THEN Event ELSE {NoEvent})

(* What holds of the broadcaster's loop and of the function waiting for it.*)
LoopInv ==
  /\ dist.todo # {} => dist.ev \in Event
  /\ stopped => block = NoFn /\ \A w \in Watchers : ~watch[w].registered
  /\ \A w \in Watchers : block = [fn |-> "register", w |-> w] => watch[w].pc = "registering"

(* A live object has a version.                                            *)
LiveInv == \A k \in Keys : isLive(k) => cache[k].rv >= 1

(* The inductive invariant.                                                *)
StoreInv == TypeOK /\ WatchInv /\ LoopInv /\ LiveInv /\ NoEventLost

LEMMA InitStoreInv == Init => StoreInv
<1> SUFFICES ASSUME Init PROVE StoreInv
  OBVIOUS
<1> USE DEF Init, handing
<1>1. TypeOK
  <2>1. NoWatch \in WatchState
    BY StoreAssumption DEF NoWatch, WatchState, Phase
  <2>2. Absent \in Entry
    BY StoreAssumption DEF Entry, Absent
  <2>3. cache \in [Keys -> Entry] /\ watch \in [Watchers -> WatchState]
    BY <2>1, <2>2
  <2>4. dist \in [ev : Event \union {NoEvent}, todo : SUBSET Watchers]
    OBVIOUS
  <2>5. versionCounter \in 0..MaxVersion /\ incoming \in Seq(Event)
    BY StoreAssumption
  <2>6. QED BY <2>3, <2>4, <2>5 DEF TypeOK
<1>2. WatchInv
  BY FS_EmptySet DEF WatchInv, NoWatch
<1>3. LoopInv
  BY DEF LoopInv, NoFn, NoWatch
<1>4. LiveInv
  BY DEF LiveInv, isLive, Absent
<1>5. NoEventLost
  BY DEF NoEventLost, watching, NoWatch
<1>6. QED BY <1>1, <1>2, <1>3, <1>4, <1>5 DEF StoreInv

(* Spawning broadcasts keeps the parts of the invariant about watches: the *)
(* new events are owed to every registered watch and are in actions.       *)
LEMMA Spawn ==
  ASSUME StoreInv, NEW events \in SUBSET Event, spawn(events), UNCHANGED broadcasterVars
  PROVE  /\ WatchInv' /\ LoopInv' /\ NoEventLost'
         /\ actions' \subseteq Event
         /\ watch' \in [Watchers -> WatchState]
<1> USE DEF StoreInv, spawn
<1>1. \A w \in Watchers :
        /\ watch'[w].pc = watch[w].pc /\ watch'[w].prefix = watch[w].prefix
        /\ watch'[w].stop = watch[w].stop /\ watch'[w].held = watch[w].held
        /\ watch'[w].registered = watch[w].registered /\ watch'[w].start = watch[w].start
        /\ watch'[w].result = watch[w].result
        /\ watch'[w].owed = IF watch[w].registered THEN watch[w].owed \union events
                                                   ELSE watch[w].owed
  BY DEF TypeOK, WatchState
<1>2. WatchInv'
  BY <1>1 DEF WatchInv
<1>3. LoopInv'
  BY <1>1 DEF LoopInv, broadcasterVars
<1>4. NoEventLost'
  BY <1>1 DEF NoEventLost, EventsOf, watching, shouldSkipObject, broadcasterVars
<1>5. actions' \subseteq Event
  BY DEF TypeOK
<1>6. watch' \in [Watchers -> WatchState]
  <2>1. ASSUME NEW w \in Watchers
        PROVE  [watch[w] EXCEPT !.owed = @ \union events] \in WatchState
    BY DEF TypeOK, WatchState
  <2>2. QED BY <2>1 DEF TypeOK
<1>7. QED BY <1>2, <1>3, <1>4, <1>5, <1>6
(* Every operation on the cache keeps the invariant.                       *)
LEMMA OperationsStep ==
  ASSUME StoreInv, Operations
  PROVE  StoreInv'
<1> USE StoreAssumption
<1>t. TypeOK /\ WatchInv /\ LoopInv /\ LiveInv /\ NoEventLost
  BY DEF StoreInv
<1>a. ASSUME NEW k \in Keys, NEW events \in SUBSET Event, spawn(events),
             versionCounter < MaxVersion, versionCounter' = versionCounter + 1,
             cache' = [cache EXCEPT ![k] = Live(versionCounter + 1)],
             UNCHANGED <<mu, broadcasterVars>>
      PROVE  StoreInv'
  <2>1. cache' \in [Keys -> Entry] /\ versionCounter' \in 0..MaxVersion
    BY <1>a, <1>t DEF TypeOK, Entry, Live
  <2>2. LiveInv'
    BY <1>a, <1>t DEF LiveInv, isLive, Live, TypeOK
  <2>3. TypeOK'
    BY <1>a, <1>t, <2>1, Spawn DEF TypeOK, broadcasterVars
  <2>4. QED BY <1>a, <2>2, <2>3, Spawn DEF StoreInv
<1>1. ASSUME NEW k \in Keys, NEW nb \in NoBroadcastOpts, Add(k, nb)
      PROVE  StoreInv'
  <2>1. [type |-> "Added", key |-> k, rv |-> versionCounter + 1] \in Event
    BY <1>1, <1>t DEF Add, Event, TypeOK
  <2>2. QED BY <1>1, <1>a, <2>1 DEF Add
<1>2. ASSUME NEW k \in Keys, NEW nb \in NoBroadcastOpts, Update(k, nb)
      PROVE  StoreInv'
  <2>1. [type |-> "Modified", key |-> k, rv |-> versionCounter + 1] \in Event
    BY <1>2, <1>t DEF Update, Event, TypeOK
  <2>2. QED BY <1>2, <1>a, <2>1 DEF Update
<1>b. ASSUME NEW ks \in SUBSET Keys, NEW mark \in BOOLEAN, \A k \in ks : isLive(k),
             cache' = [k \in Keys |-> IF k \in ks THEN removed(mark) ELSE cache[k]],
             spawn(deletedEvents(ks)), UNCHANGED <<versionCounter, mu, broadcasterVars>>
      PROVE  StoreInv'
  <2>1. deletedEvents(ks) \in SUBSET Event
    <3>1. \A k \in ks : cache[k].rv \in 1..MaxVersion
      BY <1>b, <1>t DEF LiveInv, TypeOK, Entry
    <3>2. QED BY <3>1 DEF deletedEvents, Event
  <2>2. removed(mark) \in Entry /\ removed(mark).state # "live"
    BY DEF removed, Tombstone, Absent, Entry
  <2>3. cache' \in [Keys -> Entry]
    BY <1>b, <1>t, <2>2 DEF TypeOK
  <2>4. LiveInv'
    BY <1>b, <1>t, <2>2 DEF LiveInv, isLive, TypeOK
  <2>5. TypeOK'
    BY <1>b, <1>t, <2>1, <2>3, Spawn DEF TypeOK, broadcasterVars
  <2>6. QED BY <1>b, <2>1, <2>4, <2>5, Spawn DEF StoreInv
<1>3. ASSUME NEW k \in Keys, NEW mark \in BOOLEAN, Delete(k, mark)
      PROVE  StoreInv'
  <2>1. isLive(k)
    BY <1>3 DEF Delete, GetByKey
  <2>2. cache' = [j \in Keys |-> IF j \in {k} THEN removed(mark) ELSE cache[j]]
    BY <1>3, <1>t DEF Delete, TypeOK
  <2>3. QED BY <1>3, <1>b, <2>1, <2>2 DEF Delete
<1>4. ASSUME NEW match \in SUBSET Keys, NEW mark \in BOOLEAN, DeleteObjects(match, mark)
      PROVE  StoreInv'
  <2>1. match \intersect filterOutTombstones \in SUBSET Keys
        /\ \A k \in match \intersect filterOutTombstones : isLive(k)
    BY DEF filterOutTombstones
  <2>2. QED BY <1>4, <1>b, <2>1 DEF DeleteObjects
<1>c. ASSUME cache' = [k \in Keys |-> Absent], mu' \in {"free", "Close"},
             UNCHANGED <<versionCounter, actions, broadcasterVars, watch>>
      PROVE  StoreInv'
  <2>1. cache' \in [Keys -> Entry]
    BY <1>c DEF Entry, Absent
  <2>2. LiveInv'
    BY <1>c DEF LiveInv, isLive, Absent
  <2>3. TypeOK'
    BY <1>c, <1>t, <2>1 DEF TypeOK, broadcasterVars
  <2>4. WatchInv' /\ LoopInv'
    BY <1>c, <1>t DEF WatchInv, LoopInv, broadcasterVars
  <2>5. NoEventLost'
    BY <1>c, <1>t DEF NoEventLost, EventsOf, watching, shouldSkipObject, broadcasterVars
  <2>6. QED BY <2>2, <2>3, <2>4, <2>5 DEF StoreInv
<1>5. ASSUME Reset PROVE StoreInv'
  BY <1>5, <1>c DEF Reset
<1>6. ASSUME Close PROVE StoreInv'
  BY <1>6, <1>c DEF Close
<1>7. QED BY <1>1, <1>2, <1>3, <1>4, <1>5, <1>6 DEF Operations
(* A Watch call that has returned has nothing left.                        *)
LEMMA ReturnedState ==
  /\ Returned \in WatchState /\ Returned.pc = "returned" /\ IsFiniteSet(Returned.prefix)
  /\ ~Returned.registered
  /\ Returned.held \in (IF Returned.pc = "callback" THEN Event ELSE {NoEvent})
<1>1. NoWatch \in WatchState
  BY StoreAssumption DEF NoWatch, WatchState, Phase
<1>2. Returned \in WatchState /\ Returned.pc = "returned"
  BY <1>1 DEF Returned, WatchState, Phase
<1>3. Returned.prefix = {} /\ ~Returned.registered /\ Returned.held = NoEvent
  BY DEF Returned, NoWatch
<1>4. QED BY <1>2, <1>3, FS_EmptySet

(* A step of one Watch call: what its new state r has to satisfy.          *)
LEMMA WatchStep ==
  ASSUME StoreInv, NEW w \in Watchers, NEW r \in WatchState,
         watch' = [watch EXCEPT ![w] = r], UNCHANGED <<storeVars, incoming, dist, stopped>>,
         block' \in Fn \union {NoFn},
         IsFiniteSet(r.prefix),
         r.pc \in {"idle", "snapshot", "registering"} =>
           r.owed = {} /\ ~r.registered /\ ~r.stop,
         r.pc \in {"selecting", "callback"} => ~r.stop,
         r.held \in (IF r.pc = "callback" THEN Event ELSE {NoEvent}),
         stopped => block' = NoFn /\ ~r.registered,
         block' = block \/ block' = NoFn \/ block' = [fn |-> "unregister", w |-> w]
           \/ (block' = [fn |-> "register", w |-> w] /\ r.pc = "registering"),
         block = [fn |-> "register", w |-> w] => block' = NoFn,
         r.registered /\ r.pc \in {"selecting", "callback"} =>
           \A e \in r.owed :
             \/ e \in actions \/ e \in Range(incoming) \/ (w \in dist.todo /\ e = dist.ev)
             \/ e \in Range(r.result) \/ e = r.held \/ shouldSkipObject(w, r.start, e)
  PROVE  StoreInv'
<1> USE StoreAssumption
<1>t. TypeOK /\ WatchInv /\ LoopInv /\ LiveInv /\ NoEventLost
  BY DEF StoreInv
<1>1. watch'[w] = r /\ \A v \in Watchers : v # w => watch'[v] = watch[v]
  BY <1>t DEF TypeOK
<1>2. TypeOK'
  BY <1>t DEF TypeOK, storeVars
<1>3. WatchInv'
  BY <1>t, <1>1 DEF WatchInv
<1>4. LoopInv'
  <2>1. dist'.todo # {} => dist'.ev \in Event
    BY <1>t DEF LoopInv
  <2>2. stopped' => block' = NoFn /\ \A v \in Watchers : ~watch'[v].registered
    BY <1>t, <1>1 DEF LoopInv
  <2>3. ASSUME NEW v \in Watchers, block' = [fn |-> "register", w |-> v]
        PROVE  watch'[v].pc = "registering"
    <3>1. block' # NoFn /\ block' # [fn |-> "unregister", w |-> w]
      BY <2>3 DEF NoFn
    <3>2. CASE block' = block
      <4>1. v # w
        BY <2>3, <3>1, <3>2
      <4>2. QED BY <2>3, <3>2, <4>1, <1>t, <1>1 DEF LoopInv
    <3>3. CASE block' = [fn |-> "register", w |-> w] /\ r.pc = "registering"
      <4>1. v = w
        BY <2>3, <3>3
      <4>2. QED BY <4>1, <3>3, <1>1
    <3>4. QED BY <3>1, <3>2, <3>3
  <2>4. QED BY <2>1, <2>2, <2>3 DEF LoopInv
<1>5. LiveInv'
  BY <1>t DEF LiveInv, isLive, storeVars
<1>6. NoEventLost'
  BY <1>t, <1>1 DEF NoEventLost, watching, EventsOf, shouldSkipObject, storeVars
<1>7. QED BY <1>2, <1>3, <1>4, <1>5, <1>6 DEF StoreInv

(* So does every step of the broadcaster.                                  *)
LEMMA BroadcasterStep ==
  ASSUME StoreInv, BroadcasterSteps
  PROVE  StoreInv'
<1> USE StoreAssumption
<1>t. TypeOK /\ WatchInv /\ LoopInv /\ LiveInv /\ NoEventLost
  BY DEF StoreInv
<1>l. UNCHANGED cache => LiveInv'
  BY <1>t DEF LiveInv, isLive
<1>1. ASSUME NEW e \in actions, BroadcastAction(e) PROVE StoreInv'
  <2>1. /\ incoming' \in Seq(Event) /\ actions' \subseteq Event
        /\ ~stopped => Range(incoming') = Range(incoming) \union {e}
    <3>1. e \in Event /\ incoming \in Seq(Event) /\ actions' \subseteq Event
      BY <1>1, <1>t DEF BroadcastAction, TypeOK
    <3>2. Append(incoming, e) \in Seq(Event)
      BY <3>1
    <3>3. Range(Append(incoming, e)) = Range(incoming) \union {e}
      BY <3>1, RangeAppend
    <3>4. \/ stopped /\ incoming' = incoming
          \/ incoming' = Append(incoming, e)
      BY <1>1 DEF BroadcastAction
    <3>5. QED BY <3>1, <3>2, <3>3, <3>4
  <2>2. TypeOK'
    BY <1>1, <1>t, <2>1 DEF BroadcastAction, TypeOK
  <2>3. WatchInv' /\ LoopInv'
    BY <1>1, <1>t DEF BroadcastAction, WatchInv, LoopInv
  <2>4. NoEventLost'
    <3>1. CASE stopped
      BY <1>1, <1>t, <3>1 DEF BroadcastAction, LoopInv, NoEventLost, watching
    <3>2. CASE ~stopped
      BY <1>1, <1>t, <2>1, <3>2
         DEF BroadcastAction, NoEventLost, watching, EventsOf, shouldSkipObject
    <3>3. QED BY <3>1, <3>2
  <2>5. QED BY <1>1, <1>l, <2>2, <2>3, <2>4 DEF BroadcastAction, StoreInv
<1>2. ASSUME LoopTake PROVE StoreInv'
  <2>1. /\ incoming' \in Seq(Event) /\ Head(incoming) \in Event
        /\ Range(incoming) = Range(incoming') \union {Head(incoming)}
    BY <1>2, <1>t, RangeTail DEF LoopTake, TypeOK
  <2>2. /\ dist' \in [ev : Event \union {NoEvent}, todo : SUBSET Watchers]
        /\ dist'.todo = registeredWatchers
        /\ dist'.todo # {} => dist'.ev = Head(incoming)
    BY <1>2, <2>1 DEF LoopTake, handing, registeredWatchers
  <2>3. TypeOK'
    BY <1>2, <1>t, <2>1, <2>2 DEF LoopTake, TypeOK
  <2>4. WatchInv' /\ LoopInv'
    BY <1>2, <1>t, <2>1, <2>2 DEF LoopTake, WatchInv, LoopInv
  <2>5. NoEventLost'
    BY <1>2, <1>t, <2>1, <2>2
       DEF LoopTake, loopIdle, NoEventLost, watching, EventsOf, shouldSkipObject,
           registeredWatchers
  <2>6. QED BY <1>2, <1>l, <2>3, <2>4, <2>5 DEF LoopTake, StoreInv
<1>3. ASSUME NEW w \in Watchers, LoopSend(w) PROVE StoreInv'
  <2>1. dist.ev \in Event /\ dist.todo \in SUBSET Watchers
    BY <1>3, <1>t DEF LoopSend, LoopInv, TypeOK
  <2>2. /\ dist' \in [ev : Event \union {NoEvent}, todo : SUBSET Watchers]
        /\ dist'.todo = dist.todo \ {w}
        /\ dist'.todo # {} => dist'.ev = dist.ev
    BY <1>3, <2>1 DEF LoopSend, handing
  <2>3. CASE UNCHANGED watch /\ watch[w].stop
    <3>1. TypeOK'
      BY <1>3, <1>t, <2>2, <2>3 DEF LoopSend, TypeOK
    <3>2. WatchInv' /\ LoopInv'
      BY <1>3, <1>t, <2>1, <2>2, <2>3 DEF LoopSend, WatchInv, LoopInv
    <3>3. NoEventLost'
      BY <1>3, <1>t, <2>2, <2>3
         DEF LoopSend, NoEventLost, watching, EventsOf, shouldSkipObject, WatchInv
    <3>4. QED BY <1>3, <1>l, <3>1, <3>2, <3>3 DEF LoopSend, StoreInv
  <2>4. CASE watch' = [watch EXCEPT ![w].result = Append(@, dist.ev)]
    <3>1. watch[w] \in WatchState /\ watch[w].result \in Seq(Event)
      BY <1>t DEF TypeOK, WatchState
    <3>2. Append(watch[w].result, dist.ev) \in Seq(Event)
      BY <2>1, <3>1
    <3> DEFINE r == [watch[w] EXCEPT !.result = Append(watch[w].result, dist.ev)]
    <3>3. watch' \in [Watchers -> WatchState]
      <4>1. r \in WatchState
        BY <3>1, <3>2 DEF WatchState
      <4>2. watch' = [watch EXCEPT ![w] = r]
        BY <2>4
      <4> HIDE DEF r
      <4>3. QED BY <4>1, <4>2, <1>t DEF TypeOK
    <3>4. \A v \in Watchers :
            /\ watch'[v].pc = watch[v].pc /\ watch'[v].prefix = watch[v].prefix
            /\ watch'[v].stop = watch[v].stop /\ watch'[v].held = watch[v].held
            /\ watch'[v].registered = watch[v].registered /\ watch'[v].start = watch[v].start
            /\ watch'[v].owed = watch[v].owed
            /\ v # w => watch'[v].result = watch[v].result
      BY <2>4, <3>1, <1>t DEF TypeOK, WatchState
    <3>5. Range(watch'[w].result) = Range(watch[w].result) \union {dist.ev}
      BY <2>1, <2>4, <3>1, <1>t, RangeAppend DEF TypeOK, WatchState
    <3>6. TypeOK'
      BY <1>3, <1>t, <2>2, <3>3 DEF LoopSend, TypeOK
    <3>7. WatchInv' /\ LoopInv'
      <4>1. WatchInv'
        BY <1>t, <3>4 DEF WatchInv
      <4>2. LoopInv'
        BY <1>3, <1>t, <2>1, <2>2, <3>4 DEF LoopSend, LoopInv
      <4>3. QED BY <4>1, <4>2
    <3>8. NoEventLost'
      BY <1>3, <1>t, <2>2, <3>4, <3>5
         DEF LoopSend, NoEventLost, watching, EventsOf, shouldSkipObject
    <3>9. QED BY <1>3, <1>l, <3>6, <3>7, <3>8 DEF LoopSend, StoreInv
  <2>5. QED BY <1>3, <2>3, <2>4 DEF LoopSend
<1>4. ASSUME Shutdown PROVE StoreInv'
  <2>1. TypeOK'
    BY <1>4, <1>t DEF Shutdown, BlockQueue, TypeOK, Fn
  <2>2. WatchInv' /\ LoopInv'
    BY <1>4, <1>t DEF Shutdown, BlockQueue, WatchInv, LoopInv
  <2>3. NoEventLost'
    BY <1>4, <1>t DEF Shutdown, NoEventLost, watching, EventsOf, shouldSkipObject
  <2>4. QED BY <1>4, <1>l, <2>1, <2>2, <2>3 DEF Shutdown, StoreInv
<1>5. ASSUME LoopShutdown PROVE StoreInv'
  <2>1. \A w \in Watchers :
          /\ [watch[w] EXCEPT !.registered = FALSE] \in WatchState
          /\ watch'[w] = IF watch[w].registered THEN [watch[w] EXCEPT !.registered = FALSE]
                                                ELSE watch[w]
    <3>1. ASSUME NEW w \in Watchers
          PROVE  [watch[w] EXCEPT !.registered = FALSE] \in WatchState
      <4>1. watch[w] \in WatchState
        BY <1>t DEF TypeOK
      <4>2. QED BY <4>1 DEF WatchState
    <3>2. QED BY <1>5, <3>1 DEF LoopShutdown
  <2>2. watch' \in [Watchers -> WatchState]
    BY <1>5, <1>t, <2>1 DEF LoopShutdown, TypeOK
  <2>3. \A w \in Watchers :
          /\ watch'[w].pc = watch[w].pc /\ watch'[w].prefix = watch[w].prefix
          /\ watch'[w].stop = watch[w].stop /\ watch'[w].held = watch[w].held
          /\ watch'[w].owed = watch[w].owed /\ ~watch'[w].registered
    <3> SUFFICES ASSUME NEW w \in Watchers
                 PROVE  /\ watch'[w].pc = watch[w].pc /\ watch'[w].prefix = watch[w].prefix
                        /\ watch'[w].stop = watch[w].stop /\ watch'[w].held = watch[w].held
                        /\ watch'[w].owed = watch[w].owed /\ ~watch'[w].registered
      OBVIOUS
    <3>1. watch[w] \in WatchState
      BY <1>t DEF TypeOK
    <3>2. CASE watch[w].registered
      <4>1. watch'[w] = [watch[w] EXCEPT !.registered = FALSE]
        BY <2>1, <3>2
      <4>2. QED
        BY ONLY <3>1, <4>1 DEF WatchState
    <3>3. CASE ~watch[w].registered
      <4>1. watch'[w] = watch[w]
        BY <2>1, <3>3
      <4>2. QED
        BY <4>1, <3>3
    <3>4. QED
      BY <3>2, <3>3
  <2>4. TypeOK'
    BY <1>5, <1>t, <2>2 DEF LoopShutdown, LoopRuns, TypeOK
  <2>5. WatchInv' /\ NoEventLost'
    BY <1>t, <2>3 DEF WatchInv, NoEventLost, watching
  <2>6. LoopInv'
    BY <1>5, <1>t, <2>3 DEF LoopShutdown, LoopRuns, LoopInv, NoFn
  <2>7. QED BY <1>5, <1>l, <2>4, <2>5, <2>6 DEF LoopShutdown, StoreInv
<1>6. ASSUME NEW w \in Watchers, LoopRegister(w) PROVE StoreInv'
  <2>1. PICK queued \in Orderings(watch[w].prefix) :
          watch' = [watch EXCEPT ![w].pc = "selecting", ![w].registered = TRUE,
                                 ![w].result = queued, ![w].cap = capacity(queued)]
    BY <1>6 DEF LoopRegister
  <2> DEFINE r == [watch[w] EXCEPT !.pc = "selecting", !.registered = TRUE,
                                   !.result = queued, !.cap = capacity(queued)]
  <2>2. /\ watch[w] \in WatchState /\ IsFiniteSet(watch[w].prefix)
        /\ watch[w].prefix \subseteq Event
    BY <1>t DEF TypeOK, WatchInv, WatchState
  <2>3. queued \in Seq(Event)
    BY <2>1, <2>2, OrderingOf
  <2>4. capacity(queued) \in Nat
    BY <2>3 DEF capacity
  <2>5. r \in WatchState /\ watch' = [watch EXCEPT ![w] = r]
    BY <2>1, <2>2, <2>3, <2>4, <1>t DEF WatchState, Phase, TypeOK
  <2>6. watch[w].pc = "registering" /\ ~stopped
    BY <1>6, <1>t DEF LoopRegister, LoopRuns, LoopInv, NoFn
  <2>7. /\ r.pc = "selecting" /\ r.prefix = watch[w].prefix /\ ~r.stop /\ r.held = NoEvent
        /\ r.owed = {} /\ block' = NoFn
    BY <1>6, <1>t, <2>2, <2>6 DEF WatchInv, WatchState, LoopRegister, LoopRuns
  <2> HIDE DEF r
  <2>8. /\ IsFiniteSet(r.prefix) /\ r.held \in (IF r.pc = "callback" THEN Event ELSE {NoEvent})
        /\ UNCHANGED <<storeVars, incoming, dist, stopped>>
    BY <1>6, <2>2, <2>7 DEF LoopRegister
  <2>9. QED BY <2>5, <2>6, <2>7, <2>8, WatchStep
<1>7. ASSUME NEW w \in Watchers, LoopUnregister(w) PROVE StoreInv'
  <2>1. block' = NoFn /\ watch' = [watch EXCEPT ![w] = Returned]
        /\ UNCHANGED <<storeVars, incoming, dist, stopped>>
    BY <1>7 DEF LoopUnregister, LoopRuns
  <2>2. QED BY <2>1, ReturnedState, WatchStep
<1>8. QED BY <1>1, <1>2, <1>3, <1>4, <1>5, <1>6, <1>7 DEF BroadcasterSteps
(* And so does every step of a Watch call.                                 *)
LEMMA WatchStepsStep ==
  ASSUME StoreInv, WatchSteps
  PROVE  StoreInv'
<1> USE StoreAssumption
<1>t. TypeOK /\ WatchInv /\ LoopInv /\ LiveInv /\ NoEventLost
  BY DEF StoreInv
<1>w. PICK w \in Watchers :
        \/ \E start \in 0..MaxVersion : WatchBegin(w, start)
        \/ WatchRegister(w) \/ WatchReceive(w) \/ CallbackDelivers(w) \/ CallbackFails(w)
        \/ WatchClosed(w) \/ WatchTimeout(w) \/ WatchStop(w)
  BY DEF WatchSteps
<1>s. /\ watch[w] \in WatchState /\ IsFiniteSet(watch[w].prefix)
      /\ watch[w].pc \in {"idle", "snapshot", "registering"} =>
           watch[w].owed = {} /\ ~watch[w].registered /\ ~watch[w].stop
      /\ watch[w].pc \in {"selecting", "callback"} => ~watch[w].stop
      /\ watch[w].held \in (IF watch[w].pc = "callback" THEN Event ELSE {NoEvent})
      /\ stopped => block = NoFn /\ ~watch[w].registered
      /\ block = [fn |-> "register", w |-> w] => watch[w].pc = "registering"
      /\ block \in Fn \union {NoFn}
      /\ incoming \in Seq(Event)
  BY <1>t DEF TypeOK, WatchInv, LoopInv
<1>e. watch[w].registered /\ watch[w].pc \in {"selecting", "callback"} =>
        \A e \in watch[w].owed :
          \/ e \in actions \/ e \in Range(incoming) \/ (w \in dist.todo /\ e = dist.ev)
          \/ e \in Range(watch[w].result) \/ e = watch[w].held
          \/ shouldSkipObject(w, watch[w].start, e)
  BY <1>t DEF NoEventLost, watching, EventsOf
<1>1. ASSUME NEW start \in 0..MaxVersion, WatchBegin(w, start) PROVE StoreInv'
  <2> DEFINE r == [watch[w] EXCEPT !.pc = "snapshot", !.start = start,
                                   !.prefix = buildPendingWatchEvents(w, start)]
  <2>1. /\ buildPendingWatchEvents(w, start) \subseteq Event
        /\ IsFiniteSet(buildPendingWatchEvents(w, start))
    BY <1>t, PendingEvents DEF LiveInv
  <2>2. r \in WatchState
    BY <1>s, <2>1 DEF WatchState, Phase
  <2>3. watch' = [watch EXCEPT ![w] = r]
    BY <1>1 DEF WatchBegin
  <2>4. /\ r.pc = "snapshot" /\ r.prefix = buildPendingWatchEvents(w, start)
        /\ r.owed = watch[w].owed /\ r.registered = watch[w].registered
        /\ r.stop = watch[w].stop /\ r.held = watch[w].held
    BY <1>s DEF WatchState
  <2>5. UNCHANGED <<storeVars, incoming, dist, stopped>> /\ block' = block
        /\ watch[w].pc = "idle"
    BY <1>1 DEF WatchBegin, broadcasterVars
  <2> HIDE DEF r
  <2>6. QED BY <1>s, <2>1, <2>2, <2>3, <2>4, <2>5, WatchStep
<1>2. ASSUME WatchRegister(w) PROVE StoreInv'
  <2> DEFINE r == [watch[w] EXCEPT !.pc = "registering"]
  <2>1. UNCHANGED <<storeVars, incoming, dist, stopped>> /\ watch[w].pc = "snapshot"
    BY <1>2 DEF WatchRegister
  <2>2. CASE stopped /\ UNCHANGED block /\ watch' = [watch EXCEPT ![w] = Returned]
    BY <1>s, <2>1, <2>2, ReturnedState, WatchStep
  <2>3. CASE ~stopped /\ block' = [fn |-> "register", w |-> w]
             /\ watch' = [watch EXCEPT ![w] = r] /\ block = NoFn
    <3>1. r \in WatchState /\ r.pc = "registering" /\ r.prefix = watch[w].prefix
          /\ r.owed = watch[w].owed /\ r.registered = watch[w].registered
          /\ r.stop = watch[w].stop /\ r.held = watch[w].held
      BY <1>s DEF WatchState, Phase
    <3>2. block' \in Fn \union {NoFn}
      BY <2>3 DEF Fn
    <3>3. NoFn # [fn |-> "register", w |-> w]
      BY DEF NoFn
    <3> HIDE DEF r
    <3>4. QED BY <1>s, <2>1, <2>3, <3>1, <3>2, <3>3, WatchStep
  <2>4. QED BY <1>2, <2>2, <2>3 DEF WatchRegister, BlockQueue
<1>3. ASSUME WatchReceive(w) PROVE StoreInv'
  <2> DEFINE e == Head(watch[w].result)
             skip == shouldSkipObject(w, watch[w].start, e)
             r == [watch[w] EXCEPT !.result = Tail(@),
                     !.pc = IF skip THEN "selecting" ELSE "callback",
                     !.held = IF skip THEN NoEvent ELSE e]
  <2>1. /\ UNCHANGED <<storeVars, incoming, dist, stopped>> /\ block' = block
        /\ watch[w].pc = "selecting" /\ watch[w].result # <<>>
        /\ watch' = [watch EXCEPT ![w] = r]
    BY <1>3 DEF WatchReceive, broadcasterVars
  <2>2. /\ Tail(watch[w].result) \in Seq(Event) /\ e \in Event
        /\ Range(watch[w].result) = Range(Tail(watch[w].result)) \union {e}
    BY <1>s, <2>1, RangeTail DEF WatchState
  <2> HIDE DEF e, skip
  <2>3. r \in WatchState
    BY <1>s, <2>2 DEF WatchState, Phase
  <2>4. /\ r.prefix = watch[w].prefix /\ r.owed = watch[w].owed
        /\ r.registered = watch[w].registered /\ r.stop = watch[w].stop
        /\ r.start = watch[w].start /\ r.result = Tail(watch[w].result)
        /\ r.pc = (IF skip THEN "selecting" ELSE "callback")
        /\ r.held = (IF skip THEN NoEvent ELSE e)
    BY <1>s DEF WatchState
  <2> HIDE DEF r
  <2>5. r.registered =>
          \A f \in r.owed :
             \/ f \in actions \/ f \in Range(incoming) \/ (w \in dist.todo /\ f = dist.ev)
             \/ f \in Range(r.result) \/ f = r.held \/ shouldSkipObject(w, r.start, f)
    <3>1. SUFFICES ASSUME r.registered, NEW f \in r.owed
                   PROVE  \/ f \in actions \/ f \in Range(incoming)
                          \/ (w \in dist.todo /\ f = dist.ev)
                          \/ f \in Range(r.result) \/ f = r.held
                          \/ shouldSkipObject(w, r.start, f)
      OBVIOUS
    <3>2. f # NoEvent
      <4>1. f \in Event
        BY <3>1, <2>4, <1>s DEF WatchState
      <4>2. QED BY <4>1 DEF Event, NoEvent
    <3>3. watch[w].held = NoEvent
      BY <1>s, <2>1
    <3>4. QED BY <3>1, <3>2, <3>3, <1>e, <2>1, <2>2, <2>4 DEF skip
  <2>6. QED BY <1>s, <2>1, <2>2, <2>3, <2>4, <2>5, WatchStep
<1>4. ASSUME CallbackDelivers(w) PROVE StoreInv'
  <2> DEFINE h == watch[w].held
             n == [watch[w].accepted EXCEPT ![change(h)] = @ + 1]
             r == [watch[w] EXCEPT !.pc = "selecting", !.held = NoEvent, !.owed = @ \ {h},
                                   !.accepted = n]
  <2>1. /\ UNCHANGED <<storeVars, incoming, dist, stopped>> /\ block' = block
        /\ watch[w].pc = "callback"
        /\ watch' = [watch EXCEPT ![w] = r]
    BY <1>4 DEF CallbackDelivers, broadcasterVars
  <2>2. h \in Event
    BY <1>s, <2>1
  <2>3. n \in [Changes -> Nat]
    <3>1. watch[w].accepted \in [Changes -> Nat]
      BY <1>s DEF WatchState
    <3>2. change(h) \in Changes
      BY <2>2, ChangeOf
    <3>3. QED BY <3>1, <3>2
  <2> HIDE DEF h, n
  <2>4. r \in WatchState
    BY <1>s, <2>3 DEF WatchState, Phase
  <2>5. /\ r.prefix = watch[w].prefix /\ r.owed = watch[w].owed \ {h}
        /\ r.registered = watch[w].registered /\ r.stop = watch[w].stop
        /\ r.start = watch[w].start /\ r.result = watch[w].result
        /\ r.pc = "selecting" /\ r.held = NoEvent
    BY <1>s DEF WatchState
  <2> HIDE DEF r
  <2>6. r.registered =>
          \A f \in r.owed :
             \/ f \in actions \/ f \in Range(incoming) \/ (w \in dist.todo /\ f = dist.ev)
             \/ f \in Range(r.result) \/ f = r.held \/ shouldSkipObject(w, r.start, f)
    BY <1>e, <2>1, <2>5 DEF h
  <2>7. QED BY <1>s, <2>1, <2>4, <2>5, <2>6, WatchStep
<1>5. ASSUME watch[w].pc \in {"selecting", "callback"},
             watch' = [watch EXCEPT ![w].pc = "stopping", ![w].held = NoEvent, ![w].stop = TRUE],
             UNCHANGED <<storeVars, broadcasterVars>>
      PROVE  StoreInv'
  <2> DEFINE r == [watch[w] EXCEPT !.pc = "stopping", !.held = NoEvent, !.stop = TRUE]
  <2>1. watch' = [watch EXCEPT ![w] = r]
    BY <1>5
  <2>2. r \in WatchState /\ r.pc = "stopping" /\ r.held = NoEvent
        /\ r.prefix = watch[w].prefix /\ r.registered = watch[w].registered
    BY <1>s DEF WatchState, Phase
  <2>3. UNCHANGED <<storeVars, incoming, dist, stopped>> /\ block' = block
    BY <1>5 DEF broadcasterVars
  <2> HIDE DEF r
  <2>4. QED BY <1>s, <1>5, <2>1, <2>2, <2>3, WatchStep
<1>6. ASSUME CallbackFails(w) PROVE StoreInv'
  BY <1>5, <1>6 DEF CallbackFails
<1>7. ASSUME WatchClosed(w) \/ WatchTimeout(w) PROVE StoreInv'
  <2>1. watch[w].pc = "selecting" /\ UNCHANGED <<storeVars, broadcasterVars>>
        /\ watch' = [watch EXCEPT ![w].pc = "stopping", ![w].stop = TRUE]
    BY <1>7 DEF WatchClosed, WatchTimeout
  <2>2. watch[w].held = NoEvent
    BY <1>s, <2>1
  <2>3. watch' = [watch EXCEPT ![w].pc = "stopping", ![w].held = NoEvent, ![w].stop = TRUE]
    BY <1>s, <1>t, <2>1, <2>2 DEF TypeOK, WatchState
  <2>4. QED BY <1>5, <2>1, <2>3
<1>8. ASSUME WatchStop(w) PROVE StoreInv'
  <2>1. UNCHANGED <<storeVars, incoming, dist, stopped>> /\ watch[w].pc = "stopping"
    BY <1>8 DEF WatchStop
  <2>2. CASE stopped /\ UNCHANGED block /\ watch' = [watch EXCEPT ![w] = Returned]
    BY <1>s, <2>1, <2>2, ReturnedState, WatchStep
  <2>3. CASE ~stopped /\ block' = [fn |-> "unregister", w |-> w] /\ UNCHANGED watch
             /\ block = NoFn
    <3>1. block' \in Fn \union {NoFn}
      BY <2>3 DEF Fn
    <3>2. watch' = [watch EXCEPT ![w] = watch[w]]
      BY <1>t, <2>3 DEF TypeOK
    <3>3. NoFn # [fn |-> "register", w |-> w]
      BY DEF NoFn
    <3>4. QED BY <1>s, <2>1, <2>3, <3>1, <3>2, <3>3, WatchStep
  <2>4. QED BY <1>8, <2>2, <2>3 DEF WatchStop, BlockQueue
<1>9. QED BY <1>w, <1>1, <1>2, <1>3, <1>4, <1>6, <1>7, <1>8

-----------------------------------------------------------------------------
LEMMA StutterStep ==
  ASSUME StoreInv, UNCHANGED vars
  PROVE  StoreInv'
  BY DEF StoreInv, vars, TypeOK, WatchInv, LoopInv, LiveInv, isLive, NoEventLost, watching,
         EventsOf, shouldSkipObject

(* The invariant holds in every reachable state of the store.              *)
THEOREM StoreInvariant == Spec => []StoreInv
<1>1. Init => StoreInv
  BY InitStoreInv
<1>2. StoreInv /\ [Next]_vars => StoreInv'
  BY OperationsStep, BroadcasterStep, WatchStepsStep, StutterStep DEF Next
<1>3. QED BY <1>1, <1>2, PTL DEF Spec

(* The store and its broadcaster are type correct (TypeOK), for every set  *)
(* of keys and watchers and every size of the two queues.                  *)
THEOREM StoreTypeCorrect == Spec => []TypeOK
<1>1. StoreInv => TypeOK
  BY DEF StoreInv
<1>2. QED BY <1>1, StoreInvariant, PTL

(* Watch of store.go never loses an event that was broadcast after the     *)
(* watch was registered, however the broadcast goroutines, the loop and    *)
(* the watches interleave and whenever the store is closed.                *)
THEOREM RegisteredWatchLosesNothing == Spec => []NoEventLost
<1>1. StoreInv => NoEventLost
  BY DEF StoreInv
<1>2. QED BY <1>1, StoreInvariant, PTL

-----------------------------------------------------------------------------
(* Resource versions.                                                      *)

(* The events a watch has in hand, itself or for the callback.             *)
WatchEvents(w) == Range(watch[w].result) \union {watch[w].held} \union watch[w].prefix

LEMMA KnownEvent ==
  ASSUME NEW e
  PROVE  e \in KnownEvents <=>
           /\ e # NoEvent
           /\ e \in actions \/ e \in Range(incoming) \/ e = dist.ev
              \/ \E w \in Watchers : e \in WatchEvents(w)
  BY DEF KnownEvents, EventsOf, WatchEvents

(* VersionsUnique is inductive with two more facts: no version is newer    *)
(* than the counter, and an event with the version of a live object is     *)
(* about that object (Delete and buildPendingWatchEvents make new events   *)
(* of old versions).                                                       *)
VersionInv ==
  /\ VersionsUnique
  /\ \A e \in KnownEvents : e.rv <= versionCounter
  /\ \A k \in Keys : isLive(k) => cache[k].rv <= versionCounter
  /\ \A e \in KnownEvents, k \in Keys : isLive(k) /\ cache[k].rv = e.rv => e.key = k

LEMMA KnownAreEvents == TypeOK => KnownEvents \subseteq Event
<1> SUFFICES ASSUME TypeOK, NEW e \in KnownEvents PROVE e \in Event
  OBVIOUS
<1>1. CASE e \in actions \/ e = dist.ev
  BY <1>1, KnownEvent DEF TypeOK
<1>2. CASE e \in Range(incoming)
  BY <1>2 DEF TypeOK, Range
<1>3. CASE \E w \in Watchers : e \in WatchEvents(w)
  <2>1. PICK w \in Watchers : e \in WatchEvents(w)
    BY <1>3
  <2>2. /\ watch[w].result \in Seq(Event) /\ watch[w].held \in Event \union {NoEvent}
        /\ watch[w].prefix \subseteq Event
    BY DEF TypeOK, WatchState
  <2>3. e # NoEvent
    BY KnownEvent
  <2>4. QED BY <2>1, <2>2, <2>3 DEF WatchEvents, Range
<1>4. QED BY <1>1, <1>2, <1>3, KnownEvent

(* Steps that take no new version: every event they make repeats the       *)
(* version of a live object, and a Deleted event is made of an object that *)
(* is live no longer.                                                      *)
LEMMA NoNewVersion ==
  ASSUME TypeOK, VersionInv, versionCounter' = versionCounter,
         \A k \in Keys : isLive(k)' => isLive(k) /\ cache'[k] = cache[k],
         \A e \in KnownEvents' :
           \/ e \in KnownEvents
           \/ /\ e.key \in Keys /\ isLive(e.key) /\ e.rv = cache[e.key].rv
              /\ e.type = "Added" \/ ~isLive(e.key)'
  PROVE  VersionInv'
<1>k1. \A e \in KnownEvents : e.key \in Keys
  BY KnownAreEvents DEF Event
<1>k. \A e \in KnownEvents' : e.key \in Keys
  BY <1>k1
<1>v. /\ \A e, f \in KnownEvents : e.rv = f.rv => e.key = f.key
      /\ \A k, l \in Keys : isLive(k) /\ isLive(l) /\ cache[k].rv = cache[l].rv => k = l
      /\ \A e \in KnownEvents : isLive(e.key) =>
           IF e.type = "Deleted" THEN e.rv < cache[e.key].rv ELSE e.rv <= cache[e.key].rv
      /\ \A e \in KnownEvents : e.rv <= versionCounter
      /\ \A k \in Keys : isLive(k) => cache[k].rv <= versionCounter
      /\ \A e \in KnownEvents, k \in Keys : isLive(k) /\ cache[k].rv = e.rv => e.key = k
  BY DEF VersionInv, VersionsUnique
<1>c. \A k \in Keys : cache[k].rv \in Nat
  BY StoreAssumption DEF TypeOK, Entry
<1>1. \A e, f \in KnownEvents' : e.rv = f.rv => e.key = f.key
  BY <1>v
<1>2. \A k, l \in Keys : isLive(k)' /\ isLive(l)' /\ cache'[k].rv = cache'[l].rv => k = l
  BY <1>v
<1>3. ASSUME NEW e \in KnownEvents', isLive(e.key)'
      PROVE  IF e.type = "Deleted" THEN e.rv < cache'[e.key].rv ELSE e.rv <= cache'[e.key].rv
  <2>0. cache'[e.key] = cache[e.key] /\ isLive(e.key) /\ e.key \in Keys
    BY <1>3, <1>k
  <2>1. CASE e \in KnownEvents
    BY <2>0, <2>1, <1>v
  <2>2. CASE e.rv = cache[e.key].rv /\ e.type = "Added"
    BY <2>0, <2>2, <1>c
  <2>3. QED BY <1>3, <2>1, <2>2
<1>4. \A e \in KnownEvents' : e.rv <= versionCounter'
  BY <1>v
<1>5. \A k \in Keys : isLive(k)' => cache'[k].rv <= versionCounter'
  BY <1>v
<1>6. \A e \in KnownEvents', k \in Keys : isLive(k)' /\ cache'[k].rv = e.rv => e.key = k
  BY <1>v
<1>7. QED BY <1>1, <1>2, <1>3, <1>4, <1>5, <1>6 DEF VersionInv, VersionsUnique

(* A write takes the next version.                                         *)
LEMMA NewVersion ==
  ASSUME TypeOK, VersionInv, NEW k \in Keys, versionCounter' = versionCounter + 1,
         cache' = [cache EXCEPT ![k] = Live(versionCounter + 1)],
         \A e \in KnownEvents' :
           e \in KnownEvents
             \/ (e.key = k /\ e.rv = versionCounter + 1 /\ e.type # "Deleted")
  PROVE  VersionInv'
<1>k1. \A e \in KnownEvents : e.key \in Keys /\ e.rv \in Nat
  BY KnownAreEvents, StoreAssumption DEF Event
<1>v. /\ \A e, f \in KnownEvents : e.rv = f.rv => e.key = f.key
      /\ \A j, l \in Keys : isLive(j) /\ isLive(l) /\ cache[j].rv = cache[l].rv => j = l
      /\ \A e \in KnownEvents : isLive(e.key) =>
           IF e.type = "Deleted" THEN e.rv < cache[e.key].rv ELSE e.rv <= cache[e.key].rv
      /\ \A e \in KnownEvents : e.rv <= versionCounter
      /\ \A j \in Keys : isLive(j) => cache[j].rv <= versionCounter
      /\ \A e \in KnownEvents, j \in Keys : isLive(j) /\ cache[j].rv = e.rv => e.key = j
  BY DEF VersionInv, VersionsUnique
<1>c. (\A j \in Keys : cache[j].rv \in Nat) /\ versionCounter \in Nat
  BY StoreAssumption DEF TypeOK, Entry
<1>n. /\ isLive(k)' /\ cache'[k].rv = versionCounter + 1
      /\ \A j \in Keys \ {k} : cache'[j] = cache[j] /\ isLive(j)' = isLive(j)
  BY DEF TypeOK, isLive, Live
<1>1. \A e, f \in KnownEvents' : e.rv = f.rv => e.key = f.key
  BY <1>v, <1>c, <1>k1
<1>2. \A j, l \in Keys : isLive(j)' /\ isLive(l)' /\ cache'[j].rv = cache'[l].rv => j = l
  BY <1>v, <1>c, <1>n
<1>3. ASSUME NEW e \in KnownEvents', isLive(e.key)'
      PROVE  IF e.type = "Deleted" THEN e.rv < cache'[e.key].rv ELSE e.rv <= cache'[e.key].rv
  <2>1. CASE e \in KnownEvents /\ e.key = k
    BY <2>1, <1>v, <1>c, <1>n, <1>k1
  <2>2. CASE e \in KnownEvents /\ e.key # k
    <3>1. e.key \in Keys /\ isLive(e.key) /\ cache'[e.key] = cache[e.key]
      BY <2>2, <1>3, <1>k1, <1>n
    <3>2. QED BY <2>2, <3>1, <1>v
  <2>3. CASE e.key = k /\ e.rv = versionCounter + 1 /\ e.type # "Deleted"
    BY <2>3, <1>n, <1>c
  <2>4. QED BY <2>1, <2>2, <2>3
<1>4. \A e \in KnownEvents' : e.rv <= versionCounter'
  BY <1>v, <1>c, <1>k1
<1>5. \A j \in Keys : isLive(j)' => cache'[j].rv <= versionCounter'
  BY <1>v, <1>c, <1>n
<1>6. \A e \in KnownEvents', j \in Keys : isLive(j)' /\ cache'[j].rv = e.rv => e.key = j
  BY <1>v, <1>c, <1>n, <1>k1
<1>7. QED BY <1>1, <1>2, <1>3, <1>4, <1>5, <1>6 DEF VersionInv, VersionsUnique

(* Events move from the goroutines to the queue, to the loop and to the    *)
(* watches; the new ones of a step are those of N.                         *)
LEMMA KnownGrows ==
  ASSUME NEW N, actions' \subseteq actions \union N,
         Range(incoming') \subseteq Range(incoming) \union actions,
         dist'.ev \in {dist.ev, NoEvent} \union Range(incoming),
         \A w \in Watchers :
           WatchEvents(w)' \subseteq WatchEvents(w) \union N \union {dist.ev, NoEvent}
  PROVE  KnownEvents' \subseteq KnownEvents \union N
<1> SUFFICES ASSUME NEW e \in KnownEvents', e \notin N PROVE e \in KnownEvents
  OBVIOUS
<1>1. /\ e # NoEvent
      /\ e \in actions' \/ e \in Range(incoming') \/ e = dist'.ev
         \/ \E w \in Watchers : e \in WatchEvents(w)'
  BY DEF KnownEvents, EventsOf, WatchEvents
<1>2. QED BY <1>1, KnownEvent

(* The events of the watches when one of them moves.                       *)
LEMMA WatchMoves ==
  ASSUME TypeOK, NEW w \in Watchers, NEW r \in WatchState, watch' = [watch EXCEPT ![w] = r]
  PROVE  /\ WatchEvents(w)' = Range(r.result) \union {r.held} \union r.prefix
         /\ \A v \in Watchers \ {w} : WatchEvents(v)' = WatchEvents(v)
<1>1. watch'[w] = r /\ \A v \in Watchers \ {w} : watch'[v] = watch[v]
  BY DEF TypeOK
<1>2. QED BY <1>1 DEF WatchEvents

LEMMA VersionOperations ==
  ASSUME StoreInv, VersionInv, Operations
  PROVE  VersionInv'
<1>t. TypeOK /\ LiveInv
  BY DEF StoreInv
<1>s. ASSUME NEW events, spawn(events), UNCHANGED broadcasterVars
      PROVE  KnownEvents' \subseteq KnownEvents \union events
  <2>1. \A w \in Watchers : /\ watch'[w].result = watch[w].result
                             /\ watch'[w].held = watch[w].held
                             /\ watch'[w].prefix = watch[w].prefix
    BY <1>s, <1>t DEF spawn, TypeOK, WatchState
  <2>2. \A w \in Watchers : WatchEvents(w)' = WatchEvents(w)
    BY <2>1 DEF WatchEvents
  <2>3. QED BY <1>s, <2>2, KnownGrows DEF spawn, broadcasterVars
<1>1. ASSUME NEW k \in Keys, NEW nb \in NoBroadcastOpts, Add(k, nb) \/ Update(k, nb)
      PROVE  VersionInv'
  <2>1. PICK events : /\ \A e \in events : e.key = k /\ e.rv = versionCounter + 1
                                           /\ e.type # "Deleted"
                      /\ spawn(events)
    <3>1. CASE Add(k, nb)
      <4> DEFINE E == IF nb THEN {}
                      ELSE {[type |-> "Added", key |-> k, rv |-> versionCounter + 1]}
      <4>1. spawn(E)
        BY <3>1 DEF Add
      <4>2. \A e \in E : e.key = k /\ e.rv = versionCounter + 1 /\ e.type # "Deleted"
        OBVIOUS
      <4> HIDE DEF E
      <4>3. QED BY <4>1, <4>2
    <3>2. CASE Update(k, nb)
      <4> DEFINE E == IF nb THEN {}
                      ELSE {[type |-> "Modified", key |-> k, rv |-> versionCounter + 1]}
      <4>1. spawn(E)
        BY <3>2 DEF Update
      <4>2. \A e \in E : e.key = k /\ e.rv = versionCounter + 1 /\ e.type # "Deleted"
        OBVIOUS
      <4> HIDE DEF E
      <4>3. QED BY <4>1, <4>2
    <3>3. QED BY <1>1, <3>1, <3>2
  <2>2. /\ versionCounter' = versionCounter + 1 /\ UNCHANGED broadcasterVars
        /\ cache' = [cache EXCEPT ![k] = Live(versionCounter + 1)]
    BY <1>1 DEF Add, Update
  <2>3. KnownEvents' \subseteq KnownEvents \union events
    BY <1>s, <2>1, <2>2
  <2>4. QED BY <1>t, <2>1, <2>2, <2>3, NewVersion
<1>2. ASSUME NEW ks \in SUBSET Keys, NEW mark \in BOOLEAN, \A k \in ks : isLive(k),
             cache' = [k \in Keys |-> IF k \in ks THEN removed(mark) ELSE cache[k]],
             spawn(deletedEvents(ks)), UNCHANGED <<versionCounter, mu, broadcasterVars>>
      PROVE  VersionInv'
  <2>1. removed(mark).state # "live"
    BY DEF removed, Tombstone, Absent
  <2>2. /\ \A k \in ks : ~isLive(k)'
        /\ \A k \in Keys : isLive(k)' => isLive(k) /\ cache'[k] = cache[k]
    BY <1>2, <2>1 DEF isLive
  <2>3. \A e \in deletedEvents(ks) : e.key \in ks /\ e.rv = cache[e.key].rv
    BY DEF deletedEvents
  <2>4. KnownEvents' \subseteq KnownEvents \union deletedEvents(ks)
    BY <1>2, <1>s
  <2>5. QED BY <1>2, <1>t, <2>2, <2>3, <2>4, NoNewVersion
<1>3. ASSUME NEW k \in Keys, NEW mark \in BOOLEAN, Delete(k, mark)
      PROVE  VersionInv'
  <2>1. isLive(k)
    BY <1>3 DEF Delete, GetByKey
  <2>2. cache' = [j \in Keys |-> IF j \in {k} THEN removed(mark) ELSE cache[j]]
    BY <1>3, <1>t DEF Delete, TypeOK
  <2>3. QED BY <1>3, <1>2, <2>1, <2>2 DEF Delete
<1>4. ASSUME NEW match \in SUBSET Keys, NEW mark \in BOOLEAN, DeleteObjects(match, mark)
      PROVE  VersionInv'
  <2>1. match \intersect filterOutTombstones \in SUBSET Keys
        /\ \A k \in match \intersect filterOutTombstones : isLive(k)
    BY DEF filterOutTombstones
  <2>2. QED BY <1>4, <1>2, <2>1 DEF DeleteObjects
<1>5. ASSUME Reset \/ Close PROVE VersionInv'
  <2>1. /\ cache' = [k \in Keys |-> Absent] /\ versionCounter' = versionCounter
        /\ UNCHANGED <<actions, broadcasterVars, watch>>
    BY <1>5 DEF Reset, Close
  <2>2. \A k \in Keys : ~isLive(k)'
    BY <2>1 DEF isLive, Absent
  <2>3. KnownEvents' = KnownEvents
    BY <2>1 DEF KnownEvents, EventsOf, broadcasterVars
  <2>4. QED BY <1>t, <2>1, <2>2, <2>3, NoNewVersion
<1>6. QED BY <1>1, <1>3, <1>4, <1>5 DEF Operations

(* The steps of the broadcaster and of the watches make no events, but for *)
(* the pending ones of buildPendingWatchEvents.                            *)
LEMMA VersionMoves ==
  ASSUME StoreInv, VersionInv, UNCHANGED <<cache, versionCounter>>,
         \A e \in KnownEvents' :
           \/ e \in KnownEvents
           \/ /\ e.key \in Keys /\ isLive(e.key) /\ e.rv = cache[e.key].rv
              /\ e.type = "Added"
  PROVE  VersionInv'
<1>1. \A k \in Keys : isLive(k)' => isLive(k) /\ cache'[k] = cache[k]
  BY DEF isLive
<1>2. QED BY <1>1, NoNewVersion DEF StoreInv

LEMMA VersionBroadcaster ==
  ASSUME StoreInv, VersionInv, BroadcasterSteps
  PROVE  VersionInv'
<1>t. TypeOK /\ WatchInv /\ LoopInv
  BY DEF StoreInv
<1>q. incoming \in Seq(Event) /\ dist.ev \in Event \union {NoEvent}
  BY <1>t DEF TypeOK
<1>u. UNCHANGED <<cache, versionCounter>>
  BY DEF BroadcasterSteps, BroadcastAction, LoopTake, Shutdown, LoopShutdown, LoopSend,
         LoopRegister, LoopUnregister, storeVars
<1>k. ASSUME KnownEvents' \subseteq KnownEvents PROVE VersionInv'
  BY <1>k, <1>u, VersionMoves
<1>1. ASSUME NEW e \in actions, BroadcastAction(e) PROVE VersionInv'
  <2>1. Range(Append(incoming, e)) = Range(incoming) \union {e}
    BY <1>1, <1>q, <1>t, RangeAppend DEF TypeOK
  <2>2. /\ actions' \subseteq actions \union {}
        /\ Range(incoming') \subseteq Range(incoming) \union actions
        /\ UNCHANGED <<dist, watch>>
    BY <1>1, <2>1 DEF BroadcastAction
  <2>3. \A w \in Watchers : WatchEvents(w)' = WatchEvents(w)
    BY <2>2 DEF WatchEvents
  <2>4. KnownEvents' \subseteq KnownEvents \union {}
    BY <2>2, <2>3, KnownGrows
  <2>5. QED BY <2>4, <1>k
<1>2. ASSUME LoopTake PROVE VersionInv'
  <2>1. Range(incoming) = Range(Tail(incoming)) \union {Head(incoming)}
    BY <1>2, <1>q, RangeTail DEF LoopTake
  <2>2. /\ actions' \subseteq actions \union {}
        /\ Range(incoming') \subseteq Range(incoming) \union actions
        /\ dist'.ev \in {dist.ev, NoEvent} \union Range(incoming)
        /\ UNCHANGED watch
    BY <1>2, <2>1 DEF LoopTake, handing
  <2>3. \A w \in Watchers : WatchEvents(w)' = WatchEvents(w)
    BY <2>2 DEF WatchEvents
  <2>4. KnownEvents' \subseteq KnownEvents \union {}
    BY <2>2, <2>3, KnownGrows
  <2>5. QED BY <2>4, <1>k
<1>3. ASSUME NEW w \in Watchers, LoopSend(w) PROVE VersionInv'
  <2>1. /\ actions' \subseteq actions \union {} /\ incoming' = incoming
        /\ dist'.ev \in {dist.ev, NoEvent} \union Range(incoming) /\ w \in dist.todo
    BY <1>3 DEF LoopSend, handing
  <2>2. \A v \in Watchers : WatchEvents(v)' \subseteq WatchEvents(v) \union {dist.ev}
    <3>1. CASE UNCHANGED watch
      BY <3>1 DEF WatchEvents
    <3>2. CASE watch' = [watch EXCEPT ![w].result = Append(@, dist.ev)]
      <4> DEFINE q == Append(watch[w].result, dist.ev)
                 r == [watch[w] EXCEPT !.result = q]
      <4>1. watch[w] \in WatchState /\ watch[w].result \in Seq(Event) /\ dist.ev \in Event
        BY <1>t, <2>1 DEF TypeOK, WatchState, LoopInv
      <4>2. q \in Seq(Event) /\ Range(q) = Range(watch[w].result) \union {dist.ev}
        BY <4>1, RangeAppend
      <4> HIDE DEF q
      <4>3. r \in WatchState /\ r.result = q /\ r.held = watch[w].held
            /\ r.prefix = watch[w].prefix
        BY <4>1, <4>2 DEF WatchState
      <4>4. watch' = [watch EXCEPT ![w] = r]
        BY <3>2 DEF q
      <4> HIDE DEF r
      <4>5. QED BY <1>t, <4>2, <4>3, <4>4, WatchMoves DEF WatchEvents
    <3>3. QED BY <1>3, <3>1, <3>2 DEF LoopSend
  <2>3. KnownEvents' \subseteq KnownEvents \union {}
    BY <2>1, <2>2, KnownGrows
  <2>4. QED BY <2>3, <1>k
<1>4. ASSUME Shutdown PROVE VersionInv'
  BY <1>4, <1>k DEF Shutdown, KnownEvents, EventsOf
<1>5. ASSUME LoopShutdown PROVE VersionInv'
  <2>1. \A w \in Watchers : /\ watch'[w].result = watch[w].result
                             /\ watch'[w].held = watch[w].held
                             /\ watch'[w].prefix = watch[w].prefix
    BY <1>5, <1>t DEF LoopShutdown, TypeOK, WatchState
  <2>2. \A w \in Watchers : WatchEvents(w)' = WatchEvents(w)
    BY <2>1 DEF WatchEvents
  <2>3. KnownEvents' \subseteq KnownEvents \union {}
    BY <1>5, <2>2, KnownGrows DEF LoopShutdown
  <2>4. QED BY <2>3, <1>k
<1>6. ASSUME NEW w \in Watchers, LoopRegister(w) PROVE VersionInv'
  <2>1. PICK queued \in Orderings(watch[w].prefix) :
          watch' = [watch EXCEPT ![w].pc = "selecting", ![w].registered = TRUE,
                                 ![w].result = queued, ![w].cap = capacity(queued)]
    BY <1>6 DEF LoopRegister
  <2>2. watch'[w].result = queued /\ watch'[w].held = watch[w].held
        /\ watch'[w].prefix = watch[w].prefix
    BY <2>1, <1>t DEF TypeOK, WatchState
  <2>3. \A v \in Watchers \ {w} : watch'[v] = watch[v]
    BY <2>1, <1>t DEF TypeOK
  <2>4. Range(queued) = watch[w].prefix
    BY <2>1, <1>t, OrderingOf DEF WatchInv
  <2>5. \A v \in Watchers : WatchEvents(v)' \subseteq WatchEvents(v)
    BY <2>2, <2>3, <2>4 DEF WatchEvents
  <2>6. KnownEvents' \subseteq KnownEvents \union {}
    BY <1>6, <2>5, KnownGrows DEF LoopRegister, storeVars
  <2>7. QED BY <2>6, <1>k
<1>7. ASSUME NEW w \in Watchers, LoopUnregister(w) PROVE VersionInv'
  <2>1. Returned.result = <<>> /\ Returned.held = NoEvent /\ Returned.prefix = {}
    BY DEF Returned, NoWatch
  <2>2. \A v \in Watchers : WatchEvents(v)' \subseteq WatchEvents(v) \union {NoEvent}
    <3>1. /\ watch' = [watch EXCEPT ![w] = Returned] /\ Returned \in WatchState
          /\ Range(Returned.result) = {}
      BY <1>7, <2>1, ReturnedState DEF LoopUnregister, Range
    <3>2. /\ WatchEvents(w)' = {NoEvent}
          /\ \A v \in Watchers \ {w} : WatchEvents(v)' = WatchEvents(v)
      BY <1>t, <2>1, <3>1, WatchMoves
    <3>3. QED BY <3>2
  <2>3. KnownEvents' \subseteq KnownEvents \union {}
    BY <1>7, <2>2, KnownGrows DEF LoopUnregister, storeVars
  <2>4. QED BY <2>3, <1>k
<1>8. QED BY <1>1, <1>2, <1>3, <1>4, <1>5, <1>6, <1>7 DEF BroadcasterSteps

LEMMA VersionWatches ==
  ASSUME StoreInv, VersionInv, WatchSteps
  PROVE  VersionInv'
<1>t. TypeOK /\ WatchInv /\ LoopInv
  BY DEF StoreInv
<1>w. PICK w \in Watchers :
        \/ \E start \in 0..MaxVersion : WatchBegin(w, start)
        \/ WatchRegister(w) \/ WatchReceive(w) \/ CallbackDelivers(w) \/ CallbackFails(w)
        \/ WatchClosed(w) \/ WatchTimeout(w) \/ WatchStop(w)
  BY DEF WatchSteps
<1>u. UNCHANGED <<cache, versionCounter, actions, incoming, dist>>
  BY DEF WatchSteps, WatchBegin, WatchRegister, WatchReceive, CallbackDelivers, CallbackFails,
         WatchClosed, WatchTimeout, WatchStop, storeVars, broadcasterVars
<1>s. watch[w] \in WatchState
  BY <1>t DEF TypeOK
<1>k. ASSUME NEW N, \A v \in Watchers \ {w} : watch'[v] = watch[v],
             WatchEvents(w)' \subseteq WatchEvents(w) \union N \union {NoEvent},
             \A e \in N : /\ e.key \in Keys /\ isLive(e.key) /\ e.rv = cache[e.key].rv
                          /\ e.type = "Added"
      PROVE  VersionInv'
  <2>1. \A v \in Watchers :
          WatchEvents(v)' \subseteq WatchEvents(v) \union N \union {dist.ev, NoEvent}
    BY <1>k DEF WatchEvents
  <2>2. KnownEvents' \subseteq KnownEvents \union N
    BY <1>u, <2>1, KnownGrows
  <2>3. QED BY <1>k, <1>u, <2>2, VersionMoves
<1>1. ASSUME NEW start \in 0..MaxVersion, WatchBegin(w, start) PROVE VersionInv'
  <2> DEFINE N == buildPendingWatchEvents(w, start)
  <2>1. \A e \in N : /\ e.key \in Keys /\ isLive(e.key) /\ e.rv = cache[e.key].rv
                     /\ e.type = "Added"
    BY DEF buildPendingWatchEvents, filterOutTombstones
  <2>2. /\ \A v \in Watchers \ {w} : watch'[v] = watch[v]
        /\ watch'[w].result = watch[w].result /\ watch'[w].held = watch[w].held
        /\ watch'[w].prefix = N
    BY <1>1, <1>s, <1>t DEF WatchBegin, TypeOK, WatchState
  <2> HIDE DEF N
  <2>3. WatchEvents(w)' \subseteq WatchEvents(w) \union N \union {NoEvent}
    BY <2>2 DEF WatchEvents
  <2>4. QED BY <1>k, <2>1, <2>2, <2>3
<1>2. ASSUME \A v \in Watchers \ {w} : watch'[v] = watch[v],
             WatchEvents(w)' \subseteq WatchEvents(w) \union {NoEvent}
      PROVE  VersionInv'
  <2> DEFINE N == {}
  <2>1. /\ WatchEvents(w)' \subseteq WatchEvents(w) \union N \union {NoEvent}
        /\ \A e \in N : /\ e.key \in Keys /\ isLive(e.key) /\ e.rv = cache[e.key].rv
                        /\ e.type = "Added"
    BY <1>2
  <2> HIDE DEF N
  <2>2. QED BY <1>2, <1>k, <2>1
<1>3. ASSUME WatchReceive(w) PROVE VersionInv'
  <2> DEFINE e == Head(watch[w].result)
  <2>1. watch[w].result \in Seq(Event) /\ watch[w].result # <<>>
    BY <1>3, <1>s DEF WatchReceive, WatchState
  <2>2. Range(watch[w].result) = Range(Tail(watch[w].result)) \union {e}
    BY <2>1, RangeTail
  <2>3. /\ \A v \in Watchers \ {w} : watch'[v] = watch[v]
        /\ watch'[w].result = Tail(watch[w].result) /\ watch'[w].held \in {NoEvent, e}
        /\ watch'[w].prefix = watch[w].prefix
    <3>1. /\ \A v \in Watchers \ {w} : watch'[v] = watch[v]
          /\ watch'[w].result = Tail(watch[w].result)
          /\ watch'[w].prefix = watch[w].prefix
      BY <1>3, <1>s, <1>t DEF WatchReceive, TypeOK, WatchState
    <3>2. watch'[w].held = IF shouldSkipObject(w, watch[w].start, e) THEN NoEvent ELSE e
      BY <1>3, <1>s, <1>t DEF WatchReceive, TypeOK, WatchState
    <3>3. QED BY <3>1, <3>2
  <2> HIDE DEF e
  <2>4. QED BY <1>2, <2>2, <2>3 DEF WatchEvents
<1>4. ASSUME CallbackDelivers(w) PROVE VersionInv'
  <2>1. /\ \A v \in Watchers \ {w} : watch'[v] = watch[v]
        /\ watch'[w].result = watch[w].result /\ watch'[w].held = NoEvent
        /\ watch'[w].prefix = watch[w].prefix
    BY <1>4, <1>s, <1>t DEF CallbackDelivers, TypeOK, WatchState
  <2>2. QED BY <1>2, <2>1 DEF WatchEvents
<1>5. ASSUME CallbackFails(w) \/ WatchClosed(w) \/ WatchTimeout(w) PROVE VersionInv'
  <2>1. /\ \A v \in Watchers \ {w} : watch'[v] = watch[v]
        /\ watch'[w].result = watch[w].result /\ watch'[w].held \in {NoEvent, watch[w].held}
        /\ watch'[w].prefix = watch[w].prefix
    BY <1>5, <1>s, <1>t DEF CallbackFails, WatchClosed, WatchTimeout, TypeOK, WatchState
  <2>2. QED BY <1>2, <2>1 DEF WatchEvents
<1>6. ASSUME watch' = [watch EXCEPT ![w] = Returned] PROVE VersionInv'
  <2>1. Returned.result = <<>> /\ Returned.held = NoEvent /\ Returned.prefix = {}
    BY DEF Returned, NoWatch
  <2>2. (\A v \in Watchers \ {w} : watch'[v] = watch[v]) /\ watch'[w] = Returned
    BY <1>6, <1>t DEF TypeOK
  <2>3. QED BY <1>2, <2>1, <2>2 DEF WatchEvents, Range
<1>7. ASSUME WatchRegister(w) \/ WatchStop(w) PROVE VersionInv'
  <2>1. \/ watch' = [watch EXCEPT ![w] = Returned]
        \/ watch' = [watch EXCEPT ![w].pc = "registering"]
        \/ UNCHANGED watch
    BY <1>7 DEF WatchRegister, WatchStop
  <2>2. CASE watch' = [watch EXCEPT ![w].pc = "registering"] \/ UNCHANGED watch
    <3>1. /\ \A v \in Watchers \ {w} : watch'[v] = watch[v]
          /\ watch'[w].result = watch[w].result /\ watch'[w].held = watch[w].held
          /\ watch'[w].prefix = watch[w].prefix
      BY <2>2, <1>s, <1>t DEF TypeOK, WatchState
    <3>2. QED BY <1>2, <3>1 DEF WatchEvents
  <2>3. QED BY <1>6, <2>1, <2>2
<1>8. QED BY <1>w, <1>1, <1>3, <1>4, <1>5, <1>7

(* The invariant behind it holds in every reachable state.                 *)
THEOREM VersionInvariant == Spec => []VersionInv
<1>1. Init => VersionInv
  <2> SUFFICES ASSUME Init PROVE VersionInv
    OBVIOUS
  <2>1. KnownEvents = {}
    <3>1. \A w \in Watchers : watch[w].result = <<>> /\ watch[w].held = NoEvent
                              /\ watch[w].prefix = {}
      BY DEF Init, NoWatch
    <3>2. dist.ev = NoEvent /\ Range(incoming) = {} /\ actions = {}
      BY DEF Init, handing, Range
    <3>3. \A w \in Watchers : WatchEvents(w) = {NoEvent}
      BY <3>1 DEF WatchEvents, Range
    <3>4. QED BY <3>2, <3>3, KnownEvent
  <2>2. \A k \in Keys : ~isLive(k)
    BY DEF Init, isLive, Absent
  <2>3. QED BY <2>1, <2>2 DEF VersionInv, VersionsUnique
<1>2. StoreInv /\ VersionInv /\ [Next]_vars => VersionInv'
  <2>1. VersionInv /\ UNCHANGED vars => VersionInv'
    BY DEF vars, VersionInv, VersionsUnique, KnownEvents, EventsOf, isLive
  <2>2. QED BY <2>1, VersionOperations, VersionBroadcaster, VersionWatches DEF Next
<1>3. QED BY <1>1, <1>2, StoreInvariant, PTL DEF Spec

(* Versions are unique for any keys and watchers and any number of writes, *)
(* across deletions, re-creations, Reset and Close (VersionsUnique).       *)
THEOREM VersionsAreUnique == Spec => []VersionsUnique
<1>1. VersionInv => VersionsUnique
  BY DEF VersionInv
<1>2. QED BY <1>1, VersionInvariant, PTL

-----------------------------------------------------------------------------
(* Counting the events of a change in the queues.                          *)

LEMMA CountType ==
  ASSUME NEW S, NEW s \in Seq(S), NEW c
  PROVE  /\ IsFiniteSet({i \in DOMAIN s : change(s[i]) = c}) /\ Count(s, c) \in Nat
         /\ (\A x \in Range(s) : change(x) # c) => Count(s, c) = 0
<1>1. IsFiniteSet(1..Len(s))
  BY FS_Interval
<1>2. {i \in DOMAIN s : change(s[i]) = c} \in SUBSET (1..Len(s))
  OBVIOUS
<1>3. IsFiniteSet({i \in DOMAIN s : change(s[i]) = c})
  BY <1>1, <1>2, FS_Subset
<1>4. Count(s, c) \in Nat
  BY <1>3, FS_CardinalityType DEF Count
<1>5. ASSUME \A x \in Range(s) : change(x) # c PROVE Count(s, c) = 0
  <2>1. {i \in DOMAIN s : change(s[i]) = c} = {}
    BY <1>5 DEF Range
  <2>2. QED BY <2>1, FS_EmptySet DEF Count
<1>6. QED BY <1>3, <1>4, <1>5

LEMMA CountAppend ==
  ASSUME NEW S, NEW s \in Seq(S), NEW x \in S, NEW c
  PROVE  Count(Append(s, x), c) = Count(s, c) + One(change(x) = c)
<1> DEFINE t == Append(s, x)
           I == {i \in DOMAIN s : change(s[i]) = c}
           J == {i \in DOMAIN t : change(t[i]) = c}
<1>1. DOMAIN t = 1..(Len(s) + 1) /\ DOMAIN s = 1..Len(s) /\ Len(s) \in Nat
  OBVIOUS
<1>2. t[Len(s) + 1] = x /\ \A i \in 1..Len(s) : t[i] = s[i]
  OBVIOUS
<1>3. IsFiniteSet(I) /\ Cardinality(I) \in Nat
  BY CountType DEF Count
<1> HIDE DEF t
<1>4. CASE change(x) = c
  <2>1. J = I \union {Len(s) + 1} /\ Len(s) + 1 \notin I
    <3>1. \A i \in DOMAIN t : i \in DOMAIN s \/ i = Len(s) + 1
      BY <1>1
    <3>2. Len(s) + 1 \in DOMAIN t /\ Len(s) + 1 \notin DOMAIN s
          /\ \A i \in DOMAIN s : i \in DOMAIN t /\ t[i] = s[i]
      BY <1>1, <1>2
    <3>3. QED BY <3>1, <3>2, <1>2, <1>4
  <2> HIDE DEF I, J
  <2>2. Cardinality(J) = Cardinality(I) + 1
    BY <2>1, <1>3, FS_AddElement
  <2>3. QED BY <2>2, <1>4 DEF Count, One, I, J, t
<1>5. CASE change(x) # c
  <2>1. J = I
    <3>1. \A i \in DOMAIN t : i \in DOMAIN s \/ i = Len(s) + 1
      BY <1>1
    <3>2. \A i \in DOMAIN s : i \in DOMAIN t /\ t[i] = s[i]
      BY <1>1, <1>2
    <3>3. QED BY <3>1, <3>2, <1>2, <1>5
  <2> HIDE DEF I, J
  <2>2. Cardinality(J) = Cardinality(I) + One(change(x) = c)
    BY <2>1, <1>5, <1>3 DEF One
  <2>3. QED BY <2>2 DEF Count, I, J, t
<1>6. QED BY <1>4, <1>5

LEMMA CountTail ==
  ASSUME NEW S, NEW s \in Seq(S), s # <<>>, NEW c
  PROVE  Count(s, c) = Count(Tail(s), c) + One(change(Head(s)) = c)
<1> DEFINE t == Tail(s)
           I == {i \in DOMAIN s : change(s[i]) = c}
           J == {i \in DOMAIN t : change(t[i]) = c}
           K == I \ {1}
           f == [i \in J |-> i + 1]
<1>1. /\ DOMAIN s = 1..Len(s) /\ Len(s) \in Nat \ {0} /\ DOMAIN t = 1..(Len(s) - 1)
      /\ \A i \in 1..(Len(s) - 1) : t[i] = s[i + 1]
      /\ t \in Seq(S) /\ Head(s) = s[1]
  OBVIOUS
<1>2. IsFiniteSet(I) /\ Cardinality(I) \in Nat
  BY CountType DEF Count
<1>3. IsFiniteSet(J) /\ Cardinality(J) \in Nat
  BY <1>1, CountType DEF Count
<1> HIDE DEF t
<1>4. f \in Bijection(J, K)
  <2>1. f \in [J -> K]
    <3>1. \A i \in J : i + 1 \in K
      BY <1>1
    <3>2. QED BY <3>1
  <2>2. \A i, j \in J : f[i] = f[j] => i = j
    BY <1>1
  <2>3. \A k \in K : \E i \in J : f[i] = k
    <3> TAKE k \in K
    <3>1. k - 1 \in J /\ (k - 1) + 1 = k
      BY <1>1
    <3>2. f[k - 1] = k
      BY <3>1
    <3>3. QED BY <3>1, <3>2
  <2> HIDE DEF f, J, K
  <2>4. QED BY <2>1, <2>2, <2>3 DEF Bijection, Injection, Surjection, IsInjective
<1>5. ExistsBijection(J, K)
  BY <1>4 DEF ExistsBijection
<1> HIDE DEF J
<1>6. Cardinality(K) = Cardinality(J)
  <2> HIDE DEF K
  <2>1. QED BY <1>3, <1>5, FS_Bijection
<1>7. 1 \in I <=> change(Head(s)) = c
  BY <1>1
<1> HIDE DEF I
<1>8. Cardinality(K) = IF 1 \in I THEN Cardinality(I) - 1 ELSE Cardinality(I)
  BY <1>2, FS_RemoveElement
<1> HIDE DEF K
<1>9. Cardinality(I) = Cardinality(J) + One(change(Head(s)) = c)
  BY <1>2, <1>3, <1>6, <1>7, <1>8 DEF One
<1>10. QED BY <1>9 DEF Count, I, J, t

-----------------------------------------------------------------------------
(* An ordering of events of different changes has each change once.        *)
LEMMA CountOrdering ==
  ASSUME NEW S \in SUBSET Event, IsFiniteSet(S), NEW q \in Orderings(S),
         \A e, f \in S : change(e) = change(f) => e = f, NEW c
  PROVE  Count(q, c) <= One(\E e \in S : change(e) = c)
<1> DEFINE I == {i \in DOMAIN q : change(q[i]) = c}
<1>1. /\ q \in Seq(S) /\ \A i \in DOMAIN q : q[i] \in S
      /\ \A i, j \in DOMAIN q : q[i] = q[j] => i = j
  BY OrderingOf DEF Range
<1>2. CASE \E i \in DOMAIN q : change(q[i]) = c
  <2>1. PICK i \in DOMAIN q : change(q[i]) = c
    BY <1>2
  <2>2. I = {i}
    BY <1>1, <2>1
  <2>3. Count(q, c) = 1
    BY <2>2, FS_Singleton DEF Count
  <2>4. \E e \in S : change(e) = c
    BY <1>1, <2>1
  <2>5. QED BY <2>3, <2>4 DEF One
<1>3. CASE ~\E i \in DOMAIN q : change(q[i]) = c
  <2>1. I = {}
    BY <1>3
  <2>2. Count(q, c) = 0
    BY <2>1, FS_EmptySet DEF Count
  <2>3. QED BY <2>2 DEF One
<1>4. QED BY <1>2, <1>3

-----------------------------------------------------------------------------
(* How often watcher w is or will be told of change c, and may be.         *)
Copies(w, c) ==
  One(\E e \in actions : change(e) = c) + Count(incoming, c)
    + One(w \in dist.todo /\ change(dist.ev) = c)
    + Count(watch[w].result, c)
    + One(watch[w].pc = "callback" /\ change(watch[w].held) = c)
    + watch[w].accepted[c]
Allowed(w, c) == 1 + One(\E e \in watch[w].prefix : change(e) = c)

(* AtMostOnce is inductive with: no change is broadcast by two goroutines; *)
(* a snapshot has writes only; nothing is accepted before the registration,*)
(* and what was accepted is no newer than the counter and, if a deletion,  *)
(* not of an object that is still there.                                   *)
AcceptInv ==
  /\ \A e, f \in actions : change(e) = change(f) => e = f
  /\ \A w \in Watchers :
       /\ \A e \in watch[w].prefix : e.type = "Added"
       /\ watch[w].pc \in {"idle", "snapshot", "registering"} =>
            \A c \in Changes : watch[w].accepted[c] = 0
       /\ \A c \in Changes : watch[w].accepted[c] # 0 =>
            /\ c[1] <= versionCounter
            /\ \A k \in Keys : isLive(k) /\ cache[k].rv = c[1] => c[2] = "written"

OnceInv == AtMostOnce /\ AcceptInv

(* The numbers that Copies adds up are numbers.                            *)
LEMMA CopiesType ==
  ASSUME TypeOK, NEW w \in Watchers, NEW c \in Changes
  PROVE  /\ Count(incoming, c) \in Nat /\ Count(watch[w].result, c) \in Nat
         /\ watch[w].accepted[c] \in Nat
         /\ Copies(w, c) \in Nat
<1>1. /\ incoming \in Seq(Event) /\ watch[w].result \in Seq(Event)
      /\ watch[w].accepted[c] \in Nat
  BY DEF TypeOK, WatchState
<1>2. Count(incoming, c) \in Nat /\ Count(watch[w].result, c) \in Nat
  BY <1>1, CountType
<1>3. Copies(w, c) \in Nat
  BY <1>1, <1>2, SMTT(60) DEF Copies, One
<1>4. QED BY <1>1, <1>2, <1>3

(* The same of all watchers and changes, before a step and after it.       *)
CopiesAreNat == \A w \in Watchers, c \in Changes : Copies(w, c) \in Nat
LEMMA CopiesNat == TypeOK' => CopiesAreNat'
<1>1. TypeOK => CopiesAreNat
  BY CopiesType DEF CopiesAreNat
<1>2. QED BY <1>1, PTL

(* Steps after which no watch is told of a change more often, except of    *)
(* one that it is told of only once.                                       *)
LEMMA NoMoreCopies ==
  ASSUME TypeOK, TypeOK', AtMostOnce,
         \A w \in Watchers : receiving(w)' => \A c \in Changes :
            Copies(w, c)' <= 1
            \/ (receiving(w) /\ watch'[w].prefix = watch[w].prefix
                  /\ Copies(w, c)' <= Copies(w, c))
  PROVE  AtMostOnce'
<1> SUFFICES ASSUME NEW w \in Watchers, receiving(w)', NEW c \in Changes
             PROVE  Copies(w, c)' <= Allowed(w, c)'
  BY DEF AtMostOnce, Copies, Allowed
<1>1. receiving(w) => Copies(w, c) <= Allowed(w, c)
  BY DEF AtMostOnce, Copies, Allowed
<1>2. Copies(w, c) \in Nat
  BY CopiesType
<1>3. Copies(w, c)' \in Nat
  BY CopiesNat DEF CopiesAreNat
<1>4. Allowed(w, c)' \in {1, 2} /\ Allowed(w, c) \in {1, 2}
  BY DEF Allowed, One
<1>5. CASE Copies(w, c)' <= 1
  BY <1>3, <1>4, <1>5
<1>6. CASE /\ receiving(w) /\ watch'[w].prefix = watch[w].prefix
           /\ Copies(w, c)' <= Copies(w, c)
  <2>1. Allowed(w, c)' = Allowed(w, c)
    BY <1>6 DEF Allowed
  <2>2. QED BY <1>1, <1>2, <1>3, <1>4, <1>6, <2>1
<1>7. QED BY <1>5, <1>6

LEMMA SameCopies ==
  ASSUME AtMostOnce, UNCHANGED <<actions, incoming, dist, watch>>
  PROVE  AtMostOnce'
<1> SUFFICES ASSUME NEW w \in Watchers, receiving(w)', NEW c \in Changes
             PROVE  Copies(w, c)' <= Allowed(w, c)'
  BY DEF AtMostOnce, Copies, Allowed
<1>1. receiving(w)
  BY DEF receiving
<1>2. Copies(w, c) <= Allowed(w, c)
  BY <1>1 DEF AtMostOnce, Copies, Allowed
<1>3. Copies(w, c)' = Copies(w, c) /\ Allowed(w, c)' = Allowed(w, c)
  BY DEF Copies, Allowed
<1>4. QED BY <1>2, <1>3

(* An event of a new change is in no other place.                          *)
LEMMA OnceSpawned ==
  ASSUME StoreInv, StoreInv', AtMostOnce, NEW events \in SUBSET Event,
         \A e \in events : \A f \in KnownEvents : change(e) # change(f),
         \A e \in events : \A w \in Watchers : watch[w].accepted[change(e)] = 0,
         spawn(events), UNCHANGED broadcasterVars
  PROVE  AtMostOnce'
<1>t. TypeOK /\ TypeOK' /\ WatchInv /\ LoopInv
  BY DEF StoreInv
<1>1. \A w \in Watchers :
        /\ watch'[w].result = watch[w].result /\ watch'[w].held = watch[w].held
        /\ watch'[w].pc = watch[w].pc /\ watch'[w].accepted = watch[w].accepted
        /\ watch'[w].prefix = watch[w].prefix
  BY <1>t DEF spawn, TypeOK, WatchState
<1>2. actions' = actions \union events /\ UNCHANGED <<incoming, dist>>
  BY DEF spawn, broadcasterVars
<1>3. ASSUME NEW w \in Watchers, receiving(w)', NEW c \in Changes
      PROVE  Copies(w, c)' <= 1
             \/ (receiving(w) /\ watch'[w].prefix = watch[w].prefix
                   /\ Copies(w, c)' <= Copies(w, c))
  <2>0. /\ watch'[w].result = watch[w].result /\ watch'[w].held = watch[w].held
        /\ watch'[w].pc = watch[w].pc /\ watch'[w].accepted = watch[w].accepted
        /\ watch'[w].prefix = watch[w].prefix
    BY <1>1
  <2>1. CASE \E e \in events : change(e) = c
    <3>1. \A f \in KnownEvents : change(f) # c
      BY <2>1
    <3>2. watch[w].accepted[c] = 0
      BY <2>1
    <3>3. /\ \A f \in Range(incoming) : f \in KnownEvents
          /\ \A f \in Range(watch[w].result) : f \in KnownEvents
          /\ w \in dist.todo => dist.ev \in KnownEvents
          /\ watch[w].pc = "callback" => watch[w].held \in KnownEvents
      <4>1. incoming \in Seq(Event) /\ watch[w].result \in Seq(Event)
        BY <1>t DEF TypeOK, WatchState
      <4>2. /\ Range(incoming) \subseteq Event /\ Range(watch[w].result) \subseteq Event
            /\ w \in dist.todo => dist.ev \in Event
            /\ watch[w].pc = "callback" => watch[w].held \in Event
        BY <4>1, <1>t DEF Range, LoopInv, WatchInv
      <4>3. \A f \in Event : f # NoEvent
        BY DEF Event, NoEvent
      <4>4. QED BY <4>2, <4>3, KnownEvent DEF WatchEvents
    <3>4. incoming \in Seq(Event) /\ watch[w].result \in Seq(Event)
      BY <1>t DEF TypeOK, WatchState
    <3>5. Count(incoming, c) = 0 /\ Count(watch[w].result, c) = 0
      BY <3>1, <3>3, <3>4, CountType
    <3>6. /\ One(w \in dist.todo /\ change(dist.ev) = c) = 0
          /\ One(watch[w].pc = "callback" /\ change(watch[w].held) = c) = 0
      BY <3>1, <3>3 DEF One
    <3>7. One(\E e \in actions' : change(e) = c) <= 1
      BY DEF One
    <3>8. One(\E e \in actions' : change(e) = c) \in Nat
      BY DEF One
    <3> DEFINE x == One(\E e \in actions' : change(e) = c)
    <3>9. Copies(w, c)' = x + Count(incoming, c)
              + One(w \in dist.todo /\ change(dist.ev) = c) + Count(watch[w].result, c)
              + One(watch[w].pc = "callback" /\ change(watch[w].held) = c)
              + watch[w].accepted[c]
      BY ONLY <1>2, <2>0 DEF Copies
    <3> HIDE DEF x
    <3>10. x <= 1 /\ x \in Nat
      BY <3>7, <3>8 DEF x
    <3>11. QED BY ONLY <3>2, <3>5, <3>6, <3>9, <3>10
  <2>2. CASE ~\E e \in events : change(e) = c
    <3>1. receiving(w)
      BY <2>0, <1>3 DEF receiving
    <3>2. One(\E e \in actions' : change(e) = c) = One(\E e \in actions : change(e) = c)
      BY <2>2, <1>2 DEF One
    <3>3. Copies(w, c)' = Copies(w, c) /\ Copies(w, c) \in Nat
      BY <3>2, <1>2, <2>0, <1>t, CopiesType DEF Copies
    <3>4. QED BY <2>0, <3>1, <3>3
  <2>3. QED BY <2>1, <2>2
<1>4. QED BY <1>t, <1>3, NoMoreCopies

(* The changes that the events of an operation are about are new.          *)
LEMMA NewChanges ==
  ASSUME StoreInv, VersionInv, AcceptInv
  PROVE  /\ \A k \in Keys, ty \in {"Added", "Modified"} : versionCounter < MaxVersion =>
              LET e == [type |-> ty, key |-> k, rv |-> versionCounter + 1] IN
              /\ e \in Event
              /\ \A f \in KnownEvents : change(e) # change(f)
              /\ \A w \in Watchers : watch[w].accepted[change(e)] = 0
         /\ \A k \in Keys : isLive(k) =>
              LET e == [type |-> "Deleted", key |-> k, rv |-> cache[k].rv] IN
              /\ e \in Event
              /\ \A f \in KnownEvents : change(e) # change(f)
              /\ \A w \in Watchers : watch[w].accepted[change(e)] = 0
<1> USE StoreAssumption
<1>t. TypeOK /\ LiveInv
  BY DEF StoreInv
<1>v. /\ \A f \in KnownEvents : f.rv <= versionCounter
      /\ \A f \in KnownEvents : isLive(f.key) /\ f.type = "Deleted" => f.rv < cache[f.key].rv
      /\ \A f \in KnownEvents, k \in Keys : isLive(k) /\ cache[k].rv = f.rv => f.key = k
      /\ versionCounter \in Nat /\ \A k \in Keys : cache[k].rv \in Nat
  BY <1>t DEF VersionInv, VersionsUnique, TypeOK, Entry
<1>1. ASSUME NEW k \in Keys, NEW ty \in {"Added", "Modified"}, versionCounter < MaxVersion,
             NEW e, e = [type |-> ty, key |-> k, rv |-> versionCounter + 1]
      PROVE  /\ e \in Event
             /\ \A f \in KnownEvents : change(e) # change(f)
             /\ \A w \in Watchers : watch[w].accepted[change(e)] = 0
  <2>1. e \in Event /\ e.rv = versionCounter + 1
    BY <1>1, <1>v DEF Event
  <2>2. \A f \in KnownEvents : change(e) # change(f)
    <3>1. \A f \in KnownEvents : f.rv # e.rv
      BY <2>1, <1>v
    <3>2. QED BY <3>1 DEF change
  <2>3. change(e) \in Changes /\ change(e)[1] = versionCounter + 1
    BY <2>1, ChangeOf DEF change
  <2>4. ~(change(e)[1] <= versionCounter)
    BY <2>3, <1>v
  <2>5. QED BY <2>1, <2>2, <2>3, <2>4 DEF AcceptInv
<1>2. ASSUME NEW k \in Keys, isLive(k),
             NEW e, e = [type |-> "Deleted", key |-> k, rv |-> cache[k].rv]
      PROVE  /\ e \in Event
             /\ \A f \in KnownEvents : change(e) # change(f)
             /\ \A w \in Watchers : watch[w].accepted[change(e)] = 0
  <2>1. e \in Event /\ e.rv = cache[k].rv /\ e.type = "Deleted"
    <3>1. cache[k].rv \in 1..MaxVersion
      BY <1>2, <1>t DEF LiveInv, TypeOK, Entry
    <3>2. QED BY <1>2, <3>1 DEF Event
  <2>2. ASSUME NEW f \in KnownEvents PROVE change(e) # change(f)
    <3>1. SUFFICES ASSUME change(e) = change(f) PROVE FALSE
      OBVIOUS
    <3>2. f.rv = cache[k].rv /\ f.type = "Deleted"
      BY <2>1, <3>1 DEF change
    <3>3. f.key = k
      BY <3>2, <1>2, <1>v
    <3>4. QED BY <3>2, <3>3, <1>2, <1>v
  <2>3. change(e) \in Changes /\ change(e)[1] = cache[k].rv /\ change(e)[2] = "deleted"
    BY <2>1, ChangeOf DEF change
  <2>4. QED BY <2>1, <2>2, <2>3, <1>2 DEF AcceptInv
<1>3. QED BY <1>1, <1>2

LEMMA OnceOperations ==
  ASSUME StoreInv, StoreInv', VersionInv, OnceInv, Operations
  PROVE  AtMostOnce'
<1>o. AtMostOnce /\ AcceptInv
  BY DEF OnceInv
<1>w. ASSUME NEW k \in Keys, NEW ty \in {"Added", "Modified"}, NEW nb,
             versionCounter < MaxVersion, UNCHANGED broadcasterVars,
             spawn(IF nb THEN {} ELSE {[type |-> ty, key |-> k, rv |-> versionCounter + 1]})
      PROVE  AtMostOnce'
  <2> DEFINE e == [type |-> ty, key |-> k, rv |-> versionCounter + 1]
             E == IF nb THEN {} ELSE {e}
  <2>1. /\ e \in Event
        /\ \A f \in KnownEvents : change(e) # change(f)
        /\ \A w \in Watchers : watch[w].accepted[change(e)] = 0
    BY <1>w, <1>o, NewChanges
  <2> HIDE DEF e
  <2>2. /\ E \in SUBSET Event
        /\ \A d \in E : \A f \in KnownEvents : change(d) # change(f)
        /\ \A d \in E : \A w \in Watchers : watch[w].accepted[change(d)] = 0
    BY <2>1
  <2> HIDE DEF E
  <2>3. spawn(E)
    BY <1>w DEF E, e
  <2>4. QED BY <1>w, <1>o, <2>2, <2>3, OnceSpawned
<1>1. ASSUME NEW k \in Keys, NEW nb \in NoBroadcastOpts, Add(k, nb) PROVE AtMostOnce'
  BY <1>1, <1>w DEF Add
<1>2. ASSUME NEW k \in Keys, NEW nb \in NoBroadcastOpts, Update(k, nb) PROVE AtMostOnce'
  BY <1>2, <1>w DEF Update
<1>d. ASSUME NEW ks \in SUBSET Keys, \A k \in ks : isLive(k), spawn(deletedEvents(ks)),
             UNCHANGED broadcasterVars
      PROVE  AtMostOnce'
  <2> DEFINE e(k) == [type |-> "Deleted", key |-> k, rv |-> cache[k].rv]
  <2>1. \A k \in ks :
          /\ e(k) \in Event
          /\ \A f \in KnownEvents : change(e(k)) # change(f)
          /\ \A w \in Watchers : watch[w].accepted[change(e(k))] = 0
    BY <1>d, <1>o, NewChanges
  <2>2. \A d \in deletedEvents(ks) : \E k \in ks : d = e(k)
    BY DEF deletedEvents
  <2> HIDE DEF e
  <2>3. /\ deletedEvents(ks) \in SUBSET Event
        /\ \A d \in deletedEvents(ks) : \A f \in KnownEvents : change(d) # change(f)
        /\ \A d \in deletedEvents(ks) : \A w \in Watchers : watch[w].accepted[change(d)] = 0
    BY <2>1, <2>2
  <2>4. QED BY <1>d, <1>o, <2>3, OnceSpawned
<1>3. ASSUME NEW k \in Keys, NEW mark \in BOOLEAN, Delete(k, mark) PROVE AtMostOnce'
  <2>1. isLive(k)
    BY <1>3 DEF Delete, GetByKey
  <2>2. QED BY <1>3, <1>d, <2>1 DEF Delete
<1>4. ASSUME NEW match \in SUBSET Keys, NEW mark \in BOOLEAN, DeleteObjects(match, mark)
      PROVE  AtMostOnce'
  <2>1. match \intersect filterOutTombstones \in SUBSET Keys
        /\ \A k \in match \intersect filterOutTombstones : isLive(k)
    BY DEF filterOutTombstones
  <2>2. QED BY <1>4, <1>d, <2>1 DEF DeleteObjects
<1>5. ASSUME Reset \/ Close PROVE AtMostOnce'
  BY <1>5, <1>o, SameCopies DEF Reset, Close, broadcasterVars
<1>6. QED BY <1>1, <1>2, <1>3, <1>4, <1>5 DEF Operations

(* The broadcaster moves an event from one place to the next.              *)
LEMMA OnceBroadcaster ==
  ASSUME StoreInv, StoreInv', VersionInv, OnceInv, BroadcasterSteps
  PROVE  AtMostOnce'
<1>t. TypeOK /\ TypeOK' /\ WatchInv /\ LoopInv /\ AtMostOnce /\ AcceptInv
  BY DEF StoreInv, OnceInv
<1>q. incoming \in Seq(Event)
  BY <1>t DEF TypeOK
<1>1. ASSUME NEW e \in actions, BroadcastAction(e) PROVE AtMostOnce'
  <2>1. /\ actions' = actions \ {e} /\ UNCHANGED <<dist, watch>>
        /\ incoming' = incoming \/ incoming' = Append(incoming, e)
    BY <1>1 DEF BroadcastAction
  <2>2. ASSUME NEW w \in Watchers, NEW c \in Changes PROVE Copies(w, c)' <= Copies(w, c)
    <3> DEFINE a == One(\E f \in actions : change(f) = c)
               b == One(\E f \in actions' : change(f) = c)
               x == One(change(e) = c)
               n == Count(incoming, c)
               m == Count(incoming', c)
               o == One(w \in dist.todo /\ change(dist.ev) = c)
               h == One(watch[w].pc = "callback" /\ change(watch[w].held) = c)
               q == Count(watch[w].result, c)
               g == watch[w].accepted[c]
    <3>1. n \in Nat /\ q \in Nat /\ g \in Nat
      BY <1>t, CopiesType
    <3>2. Count(Append(incoming, e), c) = n + x
      BY <1>q, <1>t, CountAppend DEF TypeOK
    <3>3. b + x = a
      <4>1. \A f \in actions : change(f) = change(e) => f = e
        BY <1>t DEF AcceptInv
      <4>2. CASE change(e) = c
        BY <2>1, <4>1, <4>2 DEF One
      <4>3. CASE change(e) # c
        BY <2>1, <4>3 DEF One
      <4>4. QED BY <4>2, <4>3
    <3>4. a \in Nat /\ b \in Nat /\ x \in Nat /\ o \in Nat /\ h \in Nat
      BY DEF One
    <3>5. m <= n + x /\ m \in Nat
      <4>1. m = n \/ m = n + x
        BY <2>1, <3>2
      <4>2. QED BY ONLY <4>1, <3>1, <3>4
    <3>6. Copies(w, c) = a + n + o + q + h + g
      BY DEF Copies
    <3>7. Copies(w, c)' = b + m + o + q + h + g
      BY ONLY <2>1 DEF Copies
    <3> HIDE DEF a, b, x, n, m, o, h, q, g
    <3>8. QED BY ONLY <3>1, <3>3, <3>4, <3>5, <3>6, <3>7
  <2>3. QED BY <1>t, <2>1, <2>2, NoMoreCopies DEF receiving
<1>2. ASSUME LoopTake PROVE AtMostOnce'
  <2> DEFINE e == Head(incoming)
  <2>1. /\ incoming # <<>> /\ dist.todo = {} /\ incoming' = Tail(incoming)
        /\ dist' = handing(e, registeredWatchers) /\ UNCHANGED <<actions, watch>>
    BY <1>2 DEF LoopTake, loopIdle
  <2>2. ASSUME NEW w \in Watchers, NEW c \in Changes PROVE Copies(w, c)' <= Copies(w, c)
    <3> DEFINE a == One(\E f \in actions : change(f) = c)
               x == One(change(e) = c)
               n == Count(incoming, c)
               m == Count(incoming', c)
               o == One(w \in dist.todo /\ change(dist.ev) = c)
               p == One(w \in dist'.todo /\ change(dist'.ev) = c)
               h == One(watch[w].pc = "callback" /\ change(watch[w].held) = c)
               q == Count(watch[w].result, c)
               g == watch[w].accepted[c]
    <3>1. n = m + x
      BY <1>q, <2>1, CountTail
    <3>2. m \in Nat /\ q \in Nat /\ g \in Nat
      <4>1. incoming' \in Seq(Event)
        BY <1>t DEF TypeOK
      <4>2. QED BY <4>1, <1>t, CountType, CopiesType
    <3>3. p <= x
      BY <2>1 DEF handing, One
    <3>4. o = 0
      BY <2>1 DEF One
    <3>5. a \in Nat /\ x \in Nat /\ p \in Nat /\ h \in Nat
      BY DEF One
    <3>6. Copies(w, c) = a + n + o + q + h + g
      BY DEF Copies
    <3>7. Copies(w, c)' = a + m + p + q + h + g
      BY ONLY <2>1 DEF Copies
    <3> HIDE DEF a, x, n, m, o, p, h, q, g
    <3>8. QED BY ONLY <3>1, <3>2, <3>3, <3>4, <3>5, <3>6, <3>7
  <2>3. QED BY <1>t, <2>1, <2>2, NoMoreCopies DEF receiving
<1>3. ASSUME NEW w \in Watchers, LoopSend(w) PROVE AtMostOnce'
  <2>1. /\ w \in dist.todo /\ dist' = handing(dist.ev, dist.todo \ {w})
        /\ UNCHANGED <<actions, incoming>> /\ dist.ev \in Event
    BY <1>3, <1>t DEF LoopSend, LoopInv
  <2>d. /\ dist'.todo = dist.todo \ {w}
        /\ \A v \in Watchers : v \in dist'.todo => dist'.ev = dist.ev
    BY <2>1 DEF handing
  <2>s. watch[w] \in WatchState /\ watch[w].result \in Seq(Event)
    BY <1>t DEF TypeOK, WatchState
  <2>o. ASSUME NEW v \in Watchers, watch'[v] = watch[v], NEW c \in Changes
        PROVE  Copies(v, c)' <= Copies(v, c)
    <3> DEFINE a == One(\E f \in actions : change(f) = c)
               n == Count(incoming, c)
               o == One(v \in dist.todo /\ change(dist.ev) = c)
               p == One(v \in dist'.todo /\ change(dist'.ev) = c)
               h == One(watch[v].pc = "callback" /\ change(watch[v].held) = c)
               q == Count(watch[v].result, c)
               g == watch[v].accepted[c]
    <3>1. n \in Nat /\ q \in Nat /\ g \in Nat
      BY <1>t, CopiesType
    <3>2. p <= o
      BY <2>d DEF One
    <3>3. a \in Nat /\ o \in Nat /\ p \in Nat /\ h \in Nat
      BY DEF One
    <3>4. Copies(v, c) = a + n + o + q + h + g
      BY DEF Copies
    <3>5. Copies(v, c)' = a + n + p + q + h + g
      BY ONLY <2>1, <2>o DEF Copies
    <3> HIDE DEF a, n, o, p, h, q, g
    <3>6. QED BY ONLY <3>1, <3>2, <3>3, <3>4, <3>5
  <2>2. CASE watch' = [watch EXCEPT ![w].result = Append(@, dist.ev)]
    <3>1. /\ watch'[w].result = Append(watch[w].result, dist.ev)
          /\ watch'[w].held = watch[w].held /\ watch'[w].accepted = watch[w].accepted
          /\ watch'[w].pc = watch[w].pc /\ watch'[w].prefix = watch[w].prefix
          /\ \A v \in Watchers \ {w} : watch'[v] = watch[v]
      BY <2>2, <2>s, <1>t DEF TypeOK, WatchState
    <3>2. ASSUME NEW c \in Changes PROVE Copies(w, c)' <= Copies(w, c)
      <4> DEFINE a == One(\E f \in actions : change(f) = c)
                 x == One(change(dist.ev) = c)
                 n == Count(incoming, c)
                 o == One(w \in dist.todo /\ change(dist.ev) = c)
                 p == One(w \in dist'.todo /\ change(dist'.ev) = c)
                 h == One(watch[w].pc = "callback" /\ change(watch[w].held) = c)
                 q == Count(watch[w].result, c)
                 u == Count(watch'[w].result, c)
                 g == watch[w].accepted[c]
      <4>1. n \in Nat /\ q \in Nat /\ g \in Nat
        BY <1>t, CopiesType
      <4>2. u = q + x
        BY <2>1, <2>s, <3>1, CountAppend
      <4>3. p = 0 /\ o = x
        BY <2>d, <2>1 DEF One
      <4>4. a \in Nat /\ x \in Nat /\ h \in Nat
        BY DEF One
      <4>5. Copies(w, c) = a + n + o + q + h + g
        BY DEF Copies
      <4>6. Copies(w, c)' = a + n + p + u + h + g
        BY ONLY <2>1, <3>1 DEF Copies
      <4> HIDE DEF a, x, n, o, p, h, q, u, g
      <4>7. QED BY ONLY <4>1, <4>2, <4>3, <4>4, <4>5, <4>6
    <3>3. ASSUME NEW v \in Watchers, receiving(v)', NEW c \in Changes
          PROVE  /\ receiving(v) /\ watch'[v].prefix = watch[v].prefix
                 /\ Copies(v, c)' <= Copies(v, c)
      <4>1. CASE v = w
        BY <4>1, <3>1, <3>2, <3>3 DEF receiving
      <4>2. CASE v # w
        <5>1. watch'[v] = watch[v]
          BY <4>2, <3>1
        <5>2. QED BY <5>1, <3>3, <2>o DEF receiving
      <4>3. QED BY <4>1, <4>2
    <3>4. QED BY <1>t, <3>3, NoMoreCopies
  <2>3. CASE watch[w].stop /\ UNCHANGED watch
    BY <1>t, <2>3, <2>o, NoMoreCopies DEF receiving
  <2>4. QED BY <1>3, <2>2, <2>3 DEF LoopSend
<1>4. ASSUME Shutdown PROVE AtMostOnce'
  BY <1>4, <1>t, SameCopies DEF Shutdown
<1>5. ASSUME LoopShutdown PROVE AtMostOnce'
  <2>1. /\ UNCHANGED <<actions, incoming, dist>>
        /\ \A w \in Watchers :
             /\ watch'[w].result = watch[w].result /\ watch'[w].held = watch[w].held
             /\ watch'[w].pc = watch[w].pc /\ watch'[w].accepted = watch[w].accepted
             /\ watch'[w].prefix = watch[w].prefix
    BY <1>5, <1>t DEF LoopShutdown, TypeOK, WatchState
  <2>2. ASSUME NEW w \in Watchers, NEW c \in Changes
        PROVE  Copies(w, c)' = Copies(w, c) /\ Copies(w, c) \in Nat
    <3>1. /\ watch'[w].result = watch[w].result /\ watch'[w].held = watch[w].held
          /\ watch'[w].pc = watch[w].pc /\ watch'[w].accepted = watch[w].accepted
      BY <2>1
    <3>2. Copies(w, c)' = Copies(w, c)
      BY ONLY <2>1, <3>1 DEF Copies
    <3>3. QED BY <3>2, <1>t, CopiesType
  <2>3. QED BY <1>t, <2>1, <2>2, NoMoreCopies DEF receiving
<1>6. ASSUME NEW w \in Watchers, LoopRegister(w) PROVE AtMostOnce'
  <2>1. PICK queued \in Orderings(watch[w].prefix) :
          watch' = [watch EXCEPT ![w].pc = "selecting", ![w].registered = TRUE,
                                 ![w].result = queued, ![w].cap = capacity(queued)]
    BY <1>6 DEF LoopRegister
  <2>2. watch[w].pc = "registering" /\ dist.todo = {} /\ incoming = <<>>
    BY <1>6, <1>t DEF LoopRegister, LoopRuns, LoopInv, loopIdle
  <2>3. /\ watch'[w].pc = "selecting" /\ watch'[w].result = queued
        /\ watch'[w].prefix = watch[w].prefix /\ watch'[w].accepted = watch[w].accepted
        /\ \A v \in Watchers \ {w} : watch'[v] = watch[v]
        /\ UNCHANGED <<actions, incoming, dist>>
    BY <1>6, <2>1, <1>t DEF LoopRegister, storeVars, TypeOK, WatchState
  <2>4. ASSUME NEW v \in Watchers, v # w, receiving(v)', NEW c \in Changes
        PROVE  Copies(v, c)' <= Allowed(v, c)'
    <3>1. watch'[v] = watch[v] /\ receiving(v)
      BY <2>3, <2>4 DEF receiving
    <3>2. Copies(v, c) <= Allowed(v, c)
      BY <3>1, <1>t DEF AtMostOnce, Copies, Allowed
    <3>3. Copies(v, c)' = Copies(v, c) /\ Allowed(v, c)' = Allowed(v, c)
      BY ONLY <3>1, <2>3 DEF Copies, Allowed
    <3>4. QED BY <3>2, <3>3
  <2>5. ASSUME NEW c \in Changes PROVE Copies(w, c)' <= Allowed(w, c)'
    <3> DEFINE a == One(\E f \in actions : change(f) = c)
               y == One(\E f \in watch[w].prefix : change(f) = c)
    <3>1. IsFiniteSet(watch[w].prefix) /\ watch[w].prefix \in SUBSET Event
      BY <1>t DEF WatchInv, TypeOK, WatchState
    <3>2. \A e, f \in watch[w].prefix : change(e) = change(f) => e = f
      <4> SUFFICES ASSUME NEW e \in watch[w].prefix, NEW f \in watch[w].prefix,
                          change(e) = change(f)
                   PROVE  e = f
        OBVIOUS
      <4>1. e.type = "Added" /\ f.type = "Added" /\ e.rv = f.rv
        BY <1>t DEF AcceptInv, change
      <4>2. e \in KnownEvents /\ f \in KnownEvents
        BY <3>1, KnownEvent DEF WatchEvents, Event, NoEvent
      <4>3. e.key = f.key
        BY <4>1, <4>2 DEF VersionInv, VersionsUnique
      <4>4. QED BY <3>1, <4>1, <4>3 DEF Event
    <3>3. Count(queued, c) <= y
      BY <3>1, <3>2, CountOrdering
    <3>4. Count(queued, c) \in Nat
      BY <3>1, OrderingOf, CountType
    <3>5. watch[w].accepted[c] = 0
      BY <2>2, <1>t DEF AcceptInv
    <3>6. Count(incoming, c) = 0
      <4>1. Range(incoming) = {}
        BY <2>2 DEF Range
      <4>2. QED BY <4>1, <1>q, CountType
    <3>7. /\ a \in {0, 1} /\ y \in {0, 1}
          /\ One(w \in dist.todo /\ change(dist.ev) = c) = 0
          /\ One("selecting" = "callback" /\ change(watch'[w].held) = c) = 0
      BY <2>2 DEF One
    <3>8. Copies(w, c)' = a + Count(incoming, c)
              + One(w \in dist.todo /\ change(dist.ev) = c) + Count(queued, c)
              + One("selecting" = "callback" /\ change(watch'[w].held) = c)
              + watch[w].accepted[c]
      BY ONLY <2>3 DEF Copies
    <3>9. Allowed(w, c)' = 1 + y
      BY ONLY <2>3 DEF Allowed
    <3> HIDE DEF a, y
    <3>10. QED BY ONLY <3>3, <3>4, <3>5, <3>6, <3>7, <3>8, <3>9
  <2>6. \A v \in Watchers : receiving(v)' => \A c \in Changes : Copies(v, c)' <= Allowed(v, c)'
    BY <2>4, <2>5
  <2>7. QED BY <2>6 DEF AtMostOnce, Copies, Allowed
<1>7. ASSUME NEW w \in Watchers, LoopUnregister(w) PROVE AtMostOnce'
  <2>1. /\ ~receiving(w)' /\ \A v \in Watchers \ {w} : watch'[v] = watch[v]
        /\ UNCHANGED <<actions, incoming, dist>>
    BY <1>7, <1>t, ReturnedState DEF LoopUnregister, storeVars, TypeOK, receiving
  <2>2. ASSUME NEW v \in Watchers, receiving(v)', NEW c \in Changes
        PROVE  watch'[v] = watch[v] /\ Copies(v, c)' <= Copies(v, c)
    <3>1. watch'[v] = watch[v]
      BY <2>1, <2>2
    <3>2. Copies(v, c)' = Copies(v, c) /\ Copies(v, c) \in Nat
      BY <2>1, <3>1, <1>t, CopiesType DEF Copies
    <3>3. QED BY <3>1, <3>2
  <2>3. QED BY <1>t, <2>2, NoMoreCopies DEF receiving
<1>8. QED BY <1>1, <1>2, <1>3, <1>4, <1>5, <1>6, <1>7 DEF BroadcasterSteps

(* A Watch call passes the head of its channel to its callback or skips it.*)
LEMMA OnceWatches ==
  ASSUME StoreInv, StoreInv', OnceInv, WatchSteps
  PROVE  AtMostOnce'
<1>t. TypeOK /\ TypeOK' /\ WatchInv /\ AtMostOnce
  BY DEF StoreInv, OnceInv
<1>w. PICK w \in Watchers :
        \/ \E start \in 0..MaxVersion : WatchBegin(w, start)
        \/ WatchRegister(w) \/ WatchReceive(w) \/ CallbackDelivers(w) \/ CallbackFails(w)
        \/ WatchClosed(w) \/ WatchTimeout(w) \/ WatchStop(w)
  BY DEF WatchSteps
<1>u. UNCHANGED <<actions, incoming, dist>>
  BY DEF WatchSteps, WatchBegin, WatchRegister, WatchReceive, CallbackDelivers, CallbackFails,
         WatchClosed, WatchTimeout, WatchStop, storeVars, broadcasterVars
<1>s. watch[w] \in WatchState
  BY <1>t DEF TypeOK
<1>k. ASSUME \A v \in Watchers \ {w} : watch'[v] = watch[v],
             receiving(w)' => /\ receiving(w) /\ watch'[w].prefix = watch[w].prefix
                              /\ \A c \in Changes : Copies(w, c)' <= Copies(w, c)
      PROVE  AtMostOnce'
  <2>1. ASSUME NEW v \in Watchers, receiving(v)', NEW c \in Changes
        PROVE  /\ receiving(v) /\ watch'[v].prefix = watch[v].prefix
               /\ Copies(v, c)' <= Copies(v, c)
    <3>1. CASE v = w
      BY <1>k, <2>1, <3>1
    <3>2. CASE v # w
      <4>1. watch'[v] = watch[v]
        BY <1>k, <3>2
      <4>2. Copies(v, c)' = Copies(v, c) /\ Copies(v, c) \in Nat
        BY <4>1, <1>u, <1>t, CopiesType DEF Copies
      <4>3. QED BY <2>1, <4>1, <4>2 DEF receiving
    <3>3. QED BY <3>1, <3>2
  <2>2. QED BY <1>t, <2>1, NoMoreCopies
<1>1. ASSUME NEW start \in 0..MaxVersion, WatchBegin(w, start) PROVE AtMostOnce'
  <2>1. (\A v \in Watchers \ {w} : watch'[v] = watch[v]) /\ watch'[w].pc = "snapshot"
    BY <1>1, <1>s, <1>t DEF WatchBegin, TypeOK, WatchState
  <2>2. QED BY <1>k, <2>1 DEF receiving
<1>2. ASSUME WatchRegister(w) PROVE AtMostOnce'
  <2>1. (\A v \in Watchers \ {w} : watch'[v] = watch[v])
        /\ watch'[w].pc \in {"registering", "returned"}
    BY <1>2, <1>s, <1>t, ReturnedState DEF WatchRegister, TypeOK, WatchState
  <2>2. QED BY <1>k, <2>1 DEF receiving
<1>3. ASSUME WatchReceive(w) PROVE AtMostOnce'
  <2> DEFINE e == Head(watch[w].result)
  <2>1. watch[w].result \in Seq(Event) /\ watch[w].result # <<>> /\ watch[w].pc = "selecting"
    BY <1>3, <1>s DEF WatchReceive, WatchState
  <2>2. /\ \A v \in Watchers \ {w} : watch'[v] = watch[v]
        /\ watch'[w].result = Tail(watch[w].result)
        /\ watch'[w].prefix = watch[w].prefix /\ watch'[w].accepted = watch[w].accepted
    BY <1>3, <1>s, <1>t DEF WatchReceive, TypeOK, WatchState
  <2>3. watch'[w].pc = "callback" => watch'[w].held = e
    <3>1. /\ watch'[w].pc = IF shouldSkipObject(w, watch[w].start, e) THEN "selecting" ELSE "callback"
          /\ watch'[w].held = IF shouldSkipObject(w, watch[w].start, e) THEN NoEvent ELSE e
      BY <1>3, <1>s, <1>t DEF WatchReceive, TypeOK, WatchState
    <3> HIDE DEF e
    <3>2. QED BY <3>1
  <2>4. ASSUME NEW c \in Changes PROVE Copies(w, c)' <= Copies(w, c)
    <3> DEFINE a == One(\E f \in actions : change(f) = c)
               n == Count(incoming, c)
               o == One(w \in dist.todo /\ change(dist.ev) = c)
               x == One(change(e) = c)
               q == Count(watch[w].result, c)
               u == Count(watch'[w].result, c)
               h == One(watch[w].pc = "callback" /\ change(watch[w].held) = c)
               i == One(watch'[w].pc = "callback" /\ change(watch'[w].held) = c)
               g == watch[w].accepted[c]
    <3>1. n \in Nat /\ q \in Nat /\ g \in Nat
      BY <1>t, CopiesType
    <3>2. q = u + x
      BY <2>1, <2>2, CountTail
    <3>3. u \in Nat
      <4>1. watch'[w].result \in Seq(Event)
        BY <1>t DEF TypeOK, WatchState
      <4>2. QED BY <4>1, CountType
    <3>4. i <= x /\ h = 0
      BY <2>1, <2>3 DEF One
    <3>5. a \in Nat /\ o \in Nat /\ x \in Nat /\ i \in Nat
      BY DEF One
    <3>6. Copies(w, c) = a + n + o + q + h + g
      BY DEF Copies
    <3>7. Copies(w, c)' = a + n + o + u + i + g
      BY ONLY <1>u, <2>2 DEF Copies
    <3> HIDE DEF a, n, o, x, q, u, h, i, g
    <3>8. QED BY ONLY <3>1, <3>2, <3>3, <3>4, <3>5, <3>6, <3>7
  <2>5. QED BY <1>k, <2>1, <2>2, <2>4 DEF receiving
<1>4. ASSUME CallbackDelivers(w) PROVE AtMostOnce'
  <2> DEFINE d == change(watch[w].held)
  <2>1. /\ \A v \in Watchers \ {w} : watch'[v] = watch[v]
        /\ watch'[w].result = watch[w].result /\ watch'[w].prefix = watch[w].prefix
        /\ watch'[w].pc = "selecting" /\ watch[w].pc = "callback"
    BY <1>4, <1>s, <1>t DEF CallbackDelivers, TypeOK, WatchState
  <2>2. d \in Changes
    BY <2>1, <1>t, ChangeOf DEF WatchInv
  <2>3. \A c \in Changes : watch'[w].accepted[c] = watch[w].accepted[c] + One(d = c)
    <3>1. watch[w].accepted \in [Changes -> Nat]
      BY <1>s DEF WatchState
    <3>2. watch'[w].accepted = [watch[w].accepted EXCEPT ![d] = @ + 1]
      BY <1>4, <1>s, <1>t DEF CallbackDelivers, TypeOK, WatchState
    <3> HIDE DEF d
    <3>3. QED BY <2>2, <3>1, <3>2 DEF One
  <2>4. ASSUME NEW c \in Changes PROVE Copies(w, c)' <= Copies(w, c)
    <3> DEFINE a == One(\E f \in actions : change(f) = c)
               n == Count(incoming, c)
               o == One(w \in dist.todo /\ change(dist.ev) = c)
               q == Count(watch[w].result, c)
               h == One(watch[w].pc = "callback" /\ change(watch[w].held) = c)
               i == One(watch'[w].pc = "callback" /\ change(watch'[w].held) = c)
               g == watch[w].accepted[c]
               j == watch'[w].accepted[c]
    <3>1. n \in Nat /\ q \in Nat /\ g \in Nat
      BY <1>t, CopiesType
    <3>2. h = One(d = c) /\ i = 0
      BY <2>1 DEF One
    <3>3. j = g + h
      BY <2>3, <3>2
    <3>4. a \in Nat /\ o \in Nat /\ h \in Nat
      BY DEF One
    <3>5. Copies(w, c) = a + n + o + q + h + g
      BY DEF Copies
    <3>6. Copies(w, c)' = a + n + o + q + i + j
      BY ONLY <1>u, <2>1 DEF Copies
    <3>7. i = 0
      BY <3>2
    <3> HIDE DEF a, n, o, q, h, i, g, j
    <3>8. QED BY ONLY <3>1, <3>3, <3>4, <3>5, <3>6, <3>7
  <2>5. QED BY <1>k, <2>1, <2>4 DEF receiving
<1>5. ASSUME CallbackFails(w) \/ WatchClosed(w) \/ WatchTimeout(w) PROVE AtMostOnce'
  <2>1. (\A v \in Watchers \ {w} : watch'[v] = watch[v]) /\ watch'[w].pc = "stopping"
    BY <1>5, <1>s, <1>t DEF CallbackFails, WatchClosed, WatchTimeout, TypeOK, WatchState
  <2>2. QED BY <1>k, <2>1 DEF receiving
<1>6. ASSUME WatchStop(w) PROVE AtMostOnce'
  <2>1. (\A v \in Watchers \ {w} : watch'[v] = watch[v])
        /\ watch'[w].pc \in {"stopping", "returned"}
    BY <1>6, <1>s, <1>t, ReturnedState DEF WatchStop, TypeOK, WatchState
  <2>2. QED BY <1>k, <2>1 DEF receiving
<1>7. QED BY <1>w, <1>1, <1>2, <1>3, <1>4, <1>5, <1>6

-----------------------------------------------------------------------------
(* An operation starts goroutines for new changes only.                    *)
LEMMA AcceptSpawned ==
  ASSUME StoreInv, AcceptInv, NEW events \in SUBSET Event,
         \A e \in events : \A f \in KnownEvents : change(e) # change(f),
         \A e, f \in events : change(e) = change(f) => e = f,
         spawn(events), versionCounter <= versionCounter', versionCounter' \in Nat,
         \A k \in Keys : isLive(k)' =>
           (isLive(k) /\ cache'[k] = cache[k]) \/ versionCounter < cache'[k].rv
  PROVE  AcceptInv'
<1>t. TypeOK /\ versionCounter \in Nat
  BY StoreAssumption DEF StoreInv, TypeOK
<1>1. \A w \in Watchers :
        /\ watch'[w].pc = watch[w].pc /\ watch'[w].accepted = watch[w].accepted
        /\ watch'[w].prefix = watch[w].prefix
  BY <1>t DEF spawn, TypeOK, WatchState
<1>2. actions' = actions \union events
  BY DEF spawn
<1>3. actions \subseteq KnownEvents
  <2>1. actions \subseteq Event
    BY <1>t DEF TypeOK
  <2>2. \A f \in Event : f # NoEvent
    BY DEF Event, NoEvent
  <2>3. QED BY <2>1, <2>2, KnownEvent
<1>4. \A e, f \in actions' : change(e) = change(f) => e = f
  <2>1. \A e, f \in actions : change(e) = change(f) => e = f
    BY DEF AcceptInv
  <2>2. QED BY <1>2, <1>3, <2>1
<1>5. ASSUME NEW w \in Watchers
      PROVE  /\ \A e \in watch'[w].prefix : e.type = "Added"
             /\ watch'[w].pc \in {"idle", "snapshot", "registering"} =>
                  \A c \in Changes : watch'[w].accepted[c] = 0
  BY <1>1 DEF AcceptInv
<1>6. ASSUME NEW w \in Watchers, NEW c \in Changes, watch'[w].accepted[c] # 0
      PROVE  /\ c[1] <= versionCounter'
             /\ \A k \in Keys : isLive(k)' /\ cache'[k].rv = c[1] => c[2] = "written"
  <2>1. /\ c[1] <= versionCounter /\ c[1] \in Nat
        /\ \A k \in Keys : isLive(k) /\ cache[k].rv = c[1] => c[2] = "written"
    BY <1>1, <1>6, StoreAssumption DEF AcceptInv, Changes
  <2>2. c[1] <= versionCounter'
    BY <2>1, <1>t
  <2>3. ASSUME NEW k \in Keys, isLive(k)', cache'[k].rv = c[1] PROVE c[2] = "written"
    <3>1. ~(versionCounter < cache'[k].rv)
      BY <2>1, <2>3, <1>t
    <3>2. isLive(k) /\ cache'[k] = cache[k]
      BY <2>3, <3>1
    <3>3. QED BY <2>1, <2>3, <3>2
  <2>4. QED BY <2>2, <2>3
<1>7. QED BY <1>4, <1>5, <1>6 DEF AcceptInv

LEMMA AcceptOperations ==
  ASSUME StoreInv, StoreInv', VersionInv, AcceptInv, Operations
  PROVE  AcceptInv'
<1>t. TypeOK /\ TypeOK'
  BY DEF StoreInv
<1>c. versionCounter \in Nat /\ versionCounter' \in Nat
  BY <1>t, StoreAssumption DEF TypeOK
<1>w. ASSUME NEW k \in Keys, NEW ty \in {"Added", "Modified"}, NEW nb,
             versionCounter < MaxVersion, versionCounter' = versionCounter + 1,
             cache' = [cache EXCEPT ![k] = Live(versionCounter + 1)],
             spawn(IF nb THEN {} ELSE {[type |-> ty, key |-> k, rv |-> versionCounter + 1]})
      PROVE  AcceptInv'
  <2> DEFINE e == [type |-> ty, key |-> k, rv |-> versionCounter + 1]
             E == IF nb THEN {} ELSE {e}
  <2>1. e \in Event /\ \A f \in KnownEvents : change(e) # change(f)
    BY <1>w, NewChanges
  <2> HIDE DEF e
  <2>2. /\ E \in SUBSET Event
        /\ \A d \in E : \A f \in KnownEvents : change(d) # change(f)
        /\ \A d, f \in E : change(d) = change(f) => d = f
    BY <2>1
  <2> HIDE DEF E
  <2>3. spawn(E)
    BY <1>w DEF E, e
  <2>4. \A j \in Keys : isLive(j)' =>
          (isLive(j) /\ cache'[j] = cache[j]) \/ versionCounter < cache'[j].rv
    <3>1. cache'[k].rv = versionCounter + 1
          /\ \A j \in Keys \ {k} : cache'[j] = cache[j] /\ isLive(j)' = isLive(j)
      BY <1>w, <1>t DEF TypeOK, isLive, Live
    <3>2. versionCounter < cache'[k].rv
      BY <3>1, <1>c
    <3>3. QED BY <3>1, <3>2
  <2>5. versionCounter <= versionCounter'
    BY <1>w, <1>c
  <2>6. QED BY <1>c, <2>2, <2>3, <2>4, <2>5, AcceptSpawned
<1>1. ASSUME NEW k \in Keys, NEW nb \in NoBroadcastOpts, Add(k, nb) PROVE AcceptInv'
  BY <1>1, <1>w DEF Add
<1>2. ASSUME NEW k \in Keys, NEW nb \in NoBroadcastOpts, Update(k, nb) PROVE AcceptInv'
  BY <1>2, <1>w DEF Update
<1>d. ASSUME NEW ks \in SUBSET Keys, \A k \in ks : isLive(k), NEW mark \in BOOLEAN,
             spawn(deletedEvents(ks)), versionCounter' = versionCounter,
             cache' = [k \in Keys |-> IF k \in ks THEN removed(mark) ELSE cache[k]]
      PROVE  AcceptInv'
  <2>1. \A e \in deletedEvents(ks) : \E k \in ks :
          e = [type |-> "Deleted", key |-> k, rv |-> cache[k].rv]
    BY DEF deletedEvents
  <2>2. deletedEvents(ks) \in SUBSET Event
        /\ \A d \in deletedEvents(ks) : \A f \in KnownEvents : change(d) # change(f)
    BY <1>d, <2>1, NewChanges
  <2>3. \A d, f \in deletedEvents(ks) : change(d) = change(f) => d = f
    <3> SUFFICES ASSUME NEW d \in deletedEvents(ks), NEW f \in deletedEvents(ks),
                        change(d) = change(f)
                 PROVE  d = f
      OBVIOUS
    <3>1. PICK k \in ks : d = [type |-> "Deleted", key |-> k, rv |-> cache[k].rv]
      BY <2>1
    <3>2. PICK l \in ks : f = [type |-> "Deleted", key |-> l, rv |-> cache[l].rv]
      BY <2>1
    <3>3. cache[k].rv = cache[l].rv
      BY <3>1, <3>2 DEF change
    <3>4. k = l
      BY <1>d, <3>3 DEF VersionInv, VersionsUnique
    <3>5. QED BY <3>1, <3>2, <3>4
  <2>4. \A k \in Keys : isLive(k)' => isLive(k) /\ cache'[k] = cache[k]
    <3>1. removed(mark).state # "live"
      BY DEF removed, Tombstone, Absent
    <3>2. QED BY <1>d, <3>1 DEF isLive
  <2>5. versionCounter <= versionCounter'
    BY <1>d, <1>c
  <2>6. QED BY <1>d, <1>c, <2>2, <2>3, <2>4, <2>5, AcceptSpawned
<1>3. ASSUME NEW k \in Keys, NEW mark \in BOOLEAN, Delete(k, mark) PROVE AcceptInv'
  <2>1. isLive(k)
    BY <1>3 DEF Delete, GetByKey
  <2>2. cache' = [j \in Keys |-> IF j \in {k} THEN removed(mark) ELSE cache[j]]
    BY <1>3, <1>t DEF Delete, TypeOK
  <2>3. QED BY <1>3, <1>d, <2>1, <2>2 DEF Delete
<1>4. ASSUME NEW match \in SUBSET Keys, NEW mark \in BOOLEAN, DeleteObjects(match, mark)
      PROVE  AcceptInv'
  <2>1. match \intersect filterOutTombstones \in SUBSET Keys
        /\ \A k \in match \intersect filterOutTombstones : isLive(k)
    BY DEF filterOutTombstones
  <2>2. QED BY <1>4, <1>d, <2>1 DEF DeleteObjects
<1>5. ASSUME Reset \/ Close PROVE AcceptInv'
  <2>1. UNCHANGED <<actions, watch, versionCounter>> /\ cache' = [k \in Keys |-> Absent]
    BY <1>5 DEF Reset, Close
  <2>2. \A k \in Keys : ~isLive(k)'
    BY <2>1 DEF isLive, Absent
  <2>3. QED BY <2>1, <2>2 DEF AcceptInv
<1>6. QED BY <1>1, <1>2, <1>3, <1>4, <1>5 DEF Operations

(* The other steps take events from the goroutines and accept only what the*)
(* callback holds.                                                         *)
LEMMA AcceptKept ==
  ASSUME AcceptInv, UNCHANGED <<cache, versionCounter>>, actions' \subseteq actions,
         \A w \in Watchers :
           \/ /\ watch'[w].prefix = watch[w].prefix
              /\ watch'[w].accepted = watch[w].accepted
              /\ watch'[w].pc \in {"idle", "snapshot", "registering"} =>
                   watch[w].pc \in {"idle", "snapshot", "registering"}
           \/ /\ \A e \in watch'[w].prefix : e.type = "Added"
              /\ \A c \in Changes : watch'[w].accepted[c] = 0
  PROVE  AcceptInv'
<1>1. \A e, f \in actions' : change(e) = change(f) => e = f
  BY DEF AcceptInv
<1>2. \A k \in Keys : isLive(k)' = isLive(k)
  BY DEF isLive
<1>3. ASSUME NEW w \in Watchers
      PROVE  /\ \A e \in watch'[w].prefix : e.type = "Added"
             /\ watch'[w].pc \in {"idle", "snapshot", "registering"} =>
                  \A c \in Changes : watch'[w].accepted[c] = 0
  BY DEF AcceptInv
<1>4. ASSUME NEW w \in Watchers, NEW c \in Changes, watch'[w].accepted[c] # 0
      PROVE  /\ c[1] <= versionCounter'
             /\ \A k \in Keys : isLive(k)' /\ cache'[k].rv = c[1] => c[2] = "written"
  BY <1>2, <1>4 DEF AcceptInv
<1>5. QED BY <1>1, <1>3, <1>4 DEF AcceptInv

LEMMA ReturnedAccepted ==
  Returned.prefix = {} /\ \A c \in Changes : Returned.accepted[c] = 0
BY DEF Returned, NoWatch

LEMMA AcceptBroadcaster ==
  ASSUME StoreInv, AcceptInv, BroadcasterSteps
  PROVE  AcceptInv'
<1>t. TypeOK /\ LoopInv
  BY DEF StoreInv
<1>u. UNCHANGED <<cache, versionCounter>> /\ actions' \subseteq actions
  BY DEF BroadcasterSteps, BroadcastAction, LoopTake, Shutdown, LoopShutdown, LoopSend,
         LoopRegister, LoopUnregister, storeVars
<1>k. ASSUME \A w \in Watchers :
               /\ watch'[w].prefix = watch[w].prefix
               /\ watch'[w].accepted = watch[w].accepted
               /\ watch'[w].pc \in {watch[w].pc, "selecting"}
      PROVE  AcceptInv'
  BY <1>k, <1>u, AcceptKept
<1>1. ASSUME NEW e \in actions, BroadcastAction(e) PROVE AcceptInv'
  BY <1>1, <1>k DEF BroadcastAction
<1>2. ASSUME LoopTake \/ Shutdown PROVE AcceptInv'
  BY <1>2, <1>k DEF LoopTake, Shutdown
<1>3. ASSUME LoopShutdown PROVE AcceptInv'
  <2>1. \A w \in Watchers :
          /\ watch'[w].prefix = watch[w].prefix /\ watch'[w].pc = watch[w].pc
          /\ watch'[w].accepted = watch[w].accepted
    BY <1>3, <1>t DEF LoopShutdown, TypeOK, WatchState
  <2>2. QED BY <2>1, <1>k
<1>4. ASSUME NEW w \in Watchers, LoopSend(w) PROVE AcceptInv'
  <2>1. \A v \in Watchers :
          /\ watch'[v].prefix = watch[v].prefix /\ watch'[v].pc = watch[v].pc
          /\ watch'[v].accepted = watch[v].accepted
    <3>1. CASE watch' = [watch EXCEPT ![w].result = Append(@, dist.ev)]
      <4>1. watch'[w] = [watch[w] EXCEPT !.result = Append(watch[w].result, dist.ev)]
            /\ \A v \in Watchers \ {w} : watch'[v] = watch[v]
        BY <3>1, <1>t DEF TypeOK
      <4>2. watch[w] \in WatchState
        BY <1>t DEF TypeOK
      <4>3. /\ watch'[w].prefix = watch[w].prefix /\ watch'[w].pc = watch[w].pc
            /\ watch'[w].accepted = watch[w].accepted
        BY <4>1, <4>2 DEF WatchState
      <4>4. QED BY <4>1, <4>3
    <3>2. QED BY <1>4, <3>1 DEF LoopSend
  <2>2. QED BY <2>1, <1>k
<1>5. ASSUME NEW w \in Watchers, LoopRegister(w) PROVE AcceptInv'
  <2>1. \A v \in Watchers :
          /\ watch'[v].prefix = watch[v].prefix /\ watch'[v].pc \in {watch[v].pc, "selecting"}
          /\ watch'[v].accepted = watch[v].accepted
    BY <1>5, <1>t DEF LoopRegister, TypeOK, WatchState
  <2>2. QED BY <2>1, <1>k
<1>6. ASSUME NEW w \in Watchers, LoopUnregister(w) PROVE AcceptInv'
  <2>1. watch'[w] = Returned /\ \A v \in Watchers \ {w} : watch'[v] = watch[v]
    BY <1>6, <1>t DEF LoopUnregister, TypeOK
  <2>2. QED BY <2>1, <1>u, ReturnedAccepted, AcceptKept
<1>7. QED BY <1>1, <1>2, <1>3, <1>4, <1>5, <1>6 DEF BroadcasterSteps

LEMMA AcceptWatches ==
  ASSUME StoreInv, VersionInv, AcceptInv, WatchSteps
  PROVE  AcceptInv'
<1>t. TypeOK /\ WatchInv
  BY DEF StoreInv
<1>w. PICK w \in Watchers :
        \/ \E start \in 0..MaxVersion : WatchBegin(w, start)
        \/ WatchRegister(w) \/ WatchReceive(w) \/ CallbackDelivers(w) \/ CallbackFails(w)
        \/ WatchClosed(w) \/ WatchTimeout(w) \/ WatchStop(w)
  BY DEF WatchSteps
<1>u. UNCHANGED <<cache, versionCounter, actions, incoming, dist>>
  BY DEF WatchSteps, WatchBegin, WatchRegister, WatchReceive, CallbackDelivers, CallbackFails,
         WatchClosed, WatchTimeout, WatchStop, storeVars, broadcasterVars
<1>s. watch[w] \in WatchState
  BY <1>t DEF TypeOK
<1>1. ASSUME NEW start \in 0..MaxVersion, WatchBegin(w, start) PROVE AcceptInv'
  <2>1. /\ \A v \in Watchers \ {w} : watch'[v] = watch[v]
        /\ watch'[w].prefix = buildPendingWatchEvents(w, start)
        /\ watch'[w].accepted = watch[w].accepted /\ watch[w].pc = "idle"
    BY <1>1, <1>s, <1>t DEF WatchBegin, TypeOK, WatchState
  <2>2. \A e \in watch'[w].prefix : e.type = "Added"
    BY <2>1 DEF buildPendingWatchEvents
  <2>3. \A c \in Changes : watch'[w].accepted[c] = 0
    BY <2>1 DEF AcceptInv
  <2>4. QED BY <1>u, <2>1, <2>2, <2>3, AcceptKept
<1>k. ASSUME \A v \in Watchers \ {w} : watch'[v] = watch[v],
             watch'[w].prefix = watch[w].prefix, watch'[w].accepted = watch[w].accepted,
             watch'[w].pc \in {"idle", "snapshot", "registering"} =>
               watch[w].pc \in {"idle", "snapshot", "registering"}
      PROVE  AcceptInv'
  BY <1>k, <1>u, AcceptKept
<1>r. ASSUME watch' = [watch EXCEPT ![w] = Returned] PROVE AcceptInv'
  <2>1. watch'[w] = Returned /\ \A v \in Watchers \ {w} : watch'[v] = watch[v]
    BY <1>r, <1>t DEF TypeOK
  <2>2. QED BY <2>1, <1>u, ReturnedAccepted, AcceptKept
<1>2. ASSUME WatchRegister(w) PROVE AcceptInv'
  <2>1. CASE watch' = [watch EXCEPT ![w].pc = "registering"]
    <3>1. watch[w].pc = "snapshot"
      BY <1>2 DEF WatchRegister
    <3>2. /\ \A v \in Watchers \ {w} : watch'[v] = watch[v]
          /\ watch'[w].prefix = watch[w].prefix /\ watch'[w].accepted = watch[w].accepted
      BY <2>1, <1>s, <1>t DEF TypeOK, WatchState
    <3>3. QED BY <1>k, <3>1, <3>2
  <2>2. QED BY <1>2, <1>r, <2>1 DEF WatchRegister
<1>3. ASSUME WatchReceive(w) PROVE AcceptInv'
  <2>1. /\ \A v \in Watchers \ {w} : watch'[v] = watch[v]
        /\ watch'[w].prefix = watch[w].prefix /\ watch'[w].accepted = watch[w].accepted
        /\ watch'[w].pc \in {"selecting", "callback"}
    BY <1>3, <1>s, <1>t DEF WatchReceive, TypeOK, WatchState
  <2>2. QED BY <1>k, <2>1
<1>4. ASSUME CallbackDelivers(w) PROVE AcceptInv'
  <2> DEFINE d == change(watch[w].held)
  <2>1. /\ \A v \in Watchers \ {w} : watch'[v] = watch[v]
        /\ watch'[w].prefix = watch[w].prefix /\ watch[w].pc = "callback"
        /\ watch'[w].pc = "selecting"
        /\ watch'[w].accepted = [watch[w].accepted EXCEPT ![d] = @ + 1]
    BY <1>4, <1>s, <1>t DEF CallbackDelivers, TypeOK, WatchState
  <2>2. watch[w].held \in Event
    BY <2>1, <1>t DEF WatchInv
  <2>3. watch[w].held \in KnownEvents
    <3>1. \A f \in Event : f # NoEvent
      BY DEF Event, NoEvent
    <3>2. QED BY <2>2, <3>1, KnownEvent DEF WatchEvents
  <2>4. /\ d[1] <= versionCounter
        /\ \A k \in Keys : isLive(k) /\ cache[k].rv = d[1] => d[2] = "written"
    <3>1. d[1] = watch[w].held.rv
      BY DEF change
    <3>2. d[1] <= versionCounter
      BY <2>3, <3>1 DEF VersionInv
    <3>3. ASSUME NEW k \in Keys, isLive(k), cache[k].rv = d[1], d[2] # "written"
          PROVE  FALSE
      <4>1. watch[w].held.type = "Deleted"
        BY <3>3 DEF change
      <4>2. watch[w].held.key = k
        BY <2>3, <3>1, <3>3 DEF VersionInv
      <4>3. watch[w].held.rv < cache[k].rv
        BY <2>3, <3>3, <4>1, <4>2 DEF VersionInv, VersionsUnique
      <4>4. cache[k].rv \in Nat
        BY <1>t, StoreAssumption DEF TypeOK, Entry
      <4>5. QED BY <3>1, <3>3, <4>3, <4>4
    <3>4. QED BY <3>2, <3>3
  <2>5. \A c \in Changes : c # d => watch'[w].accepted[c] = watch[w].accepted[c]
    <3>1. watch[w].accepted \in [Changes -> Nat]
      BY <1>s DEF WatchState
    <3> HIDE DEF d
    <3>2. QED BY <2>1, <3>1
  <2> HIDE DEF d
  <2>6. \A k \in Keys : isLive(k)' = isLive(k)
    BY <1>u DEF isLive
  <2>7. \A e, f \in actions' : change(e) = change(f) => e = f
    BY <1>u DEF AcceptInv
  <2>8. ASSUME NEW v \in Watchers
        PROVE  /\ \A e \in watch'[v].prefix : e.type = "Added"
               /\ watch'[v].pc \in {"idle", "snapshot", "registering"} =>
                    \A c \in Changes : watch'[v].accepted[c] = 0
    BY <2>1 DEF AcceptInv
  <2>9. ASSUME NEW v \in Watchers, NEW c \in Changes, watch'[v].accepted[c] # 0
        PROVE  /\ c[1] <= versionCounter'
               /\ \A k \in Keys : isLive(k)' /\ cache'[k].rv = c[1] => c[2] = "written"
    <3>1. CASE v = w /\ c = d
      BY <3>1, <2>4, <2>6, <1>u
    <3>2. CASE ~(v = w /\ c = d)
      <4>1. watch[v].accepted[c] # 0
        BY <3>2, <2>1, <2>5, <2>9
      <4>2. QED BY <4>1, <2>6, <1>u DEF AcceptInv
    <3>3. QED BY <3>1, <3>2
  <2>10. QED BY <2>7, <2>8, <2>9 DEF AcceptInv
<1>5. ASSUME CallbackFails(w) \/ WatchClosed(w) \/ WatchTimeout(w) PROVE AcceptInv'
  <2>1. /\ \A v \in Watchers \ {w} : watch'[v] = watch[v]
        /\ watch'[w].prefix = watch[w].prefix /\ watch'[w].accepted = watch[w].accepted
        /\ watch'[w].pc = "stopping"
    BY <1>5, <1>s, <1>t DEF CallbackFails, WatchClosed, WatchTimeout, TypeOK, WatchState
  <2>2. QED BY <1>k, <2>1
<1>6. ASSUME WatchStop(w) PROVE AcceptInv'
  BY <1>6, <1>k, <1>r DEF WatchStop
<1>7. QED BY <1>w, <1>1, <1>2, <1>3, <1>4, <1>5, <1>6

(* A watch is told of a change at most once, and of a write that its       *)
(* snapshot has at most twice, for any keys, watchers, queue sizes and     *)
(* numbers of writes, however the goroutines that broadcast overlap with   *)
(* the snapshot and the registration (AtMostOnce).                         *)
THEOREM RegisteredWatchRepeatsNothing == Spec => []AtMostOnce
<1>1. Init => OnceInv
  <2>1. ASSUME Init, NEW w \in Watchers
        PROVE  /\ watch[w].pc = "idle" /\ watch[w].prefix = {}
               /\ \A c \in Changes : watch[w].accepted[c] = 0
    BY <2>1 DEF Init, NoWatch
  <2>2. Init => AcceptInv
    BY <2>1 DEF Init, AcceptInv
  <2>3. Init => AtMostOnce
    BY <2>1 DEF AtMostOnce, receiving
  <2>4. QED BY <2>2, <2>3 DEF OnceInv
<1>2. StoreInv /\ StoreInv' /\ VersionInv /\ OnceInv /\ [Next]_vars => OnceInv'
  <2>1. ASSUME UNCHANGED vars, OnceInv PROVE OnceInv'
    <3>1. UNCHANGED <<actions, incoming, dist, watch, cache, versionCounter>>
      BY <2>1 DEF vars
    <3>2. AtMostOnce'
      BY <2>1, <3>1, SameCopies DEF OnceInv
    <3>3. AcceptInv'
      BY <2>1, <3>1 DEF OnceInv, AcceptInv, isLive
    <3>4. QED BY <3>2, <3>3 DEF OnceInv
  <2>2. QED BY <2>1, OnceOperations, OnceBroadcaster, OnceWatches, AcceptOperations,
               AcceptBroadcaster, AcceptWatches DEF OnceInv, Next
<1>3. OnceInv => AtMostOnce
  BY DEF OnceInv
<1>4. QED BY <1>1, <1>2, <1>3, StoreInvariant, VersionInvariant, PTL DEF Spec
=============================================================================
