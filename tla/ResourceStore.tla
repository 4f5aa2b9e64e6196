--------------------------- MODULE ResourceStore ---------------------------
(***************************************************************************)
(* InMemResourceStore of src/minkapi/view/store/store.go: the versioned    *)
(* object cache behind every view, its tombstones, and the watches that    *)
(* are served from it.                                                     *)
(*                                                                         *)
(* An operation of the store runs under the mutex mu and is one action.    *)
(* What it broadcasts is not: every Add, Update and Delete starts a        *)
(* goroutine that calls broadcaster.Action after the mutex is released, so *)
(* events reach the broadcaster in any order.  The Broadcaster itself is   *)
(* the one of k8s.io/apimachinery, modelled from how the store uses it: a  *)
(* bounded queue, a loop that hands each event to every registered watcher *)
(* and waits while a watcher's channel is full, and functions (register,   *)
(* unregister, shut down) that run in the loop once the queue is empty     *)
(* while they keep every other caller of Action out.                       *)
(*                                                                         *)
(* Object contents, labels and namespaces are abstracted to a key and a    *)
(* resource version; Selected gives the keys a watcher's namespace and     *)
(* label selector accept.  An object is a value: a caller that updates an  *)
(* object in place is the subject of the views, not of this module.        *)
(***************************************************************************)
EXTENDS Naturals, Sequences, FiniteSets, Functions

CONSTANTS
  Keys,           \* cache keys, "namespace/name"
  Watchers,       \* goroutines that run Watch, each at most once
  Selected,       \* [Watchers -> SUBSET Keys]
  NoBroadcastOpts,\* the values of ObjectOptions.NoBroadcast that callers pass
  MaxVersion,     \* bound on versionCounter
  QueueSize,      \* WatchConfig.QueueSize, capacity of a watcher's channel
  IncomingSize    \* capacity of the broadcaster's incoming queue

ASSUME StoreAssumption ==
  /\ IsFiniteSet(Keys)
  /\ Selected \in [Watchers -> SUBSET Keys]
  /\ NoBroadcastOpts \subseteq BOOLEAN
  /\ MaxVersion \in Nat /\ QueueSize \in Nat /\ IncomingSize \in Nat \ {0}

VARIABLES
  cache,          \* [Keys -> Entry]
  versionCounter, \* the atomic counter of resource versions
  mu,             \* the goroutine that keeps mu across a wait: Close, or nobody
  actions,        \* goroutines about to call broadcaster.Action, by their event
  incoming,       \* the broadcaster's queue
  dist,           \* the event the loop is handing out and the watchers left
  block,          \* the function waiting for the loop (blockQueue), or none
  stopped,        \* the broadcaster has been shut down
  watch           \* [Watchers -> the state of one Watch call]

vars == <<cache, versionCounter, mu, actions, incoming, dist, block, stopped,
          watch>>

-----------------------------------------------------------------------------
Absent    == [state |-> "absent", rv |-> 0]
Live(v)   == [state |-> "live", rv |-> v]
Tombstone == [state |-> "tombstone", rv |-> 0]
Entry     == [state : {"absent", "live", "tombstone"}, rv : 0..MaxVersion]

Event     == [type : {"Added", "Modified", "Deleted"}, key : Keys, rv : 1..MaxVersion]
NoEvent   == [type |-> "none"]
NoFn      == [fn |-> "none"]
Fn        == [fn : {"register", "unregister"}, w : Watchers] \union {[fn |-> "shutdown"]}

(* The phases of a Watch call: snapshot taken by buildPendingWatchEvents,  *)
(* waiting in WatchWithPrefix, in the select loop, in the event callback,  *)
(* in the deferred watcher.Stop, returned.                                 *)
Phase == {"idle", "snapshot", "registering", "selecting", "callback", "stopping",
          "returned"}

(* What an event tells of: the write of a version, or the deletion of an   *)
(* object that had it.                                                     *)
Changes   == (1..MaxVersion) \X {"written", "deleted"}
change(e) == <<e.rv, IF e.type = "Deleted" THEN "deleted" ELSE "written">>

(* One Watch call.  owed and accepted are history: the events sent while   *)
(* the watch is registered that its callback has not accepted yet, and how *)
(* often the callback has accepted each change.                            *)
NoWatch == [pc |-> "idle", start |-> 0, prefix |-> {}, cap |-> 0, result |-> <<>>,
            stop |-> FALSE, registered |-> FALSE, held |-> NoEvent,
            owed |-> {}, accepted |-> [c \in Changes |-> 0]]
WatchState ==
  [pc : Phase, start : 0..MaxVersion, prefix : SUBSET Event, cap : Nat,
   result : Seq(Event), stop : BOOLEAN, registered : BOOLEAN,
   held : Event \union {NoEvent}, owed : SUBSET Event, accepted : [Changes -> Nat]]
Returned == [NoWatch EXCEPT !.pc = "returned"]

isTombstone(k) == cache[k].state = "tombstone"
isLive(k)      == cache[k].state = "live"

(* GetByKey: a live object, or one of two distinguishable errors.          *)
GetByKey(k) == CASE isLive(k)      -> "object"
                 [] isTombstone(k) -> "ErrObjectDeleted"
                 [] OTHER          -> "NotFound"

filterOutTombstones == {k \in Keys : isLive(k)}

(* shouldSkipObject: what a watcher that starts at version start ignores.  *)
shouldSkipObject(w, start, e) == e.key \notin Selected[w] \/ e.rv <= start

(* buildPendingWatchEvents: synthetic Added events for the live objects.   *)
buildPendingWatchEvents(w, start) ==
  {e \in {[type |-> "Added", key |-> k, rv |-> cache[k].rv] : k \in filterOutTombstones} :
     ~shouldSkipObject(w, start, e)}

(* Every ordering of the finite set S.                                     *)
Orderings(S) == Bijection(1..Cardinality(S), S)

(* The capacity of the channel WatchWithPrefix makes for queued events.    *)
capacity(queued) == IF Len(queued) + 1 > QueueSize THEN Len(queued) + 1 ELSE QueueSize

registeredWatchers == {w \in Watchers : watch[w].registered}

(* The loop has ev in hand for the watchers todo; nothing when none is left.*)
handing(ev, todo) == [ev |-> IF todo = {} THEN NoEvent ELSE ev, todo |-> todo]

-----------------------------------------------------------------------------
Init ==
  /\ cache = [k \in Keys |-> Absent]
  /\ versionCounter = 0
  /\ mu = "free"
  /\ actions = {} /\ incoming = <<>>
  /\ dist = handing(NoEvent, {})
  /\ block = NoFn
  /\ stopped = FALSE
  /\ watch = [w \in Watchers |-> NoWatch]

broadcasterVars == <<incoming, dist, block, stopped>>

(* go func() { s.broadcaster.Action(...) }()                               *)
spawn(events) ==
  /\ actions' = actions \union events
  /\ watch' = [w \in Watchers |->
       IF watch[w].registered THEN [watch[w] EXCEPT !.owed = @ \union events] ELSE watch[w]]

Add(k, noBroadcast) ==
  LET next == versionCounter + 1 IN
  /\ mu = "free"
  /\ versionCounter < MaxVersion
  /\ versionCounter' = next
  /\ cache' = [cache EXCEPT ![k] = Live(next)]
  /\ spawn(IF noBroadcast THEN {} ELSE {[type |-> "Added", key |-> k, rv |-> next]})
  /\ UNCHANGED <<mu, broadcasterVars>>

Update(k, noBroadcast) ==
  LET next == versionCounter + 1 IN
  /\ mu = "free"
  /\ GetByKey(k) = "object"
  /\ versionCounter < MaxVersion
  /\ versionCounter' = next
  /\ cache' = [cache EXCEPT ![k] = Live(next)]
  /\ spawn(IF noBroadcast THEN {} ELSE {[type |-> "Modified", key |-> k, rv |-> next]})
  /\ UNCHANGED <<mu, broadcasterVars>>

(* The Deleted event carries the version of the object's last write:       *)
(* neither DeleteByKey nor markDeleted takes a new one.                    *)
deletedEvents(ks) == {[type |-> "Deleted", key |-> k, rv |-> cache[k].rv] : k \in ks}

(* DeleteByKey (mark = FALSE) and markDeleted (mark = TRUE).               *)
removed(mark) == IF mark THEN Tombstone ELSE Absent

Delete(k, mark) ==
  /\ mu = "free"
  /\ GetByKey(k) = "object"
  /\ cache' = [cache EXCEPT ![k] = removed(mark)]
  /\ spawn(deletedEvents({k}))
  /\ UNCHANGED <<versionCounter, mu, broadcasterVars>>

(* DeleteObjects: the live objects among the keys the criteria match.      *)
DeleteObjects(match, mark) ==
  LET victims == match \intersect filterOutTombstones IN
  /\ mu = "free"
  /\ cache' = [k \in Keys |-> IF k \in victims THEN removed(mark) ELSE cache[k]]
  /\ spawn(deletedEvents(victims))
  /\ UNCHANGED <<versionCounter, mu, broadcasterVars>>

(* Mutant of Reset: the version counter starts anew with the cache.        *)
ResetRewinds ==
  /\ mu = "free"
  /\ cache' = [k \in Keys |-> Absent] /\ versionCounter' = 0
  /\ UNCHANGED <<mu, actions, broadcasterVars, watch>>

(* Reset replaces the cache, keeps the counter and tells no watcher.       *)
Reset ==
  /\ mu = "free"
  /\ cache' = [k \in Keys |-> Absent]
  /\ UNCHANGED <<versionCounter, mu, actions, broadcasterVars, watch>>

(* Close empties the cache and then, still holding mu, waits in Shutdown   *)
(* for the loop to drain the queue.                                        *)
Close ==
  /\ mu = "free"
  /\ cache' = [k \in Keys |-> Absent]
  /\ mu' = IF stopped THEN "free" ELSE "Close"
  /\ UNCHANGED <<versionCounter, actions, broadcasterVars, watch>>

-----------------------------------------------------------------------------
(* The Broadcaster.                                                        *)

(* Mutant of BroadcastAction: the goroutine may send its event again.      *)
BroadcastActionTwice(e) ==
  /\ e \in actions
  /\ \/ stopped /\ UNCHANGED incoming /\ actions' = actions \ {e}
     \/ /\ ~stopped /\ block = NoFn /\ Len(incoming) < IncomingSize
        /\ incoming' = Append(incoming, e)
        /\ actions' \in {actions, actions \ {e}}
  /\ UNCHANGED <<cache, versionCounter, mu, dist, block, stopped, watch>>

(* Action: queue the event, or report that the broadcaster has stopped.    *)
BroadcastAction(e) ==
  /\ e \in actions
  /\ \/ stopped /\ UNCHANGED incoming
     \/ ~stopped /\ block = NoFn /\ Len(incoming) < IncomingSize
        /\ incoming' = Append(incoming, e)
  /\ actions' = actions \ {e}
  /\ UNCHANGED <<cache, versionCounter, mu, dist, block, stopped, watch>>

loopIdle == dist.todo = {}

LoopTake ==
  /\ loopIdle /\ incoming # <<>>
  /\ dist' = handing(Head(incoming), registeredWatchers)
  /\ incoming' = Tail(incoming)
  /\ UNCHANGED <<cache, versionCounter, mu, actions, block, stopped, watch>>

(* Mutant of LoopSend: DropIfChannelFull instead of WaitIfChannelFull.     *)
LoopSendDropping(w) ==
  /\ w \in dist.todo
  /\ watch' = IF Len(watch[w].result) < watch[w].cap
              THEN [watch EXCEPT ![w].result = Append(@, dist.ev)] ELSE watch
  /\ dist' = handing(dist.ev, dist.todo \ {w})
  /\ UNCHANGED <<cache, versionCounter, mu, actions, incoming, block, stopped>>

(* distribute, with WaitIfChannelFull: wait until the channel has room, or *)
(* until the watcher is stopped.                                           *)
LoopSend(w) ==
  /\ w \in dist.todo
  /\ \/ /\ Len(watch[w].result) < watch[w].cap
        /\ watch' = [watch EXCEPT ![w].result = Append(@, dist.ev)]
     \/ watch[w].stop /\ UNCHANGED watch
  /\ dist' = handing(dist.ev, dist.todo \ {w})
  /\ UNCHANGED <<cache, versionCounter, mu, actions, incoming, block, stopped>>

(* blockQueue: take the queue for a function.                              *)
BlockQueue(f) == ~stopped /\ block = NoFn /\ block' = f

(* The loop runs a function after all events queued before it.             *)
LoopRuns(f) == loopIdle /\ incoming = <<>> /\ block = f /\ block' = NoFn

Shutdown ==
  /\ mu = "Close"
  /\ BlockQueue([fn |-> "shutdown"])
  /\ UNCHANGED <<cache, versionCounter, mu, actions, incoming, dist, stopped, watch>>

(* The loop ends: it closes every watcher's channel, and Close returns.    *)
LoopShutdown ==
  /\ LoopRuns([fn |-> "shutdown"])
  /\ stopped' = TRUE
  /\ mu' = "free"
  /\ watch' = [w \in Watchers |->
                 IF watch[w].registered
                 THEN [watch[w] EXCEPT !.registered = FALSE]
                 ELSE watch[w]]
  /\ UNCHANGED <<cache, versionCounter, actions, incoming, dist>>

-----------------------------------------------------------------------------
(* Watch.                                                                  *)
storeVars == <<cache, versionCounter, mu, actions>>

(* A start version is one some earlier list reported, or 0.                *)
WatchBegin(w, start) ==
  /\ watch[w].pc = "idle" /\ mu = "free"
  /\ start <= versionCounter
  /\ watch' = [watch EXCEPT ![w].pc = "snapshot", ![w].start = start,
                            ![w].prefix = buildPendingWatchEvents(w, start)]
  /\ UNCHANGED <<storeVars, broadcasterVars>>

(* WatchWithPrefix: fails when the broadcaster has stopped.                *)
WatchRegister(w) ==
  /\ watch[w].pc = "snapshot"
  /\ \/ BlockQueue([fn |-> "register", w |-> w])
        /\ watch' = [watch EXCEPT ![w].pc = "registering"]
     \/ stopped /\ UNCHANGED block
        /\ watch' = [watch EXCEPT ![w] = Returned]
  /\ UNCHANGED <<storeVars, incoming, dist, stopped>>

LoopRegister(w) ==
  /\ LoopRuns([fn |-> "register", w |-> w])
  /\ \E queued \in Orderings(watch[w].prefix) :
       watch' = [watch EXCEPT ![w].pc = "selecting", ![w].registered = TRUE,
                              ![w].result = queued, ![w].cap = capacity(queued)]
  /\ UNCHANGED <<storeVars, incoming, dist, stopped>>

(* An event arrives: skipped, or passed to the callback.                   *)
WatchReceive(w) ==
  /\ watch[w].pc = "selecting" /\ watch[w].result # <<>>
  /\ LET e == Head(watch[w].result) IN
     watch' = [watch EXCEPT ![w].result = Tail(@),
                 ![w].pc = IF shouldSkipObject(w, watch[w].start, e) THEN "selecting" ELSE "callback",
                 ![w].held = IF shouldSkipObject(w, watch[w].start, e) THEN NoEvent ELSE e]
  /\ UNCHANGED <<storeVars, broadcasterVars>>

(* GetWatcher's callback: the consumer takes the event from out ...        *)
CallbackDelivers(w) ==
  /\ watch[w].pc = "callback"
  /\ watch' = [watch EXCEPT ![w].pc = "selecting", ![w].held = NoEvent,
                            ![w].owed = @ \ {watch[w].held},
                            ![w].accepted[change(watch[w].held)] = @ + 1]
  /\ UNCHANGED <<storeVars, broadcasterVars>>

(* ... or the context is done or the proxy watcher stopped, an error that  *)
(* ends Watch.                                                             *)
CallbackFails(w) ==
  /\ watch[w].pc = "callback"
  /\ watch' = [watch EXCEPT ![w].pc = "stopping", ![w].held = NoEvent, ![w].stop = TRUE]
  /\ UNCHANGED <<storeVars, broadcasterVars>>

(* The select loop ends and the deferred watcher.Stop begins, because the  *)
(* broadcaster closed the channel and it is drained ...                    *)
WatchClosed(w) ==
  /\ watch[w].pc = "selecting" /\ ~watch[w].registered /\ watch[w].result = <<>>
  /\ watch' = [watch EXCEPT ![w].pc = "stopping", ![w].stop = TRUE]
  /\ UNCHANGED <<storeVars, broadcasterVars>>

(* Mutant of WatchTimeout: the watcher waits for the loop without telling  *)
(* it that nobody reads the channel any more.                              *)
WatchTimeoutNoStop(w) ==
  /\ watch[w].pc = "selecting"
  /\ watch' = [watch EXCEPT ![w].pc = "stopping"]
  /\ UNCHANGED <<storeVars, broadcasterVars>>

(* ... or because the watch timeout passes or the context is done.         *)
WatchTimeout(w) ==
  /\ watch[w].pc = "selecting"
  /\ watch' = [watch EXCEPT ![w].pc = "stopping", ![w].stop = TRUE]
  /\ UNCHANGED <<storeVars, broadcasterVars>>

(* watcher.Stop unregisters through the loop, unless it has ended.         *)
WatchStop(w) ==
  /\ watch[w].pc = "stopping"
  /\ \/ BlockQueue([fn |-> "unregister", w |-> w]) /\ UNCHANGED watch
     \/ stopped /\ UNCHANGED block
        /\ watch' = [watch EXCEPT ![w] = Returned]
  /\ UNCHANGED <<storeVars, incoming, dist, stopped>>

LoopUnregister(w) ==
  /\ LoopRuns([fn |-> "unregister", w |-> w])
  /\ watch' = [watch EXCEPT ![w] = Returned]
  /\ UNCHANGED <<storeVars, incoming, dist, stopped>>

-----------------------------------------------------------------------------
Operations ==
  \/ \E k \in Keys, nb \in NoBroadcastOpts : Add(k, nb) \/ Update(k, nb)
  \/ \E k \in Keys, mark \in BOOLEAN : Delete(k, mark)
  \/ \E match \in SUBSET Keys, mark \in BOOLEAN : DeleteObjects(match, mark)
  \/ Reset
  \/ Close

BroadcasterSteps ==
  \/ \E e \in actions : BroadcastAction(e)
  \/ LoopTake \/ Shutdown \/ LoopShutdown
  \/ \E w \in Watchers : LoopSend(w) \/ LoopRegister(w) \/ LoopUnregister(w)

WatchSteps ==
  \E w \in Watchers :
    \/ \E start \in 0..MaxVersion : WatchBegin(w, start)
    \/ WatchRegister(w) \/ WatchReceive(w) \/ CallbackDelivers(w) \/ CallbackFails(w)
    \/ WatchClosed(w) \/ WatchTimeout(w) \/ WatchStop(w)

Next == Operations \/ BroadcasterSteps \/ WatchSteps

Spec == Init /\ [][Next]_vars

(* Goroutines run: the broadcaster's loop, the goroutines that call Action,*)
(* every Watch call, a consumer that keeps reading, and a Close that has   *)
(* begun.  Nothing obliges a client to operate on the store, and no watch  *)
(* has to time out.                                                        *)
Fairness ==
  /\ WF_vars(BroadcasterSteps)
  /\ \A w \in Watchers :
       /\ WF_vars(WatchRegister(w)) /\ WF_vars(WatchReceive(w))
       /\ WF_vars(CallbackDelivers(w)) /\ WF_vars(WatchClosed(w)) /\ WF_vars(WatchStop(w))

FairSpec == Spec /\ Fairness

-----------------------------------------------------------------------------
(* Type correctness of every variable of the store and its broadcaster.    *)
TypeOK ==
  /\ cache \in [Keys -> Entry]
  /\ versionCounter \in 0..MaxVersion
  /\ mu \in {"free", "Close"}
  /\ actions \subseteq Event
  /\ incoming \in Seq(Event)
  /\ dist \in [ev : Event \union {NoEvent}, todo : SUBSET Watchers]
  /\ block \in Fn \union {NoFn}
  /\ stopped \in BOOLEAN
  /\ watch \in [Watchers -> WatchState]

(* The events on their way to the callback of watcher w.                   *)
EventsOf(w) ==
  actions \union Range(incoming) \union (IF w \in dist.todo THEN {dist.ev} ELSE {})
    \union Range(watch[w].result) \union {watch[w].held}

(* Every event the broadcaster or a watcher has in hand.                   *)
KnownEvents ==
  (actions \union Range(incoming) \union {dist.ev}
     \union UNION {EventsOf(w) \union watch[w].prefix : w \in Watchers})
  \ {NoEvent}

(* A resource version names one write for ever: two events with the same   *)
(* version are about the same object, across deletions, re-creations,      *)
(* Reset and Close (nextResourceVersion is never rewound); two live objects*)
(* never share a version; and a live object is newer than every Deleted    *)
(* event still under way for its key, so a late one can be told apart.     *)
VersionsUnique ==
  /\ \A e, f \in KnownEvents : e.rv = f.rv => e.key = f.key
  /\ \A k, l \in Keys : isLive(k) /\ isLive(l) /\ cache[k].rv = cache[l].rv => k = l
  /\ \A e \in KnownEvents : isLive(e.key) =>
       IF e.type = "Deleted" THEN e.rv < cache[e.key].rv ELSE e.rv <= cache[e.key].rv

watching(w) == watch[w].registered /\ watch[w].pc \in {"selecting", "callback"}

(* Watch loses nothing once it is registered: every event sent after that  *)
(* and not yet accepted is in a broadcast goroutine, in a queue or in the  *)
(* callback, or shouldSkipObject rejects it.  A full channel makes the     *)
(* broadcaster wait (WaitIfChannelFull); it never drops.                   *)
NoEventLost ==
  \A w \in Watchers : watching(w) =>
    \A e \in watch[w].owed :
      e \in EventsOf(w) \/ shouldSkipObject(w, watch[w].start, e)

Count(s, c) == Cardinality({i \in DOMAIN s : change(s[i]) = c})
One(b) == IF b THEN 1 ELSE 0

receiving(w) == watch[w].pc \in {"selecting", "callback"}

(* A watch is told of a change at most once, counting what its callback    *)
(* has accepted and what is on its way to it.  The exception is a write    *)
(* that its snapshot has (buildPendingWatchEvents): the goroutine that     *)
(* broadcasts it may have been started before the snapshot and run after   *)
(* the registration, and then the watch is told of it a second time, but   *)
(* never a third.                                                          *)
AtMostOnce ==
  \A w \in Watchers : receiving(w) =>
    \A c \in Changes :
      One(\E e \in actions : change(e) = c) + Count(incoming, c)
        + One(w \in dist.todo /\ change(dist.ev) = c)
        + Count(watch[w].result, c)
        + One(watch[w].pc = "callback" /\ change(watch[w].held) = c)
        + watch[w].accepted[c]
      <= 1 + One(\E e \in watch[w].prefix : change(e) = c)

(* Close, which keeps mu while it waits for the broadcaster to drain, does *)
(* return, whatever is queued and however many watches are open: a watch   *)
(* that ends releases the loop (watcher.Stop) before it waits for it.      *)
(* And once it has, every Watch call that was made returns: nobody waits   *)
(* for a loop that is no longer there.                                     *)
CloseReturns ==
  /\ mu = "Close" ~> mu = "free"
  /\ \A w \in Watchers : (stopped /\ watch[w].pc # "idle") ~> watch[w].pc = "returned"

(* An event sent while a watch is registered reaches its callback, unless  *)
(* it is to be skipped or the watch ends first.                            *)
EventuallyDelivered ==
  \A w \in Watchers, e \in Event :
    (watching(w) /\ e \in watch[w].owed /\ ~shouldSkipObject(w, watch[w].start, e))
      ~> (e \notin watch[w].owed \/ ~watching(w))

-----------------------------------------------------------------------------
(* What the comments of Watch and Delete say, which the code does not do.  *)
quiescent(w) ==
  /\ watch[w].registered /\ watch[w].pc = "selecting" /\ watch[w].result = <<>>
  /\ actions = {} /\ incoming = <<>> /\ loopIdle

(* "Watch ... watches the store for object changes beginning from          *)
(* startVersion": every deletion broadcast after the watch is registered   *)
(* reaches it, also that of an object written before startVersion.         *)
DeletionsObserved ==
  \A w \in Watchers : quiescent(w) =>
    ~\E e \in watch[w].owed : e.type = "Deleted" /\ e.key \in Selected[w]

(* The same comment: a watch with nothing left to receive has seen the     *)
(* last write of every live object that is newer than startVersion.        *)
ChangesObserved ==
  \A w \in Watchers : quiescent(w) =>
    \A k \in Selected[w] : isLive(k) /\ cache[k].rv > watch[w].start =>
      watch[w].accepted[<<cache[k].rv, "written">>] > 0
=============================================================================
