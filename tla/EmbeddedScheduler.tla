------------------------- MODULE EmbeddedScheduler -------------------------
(***************************************************************************)
(* The embedded kube-schedulers of a planner: the launcher with its        *)
(* semaphore (src/planner/scheduler/scheduler.go), and the watches that    *)
(* the informers of a scheduler keep on a sandbox view.  Such a watch is   *)
(* three goroutines: one per store (GetWatcher of the resource store) and  *)
(* one that merges them (src/common/watchutil/watchutil.go).               *)
(*                                                                         *)
(* A call of Launch is made by a simulation run, which closes the handle   *)
(* it gets (property SchedulerClosed of SimulationRun).                    *)
(***************************************************************************)
EXTENDS Integers, Sequences, SequencesExt

CONSTANTS
  Calls,        \* calls of Launch
  Watching,     \* calls whose scheduler's watch is modelled
  MaxParallel,  \* size of the semaphore
  MaxWatches,   \* bound: watches that an informer opens one after the other
  MaxEvents     \* bound: events that each store offers to one watch

Sources == {1, 2}  \* the sandbox's store and the delegate's

ASSUME LauncherAssumption ==
  /\ IsFiniteSet(Calls) /\ Watching \subseteq Calls
  /\ MaxParallel \in Nat \ {0} /\ MaxWatches \in Nat /\ MaxEvents \in [Sources -> Nat]

VARIABLES
  launcher,  \* result of NewLauncher
  cur,       \* semaphore: slots in use
  waiters,   \* semaphore: calls that wait, first come first served
  pc,        \* [Calls -> where the call of Launch, or its scheduler, is]
  ctxDone,   \* calls whose caller's context has ended
  cancelled, \* calls whose cancelFn was called
  watches    \* [Watching -> sequence of merged watchers]

semaphore == <<cur, waiters>>
vars == <<launcher, cur, waiters, pc, ctxDone, cancelled, watches>>

(* schedulerCtx is derived from the caller's context.                      *)
schedulerCtxDone(c) == c \in ctxDone \union cancelled

Holding == {"granted", "creating", "syncing", "running"}
holders == {c \in Calls : pc[c] \in Holding}
(* Calls that failed after they had acquired their slot.                   *)
lost == {c \in Calls : pc[c] = "failed"}

Init ==
  /\ launcher = "none" /\ cur = 0 /\ waiters = <<>>
  /\ pc = [c \in Calls |-> "idle"]
  /\ ctxDone = {} /\ cancelled = {}
  /\ watches = [c \in Watching |-> <<>>]

-----------------------------------------------------------------------------
(* The semaphore of golang.org/x/sync.                                     *)

notifyWaiters(n, queue, at) ==
  LET k == IF MaxParallel - n < Len(queue) THEN MaxParallel - n ELSE Len(queue)
  IN  /\ cur' = n + k
      /\ waiters' = SubSeq(queue, k + 1, Len(queue))
      /\ pc' = [c \in Calls |-> IF \E i \in 1..k : queue[i] = c THEN "granted" ELSE at[c]]

(* Release after which the call c is at next.                              *)
Release(c, next) == notifyWaiters(cur - 1, waiters, [pc EXCEPT ![c] = next])

-----------------------------------------------------------------------------
(* The launcher.                                                           *)

(* NewLauncher reads and parses the scheduler's configuration.             *)
NewLauncher ==
  /\ launcher = "none"
  /\ launcher' \in {"ready", "ErrLoadSchedulerConfig", "ErrParseSchedulerConfig"}
  /\ UNCHANGED <<semaphore, pc, ctxDone, cancelled, watches>>

(* Launch up to the point where Acquire returns or waits.                  *)
Launch(c) ==
  /\ launcher = "ready" /\ pc[c] = "idle"
  /\ \/ /\ c \in ctxDone
        /\ pc' = [pc EXCEPT ![c] = "refused"]
        /\ UNCHANGED semaphore
     \/ /\ c \notin ctxDone /\ cur < MaxParallel /\ waiters = <<>>
        /\ cur' = cur + 1
        /\ pc' = [pc EXCEPT ![c] = "creating"]
        /\ UNCHANGED waiters
     \/ /\ c \notin ctxDone /\ ~(cur < MaxParallel /\ waiters = <<>>)
        /\ waiters' = Append(waiters, c)
        /\ pc' = [pc EXCEPT ![c] = "waiting"]
        /\ UNCHANGED cur
  /\ UNCHANGED <<launcher, ctxDone, cancelled, watches>>

(* Acquire returns to Launch, which goes on to createSchedulerHandle.      *)
Acquired(c) ==
  /\ pc[c] = "granted" /\ c \notin ctxDone
  /\ pc' = [pc EXCEPT ![c] = "creating"]
  /\ UNCHANGED <<launcher, semaphore, ctxDone, cancelled, watches>>

(* A call that gives up leaves its place in the queue.                     *)
leaveQueue(c) ==
  \E i \in DOMAIN waiters : waiters[i] = c /\ waiters' = RemoveAt(waiters, i)

(* Mutant of AcquireFails: a slot granted too late is kept.                *)
AcquireFailsKeeping(c) ==
  /\ c \in ctxDone
  /\ \/ pc[c] = "granted" /\ UNCHANGED waiters
     \/ pc[c] = "waiting" /\ leaveQueue(c)
  /\ pc' = [pc EXCEPT ![c] = "refused"]
  /\ UNCHANGED <<launcher, cur, ctxDone, cancelled, watches>>

(* The context ends while Acquire waits, or has just been granted.         *)
AcquireFails(c) ==
  /\ c \in ctxDone
  /\ \/ /\ pc[c] = "granted"
        /\ Release(c, "refused")
     \/ /\ pc[c] = "waiting"
        /\ leaveQueue(c)
        /\ pc' = [pc EXCEPT ![c] = "refused"]
        /\ UNCHANGED cur
  /\ UNCHANGED <<launcher, ctxDone, cancelled, watches>>

(* The error path of createSchedulerHandle and Launch: the context is      *)
(* cancelled, the semaphore is not released.                               *)
launchFails(c) ==
  /\ pc' = [pc EXCEPT ![c] = "failed"]
  /\ cancelled' = cancelled \union {c}
  /\ UNCHANGED semaphore

(* scheduler.New, and on success the start of the informers.               *)
NewScheduler(c) ==
  /\ pc[c] = "creating"
  /\ \/ launchFails(c)
     \/ /\ pc' = [pc EXCEPT ![c] = "syncing"]
        /\ UNCHANGED <<semaphore, cancelled>>
  /\ UNCHANGED <<launcher, ctxDone, watches>>

(* WaitForCacheSync and WaitForHandlersSync return, Launch starts the      *)
(* scheduler and returns the handle; or the wait ends with the context.    *)
HandlersSynced(c) ==
  /\ pc[c] = "syncing"
  /\ \/ /\ pc' = [pc EXCEPT ![c] = "running"]
        /\ UNCHANGED <<semaphore, cancelled>>
     \/ schedulerCtxDone(c) /\ launchFails(c)
  /\ UNCHANGED <<launcher, ctxDone, watches>>

(* Mutant of RunReturns: the slot is not released.                         *)
RunReturnsHolding(c) ==
  /\ pc[c] = "running" /\ schedulerCtxDone(c)
  /\ pc' = [pc EXCEPT ![c] = "ended"]
  /\ UNCHANGED <<launcher, semaphore, ctxDone, cancelled, watches>>

(* The scheduler's goroutine: Run returns and the slot is released.        *)
RunReturns(c) ==
  /\ pc[c] = "running" /\ schedulerCtxDone(c)
  /\ Release(c, "ended")
  /\ UNCHANGED <<launcher, ctxDone, cancelled, watches>>

(* Close of a handle, by the run that launched the scheduler.              *)
Close(c) ==
  /\ pc[c] = "running" /\ c \notin cancelled
  /\ cancelled' = cancelled \union {c}
  /\ UNCHANGED <<launcher, semaphore, pc, ctxDone, watches>>

(* The context of the caller ends.                                         *)
EndContext(c) ==
  /\ c \notin ctxDone
  /\ ctxDone' = ctxDone \union {c}
  /\ UNCHANGED <<launcher, semaphore, pc, cancelled, watches>>

-----------------------------------------------------------------------------
(* The watches of a scheduler.                                             *)

Source == [pc |-> "watching", sent |-> 0]
NewWatch == [src |-> [i \in Sources |-> Source],  \* goroutines of GetWatcher
             open |-> Sources,                    \* open1, open2
             comb |-> "select",                   \* the merging goroutine
             hold |-> <<0, 0>>,                   \* event it is sending
             stopped |-> FALSE,                   \* Stop of the merged watcher
             got |-> <<>>]                        \* events the informer received

isWatch(c, n) == n \in DOMAIN watches[c]
setWatch(c, n, w) ==
  /\ watches' = [watches EXCEPT ![c][n] = w]
  /\ UNCHANGED <<launcher, semaphore, pc, ctxDone, cancelled>>

(* GetWatcher of a sandbox view, called by a reflector whose last watch    *)
(* was stopped or has ended.                                               *)
GetWatcher(c) ==
  /\ pc[c] \in {"syncing", "running"} /\ ~schedulerCtxDone(c)
  /\ Len(watches[c]) < MaxWatches
  /\ watches[c] # <<>> => Last(watches[c]).stopped \/ Last(watches[c]).comb = "closed"
  /\ watches' = [watches EXCEPT ![c] = Append(@, NewWatch)]
  /\ UNCHANGED <<launcher, semaphore, pc, ctxDone, cancelled>>

(* The store has an event for the watch: its callback is in "out <- e".    *)
SourceEvent(c, n, i) ==
  /\ isWatch(c, n)
  /\ LET w == watches[c][n]
     IN  /\ w.src[i].pc = "watching" /\ w.src[i].sent < MaxEvents[i]
         /\ setWatch(c, n, [w EXCEPT !.src[i] = [pc |-> "calling", sent |-> @.sent + 1]])

(* Watch times out, or its store is closed.                                *)
SourceTimeout(c, n, i) ==
  /\ isWatch(c, n)
  /\ watches[c][n].src[i].pc = "watching"
  /\ setWatch(c, n, [watches[c][n] EXCEPT !.src[i].pc = "closed"])

(* Mutant of SourceCancelled: the callback has no case for the context.    *)
SourceCancelledLate(c, n, i) ==
  /\ isWatch(c, n) /\ schedulerCtxDone(c)
  /\ watches[c][n].src[i].pc = "watching"
  /\ setWatch(c, n, [watches[c][n] EXCEPT !.src[i].pc = "closed"])

(* The context ends Watch or the callback in it.                           *)
SourceCancelled(c, n, i) ==
  /\ isWatch(c, n) /\ schedulerCtxDone(c)
  /\ watches[c][n].src[i].pc # "closed"
  /\ setWatch(c, n, [watches[c][n] EXCEPT !.src[i].pc = "closed"])

(* Mutant of CombineTake: an event is dropped when nobody receives it.     *)
CombineTakeDropping(c, n, i) ==
  /\ isWatch(c, n)
  /\ LET w == watches[c][n]
     IN  /\ w.comb = "select" /\ i \in w.open /\ w.src[i].pc = "calling"
         /\ setWatch(c, n, [w EXCEPT !.src[i].pc = "watching"])

(* The merging goroutine takes an event from a source.                     *)
CombineTake(c, n, i) ==
  /\ isWatch(c, n)
  /\ LET w == watches[c][n]
     IN  /\ w.comb = "select" /\ i \in w.open /\ w.src[i].pc = "calling"
         /\ setWatch(c, n, [w EXCEPT !.src[i].pc = "watching", !.comb = "sending",
                                     !.hold = <<i, w.src[i].sent>>])

(* A source is closed: its case is disabled; the loop ends with both.      *)
afterClosed(w, i) ==
  [w EXCEPT !.open = @ \ {i}, !.comb = IF w.open = {i} THEN "closed" ELSE "select"]

(* The merging goroutine finds a source closed.                            *)
CombineSourceClosed(c, n, i) ==
  /\ isWatch(c, n)
  /\ LET w == watches[c][n]
     IN  /\ w.comb = "select" /\ i \in w.open /\ w.src[i].pc = "closed"
         /\ setWatch(c, n, afterClosed(w, i))

(* The informer receives the event that is being sent.                     *)
CombineSend(c, n) ==
  /\ isWatch(c, n)
  /\ LET w == watches[c][n]
     IN  /\ w.comb = "sending" /\ ~w.stopped
         /\ setWatch(c, n, [w EXCEPT !.comb = "select", !.got = Append(@, w.hold),
                                     !.hold = <<0, 0>>])

(* Either select of the goroutine has a case for the context and for Stop. *)
combineEnds(c, n) == schedulerCtxDone(c) \/ watches[c][n].stopped

CombineReturns(c, n) ==
  /\ isWatch(c, n)
  /\ watches[c][n].comb # "closed" /\ combineEnds(c, n)
  /\ setWatch(c, n, [watches[c][n] EXCEPT !.comb = "closed"])

(* Stop of the merged watcher, by the reflector.                           *)
StopWatch(c, n) ==
  /\ isWatch(c, n)
  /\ ~watches[c][n].stopped
  /\ setWatch(c, n, [watches[c][n] EXCEPT !.stopped = TRUE])

-----------------------------------------------------------------------------
LaunchSteps(c) == Acquired(c) \/ AcquireFails(c) \/ NewScheduler(c) \/ HandlersSynced(c)
                  \/ RunReturns(c)
CombineLoop(c, n) == \E i \in Sources : CombineTake(c, n, i) \/ CombineSourceClosed(c, n, i)
WatchSteps(c) ==
  \/ GetWatcher(c)
  \/ \E n \in 1..MaxWatches :
       \/ CombineLoop(c, n)
       \/ CombineSend(c, n)
       \/ CombineReturns(c, n)
       \/ StopWatch(c, n)
       \/ \E i \in Sources : \/ SourceEvent(c, n, i)
                             \/ SourceTimeout(c, n, i)
                             \/ SourceCancelled(c, n, i)

Next ==
  \/ NewLauncher
  \/ \E c \in Calls : Launch(c) \/ LaunchSteps(c) \/ Close(c) \/ EndContext(c)
  \/ \E c \in Watching : WatchSteps(c)

Spec == Init /\ [][Next]_vars

(* Goroutines that can run do run, informers sync, and receive until their *)
(* context ends.  No call is made and no context ends by assumption.       *)
FairSpec ==
  /\ Spec
  /\ \A c \in Calls : WF_vars(LaunchSteps(c))
  /\ \A c \in Watching, n \in 1..MaxWatches :
       /\ WF_vars(CombineLoop(c, n))
       /\ WF_vars(CombineSend(c, n) /\ ~schedulerCtxDone(c))
       /\ WF_vars(CombineReturns(c, n))
       /\ \A i \in Sources : WF_vars(SourceCancelled(c, n, i))

-----------------------------------------------------------------------------
(* Properties.                                                             *)

States == {"idle", "waiting", "refused", "failed", "ended"} \union Holding

SourceState == [pc : {"watching", "calling", "closed"}, sent : Nat]
WatchState ==
  [src : [Sources -> SourceState], open : SUBSET Sources,
   comb : {"select", "sending", "closed"}, hold : Nat \X Nat, stopped : BOOLEAN,
   got : Seq(Nat \X Nat)]

TypeOK ==
  /\ launcher \in {"none", "ready", "ErrLoadSchedulerConfig", "ErrParseSchedulerConfig"}
  /\ cur \in 0..MaxParallel
  /\ waiters \in Seq(Calls)
  /\ pc \in [Calls -> States]
  /\ ctxDone \subseteq Calls /\ cancelled \subseteq Calls
  /\ watches \in [Watching -> Seq(WatchState)]

(* The semaphore is exact: every slot in use belongs to a scheduler that   *)
(* is being created or runs, or was lost by a failed launch, so that never *)
(* more than MaxParallel schedulers exist; a call that waits is in the     *)
(* queue exactly once; and nobody waits while a slot is free, so that a    *)
(* call that gives up has no other waiter to wake.                         *)
SlotsAccountedFor ==
  /\ cur = Cardinality(holders) + Cardinality(lost)
  /\ {c \in Calls : pc[c] = "waiting"} = Range(waiters)
  /\ Len(waiters) = Cardinality(Range(waiters))
  /\ waiters # <<>> => cur = MaxParallel

(* "further calls to SchedulerLauncher.Launch will block until previously  *)
(* obtained SchedulerHandle's are stopped" (NewLauncherFromConfig): if     *)
(* every handle is stopped in the end, a call that waits goes on, unless   *)
(* failed launches have used up all slots: the failure path of Launch does *)
(* not release what Acquire took.                                          *)
LaunchReturns ==
  (\A c \in Calls : (pc[c] = "running") ~> schedulerCtxDone(c))
    => \A c \in Calls :
         (pc[c] = "waiting") ~> (pc[c] # "waiting" \/ Cardinality(lost) = MaxParallel)

(* The events of source i in s are its first m, in their order.            *)
inOrder(s, i, m) ==
  /\ \A k \in 1..m : \E j \in DOMAIN s : s[j] = <<i, k>>
  /\ \A j \in DOMAIN s : s[j][1] = i => s[j][2] \in 1..m
  /\ \A j, k \in DOMAIN s : j < k /\ s[j][1] = i /\ s[k][1] = i => s[j][2] < s[k][2]

(* Events of source i that have left the store's callback.                 *)
taken(w, i) == w.src[i].sent - (IF w.src[i].pc = "calling" THEN 1 ELSE 0)

(* Merging loses no event and keeps the order of each store: while the     *)
(* merged watcher is open, and when it closes because both stores ended,   *)
(* what a store sent is what the informer has, then the event in the       *)
(* merging goroutine, then the one in the store's callback.                *)
MergeLosesNothing ==
  \A c \in Watching : \A n \in DOMAIN watches[c], i \in Sources :
    LET w == watches[c][n]
    IN  ~w.stopped /\ ~schedulerCtxDone(c)
          => inOrder(Append(w.got, w.hold), i, taken(w, i))

(* CombineTwoWatchers: "The returned watcher will close when both inputs   *)
(* close, when ctx is canceled, or when Stop() is called": the consumer is *)
(* never left waiting on a merged watch that has no source any more.  And  *)
(* when the scheduler of a call has ended or its launch has failed, every  *)
(* goroutine of its watches ends, those of the watches it had stopped      *)
(* before included (Stop alone leaves the two of the stores behind).       *)
WatchesEnd ==
  \A c \in Watching, n \in 1..MaxWatches :
    LET sourcesClosed == \A i \in Sources : watches[c][n].src[i].pc = "closed"
    IN  /\ (isWatch(c, n) /\ (combineEnds(c, n) \/ sourcesClosed))
             ~> (isWatch(c, n) /\ watches[c][n].comb = "closed")
        /\ (isWatch(c, n) /\ pc[c] \in {"ended", "failed"})
             ~> (isWatch(c, n) /\ watches[c][n].comb = "closed" /\ sourcesClosed)

(* Refuted: Stop of the merged watcher releases the stores' goroutines.    *)
StopReleasesSources ==
  \A c \in Watching, n \in 1..MaxWatches :
    (isWatch(c, n) /\ watches[c][n].stopped)
      ~> (isWatch(c, n) /\ \A i \in Sources : watches[c][n].src[i].pc # "calling")
=============================================================================
