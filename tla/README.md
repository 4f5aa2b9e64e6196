# Scaling advisor: a TLA+ verification project

The scaling advisor plans how a Kubernetes cluster should scale out.  For a
request (a cluster snapshot and scaling constraints) it simulates candidate
nodes: it populates an in-memory Kubernetes API, adds a node of one template,
lets an embedded kube-scheduler bind the pending pods, scores what happened,
keeps the winner and goes on from the winner's view until nothing is left to
place.  This directory models that core, checks it with TLC on small instances
and proves most of its safety properties with TLAPS for instances of any size.

## Inventory

| Component | State | Operations | Interacts with | What is hard |
|---|---|---|---|---|
| Resource store (`minkapi/view/store/store.go`) | cache of objects and tombstones, version counter, broadcaster | Add, Update, Delete, DeleteObjects, Reset, Close, Watch, GetWatcher | one per kind in each view; goroutine per broadcast; client-go broadcaster | broadcasts leave the mutex; snapshot and registration of a watch; Close waits with the mutex held |
| Views (`minkapi/view/base.go`, `sandbox.go`) | stores, change count, delegate | Create, Get, Update, bind, Patch, PatchStatus, Delete, DeleteObjects, List, Reset | sandboxes stack on delegates; the scheduler and the run call them concurrently | several store calls without a lock; shared pointers; tombstones across levels |
| View access (`minkapi/view/access.go`) | views cached by name | GetSandboxViewOverDelegate, Close | simulator, server | a cached view keeps its first delegate |
| Event sink (`minkapi/view/eventsink`) | events | Create, Update, Patch, List, Reset | event recorder writes, run polls | List and Reset are two critical sections |
| Simulation run (`planner/simulation/scaleout`) | RunState, result | Run, Track, doWork, Result, Reset | view, sink, scheduler | polling a concurrent scheduler; reruns on old state; error paths |
| Simulator (`planner/simulator/scaleout`) | groups, pass views, cycle results | Simulate, cycles, passes, scoring, Close | errgroup of runs; result channel | carrying leftovers and views through nested loops |
| Planner (`planner/planner.go`) | channels | Plan, doPlan | caller, simulator goroutine, context | select races, clearing state under a running goroutine |
| Scheduler launcher (`planner/scheduler`) | semaphore, handles | NewLauncher, Launch, Close | run, kube-scheduler | slots on error paths, a context that ends while a slot is granted |
| Watch merging (`common/watchutil`) | goroutine | CombineTwoWatchers | sandbox GetWatcher, the scheduler's informers | ending of three goroutines, order of two sources |
| Volume binding (`common/volutil`, `viewutil`) | none (view) | bind for Immediate mode, provision, finalise | run, request view, scheduler | rounds on stale lists, two updates per binding |
| Node scorer (`planner/scorer`), weigher | none | GetNodeScorer, Compute, Select | simulator | prices of zero, rounding, ties |
| MinKAPI server (`minkapi/server`), its CLI, the service's CLI | HTTP server, routes, kubeconfig files | LaunchApp, Start, GetSandboxView, handlers, Stop | view access, signals, clients | start and stop racing with calls; draining; an unsynchronised error |
| In-memory client (`minkapi/view/inmclient`) | none | the verbs of 21 typed accesses | views | objects shared with the stores; agreement with the HTTP handlers |
| Operator, factories, tools, samples | wiring | | | |

What makes each of the modelled components correct, and where it could go
wrong, is the `hazards` list of PROJECT.json.

## Modules

* **ResourceStore** models `InMemResourceStore`.  An operation under the mutex
  is one action.  Each broadcast is a member of `actions` until the goroutine
  hands it to the broadcaster.  The broadcaster of `k8s.io/apimachinery`
  (external) is a bounded queue, a loop handing each event to every registered
  watcher, and functions that run in the loop when the queue is empty.  A
  `Watch` call goes through snapshot, registration, select loop, callback and
  stop.  `owed` and `accepted` are history variables: the events spawned for a
  registered watch, and what its callback has been told, the snapshot included.
* **SandboxView** models a stack of views: view 0 is the base view, view *v* a
  sandbox over view *v - 1*.  One store call is one action, an operation is a
  sequence of them with the locals of its thread.  Objects live in a heap, so
  sharing and in-place changes show.  Mutating operations are `Create`,
  `Update`, `Bind`, `Patch`, `PatchStatus`, `Delete`, `DeleteObjects` and
  `Reset`; `GetObject` and `ListMetaObjects` are operators on the state, and
  the listing that a bulk delete makes is taken level by level.
* **SimulationRun** models one simulation, run once or again: `Run`,
  `RunState.Init`, node creation, the poll loop, `Track`, the result and the
  deferred close.  The kube-scheduler and its event recorder (external) bind,
  fail, preempt and report at any moment; a stopped one may still finish
  bindings in progress, and its recorder may drop events.
* **RunContract** is what a simulation means to the simulator that runs it: a run
  begins with the pods that have no node, adds one node, records bindings that are
  there, each at most once over all runs, and ends with a result that divides the
  pods, or for good with an error.  A binding may go unrecorded or be recorded by a
  later run.  SimulationRun implements it (`ImplementsContract`): `untold`, the
  bindings that may still be recorded, is the set of pods whose `Scheduled` event is
  with the recorder, in the sink or in `Track`'s list.
* **Simulator** models the loops over groups, cycles and passes, the cache of
  views by simulation name, scoring (any scored node may be selected), and the
  plans that are sent.  One run is one step; the simulations of a group act on
  their own views, so the order of these steps is all that concurrency adds.  A
  view remembers the bindings that no run has seen (`missed`): a later run on it may
  record them, as RunContract says.  It also keeps the nodes that earlier runs scaled
  out, idle ones included, and a later run may place pods on them.
* **PlanProtocol** models the caller, the goroutine of `Plan` and that of
  `Simulate`, their two unbuffered channels, cancellation, and the state that
  `SimulatorState.Reset` clears.  It abstracts a cycle to its outcome.
* **PlanContract** is what one call of `Plan` means to its caller: responses, a
  terminal error, the closed channel, cancellation.  PlanProtocol implements it
  (`ImplementsContract`, `INSTANCE PlanContract` with the caller's responses, the
  channel and the context as they are).
* **EmbeddedScheduler** models the launcher: the semaphore of `x/sync` (external),
  `Launch` from `Acquire` to the returned handle with each error path, the
  scheduler's goroutine and `Close`; and for one scheduler the watches of its
  informers on a sandbox view, each a goroutine per store and the goroutine of
  `CombineTwoWatchers`.
* **VolumeBinding** models the population of a view with claims and volumes, the
  round of Immediate mode on it, and the rounds of a run that provision and
  finalise, each on the list it took at its beginning and with two updates per
  binding.  The scheduler's VolumeBinding plugin (external) decides between any two of
  these steps, by what it has read, and its copies (`claimWrite`, `volWrite`) are
  written at any later step over whatever was stored in between, for `UpdateObject`
  compares no versions.  One write is pending per claim and per volume; the claim and
  the volume that a decision is about are read at the same moment.
* **NodeScorer** models `GetNodeScorer`, `Compute` and `Select` of both strategies
  with their integer results; quantities are integers in thousandths of the units that
  `getNormalizedAggregate` sums, which for memory is the byte.
* **ServerLifecycle** models either program around the server: parsing, `LaunchApp`
  and its goroutine, `Start`, requests and goroutines that ask for views, watches,
  `GetKubeConfigPath` with its condition variable, a signal, `Stop`, the exit code.
* **ClientFacades** models the two kinds of client that `GetClientFacades` returns,
  for each of the kinds of `typeinfo`.  The same calls are made on two views, one
  through routes and handlers, one through the typed accesses, on a heap that shows
  who shares an object with a store.  A patch has a type, may name a namespace, may lack
  what it should set, or may fail to fit when part of it was applied; a PUT may fail in
  the same way; a Get may ask for the newest version.

`MC<module>` gives constants and symmetries to TLC; `<module>Proofs` has the
theorems.  Operators introduced by a comment that begins "Mutant of" are
deliberately wrong variants of the definition that follows them.  They are used
by no specification: replacing the definition by its mutant must make TLC report
the property listed with it in PROJECT.json, which shows that the property
depends on that piece of code.

SimulationRun, Simulator and PlanProtocol are the same request at three levels:
SimulationRun says when a run ends (`RunEnds`, whose conclusion is fairness of
Simulator and PlanProtocol: they inherit its hypothesis) and what a run may report; Simulator justifies that
the cycles end (`Terminates`).  What a run records is RunContract's, which
SimulationRun is proved to implement: the setups of Simulator that are not `patient`
allow a run to see any subset of its own placements and of those that earlier runs on
its view left unseen; the patient one is the ideal case in which the plan should be
exact.  EmbeddedScheduler is the scheduler that SimulationRun launches and closes
(`SchedulerClosed` is why every handle is stopped in the end), VolumeBinding the
work that SimulationRun abstracts to done, not done or failed, and NodeScorer the
choice that Simulator leaves open.

## What the runs show

Passing runs:

| Run | Shows | Bounds |
|---|---|---|
| ResourceStore_safety | versions name one write; a registered watch loses nothing and is told of each change once, or twice if its snapshot has it | 2 keys, 2 versions, 1 watch, queues of 1: every queue can be full, an object can be deleted and re-created, and a delete can be late |
| ResourceStore_liveness | Close returns, watches return after it, events arrive | 1 key; the queues can still be full |
| SandboxView | a thread on a view never disturbs the views above and below, nothing is shared; lists agree with gets; a bound pod is not bound elsewhere; deletes last; the change count hides no change | 1 object, 3 stacked views, 2 values; three scenarios: threads on a sandbox and its delegate, two on one sandbox, one on two stacked sandboxes |
| SimulationRun | claimed placements are real, the contract of a run is implemented, patience, no scheduler left behind, a run ends unless failed attempts to schedule or volumes to bind go on for ever | 2 pods, 2 runs, preemption, every outcome of the pass in between: an event of the first run may be recorded by the second.  Failed attempts, volumes and errors are not bounded |
| Simulator | plans keep their promise, are complete, respect priority; requests are answered; no empty node in a plan; the loops end | three setups: 3 groups of one simulation, 3 pods, patient runs; groups of 2 and 1, 2 pods, hasty runs, every failure; no group at all.  Every fit of pods to templates and every capacity up to 2 |
| PlanProtocol | the contract of `Plan` is implemented, the channel is closed, without cancellation nothing leaks | 3 cycles, both kinds of caller, cancellation at any moment |
| EmbeddedScheduler | slots and the queue for them are exact, nobody waits while a slot is free, merged watches keep order, lose nothing and end | 2 calls for 1 slot, every error path; 1 watch with 2 events of one store and 1 of the other |
| VolumeBinding | but for `contended` and `disputed` volumes bindings are mutual and exclusive; they fit and are in the right zone; a claim keeps its volume; every claim that is due gets one | 2 claims, 1 volume, 3 nodes (2 zones and none); with and without default class, topology, fitting volume, a released volume of a claim that is gone and a node that was selected in the cluster; the scheduler decides up to twice for one claim and writes as late as it likes |
| NodeScorer | the winner is the best node, and the largest among equals, by a definition without aggregation, rounding and sorting | 3 pods, 6 templates (two free, one without price, some of equal price), up to 2 results |
| ServerLifecycle | one view per name and one name per view, requests drained before stores close, a signal ends the process, waiters for a kubeconfig get it | 2 callers, 1 sandbox name and that of the base view, both programs, with and without deadline and path |
| ClientFacades | outside listed differences both clients see the same and leave the same view; no call that does not fail half way changes a stored object without a new version | every kind, 2 namespaces, 3 writes, patches of every type, with and without `status`, that fail half way, PUTs that do |

The bounds are as small as lets every branch of every action be taken; the
properties relate at most two keys, pods, claims, threads, callers or runs, so a
further one would repeat what one of the two does.

One run ends in a violation, with its finding in PROJECT.json: in Simulator_cover,
with two simulations in a group, views cached by name make later passes run on
the wrong view, and a plan claims pods that the final view does not place.  The
run Simulator shows that with one simulation per group the cached view is the
right one.

Type invariants (`TypeOK`) are in every module.  Those of ResourceStore, PlanProtocol,
SimulationRun, Simulator, ServerLifecycle, SandboxView and VolumeBinding are proved (in
EmbeddedScheduler, the parts the two theorems need); in the other modules they document
the variables.

## Where the code departs from its comments

Besides this, TLC refutes the following formulas of the modules.  They have
no run of their own; to see a trace, check the formula in a configuration like
those here with the constants given (the others as in the module's run).
The last column gives the line of the code and then that of the comment; `types.go`
and `scaleout_types.go` are under `src/api/planner`, the rest under the
directories named in the inventory.

| Formula | Constants | What happens | Code and comment |
|---|---|---|---|
| ResourceStore `DeletionsObserved` | 1 key, 1 watch | the deletion of an object written before `startVersion` carries an old version and is filtered out | store.go:515; store.go:495 |
| ResourceStore `ChangesObserved` | 1 key, 1 watch | a write between snapshot and registration is in neither | store.go:503; store.go:495 |
| ResourceStore `AtMostOnce` with `<= 1` | 1 key, 1 watch | the goroutine that broadcasts a write starts before the snapshot that has the write and runs after the registration: the watch is told of it twice | store.go:99, 503; (no comment) |
| SandboxView `Independence` without `neverPatches` | a scenario with `Patch` on a sandbox | `patchObject` changes the delegate's object in place | base.go:371; sandbox.go:51 |
| SandboxView `ListAgreesWithGet`, second part for every view or without `bareName` | a key with a namespace, or view 2 | a deleted object is still listed: tombstones are keys, exclusion compares names, and each level replaces the exclusions of the one above | sandbox.go:231; sandbox.go:357 |
| SandboxView `BoundOnce` without its condition | two threads that bind | both pass the check, the second replaces the first | sandbox.go:205; base.go:354 |
| SandboxView `OnlyCreateResurrects` without `oneThreadPerView` | two threads on the sandbox | an update re-creates what a concurrent delete removed | sandbox.go:166; sandbox.go:136 |
| SimulationRun `EventsAccountedFor` | 1 run, no `Outcomes` | an event written between `List` and `Reset` of the sink vanishes unseen | runstate.go:136; runstate.go:103 |
| SimulationRun `LeftoverAreUnscheduled` | 1 run | a pod bound after the last poll is reported as left over | scaleout.go:117; scaleout_types.go:168 |
| SimulationRun `AssignedWereUnscheduled` | 2 runs, `Outcomes = {"won", "lost"}` | an event of an earlier run is recorded in a later one | runstate.go:120; scaleout_types.go:165 |
| SimulationRun `NoZeroAssignments` | 1 run | the slice is made with a length and then appended to | runstate.go:327; scaleout_types.go:165 |
| SimulationRun `pc # "idle" ~> pc = "idle"` | 1 run | a scheduler that reports FailedScheduling before every poll keeps the loop going: the count of unchanged polls grows with empty ones only, and the planner sets no timeout on the context | runstate.go:125; scaleout.go:129, where the loop ends when there are "no more scheduling events" |
| Simulator `NoFeasiblePodLeft`, `PlanCoversPods` without `oneEach` | as Simulator_cover | the cached view makes a feasible pod unsatisfied, or fails the request because no pod is unscheduled in it | access.go:63, runstate.go:76; singlenode.go:55, 113 |
| PlanProtocol `NoPanic` | cancellable | doPlan clears the simulator's state while Simulate reads it | simulator/scaleout/scaleout.go:129; types.go:418 |
| PlanProtocol `ErrorIsTerminal`, `CancelIsQuiet` | cancellable | `ctx.Err()` is sent as an error, also after the simulator's error | planner.go:50, 85; scaleout_types.go:70, types.go:418 |
| EmbeddedScheduler `StopReleasesSources` | as EmbeddedScheduler | stopping the merged watcher stops neither source: their goroutines stay in a send until the context ends | watchutil.go:56; (no comment) |
| VolumeBinding `KeepsVolume` without `settled` | as VolumeBinding | a volume with a reference is bound to its claim although the claim has another | volutil.go:275; volutil.go:254 |
| VolumeBinding `BindingsMutual` without `contended` | as VolumeBinding | `chosenPVs` stays empty, so one round of Immediate mode gives a volume to several claims | volutil.go:138; volutil.go:131 |
| VolumeBinding `BindingsMutual` without `disputed` | as VolumeBinding | a volume looks free between its creation for a claim and its update; the scheduler chooses it for another claim and writes its copy after the update: the next round gives the volume to both claims | volutil.go:457, 395, store.go:112; (no comment) |
| VolumeBinding `DecisionCarriedOut` without its last disjunct | as VolumeBinding | the scheduler may choose a volume just being provisioned for another claim; the update writes over its reference | volutil.go:379; (no comment) |
| NodeScorer `CheapestWins` with the units of memory as in the document | two templates of one price, one pod that asks for memory and one for cpu and gpu | the document counts memory in Gi, the scorer sums bytes, so that memory outweighs everything else and another node is the best | scorer.go:270; docs/scorer-design.md:28 |

The rest shows by reading, or as a branch of an action:

* node scorer: the weight of cpu is 9 (weigher.go:34), where the document has 6
  (docs/scorer-design.md:71);
* simulation run: `Track` resets `numUnchangedTrackAttempts` only for a scheduled
  pod, not for every non-empty slice of events (runstate.go:113, 137);
* planner: after cancellation nobody receives from `ResultCh`, so Simulate's
  goroutine may stay in its send (simulator/scaleout/scaleout.go:137; types.go:415);
* launcher: when `createSchedulerHandle` fails the slot is not released
  (scheduler.go:107; `lost` in EmbeddedScheduler), so that after as many failures
  as there are slots every further `Launch` waits until its context ends;
* sandbox `GetWatcher` passes on the delegate's events for objects that the sandbox
  hides or has deleted, which `WatchObjects` filters, and does not stop the first
  watcher when the second cannot be had (sandbox.go:294-305);
* volumes: `AsPV` does not carry the volume mode over, so block volumes of a
  cluster are never matched, and a block claim that was bound in the cluster has a
  filesystem volume in the view (`VolumeFitsClaim` is about claims bound here); names of simulated volumes join namespace and name by
  a hyphen, so two claims may get the same one (left out by `VolumeAssumption`); a
  volume whose `ClaimRef` names no claim is passed over, but the named result `err`
  keeps the error and fails the round unless a later volume's claim is found
  (volutil.go:281-284; `FinalizeOrphan`); nothing that writes to a store compares
  resource versions (store.go:112-143);
* server: the goroutine in `LaunchApp` assigns its named result (minkapi cli.go:75,
  service cli.go:124), so a failed start may end the process with exit code 0 or be
  logged only; a kubeconfig that cannot be written leaves the listener open
  (server.go:115-124); a second `GetSandboxView` with the same name panics in
  `rootMux.Handle` although it "creates or returns" the view (server.go:183);
  `GetSandboxViewOverDelegate` does not register routes as its comment says
  (server.go:227); the base view has its path from construction, so
  `GetKubeConfigPath` does not wait for the file; `validate` of the service
  dereferences a nil `FileInfo` for an unreadable pricing file; views asked for
  after `Close` stay open;
* clients: `differs` in ClientFacades lists where a network client and an in-memory
  client are known to disagree.  There is no status PATCH for cluster-scoped core
  kinds and no status route, PUT or PATCH for other cluster-scoped ones, and no
  deletecollection, though they are advertised; PUT and PATCH cannot unset a field.
  A PUT or PATCH that fails after its body was read into the object, because it does not
  decode to the end (server.go:415-420) or names another namespace (base.go:371-400),
  leaves the stored object changed without a new version; a client in memory that holds
  the object sees the half of the patch.  A status PATCH is accepted as strategic merge
  patch only by the server (server.go:523-527) and with any type in memory
  (genericaccess.go:135-142); without a `status` it is an error for both
  (objutil.go:214-217).  The server refuses an unknown type of patch before it looks for
  the object, an access after.  Get checks the `ResourceVersion` asked for in memory only
  (genericaccess.go:101; server.go:362-371); the two take the namespace from different places; field
  selectors are ignored by one and refused by the other; core events exist in memory
  only; an in-memory client shares the stored objects; Create replaces an object
  that exists.

The checked properties state the complement, so what they except is exactly
this: `neverPatches`, one active thread (`BoundOnce`), `oneThreadPerView`,
`ListAgreesWithGet` without namespaces, and its second part for one sandbox (that a
list misses nothing holds of any stack), `hist.fresh` (a run that does
not inherit the silent polls of the one before; `Init` keeps them after a pass
without winner, runstate.go:68), the snapshot's writes in `AtMostOnce`, the hypothesis of
`RunEnds` (`KeepsGoing`), `exact` and `oneEach`, `lost`, `contended`, `disputed` and
`settled`, `diverged` and the calls that are "half done"; those of PlanContract say what
cancellation may add, those of RunContract what the polling may miss.

CHECK_DEADLOCK is off where the system may stop: a closed store whose watch has
returned and whose version bound is spent, a simulation that has had its runs, a
request that was answered, a run of volume rounds or a process that has ended, a
client that has spent its writes.  SandboxView never stops and is checked.

## Fairness

* ResourceStore: the broadcaster's steps, and for each watch the steps its
  goroutine takes by itself, plus the consumer of the callback.  Go runs every
  runnable goroutine; the kube-scheduler's informers keep reading.  No operation
  of a client and no timeout is assumed to happen.
* SimulationRun: only the goroutine of the run.  Its calls are on in-memory
  objects, and a poll is a timer.  The scheduler may do nothing for ever.  That a run
  ends has a hypothesis, in the property itself: unless the context is done, failed
  attempts to schedule and volumes to bind come to an end.  Without it the run need not
  end (see the table above).
* Simulator: its steps, including the end of each run, which is `RunEnds` of
  SimulationRun with its hypothesis.
* PlanProtocol: each of the two goroutines; a cycle's end is that of its runs, as in
  Simulator.  Cancellation need not happen.
* EmbeddedScheduler: the steps of a launch and of a scheduler's goroutine, the
  merging goroutine, informers that receive until their context ends, sources that
  see their context end.  No call is made, no handle closed and no context ended by
  assumption; `LaunchReturns` has "every running scheduler is stopped in the end" as
  its hypothesis, which is `SchedulerClosed` and, with the hypothesis of its own,
  `RunEnds` of SimulationRun.
* VolumeBinding: the steps of a round, another round while the run goes on, and that a
  write which the scheduler has begun is made.
* ServerLifecycle: runnable goroutines, and the deadline of a stop that has one.  No
  signal, failure, call or timeout of a watch is assumed to happen.

## What is proved

*ResourceStoreProofs*, for any finite set of keys, any set of watchers and
selectors, any version bound and any capacities (`StoreAssumption`):

* `StoreTypeCorrect`: `Spec => []TypeOK`.
* `RegisteredWatchLosesNothing`: `Spec => []NoEventLost`.
* `VersionsAreUnique`: `Spec => []VersionsUnique`.
* `RegisteredWatchRepeatsNothing`: `Spec => []AtMostOnce`.

The first two follow from `StoreInvariant`, the inductive invariant `StoreInv`: types,
`WatchInv` (a watch has a finite prefix; before its registration nothing is owed
and it is neither registered nor stopped; while it selects or is in its callback
it is not stopped, and it holds an event exactly in the callback), `LoopInv`
(while watchers are left to serve the loop has an event in hand; once stopped
nobody is registered and no function waits; a register function that waits
belongs to a watch that is registering),
`LiveInv` (live objects have a version) and `NoEventLost` itself.  `NoEventLost`
is not inductive alone: that `LoopTake` hands an event to every watch that is
owed it needs to know which watches are registered, and that a watch that ends
through `LoopSend`'s stop branch is no longer selecting needs the phases.

`VersionInv` adds to `VersionsUnique` that no version in circulation is ahead of the
counter, and that an event with the version of a live object is about that object:
`Delete` and `buildPendingWatchEvents` make new events of old versions.  `AtMostOnce`
counts the news of a change (`Copies`) over the six places where it can be: a goroutine
that is yet to broadcast it, the incoming queue, the loop's hands, the watch's queue, its
callback, and what the callback has accepted, the snapshot's events included.  Every step
moves one, makes one of a change that had none because its version is new, or drops one;
only the registration adds to an older change, and only to one that the snapshot has.
`AcceptInv` says that no two goroutines broadcast one change, that a snapshot has writes
only, and that nothing accepted is ahead of the counter.  For a change that is not in the
snapshot the bound is one; for one that is, the overlap of snapshot and broadcast makes it
two, and no less is true (see the table above).

*PlanProtocolProofs*, for any set of callers and any bound on cycles:

* `ProtocolTypeCorrect` and `PlanAnswers`: with or without cancellation
  `Spec => []TypeOK` and `Spec => []Answered`.  `ControlInv` ties the program
  counters to what is being sent; `AnswerInv` says that before the simulator
  closes its channel a result was delivered.
* `NoPanicWithoutCancel`: `Spec => []PanicNeedsCancel`, and `ErrorEndsPlan`:
  `Spec => []ErrorsComeLast`.  `QuietInv` says that unless the context has ended
  the state is cleared only after the simulator's goroutine has closed its
  channel, and that doPlan has an error of its own to send only for a rejected
  request or an ended context; `ErrorInv` that after an error of the simulator
  nothing more is on its way from it, and which error may follow.
* `PlanImplementsContract`: `Spec => Contract!Spec`, step simulation under the
  invariant `ContractInv`, which adds to the above what the contract can observe: in
  mode AllAtOnce whatever the simulator sends is its last message, so that a plan is
  the first response and no other follows; and `ctx.Err()` is on its way only once
  the context has ended.

*SimulationRunProofs*, for any finite set of pods, any patience and any number of runs
(`RunAssumption`), with failures and volumes to bind without bound:

* `RunClaimsRealPlacements`: `Spec => []PlacementsAreReal`; `RunIsPatient`:
  `Spec => []GivesUpLate`; `RunClosesScheduler`: `Spec => []SchedulerClosed`.
* `RunImplementsContract`: `Spec => Contract!Spec`, of RunContract.

The first three are parts or consequences of `RunInvariant`.  `RecordedInv` (a pod that `Init`
found and that is not left over has been recorded) is what the result is made from;
`PatienceInv` ties `numUnchangedTrackAttempts` to the empty polls of this run and says
why the poll loop ended.  A recorded placement stays real because the scheduler binds
only unbound pods, whether its run goes on, has been closed or is followed by another.

The contract is a step simulation under `ContractInvariant`.  `ProgressInv` ties the
status to the steps of `Run` and says that what is left over is what was found and has
not been recorded, over resets and reruns.  `EventInv` is why no binding is recorded
twice: its event is with the recorder or in the sink or listed, and in two of these
places only between `List` and `Reset`; a pod without a node has none, so that `Bind`
makes the only one.  That events vanish between `List` and `Reset`, are dropped or lead
to an error are steps by which `untold` gets smaller.

*SimulatorProofs*, for any set of requests with finitely many pods and disjoint,
finite, nonempty groups (`SimulatorAssumption`; `RequestView` is the name of no
simulation):

* `PlansHaveNoIdleNode`: `Spec => []NoIdleNode`, for hasty runs, failures and groups
  of several simulations too.  `SimInv` needs `RecordsHold` (what a simulation has
  recorded since its last reset is in its view) to know that a winner holds a pod, and
  `WinnersHold` to keep it: later runs on the same cached view move no pod.
* `PlansCoverPods`: `Spec => []PlanCoversPods`, `PlansLeaveNoFeasiblePod`:
  `Spec => []NoFeasiblePodLeft` and `PlansRespectPriority`: `Spec => []PriorityRespected`.
  They rest on `ExactInvariant`: for a request with one simulation in each group,
  patient runs and no failure from outside, `ExactInv` says of the view that the next
  pass starts from that its bindings are those the winners so far account for
  (`Settled`), that the templates of the groups before take none of its unbound pods
  (`Exhausted`), and that no pod is on a node of a group behind one that would have
  taken it (`Ordered`); while a run's result waits for its pass to end the same is
  said of the view the run used (`AfterRun`).  The induction is over the nested loops:
  a pass without winner exhausts the template, the last pass of a group exhausts the
  group.

*EmbeddedSchedulerProofs*, for any finite set of calls, any size of the semaphore and
any number of watches and events (`LauncherAssumption`):

* `SlotsAreExact`: `Spec => []SlotsAccountedFor`.  One release can wake a queue's
  worth of calls, so the cardinalities can be followed only with `QueueInv`: the queue
  has each waiting call exactly once, and is empty while a slot is free.
* `MergeIsLossless`: `Spec => []MergeLosesNothing`.  `WatchInv` adds that a merging
  goroutine in its select holds no event and that a callback that is sending has one.

*ServerLifecycleProofs*, for any finite set of callers and any names
(`ServerAssumption`):

* `ServerTypeCorrect`, `NameHasOneView`: `Spec => []OneViewPerName`, and
  `StopDrainsFirst`: `Spec => []DrainedBeforeClose`, from `ServerInvariant`.
  `CountInv` (views are numbered without gaps and are no more than the callers
  served) shows that a new view is a new number; `CallInv` says what a call has done
  when it registers its route, `StopInv` how far `Stop` has come.  That no request
  begins once `Shutdown` was called is what makes the drained server stay drained.

*SandboxViewProofs*, for a stack of any depth, any finite sets of keys and threads and
any scenarios (`ViewAssumption`):

* `ViewTypeCorrect`: `Spec => []TypeOK`, by `ViewInv`, which says for each program
  counter which locals of the operation are set.
* `CountHidesNoChange`: `Spec => []ChangesAreCounted`.  `CountedSoon` is stronger: the
  operation under way that excuses a zero count is about to count or to reset.
* `ViewsAreIndependent`: `Spec => Independence`.  `OwnObjects` says that without
  `Patch` an object that a thread is about to store is in no store and in no other
  thread's hands; so a store call changes the store it is made on and nothing else.
* `TombstonesStand`: `Spec => OnlyCreateResurrects`.  A copy from a delegate is stored
  only where the view itself has no entry: `OneWriter`, which holds with one thread per
  view and needs `Levels` (how far down a lookup is).
* `PodsAreBoundOnce`: `Spec => BoundOnce`.  `AloneSees` says of the only active thread
  that the object it found is what its view shows, through all levels between, and that
  what it will store has the node of that object, or the object has none.
* `ListsTellWhatGetFinds`: `Spec => []ListAgreesWithGet`.  `ListMetaObjects` recurses
  over the levels; `layered` gives its value without recursion (the entries of each
  level that the level above, and only that one, does not exclude), and the two are
  equal for every view because the least view at which they differ would have to be
  both above 0 and not above any.  `GetObject` takes the topmost entry of a key
  (`TopEntry`), and the topmost entry is the one that no level above hides from the
  list.

*VolumeBindingProofs*, for any finite sets of claims and volumes, any nodes and zones,
any number of decisions (`VolumeAssumption`), and any snapshot at rest
(`SnapshotAssumption`: a bound claim and its volume refer to each other, no volume
refers to a pending claim, and a node is selected only for a claim with a class that
is not of Immediate mode).  That is a cluster between two bindings of its own volume
controller; a snapshot taken within one is outside of what is proved.

* `VTypes`: `Spec => []TypeOK`; `Mutual`: `Spec => []BindingsMutual`; `FitsClaim`:
  `Spec => []VolumeFitsClaim`; `Keeps`: `Spec => KeepsVolume`.

`Mutual` is proved for a scheduler that writes copies of any age: `ClaimWrites` and
`VolumeWrites` say what a copy not yet written may differ in from what is stored.  It
excepts two kinds of volumes, and TLC shows that each exception is needed: those that one
round of Immediate mode gave to several claims (`contended`; `chosenPVs` stays empty), and
those that the scheduler chose for one claim while they were provisioned for another
(`disputed`).  For all other volumes it holds under every schedule of decisions, updates and late
writes.

All rest on `VInv`.  `BindInv` is `BindingsMutual` between any two steps.  `RefInv` is about
references and pending writes: a volume that refers to a claim fits it and was chosen for
it by the scheduler, which if it decided once has no other volume for the claim; that
is what makes the finalizing round bind a claim to the volume that was chosen for it.
`Fits` carries capacity, class, mode and zone from the choice to the binding.  `ListInv`
and `StageInv` say for each round how far the lists taken at its beginning can be behind
the view.  `UpdateInv` says of the copies that the two updates of a binding are about to
write that they fit each other, and what the view may have meanwhile.

## Only model-checked

* Every liveness property: fairness is out of the prover's reach.
* The properties of NodeScorer: its aggregation folds over sets, and what a fold
  computes for every set is an induction that the prover's library does not offer in a
  form it can use.  (An induction over the levels of a stack can be done, as above, by
  the least number principle, which needs no operator as a parameter.)
* `AccessModesAgree` and `ChangesAreVersioned` of ClientFacades: each call of each kind
  is a case of its own.

## Not modelled

Object contents, labels, conversion and encoding; discovery documents, logging and
request tracing; flag parsing; access modes and selectors of claims; the scheduler
itself, and preemption in Simulator, where the pods of a request do not displace each
other.  A scheduler that is stopped may finish a binding after its view has become the
delegate of the next pass's views; SimulationRun has that binding, Simulator does not.
Generated code, tools, samples, the operator's wiring and the factories have
no state of their own.  The multi-node strategy has no simulator in this code base.
Data races on plain fields are represented where they decide control flow (the state
cleared under the simulator's goroutine, the result of `LaunchApp`).

## Plan

EmbeddedScheduler composed with ResourceStore, so that a merged watch is fed by two
stores instead of by bounded sources; and the step of Simulator that stands for a run
shown to be a sequence of RunContract's steps.
