--------------------------- MODULE SimulationRun ---------------------------
(***************************************************************************)
(* One scale-out simulation, run once or several times against its         *)
(* sandbox view (src/planner/simulation/scaleout/scaleout.go and           *)
(* runstate.go), together with the embedded kube-scheduler that binds pods *)
(* in that view and reports to the view's event sink                       *)
(* (src/minkapi/view/eventsink/eventsink.go).                              *)
(*                                                                         *)
(* The run polls the sink; the scheduler and its event recorder are other  *)
(* goroutines, so their steps fall between any two steps of the run.  The  *)
(* view is reduced to what the run reads of it: which node each pod is     *)
(* bound to.  Each run scales out one node, named here by the run number.  *)
(***************************************************************************)
EXTENDS Naturals, FiniteSets

CONSTANTS
  Pods,          \* the pods of the request that have no node
  MaxUnchanged,  \* Config.MaxUnchangedTrackAttempts
  Preemption,    \* whether the pods' priorities let one preempt another
  Outcomes,      \* how the passes before a further run may have ended
  MaxRuns        \* bound: runs of this simulation

Existing == 0                     \* a node of the cluster snapshot
Nodes == 0..MaxRuns
Unbound == MaxRuns + 1
Gone == MaxRuns + 2               \* deleted from the view, a preemption victim

AllOutcomes == {"won", "lost", "nowinner"}

ASSUME RunAssumption ==
  /\ IsFiniteSet(Pods) /\ Pods # {}
  /\ MaxUnchanged \in Nat \ {0} /\ MaxRuns \in Nat \ {0}
  /\ Preemption \in BOOLEAN /\ Outcomes \subseteq AllOutcomes

VARIABLES
  bound,      \* [Pods -> Nodes \union {Unbound, Gone}], the pods of the view
  nodes,      \* the scale-out nodes the view holds
  sink,       \* the events in the event sink of the view
  recording,  \* the events the recorder has taken and not yet written
  sched,      \* the scheduler: "off", "running", "stopping"
  ctxDone,    \* the context is cancelled or timed out
  pc,         \* the next step of Run
  runNum,     \* the number of runs begun
  run,        \* the RunState
  evList,     \* the events Track listed and has not handled
  failing,    \* Run is about to return an error
  result,     \* the ScaleOutSimResult
  hist        \* history of a run: what the sink got, the empty polls since a change

vars == <<bound, nodes, sink, recording, sched, ctxDone, pc, runNum, run,
          evList, failing, result, hist>>
clusterVars == <<bound, sink, recording, sched>>
runVars == <<nodes, pc, runNum, run, evList, failing, result>>

Scheduled(p) == [reason |-> "Scheduled", pod |-> p]
(* Track looks neither at the pod of such an event nor at their number.    *)
FailedScheduling == [reason |-> "FailedScheduling", pod |-> "some"]
Event == {Scheduled(p) : p \in Pods} \union {FailedScheduling}

(* scheduled relates node names to the pods recorded on them.              *)
MakeRunState ==
  [status |-> "Pending", unscheduled |-> {}, leftover |-> {}, scheduled |-> {},
   scaleOutNodes |-> {}, numUnchanged |-> 0]

NoResult == [assigned |-> {}, other |-> {}, blank |-> 0, leftover |-> {}]

(* What the history variable holds between runs.                           *)
NoHistory == [reached |-> {}, empties |-> 0, fresh |-> TRUE]

Init ==
  /\ bound = [p \in Pods |-> Unbound]
  /\ nodes = {} /\ sink = {} /\ recording = {}
  /\ sched = "off" /\ ctxDone = FALSE
  /\ pc = "idle" /\ runNum = 0 /\ run = MakeRunState
  /\ evList = {} /\ failing = FALSE /\ result = NoResult
  /\ hist = NoHistory

-----------------------------------------------------------------------------
(* Run.                                                                    *)

getUnscheduledPodsMap == {p \in Pods : bound[p] = Unbound}

(* Every error return after the scheduler is launched runs the deferred    *)
(* CloseQuietly first; before that there is nothing to close.              *)
fail == failing' = TRUE /\ pc' = "close"

(* RunState.Init.  A further run begins when the passes of the group go    *)
(* on: this simulation was reset after a pass some simulation won, or was  *)
(* not reset because no simulation of the group got a pod on its node.     *)
InitRun ==
  /\ pc = "idle" /\ ~failing /\ runNum < MaxRuns
  /\ \/ run.status = "Pending"
     \/ /\ run.status = "Success" /\ "nowinner" \in Outcomes
        /\ result.assigned = {}
  /\ runNum' = runNum + 1
  /\ IF getUnscheduledPodsMap = {}
     THEN fail /\ run' = [run EXCEPT !.status = "Running"]
     ELSE /\ run' = [run EXCEPT !.status = "Running",
                                !.unscheduled = getUnscheduledPodsMap,
                                !.leftover = getUnscheduledPodsMap]
          /\ pc' = "create" /\ failing' = failing
  /\ hist' = [reached |-> {p \in Pods : Scheduled(p) \in sink}, empties |-> 0,
              fresh |-> run.numUnchanged = 0]
  /\ UNCHANGED <<clusterVars, nodes, ctxDone, evList, result>>

(* The node is created and registered before its CSINode, which may fail.  *)
CreateSimulationNodes ==
  /\ pc = "create"
  /\ \/ /\ nodes' = nodes \union {runNum}
        /\ run' = [run EXCEPT !.scaleOutNodes = @ \union {runNum}]
        /\ \/ pc' = "launch" /\ failing' = failing
           \/ fail
     \/ fail /\ UNCHANGED <<nodes, run>>
  /\ UNCHANGED <<clusterVars, ctxDone, runNum, evList, result, hist>>

launchSchedulerForSimulation ==
  /\ pc = "launch"
  /\ \/ ~ctxDone /\ sched' = "running" /\ pc' = "loop" /\ failing' = failing
     \/ fail /\ sched' = sched
  /\ UNCHANGED <<bound, nodes, sink, recording, ctxDone, runNum, run, evList,
                 result, hist>>

(* Mutant of selectDone: the loop goes on though the context is done.      *)
selectNever ==
  /\ pc = "loop" /\ pc' = "work"
  /\ UNCHANGED <<clusterVars, nodes, ctxDone, runNum, run, evList, failing, result, hist>>

(* The head of the loop of workAndTrackUntilStabilized.                    *)
selectDone ==
  /\ pc = "loop"
  /\ IF ctxDone THEN fail ELSE pc' = "work" /\ failing' = failing
  /\ UNCHANGED <<clusterVars, nodes, ctxDone, runNum, run, evList, result, hist>>

(* ProvisionAndBindVolumesFoSelectedClaimsInWFFC or                        *)
(* FinalizeStaticBindingsForSelectedClaimsInWFFC found a claim to bind.    *)
volumesBound ==
  /\ run' = [run EXCEPT !.numUnchanged = 0]
  /\ hist' = [hist EXCEPT !.empties = 0]

(* Volumes bound count as a change of the state, and either call may fail. *)
doWork ==
  /\ pc = "work"
  /\ \/ UNCHANGED <<run, hist, failing>> /\ pc' = "list"
     \/ volumesBound /\ pc' = "list" /\ failing' = failing
     \/ UNCHANGED <<run, hist>> /\ fail
  /\ UNCHANGED <<clusterVars, nodes, ctxDone, runNum, evList, result>>

(* Mutant of TrackList: stabilized one attempt too early.                  *)
TrackListEarly ==
  /\ pc = "list"
  /\ evList' = sink
  /\ IF sink = {}
     THEN /\ run' = [run EXCEPT !.numUnchanged = @ + 1]
          /\ pc' = IF run'.numUnchanged >= MaxUnchanged THEN "collect" ELSE "check"
          /\ hist' = [hist EXCEPT !.empties = @ + 1]
     ELSE pc' = "reset" /\ run' = run /\ hist' = hist
  /\ UNCHANGED <<clusterVars, nodes, ctxDone, runNum, failing, result>>

(* Track, up to and including the listing of the sink.                     *)
TrackList ==
  /\ pc = "list"
  /\ evList' = sink
  /\ IF sink = {}
     THEN /\ run' = [run EXCEPT !.numUnchanged = @ + 1]
          /\ pc' = IF run'.numUnchanged > MaxUnchanged THEN "collect" ELSE "check"
          /\ hist' = [hist EXCEPT !.empties = @ + 1]
     ELSE pc' = "reset" /\ run' = run /\ hist' = hist
  /\ UNCHANGED <<clusterVars, nodes, ctxDone, runNum, failing, result>>

(* Mutant of TrackReset: the listed events stay in the sink.               *)
TrackResetForgotten ==
  /\ pc = "reset"
  /\ pc' = "track"
  /\ UNCHANGED <<bound, nodes, sink, recording, sched, ctxDone, runNum, run, evList,
                 failing, result, hist>>

(* EventSink.Reset takes the lock of the sink anew.                        *)
TrackReset ==
  /\ pc = "reset"
  /\ sink' = {} /\ pc' = "track"
  /\ UNCHANGED <<bound, nodes, recording, sched, ctxDone, runNum, run, evList,
                 failing, result, hist>>

addScheduledPod(p) ==
  /\ run' = [run EXCEPT !.scheduled = @ \union {<<bound[p], p>>},
                        !.leftover = @ \ {p},
                        !.numUnchanged = 0]
  /\ hist' = [hist EXCEPT !.empties = 0]

(* Mutant of TrackEvent: a pod that is not found counts as scheduled.      *)
TrackEventUnresolved ==
  /\ pc = "track"
  /\ \E e \in evList :
       /\ evList' = evList \ {e}
       /\ IF e.reason # "Scheduled" THEN UNCHANGED <<run, hist>>
          ELSE IF bound[e.pod] \in Nodes THEN addScheduledPod(e.pod)
          ELSE run' = [run EXCEPT !.leftover = @ \ {e.pod}] /\ hist' = hist
  /\ UNCHANGED <<clusterVars, nodes, ctxDone, runNum, result, failing, pc>>

(* One turn of the loop over the listed events.                            *)
TrackEvent ==
  /\ pc = "track"
  /\ \E e \in evList :
       /\ evList' = evList \ {e}
       /\ IF e.reason # "Scheduled"
          THEN UNCHANGED <<run, hist, failing, pc>>
          ELSE IF bound[e.pod] \in Nodes
          THEN addScheduledPod(e.pod) /\ UNCHANGED <<failing, pc>>
          ELSE fail /\ UNCHANGED <<run, hist>>
  /\ UNCHANGED <<clusterVars, nodes, ctxDone, runNum, result>>

TrackEnd ==
  /\ \/ pc = "track" /\ evList = {}
     \/ pc = "check"
  /\ pc' = IF run.leftover = {} THEN "collect" ELSE "loop"
  /\ UNCHANGED <<clusterVars, nodes, ctxDone, runNum, run, evList, failing, result, hist>>

getScaleOutNodeAssignments == {a \in run.scheduled : a[1] \in run.scaleOutNodes}
getOtherPodNodeAssignments == {a \in run.scheduled : a[1] \notin run.scaleOutNodes}

(* make([]NodePodAssignment, len(assignedNodes)) puts as many zero values  *)
(* before the assignments as ListNodes returns nodes: all nodes of the     *)
(* view if it is given no name.                                            *)
zeroAssignments ==
  LET named == {a[1] : a \in run.scheduled}
      held == nodes \union {Existing}
  IN  Cardinality(IF named = {} THEN held ELSE named)

Result ==
  /\ pc = "collect"
  /\ result' = [assigned |-> getScaleOutNodeAssignments,
                other |-> getOtherPodNodeAssignments,
                blank |-> zeroAssignments,
                leftover |-> run.leftover]
  /\ run' = [run EXCEPT !.status = "Success"]
  /\ pc' = "close"
  /\ UNCHANGED <<clusterVars, nodes, ctxDone, runNum, evList, failing, hist>>

(* Mutant of Close: an error return does not close the scheduler.          *)
CloseOnSuccess ==
  /\ pc = "close"
  /\ sched' = IF sched = "running" /\ ~failing THEN "stopping" ELSE sched
  /\ run' = IF failing THEN [run EXCEPT !.status = "Failure"] ELSE run
  /\ pc' = "idle" /\ evList' = {} /\ hist' = NoHistory
  /\ UNCHANGED <<bound, nodes, sink, recording, ctxDone, runNum, failing, result>>

(* The deferred calls of Run: the handle is closed, which only cancels the *)
(* context of the scheduler, then an error makes the status Failure.       *)
Close ==
  /\ pc = "close"
  /\ sched' = IF sched = "running" THEN "stopping" ELSE sched
  /\ run' = IF failing THEN [run EXCEPT !.status = "Failure"] ELSE run
  /\ pc' = "idle" /\ evList' = {} /\ hist' = NoHistory
  /\ UNCHANGED <<bound, nodes, sink, recording, ctxDone, runNum, failing, result>>

(* The end of a pass of the group: if some simulation won it, every        *)
(* simulation of the group is reset, and the sink of the winner's view.    *)
Reset ==
  /\ pc = "idle" /\ run.status = "Success"
  /\ \/ /\ "won" \in Outcomes /\ result.assigned # {}
        /\ sink' = {}
     \/ "lost" \in Outcomes /\ sink' = sink
  /\ run' = MakeRunState
  /\ UNCHANGED <<bound, nodes, recording, sched, ctxDone, pc, runNum, evList,
                 failing, result, hist>>

-----------------------------------------------------------------------------
(* The kube-scheduler (external).  A cancelled one may still finish the    *)
(* bindings it has in progress.                                            *)

Bind(p) ==
  /\ sched # "off" /\ bound[p] = Unbound
  /\ \E n \in nodes \union {Existing} : bound' = [bound EXCEPT ![p] = n]
  /\ recording' = recording \union {Scheduled(p)}
  /\ UNCHANGED <<runVars, sink, sched, ctxDone, hist>>

(* A pod that fits no node may be reported as often as it is tried.        *)
FailToSchedule ==
  /\ sched # "off"
  /\ \E p \in Pods : bound[p] = Unbound
  /\ recording' = recording \union {FailedScheduling}
  /\ UNCHANGED <<runVars, bound, sink, sched, ctxDone, hist>>

(* The victim is deleted to make room for a pod that has no node yet.      *)
Preempt(p) ==
  /\ Preemption
  /\ sched # "off" /\ bound[p] \in Nodes
  /\ \E q \in Pods : bound[q] = Unbound
  /\ bound' = [bound EXCEPT ![p] = Gone]
  /\ UNCHANGED <<runVars, sink, recording, sched, ctxDone, hist>>

(* The recorder writes each event from a goroutine of its own:             *)
(* EventSink.Create, or Patch where the sink still holds the event.        *)
RecordEvent ==
  \E e \in recording :
    /\ recording' = recording \ {e}
    /\ sink' = sink \union {e}
    /\ hist' = IF e.reason = "Scheduled" /\ pc # "idle"
               THEN [hist EXCEPT !.reached = @ \union {e.pod}] ELSE hist
    /\ UNCHANGED <<runVars, bound, sched, ctxDone>>

(* A recorder that is stopped may drop what it has not begun to write.     *)
DropEvent ==
  /\ sched # "running"
  /\ \E e \in recording : recording' = recording \ {e}
  /\ UNCHANGED <<runVars, bound, sink, sched, ctxDone, hist>>

SchedulerExits ==
  /\ sched = "stopping" /\ sched' = "off"
  /\ UNCHANGED <<runVars, bound, sink, recording, ctxDone, hist>>

(* The context of the request also ends the context of the scheduler.      *)
CancelContext ==
  /\ ~ctxDone /\ ctxDone' = TRUE
  /\ sched' = IF sched = "running" THEN "stopping" ELSE sched
  /\ UNCHANGED <<runVars, bound, sink, recording, hist>>

-----------------------------------------------------------------------------
RunSteps ==
  InitRun \/ CreateSimulationNodes \/ launchSchedulerForSimulation \/ selectDone
  \/ doWork \/ TrackList \/ TrackReset \/ TrackEvent \/ TrackEnd \/ Result \/ Close

SchedulerSteps ==
  \/ \E p \in Pods : Bind(p) \/ Preempt(p)
  \/ FailToSchedule \/ RecordEvent \/ DropEvent \/ SchedulerExits

Next == RunSteps \/ Reset \/ SchedulerSteps \/ CancelContext

Spec == Init /\ [][Next]_vars

(* The goroutine of the run is scheduled and its calls return.  Nothing is *)
(* assumed of the scheduler: it need not bind or report anything.          *)
FairSpec == Spec /\ WF_vars(RunSteps)

-----------------------------------------------------------------------------
(* Properties.                                                             *)

RunStates ==
  [status : {"Pending", "Running", "Success", "Failure"},
   unscheduled : SUBSET Pods, leftover : SUBSET Pods,
   scheduled : SUBSET (Nodes \X Pods), scaleOutNodes : SUBSET (1..MaxRuns), numUnchanged : Nat]
Results == [assigned : SUBSET (Nodes \X Pods), other : SUBSET (Nodes \X Pods),
            blank : Nat, leftover : SUBSET Pods]
Histories == [reached : SUBSET Pods, empties : Nat, fresh : BOOLEAN]

TypeOK ==
  /\ bound \in [Pods -> Nodes \union {Unbound, Gone}]
  /\ nodes \subseteq 1..MaxRuns
  /\ sink \subseteq Event /\ recording \subseteq Event /\ evList \subseteq Event
  /\ sched \in {"off", "running", "stopping"}
  /\ ctxDone \in BOOLEAN /\ failing \in BOOLEAN
  /\ pc \in {"idle", "create", "launch", "loop", "work", "list", "reset",
             "track", "check", "collect", "close"}
  /\ runNum \in 0..MaxRuns
  /\ run \in RunStates
  /\ result \in Results
  /\ hist \in Histories

(* A run claims no placement the view does not show: a pod that the result *)
(* does not list as left over is recorded on some node, and the view       *)
(* either binds it to that very node or has lost it to preemption since.   *)
(* handleScheduledPodEvent takes the node from the view at the time it     *)
(* handles an event that was reported earlier.                             *)
PlacementsAreReal ==
  /\ \A a \in run.scheduled : bound[a[2]] \in {a[1], Gone}
  /\ run.status = "Success" =>
       \A p \in run.unscheduled \ result.leftover :
          \E n \in Nodes : <<n, p>> \in result.assigned \union result.other

(* workAndTrackUntilStabilized gives up on pods only after more than       *)
(* MaxUnchangedTrackAttempts empty polls of this run since it last         *)
(* recorded a pod or provisioned a volume.  The exception: Init keeps the  *)
(* attempts of the run before, which is not reset after a pass without     *)
(* winner.                                                                 *)
GivesUpLate ==
  (pc = "close" /\ ~failing /\ run.leftover # {} /\ hist.fresh) =>
    hist.empties > MaxUnchanged

(* No return from Run, by result or by error, leaves a scheduler running   *)
(* against the view.                                                       *)
SchedulerClosed == pc = "idle" => sched # "running"

(* A run that has begun comes to an end once the scheduler stops reporting *)
(* that it cannot place a pod and there are no more volumes to bind, or    *)
(* once the context is done; what the scheduler binds cannot keep it going *)
(* (workAndTrackUntilStabilized).  Without these exceptions it need not    *)
(* end: Track counts only polls that find the sink empty, and nothing else *)
(* bounds the loop.                                                        *)
KeepsGoing == FailToSchedule \/ (pc = "work" /\ volumesBound)
RunEnds == <>[][ctxDone \/ ~KeepsGoing]_vars => (pc # "idle" ~> pc = "idle")

(* To the simulator a simulation is RunContract: it records bindings that  *)
(* are there, each at most once over all runs, in the version of its view, *)
(* reports the rest of the pods it found as left over, and ends for good   *)
(* with an error.  The bindings that may still be recorded are those whose *)
(* event is on its way: with the recorder, in the sink, or listed.         *)
onItsWay == {p \in Pods : Scheduled(p) \in recording \union sink \union evList}
Contract == INSTANCE RunContract WITH
  untold <- onItsWay, runs <- runNum, status <- run.status, found <- run.unscheduled,
  own <- run.scaleOutNodes, recorded <- run.scheduled,
  answer <- [assigned |-> result.assigned, other |-> result.other, leftover |-> result.leftover]
ImplementsContract == Contract!Spec

(* Track records the bindings the scheduler made (runstate.go:103): a      *)
(* Scheduled event that reached the sink stays there, or is being handled, *)
(* or has been recorded.                                                   *)
EventsAccountedFor ==
  (run.status = "Running" /\ ~failing) =>
    \A p \in hist.reached :
       \/ Scheduled(p) \in sink \union evList
       \/ \E n \in Nodes : <<n, p>> \in run.scheduled

(* LeftoverUnscheduledPods are the pods "that remain unscheduled after the *)
(* simulation Run is completed" (api/planner/scaleout_types.go:168).       *)
LeftoverAreUnscheduled ==
  (pc = "idle" /\ run.status = "Success") =>
     \A p \in result.leftover : bound[p] = Unbound

(* The assignments of a result are those "of unscheduled Pods"             *)
(* (api/planner/scaleout_types.go:165), the ones Init found.               *)
AssignedWereUnscheduled ==
  (pc = "close" /\ ~failing) => \A a \in result.other : a[2] \in run.unscheduled

(* Each of the OtherNodePodAssignments represents "the assignment of       *)
(* unscheduled Pods to either an existing Node [...] or [...] a simulated  *)
(* scale-out Node from a previous run" (api/planner/scaleout_types.go:165).*)
NoZeroAssignments == result.blank = 0
=============================================================================
