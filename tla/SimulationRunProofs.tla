------------------------ MODULE SimulationRunProofs ------------------------
(***************************************************************************)
(* Proofs about SimulationRun: for any pods, any number of runs and any    *)
(* patience, a run claims only placements that its view shows, gives up    *)
(* late, and leaves no scheduler behind; and to the simulator it is the    *)
(* simulation of RunContract.                                              *)
(***************************************************************************)
EXTENDS SimulationRun, FiniteSetTheorems, TLAPS

(* A pod that Init found and that is not left over has been recorded.      *)
RecordedInv ==
  \A p \in run.unscheduled \ run.leftover : \E n \in Nodes : <<n, p>> \in run.scheduled

(* The attempts that a run counts are the empty polls it made, unless it   *)
(* began with those of the run before; and it stops polling only when all  *)
(* pods are recorded or after enough of them.                              *)
PatienceInv ==
  /\ pc # "idle" /\ hist.fresh => run.numUnchanged = hist.empties
  /\ pc = "collect" \/ (pc = "close" /\ ~failing)
       => run.leftover = {} \/ run.numUnchanged > MaxUnchanged

(* A run that has begun has a number.                                      *)
NumberInv == pc # "idle" => runNum # 0

(* The inductive invariant.                                                *)
RunInv ==
  TypeOK /\ NumberInv /\ PlacementsAreReal /\ RecordedInv /\ PatienceInv /\ SchedulerClosed

(* A Scheduled event tells of one pod.                                     *)
LEMMA ScheduledEvents ==
  /\ \A e \in Event : e.reason = "Scheduled" => e.pod \in Pods /\ e = Scheduled(e.pod)
  /\ \A p \in Pods : Scheduled(p) \in Event
  /\ FailedScheduling \in Event
BY DEF Event, Scheduled, FailedScheduling

LEMMA InitRunInv == Init => RunInv
<1> SUFFICES ASSUME Init PROVE RunInv
  OBVIOUS
<1> USE RunAssumption DEF Init, MakeRunState, NoResult, NoHistory
<1>1. TypeOK
  <2>1. bound \in [Pods -> Nodes \union {Unbound, Gone}]
    OBVIOUS
  <2>2. run \in RunStates /\ result \in Results /\ hist \in Histories
    BY DEF RunStates, Results, Histories
  <2>4. ctxDone \in BOOLEAN /\ failing \in BOOLEAN
    OBVIOUS
  <2>5. /\ runNum \in 0..MaxRuns
        /\ sched \in {"off", "running", "stopping"}
        /\ pc \in {"idle", "create", "launch", "loop", "work", "list", "reset",
                  "track", "check", "collect", "close"}
    OBVIOUS
  <2>6. QED BY <2>1, <2>2, <2>4, <2>5 DEF TypeOK
<1>2. PlacementsAreReal /\ RecordedInv
  BY DEF PlacementsAreReal, RecordedInv
<1>3. NumberInv /\ PatienceInv /\ SchedulerClosed
  BY DEF NumberInv, PatienceInv, SchedulerClosed
<1>4. QED BY <1>1, <1>2, <1>3 DEF RunInv

(* What a run reads of its view has the expected types.                    *)
LEMMA ZeroAssignmentsNat == TypeOK => zeroAssignments \in Nat
<1> SUFFICES ASSUME TypeOK PROVE zeroAssignments \in Nat
  OBVIOUS
<1>1. IsFiniteSet(0..MaxRuns)
  BY RunAssumption, FS_Interval
<1>2. {a[1] : a \in run.scheduled} \subseteq 0..MaxRuns
  BY DEF TypeOK, RunStates, Nodes
<1>3. nodes \union {Existing} \subseteq 0..MaxRuns
  BY RunAssumption DEF TypeOK, Existing
<1>4. QED BY <1>1, <1>2, <1>3, FS_Subset, FS_CardinalityType DEF zeroAssignments

(* What recording a pod makes of a RunState.                               *)
LEMMA RecordType ==
  ASSUME NEW r \in RunStates, NEW a \in Nodes \X Pods, NEW p \in Pods
  PROVE  [r EXCEPT !.scheduled = @ \union {a}, !.leftover = @ \ {p}, !.numUnchanged = 0]
           \in RunStates
<1>1. r.scheduled \union {a} \in SUBSET (Nodes \X Pods) /\ r.leftover \ {p} \in SUBSET Pods
  BY DEF RunStates
<1>2. [r EXCEPT !.leftover = @ \ {p}, !.numUnchanged = 0] \in RunStates
  BY <1>1 DEF RunStates
<1>3. QED BY <1>1, <1>2 DEF RunStates

(* The two ways in which RunState.Init ends.                               *)
LEMMA InitRunStep ==
  ASSUME InitRun
  PROVE  /\ \/ run' = [run EXCEPT !.status = "Running"] /\ pc' = "close"
            \/ /\ run' = [run EXCEPT !.status = "Running", !.unscheduled = getUnscheduledPodsMap,
                                     !.leftover = getUnscheduledPodsMap]
               /\ pc' = "create"
         /\ runNum < MaxRuns /\ runNum' = runNum + 1
         /\ UNCHANGED <<clusterVars, nodes, ctxDone, evList, result>>
  BY DEF InitRun, fail

(* Type correctness of the steps of a run.                                 *)
LEMMA RunKeepsTypes == TypeOK /\ NumberInv /\ RunSteps => TypeOK' /\ NumberInv'
<1> SUFFICES ASSUME TypeOK, NumberInv, RunSteps PROVE TypeOK' /\ NumberInv'
  OBVIOUS
<1> USE RunAssumption DEF clusterVars, fail, TypeOK, NumberInv
<1>1. CASE InitRun
  <2>1. getUnscheduledPodsMap \in SUBSET Pods
    BY DEF getUnscheduledPodsMap
  <2>2. run' \in RunStates
    BY <1>1, <2>1, InitRunStep DEF RunStates
  <2>3. hist' \in Histories
    <3>1. (run.numUnchanged = 0) \in BOOLEAN /\ {p \in Pods : Scheduled(p) \in sink} \subseteq Pods
      OBVIOUS
    <3>2. QED BY <1>1, <3>1 DEF InitRun, Histories
  <2>4. runNum' \in 1..MaxRuns /\ pc' \in {"create", "close"}
    BY <1>1, InitRunStep
  <2>5. failing' \in BOOLEAN
    BY <1>1 DEF InitRun
  <2>6. QED BY <1>1, <2>2, <2>3, <2>4, <2>5, InitRunStep
<1>2. CASE CreateSimulationNodes
  <2>1. runNum \in 1..MaxRuns
    BY <1>2 DEF CreateSimulationNodes
  <2>2. run' \in RunStates
    BY <1>2, <2>1 DEF CreateSimulationNodes, RunStates
  <2>3. nodes' \subseteq 1..MaxRuns
    BY <1>2, <2>1 DEF CreateSimulationNodes
  <2>4. QED BY <1>2, <2>2, <2>3 DEF CreateSimulationNodes
<1>3. CASE launchSchedulerForSimulation
  BY <1>3 DEF launchSchedulerForSimulation
<1>4. CASE selectDone
  BY <1>4 DEF selectDone
<1>5. CASE doWork
  <2>1. run' \in RunStates
    BY <1>5 DEF doWork, volumesBound, RunStates
  <2>2. hist' \in Histories
    BY <1>5 DEF doWork, volumesBound, Histories
  <2>3. QED BY <1>5, <2>1, <2>2 DEF doWork, volumesBound
<1>6. CASE TrackList
  <2>1. run' \in RunStates
    BY <1>6 DEF TrackList, RunStates
  <2>2. hist' \in Histories
    BY <1>6 DEF TrackList, Histories
  <2>3. pc' \in {"collect", "check", "reset"}
    BY <1>6 DEF TrackList
  <2>4. QED BY <1>6, <2>1, <2>2, <2>3 DEF TrackList
<1>7. CASE TrackReset
  BY <1>7 DEF TrackReset
<1>8. CASE TrackEvent
  <2>1. PICK e \in evList :
          /\ evList' = evList \ {e}
          /\ \/ UNCHANGED <<run, hist, failing, pc>>
             \/ /\ e.reason = "Scheduled" /\ bound[e.pod] \in Nodes
                /\ addScheduledPod(e.pod) /\ UNCHANGED <<failing, pc>>
             \/ fail /\ UNCHANGED <<run, hist>>
    BY <1>8 DEF TrackEvent
  <2>2. e.reason = "Scheduled" => e.pod \in Pods
    BY ScheduledEvents
  <2>3. run' \in RunStates /\ hist' \in Histories
    <3>1. CASE UNCHANGED <<run, hist>>
      BY <3>1
    <3>2. CASE e.reason = "Scheduled" /\ bound[e.pod] \in Nodes /\ addScheduledPod(e.pod)
      <4>1. run' \in RunStates
        <5>1. <<bound[e.pod], e.pod>> \in Nodes \X Pods
          BY <2>2, <3>2
        <5>2. QED BY <2>2, <3>2, <5>1, RecordType DEF addScheduledPod
      <4>2. hist' \in Histories
        BY <3>2 DEF addScheduledPod, Histories
      <4>3. QED BY <4>1, <4>2
    <3>3. QED BY <2>1, <3>1, <3>2
  <2>4. QED BY <1>8, <2>1, <2>3 DEF TrackEvent
<1>9. CASE TrackEnd
  BY <1>9 DEF TrackEnd
<1>10. CASE Result
  <2>1. run' \in RunStates
    BY <1>10 DEF Result, RunStates
  <2>2. result' \in Results
    BY <1>10, ZeroAssignmentsNat
       DEF Result, RunStates, Results, getScaleOutNodeAssignments, getOtherPodNodeAssignments
  <2>3. QED BY <1>10, <2>1, <2>2 DEF Result
<1>11. CASE Close
  <2>1. run' \in RunStates
    BY <1>11 DEF Close, RunStates
  <2>2. hist' \in Histories
    BY <1>11 DEF Close, NoHistory, Histories
  <2>3. QED BY <1>11, <2>1, <2>2 DEF Close
<1>12. QED
  BY <1>1, <1>2, <1>3, <1>4, <1>5, <1>6, <1>7, <1>8, <1>9, <1>10, <1>11 DEF RunSteps

(* ... and of the scheduler, its recorder and the context.                 *)
LEMMA OthersKeepTypes ==
  TypeOK /\ NumberInv /\ (Reset \/ SchedulerSteps \/ CancelContext \/ UNCHANGED vars)
    => TypeOK' /\ NumberInv'
<1> SUFFICES ASSUME TypeOK, NumberInv,
                    Reset \/ SchedulerSteps \/ CancelContext \/ UNCHANGED vars
             PROVE  TypeOK' /\ NumberInv'
  OBVIOUS
<1> USE RunAssumption DEF runVars, TypeOK, NumberInv
<1>1. CASE Reset
  <2>1. run' \in RunStates
    BY <1>1 DEF Reset, MakeRunState, RunStates
  <2>2. sink' \subseteq Event
    BY <1>1 DEF Reset
  <2>3. QED BY <1>1, <2>1, <2>2 DEF Reset
<1>2. ASSUME NEW p \in Pods, Bind(p) PROVE TypeOK' /\ NumberInv'
  BY <1>2, ScheduledEvents DEF Bind, Nodes, Existing
<1>3. CASE FailToSchedule
  BY <1>3, ScheduledEvents DEF FailToSchedule
<1>4. ASSUME NEW p \in Pods, Preempt(p) PROVE TypeOK' /\ NumberInv'
  BY <1>4 DEF Preempt
<1>5. CASE RecordEvent
  <2>1. hist' \in Histories
    BY <1>5, ScheduledEvents DEF RecordEvent, Histories
  <2>2. sink' \subseteq Event /\ recording' \subseteq Event
    BY <1>5 DEF RecordEvent
  <2>3. QED BY <1>5, <2>1, <2>2 DEF RecordEvent
<1>6. CASE DropEvent
  BY <1>6 DEF DropEvent
<1>7. CASE SchedulerExits
  BY <1>7 DEF SchedulerExits
<1>8. CASE CancelContext
  BY <1>8 DEF CancelContext
<1>9. CASE UNCHANGED vars
  BY <1>9 DEF vars
<1>10. QED
  BY <1>1, <1>2, <1>3, <1>4, <1>5, <1>6, <1>7, <1>8, <1>9 DEF SchedulerSteps
-----------------------------------------------------------------------------
(* Placements.  The only step that records a pod takes its node from the   *)
(* view; a recorded pod has a node, so that the scheduler does not bind it *)
(* again, and can only lose it to preemption.                              *)
LEMMA RunKeepsPlacements ==
  TypeOK /\ PlacementsAreReal /\ RecordedInv /\ RunSteps => PlacementsAreReal' /\ RecordedInv'
<1> SUFFICES ASSUME TypeOK, PlacementsAreReal, RecordedInv, RunSteps
             PROVE  PlacementsAreReal' /\ RecordedInv'
  OBVIOUS
<1> USE RunAssumption DEF clusterVars, fail, TypeOK, RunStates, PlacementsAreReal, RecordedInv
<1>1. CASE InitRun
  <2>1. /\ run'.scheduled = run.scheduled /\ run'.status = "Running"
        /\ \/ run'.unscheduled = run.unscheduled /\ run'.leftover = run.leftover
           \/ run'.unscheduled = run'.leftover
    BY <1>1, InitRunStep DEF RunStates
  <2>2. QED BY <1>1, <2>1, InitRunStep
<1>2. CASE CreateSimulationNodes
  BY <1>2 DEF CreateSimulationNodes
<1>3. CASE launchSchedulerForSimulation
  BY <1>3 DEF launchSchedulerForSimulation
<1>4. CASE selectDone
  BY <1>4 DEF selectDone
<1>5. CASE doWork
  BY <1>5 DEF doWork, volumesBound
<1>6. CASE TrackList
  <2>1. /\ run'.scheduled = run.scheduled /\ run'.status = run.status
        /\ run'.unscheduled = run.unscheduled /\ run'.leftover = run.leftover
    BY <1>6 DEF TrackList
  <2>2. QED BY <1>6, <2>1 DEF TrackList
<1>7. CASE TrackReset
  BY <1>7 DEF TrackReset
<1>8. CASE TrackEvent
  <2>1. CASE UNCHANGED run
    BY <1>8, <2>1 DEF TrackEvent
  <2>2. CASE run' # run
    <3>1. PICK e \in evList :
             e.reason = "Scheduled" /\ bound[e.pod] \in Nodes /\ addScheduledPod(e.pod)
      BY <1>8, <2>2 DEF TrackEvent
    <3>2. /\ run'.scheduled = run.scheduled \union {<<bound[e.pod], e.pod>>}
          /\ run'.leftover = run.leftover \ {e.pod}
          /\ run'.status = run.status /\ run'.unscheduled = run.unscheduled
      BY <3>1 DEF addScheduledPod
    <3>3. UNCHANGED <<bound, result>>
      BY <1>8 DEF TrackEvent
    <3>4. e.pod \in Pods
      BY <3>1, ScheduledEvents
    <3>5. PlacementsAreReal'
      BY <3>1, <3>2, <3>3, <3>4
    <3>6. RecordedInv'
      BY <3>1, <3>2, <3>3, <3>4
    <3>7. QED BY <3>5, <3>6
  <2>3. QED BY <2>1, <2>2
<1>9. CASE TrackEnd
  BY <1>9 DEF TrackEnd
<1>10. CASE Result
  BY <1>10 DEF Result, getScaleOutNodeAssignments, getOtherPodNodeAssignments
<1>11. CASE Close
  BY <1>11 DEF Close
<1>12. QED
  BY <1>1, <1>2, <1>3, <1>4, <1>5, <1>6, <1>7, <1>8, <1>9, <1>10, <1>11 DEF RunSteps

LEMMA OthersKeepPlacements ==
  TypeOK /\ PlacementsAreReal /\ RecordedInv
    /\ (Reset \/ SchedulerSteps \/ CancelContext \/ UNCHANGED vars)
    => PlacementsAreReal' /\ RecordedInv'
<1> SUFFICES ASSUME TypeOK, PlacementsAreReal, RecordedInv,
                    Reset \/ SchedulerSteps \/ CancelContext \/ UNCHANGED vars
             PROVE  PlacementsAreReal' /\ RecordedInv'
  OBVIOUS
<1> USE RunAssumption DEF runVars, PlacementsAreReal, RecordedInv
<1>1. CASE Reset
  BY <1>1 DEF Reset, MakeRunState
<1>2. ASSUME NEW p \in Pods, Bind(p) PROVE PlacementsAreReal' /\ RecordedInv'
  <2>1. \A a \in run.scheduled : a[2] # p
    BY <1>2 DEF Bind, TypeOK, RunStates, Nodes, Unbound, Gone
  <2>2. QED BY <1>2, <2>1 DEF Bind, TypeOK
<1>3. CASE FailToSchedule
  BY <1>3 DEF FailToSchedule
<1>4. ASSUME NEW p \in Pods, Preempt(p) PROVE PlacementsAreReal' /\ RecordedInv'
  BY <1>4 DEF Preempt, TypeOK
<1>5. CASE RecordEvent \/ DropEvent \/ SchedulerExits \/ CancelContext \/ UNCHANGED vars
  BY <1>5 DEF RecordEvent, DropEvent, SchedulerExits, CancelContext, vars
<1>6. QED BY <1>1, <1>2, <1>3, <1>4, <1>5 DEF SchedulerSteps
-----------------------------------------------------------------------------
(* Patience, and the deferred close.                                       *)
LEMMA RunKeepsPatience ==
  TypeOK /\ PatienceInv /\ SchedulerClosed /\ RunSteps => PatienceInv' /\ SchedulerClosed'
<1> SUFFICES ASSUME TypeOK, PatienceInv, SchedulerClosed, RunSteps
             PROVE  PatienceInv' /\ SchedulerClosed'
  OBVIOUS
<1> USE RunAssumption DEF clusterVars, fail, TypeOK, RunStates, Histories, PatienceInv, SchedulerClosed
<1>1. CASE InitRun
  <2>1. run'.numUnchanged = run.numUnchanged
    BY <1>1, InitRunStep DEF RunStates
  <2>2. hist'.empties = 0 /\ hist'.fresh = (run.numUnchanged = 0)
    BY <1>1 DEF InitRun
  <2>3. pc' = "create" \/ (pc' = "close" /\ failing')
    BY <1>1 DEF InitRun
  <2>4. QED BY <1>1, <2>1, <2>2, <2>3, InitRunStep
<1>2. CASE CreateSimulationNodes
  BY <1>2 DEF CreateSimulationNodes
<1>3. CASE launchSchedulerForSimulation
  BY <1>3 DEF launchSchedulerForSimulation
<1>4. CASE selectDone
  BY <1>4 DEF selectDone
<1>5. CASE doWork
  BY <1>5 DEF doWork, volumesBound
<1>6. CASE TrackList
  BY <1>6 DEF TrackList
<1>7. CASE TrackReset
  BY <1>7 DEF TrackReset
<1>8. CASE TrackEvent
  <2>1. CASE UNCHANGED <<run, hist>>
    BY <1>8, <2>1 DEF TrackEvent
  <2>2. CASE ~UNCHANGED <<run, hist>>
    <3>1. PICK e \in evList : addScheduledPod(e.pod) /\ UNCHANGED <<failing, pc>>
      BY <1>8, <2>2 DEF TrackEvent
    <3>2. run'.numUnchanged = 0 /\ hist'.empties = 0
      BY <3>1 DEF addScheduledPod
    <3>3. QED BY <1>8, <3>1, <3>2 DEF TrackEvent
  <2>3. QED BY <2>1, <2>2
<1>9. CASE TrackEnd
  BY <1>9 DEF TrackEnd
<1>10. CASE Result
  BY <1>10 DEF Result
<1>11. CASE Close
  BY <1>11 DEF Close
<1>12. QED
  BY <1>1, <1>2, <1>3, <1>4, <1>5, <1>6, <1>7, <1>8, <1>9, <1>10, <1>11 DEF RunSteps

LEMMA OthersKeepPatience ==
  TypeOK /\ PatienceInv /\ SchedulerClosed
    /\ (Reset \/ SchedulerSteps \/ CancelContext \/ UNCHANGED vars)
    => PatienceInv' /\ SchedulerClosed'
<1> SUFFICES ASSUME TypeOK, PatienceInv, SchedulerClosed,
                    Reset \/ SchedulerSteps \/ CancelContext \/ UNCHANGED vars
             PROVE  PatienceInv' /\ SchedulerClosed'
  OBVIOUS
<1> USE DEF runVars, TypeOK, RunStates, Histories, PatienceInv, SchedulerClosed
<1>1. CASE Reset
  BY <1>1 DEF Reset
<1>2. CASE FailToSchedule \/ \E p \in Pods : Bind(p) \/ Preempt(p)
  BY <1>2 DEF Bind, FailToSchedule, Preempt
<1>3. CASE RecordEvent
  BY <1>3 DEF RecordEvent
<1>4. CASE DropEvent \/ SchedulerExits \/ CancelContext \/ UNCHANGED vars
  BY <1>4 DEF DropEvent, SchedulerExits, CancelContext, vars
<1>5. QED BY <1>1, <1>2, <1>3, <1>4 DEF SchedulerSteps
-----------------------------------------------------------------------------
THEOREM RunInvariant == Spec => []RunInv
<1>1. RunInv /\ [Next]_vars => RunInv'
  BY RunKeepsTypes, OthersKeepTypes, RunKeepsPlacements, OthersKeepPlacements,
     RunKeepsPatience, OthersKeepPatience DEF RunInv, Next
<1>2. QED BY InitRunInv, <1>1, PTL DEF Spec

(* A run claims no placement that its view does not show, and leaves no    *)
(* pod out that it does not report as left over, whatever the scheduler    *)
(* binds, preempts and reports, and in however many runs.                  *)
THEOREM RunClaimsRealPlacements == Spec => []PlacementsAreReal
<1>1. RunInv => PlacementsAreReal
  BY DEF RunInv
<1>2. QED BY RunInvariant, <1>1, PTL

(* A run gives up on a pod only after more than MaxUnchanged empty polls.  *)
THEOREM RunIsPatient == Spec => []GivesUpLate
<1>1. RunInv => GivesUpLate
  BY DEF RunInv, PatienceInv, GivesUpLate
<1>2. QED BY RunInvariant, <1>1, PTL

(* Run returns, by result or by error, with its scheduler stopped.         *)
THEOREM RunClosesScheduler == Spec => []SchedulerClosed
<1>1. RunInv => SchedulerClosed
  BY DEF RunInv
<1>2. QED BY RunInvariant, <1>1, PTL
-----------------------------------------------------------------------------
(* The simulation implements RunContract.                                  *)

(* The pods of placements.                                                 *)
podsOf(placements) == {a[2] : a \in placements}

(* A run that needs its node has one; the status follows the steps of Run; *)
(* and what is left over is what was found and has not been recorded.      *)
ProgressInv ==
  /\ run.scaleOutNodes \subseteq nodes /\ nodes \subseteq 1..runNum
  /\ \A p \in Pods : bound[p] \in Nodes => bound[p] \in nodes \union {Existing}
  /\ sched # "off" => nodes # {}
  /\ pc = "create" => runNum \notin nodes
  /\ pc \notin {"idle", "create"} /\ ~failing => runNum \in run.scaleOutNodes
  /\ failing => pc \in {"close", "idle"}
  /\ pc \notin {"idle", "close"} \/ (pc = "close" /\ failing) => run.status = "Running"
  /\ run.leftover = run.unscheduled \ podsOf(run.scheduled)

(* The event of a binding is in one place: with the recorder, in the sink  *)
(* or listed; only while the sink is about to be reset it is in two.       *)
EventInv ==
  \A p \in Pods :
    /\ p \in onItsWay => bound[p] # Unbound
    /\ Scheduled(p) \in recording => Scheduled(p) \notin sink \union evList
    /\ Scheduled(p) \in sink /\ Scheduled(p) \in evList => pc = "reset"

(* The pods that InitRun finds have not been recorded.                     *)
LEMMA FoundAreUnrecorded ==
  ASSUME TypeOK, PlacementsAreReal
  PROVE  getUnscheduledPodsMap = getUnscheduledPodsMap \ podsOf(run.scheduled)
<1>1. \A a \in run.scheduled : bound[a[2]] # Unbound
  BY RunAssumption DEF PlacementsAreReal, TypeOK, RunStates, Nodes, Unbound, Gone
<1>2. QED
  BY <1>1 DEF getUnscheduledPodsMap, podsOf

(* The pods of one placement more.                                         *)
LEMMA OneMorePod ==
  ASSUME NEW S, NEW n, NEW p
  PROVE  podsOf(S \union {<<n, p>>}) = podsOf(S) \union {p}
<1> DEFINE T == S \union {<<n, p>>}
<1>1. <<n, p>> \in T /\ <<n, p>>[2] = p /\ S \subseteq T
  OBVIOUS
<1>2. \A a \in T : a \in S \/ a = <<n, p>>
  OBVIOUS
<1> HIDE DEF T
<1>3. podsOf(T) = podsOf(S) \union {p}
  BY <1>1, <1>2 DEF podsOf
<1>4. QED BY <1>3 DEF T

LEMMA RecordedPods ==
  ASSUME NEW e, run'.scheduled = run.scheduled \union {<<bound[e.pod], e.pod>>}
  PROVE  podsOf(run'.scheduled) = podsOf(run.scheduled) \union {e.pod}
<1>1. podsOf(run.scheduled \union {<<bound[e.pod], e.pod>>}) = podsOf(run.scheduled) \union {e.pod}
  BY OneMorePod
<1>2. QED BY <1>1

LEMMA RunKeepsProgress ==
  ASSUME TypeOK, NumberInv, PlacementsAreReal, ProgressInv, RunSteps
  PROVE  ProgressInv'
<1> USE RunAssumption DEF clusterVars, fail, TypeOK, RunStates, NumberInv, ProgressInv
<1>1. CASE InitRun
  <2>1. pc = "idle" /\ ~failing /\ runNum \in Nat /\ runNum' = runNum + 1
        /\ UNCHANGED <<bound, nodes, sched>>
    BY <1>1, InitRunStep DEF InitRun
  <2>2. nodes' \subseteq 1..runNum' /\ runNum' \notin nodes'
    BY <2>1
  <2>3. run'.leftover = run'.unscheduled \ podsOf(run'.scheduled)
    <3>1. run'.scheduled = run.scheduled
          /\ \/ run'.unscheduled = run.unscheduled /\ run'.leftover = run.leftover
             \/ run'.unscheduled = getUnscheduledPodsMap /\ run'.leftover = getUnscheduledPodsMap
      BY <1>1, InitRunStep
    <3>2. QED BY <3>1, FoundAreUnrecorded
  <2>4. run'.status = "Running"
        /\ run'.scaleOutNodes = run.scaleOutNodes
    BY <1>1, InitRunStep
  <2>5. \/ pc' = "create" /\ failing' = failing
        \/ pc' = "close" /\ failing' = TRUE
    BY <1>1 DEF InitRun
  <2>6. QED BY <2>1, <2>2, <2>3, <2>4, <2>5
<1>2. CASE CreateSimulationNodes
  <2>1. runNum \in 1..MaxRuns /\ ~failing /\ pc = "create"
        /\ UNCHANGED <<bound, sched, runNum>>
    BY <1>2 DEF CreateSimulationNodes
  <2>2. /\ nodes' \in {nodes, nodes \union {runNum}} /\ nodes' \subseteq 1..runNum
        /\ run'.status = run.status /\ run'.scheduled = run.scheduled
        /\ run'.unscheduled = run.unscheduled /\ run'.leftover = run.leftover
        /\ run'.scaleOutNodes \subseteq nodes'
    BY <1>2, <2>1 DEF CreateSimulationNodes
  <2>3. \/ pc' = "close" /\ failing' = TRUE
        \/ pc' = "launch" /\ failing' = FALSE /\ runNum \in run'.scaleOutNodes
    BY <1>2, <2>1 DEF CreateSimulationNodes
  <2>4. QED BY <2>1, <2>2, <2>3
<1>3. CASE launchSchedulerForSimulation
  <2>1. runNum \in run.scaleOutNodes /\ ~failing
    BY <1>3 DEF launchSchedulerForSimulation
  <2>2. QED BY <1>3, <2>1 DEF launchSchedulerForSimulation
<1>4. CASE selectDone
  BY <1>4 DEF selectDone
<1>5. CASE doWork
  <2>1. /\ run'.status = run.status /\ run'.scheduled = run.scheduled
        /\ run'.unscheduled = run.unscheduled /\ run'.leftover = run.leftover
        /\ run'.scaleOutNodes = run.scaleOutNodes
    BY <1>5 DEF doWork, volumesBound
  <2>2. QED BY <1>5, <2>1 DEF doWork, volumesBound
<1>6. CASE TrackList
  <2>1. /\ run'.status = run.status /\ run'.scheduled = run.scheduled
        /\ run'.unscheduled = run.unscheduled /\ run'.leftover = run.leftover
        /\ run'.scaleOutNodes = run.scaleOutNodes
    BY <1>6 DEF TrackList
  <2>2. QED BY <1>6, <2>1 DEF TrackList
<1>7. CASE TrackReset
  BY <1>7 DEF TrackReset
<1>8. CASE TrackEvent
  <2>1. CASE UNCHANGED run
    BY <1>8, <2>1 DEF TrackEvent
  <2>2. CASE run' # run
    <3>1. PICK e \in evList : addScheduledPod(e.pod) /\ UNCHANGED <<failing, pc>>
      BY <1>8, <2>2 DEF TrackEvent
    <3>2. /\ run'.scheduled = run.scheduled \union {<<bound[e.pod], e.pod>>}
          /\ run'.leftover = run.leftover \ {e.pod} /\ run'.scaleOutNodes = run.scaleOutNodes
          /\ run'.status = run.status /\ run'.unscheduled = run.unscheduled
      BY <3>1 DEF addScheduledPod
    <3>3. podsOf(run'.scheduled) = podsOf(run.scheduled) \union {e.pod}
      BY <3>2, RecordedPods
    <3>4. QED BY <1>8, <3>1, <3>2, <3>3 DEF TrackEvent
  <2>3. QED BY <2>1, <2>2
<1>9. CASE TrackEnd
  BY <1>9 DEF TrackEnd
<1>10. CASE Result
  <2>1. /\ run'.scheduled = run.scheduled /\ run'.scaleOutNodes = run.scaleOutNodes
        /\ run'.unscheduled = run.unscheduled /\ run'.leftover = run.leftover
    BY <1>10 DEF Result
  <2>2. QED BY <1>10, <2>1 DEF Result
<1>11. CASE Close
  <2>1. /\ run'.scheduled = run.scheduled
        /\ run'.unscheduled = run.unscheduled /\ run'.leftover = run.leftover
        /\ run'.scaleOutNodes = run.scaleOutNodes
    BY <1>11 DEF Close
  <2>2. QED BY <1>11, <2>1 DEF Close
<1>12. QED
  BY <1>1, <1>2, <1>3, <1>4, <1>5, <1>6, <1>7, <1>8, <1>9, <1>10, <1>11 DEF RunSteps

LEMMA OthersKeepProgress ==
  ASSUME TypeOK, ProgressInv, Reset \/ SchedulerSteps \/ CancelContext \/ UNCHANGED vars
  PROVE  ProgressInv'
<1> USE RunAssumption DEF runVars, ProgressInv
<1>1. CASE Reset
  <2>1. /\ run'.leftover = {} /\ run'.unscheduled = {} /\ run'.scheduled = {}
        /\ run'.scaleOutNodes = {}
        /\ UNCHANGED <<bound, nodes, sched, pc, runNum, failing>> /\ pc = "idle"
    BY <1>1 DEF Reset, MakeRunState
  <2>2. QED BY <2>1
<1>2. ASSUME NEW p \in Pods, Bind(p) PROVE ProgressInv'
  BY <1>2 DEF Bind, TypeOK
<1>3. CASE FailToSchedule
  BY <1>3 DEF FailToSchedule
<1>4. ASSUME NEW p \in Pods, Preempt(p) PROVE ProgressInv'
  BY <1>4 DEF Preempt, TypeOK, Nodes, Gone
<1>5. CASE RecordEvent \/ DropEvent \/ SchedulerExits \/ CancelContext \/ UNCHANGED vars
  BY <1>5 DEF RecordEvent, DropEvent, SchedulerExits, CancelContext, vars
<1>6. QED BY <1>1, <1>2, <1>3, <1>4, <1>5 DEF SchedulerSteps

(* Events that are not where a step puts or takes one stay where they are. *)
LEMMA EventsStay ==
  ASSUME EventInv, UNCHANGED <<bound, sink, recording>>, evList' \in {evList, {}}, pc # "reset"
  PROVE  EventInv'
BY DEF EventInv, onItsWay, Scheduled

LEMMA RunKeepsEvents ==
  ASSUME TypeOK, EventInv, RunSteps
  PROVE  EventInv'
<1> USE DEF clusterVars, fail
<1>1. CASE InitRun
  BY <1>1, EventsStay DEF InitRun
<1>2. CASE CreateSimulationNodes
  BY <1>2, EventsStay DEF CreateSimulationNodes
<1>3. CASE launchSchedulerForSimulation
  BY <1>3, EventsStay DEF launchSchedulerForSimulation
<1>4. CASE selectDone
  BY <1>4, EventsStay DEF selectDone
<1>5. CASE doWork
  BY <1>5, EventsStay DEF doWork, volumesBound
<1>6. CASE TrackList
  <2>1. UNCHANGED <<bound, sink, recording>> /\ evList' = sink /\ (sink = {} \/ pc' = "reset")
    BY <1>6 DEF TrackList
  <2>2. QED BY <2>1 DEF EventInv, onItsWay, Scheduled
<1>7. CASE TrackReset
  <2>1. UNCHANGED <<bound, evList, recording>> /\ sink' = {}
    BY <1>7 DEF TrackReset
  <2>2. QED BY <2>1 DEF EventInv, onItsWay, Scheduled
<1>8. CASE TrackEvent
  <2>1. UNCHANGED <<bound, sink, recording>> /\ evList' \subseteq evList /\ pc = "track"
    BY <1>8 DEF TrackEvent
  <2>2. QED BY <2>1 DEF EventInv, onItsWay, Scheduled
<1>9. CASE TrackEnd
  BY <1>9, EventsStay DEF TrackEnd
<1>10. CASE Result
  BY <1>10, EventsStay DEF Result
<1>11. CASE Close
  BY <1>11, EventsStay DEF Close
<1>12. QED
  BY <1>1, <1>2, <1>3, <1>4, <1>5, <1>6, <1>7, <1>8, <1>9, <1>10, <1>11 DEF RunSteps

(* A binding makes one event, of a pod that had none.                      *)
LEMMA BindMakesEvent ==
  ASSUME TypeOK, EventInv, NEW p \in Pods, Bind(p)
  PROVE  /\ p \notin onItsWay /\ onItsWay' = onItsWay \union {p}
         /\ EventInv'
<1>1. p \notin onItsWay /\ bound[p] = Unbound
  BY DEF Bind, EventInv
<1>2. /\ UNCHANGED <<sink, evList, pc>>
      /\ recording' = recording \union {Scheduled(p)}
      /\ bound'[p] \in Nodes /\ \A q \in Pods : q # p => bound'[q] = bound[q]
  BY RunAssumption DEF Bind, runVars, TypeOK, Nodes, Existing
<1>3. \A q \in Pods : Scheduled(q) = Scheduled(p) => q = p
  BY DEF Scheduled
<1>4. onItsWay' = onItsWay \union {p}
  BY <1>2, <1>3 DEF onItsWay
<1>5. ASSUME NEW q \in Pods
      PROVE  /\ q \in onItsWay' => bound'[q] # Unbound
             /\ Scheduled(q) \in recording' => Scheduled(q) \notin sink' \union evList'
             /\ Scheduled(q) \in sink' /\ Scheduled(q) \in evList' => pc' = "reset"
  <2>1. CASE q = p
    <3>1. Scheduled(p) \notin sink \union evList
      BY <1>1 DEF onItsWay
    <3>2. bound'[p] # Unbound
      BY <1>2, RunAssumption DEF Nodes, Unbound
    <3>3. QED BY <2>1, <1>2, <3>1, <3>2
  <2>2. CASE q # p
    BY <2>2, <1>2, <1>3, <1>4 DEF EventInv
  <2>3. QED BY <2>1, <2>2
<1>6. QED BY <1>1, <1>4, <1>5 DEF EventInv

LEMMA OthersKeepEvents ==
  ASSUME TypeOK, EventInv, Reset \/ SchedulerSteps \/ CancelContext \/ UNCHANGED vars
  PROVE  EventInv'
<1> USE DEF runVars
<1>1. CASE Reset
  <2>1. UNCHANGED <<bound, recording, evList, pc>> /\ sink' \subseteq sink
    BY <1>1 DEF Reset
  <2>2. QED BY <2>1 DEF EventInv, onItsWay, Scheduled
<1>2. ASSUME NEW p \in Pods, Bind(p) PROVE EventInv'
  BY <1>2, BindMakesEvent
<1>3. CASE FailToSchedule
  <2>1. UNCHANGED <<bound, sink, evList, pc>>
        /\ \A q \in Pods : Scheduled(q) \in recording' <=> Scheduled(q) \in recording
    BY <1>3 DEF FailToSchedule, Scheduled, FailedScheduling
  <2>2. QED BY <2>1 DEF EventInv, onItsWay, Scheduled
<1>4. ASSUME NEW p \in Pods, Preempt(p) PROVE EventInv'
  <2>1. UNCHANGED <<sink, recording, evList, pc>> /\ bound' = [bound EXCEPT ![p] = Gone]
    BY <1>4 DEF Preempt
  <2>2. \A q \in Pods : bound[q] # Unbound => bound'[q] # Unbound
    BY <2>1, RunAssumption DEF TypeOK, Unbound, Gone
  <2>3. QED BY <2>1, <2>2 DEF EventInv, onItsWay, Scheduled
<1>5. CASE RecordEvent
  <2>1. PICK e \in recording :
          recording' = recording \ {e} /\ sink' = sink \union {e} /\ UNCHANGED <<bound, evList, pc>>
    BY <1>5 DEF RecordEvent
  <2>2. QED BY <2>1 DEF EventInv, onItsWay, Scheduled
<1>6. CASE DropEvent
  <2>1. UNCHANGED <<bound, sink, evList, pc>> /\ recording' \subseteq recording
    BY <1>6 DEF DropEvent
  <2>2. QED BY <2>1 DEF EventInv, onItsWay, Scheduled
<1>7. CASE SchedulerExits \/ CancelContext \/ UNCHANGED vars
  <2>1. UNCHANGED <<bound, sink, recording, evList, pc>>
    BY <1>7 DEF SchedulerExits, CancelContext, vars
  <2>2. QED BY <2>1 DEF EventInv, onItsWay, Scheduled
<1>8. QED BY <1>1, <1>2, <1>3, <1>4, <1>5, <1>6, <1>7 DEF SchedulerSteps

THEOREM ContractInvariant == Spec => [](ProgressInv /\ EventInv)
<1>1. Init => ProgressInv /\ EventInv
  <2> SUFFICES ASSUME Init PROVE ProgressInv /\ EventInv
    OBVIOUS
  <2>1. ProgressInv
    BY RunAssumption DEF Init, ProgressInv, MakeRunState, Nodes, Unbound, podsOf
  <2>2. EventInv
    BY DEF Init, EventInv, onItsWay
  <2>3. QED BY <2>1, <2>2
<1>2. RunInv /\ ProgressInv /\ EventInv /\ [Next]_vars => ProgressInv' /\ EventInv'
  BY RunKeepsProgress, OthersKeepProgress, RunKeepsEvents, OthersKeepEvents DEF RunInv, Next
<1>3. QED BY RunInvariant, <1>1, <1>2, PTL DEF Spec

-----------------------------------------------------------------------------
(* What the contract reads of a RunState and of a ScaleOutSimResult.       *)
sameState ==
  /\ run'.status = run.status /\ run'.unscheduled = run.unscheduled
  /\ run'.scaleOutNodes = run.scaleOutNodes /\ run'.scheduled = run.scheduled
  /\ UNCHANGED <<runNum, result>>

(* A step that the contract does not see, but for events that are lost.    *)
LEMMA Unseen ==
  ASSUME UNCHANGED <<bound, nodes>>, sameState, onItsWay' \subseteq onItsWay
  PROVE  [Contract!Next]_(Contract!contractVars)
<1>1. Contract!Forget
  BY DEF Contract!Forget, Contract!state, sameState
<1>2. QED BY <1>1 DEF Contract!Next

LEMMA BeginMaps ==
  ASSUME TypeOK, InitRun
  PROVE  Contract!Begin
<1>1. /\ run'.status = "Running"
      /\ run'.scaleOutNodes = run.scaleOutNodes /\ run'.scheduled = run.scheduled
      /\ run'.unscheduled = IF getUnscheduledPodsMap = {} THEN run.unscheduled
                            ELSE getUnscheduledPodsMap
      /\ run.status \in {"Pending", "Success"}
  BY DEF InitRun, TypeOK, RunStates, fail
<1>2. UNCHANGED <<clusterVars, nodes, evList, result>> /\ runNum' = runNum + 1
  BY InitRunStep
<1>3. onItsWay' = onItsWay
  BY <1>2 DEF onItsWay, clusterVars
<1>4. QED
  BY <1>1, <1>2, <1>3 DEF Contract!Begin, Contract!view, clusterVars, getUnscheduledPodsMap

LEMMA CreateMaps ==
  ASSUME TypeOK, ProgressInv, CreateSimulationNodes
  PROVE  [Contract!Next]_(Contract!contractVars)
<1>1. /\ UNCHANGED <<clusterVars, evList, result, runNum>> /\ pc = "create"
      /\ run'.status = run.status /\ run'.unscheduled = run.unscheduled
      /\ run'.scheduled = run.scheduled
      /\ \/ nodes' = nodes /\ run'.scaleOutNodes = run.scaleOutNodes
         \/ /\ nodes' = nodes \union {runNum}
            /\ run'.scaleOutNodes = run.scaleOutNodes \union {runNum}
  BY DEF CreateSimulationNodes, TypeOK, RunStates
<1>2. UNCHANGED bound /\ onItsWay' = onItsWay
  BY <1>1 DEF onItsWay, clusterVars
<1>3. CASE nodes' = nodes /\ run'.scaleOutNodes = run.scaleOutNodes
  BY <1>1, <1>2, <1>3, Unseen DEF sameState
<1>4. CASE nodes' = nodes \union {runNum} /\ run'.scaleOutNodes = run.scaleOutNodes \union {runNum}
  <2>1. run.status = "Running" /\ runNum \notin nodes
    BY <1>1 DEF ProgressInv
  <2>2. Contract!ScaleOut
    BY <1>1, <1>2, <1>4, <2>1 DEF Contract!ScaleOut
  <2>3. QED BY <2>2 DEF Contract!Next
<1>5. QED BY <1>1, <1>3, <1>4

(* The event that is handled is nowhere else, so that its binding cannot   *)
(* be recorded again; and the node it is recorded with is there.           *)
LEMMA TrackMaps ==
  ASSUME TypeOK, ProgressInv, EventInv, TrackEvent
  PROVE  [Contract!Next]_(Contract!contractVars)
<1>1. UNCHANGED <<bound, nodes, sink, recording, runNum, result>> /\ pc = "track"
  BY DEF TrackEvent, clusterVars
<1>2. PICK e \in evList :
        /\ evList' = evList \ {e}
        /\ \/ run' = run
           \/ e.reason = "Scheduled" /\ bound[e.pod] \in Nodes /\ addScheduledPod(e.pod)
  BY DEF TrackEvent, fail
<1>3. CASE run' = run
  <2>1. onItsWay' \subseteq onItsWay
    BY <1>1, <1>2 DEF onItsWay
  <2>2. QED BY <1>1, <1>3, <2>1, Unseen DEF sameState
<1>4. CASE e.reason = "Scheduled" /\ bound[e.pod] \in Nodes /\ addScheduledPod(e.pod)
  <2> DEFINE p == e.pod
  <2>1. p \in Pods /\ e = Scheduled(p)
    BY <1>4, ScheduledEvents DEF TypeOK
  <2>2. \A q \in Pods : Scheduled(q) = e => q = p
    BY DEF Scheduled
  <2>3. e \notin recording \union sink
    BY <1>1, <2>1 DEF EventInv
  <2>4. p \in onItsWay
    BY <2>1 DEF onItsWay
  <2>5. onItsWay' = onItsWay \ {p}
    BY <1>1, <1>2, <2>1, <2>2, <2>3 DEF onItsWay
  <2>6. /\ run.status = "Running" /\ runNum \in run.scaleOutNodes
        /\ bound[p] \in nodes \union {Existing}
    BY <1>1, <1>4, <2>1 DEF ProgressInv
  <2>7. /\ run'.status = run.status /\ run'.unscheduled = run.unscheduled
        /\ run'.scaleOutNodes = run.scaleOutNodes
        /\ run'.scheduled = run.scheduled \union {<<bound[p], p>>}
    BY <1>4 DEF addScheduledPod, TypeOK, RunStates
  <2>8. Contract!Record(p)
    BY <1>1, <2>4, <2>5, <2>6, <2>7 DEF Contract!Record
  <2>9. QED BY <2>1, <2>8 DEF Contract!Next
<1>5. QED BY <1>2, <1>3, <1>4

LEMMA FinishMaps ==
  ASSUME TypeOK, ProgressInv, Result
  PROVE  Contract!Finish
<1>1. UNCHANGED <<bound, nodes, sink, recording, evList, runNum>> /\ pc = "collect"
  BY DEF Result, clusterVars
<1>2. /\ run'.status = "Success" /\ run'.unscheduled = run.unscheduled
      /\ run'.scaleOutNodes = run.scaleOutNodes /\ run'.scheduled = run.scheduled
  BY DEF Result, TypeOK, RunStates
<1>3. /\ run.status = "Running" /\ runNum \in run.scaleOutNodes
      /\ run.leftover = run.unscheduled \ podsOf(run.scheduled)
  BY <1>1 DEF ProgressInv
<1>4. /\ result'.assigned = {a \in run.scheduled : a[1] \in run.scaleOutNodes}
      /\ result'.other = {a \in run.scheduled : a[1] \notin run.scaleOutNodes}
      /\ result'.leftover = run.leftover
  BY DEF Result, getScaleOutNodeAssignments, getOtherPodNodeAssignments
<1>5. onItsWay' = onItsWay
  BY <1>1 DEF onItsWay
<1>6. QED
  BY <1>1, <1>2, <1>3, <1>4, <1>5 DEF Contract!Finish, Contract!view, podsOf

LEMMA CloseMaps ==
  ASSUME TypeOK, ProgressInv, Close
  PROVE  [Contract!Next]_(Contract!contractVars)
<1>1. UNCHANGED <<bound, nodes, sink, recording, runNum, result>> /\ evList' = {} /\ pc = "close"
  BY DEF Close
<1>2. onItsWay' \subseteq onItsWay
  BY <1>1 DEF onItsWay
<1>3. CASE ~failing
  BY <1>1, <1>2, <1>3, Unseen DEF Close, sameState
<1>4. CASE failing
  <2>1. /\ run'.status = "Failure" /\ run'.unscheduled = run.unscheduled
        /\ run'.scaleOutNodes = run.scaleOutNodes /\ run'.scheduled = run.scheduled
    BY <1>4 DEF Close, TypeOK, RunStates
  <2>2. run.status = "Running"
    BY <1>1, <1>4 DEF ProgressInv
  <2>3. Contract!Fail
    BY <1>1, <1>2, <2>1, <2>2 DEF Contract!Fail
  <2>4. QED BY <2>3 DEF Contract!Next
<1>5. QED BY <1>3, <1>4

(* The steps of a run that the contract does not see.                      *)
LEMMA QuietMaps ==
  ASSUME TypeOK, \/ launchSchedulerForSimulation \/ selectDone \/ doWork
                 \/ TrackList \/ TrackReset \/ TrackEnd
  PROVE  [Contract!Next]_(Contract!contractVars)
<1>1. UNCHANGED <<bound, nodes, recording, runNum, result>>
  BY DEF launchSchedulerForSimulation, selectDone, doWork, volumesBound, TrackList, TrackReset, TrackEnd,
         clusterVars
<1>2. sink' \union evList' \subseteq sink \union evList
  BY DEF launchSchedulerForSimulation, selectDone, doWork, volumesBound, TrackList, TrackReset, TrackEnd,
         clusterVars
<1>3. sameState
  BY <1>1 DEF launchSchedulerForSimulation, selectDone, doWork, volumesBound, TrackList, TrackReset, TrackEnd,
              sameState, TypeOK, RunStates
<1>4. onItsWay' \subseteq onItsWay
  BY <1>1, <1>2 DEF onItsWay
<1>5. QED BY <1>1, <1>3, <1>4, Unseen

LEMMA RunStepsMap ==
  ASSUME TypeOK, ProgressInv, EventInv, RunSteps
  PROVE  [Contract!Next]_(Contract!contractVars)
<1>1. CASE InitRun
  BY <1>1, BeginMaps DEF Contract!Next
<1>2. CASE Result
  BY <1>2, FinishMaps DEF Contract!Next
<1>3. QED
  BY <1>1, <1>2, CreateMaps, TrackMaps, CloseMaps, QuietMaps DEF RunSteps

(* The scheduler binds and preempts, and what becomes of the events before *)
(* they are listed does not show.                                          *)
LEMMA OthersStepsMap ==
  ASSUME TypeOK, ProgressInv, EventInv, Reset \/ SchedulerSteps \/ CancelContext \/ UNCHANGED vars
  PROVE  [Contract!Next]_(Contract!contractVars)
<1> USE DEF runVars
<1>1. CASE Reset
  <2>1. /\ UNCHANGED <<bound, nodes, recording, evList, runNum, result>> /\ sink' \subseteq sink
        /\ run.status = "Success" /\ run' = MakeRunState
    BY <1>1 DEF Reset
  <2>2. onItsWay' \subseteq onItsWay
    BY <2>1 DEF onItsWay
  <2>3. Contract!Reset
    BY <2>1, <2>2 DEF Contract!Reset, MakeRunState
  <2>4. QED BY <2>3 DEF Contract!Next
<1>2. ASSUME NEW p \in Pods, Bind(p) PROVE Contract!Next
  <2>1. /\ UNCHANGED <<nodes, runNum, run, result>> /\ bound[p] = Unbound /\ sched # "off"
        /\ \E n \in nodes \union {Existing} : bound' = [bound EXCEPT ![p] = n]
    BY <1>2 DEF Bind
  <2>2. nodes # {} /\ onItsWay' = onItsWay \union {p}
    BY <1>2, <2>1, BindMakesEvent DEF ProgressInv
  <2>3. Contract!Bind(p)
    BY <2>1, <2>2 DEF Contract!Bind, Contract!state
  <2>4. QED BY <2>3 DEF Contract!Next
<1>3. CASE FailToSchedule
  <2>1. /\ UNCHANGED <<bound, nodes, sink, evList, runNum, run, result>>
        /\ \A q \in Pods : Scheduled(q) \in recording' <=> Scheduled(q) \in recording
    BY <1>3 DEF FailToSchedule, Scheduled, FailedScheduling
  <2>2. onItsWay' \subseteq onItsWay
    BY <2>1 DEF onItsWay
  <2>3. QED BY <2>1, <2>2, Unseen DEF sameState
<1>4. ASSUME NEW p \in Pods, Preempt(p) PROVE Contract!Next
  <2>1. /\ UNCHANGED <<nodes, sink, recording, evList, runNum, run, result>>
        /\ bound[p] \in Nodes /\ bound' = [bound EXCEPT ![p] = Gone]
    BY <1>4 DEF Preempt
  <2>2. bound[p] \in nodes \union {Existing} /\ onItsWay' = onItsWay
    BY <2>1 DEF ProgressInv, onItsWay
  <2>3. Contract!Preempt(p)
    BY <2>1, <2>2 DEF Contract!Preempt, Contract!state
  <2>4. QED BY <2>3 DEF Contract!Next
<1>5. CASE RecordEvent \/ DropEvent \/ SchedulerExits \/ CancelContext \/ UNCHANGED vars
  <2>1. /\ UNCHANGED <<bound, nodes, evList, runNum, run, result>>
        /\ recording' \union sink' \subseteq recording \union sink
    BY <1>5 DEF RecordEvent, DropEvent, SchedulerExits, CancelContext, vars
  <2>2. onItsWay' \subseteq onItsWay
    BY <2>1 DEF onItsWay
  <2>3. QED BY <2>1, <2>2, Unseen DEF sameState
<1>6. QED BY <1>1, <1>2, <1>3, <1>4, <1>5 DEF SchedulerSteps

(* Whatever the scheduler, its recorder and the polling do, the simulator  *)
(* sees a simulation that records real bindings, each at most once over    *)
(* all its runs, and ends for good with an error.                          *)
THEOREM RunImplementsContract == Spec => ImplementsContract
<1>1. Init => Contract!Init
  <2> SUFFICES ASSUME Init PROVE Contract!Init
    OBVIOUS
  <2>1. onItsWay = {}
    BY DEF Init, onItsWay
  <2>2. QED BY <2>1 DEF Init, Contract!Init, MakeRunState, NoResult
<1>2. RunInv /\ ProgressInv /\ EventInv /\ [Next]_vars
        => [Contract!Next]_(Contract!contractVars)
  BY RunStepsMap, OthersStepsMap DEF RunInv, Next
<1>3. QED
  BY <1>1, <1>2, RunInvariant, ContractInvariant, PTL
     DEF Spec, ImplementsContract, Contract!Spec
=============================================================================
