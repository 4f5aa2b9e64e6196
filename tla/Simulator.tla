----------------------------- MODULE Simulator -----------------------------
(***************************************************************************)
(* The scale-out simulator for one request                                 *)
(* (src/planner/simulator/scaleout/singlenode/singlenode.go, with group.go *)
(* and scaleout.go beside it): groups of simulations in decreasing         *)
(* priority, cycles of passes over a group, a winner per pass, and the     *)
(* plans it sends.                                                         *)
(*                                                                         *)
(* A run of a simulation is one step here; module SimulationRun has its    *)
(* inside.  The simulations of a group run concurrently, but each on its   *)
(* own view and its own state, so a pass is their runs in some order.      *)
(*                                                                         *)
(* The cluster is given by which pods a node of each template can take and *)
(* by how many of them.  A patient run waits for the scheduler to place    *)
(* all it can; other runs stop at any point, and may miss placements.  A   *)
(* setup says what a request is about and what may go wrong.               *)
(***************************************************************************)
EXTENDS Naturals, Sequences, FiniteSets, FiniteSetsExt

CONSTANTS
  Setups,      \* the requests, records of
               \*   groups  : sequence of sets of simulations, decreasing priority
               \*   pods    : the unscheduled pods
               \*   patient : every run waits until the scheduler has nothing left to do
               \*   faults  : runs, scoring and sending may fail, the context may end
  Modes,       \* advice generation modes
  MaxCapacity  \* bound: pods that a node takes

(* Nodes: of the snapshot, or scaled out by the k-th run of a simulation.  *)
Existing == <<"existing", 0>>
Unbound == <<"unbound", 0>>
NodeOf(s, k) == <<s, k>>
RequestView == "request view"

ASSUME SimulatorAssumption ==
  /\ \A s \in Setups :
       /\ IsFiniteSet(s.pods) /\ s.pods # {}
       /\ s.groups \in Seq(SUBSET UNION {s.groups[g] : g \in DOMAIN s.groups})
       /\ \A g, h \in DOMAIN s.groups : g # h => s.groups[g] \intersect s.groups[h] = {}
       /\ \A g \in DOMAIN s.groups :
            IsFiniteSet(s.groups[g]) /\ s.groups[g] # {} /\ RequestView \notin s.groups[g]
       /\ s.patient \in BOOLEAN /\ s.faults \in BOOLEAN
  /\ Modes \subseteq {"Incremental", "AllAtOnce"}
  /\ MaxCapacity \in Nat \ {0}

VARIABLES
  setup,       \* the request
  fits,        \* [Sims -> SUBSET Pods], pods that a node of the template takes
  capacity,    \* [Sims -> 1..MaxCapacity]
  mode,        \* the request's AdviceGenerationMode
  views,       \* [Sims -> the sandbox view cached under the simulation's name: the nodes scaled
               \*          out in it, and the pods whose binding by a run on it no run has
               \*          recorded yet]
  sims,        \* [Sims -> RunState and result]
  pc,
  groupIndex,
  passView,    \* NextGroupPassView: RequestView or the simulation that owns it
  running,     \* simulations of the pass that have not returned
  failed,      \* some simulation of the pass returned an error
  cycle,       \* ScaleOutSimGroupCycleResult
  all,         \* allWinnerNodeScores, and the leftover of the last cycle
  sent,        \* the plans sent on ResultCh
  err          \* the error sent on ResultCh

vars == <<setup, fits, capacity, mode, views, sims, pc, groupIndex, passView, running,
          failed, cycle, all, sent, err>>
input == <<setup, fits, capacity, mode>>

Groups == setup.groups
Sims == UNION {Groups[g] : g \in DOMAIN Groups}  \* one per node template and zone
Pods == setup.pods

NoPods == [p \in Pods |-> Unbound]
(* The bindings a view shows, and the nodes that were scaled out in it.    *)
bindings(v) == IF v = RequestView THEN NoPods ELSE views[v].bound
scaledOut(v) == IF v = RequestView THEN {} ELSE views[v].nodes
(* Mutant of group: the groups in increasing priority.                     *)
groupReversed == Groups[Len(Groups) + 1 - groupIndex]

group == Groups[groupIndex]

MakeRunState == [scaleOutNodes |-> {}, scheduled |-> {}, leftover |-> {}]
NoWinners == [winners |-> {}, leftover |-> {}]

(* InitializeRequestView and createAndGroupSimulations have returned.      *)
(* Without a group the loop of runStabilizationCyclesForAllGroups is over. *)
Init ==
  /\ setup \in Setups
  /\ IF setup.patient
     THEN fits \in [Sims -> SUBSET Pods] /\ capacity \in [Sims -> 1..MaxCapacity]
     ELSE fits = [s \in Sims |-> Pods] /\ capacity = [s \in Sims |-> MaxCapacity]
  /\ mode \in Modes
  /\ views = [s \in Sims |-> [created |-> FALSE, nodes |-> {}, bound |-> NoPods, missed |-> {}]]
  /\ sims = [s \in Sims |-> [state |-> MakeRunState, runs |-> 0]]
  /\ pc = (IF Groups = <<>> THEN "end" ELSE "pass") /\ groupIndex = 1 /\ passView = RequestView
  /\ running = {} /\ failed = FALSE
  /\ cycle = NoWinners /\ all = NoWinners
  /\ sent = <<>> /\ err = "none"

-----------------------------------------------------------------------------
(* One run.                                                                *)

(* The views are cached by name: the delegate counts when the view is      *)
(* created and is ignored afterwards.  No one writes to a view any more    *)
(* when it has become the delegate of another, so a new view can take over *)
(* what its delegate shows.                                                *)
CreateSandboxView(s) ==
  IF views[s].created THEN views[s]
  ELSE [created |-> TRUE, nodes |-> scaledOut(passView), bound |-> bindings(passView),
        missed |-> {}]

(* What a run may do with the pods that have no node: place is where the   *)
(* scheduler bound some of them, seen the part of it that Track recorded.  *)
(* A reset forgets the node of a run, but leaves it in the view.           *)
(* An event that comes after the run stays in the sink of the view, where  *)
(* a later run may find it.                                                *)
Placements(s, node, view, unscheduled) ==
  IF setup.patient
  THEN LET candidates == unscheduled \intersect fits[s]
           n == Min({capacity[s], Cardinality(candidates)})
       IN  {[place |-> [p \in B |-> node], seen |-> B] : B \in kSubset(n, candidates)}
  ELSE LET nodes == {node, Existing} \union view.nodes
       IN  UNION {[place : [B -> nodes], seen : SUBSET B] : B \in SUBSET unscheduled}

(* A run of a simulation in the errgroup of simGroup.Run.                  *)
RunSimulation(s) ==
  /\ pc = "run" /\ s \in running
  /\ running' = running \ {s}
  /\ LET view == CreateSandboxView(s)
         unscheduled == {p \in Pods : view.bound[p] = Unbound}
         k == sims[s].runs + 1
         node == NodeOf(s, k)
         old == sims[s].state
     IN  IF unscheduled = {}
         THEN /\ failed' = TRUE
              /\ views' = [views EXCEPT ![s] = view]
              /\ sims' = [sims EXCEPT ![s].runs = k]
         ELSE \E o \in Placements(s, node, view, unscheduled), late \in SUBSET view.missed :
                /\ views' = [views EXCEPT ![s] =
                     [created |-> TRUE,
                      nodes |-> view.nodes \union {node},
                      bound |-> [p \in Pods |->
                                   IF p \in DOMAIN o.place THEN o.place[p] ELSE view.bound[p]],
                      missed |-> (view.missed \ late) \union (DOMAIN o.place \ o.seen)]]
                /\ sims' = [sims EXCEPT ![s] =
                     [runs |-> k,
                      state |-> [scaleOutNodes |-> old.scaleOutNodes \union {node},
                                 scheduled |-> old.scheduled
                                               \union {<<o.place[p], p>> : p \in o.seen}
                                               \union {<<view.bound[p], p>> : p \in late},
                                 leftover |-> unscheduled \ o.seen]]]
                /\ failed' = failed
  /\ UNCHANGED <<input, pc, groupIndex, passView, cycle, all, sent, err>>

(* Any other error of a run, the cancellation by the errgroup included.    *)
FailSimulation(s) ==
  /\ setup.faults \/ failed
  /\ pc = "run" /\ s \in running
  /\ running' = running \ {s} /\ failed' = TRUE
  /\ views' = [views EXCEPT ![s] = CreateSandboxView(s)]
  /\ sims' = [sims EXCEPT ![s].runs = @ + 1]
  /\ UNCHANGED <<input, pc, groupIndex, passView, cycle, all, sent, err>>

-----------------------------------------------------------------------------
(* Passes and cycles.                                                      *)

(* Simulate sends the error and closes the channel.                        *)
SendPlanError(e) == err' = e /\ pc' = "closed"

(* The head of the loop of runStabilizationCycleForGroup.                  *)
BeginPass ==
  /\ pc = "pass"
  /\ \/ pc' = "run" /\ running' = group /\ err' = err
     \/ setup.faults /\ SendPlanError("context done") /\ running' = running
  /\ UNCHANGED <<input, views, sims, groupIndex, passView, failed, cycle, all, sent>>

NodePodAssignments(s) ==
  {a \in sims[s].state.scheduled : a[1] \in sims[s].state.scaleOutNodes}

(* Mutant of WinnerScores: simulations without an assignment are scored.   *)
WinnerScoresUnfiltered ==
  UNION {{[sim |-> s, node |-> n] : n \in sims[s].state.scaleOutNodes} : s \in group}

(* processScaleOutSimResults: only simulations with an assignment on a     *)
(* node they scaled out are scored, for the first such node.  Select may   *)
(* take any of them.                                                       *)
WinnerScores ==
  UNION {{[sim |-> s, node |-> a[1]] : a \in NodePodAssignments(s)} : s \in group}

(* runPassForGroup and what runStabilizationCycleForGroup does with its    *)
(* result.  A pass with a winner resets every simulation of the group.     *)
WinPass ==
  /\ pc = "run" /\ running = {} /\ ~failed
  /\ \E w \in WinnerScores :
       LET leftover == sims[w.sim].state.leftover
       IN  /\ cycle' = [winners |-> cycle.winners \union {w.node}, leftover |-> leftover]
           /\ passView' = w.sim
           /\ pc' = IF leftover = {} THEN "cycle" ELSE "pass"
  /\ sims' = [s \in Sims |-> IF s \in group THEN [sims[s] EXCEPT !.state = MakeRunState]
                                            ELSE sims[s]]
  /\ UNCHANGED <<input, views, groupIndex, running, failed, all, sent, err>>

NoWinner ==
  /\ pc = "run" /\ running = {} /\ ~failed
  /\ WinnerScores = {}
  /\ pc' = "cycle"
  /\ UNCHANGED <<input, views, sims, groupIndex, passView, running, failed,
                 cycle, all, sent, err>>

(* Mutant of FailPass: the error of a run is not reported.                 *)
FailPassSilently ==
  /\ pc = "run" /\ running = {}
  /\ setup.faults /\ WinnerScores # {} /\ SendPlanError("scoring failed")
  /\ UNCHANGED <<input, views, sims, groupIndex, passView, running, failed, cycle, all, sent>>

(* The group returned an error, or scoring did.                            *)
FailPass ==
  /\ pc = "run" /\ running = {}
  /\ \/ failed /\ SendPlanError("run failed")
     \/ setup.faults /\ WinnerScores # {} /\ SendPlanError("scoring failed")
  /\ UNCHANGED <<input, views, sims, groupIndex, passView, running, failed, cycle, all, sent>>

(* SendPlanResult.                                                         *)
Plan(result) == [nodes |-> result.winners, unsatisfied |-> result.leftover]

(* The body of the loop of runStabilizationCyclesForAllGroups after the    *)
(* cycle.  A group with winners and leftover pods gets another cycle.      *)
EndCycleWithoutWinner ==
  /\ pc = "cycle" /\ cycle.winners = {}
  /\ IF groupIndex < Len(Groups)
     THEN groupIndex' = groupIndex + 1 /\ pc' = "pass"
     ELSE groupIndex' = groupIndex /\ pc' = "end"
  /\ cycle' = NoWinners
  /\ UNCHANGED <<input, views, sims, passView, running, failed, all, sent, err>>

(* Mutant of EndCycle: only the last cycle's winners are kept.             *)
EndCycleForgetting ==
  /\ pc = "cycle" /\ cycle.winners # {}
  /\ all' = cycle
  /\ sent' = IF mode = "Incremental" THEN Append(sent, Plan(cycle)) ELSE sent
  /\ pc' = IF cycle.leftover = {} THEN "end" ELSE "pass"
  /\ cycle' = NoWinners
  /\ UNCHANGED <<input, views, sims, groupIndex, passView, running, failed, err>>

(* Mutant of EndCycle: the groups end with the first one that has winners. *)
EndCycleAtFirstWinner ==
  /\ pc = "cycle" /\ cycle.winners # {}
  /\ all' = cycle
  /\ sent' = IF mode = "Incremental" THEN Append(sent, Plan(cycle)) ELSE sent
  /\ pc' = "end"
  /\ cycle' = NoWinners
  /\ UNCHANGED <<input, views, sims, groupIndex, passView, running, failed, err>>

EndCycle ==
  /\ pc = "cycle" /\ cycle.winners # {}
  /\ \/ /\ all' = [winners |-> all.winners \union cycle.winners, leftover |-> cycle.leftover]
        /\ sent' = IF mode = "Incremental" THEN Append(sent, Plan(cycle)) ELSE sent
        /\ pc' = IF cycle.leftover = {} THEN "end" ELSE "pass"
        /\ cycle' = NoWinners /\ err' = err
     \/ /\ setup.faults /\ mode = "Incremental" /\ SendPlanError("send failed")
        /\ UNCHANGED <<all, sent, cycle>>
  /\ UNCHANGED <<input, views, sims, groupIndex, passView, running, failed>>

Finish ==
  /\ pc = "end"
  /\ \/ all.winners = {} /\ SendPlanError("no scale-out plan") /\ sent' = sent
     \/ /\ all.winners # {} /\ mode = "Incremental"
        /\ pc' = "closed" /\ UNCHANGED <<sent, err>>
     \/ /\ all.winners # {} /\ mode = "AllAtOnce"
        /\ \/ sent' = Append(sent, Plan(all)) /\ pc' = "closed" /\ err' = err
           \/ setup.faults /\ SendPlanError("send failed") /\ sent' = sent
  /\ UNCHANGED <<input, views, sims, groupIndex, passView, running, failed, cycle, all>>

-----------------------------------------------------------------------------
Next ==
  \/ BeginPass \/ WinPass \/ NoWinner \/ FailPass
  \/ EndCycle \/ EndCycleWithoutWinner \/ Finish
  \/ \E s \in Sims : RunSimulation(s) \/ FailSimulation(s)

Spec == Init /\ [][Next]_vars

(* Runs end (SimulationRun) and so do the simulator's own steps.           *)
FairSpec == Spec /\ WF_vars(Next)

-----------------------------------------------------------------------------
(* Properties.                                                             *)

Node == {Existing} \union (Sims \X (Nat \ {0}))
ViewState == [created : BOOLEAN, nodes : SUBSET Node, bound : [Pods -> Node \union {Unbound}],
              missed : SUBSET Pods]
RunState == [scaleOutNodes : SUBSET Node, scheduled : SUBSET (Node \X Pods),
             leftover : SUBSET Pods]
CycleResult == [winners : SUBSET Node, leftover : SUBSET Pods]

TypeOK ==
  /\ setup \in Setups
  /\ fits \in [Sims -> SUBSET Pods] /\ capacity \in [Sims -> 1..MaxCapacity]
  /\ mode \in Modes
  /\ views \in [Sims -> ViewState]
  /\ \A s \in Sims : \A p \in views[s].missed : views[s].bound[p] # Unbound /\ ~setup.patient
  /\ sims \in [Sims -> [state : RunState, runs : Nat]]
  /\ \A s \in Sims : sims[s].state.scaleOutNodes \subseteq {NodeOf(s, k) : k \in 1..sims[s].runs}
  /\ pc \in {"pass", "run", "cycle", "end", "closed"}
  /\ IF Groups = <<>> THEN pc \in {"end", "closed"} ELSE groupIndex \in DOMAIN Groups
  /\ passView \in Sims \union {RequestView}
  /\ running \subseteq Sims /\ failed \in BOOLEAN
  /\ cycle \in CycleResult /\ all \in CycleResult
  /\ sent \in Seq([nodes : SUBSET Node, unsatisfied : SUBSET Pods])
  /\ err \in {"none", "context done", "run failed", "scoring failed", "send failed",
              "no scale-out plan"}

planNodes == UNION {sent[i].nodes : i \in DOMAIN sent}
unsatisfied == IF sent = <<>> THEN Pods ELSE sent[Len(sent)].unsatisfied
done == pc = "closed" /\ err \in {"none", "no scale-out plan"}
oneEach == \A g \in DOMAIN Groups : Cardinality(Groups[g]) = 1

(* With patient runs and no failure from outside plans should be exact,    *)
(* and they are if every group has one simulation: then the cached view is *)
(* the one that the winner of the last pass left.                          *)
exact == done /\ setup.patient /\ ~setup.faults /\ oneEach

(* A pod that the last plan does not list under UnsatisfiedPodNames has a  *)
(* node in the view the last winner left, and that node exists already or  *)
(* is one the plans ask for.                                               *)
covered ==
  \A p \in Pods \ unsatisfied : bindings(passView)[p] \in planNodes \union {Existing}

(* The plans keep their promise: what they claim to place has a place.     *)
(* And without a failure from outside every request is answered, by plans  *)
(* or by ErrNoScaleOutPlan: groups are run "until there is no winner or    *)
(* there are no leftover unscheduled pods or the context is done"          *)
(* (singlenode.go:113).                                                    *)
PlanCoversPods ==
  /\ exact => covered
  /\ setup.patient /\ ~setup.faults /\ oneEach => err \in {"none", "no scale-out plan"}

(* "the winner NodeScore determines the simulation View for the next pass" *)
(* (singlenode.go:54) also in a group of several simulations, so the plans *)
(* keep their promise there too.                                           *)
WinnerViewCarriesOver == done /\ setup.patient /\ ~setup.faults => covered

(* Passes go on "until there are no more passes possible" (singlenode.go:  *)
(* 55): no pod is reported unsatisfied that a node of some template would  *)
(* take.                                                                   *)
NoFeasiblePodLeft ==
  exact => \A p \in unsatisfied, s \in Sims : p \notin fits[s]

(* A group gets only the pods that no group of higher priority could take, *)
(* which is what running groups in the order of CmpScaleOutSimGroup is for.*)
PriorityRespected ==
  exact => \A h \in DOMAIN Groups : \A s \in Groups[h], p \in Pods :
             (bindings(passView)[p] \in planNodes /\ bindings(passView)[p][1] = s) =>
               \A g \in 1..(h - 1) : \A t \in Groups[g] : p \notin fits[t]

(* No plan asks for a node that stays empty: each node of a plan holds a   *)
(* pod in the view of the simulation that scaled it out.                   *)
NoIdleNode ==
  \A n \in planNodes \union cycle.winners :
     \E p \in Pods : views[n[1]].bound[p] = n

(* The loops over groups, cycles and passes end and the channel is closed. *)
Terminates == <>(pc = "closed")
=============================================================================
