-------------------------- MODULE SimulatorProofs --------------------------
(***************************************************************************)
(* What the plans of module Simulator say is true: no plan asks for a node *)
(* that stays empty, whatever the groups, the runs and the failures; and   *)
(* with patient runs, no failure from outside and one simulation in each   *)
(* group, plans cover the pods they claim to place, leave out no pod that  *)
(* a template would take and respect the priority of the groups.           *)
(***************************************************************************)
EXTENDS Simulator, FiniteSetTheorems, TLAPS

-----------------------------------------------------------------------------
(* The invariant for every setup.                                          *)

(* What a simulation has recorded since its last reset is still so in its  *)
(* view, and it has recorded nothing before its view exists: the first run *)
(* replaces the bindings of the view by those of the delegate.             *)
RecordsHold ==
  \A s \in Sims :
    /\ ~views[s].created => sims[s].state.scheduled = {}
    /\ \A a \in sims[s].state.scheduled : views[s].bound[a[2]] = a[1]

(* A winner, of a plan or not yet in one, holds a pod.                     *)
winners == planNodes \union all.winners \union cycle.winners
WinnersHold ==
  \A n \in winners :
    n[1] \in Sims /\ views[n[1]].created /\ \E p \in Pods : views[n[1]].bound[p] = n

RunsInGroup == running # {} => pc = "run" /\ running \subseteq group

SimInv == TypeOK /\ RunsInGroup /\ RecordsHold /\ WinnersHold

-----------------------------------------------------------------------------
(* The invariant for exact setups, which have one simulation per group.    *)

isExact == setup.patient /\ ~setup.faults /\ oneEach

unbound(b) == {p \in Pods : b[p] = Unbound}

(* Bindings b are those the winners so far account for.                    *)
Settled(b) ==
  /\ \A p \in Pods : b[p] = Unbound \/ b[p] \in all.winners \union cycle.winners
  /\ cycle.winners # {} => cycle.leftover = unbound(b)
  /\ cycle.winners = {} /\ all.winners # {} => all.leftover = unbound(b)

(* No template of the first n groups takes a pod that b leaves without a   *)
(* node.                                                                   *)
Exhausted(b, n) ==
  \A g \in DOMAIN Groups : g <= n => \A t \in Groups[g] : fits[t] \intersect unbound(b) = {}

(* No template of an earlier group takes a pod that b puts on a node of a  *)
(* later one.                                                              *)
Ordered(b) ==
  \A g, h \in DOMAIN Groups : g < h =>
    \A t \in Groups[g], s \in Groups[h], p \in Pods :
      b[p] # Unbound /\ b[p][1] = s => p \notin fits[t]

(* Between two runs the cached view of the current group is the view that  *)
(* the last winner left, if it exists.                                     *)
BetweenRuns ==
  LET b == bindings(passView) IN
  /\ Settled(b) /\ Ordered(b) /\ Exhausted(b, groupIndex - 1)
  /\ pc \in {"pass", "run"} \/ (pc = "cycle" /\ cycle.winners = {}) => unbound(b) # {}
  /\ pc \in {"cycle", "end", "closed"} => Exhausted(b, groupIndex)
  /\ pc \in {"pass", "cycle"} \/ running # {} => \A s \in group :
       /\ sims[s].state.scheduled = {}
       /\ views[s].created => views[s].bound = b

(* After the run of the group's only simulation: its records tell which    *)
(* pods it placed, all of them on the node of this run.                    *)
AfterRun(s) ==
  LET b == views[s].bound  state == sims[s].state IN
  /\ views[s].created
  /\ Ordered(b) /\ Exhausted(b, groupIndex - 1)
  /\ state.leftover = unbound(b)
  /\ NodeOf(s, sims[s].runs) \in state.scaleOutNodes
  /\ \A a \in state.scheduled : a[1] = NodeOf(s, sims[s].runs)
  /\ \A p \in Pods : \/ b[p] = Unbound
                     \/ b[p] \in all.winners \union cycle.winners
                     \/ <<b[p], p>> \in state.scheduled
  /\ state.scheduled = {} =>
       bindings(passView) = b /\ Settled(b) /\ unbound(b) # {} /\ Exhausted(b, groupIndex)

(* What the plans say is what the winners say.                             *)
SentInv ==
  /\ mode = "Incremental" => /\ planNodes = all.winners
                             /\ unsatisfied = (IF all.winners = {} THEN Pods ELSE all.leftover)
  /\ mode = "AllAtOnce" /\ pc # "closed" => sent = <<>>
  /\ mode = "AllAtOnce" /\ pc = "closed" =>
       /\ planNodes = all.winners
       /\ unsatisfied = (IF all.winners = {} THEN Pods ELSE all.leftover)

ExactInv ==
  /\ ~failed /\ err \in {"none", "no scale-out plan"}
  /\ running # {} => running = group
  /\ pc \in {"end", "closed"} => cycle.winners = {}
  /\ pc \in {"end", "closed"} => groupIndex >= Len(Groups) \/ unbound(bindings(passView)) = {}
  /\ \A h \in DOMAIN Groups : h > groupIndex =>
       \A s \in Groups[h] : ~views[s].created /\ sims[s].state.scheduled = {}
  /\ IF pc = "run" /\ running = {} THEN \A s \in group : AfterRun(s) ELSE BetweenRuns
  /\ SentInv

-----------------------------------------------------------------------------
(* What does not change with the request.                                  *)
LEMMA SameInput ==
  ASSUME UNCHANGED input
  PROVE  /\ setup' = setup /\ fits' = fits /\ capacity' = capacity /\ mode' = mode
         /\ Groups' = Groups /\ Sims' = Sims /\ Pods' = Pods /\ NoPods' = NoPods
         /\ Node' = Node /\ ViewState' = ViewState /\ RunState' = RunState
         /\ CycleResult' = CycleResult
<1>1. setup' = setup /\ fits' = fits /\ capacity' = capacity /\ mode' = mode
  BY DEF input
<1>2. Groups' = Groups
  BY <1>1 DEF Groups
<1>3. Sims' = Sims
  BY <1>2 DEF Sims
<1>4. Pods' = Pods
  BY <1>1 DEF Pods
<1>5. Node' = Node
  BY <1>3 DEF Node
<1>6. NoPods' = NoPods
  BY <1>4 DEF NoPods
<1>7. ViewState' = ViewState /\ RunState' = RunState /\ CycleResult' = CycleResult
  BY <1>4, <1>5 DEF ViewState, RunState, CycleResult
<1> QED  BY <1>1, <1>2, <1>3, <1>4, <1>5, <1>6, <1>7

(* A simulation is in a group, groups have simulations.                    *)
LEMMA GroupSims ==
  ASSUME NEW g \in DOMAIN Groups
  PROVE  Groups[g] \subseteq Sims
BY DEF Sims

LEMMA NodesAreBound ==
  /\ Unbound \notin Node
  /\ Existing \in Node
  /\ \A s \in Sims, k \in Nat : k # 0 => NodeOf(s, k) \in Node /\ NodeOf(s, k)[1] = s
BY DEF Node, Unbound, Existing, NodeOf

LEMMA NoPodsType == NoPods \in [Pods -> Node \union {Unbound}]
BY DEF NoPods

(* The view that a run finds or creates.                                   *)
LEMMA CreatedView ==
  ASSUME TypeOK, NEW s \in Sims
  PROVE  /\ CreateSandboxView(s) \in ViewState
         /\ CreateSandboxView(s).created
         /\ views[s].created => CreateSandboxView(s) = views[s]
         /\ ~views[s].created => CreateSandboxView(s).bound = bindings(passView)
         /\ \A p \in CreateSandboxView(s).missed :
              p \in Pods /\ CreateSandboxView(s).bound[p] # Unbound /\ ~setup.patient
<1>1. bindings(passView) \in [Pods -> Node \union {Unbound}]
  <2>1. CASE passView = RequestView
    BY <2>1, NoPodsType DEF bindings
  <2>2. CASE passView # RequestView
    <3>1. passView \in Sims /\ views[passView] \in ViewState
      BY <2>2 DEF TypeOK
    <3> QED  BY <2>2, <3>1 DEF bindings, ViewState
  <2> QED  BY <2>1, <2>2
<1>2. views[s] \in ViewState
  BY DEF TypeOK
<1>3. CASE views[s].created
  <2>1. CreateSandboxView(s) = views[s]
    BY <1>3 DEF CreateSandboxView
  <2>2. \A p \in views[s].missed : p \in Pods /\ views[s].bound[p] # Unbound /\ ~setup.patient
    BY <1>2 DEF TypeOK, ViewState
  <2> QED  BY <1>2, <1>3, <2>1, <2>2
<1>4. CASE ~views[s].created
  <2>1. CreateSandboxView(s) = [created |-> TRUE, nodes |-> scaledOut(passView),
                                bound |-> bindings(passView), missed |-> {}]
    BY <1>4 DEF CreateSandboxView
  <2>2. scaledOut(passView) \subseteq Node
    BY DEF scaledOut, TypeOK, ViewState
  <2> QED  BY <1>1, <1>4, <2>1, <2>2 DEF ViewState
<1> QED  BY <1>3, <1>4

(* What a run may place: pods without a node, on real nodes.  A patient    *)
(* run places pods that fit on its own node, sees them all, and places one *)
(* if there is one.                                                        *)
LEMMA PlacementFacts ==
  ASSUME TypeOK, NEW s \in Sims, NEW view \in ViewState, NEW node \in Node,
         NEW U \in SUBSET Pods, NEW o \in Placements(s, node, view, U)
  PROVE  /\ DOMAIN o.place \subseteq U
         /\ o.seen \subseteq DOMAIN o.place
         /\ o.place \in [DOMAIN o.place -> Node]
         /\ setup.patient =>
              /\ o.seen = DOMAIN o.place
              /\ o.seen \subseteq fits[s]
              /\ \A p \in DOMAIN o.place : o.place[p] = node
              /\ o.seen = {} => fits[s] \intersect U = {}
<1>1. CASE setup.patient
  <2> DEFINE candidates == U \intersect fits[s]
             n == Min({capacity[s], Cardinality(candidates)})
  <2>1. PICK B \in kSubset(n, candidates) : o = [place |-> [p \in B |-> node], seen |-> B]
    BY <1>1 DEF Placements
  <2>2. B \in SUBSET candidates /\ Cardinality(B) = n
    BY <2>1 DEF kSubset
  <2>3. IsFiniteSet(candidates)
    <3>1. IsFiniteSet(Pods)
      BY SimulatorAssumption DEF TypeOK, Pods
    <3> QED  BY <3>1, FS_Subset
  <2>4. capacity[s] \in Nat /\ capacity[s] # 0
    <3>1. MaxCapacity \in Nat /\ capacity[s] \in 1..MaxCapacity
      BY SimulatorAssumption DEF TypeOK
    <3> QED  BY <3>1
  <2>5. Cardinality(candidates) \in Nat
    BY <2>3, FS_CardinalityType
  <2>6. ASSUME B = {}  PROVE candidates = {}
    <3>1. n = 0
      BY <2>2, <2>6, FS_EmptySet
    <3> DEFINE c == Cardinality(candidates)
    <3>2. n \in {capacity[s], c} /\ \A y \in {capacity[s], c} : n <= y
      <4> HIDE DEF c
      <4>1. c \in Nat
        BY <2>5 DEF c
      <4>2. \E x \in {capacity[s], c} : \A y \in {capacity[s], c} : x =< y
        <5>1. CASE capacity[s] <= c
          BY <2>4, <4>1, <5>1
        <5>2. CASE ~(capacity[s] <= c)
          BY <2>4, <4>1, <5>2
        <5> QED  BY <5>1, <5>2
      <4> QED  BY <4>2 DEF Min, c
    <3>3. Cardinality(candidates) = 0
      BY <3>1, <3>2, <2>4
    <3> QED  BY <3>3, <2>3, FS_EmptySet
  <2>7. o.seen = B /\ o.place = [p \in B |-> node]
    BY <2>1
  <2> HIDE DEF candidates, n
  <2>8. B \subseteq U /\ B \subseteq fits[s] /\ (B = {} => fits[s] \intersect U = {})
    BY <2>2, <2>6 DEF candidates
  <2> QED  BY <2>7, <2>8
<1>2. CASE ~setup.patient
  <2> DEFINE nodes == {node, Existing} \union view.nodes
  <2>1. PICK B \in SUBSET U : o \in [place : [B -> nodes], seen : SUBSET B]
    BY <1>2 DEF Placements
  <2>2. nodes \subseteq Node
    BY NodesAreBound DEF ViewState
  <2> HIDE DEF nodes
  <2>3. o.place \in [B -> nodes] /\ o.seen \in SUBSET B
    BY <2>1
  <2>4. o.place \in [DOMAIN o.place -> Node] /\ DOMAIN o.place = B
    BY <2>2, <2>3
  <2> QED  BY <1>2, <2>3, <2>4
<1> QED  BY <1>1, <1>2

(* The two ways a run ends: with an error, and with pods placed.           *)
placeOver(b, place) == [p \in Pods |-> IF p \in DOMAIN place THEN place[p] ELSE b[p]]
ErrorRun(s) ==
  /\ views' = [views EXCEPT ![s] = CreateSandboxView(s)]
  /\ sims' = [sims EXCEPT ![s] = [state |-> sims[s].state, runs |-> sims[s].runs + 1]]
  /\ failed' = TRUE
GoodRun(s, place, seen, late) ==
  LET b == CreateSandboxView(s).bound
      node == NodeOf(s, sims[s].runs + 1) IN
  /\ place \in [DOMAIN place -> Node] /\ DOMAIN place \subseteq unbound(b)
  /\ seen \subseteq DOMAIN place
  /\ late \subseteq CreateSandboxView(s).missed
  /\ setup.patient =>
       /\ seen = DOMAIN place /\ late = {}
       /\ seen \subseteq fits[s]
       /\ \A p \in DOMAIN place : place[p] = node
       /\ seen = {} => fits[s] \intersect unbound(b) = {}
  /\ unbound(b) # {}
  /\ views' = [views EXCEPT ![s] =
       [created |-> TRUE, nodes |-> CreateSandboxView(s).nodes \union {node},
        bound |-> placeOver(b, place),
        missed |-> (CreateSandboxView(s).missed \ late) \union (DOMAIN place \ seen)]]
  /\ sims' = [sims EXCEPT ![s] =
       [state |-> [scaleOutNodes |-> sims[s].state.scaleOutNodes \union {node},
                   scheduled |-> sims[s].state.scheduled \union {<<place[p], p>> : p \in seen}
                                   \union {<<b[p], p>> : p \in late},
                   leftover |-> unbound(b) \ seen],
        runs |-> sims[s].runs + 1]]
  /\ failed' = failed

LEMMA RunOutcome ==
  ASSUME TypeOK, NEW s \in Sims, RunSimulation(s)
  PROVE  \/ ErrorRun(s) /\ unbound(CreateSandboxView(s).bound) = {}
         \/ \E place, seen, late : GoodRun(s, place, seen, late)
<1> DEFINE view == CreateSandboxView(s)
           U == unbound(view.bound)
           node == NodeOf(s, sims[s].runs + 1)
<1>1. view \in ViewState /\ view.created /\ view.bound \in [Pods -> Node \union {Unbound}]
  BY CreatedView DEF ViewState
<1>2. sims[s] \in [state : RunState, runs : Nat]
  BY DEF TypeOK
<1>3. node \in Node
  BY <1>2, NodesAreBound
<1>4. {p \in Pods : view.bound[p] = Unbound} = U
  BY DEF unbound
<1>5. CASE U = {}
  <2>1. failed' = TRUE /\ views' = [views EXCEPT ![s] = view]
        /\ sims' = [sims EXCEPT ![s].runs = sims[s].runs + 1]
    BY <1>4, <1>5 DEF RunSimulation
  <2>2. [sims[s] EXCEPT !.runs = sims[s].runs + 1]
          = [state |-> sims[s].state, runs |-> sims[s].runs + 1]
    BY <1>2
  <2> QED  BY <1>5, <2>1, <2>2 DEF ErrorRun
<1>6. CASE U # {}
  <2>1. PICK o \in Placements(s, node, view, U), late \in SUBSET view.missed :
          /\ views' = [views EXCEPT ![s] =
                     [created |-> TRUE,
                      nodes |-> view.nodes \union {node},
                      bound |-> [p \in Pods |->
                                   IF p \in DOMAIN o.place THEN o.place[p] ELSE view.bound[p]],
                      missed |-> (view.missed \ late) \union (DOMAIN o.place \ o.seen)]]
          /\ sims' = [sims EXCEPT ![s] =
                     [runs |-> sims[s].runs + 1,
                      state |-> [scaleOutNodes |-> sims[s].state.scaleOutNodes \union {node},
                                 scheduled |-> sims[s].state.scheduled
                                                 \union {<<o.place[p], p>> : p \in o.seen}
                                                 \union {<<view.bound[p], p>> : p \in late},
                                 leftover |-> U \ o.seen]]]
          /\ failed' = failed
    BY <1>4, <1>6 DEF RunSimulation
  <2>2. U \in SUBSET Pods
    BY DEF unbound
  <2>3. /\ DOMAIN o.place \subseteq U
        /\ o.seen \subseteq DOMAIN o.place
        /\ o.place \in [DOMAIN o.place -> Node]
        /\ setup.patient =>
              /\ o.seen = DOMAIN o.place
              /\ o.seen \subseteq fits[s]
              /\ \A p \in DOMAIN o.place : o.place[p] = node
              /\ o.seen = {} => fits[s] \intersect U = {}
    <3> HIDE DEF view, U, node
    <3> QED  BY <1>1, <1>3, <2>1, <2>2, PlacementFacts
  <2> DEFINE f == placeOver(view.bound, o.place)
             m == (view.missed \ late) \union (DOMAIN o.place \ o.seen)
  <2>4. f = [p \in Pods |-> IF p \in DOMAIN o.place THEN o.place[p] ELSE view.bound[p]]
    BY DEF placeOver
  <2>5. views' = [views EXCEPT ![s] = [created |-> TRUE, nodes |-> view.nodes \union {node},
                                       bound |-> f, missed |-> m]]
    BY <2>1, <2>4
  <2>6. sims' = [sims EXCEPT ![s] =
       [state |-> [scaleOutNodes |-> sims[s].state.scaleOutNodes \union {node},
                   scheduled |-> sims[s].state.scheduled \union {<<o.place[p], p>> : p \in o.seen}
                                   \union {<<view.bound[p], p>> : p \in late},
                   leftover |-> U \ o.seen],
        runs |-> sims[s].runs + 1]]
    BY <2>1
  <2>7. setup.patient => late = {}
    BY CreatedView
  <2>8. GoodRun(s, o.place, o.seen, late)
    BY <1>6, <2>1, <2>3, <2>5, <2>6, <2>7 DEF GoodRun
  <2> QED  BY <2>8
<1> QED  BY <1>5, <1>6

LEMMA FailedRun ==
  ASSUME TypeOK, NEW s \in Sims, FailSimulation(s)
  PROVE  ErrorRun(s)
<1>1. sims[s] \in [state : RunState, runs : Nat]
  BY DEF TypeOK
<1>2. [sims[s] EXCEPT !.runs = @ + 1] = [state |-> sims[s].state, runs |-> sims[s].runs + 1]
  BY <1>1
<1> QED  BY <1>2 DEF FailSimulation, ErrorRun

-----------------------------------------------------------------------------
(* Type correctness.                                                       *)

PlanRecord == [nodes : SUBSET Node, unsatisfied : SUBSET Pods]

LEMMA SimTypes ==
  ASSUME TypeOK, NEW s \in Sims
  PROVE  /\ views[s] \in ViewState /\ views[s].bound \in [Pods -> Node \union {Unbound}]
         /\ sims[s] \in [state : RunState, runs : Nat]
         /\ sims[s].runs \in Nat /\ sims[s].state \in RunState
         /\ sims[s].state.scaleOutNodes \subseteq Node
         /\ sims[s].state.scheduled \subseteq Node \X Pods
         /\ sims[s].state.leftover \subseteq Pods
BY DEF TypeOK, ViewState, RunState

LEMMA TypeInit == Init => TypeOK /\ RunsInGroup
<1> SUFFICES ASSUME Init  PROVE TypeOK /\ RunsInGroup
  OBVIOUS
<1>1. setup \in Setups /\ MaxCapacity \in Nat \ {0} /\ Groups \in Seq(SUBSET UNION {Groups[g] : g \in DOMAIN Groups})
  BY SimulatorAssumption DEF Init, Groups
<1>2. fits \in [Sims -> SUBSET Pods]
  BY DEF Init
<1>3. capacity \in [Sims -> 1..MaxCapacity]
  BY <1>1 DEF Init
<1>4. views \in [Sims -> ViewState] /\ \A s \in Sims : views[s].missed = {}
  <2>1. [created |-> FALSE, nodes |-> {}, bound |-> NoPods, missed |-> {}] \in ViewState
    BY NoPodsType DEF ViewState
  <2> QED  BY <2>1 DEF Init
<1>5. sims \in [Sims -> [state : RunState, runs : Nat]]
      /\ \A s \in Sims : sims[s].state.scaleOutNodes = {}
  <2>1. MakeRunState \in RunState /\ MakeRunState.scaleOutNodes = {}
    BY DEF MakeRunState, RunState
  <2> QED  BY <2>1 DEF Init
<1>6. IF Groups = <<>> THEN pc \in {"end", "closed"} ELSE groupIndex \in DOMAIN Groups
  <2>1. Groups # <<>> => 1 \in DOMAIN Groups
    BY <1>1
  <2> QED  BY <2>1 DEF Init
<1>7. cycle \in CycleResult /\ all \in CycleResult
  BY DEF Init, NoWinners, CycleResult
<1>8. sent \in Seq([nodes : SUBSET Node, unsatisfied : SUBSET Pods])
  BY DEF Init
<1>9. TypeOK
  BY <1>1, <1>2, <1>3, <1>4, <1>5, <1>6, <1>7, <1>8 DEF Init, TypeOK
<1> QED  BY <1>9 DEF Init, RunsInGroup

(* The parts of TypeOK that a step may disturb.                            *)
LEMMA TypeParts ==
  ASSUME TypeOK, UNCHANGED input,
         views' \in [Sims -> ViewState],
         \A s \in Sims : \A p \in views'[s].missed : views'[s].bound[p] # Unbound /\ ~setup.patient,
         sims' \in [Sims -> [state : RunState, runs : Nat]],
         \A s \in Sims : sims'[s].state.scaleOutNodes \subseteq {NodeOf(s, k) : k \in 1..sims'[s].runs},
         pc' \in {"pass", "run", "cycle", "end", "closed"},
         IF Groups = <<>> THEN pc' \in {"end", "closed"} ELSE groupIndex' \in DOMAIN Groups,
         passView' \in Sims \union {RequestView},
         running' \subseteq Sims, failed' \in BOOLEAN,
         cycle' \in CycleResult, all' \in CycleResult,
         sent' \in Seq(PlanRecord),
         err' \in {"none", "context done", "run failed", "scoring failed", "send failed",
                   "no scale-out plan"}
  PROVE  TypeOK'
BY SameInput DEF TypeOK, PlanRecord

LEMMA RunTypes ==
  ASSUME TypeOK, NEW s \in Sims, UNCHANGED input,
         ErrorRun(s) \/ \E place, seen, late : GoodRun(s, place, seen, late)
  PROVE  /\ views' \in [Sims -> ViewState]
         /\ \A t \in Sims : \A p \in views'[t].missed :
              views'[t].bound[p] # Unbound /\ ~setup.patient
         /\ sims' \in [Sims -> [state : RunState, runs : Nat]]
         /\ \A t \in Sims :
              sims'[t].state.scaleOutNodes \subseteq {NodeOf(t, k) : k \in 1..sims'[t].runs}
         /\ failed' \in BOOLEAN
<1>1. /\ views \in [Sims -> ViewState] /\ sims \in [Sims -> [state : RunState, runs : Nat]]
      /\ \A t \in Sims : \A p \in views[t].missed : views[t].bound[p] # Unbound /\ ~setup.patient
      /\ failed \in BOOLEAN
      /\ \A t \in Sims :
           sims[t].state.scaleOutNodes \subseteq {NodeOf(t, k) : k \in 1..sims[t].runs}
  BY DEF TypeOK
<1> DEFINE v == CreateSandboxView(s)  k1 == sims[s].runs + 1
<1>2. /\ v \in ViewState /\ v.bound \in [Pods -> Node \union {Unbound}]
      /\ \A p \in v.missed : p \in Pods /\ v.bound[p] # Unbound /\ ~setup.patient
  BY CreatedView DEF ViewState
<1>3. k1 \in Nat /\ k1 # 0 /\ sims[s].runs \in Nat
  BY <1>1
<1>4. \A k \in 1..sims[s].runs : k \in 1..k1
  BY <1>3
<1>5. k1 \in 1..k1
  BY <1>3
<1> HIDE DEF v, k1
<1>6. CASE ErrorRun(s)
  <2>1. views' = [views EXCEPT ![s] = v] /\ failed' = TRUE
        /\ sims' = [sims EXCEPT ![s] = [state |-> sims[s].state, runs |-> k1]]
    BY <1>6 DEF ErrorRun, v, k1
  <2>2. [state |-> sims[s].state, runs |-> k1] \in [state : RunState, runs : Nat]
    BY <1>3, SimTypes
  <2>3. sims' \in [Sims -> [state : RunState, runs : Nat]]
    BY <1>1, <2>1, <2>2
  <2>4. sims'[s].state.scaleOutNodes \subseteq {NodeOf(s, k) : k \in 1..sims'[s].runs}
    <3>1. sims'[s].state = sims[s].state /\ sims'[s].runs = k1
      BY <1>1, <2>1
    <3> QED  BY <1>1, <1>4, <3>1
  <2>5. \A t \in Sims : t # s => sims'[t] = sims[t] /\ views'[t] = views[t]
    BY <1>1, <2>1
  <2>6. views'[s] = v /\ views' \in [Sims -> ViewState]
    BY <1>1, <1>2, <2>1
  <2> QED  BY <1>1, <1>2, <2>1, <2>3, <2>4, <2>5, <2>6
<1>7. ASSUME NEW place, NEW seen, NEW late, GoodRun(s, place, seen, late)
      PROVE  /\ views' \in [Sims -> ViewState]
             /\ \A t \in Sims : \A p \in views'[t].missed :
                  views'[t].bound[p] # Unbound /\ ~setup.patient
             /\ sims' \in [Sims -> [state : RunState, runs : Nat]]
             /\ \A t \in Sims :
                  sims'[t].state.scaleOutNodes \subseteq {NodeOf(t, k) : k \in 1..sims'[t].runs}
             /\ failed' \in BOOLEAN
  <2> DEFINE st == [scaleOutNodes |-> sims[s].state.scaleOutNodes \union {NodeOf(s, k1)},
                    scheduled |-> sims[s].state.scheduled \union {<<place[p], p>> : p \in seen}
                                    \union {<<v.bound[p], p>> : p \in late},
                    leftover |-> unbound(v.bound) \ seen]
             w == placeOver(v.bound, place)
             m == (v.missed \ late) \union (DOMAIN place \ seen)
             N == v.nodes \union {NodeOf(s, k1)}
  <2>1. place \in [DOMAIN place -> Node] /\ DOMAIN place \subseteq Pods
        /\ seen \subseteq DOMAIN place /\ unbound(v.bound) \subseteq Pods
        /\ late \subseteq v.missed /\ (setup.patient => seen = DOMAIN place)
    BY <1>7 DEF GoodRun, unbound, v
  <2>2. w \in [Pods -> Node \union {Unbound}]
    BY <1>2, <2>1 DEF placeOver
  <2>3. views' = [views EXCEPT ![s] = [created |-> TRUE, nodes |-> N, bound |-> w, missed |-> m]]
        /\ failed' = failed
    BY <1>7 DEF GoodRun, v, k1
  <2>4. sims' = [sims EXCEPT ![s] = [state |-> st, runs |-> k1]]
    BY <1>7 DEF GoodRun, v, k1
  <2>5. st \in RunState
    <3>1. NodeOf(s, k1) \in Node
      BY <1>3, NodesAreBound
    <3>2. {<<place[p], p>> : p \in seen} \subseteq Node \X Pods
      BY <2>1
    <3>3. {<<v.bound[p], p>> : p \in late} \subseteq Node \X Pods
      BY <1>2, <2>1
    <3> QED  BY <2>1, <3>1, <3>2, <3>3, SimTypes DEF RunState
  <2>6. st.scaleOutNodes = sims[s].state.scaleOutNodes \union {NodeOf(s, k1)}
    OBVIOUS
  <2>m. /\ m \subseteq Pods
        /\ \A p \in m : w[p] # Unbound /\ ~setup.patient
    <3>1. \A p \in m : p \in v.missed \/ (p \in DOMAIN place /\ p \notin seen)
      OBVIOUS
    <3>2. \A p \in DOMAIN place : w[p] \in Node
      BY <2>1 DEF placeOver
    <3>3. \A p \in v.missed : w[p] = v.bound[p] \/ w[p] \in Node
      BY <1>2, <2>1 DEF placeOver
    <3> HIDE DEF m, w
    <3> QED  BY <1>2, <2>1, <3>1, <3>2, <3>3, NodesAreBound
  <2>n. N \subseteq Node
    BY <1>2, <1>3, NodesAreBound DEF ViewState
  <2> HIDE DEF st, w, m, N
  <2>7. /\ views' \in [Sims -> ViewState]
        /\ \A t \in Sims : \A p \in views'[t].missed :
             views'[t].bound[p] # Unbound /\ ~setup.patient
    <3>1. [created |-> TRUE, nodes |-> N, bound |-> w, missed |-> m] \in ViewState
      BY <2>2, <2>m, <2>n DEF ViewState
    <3>2. views'[s] = [created |-> TRUE, nodes |-> N, bound |-> w, missed |-> m]
          /\ \A t \in Sims : t # s => views'[t] = views[t]
      BY <1>1, <2>3
    <3> QED  BY <1>1, <2>3, <2>m, <3>1, <3>2
  <2>8. sims' \in [Sims -> [state : RunState, runs : Nat]]
    <3>1. [state |-> st, runs |-> k1] \in [state : RunState, runs : Nat]
      BY <1>3, <2>5
    <3> QED  BY <1>1, <2>4, <3>1
  <2>9. sims'[s].state.scaleOutNodes \subseteq {NodeOf(s, k) : k \in 1..sims'[s].runs}
    <3>1. sims'[s].state = st /\ sims'[s].runs = k1
      BY <1>1, <2>4
    <3> QED  BY <1>1, <1>4, <1>5, <2>6, <3>1
  <2>10. \A t \in Sims : t # s => sims'[t] = sims[t]
    BY <1>1, <2>4
  <2> QED  BY <1>1, <2>3, <2>7, <2>8, <2>9, <2>10
<1> QED  BY <1>6, <1>7

(* The group under way, and what its simulations may win with.             *)
LEMMA GroupType ==
  ASSUME TypeOK, pc \in {"pass", "run", "cycle"}
  PROVE  /\ Groups # <<>> /\ groupIndex \in DOMAIN Groups
         /\ group = Groups[groupIndex] /\ group \subseteq Sims
<1>1. Groups # <<>> /\ groupIndex \in DOMAIN Groups
  BY DEF TypeOK
<1> QED  BY <1>1, GroupSims DEF group

LEMMA WinnerType ==
  ASSUME TypeOK, pc = "run", NEW w \in WinnerScores
  PROVE  /\ w.sim \in group /\ w.sim \in Sims
         /\ w.node \in sims[w.sim].state.scaleOutNodes
         /\ \E a \in sims[w.sim].state.scheduled : a[1] = w.node /\ a[2] \in Pods
         /\ w.node \in Node /\ w.node[1] = w.sim
<1>1. PICK s \in group : w \in {[sim |-> s, node |-> a[1]] : a \in NodePodAssignments(s)}
  BY DEF WinnerScores
<1>2. PICK a \in NodePodAssignments(s) : w = [sim |-> s, node |-> a[1]]
  BY <1>1
<1>3. s \in Sims /\ w.sim = s /\ w.node = a[1]
  BY <1>2, GroupType
<1>4. a \in sims[s].state.scheduled /\ a[1] \in sims[s].state.scaleOutNodes
  BY <1>2 DEF NodePodAssignments
<1>5. a[2] \in Pods /\ a[1] \in Node
  BY <1>3, <1>4, SimTypes
<1>6. PICK k \in 1..sims[s].runs : a[1] = NodeOf(s, k)
  BY <1>3, <1>4 DEF TypeOK
<1>7. a[1][1] = s
  BY <1>6 DEF NodeOf
<1> QED  BY <1>3, <1>4, <1>5, <1>7

LEMMA PlanType ==
  ASSUME TypeOK, NEW r \in CycleResult
  PROVE  Plan(r) \in PlanRecord
BY DEF Plan, PlanRecord, CycleResult

LEMMA AppendType ==
  ASSUME NEW S, NEW q \in Seq(S), NEW x \in S
  PROVE  Append(q, x) \in Seq(S) /\ Len(Append(q, x)) = Len(q) + 1
         /\ Append(q, x)[Len(q) + 1] = x /\ \A i \in 1..Len(q) : Append(q, x)[i] = q[i]
OBVIOUS

LEMMA ResetRecord ==
  ASSUME NEW S, NEW r \in [state : S, runs : Nat], NEW x
  PROVE  [r EXCEPT !.state = x] = [state |-> x, runs |-> r.runs]
OBVIOUS

LEMMA TypeStep ==
  ASSUME TypeOK, RunsInGroup, [Next]_vars
  PROVE  TypeOK' /\ RunsInGroup'
<1> DEFINE Phases == {"pass", "run", "cycle", "end", "closed"}
           Errors == {"none", "context done", "run failed", "scoring failed", "send failed",
                      "no scale-out plan"}
<1>t. /\ views \in [Sims -> ViewState]
      /\ \A s \in Sims : \A p \in views[s].missed : views[s].bound[p] # Unbound /\ ~setup.patient
      /\ sims \in [Sims -> [state : RunState, runs : Nat]]
      /\ \A s \in Sims :
           sims[s].state.scaleOutNodes \subseteq {NodeOf(s, k) : k \in 1..sims[s].runs}
      /\ pc \in Phases /\ err \in Errors
      /\ Groups = <<>> => pc \in {"end", "closed"}
      /\ Groups # <<>> => groupIndex \in DOMAIN Groups
      /\ passView \in Sims \union {RequestView}
      /\ running \subseteq Sims /\ failed \in BOOLEAN
      /\ cycle \in CycleResult /\ all \in CycleResult
      /\ sent \in Seq(PlanRecord)
  BY DEF TypeOK, PlanRecord
<1>1. CASE UNCHANGED vars
  <2>1. UNCHANGED input
    BY <1>1 DEF vars, input
  <2>2. TypeOK'
    BY <1>1, <1>t, <2>1, TypeParts DEF vars
  <2> QED  BY <1>1, <2>1, <2>2, SameInput DEF vars, RunsInGroup, group
<1>2. CASE BeginPass
  <2>1. UNCHANGED input /\ pc = "pass" /\ pc' \in {"run", "closed"} /\ err' \in Errors
        /\ ((running' = group /\ pc' = "run") \/ running' = running)
    BY <1>2, <1>t DEF BeginPass, SendPlanError
  <2>2. group \subseteq Sims /\ Groups # <<>> /\ groupIndex \in DOMAIN Groups /\ running = {}
    BY <2>1, GroupType DEF RunsInGroup
  <2>3. TypeOK'
    BY <1>2, <1>t, <2>1, <2>2, TypeParts DEF BeginPass
  <2>4. group' = group
    BY <1>2, <2>1, SameInput DEF BeginPass, group
  <2> QED  BY <2>1, <2>2, <2>3, <2>4 DEF RunsInGroup
<1>3. CASE WinPass
  <2>1. PICK w \in WinnerScores :
          /\ cycle' = [winners |-> cycle.winners \union {w.node},
                       leftover |-> sims[w.sim].state.leftover]
          /\ passView' = w.sim
          /\ pc' \in {"cycle", "pass"}
    BY <1>3 DEF WinPass
  <2>2. pc = "run" /\ UNCHANGED input /\ running' = {}
    BY <1>3 DEF WinPass
  <2>3. w.sim \in Sims /\ w.node \in Node /\ group \subseteq Sims /\ Groups # <<>>
    BY <2>2, WinnerType, GroupType
  <2>4. cycle' \in CycleResult
    BY <1>t, <2>1, <2>3, SimTypes DEF CycleResult
  <2>5. /\ sims' \in [Sims -> [state : RunState, runs : Nat]]
        /\ \A s \in Sims :
             sims'[s].state.scaleOutNodes \subseteq {NodeOf(s, k) : k \in 1..sims'[s].runs}
    <3>1. sims' = [s \in Sims |-> IF s \in group THEN [sims[s] EXCEPT !.state = MakeRunState]
                                                 ELSE sims[s]]
      BY <1>3 DEF WinPass
    <3>2. MakeRunState \in RunState /\ MakeRunState.scaleOutNodes = {}
      BY DEF MakeRunState, RunState
    <3>3. \A s \in Sims : [sims[s] EXCEPT !.state = MakeRunState]
                           = [state |-> MakeRunState, runs |-> sims[s].runs]
      BY SimTypes, ResetRecord
    <3>4. ASSUME NEW s \in Sims
          PROVE  /\ sims'[s] \in [state : RunState, runs : Nat]
                 /\ sims'[s].state.scaleOutNodes \subseteq {NodeOf(s, k) : k \in 1..sims'[s].runs}
      <4>1. CASE s \in group
        <5>1. sims'[s] = [state |-> MakeRunState, runs |-> sims[s].runs]
          BY <3>1, <3>3, <4>1
        <5>2. sims[s].runs \in Nat
          BY SimTypes
        <5>3. sims'[s].state = MakeRunState
          BY <5>1
        <5>4. sims'[s] \in [state : RunState, runs : Nat]
          BY <3>2, <5>1, <5>2
        <5> QED  BY <3>2, <5>3, <5>4
      <4>2. CASE s \notin group
        BY <1>t, <3>1, <4>2
      <4> QED  BY <4>1, <4>2
    <3>5. sims' = [s \in Sims |-> sims'[s]]
      BY <3>1
    <3> QED  BY <3>4, <3>5
  <2>6. TypeOK'
    BY <1>3, <1>t, <2>1, <2>2, <2>3, <2>4, <2>5, TypeParts DEF WinPass
  <2> QED  BY <2>2, <2>6 DEF RunsInGroup
<1>4. CASE NoWinner \/ FailPass
  <2>1. /\ UNCHANGED <<input, views, sims, groupIndex, passView, running, failed, cycle, all, sent>>
        /\ running = {} /\ pc = "run" /\ pc' \in {"cycle", "closed"} /\ err' \in Errors
    BY <1>4, <1>t DEF NoWinner, FailPass, SendPlanError
  <2>2. TypeOK'
    BY <1>t, <2>1, TypeParts
  <2> QED  BY <2>1, <2>2 DEF RunsInGroup
<1>5. CASE EndCycle
  <2>1. /\ UNCHANGED <<input, views, sims, groupIndex, passView, running, failed>>
        /\ pc = "cycle" /\ pc' \in {"pass", "end", "closed"} /\ err' \in Errors
    BY <1>5, <1>t DEF EndCycle, SendPlanError
  <2>2. running = {} /\ Groups # <<>>
    BY <2>1, <1>t DEF RunsInGroup
  <2>3. cycle' \in CycleResult
    <3>1. NoWinners \in CycleResult
      BY DEF CycleResult, NoWinners
    <3> QED  BY <1>5, <1>t, <3>1 DEF EndCycle
  <2>4. all' \in CycleResult
    <3>1. [winners |-> all.winners \union cycle.winners, leftover |-> cycle.leftover] \in CycleResult
      BY <1>t DEF CycleResult
    <3> QED  BY <1>5, <1>t, <3>1 DEF EndCycle
  <2>5. sent' \in Seq(PlanRecord)
    <3>1. Plan(cycle) \in PlanRecord
      BY <1>t, PlanType
    <3>2. Append(sent, Plan(cycle)) \in Seq(PlanRecord)
      BY <1>t, <3>1, AppendType
    <3> QED  BY <1>5, <1>t, <3>2 DEF EndCycle
  <2>6. TypeOK'
    BY <1>t, <2>1, <2>2, <2>3, <2>4, <2>5, TypeParts
  <2> QED  BY <2>1, <2>2, <2>6 DEF RunsInGroup
<1>6. CASE EndCycleWithoutWinner
  <2>1. /\ UNCHANGED <<input, views, sims, passView, running, failed, all, sent, err>>
        /\ pc = "cycle" /\ cycle' = NoWinners
        /\ pc' \in {"pass", "end"}
        /\ groupIndex' = groupIndex \/ (groupIndex < Len(Groups) /\ groupIndex' = groupIndex + 1)
    BY <1>6 DEF EndCycleWithoutWinner
  <2>2. running = {} /\ Groups # <<>> /\ groupIndex \in DOMAIN Groups
    BY <2>1, <1>t DEF RunsInGroup
  <2>3. cycle' \in CycleResult
    BY <2>1 DEF CycleResult, NoWinners
  <2>4. groupIndex' \in DOMAIN Groups
    <3>1. DOMAIN Groups = 1..Len(Groups) /\ Len(Groups) \in Nat
      <4>1. Groups \in Seq(SUBSET UNION {Groups[g] : g \in DOMAIN Groups})
        BY SimulatorAssumption DEF Groups, TypeOK
      <4> DEFINE S == SUBSET UNION {Groups[g] : g \in DOMAIN Groups}
      <4> HIDE DEF S
      <4>2. Groups \in Seq(S)
        BY <4>1 DEF S
      <4> QED  BY <4>2
    <3> QED  BY <2>1, <2>2, <3>1
  <2>5. TypeOK'
    BY <1>t, <2>1, <2>2, <2>3, <2>4, TypeParts
  <2> QED  BY <2>1, <2>2, <2>5 DEF RunsInGroup
<1>7. CASE Finish
  <2>1. /\ UNCHANGED <<input, views, sims, groupIndex, passView, running, failed, cycle, all>>
        /\ pc = "end" /\ pc' = "closed" /\ err' \in Errors
        /\ sent' = sent \/ sent' = Append(sent, Plan(all))
    BY <1>7, <1>t DEF Finish, SendPlanError
  <2>2. sent' \in Seq(PlanRecord)
    <3>1. Plan(all) \in PlanRecord
      BY <1>t, PlanType
    <3>2. Append(sent, Plan(all)) \in Seq(PlanRecord)
      BY <1>t, <3>1, AppendType
    <3> QED  BY <1>t, <2>1, <3>2
  <2>3. TypeOK'
    BY <1>t, <2>1, <2>2, TypeParts
  <2>4. running = {}
    BY <2>1 DEF RunsInGroup
  <2> QED  BY <2>1, <2>3, <2>4 DEF RunsInGroup
<1>8. ASSUME NEW s \in Sims, RunSimulation(s) \/ FailSimulation(s)
      PROVE  TypeOK' /\ RunsInGroup'
  <2>1. ErrorRun(s) \/ \E place, seen, late : GoodRun(s, place, seen, late)
    BY <1>8, RunOutcome, FailedRun
  <2>2. /\ UNCHANGED <<input, pc, groupIndex, passView, cycle, all, sent, err>>
        /\ pc = "run" /\ running' = running \ {s} /\ s \in running
    BY <1>8 DEF RunSimulation, FailSimulation
  <2>3. UNCHANGED input
    BY <2>2
  <2>4. /\ views' \in [Sims -> ViewState]
        /\ \A t \in Sims : \A p \in views'[t].missed :
             views'[t].bound[p] # Unbound /\ ~setup.patient
        /\ sims' \in [Sims -> [state : RunState, runs : Nat]]
        /\ \A t \in Sims :
             sims'[t].state.scaleOutNodes \subseteq {NodeOf(t, k) : k \in 1..sims'[t].runs}
        /\ failed' \in BOOLEAN
    BY <2>1, <2>3, RunTypes
  <2>5. TypeOK'
    BY <1>t, <2>2, <2>4, TypeParts
  <2>6. group' = group
    BY <2>2, <2>3, SameInput DEF group
  <2> QED  BY <2>2, <2>5, <2>6 DEF RunsInGroup
<1> QED  BY <1>1, <1>2, <1>3, <1>4, <1>5, <1>6, <1>7, <1>8 DEF Next

-----------------------------------------------------------------------------
(* No plan asks for a node that stays empty.                               *)

LEMMA PlanNodesAppend ==
  ASSUME NEW r \in CycleResult, sent \in Seq(PlanRecord), sent' = Append(sent, Plan(r))
  PROVE  planNodes' = planNodes \union r.winners
<1>1. Plan(r) \in PlanRecord /\ Plan(r).nodes = r.winners
  BY DEF Plan, PlanRecord, CycleResult
<1>2. /\ DOMAIN sent = 1..Len(sent) /\ Len(sent) \in Nat
      /\ sent' \in Seq(PlanRecord) /\ Len(sent') = Len(sent) + 1
      /\ sent'[Len(sent) + 1] = Plan(r) /\ \A i \in 1..Len(sent) : sent'[i] = sent[i]
  BY <1>1, AppendType
<1>3. DOMAIN sent' = 1..(Len(sent) + 1)
  BY <1>2
<1>4. \A i \in DOMAIN sent' : i \in DOMAIN sent \/ i = Len(sent) + 1
  BY <1>2, <1>3
<1>5. Len(sent) + 1 \in DOMAIN sent' /\ \A i \in DOMAIN sent : i \in DOMAIN sent'
  BY <1>2, <1>3
<1>6. ASSUME NEW n  PROVE n \in planNodes' <=> n \in planNodes \union r.winners
  <2>1. n \in planNodes' <=> \E i \in DOMAIN sent' : n \in sent'[i].nodes
    BY DEF planNodes
  <2>2. n \in planNodes <=> \E i \in DOMAIN sent : n \in sent[i].nodes
    BY DEF planNodes
  <2> QED  BY <1>1, <1>2, <1>4, <1>5, <2>1, <2>2
<1> QED  BY <1>6

(* A run takes no pod from the node it is bound to.                        *)
LEMMA ViewsGrow ==
  ASSUME TypeOK, NEW s \in Sims, ErrorRun(s) \/ \E place, seen, late : GoodRun(s, place, seen, late),
         NEW t \in Sims, views[t].created
  PROVE  /\ views'[t].created
         /\ \A p \in Pods : views[t].bound[p] # Unbound => views'[t].bound[p] = views[t].bound[p]
<1>1. views \in [Sims -> ViewState]
  BY DEF TypeOK
<1>2. CASE t # s
  <2>1. views'[t] = views[t]
    BY <1>1, <1>2 DEF ErrorRun, GoodRun
  <2> QED  BY <2>1
<1>3. CASE t = s
  <2>1. CreateSandboxView(s) = views[s]
    BY <1>3, CreatedView
  <2>2. CASE ErrorRun(s)
    BY <1>1, <1>3, <2>1, <2>2 DEF ErrorRun
  <2>3. ASSUME NEW place, NEW seen, NEW late, GoodRun(s, place, seen, late)
        PROVE  /\ views'[s].created
               /\ \A p \in Pods : views[s].bound[p] # Unbound => views'[s].bound[p] = views[s].bound[p]
    <3>1. views'[s].created /\ views'[s].bound = placeOver(views[s].bound, place)
      BY <1>1, <2>1, <2>3 DEF GoodRun
    <3>2. DOMAIN place \subseteq unbound(views[s].bound)
      BY <2>1, <2>3 DEF GoodRun
    <3> QED  BY <3>1, <3>2 DEF placeOver, unbound
  <2> QED  BY <1>3, <2>2, <2>3
<1> QED  BY <1>2, <1>3

(* Steps that change no view and reset records at most.                    *)
LEMMA HoldStays ==
  ASSUME TypeOK, TypeOK', UNCHANGED input, views' = views, RecordsHold, WinnersHold,
         \A s \in Sims : sims'[s].state.scheduled \subseteq sims[s].state.scheduled,
         \A n \in winners' : n \in winners \/
            (n[1] \in Sims /\ views[n[1]].created /\ \E p \in Pods : views[n[1]].bound[p] = n)
  PROVE  RecordsHold' /\ WinnersHold'
<1>1. Sims' = Sims /\ Pods' = Pods
  BY SameInput
<1>2. RecordsHold'
  BY <1>1 DEF RecordsHold
<1>3. WinnersHold'
  BY <1>1 DEF WinnersHold
<1> QED  BY <1>2, <1>3

LEMMA HoldRun ==
  ASSUME TypeOK, UNCHANGED <<input, cycle, all, sent>>, RecordsHold, WinnersHold,
         NEW s \in Sims, ErrorRun(s) \/ \E place, seen, late : GoodRun(s, place, seen, late)
  PROVE  RecordsHold' /\ WinnersHold'
<1>1. Sims' = Sims /\ Pods' = Pods
  BY SameInput
<1>2. winners' = winners
  BY DEF winners, planNodes
<1>3. views \in [Sims -> ViewState] /\ sims \in [Sims -> [state : RunState, runs : Nat]]
      /\ winners \subseteq Node
  <2>1. planNodes \subseteq Node
    <3>1. sent \in Seq(PlanRecord)
      BY DEF TypeOK, PlanRecord
    <3>2. \A i \in DOMAIN sent : sent[i] \in PlanRecord
      BY <3>1
    <3> QED  BY <3>2 DEF planNodes, PlanRecord
  <2> QED  BY <2>1 DEF TypeOK, winners, CycleResult
<1>4. WinnersHold'
  <2>1. ASSUME NEW n \in winners
        PROVE  n[1] \in Sims /\ views'[n[1]].created /\ \E p \in Pods : views'[n[1]].bound[p] = n
    <3>1. PICK p \in Pods : n[1] \in Sims /\ views[n[1]].created /\ views[n[1]].bound[p] = n
      BY DEF WinnersHold
    <3>2. n # Unbound
      BY <1>3, NodesAreBound
    <3> QED  BY <3>1, <3>2, ViewsGrow
  <2> QED  BY <1>1, <1>2, <2>1 DEF WinnersHold
<1>5. ASSUME NEW t \in Sims, t # s
      PROVE  views'[t] = views[t] /\ sims'[t] = sims[t]
  BY <1>3, <1>5 DEF ErrorRun, GoodRun
<1>6. /\ ~views[s].created => sims[s].state.scheduled = {}
      /\ \A a \in sims[s].state.scheduled :
           views[s].bound[a[2]] = a[1] /\ a[2] \in Pods /\ a[1] # Unbound
  BY SimTypes, NodesAreBound DEF RecordsHold
<1>7. \A a \in sims[s].state.scheduled : views'[s].bound[a[2]] = a[1]
  BY <1>6, ViewsGrow
<1>8. views'[s].created /\ \A a \in sims'[s].state.scheduled : views'[s].bound[a[2]] = a[1]
  <2>1. CASE ErrorRun(s)
    <3>1. sims'[s] = [state |-> sims[s].state, runs |-> sims[s].runs + 1]
          /\ views'[s] = CreateSandboxView(s)
      BY <1>3, <2>1 DEF ErrorRun
    <3> QED  BY <1>7, <3>1, CreatedView
  <2>2. ASSUME NEW place, NEW seen, NEW late, GoodRun(s, place, seen, late)
        PROVE  views'[s].created /\ \A a \in sims'[s].state.scheduled : views'[s].bound[a[2]] = a[1]
    <3>1. views'[s].created /\ views'[s].bound = placeOver(CreateSandboxView(s).bound, place)
      BY <1>3, <2>2 DEF GoodRun
    <3>2. sims'[s].state.scheduled = sims[s].state.scheduled \union {<<place[p], p>> : p \in seen}
            \union {<<CreateSandboxView(s).bound[p], p>> : p \in late}
      <4> DEFINE old == sims[s].state.scheduled \union {<<place[p], p>> : p \in seen}
                          \union {<<CreateSandboxView(s).bound[p], p>> : p \in late}
      <4>1. \E x, y, z : sims' = [sims EXCEPT ![s] =
              [state |-> [scaleOutNodes |-> x, scheduled |-> old, leftover |-> y], runs |-> z]]
        BY <2>2 DEF GoodRun
      <4> HIDE DEF old
      <4>2. sims'[s].state.scheduled = old
        BY <1>3, <4>1
      <4> QED  BY <4>2 DEF old
    <3>3. seen \subseteq DOMAIN place /\ DOMAIN place \subseteq Pods
      BY <2>2 DEF GoodRun, unbound
    <3>4. \A p \in seen : views'[s].bound[p] = place[p]
      BY <3>1, <3>3 DEF placeOver
    <3>5. views'[s].created
      BY <3>1
    <3>6. \A p \in late : views'[s].bound[p] = CreateSandboxView(s).bound[p]
      <4>1. \A p \in late : p \in Pods /\ CreateSandboxView(s).bound[p] # Unbound
        BY <2>2, CreatedView DEF GoodRun
      <4>2. DOMAIN place \subseteq unbound(CreateSandboxView(s).bound)
        BY <2>2 DEF GoodRun
      <4> QED  BY <3>1, <4>1, <4>2 DEF placeOver, unbound
    <3> QED  BY <1>7, <3>2, <3>4, <3>5, <3>6
  <2> QED  BY <2>1, <2>2
<1>9. RecordsHold'
  <2>1. ASSUME NEW t \in Sims
        PROVE  /\ ~views'[t].created => sims'[t].state.scheduled = {}
               /\ \A a \in sims'[t].state.scheduled : views'[t].bound[a[2]] = a[1]
    BY <1>5, <1>8 DEF RecordsHold
  <2> QED  BY <1>1, <2>1 DEF RecordsHold
<1> QED  BY <1>4, <1>9

LEMMA HoldStep ==
  ASSUME SimInv, TypeOK', [Next]_vars
  PROVE  RecordsHold' /\ WinnersHold'
<1> USE DEF SimInv
<1>t. cycle \in CycleResult /\ all \in CycleResult /\ sent \in Seq(PlanRecord)
      /\ sims \in [Sims -> [state : RunState, runs : Nat]]
  BY DEF TypeOK, PlanRecord
<1>1. CASE \/ UNCHANGED vars \/ BeginPass \/ NoWinner \/ FailPass
  <2>1. UNCHANGED <<input, views, sims, cycle, all, sent>>
    BY <1>1 DEF vars, input, BeginPass, NoWinner, FailPass
  <2>2. winners' = winners
    BY <2>1 DEF winners, planNodes
  <2> QED  BY <2>1, <2>2, HoldStays
<1>2. CASE WinPass
  <2>1. PICK w \in WinnerScores : cycle'.winners = cycle.winners \union {w.node}
    BY <1>2 DEF WinPass
  <2>2. UNCHANGED <<input, views, all, sent>> /\ pc = "run"
    BY <1>2 DEF WinPass
  <2>3. winners' = winners \union {w.node}
    BY <2>1, <2>2 DEF winners, planNodes
  <2>4. w.sim \in Sims /\ w.node[1] = w.sim
    BY <2>2, WinnerType
  <2>5. PICK a \in sims[w.sim].state.scheduled : a[1] = w.node /\ a[2] \in Pods
    BY <2>2, WinnerType
  <2>6. views[w.sim].created /\ views[w.sim].bound[a[2]] = w.node
    BY <2>4, <2>5 DEF RecordsHold
  <2>7. \A s \in Sims : sims'[s].state.scheduled \subseteq sims[s].state.scheduled
    <3>1. sims' = [s \in Sims |-> IF s \in group THEN [sims[s] EXCEPT !.state = MakeRunState]
                                                 ELSE sims[s]]
      BY <1>2 DEF WinPass
    <3>2. MakeRunState.scheduled = {}
      BY DEF MakeRunState
    <3>3. \A s \in Sims : [sims[s] EXCEPT !.state = MakeRunState].state = MakeRunState
      BY <1>t
    <3> QED  BY <3>1, <3>2, <3>3
  <2> QED  BY <2>2, <2>3, <2>4, <2>5, <2>6, <2>7, HoldStays
<1>3. CASE EndCycle
  <2>1. /\ UNCHANGED <<input, views, sims>>
        /\ \/ /\ all' = [winners |-> all.winners \union cycle.winners, leftover |-> cycle.leftover]
              /\ sent' = Append(sent, Plan(cycle)) \/ sent' = sent
              /\ cycle' = NoWinners
           \/ UNCHANGED <<all, sent, cycle>>
    BY <1>3 DEF EndCycle
  <2>2. planNodes' = planNodes \/ planNodes' = planNodes \union cycle.winners
    BY <2>1, <1>t, PlanNodesAppend DEF planNodes
  <2>3. cycle'.winners \subseteq cycle.winners
    BY <2>1 DEF NoWinners
  <2>4. all'.winners \subseteq all.winners \union cycle.winners
    BY <2>1
  <2>5. winners' \subseteq winners
    BY <2>2, <2>3, <2>4 DEF winners
  <2> QED  BY <2>1, <2>5, HoldStays
<1>4. CASE EndCycleWithoutWinner
  <2>1. UNCHANGED <<input, views, sims, all, sent>> /\ cycle'.winners = {}
    BY <1>4 DEF EndCycleWithoutWinner, NoWinners
  <2>2. winners' \subseteq winners
    BY <2>1 DEF winners, planNodes
  <2> QED  BY <2>1, <2>2, HoldStays
<1>5. CASE Finish
  <2>1. /\ UNCHANGED <<input, views, sims, cycle, all>>
        /\ sent' = Append(sent, Plan(all)) \/ sent' = sent
    BY <1>5 DEF Finish
  <2>2. planNodes' = planNodes \/ planNodes' = planNodes \union all.winners
    BY <2>1, <1>t, PlanNodesAppend DEF planNodes
  <2>3. winners' \subseteq winners
    BY <2>1, <2>2 DEF winners
  <2> QED  BY <2>1, <2>3, HoldStays
<1>6. ASSUME NEW s \in Sims, RunSimulation(s) \/ FailSimulation(s)
      PROVE  RecordsHold' /\ WinnersHold'
  <2>1. ErrorRun(s) \/ \E place, seen, late : GoodRun(s, place, seen, late)
    BY <1>6, RunOutcome, FailedRun
  <2>2. UNCHANGED <<input, cycle, all, sent>>
    BY <1>6 DEF RunSimulation, FailSimulation
  <2> QED  BY <2>1, <2>2, HoldRun
<1> QED  BY <1>1, <1>2, <1>3, <1>4, <1>5, <1>6 DEF Next

(* The invariant for every setup, type correctness included.               *)
THEOREM SimulatorInvariant == Spec => []SimInv
<1>1. Init => SimInv
  <2> SUFFICES ASSUME Init  PROVE RecordsHold /\ WinnersHold
    BY TypeInit DEF SimInv
  <2>1. RecordsHold
    BY DEF Init, RecordsHold, MakeRunState
  <2>2. winners = {}
    BY DEF Init, winners, planNodes, NoWinners
  <2> QED  BY <2>1, <2>2 DEF WinnersHold
<1>2. SimInv /\ [Next]_vars => SimInv'
  BY TypeStep, HoldStep DEF SimInv
<1> QED  BY <1>1, <1>2, PTL DEF Spec

(* Each node of a plan, and each winner that will be in one, holds a pod   *)
(* in the view of the simulation that scaled it out: only simulations with *)
(* an assignment on a node of theirs are scored, and no run takes a pod    *)
(* from its node.                                                          *)
THEOREM PlansHaveNoIdleNode == Spec => []NoIdleNode
<1>1. SimInv => NoIdleNode
  BY DEF SimInv, WinnersHold, NoIdleNode, winners
<1> QED  BY <1>1, SimulatorInvariant, PTL

-----------------------------------------------------------------------------
(* Exact setups.                                                           *)

LEMMA SameExact ==
  ASSUME UNCHANGED input
  PROVE  isExact' <=> isExact
BY SameInput DEF isExact, oneEach

LEMMA GroupsSeq ==
  ASSUME setup \in Setups
  PROVE  DOMAIN Groups = 1..Len(Groups) /\ Len(Groups) \in Nat
<1> DEFINE S == SUBSET UNION {Groups[g] : g \in DOMAIN Groups}
<1>1. Groups \in Seq(S)
  BY SimulatorAssumption DEF Groups
<1> HIDE DEF S
<1> QED  BY <1>1

LEMMA GroupsDisjoint ==
  ASSUME setup \in Setups, NEW g \in DOMAIN Groups, NEW h \in DOMAIN Groups,
         NEW s \in Groups[g], s \in Groups[h]
  PROVE  g = h
BY SimulatorAssumption DEF Groups

LEMMA OneSim ==
  ASSUME setup \in Setups, isExact, NEW g \in DOMAIN Groups
  PROVE  \E s \in Sims : Groups[g] = {s}
<1>1. IsFiniteSet(Groups[g]) /\ Cardinality(Groups[g]) = 1
  BY SimulatorAssumption DEF Groups, isExact, oneEach
<1>2. \E s : Groups[g] = {s}
  BY <1>1, FS_Singleton
<1> QED  BY <1>2, GroupSims

LEMMA BindingsType ==
  ASSUME TypeOK
  PROVE  bindings(passView) \in [Pods -> Node \union {Unbound}]
<1>1. CASE passView = RequestView
  BY <1>1, NoPodsType DEF bindings
<1>2. CASE passView # RequestView
  <2>1. passView \in Sims
    BY <1>2 DEF TypeOK
  <2> QED  BY <1>2, <2>1, SimTypes DEF bindings
<1> QED  BY <1>1, <1>2

(* The parts of the exact invariant after a step, about the bindings b     *)
(* that the view of the next pass then shows.                              *)
LEMMA BetweenParts ==
  ASSUME UNCHANGED input, NEW b, b = bindings(passView)',
         Ordered(b), Exhausted(b, groupIndex' - 1),
         \A p \in Pods : b[p] = Unbound \/ b[p] \in all'.winners \union cycle'.winners,
         cycle'.winners # {} => cycle'.leftover = unbound(b),
         cycle'.winners = {} /\ all'.winners # {} => all'.leftover = unbound(b),
         pc' \in {"pass", "run"} \/ (pc' = "cycle" /\ cycle'.winners = {}) => unbound(b) # {},
         pc' \in {"cycle", "end", "closed"} => Exhausted(b, groupIndex'),
         pc' \in {"pass", "cycle"} \/ running' # {} => \A s \in Groups[groupIndex'] :
            sims'[s].state.scheduled = {} /\ (views'[s].created => views'[s].bound = b)
  PROVE  BetweenRuns'
BY SameInput DEF BetweenRuns, Settled, Ordered, Exhausted, unbound, group

LEMMA AfterParts ==
  ASSUME UNCHANGED input, NEW s, NEW b, b = views'[s].bound,
         NEW state, state = sims'[s].state,
         views'[s].created,
         Ordered(b), Exhausted(b, groupIndex' - 1), state.leftover = unbound(b),
         NodeOf(s, sims'[s].runs) \in state.scaleOutNodes,
         \A a \in state.scheduled : a[1] = NodeOf(s, sims'[s].runs),
         \A p \in Pods : \/ b[p] = Unbound
                         \/ b[p] \in all'.winners \union cycle'.winners
                         \/ <<b[p], p>> \in state.scheduled,
         state.scheduled = {} =>
           /\ bindings(passView)' = b
           /\ \A p \in Pods : b[p] = Unbound \/ b[p] \in all'.winners \union cycle'.winners
           /\ cycle'.winners # {} => cycle'.leftover = unbound(b)
           /\ cycle'.winners = {} /\ all'.winners # {} => all'.leftover = unbound(b)
           /\ unbound(b) # {} /\ Exhausted(b, groupIndex')
  PROVE  AfterRun(s)'
BY SameInput DEF AfterRun, Settled, Ordered, Exhausted, unbound, NodeOf

(* The run of the current group's simulation places pods over the bindings *)
(* that the last winner left.                                              *)
LEMMA ExactRun ==
  ASSUME TypeOK, isExact, ExactInv, NEW s \in Sims, RunSimulation(s)
  PROVE  group = {s} /\ AfterRun(s)' /\ failed' = failed
         /\ \A t \in Sims : t # s => views'[t] = views[t] /\ sims'[t] = sims[t]
<1> DEFINE b == bindings(passView)
           node == NodeOf(s, sims[s].runs + 1)
<1>1. /\ pc = "run" /\ s \in running /\ UNCHANGED <<passView, groupIndex, cycle, all>>
      /\ UNCHANGED input /\ running # {}
  BY DEF RunSimulation
<1>2. groupIndex \in DOMAIN Groups /\ group = Groups[groupIndex] /\ setup \in Setups
  BY <1>1, GroupType DEF TypeOK
<1>3. group = {s}
  <2>1. running = group
    BY <1>1 DEF ExactInv
  <2> QED  BY <1>1, <1>2, <2>1, OneSim
<1>4. /\ Settled(b) /\ Ordered(b) /\ Exhausted(b, groupIndex - 1) /\ unbound(b) # {}
      /\ sims[s].state.scheduled = {}
      /\ views[s].created => views[s].bound = b
  BY <1>1, <1>3 DEF ExactInv, BetweenRuns
<1>5. CreateSandboxView(s).bound = b
  BY <1>4, CreatedView
<1>6. b \in [Pods -> Node \union {Unbound}]
  BY BindingsType
<1>7. PICK place, seen, late : GoodRun(s, place, seen, late)
  BY <1>4, <1>5, RunOutcome
<1> DEFINE v == placeOver(b, place)
<1>8. /\ place \in [DOMAIN place -> Node] /\ DOMAIN place \subseteq unbound(b)
      /\ seen = DOMAIN place /\ seen \subseteq fits[s] /\ late = {}
      /\ \A p \in DOMAIN place : place[p] = node
      /\ seen = {} => fits[s] \intersect unbound(b) = {}
      /\ failed' = failed
  BY <1>5, <1>7 DEF GoodRun, isExact
<1> DEFINE m == (CreateSandboxView(s).missed \ late) \union (DOMAIN place \ seen)
<1>9. /\ views' = [views EXCEPT ![s] =
          [created |-> TRUE, nodes |-> CreateSandboxView(s).nodes \union {node},
           bound |-> v, missed |-> m]]
      /\ sims' = [sims EXCEPT ![s] =
          [state |-> [scaleOutNodes |-> sims[s].state.scaleOutNodes \union {node},
                      scheduled |-> sims[s].state.scheduled \union {<<place[p], p>> : p \in seen}
                                      \union {<<b[p], p>> : p \in late},
                      leftover |-> unbound(b) \ seen],
           runs |-> sims[s].runs + 1]]
  BY <1>5, <1>7 DEF GoodRun
<1>10. views \in [Sims -> ViewState] /\ sims \in [Sims -> [state : RunState, runs : Nat]]
  BY DEF TypeOK
<1> DEFINE state == sims'[s].state
<1>11. /\ views'[s].created /\ views'[s].bound = v
       /\ sims'[s].runs = sims[s].runs + 1
       /\ state.scaleOutNodes = sims[s].state.scaleOutNodes \union {node}
       /\ state.leftover = unbound(b) \ seen
       /\ state.scheduled = {<<place[p], p>> : p \in seen}
  <2> HIDE DEF v, node, b, m
  <2>1. {} \union {<<place[p], p>> : p \in seen} \union {<<b[p], p>> : p \in late}
          = {<<place[p], p>> : p \in seen}
    BY <1>8
  <2> QED  BY <1>4, <1>9, <1>10, <2>1
<1>12. \A t \in Sims : t # s => views'[t] = views[t] /\ sims'[t] = sims[t]
  BY <1>9, <1>10
<1>13. node \in Node /\ node[1] = s /\ node # Unbound
  BY SimTypes, NodesAreBound
<1> HIDE DEF b, node, state
<1>14. \A p \in Pods : v[p] = IF p \in seen THEN node ELSE b[p]
  BY <1>8 DEF placeOver
<1>15. seen \subseteq Pods /\ \A p \in seen : b[p] = Unbound
  BY <1>8 DEF unbound
<1> HIDE DEF v
<1>16. unbound(v) = unbound(b) \ seen
  BY <1>13, <1>14 DEF unbound
<1>17. Exhausted(v, groupIndex - 1)
  BY <1>4, <1>16 DEF Exhausted
<1>18. Ordered(v)
  <2> SUFFICES ASSUME NEW g \in DOMAIN Groups, NEW h \in DOMAIN Groups, g < h,
                      NEW t \in Groups[g], NEW r \in Groups[h], NEW p \in Pods,
                      v[p] # Unbound, v[p][1] = r
               PROVE  p \notin fits[t]
    BY DEF Ordered
  <2>1. CASE p \notin seen
    BY <1>4, <1>14, <2>1 DEF Ordered
  <2>2. CASE p \in seen
    <3>1. r = s
      BY <1>13, <1>14, <2>2
    <3>2. h = groupIndex
      BY <1>2, <1>3, <3>1, GroupsDisjoint
    <3>3. g <= groupIndex - 1
      BY <3>2, <1>2, GroupsSeq
    <3>4. p \in unbound(b)
      BY <1>15, <2>2 DEF unbound
    <3> QED  BY <1>4, <3>3, <3>4 DEF Exhausted
  <2> QED  BY <2>1, <2>2
<1>19. \A a \in state.scheduled : a[1] = NodeOf(s, sims'[s].runs)
  BY <1>8, <1>11 DEF node
<1>20. NodeOf(s, sims'[s].runs) \in state.scaleOutNodes
  BY <1>11 DEF node
<1>21. \A p \in Pods : \/ v[p] = Unbound
                       \/ v[p] \in all'.winners \union cycle'.winners
                       \/ <<v[p], p>> \in state.scheduled
  <2>1. \A p \in seen : <<v[p], p>> \in state.scheduled
    <3>1. \A p \in seen : v[p] = place[p]
      BY <1>8, <1>14, <1>15
    <3> QED  BY <1>11, <3>1
  <2>2. \A p \in Pods \ seen : v[p] = Unbound \/ v[p] \in all'.winners \union cycle'.winners
    BY <1>1, <1>4, <1>14 DEF Settled
  <2> QED  BY <2>1, <2>2
<1>22. ASSUME state.scheduled = {}
       PROVE  /\ bindings(passView)' = v
              /\ \A p \in Pods : v[p] = Unbound \/ v[p] \in all'.winners \union cycle'.winners
              /\ cycle'.winners # {} => cycle'.leftover = unbound(v)
              /\ cycle'.winners = {} /\ all'.winners # {} => all'.leftover = unbound(v)
              /\ unbound(v) # {} /\ Exhausted(v, groupIndex')
  <2>1. seen = {}
    BY <1>11, <1>22
  <2>2. v = b
    <3>1. v = [p \in Pods |-> v[p]]
      BY DEF v, placeOver
    <3> QED  BY <1>6, <1>14, <2>1, <3>1
  <2>3. bindings(passView)' = b
    <3>1. CASE passView = RequestView
      BY <1>1, <3>1, SameInput DEF bindings, b
    <3>2. CASE passView # RequestView /\ passView = s
      BY <1>1, <1>11, <2>2, <3>2 DEF bindings
    <3>3. CASE passView # RequestView /\ passView # s
      BY <1>1, <1>12, <3>3 DEF bindings, b, TypeOK
    <3> QED  BY <3>1, <3>2, <3>3
  <2>4. Exhausted(b, groupIndex)
    <3> SUFFICES ASSUME NEW g \in DOMAIN Groups, g <= groupIndex, NEW t \in Groups[g]
                 PROVE  fits[t] \intersect unbound(b) = {}
      BY DEF Exhausted
    <3>1. CASE g = groupIndex
      BY <1>2, <1>3, <1>8, <2>1, <3>1
    <3>2. CASE g # groupIndex
      <4>1. g <= groupIndex - 1
        BY <1>2, <3>2, GroupsSeq
      <4> QED  BY <1>4, <4>1 DEF Exhausted
    <3> QED  BY <3>1, <3>2
  <2> QED  BY <1>1, <1>4, <2>2, <2>3, <2>4 DEF Settled
<1>23. AfterRun(s)'
  <2>1. Exhausted(v, groupIndex' - 1) /\ state.leftover = unbound(v) /\ v = views'[s].bound
    BY <1>1, <1>11, <1>16, <1>17
  <2> QED  BY <1>1, <1>11, <1>18, <1>19, <1>20, <1>21, <1>22, <2>1, AfterParts DEF state
<1> QED  BY <1>3, <1>8, <1>12, <1>23

LEMMA LastPlan ==
  ASSUME NEW r \in CycleResult, sent \in Seq(PlanRecord), sent' = Append(sent, Plan(r))
  PROVE  unsatisfied' = r.leftover
<1>1. Plan(r) \in PlanRecord /\ Plan(r).unsatisfied = r.leftover
  BY DEF Plan, PlanRecord, CycleResult
<1>2. /\ sent' \in Seq(PlanRecord) /\ Len(sent') = Len(sent) + 1 /\ Len(sent) \in Nat
      /\ sent'[Len(sent')] = Plan(r)
  BY <1>1, AppendType
<1>3. sent' # <<>>
  BY <1>2
<1> QED  BY <1>1, <1>2, <1>3 DEF unsatisfied

LEMMA NoPlan ==
  ASSUME sent = <<>>
  PROVE  planNodes = {} /\ unsatisfied = Pods
BY DEF planNodes, unsatisfied

LEMMA SentStep ==
  ASSUME TypeOK, isExact, ~failed, SentInv, [Next]_vars
  PROVE  SentInv'
<1>t. cycle \in CycleResult /\ all \in CycleResult /\ sent \in Seq(PlanRecord)
      /\ mode \in {"Incremental", "AllAtOnce"}
  BY SimulatorAssumption DEF TypeOK, PlanRecord
<1>1. CASE UNCHANGED <<input, all, sent>> /\ pc' # "closed" /\ pc # "closed"
  BY <1>1, SameInput DEF SentInv, planNodes, unsatisfied
<1>2. CASE UNCHANGED vars
  BY <1>2, SameInput DEF SentInv, planNodes, unsatisfied, vars, input
<1>3. CASE EndCycle
  <2>1. /\ cycle.winners # {} /\ pc = "cycle" /\ UNCHANGED input /\ mode' = mode
        /\ all' = [winners |-> all.winners \union cycle.winners, leftover |-> cycle.leftover]
        /\ sent' = IF mode = "Incremental" THEN Append(sent, Plan(cycle)) ELSE sent
        /\ pc' # "closed"
    BY <1>3, SameInput DEF EndCycle, isExact
  <2>2. CASE mode = "Incremental"
    <3>1. planNodes' = planNodes \union cycle.winners /\ unsatisfied' = cycle.leftover
      BY <1>t, <2>1, <2>2, PlanNodesAppend, LastPlan
    <3>2. all'.winners = all.winners \union cycle.winners /\ all'.leftover = cycle.leftover
      BY <2>1
    <3> QED  BY <2>1, <2>2, <3>1, <3>2 DEF SentInv
  <2>3. CASE mode = "AllAtOnce"
    BY <2>1, <2>3 DEF SentInv
  <2> QED  BY <1>t, <2>2, <2>3
<1>4. CASE Finish
  <2>1. pc = "end" /\ pc' = "closed" /\ UNCHANGED input /\ mode' = mode /\ all' = all /\ Pods' = Pods
    BY <1>4, SameInput DEF Finish, SendPlanError
  <2>2. CASE mode = "Incremental"
    <3>1. sent' = sent
      BY <1>4, <2>2 DEF Finish
    <3>2. planNodes' = planNodes /\ unsatisfied' = unsatisfied
      BY <2>1, <3>1 DEF planNodes, unsatisfied
    <3> QED  BY <2>1, <2>2, <3>2 DEF SentInv
  <2>3. CASE mode = "AllAtOnce" /\ all.winners = {}
    <3>1. sent' = sent /\ sent = <<>>
      BY <1>4, <2>1, <2>3 DEF Finish, SentInv
    <3>2. planNodes' = planNodes /\ unsatisfied' = unsatisfied
      BY <2>1, <3>1 DEF planNodes, unsatisfied
    <3>3. planNodes = {} /\ unsatisfied = Pods
      BY <3>1, NoPlan
    <3> QED  BY <2>1, <2>3, <3>2, <3>3 DEF SentInv
  <2>4. CASE mode = "AllAtOnce" /\ all.winners # {}
    <3>1. sent' = Append(sent, Plan(all)) /\ sent = <<>>
      BY <1>4, <2>1, <2>4 DEF Finish, SentInv, isExact
    <3>2. planNodes' = planNodes \union all.winners /\ unsatisfied' = all.leftover
      BY <1>t, <3>1, PlanNodesAppend, LastPlan
    <3>3. planNodes = {}
      BY <3>1, NoPlan
    <3> QED  BY <2>1, <2>4, <3>2, <3>3 DEF SentInv
  <2> QED  BY <1>t, <2>2, <2>3, <2>4
<1>5. CASE BeginPass \/ WinPass \/ NoWinner \/ EndCycleWithoutWinner
  BY <1>1, <1>5 DEF BeginPass, WinPass, NoWinner, EndCycleWithoutWinner, isExact
<1>6. ~FailPass
  BY DEF FailPass, isExact
<1>7. ASSUME NEW s \in Sims, RunSimulation(s) \/ FailSimulation(s)
      PROVE  SentInv'
  BY <1>1, <1>7 DEF RunSimulation, FailSimulation
<1> QED  BY <1>2, <1>3, <1>4, <1>5, <1>6, <1>7 DEF Next

LEMMA ExactInit == Init /\ isExact => ExactInv
<1> SUFFICES ASSUME Init, isExact  PROVE ExactInv
  OBVIOUS
<1>1. TypeOK
  BY TypeInit
<1>2. \A s \in Sims : ~views[s].created /\ sims[s].state.scheduled = {}
  BY DEF Init, MakeRunState
<1>3. bindings(passView) = NoPods /\ unbound(NoPods) = Pods /\ Pods # {}
  BY <1>1, SimulatorAssumption DEF Init, bindings, unbound, NoPods, Pods
<1>4. cycle.winners = {} /\ all.winners = {} /\ sent = <<>> /\ running = {} /\ groupIndex = 1
      /\ pc \in {"pass", "end"} /\ (pc = "end" => Groups = <<>>)
  BY DEF Init, NoWinners
<1>5. DOMAIN Groups = 1..Len(Groups) /\ Len(Groups) \in Nat
  BY <1>1, GroupsSeq DEF TypeOK
<1>6. Ordered(NoPods)
  BY DEF Ordered, NoPods
<1>7. Exhausted(NoPods, groupIndex - 1)
  BY <1>4, <1>5 DEF Exhausted
<1>8. Settled(NoPods)
  BY <1>4 DEF Settled, NoPods
<1>9. pc = "end" => Exhausted(NoPods, groupIndex) /\ groupIndex >= Len(Groups)
  <2>1. Groups = <<>> => Len(Groups) = 0
    OBVIOUS
  <2> QED  BY <1>4, <1>5, <2>1 DEF Exhausted
<1>10. pc = "pass" => group \subseteq Sims
  BY <1>1, GroupType
<1>11. BetweenRuns
  <2> DEFINE b == bindings(passView)
  <2>1. Settled(b) /\ Ordered(b) /\ Exhausted(b, groupIndex - 1) /\ unbound(b) # {}
        /\ (pc = "end" => Exhausted(b, groupIndex))
    BY <1>3, <1>6, <1>7, <1>8, <1>9
  <2> HIDE DEF b
  <2>2. pc \in {"pass", "cycle"} \/ running # {} => \A s \in group :
          sims[s].state.scheduled = {} /\ (views[s].created => views[s].bound = b)
    BY <1>2, <1>4, <1>10
  <2> QED  BY <1>4, <2>1, <2>2 DEF BetweenRuns, b
<1>12. SentInv
  <2>1. planNodes = {} /\ unsatisfied = Pods
    BY <1>4, NoPlan
  <2> QED  BY <1>4, <2>1 DEF SentInv
<1>13. \A h \in DOMAIN Groups : h > groupIndex =>
         \A s \in Groups[h] : ~views[s].created /\ sims[s].state.scheduled = {}
  BY <1>2, GroupSims
<1>14. ~failed /\ err = "none"
  BY DEF Init
<1> QED  BY <1>4, <1>9, <1>11, <1>12, <1>13, <1>14 DEF ExactInv

LEMMA ExactStep ==
  ASSUME TypeOK, RunsInGroup, isExact, ExactInv, [Next]_vars
  PROVE  ExactInv'
<1> DEFINE b == bindings(passView)
           Later == \A h \in DOMAIN Groups : h > groupIndex =>
                      \A s \in Groups[h] : ~views[s].created /\ sims[s].state.scheduled = {}
<1>t. /\ ~failed /\ err \in {"none", "no scale-out plan"} /\ (running # {} => running = group)
      /\ Later /\ SentInv /\ ~setup.faults /\ setup \in Setups
      /\ pc \in {"pass", "run", "cycle", "end", "closed"}
  BY DEF ExactInv, isExact, TypeOK
<1>s. SentInv'
  BY <1>t, SentStep
<1>g. /\ DOMAIN Groups = 1..Len(Groups) /\ Len(Groups) \in Nat
      /\ pc \in {"pass", "run", "cycle"} =>
           /\ groupIndex \in DOMAIN Groups /\ groupIndex \in Nat
           /\ group = Groups[groupIndex] /\ group # {} /\ group \subseteq Sims
  <2>1. DOMAIN Groups = 1..Len(Groups) /\ Len(Groups) \in Nat
    BY <1>t, GroupsSeq
  <2>2. ASSUME pc \in {"pass", "run", "cycle"}
        PROVE  groupIndex \in DOMAIN Groups /\ group = Groups[groupIndex] /\ group # {}
               /\ group \subseteq Sims
    BY <1>t, <2>2, GroupType, SimulatorAssumption DEF Groups
  <2> QED  BY <2>1, <2>2
<1>x. pc \in {"pass", "run", "cycle"} =>
        RequestView \notin group /\ \E s \in Sims : group = {s}
  <2> SUFFICES ASSUME pc \in {"pass", "run", "cycle"}
               PROVE  RequestView \notin group /\ \E s \in Sims : group = {s}
    OBVIOUS
  <2>1. groupIndex \in DOMAIN Groups /\ group = Groups[groupIndex]
    BY <1>g
  <2>2. RequestView \notin group
    BY <1>t, <2>1, SimulatorAssumption DEF Groups
  <2> QED  BY <1>t, <2>1, <2>2, OneSim
<1> HIDE DEF Later
<1>b. ASSUME UNCHANGED <<input, views, passView>>
      PROVE  bindings(passView)' = b
  BY <1>b, SameInput DEF bindings
<1>1. CASE UNCHANGED vars
  <2>1. UNCHANGED <<input, views, sims, pc, groupIndex, passView, running, failed, cycle, all, sent, err>>
    BY <1>1 DEF vars, input
  <2>2. UNCHANGED <<Groups, Pods, NoPods, fits, group>>
    BY <2>1, SameInput DEF group
  <2>3. BetweenRuns => BetweenRuns'
    BY <2>1, <2>2 DEF BetweenRuns, Settled, Ordered, Exhausted, unbound, bindings
  <2>4. \A s \in group : AfterRun(s) => AfterRun(s)'
    BY <2>1, <2>2 DEF AfterRun, Settled, Ordered, Exhausted, unbound, bindings, NodeOf
  <2>5. unbound(bindings(passView))' = unbound(bindings(passView))
    BY <2>1, <2>2 DEF unbound, bindings
  <2> QED  BY <1>s, <2>1, <2>2, <2>3, <2>4, <2>5 DEF ExactInv
<1>2. CASE BeginPass
  <2>1. /\ pc = "pass" /\ pc' = "run" /\ running' = group /\ err' = err /\ UNCHANGED input
        /\ UNCHANGED <<views, sims, groupIndex, passView, failed, cycle, all>>
    BY <1>2, <1>t DEF BeginPass
  <2>2. /\ Settled(b) /\ Ordered(b) /\ Exhausted(b, groupIndex - 1) /\ unbound(b) # {}
        /\ \A s \in group : sims[s].state.scheduled = {} /\ (views[s].created => views[s].bound = b)
    BY <2>1 DEF ExactInv, BetweenRuns
  <2>3. b = bindings(passView)'
    BY <1>b, <2>1
  <2> HIDE DEF b
  <2>4. BetweenRuns'
    BY <1>g, <2>1, <2>2, <2>3, BetweenParts DEF Settled
  <2>5. Later' /\ group' = group
    BY <1>t, <2>1, SameInput DEF Later, group
  <2> QED  BY <1>g, <1>s, <1>t, <2>1, <2>4, <2>5 DEF ExactInv, Later
<1>3. CASE WinPass
  <2>1. PICK w \in WinnerScores :
          /\ cycle' = [winners |-> cycle.winners \union {w.node},
                       leftover |-> sims[w.sim].state.leftover]
          /\ passView' = w.sim
          /\ pc' = IF sims[w.sim].state.leftover = {} THEN "cycle" ELSE "pass"
    BY <1>3 DEF WinPass
  <2>2. /\ pc = "run" /\ running = {} /\ UNCHANGED input
        /\ UNCHANGED <<views, groupIndex, running, failed, all, err>>
        /\ sims' = [s \in Sims |-> IF s \in group THEN [sims[s] EXCEPT !.state = MakeRunState]
                                                   ELSE sims[s]]
    BY <1>3 DEF WinPass
  <2> DEFINE s == w.sim  v == views[s].bound
  <2>3. s \in group /\ s \in Sims
        /\ \E a \in sims[s].state.scheduled : a[1] = w.node /\ a[2] \in Pods
    BY <2>2, WinnerType
  <2>4. AfterRun(s)
    BY <2>2, <2>3 DEF ExactInv
  <2>5. group = {s}
    <3>1. PICK r \in Sims : group = {r}
      BY <1>x, <2>2
    <3> QED  BY <2>3, <3>1
  <2>6. /\ Ordered(v) /\ Exhausted(v, groupIndex - 1)
        /\ sims[s].state.leftover = unbound(v)
        /\ \A p \in Pods : \/ v[p] = Unbound
                            \/ v[p] \in all.winners \union cycle.winners
                            \/ v[p] = w.node
    <3>1. \A a \in sims[s].state.scheduled : a[1] = w.node
      BY <2>3, <2>4 DEF AfterRun
    <3>2. \A p \in Pods : <<v[p], p>> \in sims[s].state.scheduled => v[p] = w.node
      BY <3>1
    <3> QED  BY <2>4, <3>2 DEF AfterRun
  <2> HIDE DEF s, v
  <2>7. bindings(passView)' = v
    <3>1. passView' # RequestView => bindings(passView)' = v
      BY <2>1, <2>2 DEF bindings, s, v
    <3>2. passView' = s
      BY <2>1 DEF s
    <3>3. RequestView \notin group
      BY <1>x, <2>2
    <3> QED  BY <2>3, <3>1, <3>2, <3>3
  <2>8. /\ cycle'.winners = cycle.winners \union {w.node} /\ cycle'.leftover = unbound(v)
        /\ pc' \in {"pass", "cycle"} /\ (pc' = "pass" <=> unbound(v) # {})
    BY <2>1, <2>6 DEF s
  <2>9. \A r \in group : sims'[r].state.scheduled = {} /\ (views'[r].created => views'[r].bound = v)
    <3>1. [sims[s] EXCEPT !.state = MakeRunState] = [state |-> MakeRunState, runs |-> sims[s].runs]
      BY <2>3, SimTypes, ResetRecord
    <3>2. sims'[s].state = MakeRunState
      BY <2>2, <2>3, <3>1
    <3> QED  BY <2>2, <2>5, <3>2 DEF MakeRunState, v
  <2>10. Exhausted(v, groupIndex - 1) /\ (pc' = "cycle" => Exhausted(v, groupIndex))
    BY <2>6, <2>8 DEF Exhausted
  <2>11. BetweenRuns'
    BY <1>g, <2>2, <2>6, <2>7, <2>8, <2>9, <2>10, BetweenParts
  <2>12. Later'
    <3>1. ASSUME NEW h \in DOMAIN Groups, h > groupIndex, NEW r \in Groups[h]
          PROVE  views'[r] = views[r] /\ sims'[r] = sims[r]
      <4>1. groupIndex # h
        BY <1>g, <2>2, <3>1
      <4>2. r \notin group /\ r \in Sims
        BY <1>g, <1>t, <2>2, <4>1, GroupsDisjoint, GroupSims
      <4> QED  BY <2>2, <4>2
    <3> QED  BY <1>t, <2>2, <3>1, SameInput DEF Later
  <2> QED  BY <1>s, <1>t, <2>2, <2>8, <2>11, <2>12 DEF ExactInv, Later
<1>4. CASE NoWinner
  <2>1. /\ pc = "run" /\ running = {} /\ pc' = "cycle" /\ UNCHANGED input /\ WinnerScores = {}
        /\ UNCHANGED <<views, sims, groupIndex, passView, running, failed, cycle, all, err>>
    BY <1>4 DEF NoWinner
  <2>2. PICK s \in Sims : group = {s}
    BY <1>x, <2>1
  <2>3. AfterRun(s)
    BY <2>1, <2>2 DEF ExactInv
  <2>4. sims[s].state.scheduled = {}
    <3>1. NodePodAssignments(s) = {}
      <4>1. ASSUME NEW a \in NodePodAssignments(s)  PROVE FALSE
        <5>1. [sim |-> s, node |-> a[1]] \in WinnerScores
          BY <2>2, <4>1 DEF WinnerScores
        <5> QED  BY <2>1, <5>1
      <4> QED  BY <4>1
    <3> QED  BY <2>3, <3>1 DEF AfterRun, NodePodAssignments
  <2>5. /\ Settled(b) /\ Ordered(b) /\ Exhausted(b, groupIndex - 1) /\ unbound(b) # {}
        /\ Exhausted(b, groupIndex) /\ views[s].bound = b
    BY <2>3, <2>4 DEF AfterRun
  <2>6. b = bindings(passView)'
    BY <1>b, <2>1
  <2> HIDE DEF b
  <2>7. BetweenRuns'
    BY <1>g, <2>1, <2>2, <2>4, <2>5, <2>6, BetweenParts DEF Settled
  <2>8. Later'
    BY <1>t, <2>1, SameInput DEF Later
  <2> QED  BY <1>s, <1>t, <2>1, <2>7, <2>8 DEF ExactInv, Later
<1>5. ~FailPass
  BY <1>t DEF FailPass
<1>6. CASE EndCycle
  <2>1. /\ cycle.winners # {} /\ pc = "cycle" /\ UNCHANGED input /\ err' = err
        /\ all' = [winners |-> all.winners \union cycle.winners, leftover |-> cycle.leftover]
        /\ pc' = (IF cycle.leftover = {} THEN "end" ELSE "pass")
        /\ cycle' = NoWinners
        /\ UNCHANGED <<views, sims, groupIndex, passView, running, failed>>
    BY <1>6, <1>t DEF EndCycle
  <2>2. running = {}
    BY <2>1 DEF RunsInGroup
  <2>3. /\ Settled(b) /\ Ordered(b) /\ Exhausted(b, groupIndex - 1) /\ Exhausted(b, groupIndex)
        /\ \A s \in group : sims[s].state.scheduled = {} /\ (views[s].created => views[s].bound = b)
    BY <2>1 DEF ExactInv, BetweenRuns
  <2>4. b = bindings(passView)'
    BY <1>b, <2>1
  <2> HIDE DEF b
  <2>5. /\ cycle'.winners = {} /\ all'.winners = all.winners \union cycle.winners
        /\ all'.leftover = unbound(b) /\ pc' \in {"pass", "end"} /\ (pc' = "end" <=> unbound(b) = {})
    BY <2>1, <2>3 DEF Settled, NoWinners
  <2>6. BetweenRuns'
    BY <1>g, <2>1, <2>2, <2>3, <2>4, <2>5, BetweenParts DEF Settled
  <2>7. Later'
    BY <1>t, <2>1, SameInput DEF Later
  <2>8. pc' = "end" => (unbound(bindings(passView)) = {})'
    BY <2>1, <2>4, <2>5, SameInput DEF unbound
  <2> QED  BY <1>s, <1>t, <2>1, <2>2, <2>5, <2>6, <2>7, <2>8 DEF ExactInv, Later
<1>7. CASE EndCycleWithoutWinner
  <2>1. /\ cycle.winners = {} /\ pc = "cycle" /\ UNCHANGED input /\ cycle' = NoWinners
        /\ UNCHANGED <<views, sims, passView, running, failed, all, err>>
        /\ \/ groupIndex < Len(Groups) /\ groupIndex' = groupIndex + 1 /\ pc' = "pass"
           \/ ~(groupIndex < Len(Groups)) /\ groupIndex' = groupIndex /\ pc' = "end"
    BY <1>7 DEF EndCycleWithoutWinner
  <2>2. running = {} /\ cycle'.winners = {}
    BY <2>1 DEF RunsInGroup, NoWinners
  <2>3. /\ Settled(b) /\ Ordered(b) /\ Exhausted(b, groupIndex - 1) /\ Exhausted(b, groupIndex)
        /\ unbound(b) # {}
    BY <2>1 DEF ExactInv, BetweenRuns
  <2>4. b = bindings(passView)'
    BY <1>b, <2>1
  <2> HIDE DEF b
  <2>5. groupIndex \in Nat /\ groupIndex \in DOMAIN Groups
    BY <1>g, <2>1
  <2>6. CASE groupIndex < Len(Groups) /\ groupIndex' = groupIndex + 1 /\ pc' = "pass"
    <3>1. groupIndex' \in DOMAIN Groups /\ groupIndex' > groupIndex /\ groupIndex' - 1 = groupIndex
      BY <1>g, <2>5, <2>6
    <3>2. \A s \in Groups[groupIndex'] : ~views[s].created /\ sims[s].state.scheduled = {}
      BY <1>t, <3>1 DEF Later
    <3>3. Exhausted(b, groupIndex' - 1)
      BY <2>3, <3>1
    <3>4. BetweenRuns'
      BY <2>1, <2>2, <2>3, <2>4, <2>6, <3>2, <3>3, BetweenParts DEF Settled
    <3>5. Later'
      <4>1. \A h \in DOMAIN Groups : h > groupIndex' => h > groupIndex
        BY <1>g, <2>5, <2>6
      <4> QED  BY <1>t, <2>1, <4>1, SameInput DEF Later
    <3> QED  BY <1>s, <1>t, <2>1, <2>2, <2>6, <3>4, <3>5 DEF ExactInv, Later
  <2>7. CASE ~(groupIndex < Len(Groups)) /\ groupIndex' = groupIndex /\ pc' = "end"
    <3>1. BetweenRuns'
      BY <2>1, <2>2, <2>3, <2>4, <2>7, BetweenParts DEF Settled
    <3>2. Later'
      BY <1>t, <2>1, <2>7, SameInput DEF Later
    <3>3. groupIndex' >= Len(Groups')
      BY <1>g, <2>1, <2>5, <2>7, SameInput
    <3> QED  BY <1>s, <1>t, <2>1, <2>2, <2>7, <3>1, <3>2, <3>3 DEF ExactInv, Later
  <2> QED  BY <2>1, <2>6, <2>7
<1>8. CASE Finish
  <2>1. /\ pc = "end" /\ pc' = "closed" /\ UNCHANGED input /\ err' \in {err, "no scale-out plan"}
        /\ UNCHANGED <<views, sims, groupIndex, passView, running, failed, cycle, all>>
    BY <1>8, <1>t DEF Finish, SendPlanError
  <2>2. running = {} /\ cycle.winners = {}
    BY <2>1 DEF RunsInGroup, ExactInv
  <2>3. /\ Settled(b) /\ Ordered(b) /\ Exhausted(b, groupIndex - 1) /\ Exhausted(b, groupIndex)
    BY <2>1 DEF ExactInv, BetweenRuns
  <2>4. b = bindings(passView)'
    BY <1>b, <2>1
  <2>5. groupIndex >= Len(Groups) \/ unbound(b) = {}
    BY <2>1 DEF ExactInv
  <2> HIDE DEF b
  <2>6. BetweenRuns'
    BY <2>1, <2>2, <2>3, <2>4, BetweenParts DEF Settled
  <2>7. (groupIndex >= Len(Groups) \/ unbound(bindings(passView)) = {})'
    BY <2>1, <2>4, <2>5, SameInput DEF unbound
  <2>8. Later'
    BY <1>t, <2>1, SameInput DEF Later
  <2> QED  BY <1>s, <1>t, <2>1, <2>2, <2>6, <2>7, <2>8 DEF ExactInv, Later
<1>9. ASSUME NEW s \in Sims, RunSimulation(s)
      PROVE  ExactInv'
  <2>1. group = {s} /\ AfterRun(s)' /\ failed' = failed
         /\ \A t \in Sims : t # s => views'[t] = views[t] /\ sims'[t] = sims[t]
    BY <1>9, ExactRun
  <2>2. /\ pc = "run" /\ s \in running /\ running' = running \ {s} /\ UNCHANGED input
        /\ UNCHANGED <<pc, groupIndex, passView, cycle, all, err>>
    BY <1>9 DEF RunSimulation
  <2>3. running' = {}
    BY <1>t, <2>1, <2>2
  <2>4. group' = group
    BY <2>2, SameInput DEF group
  <2>5. Later'
    <3>1. ASSUME NEW h \in DOMAIN Groups, h > groupIndex, NEW r \in Groups[h]
          PROVE  views'[r] = views[r] /\ sims'[r] = sims[r]
      <4>1. groupIndex # h
        BY <1>g, <2>2, <3>1
      <4>2. r # s /\ r \in Sims
        BY <1>g, <1>t, <2>1, <2>2, <4>1, GroupsDisjoint, GroupSims
      <4> QED  BY <2>1, <4>2
    <3> QED  BY <1>t, <2>2, <3>1, SameInput DEF Later
  <2>6. \A r \in group' : AfterRun(r)'
    BY <2>1, <2>4
  <2> QED  BY <1>s, <1>t, <2>1, <2>2, <2>3, <2>5, <2>6 DEF ExactInv, Later
<1>10. ASSUME NEW s \in Sims  PROVE ~FailSimulation(s)
  BY <1>t DEF FailSimulation
<1> QED  BY <1>1, <1>2, <1>3, <1>4, <1>5, <1>6, <1>7, <1>8, <1>9, <1>10 DEF Next

(* The invariant for exact setups.                                         *)
THEOREM ExactInvariant == Spec => [](isExact => ExactInv)
<1> DEFINE I == isExact => ExactInv
<1>1. Init => I
  BY ExactInit
<1>2. ASSUME SimInv, I, [Next]_vars  PROVE I'
  <2>1. UNCHANGED input
    BY <1>2 DEF Next, vars, input, BeginPass, WinPass, NoWinner, FailPass, EndCycle,
       EndCycleWithoutWinner, Finish, RunSimulation, FailSimulation
  <2>2. isExact' <=> isExact
    BY <2>1, SameExact
  <2> QED  BY <1>2, <2>2, ExactStep DEF SimInv
<1> QED  BY <1>1, <1>2, SimulatorInvariant, PTL DEF Spec

(* The bindings and the plans once the channel is closed.                  *)
LEMMA ClosedFacts ==
  ASSUME SimInv, isExact, ExactInv, pc = "closed"
  PROVE  /\ \A p \in Pods : bindings(passView)[p] = Unbound \/ bindings(passView)[p] \in planNodes
         /\ unsatisfied = unbound(bindings(passView))
         /\ Ordered(bindings(passView))
         /\ \A s \in Sims : fits[s] \intersect unbound(bindings(passView)) = {}
<1> DEFINE b == bindings(passView)
<1>1. mode \in {"Incremental", "AllAtOnce"} /\ setup \in Setups
  BY SimulatorAssumption DEF SimInv, TypeOK
<1>2. /\ cycle.winners = {} /\ BetweenRuns /\ SentInv
      /\ groupIndex >= Len(Groups) \/ unbound(b) = {}
  BY DEF ExactInv
<1>3. planNodes = all.winners /\ unsatisfied = (IF all.winners = {} THEN Pods ELSE all.leftover)
  BY <1>1, <1>2 DEF SentInv
<1>4. Settled(b) /\ Ordered(b) /\ Exhausted(b, groupIndex)
  BY <1>2 DEF BetweenRuns
<1> HIDE DEF b
<1>5. \A p \in Pods : b[p] = Unbound \/ b[p] \in planNodes
  BY <1>2, <1>3, <1>4 DEF Settled
<1>6. unsatisfied = unbound(b)
  <2>1. CASE all.winners = {}
    BY <1>3, <1>5, <2>1 DEF unbound
  <2>2. CASE all.winners # {}
    BY <1>2, <1>3, <1>4, <2>2 DEF Settled
  <2> QED  BY <2>1, <2>2
<1>7. ASSUME NEW s \in Sims  PROVE fits[s] \intersect unbound(b) = {}
  <2>1. PICK g \in DOMAIN Groups : s \in Groups[g]
    BY DEF Sims
  <2>2. CASE unbound(b) = {}
    BY <2>2
  <2>3. CASE groupIndex >= Len(Groups)
    <3>1. groupIndex \in DOMAIN Groups
      <4>1. Groups # <<>>
        BY <2>1
      <4> QED  BY <4>1 DEF SimInv, TypeOK
    <3>2. g <= groupIndex
      BY <1>1, <2>1, <2>3, <3>1, GroupsSeq
    <3> QED  BY <1>4, <2>1, <3>2 DEF Exhausted
  <2> QED  BY <1>2, <2>2, <2>3
<1> QED  BY <1>4, <1>5, <1>6, <1>7 DEF b

(* With patient runs, no failure from outside and one simulation in each   *)
(* group, a pod that the last plan does not list as unsatisfied has a node *)
(* that the plans ask for, and every request is answered by plans or by    *)
(* ErrNoScaleOutPlan: no run is started on a view without unscheduled      *)
(* pods, which would be an error.                                          *)
THEOREM PlansCoverPods == Spec => []PlanCoversPods
<1>1. SimInv /\ (isExact => ExactInv) => PlanCoversPods
  <2> SUFFICES ASSUME SimInv, isExact => ExactInv  PROVE PlanCoversPods
    OBVIOUS
  <2>1. setup.patient /\ ~setup.faults /\ oneEach => err \in {"none", "no scale-out plan"}
    BY DEF isExact, ExactInv
  <2>2. ASSUME exact  PROVE covered
    <3>1. isExact /\ ExactInv /\ pc = "closed"
      BY <2>2 DEF exact, done, isExact
    <3> QED  BY <3>1, ClosedFacts DEF covered, unbound
  <2> QED  BY <2>1, <2>2 DEF PlanCoversPods
<1> QED  BY <1>1, SimulatorInvariant, ExactInvariant, PTL

(* Under the same conditions no pod is reported unsatisfied that a node of *)
(* some template would take: a group is left only when none of its         *)
(* templates takes a pod that is still without a node.                     *)
THEOREM PlansLeaveNoFeasiblePod == Spec => []NoFeasiblePodLeft
<1>1. SimInv /\ (isExact => ExactInv) => NoFeasiblePodLeft
  <2> SUFFICES ASSUME SimInv, isExact => ExactInv, exact,
                      NEW p \in unsatisfied, NEW s \in Sims
               PROVE  p \notin fits[s]
    BY DEF NoFeasiblePodLeft
  <2>1. isExact /\ ExactInv /\ pc = "closed"
    BY DEF exact, done, isExact
  <2> QED  BY <2>1, ClosedFacts
<1> QED  BY <1>1, SimulatorInvariant, ExactInvariant, PTL

(* Under the same conditions a group gets only the pods that no template   *)
(* of a group of higher priority takes.                                    *)
THEOREM PlansRespectPriority == Spec => []PriorityRespected
<1>1. SimInv /\ (isExact => ExactInv) => PriorityRespected
  <2> SUFFICES ASSUME SimInv, isExact => ExactInv, exact, NEW h \in DOMAIN Groups,
                      NEW s \in Groups[h], NEW p \in Pods,
                      bindings(passView)[p] \in planNodes, bindings(passView)[p][1] = s,
                      NEW g \in 1..(h - 1), NEW t \in Groups[g]
               PROVE  p \notin fits[t]
    BY DEF PriorityRespected
  <2>1. isExact /\ ExactInv /\ pc = "closed" /\ setup \in Setups
    BY DEF exact, done, isExact, SimInv, TypeOK
  <2>2. Ordered(bindings(passView))
    BY <2>1, ClosedFacts
  <2>3. g \in DOMAIN Groups /\ g < h
    BY <2>1, GroupsSeq
  <2>4. bindings(passView)[p] # Unbound
    <3>1. planNodes = all.winners
      BY <2>1, SimulatorAssumption DEF ExactInv, SentInv, SimInv, TypeOK
    <3>2. all.winners \subseteq Node
      BY DEF SimInv, TypeOK, CycleResult
    <3> QED  BY <3>1, <3>2, NodesAreBound
  <2> QED  BY <2>2, <2>3, <2>4 DEF Ordered
<1> QED  BY <1>1, SimulatorInvariant, ExactInvariant, PTL

=============================================================================
