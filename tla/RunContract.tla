---------------------------- MODULE RunContract ----------------------------
(***************************************************************************)
(* What a simulation means to the simulator that runs it: the pods of its  *)
(* view, what it says of them, and its status                              *)
(* (src/api/planner/scaleout_types.go:84), without the scheduler, the     *)
(* event sink and the polling behind them.  SimulationRun implements this; *)
(* module Simulator takes the steps of a whole run in one.                 *)
(*                                                                         *)
(* A run tells only of bindings that are there, each binding is told of    *)
(* once, and never before or after its run; but a binding may go untold,   *)
(* or be told by a later run.                                              *)
(***************************************************************************)
EXTENDS Naturals

CONSTANTS Pods, Existing, Unbound, Gone

VARIABLES
  bound,     \* where each pod of the view is: on a node, Unbound, or Gone
  nodes,     \* the scale-out nodes of the view
  untold,    \* the pods whose binding no run has recorded and that one may record
  runs,      \* the number of runs begun, which names the node of the run
  status,    \* the ActivityStatus
  found,     \* the pods that the run found without a node
  own,       \* the nodes scaled out since the last reset
  recorded,  \* the placements recorded since the last reset
  answer     \* the result of the last run that had one

view == <<bound, nodes, untold>>
state == <<runs, status, found, own, recorded, answer>>
contractVars == <<view, state>>

Init ==
  /\ bound = [p \in Pods |-> Unbound] /\ nodes = {} /\ untold = {}
  /\ runs = 0 /\ status = "Pending"
  /\ found = {} /\ own = {} /\ recorded = {}
  /\ answer = [assigned |-> {}, other |-> {}, leftover |-> {}]

(* A run starts from the pods without a node.  If there is none it fails.  *)
Begin ==
  LET without == {p \in Pods : bound[p] = Unbound} IN
  /\ status \in {"Pending", "Success"}
  /\ status' = "Running" /\ runs' = runs + 1
  /\ found' = IF without = {} THEN found ELSE without
  /\ UNCHANGED <<view, own, recorded, answer>>

(* Each run adds one node of its own.                                      *)
ScaleOut ==
  /\ status = "Running" /\ runs \notin nodes
  /\ nodes' = nodes \union {runs} /\ own' = own \union {runs}
  /\ UNCHANGED <<bound, untold, runs, status, found, recorded, answer>>

(* A pod gets a node once, also while no run is under way.                 *)
Bind(p) ==
  /\ bound[p] = Unbound /\ nodes # {}
  /\ \E n \in nodes \union {Existing} : bound' = [bound EXCEPT ![p] = n]
  /\ untold' = untold \union {p}
  /\ UNCHANGED <<nodes, state>>

(* It loses the node only together with its life.                          *)
Preempt(p) ==
  /\ bound[p] \in nodes \union {Existing}
  /\ bound' = [bound EXCEPT ![p] = Gone]
  /\ UNCHANGED <<nodes, untold, state>>

(* The run records a binding, of this run or of one before, with the node  *)
(* that the pod has now, and no binding is recorded again.                 *)
Record(p) ==
  /\ status = "Running" /\ runs \in own
  /\ p \in untold /\ bound[p] \in nodes \union {Existing}
  /\ recorded' = recorded \union {<<bound[p], p>>}
  /\ untold' = untold \ {p}
  /\ UNCHANGED <<bound, nodes, runs, status, found, own, answer>>

Forget == untold' \in SUBSET untold /\ UNCHANGED <<bound, nodes, state>>

(* The result divides what was recorded by the nodes it is on, and leaves  *)
(* the rest over.                                                          *)
Finish ==
  /\ status = "Running" /\ runs \in own
  /\ status' = "Success"
  /\ answer' = [assigned |-> {a \in recorded : a[1] \in own},
                other |-> {a \in recorded : a[1] \notin own},
                leftover |-> found \ {a[2] : a \in recorded}]
  /\ UNCHANGED <<view, runs, found, own, recorded>>

(* A failed simulation is not run again.                                   *)
Fail ==
  /\ status = "Running" /\ status' = "Failure"
  /\ untold' \in SUBSET untold
  /\ UNCHANGED <<bound, nodes, runs, found, own, recorded, answer>>

Reset ==
  /\ status = "Success" /\ status' = "Pending"
  /\ found' = {} /\ own' = {} /\ recorded' = {}
  /\ untold' \in SUBSET untold
  /\ UNCHANGED <<bound, nodes, runs, answer>>

Next ==
  \/ Begin \/ ScaleOut \/ Forget \/ Finish \/ Fail \/ Reset
  \/ \E p \in Pods : Bind(p) \/ Preempt(p) \/ Record(p)

Spec == Init /\ [][Next]_contractVars
=============================================================================
