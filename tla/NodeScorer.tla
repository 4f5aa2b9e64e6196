----------------------------- MODULE NodeScorer -----------------------------
(***************************************************************************)
(* Scoring of the nodes of a simulation pass and selection of the winner   *)
(* (src/planner/scorer/scorer.go, with the weights of                      *)
(* src/planner/weigher/weigher.go), called by processScaleOutSimResults.   *)
(*                                                                         *)
(* Quantities are integers in thousandths of the resource's unit, which is *)
(* the byte for memory, and prices in hundredths of the currency's, so that*)
(* what the code computes in floating point is exact here, up to its own   *)
(* rounding to an int.                                                     *)
(***************************************************************************)
EXTENDS Integers, Sequences, SequencesExt

CONSTANTS
  Pods,
  Requests,   \* [Pods -> requests by resource]
  Templates,  \* [allocatable by resource, price] of node templates
  Strategies, \* strategies asked for
  MaxSims,    \* bound: simulations of the pass
  Missing     \* price of an instance type that the pricing data lack

VARIABLES
  strategy,
  results,  \* the simulations' results, in order
  scorer,   \* result of GetNodeScorer
  scores,   \* AllScores: the results that were scored, each with its value
  pc,
  winner    \* set of results that Select may return

vars == <<strategy, results, scorer, scores, pc, winner>>

(* Where the pods went in a run: some on the scaled node, some on others.  *)
Results ==
  {r \in [template : Templates, scaled : SUBSET Pods, other : SUBSET Pods] :
     r.scaled \intersect r.other = {}}

Init ==
  /\ strategy \in Strategies
  /\ results \in SeqOf(Results, MaxSims)
  /\ scorer = "none" /\ scores = <<>> /\ pc = "create" /\ winner = {}

-----------------------------------------------------------------------------
(* Resource lists, functions from some resources to quantities.            *)

(* defaultResourceWeigher                                                  *)
GetWeights == [memory |-> 1, cpu |-> 9, gpu |-> 20]

addPodRequests(requests, sum) ==
  [r \in DOMAIN requests \union DOMAIN sum |->
     (IF r \in DOMAIN requests THEN requests[r] ELSE 0)
       + (IF r \in DOMAIN sum THEN sum[r] ELSE 0)]

NoResources == [r \in {} |-> 0]

(* Of the pods that were scheduled because of the scale-out.               *)
getAggregatedScheduledPodsResources(result) ==
  FoldSet(LAMBDA p, sum : addPodRequests(Requests[p], sum), NoResources,
          result.scaled \union result.other)

(* Resources without a weight do not count.                                *)
getNormalizedAggregate(resources) ==
  MapThenSumSet(LAMBDA r : GetWeights[r] * resources[r],
                DOMAIN resources \intersect DOMAIN GetWeights)

(* math.Round of a / b, and conversion of a / b to int.                    *)
roundedQuotient(a, b) == (2 * a + b) \div (2 * b)
truncatedQuotient(a, b) == IF a >= 0 THEN a \div b ELSE -((-a) \div b)

-----------------------------------------------------------------------------
(* GetNodeScorer                                                           *)
GetNodeScorer ==
  /\ pc = "create"
  /\ \/ strategy \in {"LeastCost", "LeastWaste"} /\ scorer' = strategy /\ pc' = "compute"
     \/ strategy \notin {"LeastCost", "LeastWaste"} /\ scorer' = "ErrCreateNodeScorer" /\ pc' = "error"
  /\ UNCHANGED <<strategy, results, scores, winner>>

(* Normalised resource units (NRU) scheduled per unit of cost, times 100.  *)
LeastCostValue(result) ==
  IF result.template.price = 0 THEN -1
  ELSE roundedQuotient(getNormalizedAggregate(getAggregatedScheduledPodsResources(result)) * 10,
                       result.template.price)

(* What is left of the scaled node's resources when all that was scheduled *)
(* is taken off.                                                           *)
wastage(result) ==
  LET alloc == result.template.allocatable
      scheduled == getAggregatedScheduledPodsResources(result)
  IN  [r \in DOMAIN alloc |-> alloc[r] - (IF r \in DOMAIN scheduled THEN scheduled[r] ELSE 0)]
LeastWasteValue(result) == truncatedQuotient(getNormalizedAggregate(wastage(result)), 10)

(* The next result of the pass.  A run that placed nothing on its node is  *)
(* not scored.                                                             *)
result == Head(results)

SkipResult ==
  /\ pc = "compute" /\ results # <<>> /\ result.scaled = {}
  /\ results' = Tail(results)
  /\ UNCHANGED <<strategy, scorer, scores, pc, winner>>

(* Compute of either strategy.  Only LeastCost asks for the price.         *)
Compute ==
  /\ pc = "compute" /\ results # <<>> /\ result.scaled # {}
  /\ results' = Tail(results)
  /\ \/ /\ scorer = "LeastCost" /\ result.template.price = Missing
        /\ pc' = "error" /\ UNCHANGED scores
     \/ /\ scorer = "LeastCost" /\ result.template.price # Missing
        /\ scores' = Append(scores, [result |-> result, value |-> LeastCostValue(result)])
        /\ UNCHANGED pc
     \/ /\ scorer = "LeastWaste"
        /\ scores' = Append(scores, [result |-> result, value |-> LeastWasteValue(result)])
        /\ UNCHANGED pc
  /\ UNCHANGED <<strategy, scorer, winner>>

Indices == DOMAIN scores
(* Mutant of LeastCostSelect: larger than all others, not largest.         *)
LeastCostSelectStrict ==
  LET top == {i \in Indices : \A j \in Indices : scores[j].value <= scores[i].value}
      size(i) == getNormalizedAggregate(scores[i].result.template.allocatable)
  IN  {i \in top : \A j \in top \ {i} : size(j) < size(i)}

(* Mutant of LeastCostSelect: no tie-break.                                *)
LeastCostSelectTop ==
  {i \in Indices : \A j \in Indices : scores[j].value <= scores[i].value}

(* LeastCost.Select: highest value, then the largest allocatable.          *)
LeastCostSelect ==
  LET top == {i \in Indices : \A j \in Indices : scores[j].value <= scores[i].value}
      size(i) == getNormalizedAggregate(scores[i].result.template.allocatable)
  IN  {i \in top : \A j \in top : size(j) <= size(i)}
(* Mutant of LeastWasteSelect: sorted in decreasing order.                 *)
LeastWasteSelectMost ==
  {i \in Indices : \A j \in Indices : scores[j].value <= scores[i].value}

(* LeastWaste.Select: lowest value, then the lowest price.                 *)
lowest == {i \in Indices : \A j \in Indices : scores[i].value <= scores[j].value}
LeastWasteSelect ==
  LET price(i) == scores[i].result.template.price
  IN  {i \in lowest : \A j \in lowest : price(i) <= price(j)}

(* Select of either strategy, which picks among equals at random.          *)
Select ==
  /\ pc = "compute" /\ results = <<>>
  /\ \/ /\ scores = <<>>
        /\ pc' = "no winner" /\ UNCHANGED winner
     \/ /\ Len(scores) = 1
        /\ winner' = {1} /\ pc' = "won"
     \/ /\ Len(scores) > 1 /\ scorer = "LeastCost"
        /\ winner' = LeastCostSelect /\ pc' = "won"
     \/ /\ Len(scores) > 1 /\ scorer = "LeastWaste"
        /\ \E i \in lowest : scores[i].result.template.price = Missing
        /\ pc' = "error" /\ UNCHANGED winner
     \/ /\ Len(scores) > 1 /\ scorer = "LeastWaste"
        /\ \A i \in lowest : scores[i].result.template.price # Missing
        /\ winner' = LeastWasteSelect /\ pc' = "won"
  /\ UNCHANGED <<strategy, results, scorer, scores>>

Next == GetNodeScorer \/ SkipResult \/ Compute \/ Select
Spec == Init /\ [][Next]_vars

-----------------------------------------------------------------------------
(* Properties, stated without aggregation, rounding and sorting: each pod  *)
(* counts with its own requests.                                           *)

podUnits(p, counted) ==
  MapThenSumSet(LAMBDA r : GetWeights[r] * Requests[p][r],
                DOMAIN Requests[p] \intersect DOMAIN GetWeights \intersect counted)
units(r, counted) ==
  MapThenSumSet(LAMBDA p : podUnits(p, counted), r.scaled \union r.other)
nodeUnits(t) == MapThenSumSet(LAMBDA r : GetWeights[r] * t.allocatable[r], DOMAIN t.allocatable)
price(i) == scores[i].result.template.price
wonBy(s, w) == pc = "won" /\ scorer = s /\ w \in winner

(* A pass that ends without error and without winner scored nothing, and   *)
(* the winner is one of the scored results, all of which placed a pod on   *)
(* their own node.                                                         *)
WinnerFound ==
  /\ pc = "won" => winner # {} /\ winner \subseteq Indices
  /\ pc = "no winner" => scores = <<>>
  /\ \A i \in Indices : scores[i].result.scaled # {}

(* LeastCost: nobody schedules more units per cost than the winner, up to  *)
(* the hundredth that is rounded off; nobody who schedules as many units   *)
(* per cost has a larger node; and a free instance, whose score the code   *)
(* sets to -1, wins only among free ones, over smaller ones.               *)
CheapestWins ==
  \A w, i \in Indices : wonBy("LeastCost", w) =>
    LET all == DOMAIN GetWeights
        worth(k, j) == 10 * units(scores[k].result, all) * price(j)
        larger(k, j) == nodeUnits(scores[k].result.template) >= nodeUnits(scores[j].result.template)
    IN  IF price(w) = 0 THEN price(i) = 0 /\ larger(w, i)
        ELSE price(i) > 0 =>
               /\ worth(w, i) + price(i) * price(w) >= worth(i, w)
               /\ worth(w, i) = worth(i, w) => larger(w, i)

(* LeastWaste: nobody wastes less than the winner.  Conversion to int      *)
(* makes all wastes between -1/100 and 1/100 equal, so the winner may be   *)
(* worse by less than twice that.                                          *)
LeastWasteWins ==
  \A w, i \in Indices : wonBy("LeastWaste", w) =>
    LET waste(k) == LET alloc == scores[k].result.template.allocatable
                    IN  getNormalizedAggregate(alloc) - units(scores[k].result, DOMAIN alloc)
    IN  waste(w) - waste(i) < 20
=============================================================================
