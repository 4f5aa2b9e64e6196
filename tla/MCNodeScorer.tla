---------------------------- MODULE MCNodeScorer ----------------------------
(* NodeScorer with small constants for TLC. *)
EXTENDS NodeScorer, TLC

CONSTANTS p1, p2, p3

(* Requests that differ in kind, one of them for a resource without weight,*)
(* one so small that it is rounded off and one for memory, which outweighs *)
(* all others as in any real pod, though with 1000 bytes, which keeps to   *)
(* the integers of TLC.                                                    *)
SmallRequests == p1 :> [cpu |-> 1, storage |-> 1000]
                 @@ p2 :> [cpu |-> 250, memory |-> 1000000]
                 @@ p3 :> [cpu |-> 500, gpu |-> 1000]

Template(alloc, cost) == [allocatable |-> alloc, price |-> cost]
SmallTemplates ==
  {Template([cpu |-> 1000, memory |-> 2000000], 10),
   Template([cpu |-> 2000, memory |-> 4000000, gpu |-> 1000], 30),
   Template([cpu |-> 2000, memory |-> 4000000], 10),
   Template([cpu |-> 1000, memory |-> 2000000], 0),
   Template([cpu |-> 2000, memory |-> 4000000], 0),
   Template([cpu |-> 1000, memory |-> 2000000], Missing)}
=============================================================================
