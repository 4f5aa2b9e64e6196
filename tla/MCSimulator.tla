---------------------------- MODULE MCSimulator ----------------------------
(* Simulator with small constants for TLC. *)
EXTENDS Simulator

CONSTANTS a, b, c, p1, p2, p3

(* A group of one simulation for each priority, and patient runs.          *)
OneEach == [groups |-> <<{a}, {b}, {c}>>, pods |-> {p1, p2, p3},
            patient |-> TRUE, faults |-> FALSE]
(* Several simulations in a group, hasty runs and failures.                *)
TwoAndOne == [groups |-> <<{a, b}, {c}>>, pods |-> {p1, p2}, patient |-> FALSE, faults |-> TRUE]
(* Several simulations in a group, patient runs.                           *)
Two == [groups |-> <<{a, b}>>, pods |-> {p1, p2, p3}, patient |-> TRUE, faults |-> FALSE]
(* No node template at all.                                                *)
NoTemplate == [groups |-> <<>>, pods |-> {p1}, patient |-> TRUE, faults |-> FALSE]

AllSetups == {OneEach, TwoAndOne, NoTemplate}
OneGroup == {Two}
=============================================================================
