--------------------------- MODULE MCSandboxView ---------------------------
(* SandboxView with small constants for TLC. *)
EXTENDS SandboxView

CONSTANTS t1, t2, n1, n2

(* One object of a kind without namespace.                                 *)
ClusterKey == {[ns |-> "", name |-> "a"]}

(* A scenario of the operations and views of t1 and of t2.                 *)
Threads2(ops1, views1, ops2, views2, nodes) ==
  [ops |-> [t \in Threads |-> IF t = t1 THEN ops1 ELSE ops2],
   views |-> [t \in Threads |-> IF t = t1 THEN views1 ELSE views2],
   nodes |-> nodes]

NoPatch == AllOps \ {"Patch"}

(* One thread on a sandbox and one on its delegate; two on one sandbox;    *)
(* one, which patches in place, on a sandbox and a sandbox over it.        *)
MCScenarios ==
  {Threads2(NoPatch, {1}, NoPatch, {0}, {n1}),
   Threads2(NoPatch, {1}, NoPatch, {1}, {n1}),
   Threads2({"Bind", "Patch", "PatchStatus", "Delete", "DeleteObjects"}, {1, 2}, {}, {},
            {n1, n2})}
=============================================================================
