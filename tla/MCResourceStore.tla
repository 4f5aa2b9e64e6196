-------------------------- MODULE MCResourceStore --------------------------
(* ResourceStore with small constants for TLC. *)
EXTENDS ResourceStore, TLC

(* Every watcher's namespace and selector accept every key.                *)
SelectAll == [w \in Watchers |-> Keys]

(* The keys are interchangeable when every watcher selects them all.       *)
KeySymmetry == Permutations(Keys)
=============================================================================
