------------------------- MODULE MCServerLifecycle -------------------------
(* ServerLifecycle with small constants for TLC. *)
EXTENDS ServerLifecycle
=============================================================================
