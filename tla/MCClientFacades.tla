-------------------------- MODULE MCClientFacades --------------------------
(* ClientFacades with small constants for TLC. *)
EXTENDS ClientFacades
=============================================================================
