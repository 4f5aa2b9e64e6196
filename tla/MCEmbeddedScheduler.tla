------------------------ MODULE MCEmbeddedScheduler ------------------------
(* EmbeddedScheduler with small constants for TLC. *)
EXTENDS EmbeddedScheduler

(* Two events of the sandbox's store, whose order shows, and one of the    *)
(* delegate's to come between them.                                        *)
TwoAndOne == <<2, 1>>
=============================================================================
