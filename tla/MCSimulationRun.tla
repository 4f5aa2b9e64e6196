-------------------------- MODULE MCSimulationRun --------------------------
(* SimulationRun for TLC; every constant is given in the configuration. *)
EXTENDS SimulationRun
=============================================================================
