------------------------------ MODULE MCEngine ------------------------------
(* The constants of the run are numbers; see the configuration.            *)
EXTENDS Engine
=============================================================================
