----------------------------- MODULE MCMLBridge -----------------------------
(* The constants of the run are numbers; see the configuration.            *)
EXTENDS MLBridge
=============================================================================
