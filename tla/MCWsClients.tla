---------------------------- MODULE MCWsClients ----------------------------
(* Two clients; see the configuration.                                     *)
EXTENDS WsClients
=============================================================================
