----------------------------- MODULE WsClients -----------------------------
(***************************************************************************)
(* The tasks of ml_server.py that share _ws_clients: one handler for each  *)
(* WebSocket client, and the task that sends every client the latest       *)
(* prediction.  The tasks interleave where they await, and only there.     *)
(***************************************************************************)
EXTENDS Integers, Sequences, SequencesExt

CONSTANT Clients

VARIABLES
  _ws_clients,
  handler,     (* where each client's handler is                           *)
  connected,   (* the clients whose connections are up                     *)
  bpc,         (* where ws_broadcast_loop is                               *)
  next,        (* the position its iteration has come to                   *)
  dead,        (* the clients a send has failed for                        *)
  busy         (* whether the broadcast has not given up the event loop    *)

vars == <<_ws_clients, handler, connected, bpc, next, dead, busy>>

Init ==
  /\ _ws_clients = <<>> /\ handler = [c \in Clients |-> "none"] /\ connected = {}
  /\ bpc = "sleep" /\ next = 1 /\ dead = <<>> /\ busy = FALSE

(* ws_predictions: accept, append, then wait for the client to speak.      *)
Accept(c) ==
  /\ handler[c] = "none" /\ ~busy
  /\ handler' = [handler EXCEPT ![c] = "receive"] /\ connected' = connected \cup {c}
  /\ _ws_clients' = Append(_ws_clients, c)
  /\ UNCHANGED <<bpc, next, dead, busy>>

Hangup(c) ==
  /\ c \in connected
  /\ connected' = connected \ {c}
  /\ UNCHANGED <<_ws_clients, handler, bpc, next, dead, busy>>

(* receive_text raises WebSocketDisconnect.  If the broadcast has removed  *)
(* the client, remove raises, and only the handler ends with it.           *)
Disconnect(c) ==
  /\ handler[c] = "receive" /\ ~busy /\ c \notin connected
  /\ handler' = [handler EXCEPT ![c] = "ended"]
  /\ _ws_clients' = Remove(_ws_clients, c)
  /\ UNCHANGED <<connected, bpc, next, dead, busy>>

(* ws_broadcast_loop: a round begins.                                      *)
BeginRound ==
  /\ bpc = "sleep" /\ _ws_clients # <<>>
  /\ bpc' = "send" /\ next' = 1 /\ dead' = <<>> /\ busy' = TRUE
  /\ UNCHANGED <<_ws_clients, handler, connected>>

(* The iteration is by position.  While a send waits for room the others   *)
(* run; one to a client that has gone may raise, at once.                  *)
Send ==
  /\ bpc = "send" /\ next <= Len(_ws_clients)
  /\ next' = next + 1
  /\ \/ dead' = dead /\ busy' \in BOOLEAN
     \/ /\ _ws_clients[next] \notin connected
        /\ dead' = Append(dead, _ws_clients[next]) /\ busy' = TRUE
  /\ UNCHANGED <<_ws_clients, handler, connected, bpc>>

(* The dead are removed without an await; remove raises for a client that  *)
(* is not in the list any more, which ends the task.                       *)
EndRound ==
  /\ bpc = "send" /\ next > Len(_ws_clients)
  /\ bpc' = IF \A c \in ToSet(dead) : Contains(_ws_clients, c) THEN "sleep" ELSE "raised"
  /\ _ws_clients' = FoldLeft(Remove, _ws_clients, dead)
  /\ busy' = FALSE
  /\ UNCHANGED <<handler, connected, next, dead>>

Next ==
  \/ BeginRound \/ Send \/ EndRound
  \/ \E c \in Clients : Accept(c) \/ Hangup(c) \/ Disconnect(c)

Spec == Init /\ [][Next]_vars

-----------------------------------------------------------------------------

(* The task that pushes the latest prediction to the clients every 200 ms  *)
(* (ml_server.py:208) goes on whatever the clients do.                     *)
BroadcastRuns == bpc # "raised"
=============================================================================
