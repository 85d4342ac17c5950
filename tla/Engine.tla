------------------------------- MODULE Engine -------------------------------
(***************************************************************************)
(* How the process lives and ends: main.cpp starts the mesh node and the   *)
(* feeds, routes ticks until a signal, and stops them one after another.   *)
(* Each feed (ws_feed.hpp) is a thread that connects, reads and connects   *)
(* again; the mesh node (mesh_node.hpp) has an event loop and two threads  *)
(* that broadcast.  What they do with ticks and messages is in SPSCRing,   *)
(* PeerTable and ExecDelegation; here it matters that they block, that     *)
(* they use descriptors, and that they end.                                *)
(*                                                                         *)
(* A write to a connection whose reset has been reported already raises    *)
(* SIGPIPE, which nothing handles or ignores: the process is dead.         *)
(***************************************************************************)
EXTENDS Integers

CONSTANTS
  NumFeeds,    (* the feeds, stopped in this order                         *)
  MaxLines,    (* connections a feed makes; a bound                        *)
  MaxPeers     (* connections the node accepts; a bound                    *)

ASSUME EngineAssumption ==
  NumFeeds \in Nat \ {0} /\ MaxLines \in Nat /\ MaxPeers \in Nat

Feeds        == 1..NumFeeds
Broadcasters == {"heartbeat", "capability"}

VARIABLES
  alive,       (* no signal has killed the process                         *)
  g_running,
  main,        (* where the main thread is                                 *)
  turn,        (* the feed it is stopping                                  *)
  pc,          (* where each feed's thread is                              *)
  running,     (* each feed's running_                                     *)
  ssl,         (* whether its ssl_ and ssl_ctx_ are set                    *)
  held,        (* the sockets the kernel holds for it                      *)
  line,        (* what the exchange did to its connection                  *)
  lines,       (* connections it has made so far                           *)
  mesh,        (* the node's running_                                      *)
  listening,   (* whether listen_fd_ and epoll_fd_ are open                *)
  epc,         (* where the event loop is                                  *)
  bpc,         (* where the broadcasters are                               *)
  peer,        (* the state of the peer's connection                       *)
  accepted     (* connections accepted so far                              *)

feedVars == <<pc, running, ssl, held, line, lines>>
meshVars == <<mesh, listening, epc, bpc, peer, accepted>>
vars == <<alive, g_running, main, turn, feedVars, meshVars>>

Init ==
  /\ alive = TRUE /\ g_running = TRUE /\ main = "init" /\ turn = 1
  /\ pc = [f \in Feeds |-> "off"] /\ running = [f \in Feeds |-> FALSE]
  /\ ssl = [f \in Feeds |-> FALSE] /\ held = [f \in Feeds |-> 0]
  /\ line = [f \in Feeds |-> "none"] /\ lines = [f \in Feeds |-> 0]
  /\ mesh = FALSE /\ listening = FALSE /\ epc = "off"
  /\ bpc = [b \in Broadcasters |-> "off"] /\ peer = "none" /\ accepted = 0

(***************************************************************************)
(* A feed.                                                                 *)
(***************************************************************************)

Goto(f, to) == pc' = [pc EXCEPT ![f] = to]

FeedStep(f) == alive /\ UNCHANGED <<g_running, main, turn, running, meshVars>>

(* Faulty: sockfd_ keeps its number, and is closed every time.             *)
CleanupAgain(f) ==
  /\ ssl' = [ssl EXCEPT ![f] = FALSE]
  /\ held' = [held EXCEPT ![f] = @ - 1]
  /\ line' = [line EXCEPT ![f] = "none"]
  /\ alive' \in IF ssl[f] /\ line[f] = "reset" THEN BOOLEAN ELSE {TRUE}

(* cleanupSSL; SSL_shutdown writes.                                        *)
Cleanup(f) ==
  /\ ssl' = [ssl EXCEPT ![f] = FALSE]
  /\ held' = [held EXCEPT ![f] = IF @ > 0 THEN @ - 1 ELSE 0]
  /\ line' = [line EXCEPT ![f] = "none"]
  /\ alive' \in IF ssl[f] /\ line[f] = "reset" THEN BOOLEAN ELSE {TRUE}

LoopTest(f) ==
  /\ FeedStep(f) /\ pc[f] = "loop"
  /\ Goto(f, IF running[f] THEN "connect" ELSE "ended")
  /\ UNCHANGED <<alive, ssl, held, line, lines>>

(* getaddrinfo, socket or connect fails; connect's path closes the socket. *)
ConnectFails(f) ==
  /\ FeedStep(f) /\ pc[f] = "connect"
  /\ Goto(f, "pause")
  /\ UNCHANGED <<alive, ssl, held, line, lines>>

Connect(f) ==
  /\ FeedStep(f) /\ pc[f] = "connect" /\ lines[f] < MaxLines
  /\ Goto(f, "tls")
  /\ held' = [held EXCEPT ![f] = @ + 1]
  /\ ssl' = [ssl EXCEPT ![f] = TRUE]
  /\ line' = [line EXCEPT ![f] = "up"]
  /\ lines' = [lines EXCEPT ![f] = @ + 1]
  /\ UNCHANGED alive

(* SSL_connect fails.  It was not through, so SSL_shutdown writes nothing. *)
TlsFails(f) ==
  /\ FeedStep(f) /\ pc[f] = "tls"
  /\ Goto(f, "pause")
  /\ ssl' = [ssl EXCEPT ![f] = FALSE]
  /\ held' = [held EXCEPT ![f] = @ - 1]
  /\ line' = [line EXCEPT ![f] = "none"]
  /\ UNCHANGED <<alive, lines>>

TlsDone(f) ==
  /\ FeedStep(f) /\ pc[f] = "tls" /\ line[f] = "up"
  /\ Goto(f, "upgrade")
  /\ UNCHANGED <<alive, ssl, held, line, lines>>

(* No answer or not 101: what was set up is left to runLoop.               *)
UpgradeFails(f) ==
  /\ FeedStep(f) /\ pc[f] = "upgrade"
  /\ Goto(f, "pause")
  /\ UNCHANGED <<alive, ssl, held, line, lines>>

(* 101, then sendSubscribe, which may write after a reset.                 *)
UpgradeDone(f) ==
  /\ FeedStep(f) /\ pc[f] = "upgrade"
  /\ Goto(f, "receive")
  /\ alive' \in IF line[f] = "reset" THEN BOOLEAN ELSE {TRUE}
  /\ UNCHANGED <<ssl, held, line, lines>>

(* Faulty: nothing is cleaned up after a failed attempt.                   *)
ReconnectDirty(f) ==
  /\ FeedStep(f) /\ pc[f] = "pause"
  /\ Goto(f, "loop")
  /\ UNCHANGED <<alive, ssl, held, line, lines>>

(* runLoop after a failed attempt: 2 s, then cleanupSSL.                   *)
Reconnect(f) ==
  /\ FeedStep(f) /\ pc[f] = "pause"
  /\ Goto(f, "loop") /\ Cleanup(f)
  /\ UNCHANGED lines

(* Faulty: the receive loop does not look at running_.                     *)
ReceiveAlways(f) ==
  /\ FeedStep(f) /\ pc[f] = "receive"
  /\ Goto(f, "reading")
  /\ UNCHANGED <<alive, ssl, held, line, lines>>

Receive(f) ==
  /\ FeedStep(f) /\ pc[f] = "receive"
  /\ Goto(f, IF running[f] THEN "reading" ELSE "leave")
  /\ UNCHANGED <<alive, ssl, held, line, lines>>

(* SSL_read returns bytes: a close frame ends the loop, a text frame goes  *)
(* to parseTick and the ring, anything else is skipped.  A read may begin  *)
(* in the middle of a frame, so anything may look like a close frame.      *)
ReadFrame(f) ==
  /\ FeedStep(f) /\ pc[f] = "reading"
  /\ \E frame \in {"text", "close", "other"} :
       Goto(f, IF frame = "close" THEN "leave" ELSE "receive")
  /\ UNCHANGED <<alive, ssl, held, line, lines>>

(* Faulty: an error of SSL_read is taken for an empty read.                *)
ReadRetries(f) ==
  /\ FeedStep(f) /\ pc[f] = "reading" /\ line[f] # "up"
  /\ Goto(f, "receive")
  /\ UNCHANGED <<alive, ssl, held, line, lines>>

ReadEnds(f) ==
  /\ FeedStep(f) /\ pc[f] = "reading" /\ line[f] # "up"
  /\ Goto(f, "leave")
  /\ UNCHANGED <<alive, ssl, held, line, lines>>

Leave(f) ==
  /\ FeedStep(f) /\ pc[f] = "leave"
  /\ Goto(f, "loop") /\ Cleanup(f)
  /\ UNCHANGED lines

(* The exchange closes or resets the connection.                           *)
ExchangeEnds(f) ==
  /\ FeedStep(f) /\ line[f] = "up"
  /\ \E how \in {"closed", "reset"} : line' = [line EXCEPT ![f] = how]
  /\ UNCHANGED <<alive, pc, ssl, held, lines>>

FeedThread(f) ==
  \/ LoopTest(f) \/ ConnectFails(f) \/ Connect(f) \/ TlsFails(f) \/ TlsDone(f)
  \/ UpgradeFails(f) \/ UpgradeDone(f) \/ Reconnect(f)
  \/ Receive(f) \/ ReadFrame(f) \/ ReadEnds(f) \/ Leave(f)

(***************************************************************************)
(* The mesh node.                                                          *)
(***************************************************************************)

MeshStep == alive /\ UNCHANGED <<g_running, main, turn, feedVars, mesh, listening>>

(* eventLoop: the test of running_.                                        *)
EventTest ==
  /\ MeshStep /\ epc = "loop"
  /\ epc' = IF mesh THEN "wait" ELSE "ended"
  /\ UNCHANGED <<alive, bpc, peer, accepted>>

(* epoll_wait returns: nothing for 5 ms, or a closed descriptor; then      *)
(* checkPendingTimeouts.                                                   *)
EventTimeout ==
  /\ MeshStep /\ epc = "wait"
  /\ epc' = "loop"
  /\ UNCHANGED <<alive, bpc, peer, accepted>>

EventListen ==
  /\ MeshStep /\ epc = "wait" /\ listening /\ accepted < MaxPeers
  /\ epc' = "accept"
  /\ UNCHANGED <<alive, bpc, peer, accepted>>

(* handleRead and handleDisconnect for a connection that ended.            *)
EventRead ==
  /\ MeshStep /\ epc = "wait" /\ listening /\ peer \in {"reset", "reported"}
  /\ epc' = "loop" /\ peer' = "none"
  /\ UNCHANGED <<alive, bpc, accepted>>

(* acceptPeer: another connection, or EAGAIN.  On EBADF, the answer once   *)
(* listen_fd_ is closed, it tries again, a step that changes nothing.      *)
AcceptPeer ==
  /\ MeshStep /\ epc = "accept" /\ listening
  /\ accepted < MaxPeers /\ peer = "none"
  /\ peer' = "up" /\ accepted' = accepted + 1
  /\ UNCHANGED <<alive, epc, bpc>>

AcceptDone ==
  /\ MeshStep /\ epc = "accept" /\ listening
  /\ epc' = "loop"
  /\ UNCHANGED <<alive, bpc, peer, accepted>>

(* The peer goes, and what was sent to it is answered with a reset.        *)
PeerResets ==
  /\ MeshStep /\ peer = "up"
  /\ peer' = "reset"
  /\ UNCHANGED <<alive, epc, bpc, accepted>>

(* heartbeatLoop, capabilityLoop: the send under peers_mu_, and the test   *)
(* that follows it.  The first send reports a reset; the next is fatal.    *)
Broadcast(b) ==
  /\ MeshStep /\ bpc[b] = "sleep"
  /\ bpc' = [bpc EXCEPT ![b] = IF mesh THEN "sleep" ELSE "ended"]
  /\ peer' = IF peer = "reset" THEN "reported" ELSE peer
  /\ alive' = (peer # "reported")
  /\ UNCHANGED <<epc, accepted>>

(***************************************************************************)
(* The main thread.                                                        *)
(***************************************************************************)

MainStep == alive /\ UNCHANGED <<lines, peer, accepted>>

(* init: the node cannot listen; nothing has been started.                 *)
InitFails ==
  /\ MainStep /\ main = "init"
  /\ main' = "exit"
  /\ UNCHANGED <<alive, g_running, turn, pc, running, ssl, held, line,
                 mesh, listening, epc, bpc>>

(* init: mesh_.start(), then start() of every feed.                        *)
Start ==
  /\ MainStep /\ main = "init"
  /\ main' = "run"
  /\ mesh' = TRUE /\ listening' = TRUE /\ epc' = "loop"
  /\ bpc' = [b \in Broadcasters |-> "sleep"]
  /\ pc' = [f \in Feeds |-> "loop"] /\ running' = [f \in Feeds |-> TRUE]
  /\ UNCHANGED <<alive, g_running, turn, ssl, held, line>>

(* SIGINT or SIGTERM.                                                      *)
sigHandler ==
  /\ alive /\ main # "exit" /\ g_running
  /\ g_running' = FALSE
  /\ UNCHANGED <<alive, main, turn, feedVars, meshVars>>

(* run() sees the flag once the ring is drained.                           *)
LeaveRun ==
  /\ MainStep /\ main = "run" /\ ~g_running
  /\ main' = "stop feed"
  /\ UNCHANGED <<alive, g_running, turn, pc, running, ssl, held, line,
                 mesh, listening, epc, bpc>>

(* WebSocketFeed::stop.                                                    *)
StopFeed ==
  /\ MainStep /\ main = "stop feed"
  /\ main' = "join feed" /\ running' = [running EXCEPT ![turn] = FALSE]
  /\ UNCHANGED <<alive, g_running, turn, pc, ssl, held, line,
                 mesh, listening, epc, bpc>>

(* Faulty: the feed is cleaned up while its thread may still read.         *)
CleanFeedFirst ==
  /\ MainStep /\ main = "join feed"
  /\ Cleanup(turn)
  /\ IF pc[turn] # "ended" THEN UNCHANGED <<main, turn>>
     ELSE IF turn < NumFeeds THEN main' = "stop feed" /\ turn' = turn + 1
     ELSE main' = "stop mesh" /\ UNCHANGED turn
  /\ UNCHANGED <<g_running, pc, running, mesh, listening, epc, bpc>>

JoinFeed ==
  /\ MainStep /\ main = "join feed" /\ pc[turn] = "ended"
  /\ Cleanup(turn)
  /\ IF turn < NumFeeds THEN main' = "stop feed" /\ turn' = turn + 1
                         ELSE main' = "stop mesh" /\ UNCHANGED turn
  /\ UNCHANGED <<g_running, pc, running, mesh, listening, epc, bpc>>

(* MeshNode::stop: the flag, then the descriptors, then the joins.         *)
StopMesh ==
  /\ MainStep /\ main = "stop mesh"
  /\ main' = "close mesh" /\ mesh' = FALSE
  /\ UNCHANGED <<alive, g_running, turn, pc, running, ssl, held, line,
                 listening, epc, bpc>>

CloseMesh ==
  /\ MainStep /\ main = "close mesh"
  /\ main' = "join mesh" /\ listening' = FALSE
  /\ UNCHANGED <<alive, g_running, turn, pc, running, ssl, held, line,
                 mesh, epc, bpc>>

(* Faulty: the capability thread is not waited for.                        *)
JoinMeshBut ==
  /\ MainStep /\ main = "join mesh" /\ epc = "ended" /\ bpc["heartbeat"] = "ended"
  /\ main' = "exit"
  /\ UNCHANGED <<alive, g_running, turn, pc, running, ssl, held, line,
                 mesh, listening, epc, bpc>>

JoinMesh ==
  /\ MainStep /\ main = "join mesh"
  /\ epc = "ended" /\ \A b \in Broadcasters : bpc[b] = "ended"
  /\ main' = "exit"
  /\ UNCHANGED <<alive, g_running, turn, pc, running, ssl, held, line,
                 mesh, listening, epc, bpc>>

MainThread ==
  \/ InitFails \/ Start \/ LeaveRun \/ StopFeed \/ JoinFeed
  \/ StopMesh \/ CloseMesh \/ JoinMesh

EventThread == EventTest \/ EventTimeout \/ EventListen \/ EventRead
               \/ AcceptPeer \/ AcceptDone

-----------------------------------------------------------------------------

Next ==
  \/ MainThread \/ sigHandler
  \/ EventThread \/ PeerResets \/ \E b \in Broadcasters : Broadcast(b)
  \/ \E f \in Feeds : FeedThread(f) \/ ExchangeEnds(f)

Spec == Init /\ [][Next]_vars

(* Every thread runs while it does not wait for somebody outside: a feed   *)
(* in the middle of a read waits for the exchange, unless the connection   *)
(* has ended.  What is left to read of an ended connection is finite.      *)
FeedRuns(f) == FeedThread(f) /\ (pc[f] \in {"tls", "upgrade", "reading"} => line[f] # "up")

Fairness ==
  /\ WF_vars(MainThread) /\ WF_vars(EventThread)
  /\ \A b \in Broadcasters : WF_vars(Broadcast(b))
  /\ \A f \in Feeds : WF_vars(FeedRuns(f)) /\ SF_vars(ReadEnds(f))

FairSpec == Spec /\ Fairness

-----------------------------------------------------------------------------

TypeOK ==
  /\ alive \in BOOLEAN /\ g_running \in BOOLEAN
  /\ main \in {"init", "run", "stop feed", "join feed", "stop mesh", "close mesh",
               "join mesh", "exit"}
  /\ turn \in Feeds
  /\ pc \in [Feeds -> {"off", "loop", "connect", "tls", "upgrade", "receive",
                       "reading", "leave", "pause", "ended"}]
  /\ running \in [Feeds -> BOOLEAN] /\ ssl \in [Feeds -> BOOLEAN]
  /\ held \in [Feeds -> Nat] /\ lines \in [Feeds -> 0..MaxLines]
  /\ line \in [Feeds -> {"none", "up", "closed", "reset"}]
  /\ mesh \in BOOLEAN /\ listening \in BOOLEAN
  /\ epc \in {"off", "loop", "wait", "accept", "ended"}
  /\ bpc \in [Broadcasters -> {"off", "sleep", "ended"}]
  /\ peer \in {"none", "up", "reset", "reported"} /\ accepted \in 0..MaxPeers

(* What a feed's thread uses exists: stop() frees nothing while the thread *)
(* may be in the middle of a read (ws_feed.hpp:72-76, 158).                *)
FeedOwnsItsSocket ==
  \A f \in Feeds :
    alive /\ pc[f] \in {"tls", "upgrade", "receive", "reading"} => ssl[f] /\ held[f] = 1

(* Every attempt to connect starts clean, however the one before failed:   *)
(* no socket and no TLS session of it is left (ws_feed.hpp:82-147).        *)
AttemptsStartClean ==
  \A f \in Feeds : alive /\ pc[f] = "connect" => ~ssl[f] /\ held[f] = 0

(* When the engine has stopped, none of its threads runs on objects that   *)
(* are about to be destroyed, and no feed has a socket (main.cpp:122-127). *)
StoppedIsQuiet ==
  alive /\ main = "exit" =>
    /\ \A f \in Feeds : pc[f] \in {"off", "ended"} /\ ~ssl[f] /\ held[f] = 0
    /\ epc \in {"off", "ended"} /\ \A b \in Broadcasters : bpc[b] \in {"off", "ended"}
    /\ ~listening

(* acceptPeer has lost its descriptor and tries for ever.                  *)
AcceptSpins == epc = "accept" /\ ~listening

(* No exchange falls silent for ever without closing the connection.       *)
ExchangesSpeak ==
  \A f \in Feeds : []<>(pc[f] \notin {"tls", "upgrade", "reading"})

(* After SIGINT the engine stops, whatever the feeds were doing, but for   *)
(* the two ways in which it cannot: killed by SIGPIPE, or the event loop   *)
(* in acceptPeer when stop() closes listen_fd_ (mesh_node.hpp:91-98, 203). *)
EngineStops ==
  ExchangesSpeak => (~g_running ~> (main = "exit" \/ ~alive \/ AcceptSpins))

(* A connection the exchange ended is given up and its socket closed, so   *)
(* that the feed can connect again (ws_feed.hpp:159, 101-103).             *)
EndedIsGivenUp ==
  \A f \in Feeds : line[f] \in {"closed", "reset"} ~> (line[f] = "none" \/ ~alive)
=============================================================================
