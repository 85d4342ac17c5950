---------------------------- MODULE EngineProofs ----------------------------
(***************************************************************************)
(* Theorems about Engine, for any number of feeds and every bound.         *)
(*                                                                         *)
(* The argument: where a feed's thread is says what it has (FeedInv), and  *)
(* where the main thread is says which threads have ended (MainInv).  A    *)
(* thread that has ended does not start again, and main touches a feed's   *)
(* connection only when its thread has ended.                              *)
(***************************************************************************)
EXTENDS Engine, TLAPS

Clean(f) == ~ssl[f] /\ held[f] = 0
Owned(f) == ssl[f] /\ held[f] = 1

FeedInv(f) ==
  /\ pc[f] \in {"off", "loop", "connect", "ended"} => Clean(f)
  /\ pc[f] \in {"tls", "upgrade", "receive", "reading", "leave"} => Owned(f)
  /\ pc[f] = "pause" => Clean(f) \/ Owned(f)

FeedsEnded == \A f \in Feeds : pc[f] = "ended"
FeedsOff   == \A f \in Feeds : pc[f] = "off"

MainInv ==
  /\ main = "init" => FeedsOff /\ epc = "off" /\ ~listening
                      /\ \A b \in Broadcasters : bpc[b] = "off"
  /\ main \in {"init", "run"} => turn = 1
  /\ main \in {"stop feed", "join feed"} => \A f \in Feeds : f < turn => pc[f] = "ended"
  /\ main \in {"stop mesh", "close mesh", "join mesh"} => FeedsEnded
  /\ main = "join mesh" => ~listening
  /\ main = "exit" => /\ FeedsEnded \/ FeedsOff
                      /\ epc \in {"off", "ended"} /\ ~listening
                      /\ \A b \in Broadcasters : bpc[b] \in {"off", "ended"}

(* The inductive invariant.                                                *)
IInv == TypeOK /\ (\A f \in Feeds : FeedInv(f)) /\ MainInv

LEMMA InitIInv == Init => IInv
<1> SUFFICES ASSUME Init PROVE IInv
  OBVIOUS
<1>1. turn \in Feeds /\ lines \in [Feeds -> 0..MaxLines] /\ accepted \in 0..MaxPeers
  BY EngineAssumption DEF Init, Feeds
<1>2. TypeOK
  BY <1>1 DEF Init, TypeOK
<1>3. \A f \in Feeds : FeedInv(f)
  BY DEF Init, FeedInv, Clean
<1>4. MainInv
  BY DEF Init, MainInv, FeedsOff
<1>5. QED
  BY <1>2, <1>3, <1>4 DEF IInv

-----------------------------------------------------------------------------

Places == {"off", "loop", "connect", "tls", "upgrade", "receive", "reading", "leave",
           "pause", "ended"}

(* TypeOK in three parts, of which a step changes one or two.              *)
MainTypes ==
  /\ alive \in BOOLEAN /\ g_running \in BOOLEAN
  /\ main \in {"init", "run", "stop feed", "join feed", "stop mesh", "close mesh",
               "join mesh", "exit"}
  /\ turn \in Feeds
  /\ running \in [Feeds -> BOOLEAN] /\ mesh \in BOOLEAN /\ listening \in BOOLEAN

LineTypes ==
  /\ ssl \in [Feeds -> BOOLEAN] /\ held \in [Feeds -> Nat]
  /\ line \in [Feeds -> {"none", "up", "closed", "reset"}]

FeedTypes == pc \in [Feeds -> Places] /\ LineTypes /\ lines \in [Feeds -> 0..MaxLines]

MeshTypes ==
  /\ epc \in {"off", "loop", "wait", "accept", "ended"}
  /\ bpc \in [Broadcasters -> {"off", "sleep", "ended"}]
  /\ peer \in {"none", "up", "reset", "reported"} /\ accepted \in 0..MaxPeers

LEMMA TypeParts ==
  /\ TypeOK <=> MainTypes /\ FeedTypes /\ MeshTypes
  /\ TypeOK' <=> MainTypes' /\ FeedTypes' /\ MeshTypes'
  BY DEF TypeOK, MainTypes, FeedTypes, LineTypes, MeshTypes, Places

(* cleanupSSL, where the feed has all or nothing.                          *)
LEMMA CleanupCleans ==
  ASSUME LineTypes, NEW f \in Feeds, Clean(f) \/ Owned(f), Cleanup(f)
  PROVE  /\ LineTypes' /\ alive' \in BOOLEAN /\ Clean(f)'
         /\ \A g \in Feeds \ {f} : ssl'[g] = ssl[g] /\ held'[g] = held[g]
<1>1. ssl' \in [Feeds -> BOOLEAN] /\ ~ssl'[f] /\ \A g \in Feeds \ {f} : ssl'[g] = ssl[g]
  BY DEF Cleanup, LineTypes
<1>2. held' \in [Feeds -> Nat] /\ held'[f] = 0 /\ \A g \in Feeds \ {f} : held'[g] = held[g]
  <2>1. held \in [Feeds -> Nat] /\ held[f] \in {0, 1}
    BY DEF LineTypes, Clean, Owned
  <2>2. held' = [held EXCEPT ![f] = IF @ > 0 THEN @ - 1 ELSE 0]
    BY DEF Cleanup
  <2>3. held' = [held EXCEPT ![f] = 0]
    <3>1. CASE held[f] = 0
      BY <2>1, <2>2, <3>1
    <3>2. CASE held[f] = 1
      BY <2>1, <2>2, <3>2
    <3>3. QED
      BY <2>1, <3>1, <3>2
  <2>4. QED
    BY <2>1, <2>3
<1>3. line' \in [Feeds -> {"none", "up", "closed", "reset"}]
  BY DEF Cleanup, LineTypes
<1>4. alive' \in BOOLEAN
  BY DEF Cleanup
<1>5. QED
  BY <1>1, <1>2, <1>3, <1>4 DEF LineTypes, Clean

LEMMA GotoMoves ==
  ASSUME FeedTypes, NEW f \in Feeds, NEW to \in Places, Goto(f, to)
  PROVE  /\ pc' \in [Feeds -> Places] /\ pc'[f] = to
         /\ \A g \in Feeds \ {f} : pc'[g] = pc[g]
  BY DEF Goto, FeedTypes

(* What a step of a feed's thread or of its exchange does.                 *)
FeedEffect(f) ==
  /\ UNCHANGED <<g_running, main, turn, running, meshVars>>
  /\ alive' \in BOOLEAN /\ FeedTypes'
  /\ \A g \in Feeds \ {f} : pc'[g] = pc[g] /\ ssl'[g] = ssl[g] /\ held'[g] = held[g]
  /\ pc[f] \in {"off", "ended"} => pc'[f] = pc[f]
  /\ FeedInv(f)'

(* The steps that leave the connection alone.                              *)
LEMMA OnlyMoves ==
  ASSUME IInv, NEW f \in Feeds,
         \/ LoopTest(f) \/ ConnectFails(f) \/ TlsDone(f) \/ UpgradeFails(f)
         \/ UpgradeDone(f) \/ Receive(f) \/ ReadFrame(f) \/ ReadEnds(f)
  PROVE  FeedEffect(f)
<1>0. FeedTypes /\ FeedInv(f) /\ alive \in BOOLEAN
  BY TypeParts DEF IInv, MainTypes
<1>1. /\ UNCHANGED <<ssl, held, line, lines>> /\ alive' \in BOOLEAN
      /\ UNCHANGED <<g_running, main, turn, running, meshVars>>
  BY <1>0 DEF FeedStep, LoopTest, ConnectFails, TlsDone, UpgradeFails, UpgradeDone,
         Receive, ReadFrame, ReadEnds
<1>2. \E to \in Places :
        /\ Goto(f, to)
        /\ pc[f] \notin {"off", "ended"}
        /\ Clean(f) => to \in {"loop", "connect", "ended", "pause"}
        /\ Owned(f) => to \in {"tls", "upgrade", "receive", "reading", "leave", "pause"}
  <2>1. CASE LoopTest(f)
    BY <1>0, <2>1 DEF LoopTest, Places, FeedInv, Clean, Owned
  <2>2. CASE ConnectFails(f)
    BY <1>0, <2>2 DEF ConnectFails, Places, FeedInv, Clean, Owned
  <2>3. CASE TlsDone(f)
    BY <1>0, <2>3 DEF TlsDone, Places, FeedInv, Clean, Owned
  <2>4. CASE UpgradeFails(f)
    BY <1>0, <2>4 DEF UpgradeFails, Places, FeedInv, Clean, Owned
  <2>5. CASE UpgradeDone(f)
    BY <1>0, <2>5 DEF UpgradeDone, Places, FeedInv, Clean, Owned
  <2>6. CASE Receive(f)
    BY <1>0, <2>6 DEF Receive, Places, FeedInv, Clean, Owned
  <2>7. CASE ReadFrame(f)
    BY <1>0, <2>7 DEF ReadFrame, Places, FeedInv, Clean, Owned
  <2>8. CASE ReadEnds(f)
    BY <1>0, <2>8 DEF ReadEnds, Places, FeedInv, Clean, Owned
  <2>9. QED
    BY <2>1, <2>2, <2>3, <2>4, <2>5, <2>6, <2>7, <2>8
<1>3. PICK to \in Places :
        /\ Goto(f, to)
        /\ pc[f] \notin {"off", "ended"}
        /\ Clean(f) => to \in {"loop", "connect", "ended", "pause"}
        /\ Owned(f) => to \in {"tls", "upgrade", "receive", "reading", "leave", "pause"}
  BY <1>2
<1>4. /\ pc' \in [Feeds -> Places] /\ pc'[f] = to
      /\ \A g \in Feeds \ {f} : pc'[g] = pc[g]
  BY <1>0, <1>3, GotoMoves
<1>5. Clean(f) \/ Owned(f)
  BY <1>0 DEF FeedInv, FeedTypes, Places
<1>6. FeedInv(f)'
  BY <1>1, <1>3, <1>4, <1>5 DEF FeedInv, Clean, Owned
<1>7. FeedTypes'
  BY <1>0, <1>1, <1>4 DEF FeedTypes, LineTypes
<1>8. QED
  BY <1>1, <1>3, <1>4, <1>6, <1>7 DEF FeedEffect

(* The steps that open or close the connection.                            *)
LEMMA ConnectEffect ==
  ASSUME IInv, NEW f \in Feeds, Connect(f)
  PROVE  FeedEffect(f)
<1>0. FeedTypes /\ Clean(f) /\ alive \in BOOLEAN
  BY TypeParts DEF IInv, MainTypes, FeedInv, Connect
<1>1. /\ pc' \in [Feeds -> Places] /\ pc'[f] = "tls" /\ pc[f] = "connect"
      /\ \A g \in Feeds \ {f} : pc'[g] = pc[g]
  BY <1>0, GotoMoves DEF Connect, Places
<1>2. ssl' \in [Feeds -> BOOLEAN] /\ ssl'[f] /\ \A g \in Feeds \ {f} : ssl'[g] = ssl[g]
  BY <1>0 DEF Connect, FeedTypes, LineTypes
<1>3. held' \in [Feeds -> Nat] /\ held'[f] = 1 /\ \A g \in Feeds \ {f} : held'[g] = held[g]
  BY <1>0 DEF Connect, FeedTypes, LineTypes, Clean
<1>4. line' \in [Feeds -> {"none", "up", "closed", "reset"}]
  BY <1>0 DEF Connect, FeedTypes, LineTypes
<1>5. lines' \in [Feeds -> 0..MaxLines]
  <2>1. lines \in [Feeds -> 0..MaxLines] /\ lines[f] < MaxLines
        /\ lines' = [lines EXCEPT ![f] = @ + 1]
    BY <1>0 DEF Connect, FeedTypes
  <2>2. lines[f] + 1 \in 0..MaxLines
    BY <2>1, EngineAssumption
  <2>3. QED
    BY <2>1, <2>2
<1>6. UNCHANGED <<alive, g_running, main, turn, running, meshVars>>
  BY DEF Connect, FeedStep
<1>7. FeedInv(f)'
  BY <1>1, <1>2, <1>3 DEF FeedInv, Clean, Owned
<1>8. QED
  BY <1>0, <1>1, <1>2, <1>3, <1>4, <1>5, <1>6, <1>7 DEF FeedEffect, FeedTypes, LineTypes

LEMMA TlsFailsEffect ==
  ASSUME IInv, NEW f \in Feeds, TlsFails(f)
  PROVE  FeedEffect(f)
<1>0. FeedTypes /\ Owned(f) /\ alive \in BOOLEAN
  BY TypeParts DEF IInv, MainTypes, FeedInv, TlsFails
<1>1. /\ pc' \in [Feeds -> Places] /\ pc'[f] = "pause" /\ pc[f] = "tls"
      /\ \A g \in Feeds \ {f} : pc'[g] = pc[g]
  BY <1>0, GotoMoves DEF TlsFails, Places
<1>2. ssl' \in [Feeds -> BOOLEAN] /\ ~ssl'[f] /\ \A g \in Feeds \ {f} : ssl'[g] = ssl[g]
  BY <1>0 DEF TlsFails, FeedTypes, LineTypes
<1>3. held' \in [Feeds -> Nat] /\ held'[f] = 0 /\ \A g \in Feeds \ {f} : held'[g] = held[g]
  BY <1>0 DEF TlsFails, FeedTypes, LineTypes, Owned
<1>4. line' \in [Feeds -> {"none", "up", "closed", "reset"}]
  BY <1>0 DEF TlsFails, FeedTypes, LineTypes
<1>5. UNCHANGED <<alive, lines, g_running, main, turn, running, meshVars>>
  BY DEF TlsFails, FeedStep
<1>6. FeedInv(f)'
  BY <1>1, <1>2, <1>3 DEF FeedInv, Clean, Owned
<1>7. QED
  BY <1>0, <1>1, <1>2, <1>3, <1>4, <1>5, <1>6 DEF FeedEffect, FeedTypes, LineTypes

LEMMA CleanupEffect ==
  ASSUME IInv, NEW f \in Feeds, Reconnect(f) \/ Leave(f)
  PROVE  FeedEffect(f)
<1>0. FeedTypes /\ (Clean(f) \/ Owned(f))
  BY TypeParts DEF IInv, FeedInv, Reconnect, Leave
<1>1. /\ pc' \in [Feeds -> Places] /\ pc'[f] = "loop" /\ pc[f] \in {"pause", "leave"}
      /\ \A g \in Feeds \ {f} : pc'[g] = pc[g]
  BY <1>0, GotoMoves DEF Reconnect, Leave, Places
<1>2. Cleanup(f) /\ UNCHANGED <<lines, g_running, main, turn, running, meshVars>>
  BY DEF Reconnect, Leave, FeedStep
<1>3. /\ LineTypes' /\ alive' \in BOOLEAN /\ Clean(f)'
      /\ \A g \in Feeds \ {f} : ssl'[g] = ssl[g] /\ held'[g] = held[g]
  BY <1>0, <1>2, CleanupCleans DEF FeedTypes
<1>4. FeedInv(f)'
  BY <1>1, <1>3 DEF FeedInv
<1>5. QED
  BY <1>0, <1>1, <1>2, <1>3, <1>4 DEF FeedEffect, FeedTypes

LEMMA ThreadEffect ==
  ASSUME IInv, NEW f \in Feeds, FeedThread(f)
  PROVE  FeedEffect(f)
  BY OnlyMoves, ConnectEffect, TlsFailsEffect, CleanupEffect DEF FeedThread

LEMMA ExchangeEffect ==
  ASSUME IInv, NEW f \in Feeds, ExchangeEnds(f)
  PROVE  FeedEffect(f)
<1>0. FeedTypes /\ FeedInv(f) /\ alive \in BOOLEAN
  BY TypeParts DEF IInv, MainTypes
<1>1. UNCHANGED <<alive, pc, ssl, held, lines, g_running, main, turn, running, meshVars>>
  BY DEF ExchangeEnds, FeedStep
<1>2. line' \in [Feeds -> {"none", "up", "closed", "reset"}]
  BY <1>0 DEF ExchangeEnds, FeedTypes, LineTypes
<1>3. QED
  BY <1>0, <1>1, <1>2 DEF FeedEffect, FeedTypes, LineTypes, FeedInv, Clean, Owned

LEMMA FeedIInv ==
  ASSUME IInv, NEW f \in Feeds, FeedEffect(f)
  PROVE  IInv'
<1>1. \A g \in Feeds : FeedInv(g)'
  <2>1. ASSUME NEW g \in Feeds, g # f
        PROVE  FeedInv(g)'
    BY <2>1 DEF IInv, FeedEffect, FeedInv, Clean, Owned
  <2>2. QED
    BY <2>1 DEF FeedEffect
<1>2. \A g \in Feeds : pc[g] \in {"off", "ended"} => pc'[g] = pc[g]
  BY DEF FeedEffect
<1>3. MainInv'
  BY <1>2 DEF IInv, MainInv, FeedsEnded, FeedsOff, FeedEffect, meshVars
<1>4. TypeOK'
  BY TypeParts DEF IInv, FeedEffect, MainTypes, MeshTypes, meshVars
<1>5. QED
  BY <1>1, <1>3, <1>4 DEF IInv

-----------------------------------------------------------------------------

(* What a step of the mesh node's threads or of the peer does.             *)
LEMMA MeshEffect ==
  ASSUME MeshTypes, alive \in BOOLEAN,
         EventThread \/ PeerResets \/ \E b \in Broadcasters : Broadcast(b)
  PROVE  /\ UNCHANGED <<g_running, main, turn, feedVars, mesh, listening>>
         /\ epc \in {"off", "ended"} => epc' = epc
         /\ \A b \in Broadcasters : bpc[b] \in {"off", "ended"} => bpc'[b] = bpc[b]
         /\ MeshTypes' /\ alive' \in BOOLEAN
<1>1. accepted \in 0..MaxPeers /\ accepted < MaxPeers => accepted + 1 \in 0..MaxPeers
  BY EngineAssumption
<1>2. CASE EventThread
  BY <1>1, <1>2 DEF EventThread, EventTest, EventTimeout, EventListen, EventRead,
         AcceptPeer, AcceptDone, MeshStep, MeshTypes
<1>3. CASE PeerResets
  BY <1>3 DEF PeerResets, MeshStep, MeshTypes
<1>4. CASE \E b \in Broadcasters : Broadcast(b)
  <2>1. PICK b \in Broadcasters : Broadcast(b)
    BY <1>4
  <2>2. /\ bpc' \in [Broadcasters -> {"off", "sleep", "ended"}]
        /\ \A c \in Broadcasters : bpc[c] \in {"off", "ended"} => bpc'[c] = bpc[c]
    BY <2>1 DEF Broadcast, MeshTypes
  <2>3. QED
    BY <2>1, <2>2 DEF Broadcast, MeshStep, MeshTypes
<1>5. QED
  BY <1>2, <1>3, <1>4

LEMMA MeshIInv ==
  ASSUME IInv, EventThread \/ PeerResets \/ \E b \in Broadcasters : Broadcast(b)
  PROVE  IInv'
<1>1. /\ UNCHANGED <<g_running, main, turn, feedVars, mesh, listening>>
      /\ epc \in {"off", "ended"} => epc' = epc
      /\ \A b \in Broadcasters : bpc[b] \in {"off", "ended"} => bpc'[b] = bpc[b]
      /\ MeshTypes' /\ alive' \in BOOLEAN
  BY TypeParts, MeshEffect DEF IInv, MainTypes
<1>2. \A f \in Feeds : FeedInv(f)'
  BY <1>1 DEF IInv, feedVars, FeedInv, Clean, Owned
<1>3. MainInv'
  BY <1>1 DEF IInv, feedVars, MainInv, FeedsEnded, FeedsOff
<1>4. TypeOK'
  BY <1>1, TypeParts DEF IInv, feedVars, MainTypes, FeedTypes, LineTypes
<1>5. QED
  BY <1>2, <1>3, <1>4 DEF IInv

-----------------------------------------------------------------------------

LEMMA JoinFeedIInv ==
  ASSUME IInv, JoinFeed
  PROVE  IInv'
<1>1. /\ MainTypes /\ FeedTypes /\ MeshTypes /\ turn \in Feeds
      /\ \A f \in Feeds : FeedInv(f)
  BY TypeParts DEF IInv, MainTypes
<1>2. /\ Cleanup(turn) /\ pc[turn] = "ended" /\ main = "join feed"
      /\ UNCHANGED <<g_running, pc, running, lines, meshVars>>
  BY DEF JoinFeed, MainStep, meshVars
<1>3. Clean(turn) /\ LineTypes
  BY <1>1, <1>2 DEF FeedInv, FeedTypes
<1>4. /\ LineTypes' /\ alive' \in BOOLEAN
      /\ ~ssl'[turn] /\ held'[turn] = 0
      /\ \A g \in Feeds \ {turn} : ssl'[g] = ssl[g] /\ held'[g] = held[g]
  <2>1. ASSUME NEW f \in Feeds, f = turn
        PROVE  /\ LineTypes' /\ alive' \in BOOLEAN
               /\ ~ssl'[f] /\ held'[f] = 0
               /\ \A g \in Feeds \ {f} : ssl'[g] = ssl[g] /\ held'[g] = held[g]
    <3>1. Cleanup(f) /\ Clean(f)
      BY <1>2, <1>3, <2>1
    <3>2. QED
      BY <1>3, <3>1, CleanupCleans DEF Clean
  <2>2. QED
    BY <1>1, <2>1
<1>5. \A f \in Feeds : FeedInv(f)'
  BY <1>1, <1>2, <1>4 DEF FeedInv, Clean, Owned
<1>6. \A f \in Feeds : f <= turn => pc[f] = "ended"
  <2>1. \A f \in Feeds : f < turn => pc[f] = "ended"
    BY <1>2 DEF IInv, MainInv
  <2>2. \A f \in Feeds : f <= turn => f < turn \/ f = turn
    BY <1>1, EngineAssumption DEF Feeds
  <2>3. QED
    BY <1>2, <2>1, <2>2
<1>7. /\ turn' \in Feeds /\ main' \in {"stop feed", "stop mesh"}
      /\ main' = "stop feed" => \A f \in Feeds : f < turn' => pc'[f] = "ended"
      /\ main' = "stop mesh" => \A f \in Feeds : pc'[f] = "ended"
  <2>1. CASE turn < NumFeeds
    <3>1. turn' = turn + 1 /\ main' = "stop feed" /\ pc' = pc
      BY <1>2, <2>1 DEF JoinFeed
    <3>2. turn + 1 \in Feeds /\ \A f \in Feeds : f < turn + 1 => f <= turn
      BY <1>1, <2>1, EngineAssumption DEF Feeds
    <3>3. QED
      BY <1>6, <3>1, <3>2
  <2>2. CASE ~(turn < NumFeeds)
    <3>1. turn' = turn /\ main' = "stop mesh" /\ pc' = pc
      BY <1>2, <2>2 DEF JoinFeed
    <3>2. \A f \in Feeds : f <= turn
      BY <1>1, <2>2, EngineAssumption DEF Feeds
    <3>3. QED
      BY <1>1, <1>6, <3>1, <3>2
  <2>3. QED
    BY <2>1, <2>2
<1>8. MainInv'
  BY <1>7 DEF MainInv, FeedsEnded
<1>9. TypeOK'
  BY <1>1, <1>2, <1>4, <1>7, TypeParts DEF MainTypes, FeedTypes, MeshTypes, meshVars
<1>10. QED
  BY <1>5, <1>8, <1>9 DEF IInv

(* The other steps of the main thread leave the feeds' connections alone.  *)
LEMMA MainIInv ==
  ASSUME IInv, MainThread \/ sigHandler
  PROVE  IInv'
<1>0. MainTypes /\ FeedTypes /\ MeshTypes /\ \A f \in Feeds : FeedInv(f)
  BY TypeParts DEF IInv
<1>1. CASE JoinFeed
  BY <1>1, JoinFeedIInv
<1>2. CASE Start
  <2>1. /\ UNCHANGED <<alive, g_running, turn, ssl, held, line, lines, peer, accepted>>
        /\ main = "init" /\ main' = "run" /\ mesh' = TRUE /\ listening' = TRUE /\ epc' = "loop"
    BY <1>2 DEF Start, MainStep
  <2>2. /\ pc' \in [Feeds -> Places] /\ \A f \in Feeds : pc'[f] = "loop"
        /\ running' \in [Feeds -> BOOLEAN]
        /\ bpc' \in [Broadcasters -> {"off", "sleep", "ended"}]
    BY <1>2 DEF Start, Places
  <2>3. \A f \in Feeds : pc[f] = "off"
    BY <2>1 DEF IInv, MainInv, FeedsOff
  <2>4. \A f \in Feeds : FeedInv(f)'
    BY <1>0, <2>1, <2>2, <2>3 DEF FeedInv, Clean
  <2>5. TypeOK'
    BY <1>0, <2>1, <2>2, TypeParts DEF MainTypes, FeedTypes, LineTypes, MeshTypes
  <2>6. MainInv'
    BY <2>1 DEF IInv, MainInv
  <2>7. QED
    BY <2>4, <2>5, <2>6 DEF IInv
<1>3. CASE InitFails \/ LeaveRun \/ StopFeed \/ StopMesh \/ CloseMesh \/ JoinMesh \/ sigHandler
  <2>1. UNCHANGED <<alive, turn, pc, ssl, held, line, lines, epc, bpc, peer, accepted>>
    BY <1>3 DEF InitFails, LeaveRun, StopFeed, StopMesh, CloseMesh, JoinMesh, sigHandler,
           MainStep, feedVars, meshVars
  <2>2. running' \in [Feeds -> BOOLEAN]
    BY <1>0, <1>3 DEF MainTypes, InitFails, LeaveRun, StopFeed, StopMesh, CloseMesh,
           JoinMesh, sigHandler, feedVars
  <2>3. g_running' \in BOOLEAN /\ mesh' \in BOOLEAN /\ listening' \in BOOLEAN
    BY <1>0, <1>3 DEF MainTypes, InitFails, LeaveRun, StopFeed, StopMesh, CloseMesh,
           JoinMesh, sigHandler, meshVars
  <2>4. MainInv' /\ main' \in {"init", "run", "stop feed", "join feed", "stop mesh",
                               "close mesh", "join mesh", "exit"}
    <3>1. CASE InitFails
      BY <2>1, <3>1 DEF IInv, MainInv, FeedsEnded, FeedsOff, InitFails
    <3>2. CASE LeaveRun
      <4>1. turn = 1
        BY <1>0, <3>2 DEF IInv, MainInv, LeaveRun
      <4>2. \A f \in Feeds : ~(f < 1)
        BY EngineAssumption DEF Feeds
      <4>3. QED
        BY <2>1, <3>2, <4>1, <4>2 DEF MainInv, LeaveRun
    <3>3. CASE StopFeed
      BY <2>1, <3>3 DEF IInv, MainInv, StopFeed
    <3>4. CASE StopMesh
      BY <2>1, <3>4 DEF IInv, MainInv, FeedsEnded, StopMesh
    <3>5. CASE CloseMesh
      BY <2>1, <3>5 DEF IInv, MainInv, FeedsEnded, CloseMesh
    <3>6. CASE JoinMesh
      BY <2>1, <3>6 DEF IInv, MainInv, FeedsEnded, JoinMesh
    <3>7. CASE sigHandler
      BY <1>0, <2>1, <3>7 DEF IInv, MainInv, FeedsEnded, FeedsOff, MainTypes, sigHandler,
             meshVars
    <3>8. QED
      BY <1>3, <3>1, <3>2, <3>3, <3>4, <3>5, <3>6, <3>7
  <2>5. \A f \in Feeds : FeedInv(f)'
    BY <1>0, <2>1 DEF FeedInv, Clean, Owned
  <2>6. TypeOK'
    BY <1>0, <2>1, <2>2, <2>3, <2>4, TypeParts DEF MainTypes, FeedTypes, LineTypes, MeshTypes
  <2>7. QED
    BY <2>4, <2>5, <2>6 DEF IInv
<1>4. QED
  BY <1>1, <1>2, <1>3 DEF MainThread

LEMMA NextIInv == IInv /\ [Next]_vars => IInv'
<1> SUFFICES ASSUME IInv, [Next]_vars PROVE IInv'
  OBVIOUS
<1>1. CASE MainThread \/ sigHandler
  BY <1>1, MainIInv
<1>2. CASE EventThread \/ PeerResets \/ \E b \in Broadcasters : Broadcast(b)
  BY <1>2, MeshIInv
<1>3. CASE \E f \in Feeds : FeedThread(f) \/ ExchangeEnds(f)
  BY <1>3, ThreadEffect, ExchangeEffect, FeedIInv
<1>4. CASE UNCHANGED vars
  <2>1. TypeOK' /\ \A f \in Feeds : FeedInv(f)'
    BY <1>4, TypeParts DEF IInv, vars, feedVars, meshVars, MainTypes, FeedTypes, LineTypes,
           MeshTypes, FeedInv, Clean, Owned
  <2>2. MainInv'
    BY <1>4 DEF IInv, vars, feedVars, meshVars, MainInv, FeedsEnded, FeedsOff
  <2>3. QED
    BY <2>1, <2>2 DEF IInv
<1>5. QED
  BY <1>1, <1>2, <1>3, <1>4 DEF Next

LEMMA EngineInvariant == Spec => []IInv
  BY InitIInv, NextIInv, PTL DEF Spec

(* The program counters, flags and counts of every thread are well formed. *)
THEOREM TypeCorrect == Spec => []TypeOK
<1>1. IInv => TypeOK
  BY DEF IInv
<1>2. QED
  BY <1>1, EngineInvariant, PTL

(* stop() takes nothing away from a feed that may be reading, whenever the *)
(* signal comes and whatever the exchange does.                            *)
THEOREM FeedsOwnTheirSockets == Spec => []FeedOwnsItsSocket
<1>1. IInv => FeedOwnsItsSocket
  BY DEF IInv, FeedInv, Owned, FeedOwnsItsSocket
<1>2. QED
  BY <1>1, EngineInvariant, PTL

(* A feed begins every attempt without a socket or a session of an earlier *)
(* one, however that failed.                                               *)
THEOREM AttemptsAreClean == Spec => []AttemptsStartClean
<1>1. IInv => AttemptsStartClean
  BY DEF IInv, FeedInv, Clean, AttemptsStartClean
<1>2. QED
  BY <1>1, EngineInvariant, PTL

(* When main leaves, every thread it started has ended, and every socket   *)
(* of the feeds is closed.                                                 *)
THEOREM StoppedEngineIsQuiet == Spec => []StoppedIsQuiet
<1>1. IInv => StoppedIsQuiet
  BY DEF IInv, MainInv, FeedsEnded, FeedsOff, FeedInv, Clean, StoppedIsQuiet
<1>2. QED
  BY <1>1, EngineInvariant, PTL
=============================================================================
