----------------------------- MODULE SCPProofs -----------------------------
(***************************************************************************)
(* Theorems about SCP, for every set of words, orders and reports, every   *)
(* involution Swap, and every bound.                                       *)
(*                                                                         *)
(* The argument: a frame can only pass the CRC if its CRC was computed     *)
(* over its content, and contents whose CRCs exist are those of messages   *)
(* sent and of decoys (FramesKnown).  A decoy keeps its type in its CRC's  *)
(* content, so that what passes and is not a decoy is a message, as its    *)
(* sender meant it.                                                        *)
(***************************************************************************)
EXTENDS SCP, TLAPS

(* A message's frame is a frame, and is read as the message.               *)
LEMMA RealFrameType ==
  ASSUME NEW m \in Msg
  PROVE  /\ ContentOf(m) \in Content
         /\ RealFrame(m) \in SCPFrame
  BY SwapAssumption DEF Msg, Content, SCPFrame, RealFrame, ContentOf, Generate

LEMMA ReadOfContent ==
  ASSUME NEW m \in Msg
  PROVE  Read(ContentOf(m)) = AsRead(m)
<1>1. Swap[Swap[m.quantity]] = m.quantity
  BY SwapAssumption DEF Msg
<1>2. QED
  BY <1>1 DEF Read, ContentOf, AsRead, Msg

LEMMA DecoysAreFrames == \A f \in Decoys : f \in SCPFrame /\ CrcKnown(f)
<1>1. ASSUME NEW c \in DecoyContents
      PROVE  c \in Content /\ c.type = "DECOY"
  BY <1>1, SwapAssumption, ScpBoundAssumption
     DEF DecoyContents, Content, Seqs, NoTag, Generate, MsgType
<1>2. ASSUME NEW f \in Decoys
      PROVE  \E c \in DecoyContents : f = [content |-> c, crc |-> c]
                                      \/ f = [content |-> c, crc |-> NoCRC]
  BY <1>2 DEF Decoys
<1>3. ASSUME NEW f \in Decoys
      PROVE  f \in SCPFrame /\ CrcKnown(f)
  <2>1. PICK c \in DecoyContents : f = [content |-> c, crc |-> c]
                                   \/ f = [content |-> c, crc |-> NoCRC]
    BY <1>2
  <2>2. QED
    BY <1>1, <2>1 DEF SCPFrame, CrcKnown
<1>4. QED
  BY <1>3

LEMMA DamagedAreFrames ==
  ASSUME NEW f \in SCPFrame, NEW g \in Damaged(f)
  PROVE  g \in SCPFrame /\ (g.crc = f.crc \/ g.crc = NoCRC)
<1>1. f.content \in Content /\ (f.content.seq + 1) % (MaxReal + 1) \in Seqs
  BY ScpBoundAssumption DEF SCPFrame, Content, Seqs
<1>2. CASE g = [f EXCEPT !.content.ethertype = "other"]
  BY <1>1, <1>2 DEF SCPFrame, Content
<1>3. CASE g = [f EXCEPT !.content.tag = NoTag]
  BY <1>1, <1>3 DEF SCPFrame, Content
<1>4. CASE g = [f EXCEPT !.crc = NoCRC]
  BY <1>1, <1>4 DEF SCPFrame
<1>5. CASE g = [f EXCEPT !.content.quantity = Swap[@]]
  BY <1>1, <1>5, SwapAssumption DEF SCPFrame, Content
<1>6. CASE g = [f EXCEPT !.content.seq = (@ + 1) % (MaxReal + 1)]
  BY <1>1, <1>6 DEF SCPFrame, Content
<1>7. CASE \E t \in MsgType : g = [f EXCEPT !.content.type = t]
  BY <1>1, <1>7 DEF SCPFrame, Content
<1>8. QED
  BY <1>2, <1>3, <1>4, <1>5, <1>6, <1>7 DEF Damaged

(* What put does to the datagrams on their way.                            *)
LEMMA PutAdds ==
  ASSUME NEW f, Put(f)
  PROVE  net' \subseteq net \cup {f}
  BY DEF Put

(* Where the messages sent go: SendReal with what is sent and its type.    *)
LEMMA SendsMessage ==
  ASSUME TypeOK, SendCapability \/ SendHeartbeat \/ SendExecRequest
  PROVE  \E m \in Msg : /\ m.type \in {"EXEC_REQUEST", "CAPABILITY", "HEARTBEAT"}
                        /\ sent' = sent \cup {m} /\ net' \subseteq net \cup {RealFrame(m)}
                        /\ real_seq' \in Seqs
<1>1. ASSUME NEW t \in {"EXEC_REQUEST", "CAPABILITY", "HEARTBEAT"},
             NEW i \in Words, NEW q \in Words, SendReal(t, i, q)
      PROVE  \E m \in Msg : /\ m.type = t
                            /\ sent' = sent \cup {m} /\ net' \subseteq net \cup {RealFrame(m)}
                            /\ real_seq' \in Seqs
  <2> DEFINE m == [type |-> t, seq |-> real_seq, instrument |-> i, quantity |-> q]
  <2>1. m \in Msg /\ m.type = t
    BY DEF TypeOK, Msg, MsgType
  <2>2. sent' = sent \cup {m} /\ Put(RealFrame(m)) /\ real_seq' \in Seqs
    BY <1>1, ScpBoundAssumption DEF SendReal, TypeOK, Seqs
  <2>3. net' \subseteq net \cup {RealFrame(m)}
    BY <2>2, PutAdds
  <2>4. QED
    BY <2>1, <2>2, <2>3
<1>2. CASE SendCapability
  BY <1>1, <1>2, SwapAssumption, ArgumentAssumption DEF SendCapability
<1>3. CASE SendHeartbeat
  BY <1>1, <1>3, SwapAssumption DEF SendHeartbeat
<1>4. CASE SendExecRequest
  BY <1>1, <1>4, ArgumentAssumption DEF SendExecRequest
<1>5. QED
  BY <1>2, <1>3, <1>4

-----------------------------------------------------------------------------

(* The inductive invariant.                                                *)
IInv == TypeOK /\ FramesKnown /\ SentTypes

LEMMA InitIInv == Init => IInv
<1> SUFFICES ASSUME Init PROVE IInv
  OBVIOUS
<1>1. real_seq \in Seqs /\ starts \in 0..MaxStarts
  BY ScpBoundAssumption DEF Init, Seqs
<1>2. stats \in [Counters -> Nat]
  BY DEF Init
<1>3. TypeOK
  BY <1>1, <1>2 DEF Init, TypeOK
<1>4. QED
  BY <1>3 DEF Init, IInv, FramesKnown, SentTypes

(* A step of the sender that sends nothing, or of the decoys' thread.      *)
LEMMA QuietSender ==
  ASSUME IInv, Start \/ Quit \/ JoinAndClose \/ Die \/ ChaffCheck
  PROVE  IInv' /\ UNCHANGED <<net, sent, receiverVars>>
<1>1. UNCHANGED <<net, sent, receiverVars>>
  BY DEF Start, Quit, JoinAndClose, Die, ChaffCheck, receiverVars
<1>2. real_seq' \in Seqs /\ starts' \in 0..MaxStarts
  BY ScpBoundAssumption
     DEF IInv, TypeOK, Seqs, Start, Quit, JoinAndClose, Die, ChaffCheck
<1>3. /\ mpc' \in {"off", "capability", "heartbeat", "menu", "join"}
      /\ cpc' \in {"off", "check", "send", "done"}
      /\ running' \in BOOLEAN /\ sock' \in {"open", "closed"}
  <2>1. CASE Start
    BY <2>1 DEF Start
  <2>2. CASE Quit \/ JoinAndClose \/ Die \/ ChaffCheck
    BY <2>2 DEF IInv, TypeOK, Quit, JoinAndClose, Die, ChaffCheck
  <2>3. QED
    BY <2>1, <2>2
<1>4. TypeOK'
  BY <1>1, <1>2, <1>3 DEF IInv, TypeOK, receiverVars
<1>5. FramesKnown' /\ SentTypes'
  BY <1>1 DEF IInv, FramesKnown, SentTypes, CrcKnown
<1>6. QED
  BY <1>1, <1>4, <1>5 DEF IInv

LEMMA ChaffSendIInv ==
  ASSUME IInv, ChaffSend
  PROVE  IInv' /\ UNCHANGED <<sent, receiverVars>>
<1>1. UNCHANGED <<mpc, running, sock, real_seq, starts, sent, receiverVars>> /\ cpc' = "check"
  BY DEF ChaffSend
<1>2. PICK f \in Decoys : net' \subseteq net \cup {f}
  BY PutAdds DEF ChaffSend
<1>3. f \in SCPFrame /\ CrcKnown(f)
  BY DecoysAreFrames
<1>4. TypeOK'
  BY <1>1, <1>2, <1>3 DEF IInv, TypeOK, receiverVars
<1>5. FramesKnown' /\ SentTypes'
  BY <1>1, <1>2, <1>3 DEF IInv, FramesKnown, SentTypes, CrcKnown
<1>6. QED
  BY <1>1, <1>4, <1>5 DEF IInv

LEMMA SendIInv ==
  ASSUME IInv, Hello \/ Command
  PROVE  /\ IInv'
         /\ sent \subseteq sent' /\ sent' \subseteq Msg
         /\ UNCHANGED receiverVars
<1>1. PICK m \in Msg : /\ m.type \in {"EXEC_REQUEST", "CAPABILITY", "HEARTBEAT"}
                       /\ sent' = sent \cup {m} /\ net' \subseteq net \cup {RealFrame(m)}
                       /\ real_seq' \in Seqs
  BY SendsMessage DEF IInv, Hello, Command
<1>2. RealFrame(m) \in SCPFrame
  BY RealFrameType
<1>3. /\ UNCHANGED <<cpc, running, sock, starts, receiverVars>>
      /\ mpc' \in {"heartbeat", "menu"}
  BY DEF Hello, Command
<1>4. TypeOK'
  BY <1>1, <1>2, <1>3 DEF IInv, TypeOK, receiverVars
<1>5. FramesKnown'
  BY <1>1 DEF IInv, FramesKnown, CrcKnown, RealFrame
<1>6. SentTypes'
  BY <1>1 DEF IInv, SentTypes
<1>7. QED
  BY <1>1, <1>3, <1>4, <1>5, <1>6 DEF IInv, TypeOK

LEMMA NetworkIInv ==
  ASSUME IInv, NEW f \in net, Lose(f) \/ Corrupt(f)
  PROVE  IInv' /\ UNCHANGED <<senderVars, receiverVars>>
<1>1. UNCHANGED <<senderVars, receiverVars>>
  BY DEF Lose, Corrupt
<1>2. f \in SCPFrame /\ CrcKnown(f)
  BY DEF IInv, TypeOK, FramesKnown
<1>3. \A g \in net' : g \in net \/ (g \in SCPFrame /\ CrcKnown(g))
  <2>1. CASE Lose(f)
    BY <2>1 DEF Lose
  <2>2. CASE Corrupt(f)
    <3>1. PICK g \in Damaged(f) : net' = (net \ {f}) \cup {g}
      BY <2>2 DEF Corrupt
    <3>2. g \in SCPFrame /\ CrcKnown(g)
      BY <1>2, DamagedAreFrames DEF CrcKnown
    <3>3. QED
      BY <3>1, <3>2
  <2>3. QED
    BY <2>1, <2>2
<1>4. TypeOK'
  BY <1>1, <1>3 DEF IInv, TypeOK, senderVars, receiverVars
<1>5. FramesKnown' /\ SentTypes'
  BY <1>1, <1>3 DEF IInv, FramesKnown, SentTypes, CrcKnown, senderVars
<1>6. QED
  BY <1>1, <1>4, <1>5 DEF IInv

(* What passes the CRC and is not a decoy is a message that was sent.      *)
LEMMA IntactIsSent ==
  ASSUME IInv, NEW f \in net, Intact(f), f.content.type # "DECOY"
  PROVE  \E m \in sent : f.content = ContentOf(m)
<1>1. f.content \in Content /\ CrcKnown(f)
  BY DEF IInv, TypeOK, FramesKnown, SCPFrame
<1>2. QED
  BY <1>1, NoCRCAssumption DEF CrcKnown, Intact

LEMMA HandledIsSent ==
  ASSUME IInv, NEW f \in net, Handle(f)
  PROVE  got' \subseteq got \cup {AsRead(m) : m \in sent}
<1>1. CASE f.content.type \in {"DECOY", "OTHER"}
  BY <1>1 DEF Handle
<1>2. CASE f.content.type \notin {"DECOY", "OTHER"}
  <2>1. PICK m \in sent : f.content = ContentOf(m)
    BY <1>2, IntactIsSent DEF Handle
  <2>2. Read(f.content) = AsRead(m)
    BY <2>1, ReadOfContent DEF IInv, TypeOK
  <2>3. QED
    BY <1>2, <2>2 DEF Handle
<1>3. QED
  BY <1>1, <1>2

LEMMA AsReadType == \A m \in Msg : AsRead(m) \in Msg
  BY SwapAssumption DEF AsRead, Msg

LEMMA CountType ==
  ASSUME TypeOK, NEW names, Count(names)
  PROVE  stats' \in [Counters -> Nat]
  BY DEF TypeOK, Count

LEMMA ReceiveIInv ==
  ASSUME IInv, NEW f \in net, Receive(f)
  PROVE  /\ IInv' /\ UNCHANGED senderVars
         /\ got \subseteq got' /\ got' \subseteq got \cup {AsRead(m) : m \in sent}
<1>1. UNCHANGED <<senderVars, receiving>> /\ net' \subseteq net
  BY DEF Receive
<1>2. stats' \in [Counters -> Nat]
  BY CountType DEF Receive, process_frame, Discard, BadCRC, Handle, IInv
<1>3. got \subseteq got' /\ got' \subseteq got \cup {AsRead(m) : m \in sent}
  <2>1. CASE Discard(f) \/ BadCRC(f)
    BY <2>1 DEF Discard, BadCRC
  <2>2. CASE Handle(f)
    BY <2>2, HandledIsSent DEF Handle
  <2>3. QED
    BY <2>1, <2>2 DEF Receive, process_frame
<1>4. TypeOK'
  BY <1>1, <1>2, <1>3, AsReadType DEF IInv, TypeOK, senderVars
<1>5. FramesKnown' /\ SentTypes'
  BY <1>1 DEF IInv, FramesKnown, SentTypes, CrcKnown, senderVars
<1>6. QED
  BY <1>1, <1>3, <1>4, <1>5 DEF IInv

LEMMA ReceiveFailsIInv ==
  ASSUME IInv, ReceiveFails
  PROVE  IInv' /\ UNCHANGED <<senderVars, stats, got>>
  BY DEF IInv, TypeOK, FramesKnown, SentTypes, CrcKnown, ReceiveFails, senderVars

LEMMA StutterIInv ==
  ASSUME IInv, UNCHANGED vars
  PROVE  IInv'
  BY DEF IInv, TypeOK, FramesKnown, SentTypes, CrcKnown, vars, senderVars, receiverVars

LEMMA NextIInv == IInv /\ [Next]_vars => IInv'
<1> SUFFICES ASSUME IInv, [Next]_vars PROVE IInv'
  OBVIOUS
<1>1. CASE Start \/ Quit \/ JoinAndClose \/ Die \/ ChaffCheck
  BY <1>1, QuietSender
<1>2. CASE ChaffSend
  BY <1>2, ChaffSendIInv
<1>3. CASE Hello \/ Command
  BY <1>3, SendIInv
<1>4. CASE \E f \in net : Lose(f) \/ Corrupt(f)
  BY <1>4, NetworkIInv
<1>5. CASE \E f \in net : Receive(f)
  BY <1>5, ReceiveIInv
<1>6. CASE ReceiveFails
  BY <1>6, ReceiveFailsIInv
<1>7. CASE UNCHANGED vars
  BY <1>7, StutterIInv
<1>8. QED
  BY <1>1, <1>2, <1>3, <1>4, <1>5, <1>6, <1>7 DEF Next

(* Whatever the network and the decoys do, the CRC of a frame on its way   *)
(* is that of a message sent, of a decoy or of nothing.                    *)
THEOREM FramesStayKnown == Spec => []IInv
  BY InitIInv, NextIInv, PTL DEF Spec

(* The sender's and the receiver's state and the frames are well formed,   *)
(* however frames are damaged.                                             *)
THEOREM TypeCorrect == Spec => []TypeOK
<1>1. IInv => TypeOK
  BY DEF IInv
<1>2. QED
  BY <1>1, FramesStayKnown, PTL

-----------------------------------------------------------------------------

GotIsSent == got \subseteq {AsRead(m) : m \in sent}

(* The link implements the unreliable datagram channel: what the handlers  *)
(* of the receiver are given was sent.                                     *)
THEOREM LinkIsChannel == Spec => ImplementsChannel
<1> DEFINE read == {AsRead(m) : m \in sent}
<1>1. Init => Channel!Init
  BY DEF Init, Channel!Init
<1>2. IInv /\ GotIsSent /\ [Next]_vars
        => GotIsSent' /\ [Channel!Next]_(Channel!vars)
  <2> SUFFICES ASSUME IInv, got \subseteq read, [Next]_vars
               PROVE  got' \subseteq read' /\ [Channel!Next]_(Channel!vars)
    BY DEF GotIsSent
  <2>1. CASE UNCHANGED <<sent, got>>
    BY <2>1 DEF Channel!vars
  <2>2. CASE sent \subseteq sent' /\ sent' \subseteq Msg /\ UNCHANGED got
    <3>1. read \subseteq read' /\ read' \subseteq Msg
      BY <2>2, AsReadType
    <3>2. QED
      BY <2>2, <3>1 DEF Channel!Next, Channel!Send
  <2>3. CASE UNCHANGED sent /\ got \subseteq got' /\ got' \subseteq got \cup read
    BY <2>3 DEF Channel!Next, Channel!Deliver
  <2>4. CASE Start \/ Quit \/ JoinAndClose \/ Die \/ ChaffCheck
    BY <2>1, <2>4, QuietSender DEF receiverVars
  <2>5. CASE ChaffSend
    BY <2>1, <2>5, ChaffSendIInv DEF receiverVars
  <2>6. CASE Hello \/ Command
    BY <2>2, <2>6, SendIInv DEF receiverVars
  <2>7. CASE \E f \in net : Lose(f) \/ Corrupt(f)
    BY <2>1, <2>7, NetworkIInv DEF senderVars, receiverVars
  <2>8. CASE \E f \in net : Receive(f)
    BY <2>3, <2>8, ReceiveIInv DEF senderVars
  <2>9. CASE ReceiveFails
    BY <2>1, <2>9, ReceiveFailsIInv DEF senderVars
  <2>10. CASE UNCHANGED vars
    BY <2>1, <2>10 DEF vars, senderVars, receiverVars
  <2>11. QED
    BY <2>4, <2>5, <2>6, <2>7, <2>8, <2>9, <2>10 DEF Next
<1>3. Init => GotIsSent
  BY DEF Init, GotIsSent
<1>4. QED
  BY <1>1, <1>2, <1>3, FramesStayKnown, PTL DEF Spec, ImplementsChannel, Channel!Spec

(* The statistics of the receiver add up after every frame, since an       *)
(* intact frame that passes has one of the types that are counted.         *)
LEMMA CountKeepsSums ==
  ASSUME IInv, CountersAgree, NEW f \in net, Receive(f)
  PROVE  CountersAgree'
<1>1. stats \in [Counters -> Nat]
  BY DEF IInv, TypeOK
<1>2. CASE Discard(f)
  BY <1>1, <1>2 DEF Discard, Count, Counters, CountersAgree
<1>3. CASE BadCRC(f)
  BY <1>1, <1>3 DEF BadCRC, Count, Counters, CountersAgree
<1>4. CASE Handle(f)
  <2>1. f.content.type \in MsgType
    BY DEF IInv, TypeOK, SCPFrame, Content
  <2>2. f.content.type \in {"DECOY", "EXEC_REQUEST", "CAPABILITY", "HEARTBEAT"}
    <3>1. CASE f.content.type = "DECOY"
      BY <3>1
    <3>2. CASE f.content.type # "DECOY"
      <4>1. PICK m \in sent : f.content = ContentOf(m)
        BY <1>4, <3>2, IntactIsSent DEF Handle
      <4>2. QED
        BY <4>1 DEF IInv, SentTypes, ContentOf
    <3>3. QED
      BY <3>1, <3>2
  <2>3. CASE f.content.type = "DECOY"
    <3>1. Count({"total", "accepted", "discarded"})
      BY <1>4, <2>1, <2>3 DEF Handle, CounterOf, Count
    <3>2. QED
      BY <1>1, <3>1, SMTT(30) DEF Count, Counters, CountersAgree
  <2>4. CASE f.content.type = "EXEC_REQUEST"
    <3>1. Count({"total", "accepted", "exec_requests"})
      BY <1>4, <2>1, <2>4 DEF Handle, CounterOf, Count
    <3>2. QED
      BY <1>1, <3>1, SMTT(30) DEF Count, Counters, CountersAgree
  <2>5. CASE f.content.type = "CAPABILITY"
    <3>1. Count({"total", "accepted", "capabilities"})
      BY <1>4, <2>1, <2>5 DEF Handle, CounterOf, Count
    <3>2. QED
      BY <1>1, <3>1, SMTT(30) DEF Count, Counters, CountersAgree
  <2>6. CASE f.content.type = "HEARTBEAT"
    <3>1. Count({"total", "accepted", "heartbeats"})
      BY <1>4, <2>1, <2>6 DEF Handle, CounterOf, Count
    <3>2. QED
      BY <1>1, <3>1, SMTT(30) DEF Count, Counters, CountersAgree
  <2>7. QED
    BY <2>2, <2>3, <2>4, <2>5, <2>6
<1>5. QED
  BY <1>2, <1>3, <1>4 DEF Receive, process_frame

(* Only a frame that is received changes the statistics.                   *)
LEMMA StatsChange ==
  ASSUME IInv, [Next]_vars
  PROVE  UNCHANGED stats \/ \E f \in net : Receive(f)
<1>1. CASE Start \/ Quit \/ JoinAndClose \/ Die \/ ChaffCheck
  BY <1>1, QuietSender DEF receiverVars
<1>2. CASE ChaffSend
  BY <1>2, ChaffSendIInv DEF receiverVars
<1>3. CASE Hello \/ Command
  BY <1>3, SendIInv DEF receiverVars
<1>4. CASE \E f \in net : Lose(f) \/ Corrupt(f)
  BY <1>4, NetworkIInv DEF receiverVars
<1>5. CASE ReceiveFails
  BY <1>5, ReceiveFailsIInv
<1>6. CASE UNCHANGED vars
  BY <1>6 DEF vars, receiverVars
<1>7. QED
  BY <1>1, <1>2, <1>3, <1>4, <1>5, <1>6 DEF Next

(* Every frame is accounted for once, and only decoys that pass for real   *)
(* messages are counted twice.                                             *)
THEOREM StatisticsAddUp == Spec => []CountersAgree
<1>1. Init => CountersAgree
  BY DEF Init, CountersAgree, Counters
<1>2. IInv /\ CountersAgree /\ [Next]_vars => CountersAgree'
  <2> SUFFICES ASSUME IInv, CountersAgree, [Next]_vars PROVE CountersAgree'
    OBVIOUS
  <2>1. CASE UNCHANGED stats
    BY <2>1 DEF CountersAgree
  <2>2. CASE \E f \in net : Receive(f)
    BY <2>2, CountKeepsSums
  <2>3. QED
    BY <2>1, <2>2, StatsChange
<1>3. QED
  BY <1>1, <1>2, FramesStayKnown, PTL DEF Spec

(* A frame that arrives as it was sent is acted on, in every state the two *)
(* sides can be in: the receiver keeps no state that could reject it.      *)
THEOREM GenuineFramesAreHandled == Spec => GenuineIsHandled
<1>1. ASSUME IInv, [Next]_vars, NEW m \in sent,
             RealFrame(m) \in net, stats' # stats, net' = net \ {RealFrame(m)}
      PROVE  AsRead(m) \in got'
  <2>1. PICK f \in net : Receive(f)
    BY <1>1, StatsChange
  <2>2. f = RealFrame(m)
    BY <1>1, <2>1 DEF Receive
  <2>3. f.content = ContentOf(m) /\ Intact(f) /\ Passes(f.content)
    BY <2>2 DEF RealFrame, Intact, Passes, ContentOf
  <2>4. f.content.type \notin {"DECOY", "OTHER"}
    BY <2>3, <1>1 DEF IInv, SentTypes, ContentOf
  <2>5. got' = got \cup {Read(f.content)}
    BY <2>1, <2>3, <2>4 DEF Receive, process_frame, Discard, BadCRC, Handle
  <2>6. QED
    BY <1>1, <2>3, <2>5, ReadOfContent DEF IInv, TypeOK
<1> DEFINE Handled ==
      \A m \in sent :
        RealFrame(m) \in net /\ stats' # stats /\ net' = net \ {RealFrame(m)}
          => AsRead(m) \in got'
<1>2. IInv /\ [Next]_vars => [Handled]_vars
  BY <1>1
<1>3. QED
  BY <1>2, FramesStayKnown, PTL DEF Spec, GenuineIsHandled

(* The chaff thread never uses a closed socket, wherever the sender is     *)
(* told to quit or killed.                                                 *)
THEOREM SocketOutlivesChaff == Spec => []ChaffHasSocket
<1>1. Init => ChaffHasSocket
  BY DEF Init, ChaffHasSocket
<1>2. ChaffHasSocket /\ [Next]_vars => ChaffHasSocket'
  BY DEF ChaffHasSocket, Next, vars, senderVars, Start, Hello, Command, Quit,
         JoinAndClose, Die, ChaffCheck, ChaffSend, Lose, Corrupt, Receive, ReceiveFails
<1>3. QED
  BY <1>1, <1>2, PTL DEF Spec
=============================================================================
