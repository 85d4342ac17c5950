-------------------------------- MODULE SCP --------------------------------
(***************************************************************************)
(* scp_sender.cpp, scp_receiver.cpp and scp_common.h: one firm sends its   *)
(* messages to another over UDP, hidden among decoys.  The sender has two  *)
(* threads, one for the messages and one for the decoys; the receiver      *)
(* takes one datagram at a time and filters by the tag, the CRC and the    *)
(* type.                                                                   *)
(*                                                                         *)
(* PrimeSyncer.generate is taken to give different tags for different      *)
(* sequence numbers: a tag is the number it was generated from, and NoTag  *)
(* is a value of no number.  CRC32 is taken to tell a frame from a damaged *)
(* one: a CRC is the content it was computed over, and NoCRC is that of no *)
(* content.  A decoy may have the right tag or the right CRC by chance.    *)
(***************************************************************************)
EXTENDS Integers, FiniteSets

CONSTANTS
  Words,       (* values of a 32-bit payload field                         *)
  Orders,      (* arguments of send_exec_request: <<instrument, quantity>> *)
  Reports,     (* arguments of send_capability                             *)
  Swap,        (* what htonl and ntohl do to one                           *)
  NoCRC,       (* a CRC that belongs to no content                         *)
  Room,        (* datagrams that fit in the socket buffers                 *)
  MaxReal,     (* messages sent in one life of the sender; a bound         *)
  MaxStarts,   (* lives of the sender; a bound                             *)
  MaxFrames    (* datagrams the receiver processes; a bound                *)

ASSUME SwapAssumption ==
  /\ Swap \in [Words -> Words] /\ \A w \in Words : Swap[Swap[w]] = w
  /\ 0 \in Words /\ Swap[0] = 0
ASSUME ArgumentAssumption == Orders \subseteq Words \X Words /\ Reports \subseteq Words
ASSUME ScpBoundAssumption ==
  Room \in Nat /\ MaxReal \in Nat /\ MaxStarts \in Nat /\ MaxFrames \in Nat

NoTag == -1
Seqs  == 0..MaxReal

(* MsgType, and OTHER for the rest of a byte.                              *)
MsgType == {"DECOY", "EXEC_REQUEST", "CAPABILITY", "HEARTBEAT", "EXEC_CONFIRM",
            "OTHER"}

(* A message as its sender means it and as its receiver reads it.  Of the  *)
(* payload, instrument stands for the one field that only the receiver     *)
(* converts (instrument_id) and quantity for those that both sides convert *)
(* or neither does.                                                        *)
Msg == [type : MsgType, seq : Seqs, instrument : Words, quantity : Words]

(* SCPFrame without its CRC.                                               *)
Content == [ethertype : {"scp", "other"}, tag : Seqs \cup {NoTag}, type : MsgType,
            seq : Seqs, instrument : Words, quantity : Words]

SCPFrame == [content : Content, crc : Content \cup {NoCRC}]

ASSUME NoCRCAssumption == NoCRC \notin Content

Counters == {"total", "discarded", "accepted", "crc_failures",
             "exec_requests", "capabilities", "heartbeats"}

VARIABLES
  mpc,         (* where the sender's main thread is                        *)
  cpc,         (* where its chaff thread is                                *)
  running,
  sock,        (* whether g_sock is open                                   *)
  real_seq,
  starts,      (* how often the sender has been started                    *)
  net,         (* datagrams on their way                                   *)
  receiving,   (* whether the receiver is in its loop                      *)
  stats,       (* RecvStats                                                *)
  sent,        (* history: the messages sent                               *)
  got          (* the messages the receiver's handlers have been given     *)

senderVars   == <<mpc, cpc, running, sock, real_seq, starts, sent>>
receiverVars == <<receiving, stats, got>>
vars == <<senderVars, net, receiverVars>>

(***************************************************************************)
(* The sender.                                                             *)
(***************************************************************************)

Generate(seq) == seq

(* Faulty: the ethertype is left as memset put it.                         *)
ContentOfUnset(m) ==
  [ethertype |-> "zero", tag |-> Generate(m.seq), type |-> m.type, seq |-> m.seq,
   instrument |-> m.instrument, quantity |-> Swap[m.quantity]]

(* build_real_frame: what a message is on the wire.                        *)
ContentOf(m) ==
  [ethertype |-> "scp", tag |-> Generate(m.seq), type |-> m.type, seq |-> m.seq,
   instrument |-> m.instrument, quantity |-> Swap[m.quantity]]

RealFrame(m) == [content |-> ContentOf(m), crc |-> ContentOf(m)]

(* Faulty: the type is left random as well.                                *)
DecoyContentsAnyType ==
  {[ethertype |-> "scp", tag |-> Generate(0), type |-> t, seq |-> 0, instrument |-> 0,
    quantity |-> 0] : t \in MsgType}

(* build_decoy: everything is random, but for the ethertype and the type.  *)
(* Of the number and the tag, only whether they belong together matters.   *)
DecoyContents ==
  {[ethertype |-> "scp", tag |-> t, type |-> "DECOY", seq |-> 0, instrument |-> 0,
    quantity |-> 0] : t \in {NoTag, Generate(0)}}

Decoys == UNION {{[content |-> c, crc |-> c], [content |-> c, crc |-> NoCRC]} :
                   c \in DecoyContents}

(* sendto: a datagram that finds no room is dropped.                       *)
Put(f) == net' = IF Cardinality(net) < Room THEN net \cup {f} ELSE net

Init ==
  /\ mpc = "off" /\ cpc = "off" /\ running = FALSE /\ sock = "closed"
  /\ real_seq = 0 /\ starts = 0 /\ sent = {}
  /\ net = {}
  /\ receiving = TRUE /\ stats = [c \in Counters |-> 0] /\ got = {}

(* main up to the first message: the program's globals start afresh.       *)
Start ==
  /\ mpc = "off" /\ starts < MaxStarts
  /\ starts' = starts + 1
  /\ real_seq' = 0 /\ running' = TRUE /\ sock' = "open"
  /\ mpc' = "capability" /\ cpc' = "check"
  /\ UNCHANGED <<net, sent, receiverVars>>

SendReal(type, instrument, quantity) ==
  LET m == [type |-> type, seq |-> real_seq, instrument |-> instrument,
            quantity |-> quantity]
  IN /\ real_seq < MaxReal
     /\ real_seq' = real_seq + 1
     /\ Put(RealFrame(m))
     /\ sent' = sent \cup {m}

(* send_capability, send_heartbeat, send_exec_request.                     *)
SendCapability  == \E r \in Reports : SendReal("CAPABILITY", 0, r)
SendHeartbeat   == SendReal("HEARTBEAT", 0, 0)
SendExecRequest == \E o \in Orders : SendReal("EXEC_REQUEST", o[1], o[2])

Hello ==
  /\ \/ mpc = "capability" /\ SendCapability /\ mpc' = "heartbeat"
     \/ mpc = "heartbeat" /\ SendHeartbeat /\ mpc' = "menu"
  /\ UNCHANGED <<cpc, running, sock, starts, receiverVars>>

Command ==
  /\ mpc = "menu"
  /\ SendExecRequest \/ SendHeartbeat \/ SendCapability
  /\ UNCHANGED <<mpc, cpc, running, sock, starts, receiverVars>>

(* Faulty: the chaff thread is not told.                                   *)
QuitSilently ==
  /\ mpc = "menu"
  /\ mpc' = "join"
  /\ UNCHANGED <<cpc, running, sock, real_seq, starts, net, sent, receiverVars>>

(* The command q, or the end of the input: running.store(false).           *)
Quit ==
  /\ mpc = "menu"
  /\ mpc' = "join" /\ running' = FALSE
  /\ UNCHANGED <<cpc, sock, real_seq, starts, net, sent, receiverVars>>

(* Faulty: the socket is closed before the thread that uses it has ended.  *)
CloseAndJoin ==
  /\ mpc = "join"
  /\ IF sock = "open" THEN sock' = "closed" /\ UNCHANGED <<mpc, cpc>>
                      ELSE cpc = "done" /\ mpc' = "off" /\ cpc' = "off" /\ UNCHANGED sock
  /\ UNCHANGED <<running, real_seq, starts, net, sent, receiverVars>>

JoinAndClose ==
  /\ mpc = "join" /\ cpc = "done"
  /\ mpc' = "off" /\ cpc' = "off" /\ sock' = "closed"
  /\ UNCHANGED <<running, real_seq, starts, net, sent, receiverVars>>

(* The process is killed: it handles no signal.                            *)
Die ==
  /\ mpc # "off"
  /\ mpc' = "off" /\ cpc' = "off" /\ sock' = "closed"
  /\ UNCHANGED <<running, real_seq, starts, net, sent, receiverVars>>

(* chaff_injector_thread: the loop's test, then a decoy and the sleep.     *)
ChaffCheck ==
  /\ cpc = "check"
  /\ cpc' = IF running THEN "send" ELSE "done"
  /\ UNCHANGED <<mpc, running, sock, real_seq, starts, sent, net, receiverVars>>

ChaffSend ==
  /\ cpc = "send"
  /\ \E f \in Decoys : Put(f)
  /\ cpc' = "check"
  /\ UNCHANGED <<mpc, running, sock, real_seq, starts, sent, receiverVars>>

(***************************************************************************)
(* The network.                                                            *)
(***************************************************************************)

(* The CRC fits the content.                                               *)
Intact(f) == f.crc = f.content

Lose(f) == net' = net \ {f} /\ UNCHANGED <<senderVars, receiverVars>>

(* Damage to one field of a frame, once on its way.                        *)
Damaged(f) ==
  {[f EXCEPT !.content.ethertype = "other"], [f EXCEPT !.content.tag = NoTag],
   [f EXCEPT !.crc = NoCRC], [f EXCEPT !.content.quantity = Swap[@]],
   [f EXCEPT !.content.seq = (@ + 1) % (MaxReal + 1)]}
  \cup {[f EXCEPT !.content.type = t] : t \in MsgType}

Corrupt(f) ==
  /\ Intact(f)
  /\ \E g \in Damaged(f) : net' = (net \ {f}) \cup {g}
  /\ UNCHANGED <<senderVars, receiverVars>>

(***************************************************************************)
(* The receiver.                                                           *)
(***************************************************************************)

Count(names) ==
  stats' = [c \in Counters |-> IF c \in names THEN stats[c] + 1 ELSE stats[c]]

(* Faulty: the number must be the next in turn.                            *)
PassesInStep(c) ==
  c.ethertype = "scp" /\ c.tag = Generate(c.seq) /\ c.seq = stats["accepted"]

(* The tag is compared with the one of the number in the frame itself.     *)
Passes(c) == c.ethertype = "scp" /\ c.tag = Generate(c.seq)

(* What the handlers read: instrument_id goes through ntohl as well.       *)
Read(c) == [type |-> c.type, seq |-> c.seq, instrument |-> Swap[c.instrument],
            quantity |-> Swap[c.quantity]]

(* The counter of each type.  A decoy that got this far is also counted as *)
(* discarded.                                                              *)
CounterOf == [t \in MsgType |->
  CASE t = "EXEC_REQUEST" -> {"exec_requests"}
    [] t = "CAPABILITY" -> {"capabilities"}
    [] t = "HEARTBEAT" -> {"heartbeats"}
    [] t = "DECOY" -> {"discarded"}
    [] OTHER -> {}]

Discard(f) ==
  /\ ~Passes(f.content)
  /\ Count({"total", "discarded"})
  /\ UNCHANGED got

BadCRC(f) ==
  /\ Passes(f.content) /\ ~Intact(f)
  /\ Count({"total", "accepted", "crc_failures"})
  /\ UNCHANGED got

(* Faulty: a failure is reported and the frame decoded all the same.       *)
HandleUnchecked(f) ==
  /\ Passes(f.content)
  /\ Count({"total", "accepted"} \cup CounterOf[f.content.type])
  /\ got' = IF f.content.type \in {"DECOY", "OTHER"} THEN got
            ELSE got \cup {Read(f.content)}

Handle(f) ==
  /\ Passes(f.content) /\ Intact(f)
  /\ Count({"total", "accepted"} \cup CounterOf[f.content.type])
  /\ got' = IF f.content.type \in {"DECOY", "OTHER"} THEN got
            ELSE got \cup {Read(f.content)}

process_frame(f) == Discard(f) \/ BadCRC(f) \/ Handle(f)

(* recvfrom and the turn of the loop, which nothing else in the process    *)
(* observes.  Any datagram may be next, and may arrive again later.  One   *)
(* of the wrong size is skipped, a step that changes nothing.              *)
Receive(f) ==
  /\ receiving /\ stats["total"] < MaxFrames
  /\ process_frame(f)
  /\ net' \in {net, net \ {f}}
  /\ UNCHANGED <<senderVars, receiving>>

(* recvfrom fails: the loop is left.                                       *)
ReceiveFails ==
  /\ receiving
  /\ receiving' = FALSE
  /\ UNCHANGED <<senderVars, net, stats, got>>

-----------------------------------------------------------------------------

Next ==
  \/ Start \/ Hello \/ Command \/ Quit \/ JoinAndClose \/ Die
  \/ ChaffCheck \/ ChaffSend
  \/ \E f \in net : Lose(f) \/ Corrupt(f) \/ Receive(f)
  \/ ReceiveFails

Spec == Init /\ [][Next]_vars

(* The threads run; nothing is asked of the network or of the keyboard.    *)
Fairness == WF_vars(JoinAndClose) /\ WF_vars(ChaffCheck) /\ WF_vars(ChaffSend)

FairSpec == Spec /\ Fairness

-----------------------------------------------------------------------------

TypeOK ==
  /\ mpc \in {"off", "capability", "heartbeat", "menu", "join"}
  /\ cpc \in {"off", "check", "send", "done"}
  /\ running \in BOOLEAN /\ sock \in {"open", "closed"}
  /\ real_seq \in Seqs /\ starts \in 0..MaxStarts
  /\ net \subseteq SCPFrame
  /\ receiving \in BOOLEAN
  /\ stats \in [Counters -> Nat]
  /\ sent \subseteq Msg /\ got \subseteq Msg

(* Whatever the network does to the datagrams, and whatever the decoys     *)
(* happen to contain, the receiver's handlers (scp_receiver.cpp:223-260)   *)
(* are only given messages that were sent, as they were sent but for the   *)
(* instrument, whose bytes only the receiver swaps.                        *)
AsRead(m) == [m EXCEPT !.instrument = Swap[@]]

Channel == INSTANCE DatagramChannel
             WITH Msgs <- Msg, sent <- {AsRead(m) : m \in sent}, got <- got

ImplementsChannel == Channel!Spec

(* What a CRC can belong to, and the frames that may exist because of it.  *)
CrcKnown(f) ==
  \/ f.crc = NoCRC
  \/ f.crc.type = "DECOY"
  \/ \E m \in sent : f.crc = ContentOf(m)

FramesKnown == \A f \in net : CrcKnown(f)

SentTypes == \A m \in sent : m.type \in {"EXEC_REQUEST", "CAPABILITY", "HEARTBEAT"}

(* The receiver's statistics add up (RecvStats): a frame that was not      *)
(* discarded is a CRC failure or counted under its type; and what is       *)
(* accepted is at least what was not discarded.  They differ by the decoys *)
(* that pass for real until their type is read, which are counted twice.   *)
CountersAgree ==
  /\ stats["total"] = stats["discarded"] + stats["crc_failures"]
       + stats["exec_requests"] + stats["capabilities"] + stats["heartbeats"]
  /\ stats["total"] - stats["discarded"] <= stats["accepted"]
  /\ stats["accepted"] <= stats["total"]

(* A frame that arrives as it was sent is acted on, whatever was lost,     *)
(* damaged or repeated before it and however often the sender restarted:   *)
(* the two sides cannot fall out of step (scp_receiver.cpp:177-185).       *)
GenuineIsHandled ==
  [][\A m \in sent :
       RealFrame(m) \in net /\ stats' # stats /\ net' = net \ {RealFrame(m)}
         => AsRead(m) \in got']_vars

(* The chaff thread uses the socket only while it is open: main closes it  *)
(* after the join (scp_sender.cpp:418-420).                                *)
ChaffHasSocket == cpc \in {"check", "send"} => sock = "open"

(* A sender that was told to quit ends.                                    *)
QuitEnds == mpc = "join" ~> mpc = "off"
=============================================================================
