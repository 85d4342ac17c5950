-------------------------- MODULE PeerTableProofs --------------------------
(* Theorems about the peer table for any number of firms, descriptors and  *)
(* messages, any limit and any skew of the clocks.                         *)
EXTENDS PeerTable, TLAPS

-----------------------------------------------------------------------------
(* Type correctness.                                                       *)

(* A firm's row, or the one made for it, is a row.                         *)
LEMMA RowOfIsRow ==
  ASSUME TypeOK, NEW f \in Firms
  PROVE  RowOf(f) \in Row
BY LimitAssumption DEF TypeOK, RowOf, NewRow, Row, Expired

(* Opening a descriptor for an owner, or for none, keeps the kernel's side *)
(* of every descriptor well formed.                                        *)
LEMMA OpenTyped ==
  ASSUME TypeOK, NEW fd \in Fds, NEW who \in Firms \cup {None, Foreign}, Open(fd, who)
  PROVE  /\ owner' \in [Fds -> Firms \cup {None, Foreign}]
         /\ unread' \in [Fds -> Nat]
         /\ ending' \in [Fds -> {"open", "fin", "rst"}]
         /\ edge' \in [Fds -> BOOLEAN]
BY DEF TypeOK, Open

(* Whatever the peers send, and whichever threads interleave, the tables   *)
(* hold rows and every thread holds a descriptor of the process or none.   *)
THEOREM TypeCorrect == Spec => []TypeOK
<1>1. Init => TypeOK
  <2> SUFFICES ASSUME Init PROVE TypeOK
    OBVIOUS
  <2>1. /\ backlog \in SUBSET Firms
        /\ owner \in [Fds -> Firms \cup {None, Foreign}]
        /\ unread \in [Fds -> Nat]
        /\ ending \in [Fds -> {"open", "fin", "rst"}]
        /\ edge \in [Fds -> BOOLEAN]
    BY DEF Init
  <2>2. /\ registered \in [Fds -> Firms \cup {None}]
        /\ table \in [Firms -> Row \cup {None}]
    BY DEF Init
  <2>3. QED
    BY <2>1, <2>2 DEF Init, TypeOK, Descriptor
<1>2. TypeOK /\ [Next]_vars => TypeOK'
  <2> SUFFICES ASSUME TypeOK, [Next]_vars PROVE TypeOK'
    OBVIOUS
  <2>1. ASSUME NEW f \in Firms, PeerConnects(f) PROVE TypeOK'
    BY <2>1 DEF PeerConnects, TypeOK, peers, event, call
  <2>2. ASSUME NEW fd \in Fds, PeerSends(fd) PROVE TypeOK'
    BY <2>2 DEF PeerSends, TypeOK, peers, event, call
  <2>3. ASSUME NEW fd \in Fds, PeerEnds(fd) PROVE TypeOK'
    BY <2>3 DEF PeerEnds, TypeOK, peers, event, call
  <2>4. CASE PollAccept
    BY <2>4 DEF PollAccept, TypeOK, kernel, peers, call
  <2>5. ASSUME NEW fd \in Fds, PollRead(fd) PROVE TypeOK'
    BY <2>5 DEF PollRead, TypeOK, peers, call, Descriptor
  <2>6. ASSUME NEW f \in Firms, NEW fd \in Fds, Accept(f, fd) PROVE TypeOK'
    <3>1. Open(fd, f)
      BY <2>6 DEF Accept
    <3>2. QED
      BY <2>6, <3>1, OpenTyped DEF Accept, TypeOK, peers, event, call
  <2>7. CASE AcceptRetries
    BY <2>7 DEF AcceptRetries, TypeOK, vars, kernel, peers, event, call
  <2>8. CASE AcceptDone
    BY <2>8 DEF AcceptDone, Return, TypeOK, kernel, peers, call, Descriptor
  <2>9. ASSUME NEW f \in Firms, Receive(f),
               registered' \in [Fds -> Firms \cup {None}],
               table' \in [Firms -> Row \cup {None}]
        PROVE  TypeOK'
    <3>1. unread' \in [Fds -> Nat]
      BY <2>9 DEF Receive, TypeOK
    <3>2. QED
      BY <2>9, <3>1 DEF Receive, TypeOK, event, call
  <2>10. ASSUME NEW f \in Firms, HandleHello(f) PROVE TypeOK'
    <3>1. registered' \in [Fds -> Firms \cup {None}]
      BY <2>10 DEF HandleHello, TypeOK
    <3>2. [RowOf(f) EXCEPT !.connected = TRUE, !.available = TRUE] \in Row
      BY RowOfIsRow DEF Row
    <3>3. table' \in [Firms -> Row \cup {None}]
      BY <2>10, <3>2 DEF HandleHello, TypeOK
    <3>4. QED
      BY <2>9, <2>10, <3>1, <3>3 DEF HandleHello
  <2>11. ASSUME NEW f \in Firms, HandleCapability(f) PROVE TypeOK'
    <3>1. PICK report \in Reports, age \in Ages(f) :
            table' = [table EXCEPT ![f] =
              [RowOf(f) EXCEPT !.headroom = report.headroom,
                               !.latency = report.latency, !.age = age]]
      BY <2>11 DEF HandleCapability
    <3>2. report.headroom \in Nat /\ report.latency \in Nat /\ age \in Int
      BY ReportAssumption, LimitAssumption DEF Ages, Expired
    <3>3. [RowOf(f) EXCEPT !.headroom = report.headroom,
                           !.latency = report.latency, !.age = age] \in Row
      BY <3>2, RowOfIsRow DEF Row
    <3>4. table' \in [Firms -> Row \cup {None}]
      BY <3>1, <3>3 DEF TypeOK
    <3>5. registered' \in [Fds -> Firms \cup {None}]
      BY <2>11 DEF HandleCapability, TypeOK
    <3>6. QED
      BY <2>9, <2>11, <3>4, <3>5 DEF HandleCapability
  <2>12. ASSUME NEW f \in Firms, HandleHeartbeat(f) PROVE TypeOK'
    <3>1. table' \in [Firms -> Row \cup {None}]
      <4>1. CASE table[f] = None
        BY <2>12, <4>1 DEF HandleHeartbeat, TypeOK
      <4>2. CASE table[f] # None
        <5>1. [table[f] EXCEPT !.age = 0] \in Row
          BY <4>2 DEF TypeOK, Row
        <5>2. table' = [table EXCEPT ![f] = [table[f] EXCEPT !.age = 0]]
          BY <2>12, <4>2 DEF HandleHeartbeat, TypeOK
        <5>3. QED
          BY <5>1, <5>2 DEF TypeOK
      <4>3. QED
        BY <4>1, <4>2
    <3>2. registered' \in [Fds -> Firms \cup {None}]
      BY <2>12 DEF HandleHeartbeat, TypeOK
    <3>3. QED
      BY <2>9, <2>12, <3>1, <3>2 DEF HandleHeartbeat
  <2>13. CASE RecvAgain
    BY <2>13 DEF RecvAgain, NextHandler, Return, TypeOK, kernel, peers, call, Descriptor
  <2>14. CASE RecvEnds
    <3>1. evFd \in Fds /\ Open(evFd, None)
      BY <2>14 DEF RecvEnds, Close, TypeOK
    <3>2. QED
      BY <2>14, <3>1, OpenTyped DEF RecvEnds, TypeOK, peers, call
  <2>15. CASE Unregister
    <3>1. evFd \in Fds
      BY <2>15 DEF Unregister, TypeOK
    <3>2. registered' \in [Fds -> Firms \cup {None}]
      BY <2>15, <3>1 DEF Unregister, TypeOK
    <3>3. table' \in [Firms -> Row \cup {None}]
      <4>1. CASE registered[evFd] = None
        BY <2>15, <4>1 DEF Unregister, TypeOK
      <4>2. CASE registered[evFd] \in Firms
        <5>1. [RowOf(registered[evFd]) EXCEPT !.connected = FALSE, !.available = FALSE]
                \in Row
          BY <4>2, RowOfIsRow DEF Row
        <5>2. QED
          BY <2>15, <4>2, <5>1, FirmAssumption DEF Unregister, TypeOK
      <4>3. QED
        BY <3>1, <4>1, <4>2 DEF TypeOK
    <3>4. QED
      BY <2>15, <3>1, <3>2, <3>3
         DEF Unregister, NextHandler, Return, TypeOK, kernel, call, Descriptor
  <2>16. CASE HangUp
    <3>1. evFd \in Fds /\ Open(evFd, None)
      BY <2>16 DEF HangUp, Close, TypeOK
    <3>2. QED
      BY <2>16, <3>1, OpenTyped DEF HangUp, TypeOK, peers, call
  <2>17. CASE Sweep
    <3>1. ASSUME NEW f \in Firms, table[f] # None
          PROVE  [table[f] EXCEPT !.available = FALSE] \in Row
      BY <3>1 DEF TypeOK, Row
    <3>2. table' \in [Firms -> Row \cup {None}]
      BY <2>17, <3>1 DEF Sweep, TypeOK
    <3>3. QED
      BY <2>17, <3>2 DEF Sweep, TypeOK, kernel, event, call
  <2>18. ASSUME NEW f \in Firms, NEW fd \in Fds, CallConnect(f, fd) PROVE TypeOK'
    <3>1. Open(fd, f)
      BY <2>18 DEF CallConnect
    <3>2. QED
      BY <2>18, <3>1, OpenTyped DEF CallConnect, TypeOK, peers, event, Descriptor
  <2>19. CASE CallRegister
    <3>1. callFd \in Fds /\ callFirm \in Firms
      BY <2>19 DEF CallRegister, TypeOK, Descriptor
    <3>2. [NewRow EXCEPT !.connected = TRUE, !.available = TRUE] \in Row
      <4>1. NewRow \in Row
        BY LimitAssumption DEF NewRow, Row, Expired
      <4>2. QED
        BY <4>1 DEF Row
    <3>3. QED
      BY <2>19, <3>1, <3>2 DEF CallRegister, TypeOK, kernel, event, Descriptor
  <2>20. ASSUME NEW fd \in Fds, SelectBestPeer(fd) PROVE TypeOK'
    BY <2>20 DEF SelectBestPeer, TypeOK, kernel, peers, event, call, Descriptor
  <2>21. CASE SendRequest
    BY <2>21 DEF SendRequest, TypeOK, kernel, peers, event, call, Descriptor
  <2>22. ASSUME NEW fd \in Fds, OtherOpens(fd) PROVE TypeOK'
    <3>1. Open(fd, Foreign)
      BY <2>22 DEF OtherOpens
    <3>2. QED
      BY <2>22, <3>1, OpenTyped DEF OtherOpens, TypeOK, peers, event, call, Descriptor
  <2>23. CASE OtherCloses
    <3>1. otherFd \in Fds /\ Open(otherFd, None)
      BY <2>23 DEF OtherCloses, Close, TypeOK, Descriptor
    <3>2. QED
      BY <2>23, <3>1, OpenTyped DEF OtherCloses, TypeOK, peers, event, call, Descriptor
  <2>24. CASE Tick
    <3>1. ASSUME NEW f \in Firms, table[f] # None
          PROVE  [table[f] EXCEPT !.age = Older(@)] \in Row
      <4>1. Older(table[f].age) \in Int
        BY <3>1, LimitAssumption DEF TypeOK, Row, Older, Expired
      <4>2. QED
        BY <3>1, <4>1 DEF TypeOK, Row
    <3>2. table' \in [Firms -> Row \cup {None}]
      BY <2>24, <3>1 DEF Tick, TypeOK
    <3>3. QED
      BY <2>24, <3>2 DEF Tick, TypeOK, kernel, event, call
  <2>25. CASE UNCHANGED vars
    BY <2>25 DEF TypeOK, vars, kernel, peers, event, call
  <2>26. QED
    BY <2>1, <2>2, <2>3, <2>4, <2>5, <2>6, <2>7, <2>8, <2>10, <2>11, <2>12, <2>13,
       <2>14, <2>15, <2>16, <2>17, <2>18, <2>19, <2>20, <2>21, <2>22, <2>23, <2>24, <2>25
       DEF Next, EventLoop, Environment, Callers, Handle
<1>3. QED
  BY <1>1, <1>2, PTL DEF Spec

-----------------------------------------------------------------------------
(* Whose the descriptors are, on any node, while no reset is handled       *)
(* beside threads that open descriptors of their own.                      *)

(* What another thread holds is its own, and the descriptor in hand of     *)
(* handleRead is a connection: nobody but the event loop closes it.        *)
DescriptorInv ==
  /\ otherFd # None => Others /\ owner[otherFd] = Foreign
  /\ evAt = "read" => owner[evFd] \in Firms
  /\ evAt = "hup" => evHup

(* Opening a descriptor that is free disturbs none that is in use.         *)
LEMMA OpenKeepsOwners ==
  ASSUME TypeOK, DescriptorInv, NEW fd \in Fds, LowestFree(fd),
         NEW who \in Firms \cup {Foreign}, Open(fd, who)
  PROVE  /\ evAt = "read" => owner'[evFd] = owner[evFd]
         /\ otherFd # None => owner'[otherFd] = owner[otherFd]
         /\ owner[fd] = None /\ owner' = [owner EXCEPT ![fd] = who]
<1>1. owner[fd] = None /\ owner' = [owner EXCEPT ![fd] = who]
  BY DEF LowestFree, Free, Open
<1>2. evAt = "read" => evFd \in Fds /\ evFd # fd
  BY <1>1, FirmAssumption DEF DescriptorInv, TypeOK
<1>3. otherFd # None => otherFd \in Fds /\ otherFd # fd
  BY <1>1, FirmAssumption DEF DescriptorInv, TypeOK, Descriptor
<1>4. QED
  BY <1>1, <1>2, <1>3 DEF TypeOK

(* handleRead closes a connection, never what another thread holds, and    *)
(* handleDisconnect runs a second time only where no other thread is.      *)
LEMMA CloseIsOwn ==
  ASSUME TypeOK, Calm, DescriptorInv, RecvEnds \/ HangUp
  PROVE  /\ evFd \in Fds /\ evFd # otherFd
         /\ owner' = [owner EXCEPT ![evFd] = None]
<1>1. evFd \in Fds /\ owner' = [owner EXCEPT ![evFd] = None]
  BY DEF RecvEnds, HangUp, Close, Open, TypeOK
<1>2. CASE RecvEnds
  <2>1. owner[evFd] \in Firms
    BY <1>2 DEF RecvEnds, DescriptorInv
  <2>2. QED
    BY <1>1, <2>1, FirmAssumption DEF DescriptorInv
<1>3. CASE HangUp
  <2>1. ~Others
    BY <1>3 DEF HangUp, DescriptorInv, Calm
  <2>2. otherFd = None
    BY <2>1 DEF DescriptorInv
  <2>3. QED
    BY <1>1, <2>2, FirmAssumption
<1>4. QED
  BY <1>2, <1>3

(* Every step keeps apart what is the mesh's and what is another thread's. *)
LEMMA DescriptorStep ==
  ASSUME TypeOK, Calm, DescriptorInv, [Next]_vars
  PROVE  DescriptorInv'
<1>1. ASSUME UNCHANGED <<owner, event, otherFd>> PROVE DescriptorInv'
  BY <1>1 DEF DescriptorInv, event
<1>2. CASE \/ \E f \in Firms : PeerConnects(f) \/ Handle(f)
           \/ \E fd \in Fds : PeerSends(fd) \/ PeerEnds(fd) \/ SelectBestPeer(fd)
           \/ AcceptRetries \/ Sweep \/ Tick \/ CallRegister \/ SendRequest
           \/ UNCHANGED vars
  <2>1. UNCHANGED <<owner, event, otherFd>>
    BY <1>2 DEF PeerConnects, Handle, HandleHello, HandleCapability, HandleHeartbeat,
                Receive, PeerSends, PeerEnds, SelectBestPeer, AcceptRetries, Sweep,
                Tick, CallRegister, SendRequest, vars, kernel, event
  <2>2. QED
    BY <1>1, <2>1
<1>3. CASE PollAccept \/ AcceptDone
  BY <1>3 DEF PollAccept, AcceptDone, Return, DescriptorInv, kernel
<1>4. ASSUME NEW fd \in Fds, PollRead(fd) PROVE DescriptorInv'
  BY <1>4 DEF PollRead, Conns, DescriptorInv
<1>5. CASE RecvAgain \/ Unregister
  BY <1>5 DEF RecvAgain, Unregister, NextHandler, Return, DescriptorInv, kernel
<1>6. CASE RecvEnds \/ HangUp
  <2>1. evAt' = "erase" /\ otherFd' = otherFd
    BY <1>6 DEF RecvEnds, HangUp
  <2>2. otherFd # None => owner'[otherFd] = owner[otherFd]
    BY <1>6, CloseIsOwn DEF TypeOK, Descriptor
  <2>3. QED
    BY <2>1, <2>2 DEF DescriptorInv
<1>7. ASSUME NEW f \in Firms, NEW fd \in Fds, Accept(f, fd) \/ CallConnect(f, fd)
      PROVE  DescriptorInv'
  <2>1. LowestFree(fd) /\ Open(fd, f) /\ UNCHANGED <<event, otherFd>>
    BY <1>7 DEF Accept, CallConnect
  <2>2. QED
    BY <2>1, OpenKeepsOwners DEF DescriptorInv, event
<1>8. ASSUME NEW fd \in Fds, OtherOpens(fd) PROVE DescriptorInv'
  <2>1. /\ LowestFree(fd) /\ Open(fd, Foreign) /\ UNCHANGED event
        /\ Others /\ otherFd' = fd
    BY <1>8 DEF OtherOpens
  <2>2. owner'[fd] = Foreign
    BY <2>1, OpenKeepsOwners DEF TypeOK
  <2>3. QED
    BY <2>1, <2>2, OpenKeepsOwners DEF DescriptorInv, event
<1>9. CASE OtherCloses
  <2>1. /\ otherFd \in Fds /\ owner' = [owner EXCEPT ![otherFd] = None]
        /\ otherFd' = None /\ UNCHANGED event /\ owner[otherFd] = Foreign
    BY <1>9 DEF OtherCloses, Close, Open, TypeOK, Descriptor, DescriptorInv
  <2>2. evAt = "read" => evFd \in Fds /\ evFd # otherFd
    BY <2>1, FirmAssumption DEF DescriptorInv, TypeOK
  <2>3. QED
    BY <2>1, <2>2 DEF DescriptorInv, TypeOK, event
<1>10. QED
  BY <1>2, <1>3, <1>4, <1>5, <1>6, <1>7, <1>8, <1>9
     DEF Next, EventLoop, Environment, Callers

(* Descriptors keep to their owners for as long as Calm holds.             *)
LEMMA DescriptorInvariant == Spec /\ []Calm => []DescriptorInv
<1>1. Init => DescriptorInv
  BY DEF Init, DescriptorInv
<1>2. TypeOK /\ Calm /\ DescriptorInv /\ [Next]_vars => DescriptorInv'
  BY DescriptorStep
<1>3. QED
  BY <1>1, <1>2, TypeCorrect, PTL DEF Spec

(* The numbers the mesh closes and the kernel hands to a feed's socket or  *)
(* the engine's mapped files are not closed again by the mesh, whatever    *)
(* peers and callers do, as long as no connection is reset with the read.  *)
THEOREM OthersAreLeftAlone == Spec => OthersKeepTheirs
<1>1. DescriptorInv => (otherFd # None => owner[otherFd] = Foreign)
  BY DEF DescriptorInv
<1>2. QED
  BY <1>1, DescriptorInvariant, PTL DEF OthersKeepTheirs

-----------------------------------------------------------------------------
(* Peers connect to this node and it connects to none, as in the engine:   *)
(* what the event loop and the tables hold is then what the loop left.     *)

(* Between poll and poll none but acceptPeer makes a connection of a       *)
(* number, and a hangup in hand is that of a reset connection.             *)
EventInv ==
  /\ callFd = None
  /\ evAt = "read" /\ evHup => ending[evFd] = "rst"
  /\ evAt \in {"erase", "hup"} => owner[evFd] \notin Firms

PeerInv == EventInv /\ RegistrationsTrue /\ FlagsTrue

(* Steps that touch neither map nor the event in hand.                     *)
LEMMA PeerInvFrame ==
  ASSUME TypeOK, PeerInv, UNCHANGED <<owner, registered, event, callFd>>,
         \A fd \in Fds : ending[fd] = "rst" => ending'[fd] = "rst",
         \A f \in Firms :
           table'[f] # None =>
             /\ table[f] # None
             /\ table'[f].available => table[f].available
             /\ table'[f].connected = table[f].connected
  PROVE  PeerInv'
<1>1. EventInv'
  BY DEF PeerInv, EventInv, event, TypeOK
<1>2. RegistrationsTrue'
  BY DEF PeerInv, RegistrationsTrue, event
<1>3. FlagsTrue'
  BY DEF PeerInv, FlagsTrue
<1>4. QED
  BY <1>1, <1>2, <1>3 DEF PeerInv

(* A message handler that marks its firm connected has the firm's          *)
(* descriptor in hand; one that only fills the row leaves the flags alone. *)
LEMMA HandleKeeps ==
  ASSUME TypeOK, PeerInv, NEW f \in Firms, Handle(f)
  PROVE  PeerInv'
<1>1. /\ evAt = "read" /\ owner[evFd] = f /\ evFd \in Fds
      /\ UNCHANGED <<owner, ending, event, callFd>>
  BY DEF Handle, HandleHello, HandleCapability, HandleHeartbeat, Receive, TypeOK, call
<1>2. CASE HandleHello(f)
  <2>1. /\ registered' = [registered EXCEPT ![evFd] = f]
        /\ \A g \in Firms \ {f} : table'[g] = table[g]
    BY <1>2 DEF HandleHello, TypeOK
  <2>2. registered[evFd] \in {None, f}
    BY <1>1 DEF PeerInv, RegistrationsTrue, TypeOK
  <2>3. EventInv'
    BY <1>1 DEF PeerInv, EventInv, event
  <2>4. RegistrationsTrue'
    BY <1>1, <2>1 DEF PeerInv, RegistrationsTrue, TypeOK, event
  <2>5. FlagsTrue'
    <3> SUFFICES ASSUME NEW g \in Firms, table'[g] # None
                 PROVE  /\ table'[g].available => table'[g].connected
                        /\ table'[g].connected => \E fd \in Fds : registered'[fd] = g
      BY DEF FlagsTrue
    <3>1. CASE g = f
      <4>1. table'[f] = [RowOf(f) EXCEPT !.connected = TRUE, !.available = TRUE]
        BY <1>2 DEF HandleHello, TypeOK
      <4>2. table'[f].connected
        BY <4>1, RowOfIsRow DEF Row
      <4>3. registered'[evFd] = f
        BY <1>1, <2>1 DEF TypeOK
      <4>4. QED
        BY <1>1, <3>1, <4>2, <4>3
    <3>2. CASE g # f
      <4>1. table'[g] = table[g]
        BY <2>1, <3>2
      <4>2. ASSUME NEW fd \in Fds, registered[fd] = g PROVE registered'[fd] = g
        <5>1. fd # evFd
          BY <2>2, <3>2, <4>2, FirmAssumption
        <5>2. QED
          BY <2>1, <4>2, <5>1 DEF TypeOK
      <4>3. QED
        BY <4>1, <4>2 DEF PeerInv, FlagsTrue
    <3>3. QED
      BY <3>1, <3>2
  <2>6. QED
    BY <2>3, <2>4, <2>5 DEF PeerInv
<1>3. ASSUME UNCHANGED registered,
             \A g \in Firms \ {f} : table'[g] = table[g],
             table'[f] # None =>
               \/ table'[f].connected = FALSE /\ table'[f].available = FALSE
               \/ /\ table[f] # None
                  /\ table'[f].connected = table[f].connected
                  /\ table'[f].available = table[f].available
      PROVE  PeerInv'
  <2>1. EventInv'
    BY <1>1 DEF PeerInv, EventInv, event
  <2>2. RegistrationsTrue'
    BY <1>1, <1>3 DEF PeerInv, RegistrationsTrue, event
  <2>3. FlagsTrue'
    BY <1>3 DEF PeerInv, FlagsTrue
  <2>4. QED
    BY <2>1, <2>2, <2>3 DEF PeerInv
<1>4. CASE HandleCapability(f)
  <2>1. PICK report \in Reports, age \in Ages(f) :
          table' = [table EXCEPT ![f] =
            [RowOf(f) EXCEPT !.headroom = report.headroom,
                             !.latency = report.latency, !.age = age]]
    BY <1>4 DEF HandleCapability
  <2>2. /\ table'[f].connected = RowOf(f).connected
        /\ table'[f].available = RowOf(f).available
        /\ \A g \in Firms \ {f} : table'[g] = table[g]
    BY <2>1, RowOfIsRow DEF TypeOK, Row
  <2>3. QED
    BY <1>3, <1>4, <2>2 DEF HandleCapability, RowOf, NewRow
<1>5. CASE HandleHeartbeat(f)
  <2>1. CASE table[f] = None
    BY <1>3, <1>5, <2>1 DEF HandleHeartbeat
  <2>2. CASE table[f] # None
    <3>1. table' = [table EXCEPT ![f] = [table[f] EXCEPT !.age = 0]]
      BY <1>5, <2>2 DEF HandleHeartbeat, TypeOK
    <3>2. table[f] \in Row
      BY <2>2 DEF TypeOK
    <3>3. /\ table'[f].connected = table[f].connected
          /\ table'[f].available = table[f].available
          /\ \A g \in Firms \ {f} : table'[g] = table[g]
      BY <3>1, <3>2 DEF TypeOK, Row
    <3>4. QED
      BY <1>3, <1>5, <2>2, <3>3 DEF HandleHeartbeat
  <2>3. QED
    BY <2>1, <2>2
<1>6. QED
  BY <1>2, <1>4, <1>5 DEF Handle

(* Closing the descriptor in hand leaves its entry to be erased next.      *)
LEMMA CloseKeeps ==
  ASSUME TypeOK, Calm, DescriptorInv, PeerInv, RecvEnds \/ HangUp
  PROVE  PeerInv'
<1>1. /\ evFd \in Fds /\ owner' = [owner EXCEPT ![evFd] = None]
      /\ evAt' = "erase" /\ evFd' = evFd
      /\ UNCHANGED <<registered, table, callFd>>
  BY CloseIsOwn DEF RecvEnds, HangUp, peers, call
<1>2. evAt # "erase"
  BY DEF RecvEnds, HangUp
<1>3. EventInv'
  BY <1>1, FirmAssumption DEF PeerInv, EventInv, TypeOK
<1>4. RegistrationsTrue'
  BY <1>1, <1>2 DEF PeerInv, RegistrationsTrue, TypeOK
<1>5. FlagsTrue'
  BY <1>1 DEF PeerInv, FlagsTrue
<1>6. QED
  BY <1>3, <1>4, <1>5 DEF PeerInv

(* Erasing the entry takes the flags of the firm along.                    *)
LEMMA UnregisterKeeps ==
  ASSUME TypeOK, PeerInv, Unregister
  PROVE  PeerInv'
<1> DEFINE f == registered[evFd]
<1>1. /\ evAt = "erase" /\ evFd \in Fds /\ owner[evFd] \notin Firms
      /\ registered' = [registered EXCEPT ![evFd] = None]
      /\ UNCHANGED <<owner, ending, callFd>>
      /\ \/ evAt' = "hup" /\ evFd' = evFd
         \/ evAt' = "poll"
  BY DEF Unregister, NextHandler, Return, PeerInv, EventInv, TypeOK, kernel, call
<1>2. \A g \in Firms : g # f => table'[g] = table[g]
  BY DEF Unregister, TypeOK
<1>3. f \in Firms => table'[f].connected = FALSE /\ table'[f].available = FALSE
  <2> SUFFICES ASSUME f \in Firms
               PROVE  table'[f].connected = FALSE /\ table'[f].available = FALSE
    OBVIOUS
  <2>1. table'[f] = [RowOf(f) EXCEPT !.connected = FALSE, !.available = FALSE]
    BY FirmAssumption DEF Unregister, TypeOK
  <2>2. QED
    BY <2>1, RowOfIsRow DEF Row
<1>4. EventInv'
  BY <1>1 DEF PeerInv, EventInv
<1>5. RegistrationsTrue'
  BY <1>1 DEF PeerInv, RegistrationsTrue, TypeOK
<1>6. FlagsTrue'
  <2> SUFFICES ASSUME NEW g \in Firms, table'[g] # None
               PROVE  /\ table'[g].available => table'[g].connected
                      /\ table'[g].connected => \E fd \in Fds : registered'[fd] = g
    BY DEF FlagsTrue
  <2>1. CASE g = f
    BY <1>3, <2>1
  <2>2. CASE g # f
    <3>1. \A fd \in Fds : registered[fd] = g => registered'[fd] = g
      BY <1>1, <2>2 DEF TypeOK
    <3>2. QED
      BY <1>2, <2>2, <3>1 DEF PeerInv, FlagsTrue
  <2>3. QED
    BY <2>1, <2>2
<1>7. QED
  BY <1>4, <1>5, <1>6 DEF PeerInv

(* Every step of a node that makes no connections keeps what the tables    *)
(* say true, those of threads that use its descriptors' numbers included.  *)
LEMMA PeerStep ==
  ASSUME Connects = {}, TypeOK, Calm, DescriptorInv, PeerInv, [Next]_vars
  PROVE  PeerInv'
<1>1. ASSUME NEW f \in Firms, PeerConnects(f) PROVE PeerInv'
  BY <1>1, PeerInvFrame DEF PeerConnects, peers, event, call
<1>2. ASSUME NEW fd \in Fds, PeerSends(fd) PROVE PeerInv'
  BY <1>2, PeerInvFrame DEF PeerSends, peers, event, call
<1>3. ASSUME NEW fd \in Fds, PeerEnds(fd) PROVE PeerInv'
  <2>1. \A g \in Fds : ending[g] = "rst" => ending'[g] = "rst"
    BY <1>3 DEF PeerEnds, TypeOK
  <2>2. QED
    BY <1>3, <2>1, PeerInvFrame DEF PeerEnds, peers, event, call
<1>4. CASE PollAccept
  BY <1>4 DEF PollAccept, PeerInv, EventInv, RegistrationsTrue, FlagsTrue,
              kernel, peers, call
<1>5. ASSUME NEW fd \in Fds, PollRead(fd) PROVE PeerInv'
  BY <1>5 DEF PollRead, PeerInv, EventInv, RegistrationsTrue, FlagsTrue,
              peers, call
<1>6. ASSUME NEW fd \in Fds, NEW who \in Firms \cup {Foreign},
             LowestFree(fd), Open(fd, who), who \in Firms => evAt = "accept",
             UNCHANGED <<registered, table, event, callFd>>
      PROVE  PeerInv'
  <2>1. owner[fd] = None /\ owner' = [owner EXCEPT ![fd] = who]
    BY <1>6, OpenKeepsOwners
  <2>2. evAt = "read" => ending'[evFd] = ending[evFd]
    BY <1>6, <2>1, FirmAssumption DEF Open, DescriptorInv, TypeOK
  <2>3. EventInv'
    BY <1>6, <2>1, <2>2 DEF PeerInv, EventInv, TypeOK, event
  <2>4. RegistrationsTrue'
    BY <1>6, <2>1 DEF PeerInv, RegistrationsTrue, TypeOK, event
  <2>5. FlagsTrue'
    BY <1>6 DEF PeerInv, FlagsTrue
  <2>6. QED
    BY <2>3, <2>4, <2>5 DEF PeerInv
<1>7. ASSUME NEW f \in Firms, NEW fd \in Fds, Accept(f, fd) PROVE PeerInv'
  BY <1>6, <1>7 DEF Accept, peers, call
<1>8. CASE AcceptRetries
  BY <1>8, PeerInvFrame DEF AcceptRetries, vars, kernel, peers, event, call
<1>9. CASE AcceptDone
  BY <1>9 DEF AcceptDone, Return, PeerInv, EventInv, RegistrationsTrue,
              FlagsTrue, kernel, peers, call
<1>10. ASSUME NEW f \in Firms, Handle(f) PROVE PeerInv'
  BY <1>10, HandleKeeps
<1>11. CASE RecvAgain
  <2>1. evAt = "read" /\ ~evHup
    BY <1>11 DEF RecvAgain, PeerInv, EventInv
  <2>2. evAt' = "poll"
    BY <1>11, <2>1 DEF RecvAgain, NextHandler, Return
  <2>3. QED
    BY <1>11, <2>1, <2>2 DEF RecvAgain, PeerInv, EventInv, RegistrationsTrue,
                             FlagsTrue, kernel, peers, call
<1>12. CASE RecvEnds \/ HangUp
  BY <1>12, CloseKeeps
<1>13. CASE Unregister
  BY <1>13, UnregisterKeeps
<1>14. CASE Sweep
  <2>1. ASSUME NEW f \in Firms, table'[f] # None
        PROVE  /\ table[f] # None
               /\ table'[f].available => table[f].available
               /\ table'[f].connected = table[f].connected
    BY <1>14, <2>1 DEF Sweep, TypeOK, Row
  <2>2. QED
    BY <1>14, <2>1, PeerInvFrame DEF Sweep, kernel, call
<1>15. CASE Tick
  <2>1. ASSUME NEW f \in Firms, table'[f] # None
        PROVE  /\ table[f] # None
               /\ table'[f].available => table[f].available
               /\ table'[f].connected = table[f].connected
    BY <1>15, <2>1 DEF Tick, TypeOK, Row
  <2>2. QED
    BY <1>15, <2>1, PeerInvFrame DEF Tick, kernel, call
<1>16. CASE SendRequest \/ UNCHANGED vars
  BY <1>16, PeerInvFrame DEF SendRequest, vars, kernel, peers, call
<1>17. ASSUME NEW fd \in Fds, SelectBestPeer(fd) PROVE PeerInv'
  BY <1>17, PeerInvFrame DEF SelectBestPeer, kernel, peers, call
<1>18. ASSUME NEW fd \in Fds, OtherOpens(fd) PROVE PeerInv'
  BY <1>6, <1>18, FirmAssumption DEF OtherOpens, peers, call
<1>19. CASE OtherCloses
  <2>1. /\ otherFd \in Fds /\ owner[otherFd] = Foreign
        /\ Open(otherFd, None)
        /\ UNCHANGED <<registered, table, event, callFd>>
    BY <1>19 DEF OtherCloses, Close, TypeOK, Descriptor, DescriptorInv, peers, call
  <2>2. owner' = [owner EXCEPT ![otherFd] = None]
    BY <2>1 DEF Open
  <2>3. evAt = "read" => ending'[evFd] = ending[evFd]
    BY <2>1, FirmAssumption DEF Open, DescriptorInv, TypeOK
  <2>4. EventInv'
    BY <2>1, <2>2, <2>3, FirmAssumption DEF PeerInv, EventInv, TypeOK, event
  <2>5. RegistrationsTrue'
    BY <2>1, <2>2, FirmAssumption DEF PeerInv, RegistrationsTrue, TypeOK, event
  <2>6. FlagsTrue'
    BY <2>1 DEF PeerInv, FlagsTrue
  <2>7. QED
    BY <2>4, <2>5, <2>6 DEF PeerInv
<1>20. ASSUME NEW f \in Firms, NEW fd \in Fds PROVE ~CallConnect(f, fd)
  BY DEF CallConnect
<1>21. ~CallRegister
  BY DEF CallRegister, PeerInv, EventInv
<1>22. QED
  BY <1>1, <1>2, <1>3, <1>4, <1>5, <1>7, <1>8, <1>9, <1>10, <1>11, <1>12, <1>13,
     <1>14, <1>15, <1>16, <1>17, <1>18, <1>19, <1>20, <1>21
     DEF Next, EventLoop, Environment, Callers

(* A node that only accepts keeps its tables true beside any other thread  *)
(* of the process, until a connection is reset.                            *)
THEOREM PeerInvariant == Connects = {} => (Spec /\ []Calm => []PeerInv)
<1> SUFFICES ASSUME Connects = {} PROVE Spec /\ []Calm => []PeerInv
  OBVIOUS
<1>1. Init => PeerInv
  BY DEF Init, PeerInv, EventInv, RegistrationsTrue, FlagsTrue
<1>2. TypeOK /\ Calm /\ DescriptorInv /\ PeerInv /\ [Next]_vars => PeerInv'
  BY PeerStep
<1>3. QED
  BY <1>1, <1>2, TypeCorrect, DescriptorInvariant, PTL DEF Spec

(* Beside other threads, which may be handed the number between its close  *)
(* and its erase, a registered descriptor is an open connection to the     *)
(* firm registered.                                                        *)
THEOREM RegistrationsHold == Connects = {} => (Spec => RegisteredIsOpen)
<1>1. PeerInv => RegistrationsTrue
  BY DEF PeerInv
<1>2. QED
  BY <1>1, PeerInvariant, PTL DEF RegisteredIsOpen

(* Beside other threads, an available firm is connected and a connected    *)
(* firm can be reached.                                                    *)
THEOREM FlagsHold == Connects = {} => (Spec => AvailableIsReachable)
<1>1. PeerInv => FlagsTrue
  BY DEF PeerInv
<1>2. QED
  BY <1>1, PeerInvariant, PTL DEF AvailableIsReachable
=============================================================================
