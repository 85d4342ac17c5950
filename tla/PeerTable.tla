----------------------------- MODULE PeerTable -----------------------------
(***************************************************************************)
(* mesh_node.hpp: how a node keeps track of its peers.  Four kinds of      *)
(* thread share the peer table under peers_mu_: the epoll event loop, the  *)
(* heartbeat loop, callers of connectToPeer, and the engine, which picks a *)
(* peer for an execution request.  The kernel hands out the lowest free    *)
(* descriptor, so a closed one comes back at once, possibly to a thread    *)
(* outside the mesh (a feed's socket, the engine's mapped files).          *)
(*                                                                         *)
(* Time is counted in heartbeat periods (100 ms).  A time stamp is held as *)
(* its age: now - last_heartbeat_ns, which is what the code tests.         *)
(***************************************************************************)
EXTENDS Integers, Sequences, FiniteSets

CONSTANTS
  Firms,       (* the peer firms                                           *)
  Fds,         (* descriptor numbers the process may use                   *)
  None,        (* no descriptor, no firm, no row                           *)
  Foreign,     (* owner of a descriptor opened outside the mesh            *)
  Connects,    (* firms this node calls connectToPeer for                  *)
  Others,      (* TRUE if another thread of the process opens descriptors  *)
  MissLimit,   (* heartbeats a peer may miss: 500 ms in periods            *)
  Skew,        (* per firm, how far its clock is ahead of ours, in periods *)
  Reports,     (* the capability reports a peer may send                   *)
  MaxConns,    (* connections peers hold or attempt at once; a bound       *)
  MaxUnread    (* unread messages per connection; a bound                  *)

ASSUME FdAssumption == Fds \subseteq Nat
ASSUME FirmAssumption ==
  /\ Connects \subseteq Firms
  /\ None \notin Firms \cup Fds
  /\ Foreign \notin Firms \cup {None}
ASSUME FlagAssumption == Others \in BOOLEAN
ASSUME LimitAssumption == MissLimit \in Nat /\ MaxConns \in Nat /\ MaxUnread \in Nat
ASSUME ReportAssumption ==
  /\ Skew \in [Firms -> Nat]
  /\ Reports \subseteq [headroom : Nat, latency : Nat]

Expired == MissLimit + 1     (* any age past the limit, 1970 included      *)
Ages(f) == -Skew[f]..Expired
Row     == [connected : BOOLEAN, available : BOOLEAN, age : Int,
            headroom : Nat, latency : Nat]

VARIABLES
  backlog,     (* firms whose connection waits in the listen queue         *)
  owner,       (* per descriptor: None if free, else who is behind it      *)
  unread,      (* per descriptor: how many messages wait to be read        *)
  ending,      (* per descriptor: "open", "fin" or "rst"                   *)
  edge,        (* per descriptor: something arrived since epoll reported it*)
  registered,  (* peer_fds_: per descriptor, the firm or None              *)
  table,       (* capability_table_: per firm, its row or None             *)
  evAt, evFd,  (* where the event loop is, and on which descriptor         *)
  evHup,       (* the event in hand also carries EPOLLHUP                  *)
  callFd,      (* descriptor of the connectToPeer in progress, or None     *)
  callFirm,    (*   ... and the firm it is for                             *)
  chosenFd,    (* what selectBestPeer returned to the engine, or None      *)
  otherFd      (* descriptor another thread believes it has open, or None  *)

kernel == <<backlog, owner, unread, ending, edge>>
peers  == <<registered, table>>
event  == <<evAt, evFd, evHup>>
call   == <<callFd, callFirm>>
vars   == <<kernel, peers, event, call, chosenFd, otherFd>>

Init ==
  /\ backlog = {}
  /\ owner = [fd \in Fds |-> None]
  /\ unread = [fd \in Fds |-> 0]
  /\ ending = [fd \in Fds |-> "open"]
  /\ edge = [fd \in Fds |-> FALSE]
  /\ registered = [fd \in Fds |-> None]
  /\ table = [f \in Firms |-> None]
  /\ evAt = "poll" /\ evFd = None /\ evHup = FALSE
  /\ callFd = None /\ callFirm = None
  /\ chosenFd = None
  /\ otherFd = None

-----------------------------------------------------------------------------
(* The kernel's side of a descriptor.                                      *)

Free == {fd \in Fds : owner[fd] = None}
Conns == {fd \in Fds : owner[fd] \in Firms}

LowestFree(fd) == fd \in Free /\ \A other \in Free : fd <= other

Open(fd, who) ==
  /\ owner' = [owner EXCEPT ![fd] = who]
  /\ unread' = [unread EXCEPT ![fd] = 0]
  /\ ending' = [ending EXCEPT ![fd] = "open"]
  /\ edge' = [edge EXCEPT ![fd] = FALSE]

Close(fd) == Open(fd, None)

-----------------------------------------------------------------------------
(* Peers: they connect, send, and go away, with a FIN or with a reset.     *)

PeerConnects(f) ==
  /\ Cardinality(Conns) + Cardinality(backlog) < MaxConns
  /\ backlog' = backlog \cup {f}
  /\ UNCHANGED <<owner, unread, ending, edge, peers, event, call, chosenFd, otherFd>>

PeerSends(fd) ==
  /\ fd \in Conns /\ ending[fd] = "open"
  /\ unread[fd] < MaxUnread
  /\ unread' = [unread EXCEPT ![fd] = @ + 1]
  /\ edge' = [edge EXCEPT ![fd] = TRUE]
  /\ UNCHANGED <<backlog, owner, ending, peers, event, call, chosenFd, otherFd>>

PeerEnds(fd) ==
  /\ fd \in Conns /\ ending[fd] = "open"
  /\ \E how \in {"fin", "rst"} : ending' = [ending EXCEPT ![fd] = how]
  /\ edge' = [edge EXCEPT ![fd] = TRUE]
  /\ UNCHANGED <<backlog, owner, unread, peers, event, call, chosenFd, otherFd>>

-----------------------------------------------------------------------------
(* The event loop: epoll_wait, then the handler of one event.  Connections *)
(* are polled edge-triggered: reported once for what has arrived so far.   *)

Return       == evAt' = "poll" /\ evFd' = None /\ evHup' = FALSE
NextHandler  == IF evHup THEN evAt' = "hup" /\ UNCHANGED <<evFd, evHup>> ELSE Return

PollAccept ==
  /\ evAt = "poll" /\ backlog # {}
  /\ evAt' = "accept"
  /\ UNCHANGED <<kernel, peers, evFd, evHup, call, chosenFd, otherFd>>

PollRead(fd) ==
  /\ evAt = "poll"
  /\ fd \in Conns /\ edge[fd]
  /\ edge' = [edge EXCEPT ![fd] = FALSE]
  /\ evAt' = "read" /\ evFd' = fd /\ evHup' = (ending[fd] = "rst")
  /\ UNCHANGED <<backlog, owner, unread, ending, peers, call, chosenFd, otherFd>>

(* acceptPeer takes connections as long as there are any ...               *)
Accept(f, fd) ==
  /\ evAt = "accept" /\ f \in backlog
  /\ LowestFree(fd)
  /\ Open(fd, f)
  /\ backlog' = backlog \ {f}
  /\ UNCHANGED <<peers, event, call, chosenFd, otherFd>>

(* ... and tries again at once on any error but EAGAIN.  The kernel looks  *)
(* for a descriptor first: with none free the error is EMFILE, and only    *)
(* with one free does an empty queue show.                                 *)
AcceptRetries ==
  /\ evAt = "accept" /\ Free = {}
  /\ UNCHANGED vars

AcceptDone ==
  /\ evAt = "accept" /\ backlog = {} /\ Free # {}
  /\ Return
  /\ UNCHANGED <<kernel, peers, call, chosenFd, otherFd>>

-----------------------------------------------------------------------------
(* handleRead: one recv and, if it returned a message, processMessage.     *)

NewRow == [connected |-> FALSE, available |-> FALSE, age |-> Expired,
           headroom |-> 0, latency |-> 0]
RowOf(f) == IF table[f] = None THEN NewRow ELSE table[f]

(* recv on the descriptor in hand returns a message, which firm f sent.    *)
Receive(f) ==
  /\ evAt = "read"
  /\ owner[evFd] = f /\ unread[evFd] > 0
  /\ unread' = [unread EXCEPT ![evFd] = @ - 1]
  /\ UNCHANGED <<backlog, owner, ending, edge, event, call, chosenFd, otherFd>>

HandleHello(f) ==
  /\ Receive(f)
  /\ registered' = [registered EXCEPT ![evFd] = f]
  /\ table' = [table EXCEPT ![f] =
       [RowOf(f) EXCEPT !.connected = TRUE, !.available = TRUE]]

(* The row takes the time stamp the peer put on the report by its own      *)
(* clock, and the report may have been under way for any time.             *)
HandleCapability(f) ==
  /\ Receive(f)
  /\ \E report \in Reports, age \in Ages(f) :
       table' = [table EXCEPT ![f] =
         [RowOf(f) EXCEPT !.headroom = report.headroom,
                          !.latency = report.latency, !.age = age]]
  /\ UNCHANGED registered

HandleHeartbeat(f) ==
  /\ Receive(f)
  /\ table' = IF table[f] = None THEN table ELSE [table EXCEPT ![f].age = 0]
  /\ UNCHANGED registered

(* Faulty: recv is not called until it says EAGAIN.                        *)
RecvAgainUndrained ==
  /\ evAt = "read"
  /\ NextHandler
  /\ UNCHANGED <<kernel, peers, call, chosenFd, otherFd>>

(* EAGAIN.  A hangup reported with the event is handled next.              *)
RecvAgain ==
  /\ evAt = "read"
  /\ owner[evFd] \in Firms /\ unread[evFd] = 0 /\ ending[evFd] = "open"
  /\ NextHandler
  /\ UNCHANGED <<kernel, peers, call, chosenFd, otherFd>>

(* Faulty: the descriptor is closed and not unregistered.                  *)
RecvEndsStaysRegistered ==
  /\ evAt = "read"
  /\ unread[evFd] = 0
  /\ ending[evFd] # "open" \/ owner[evFd] \notin Firms
  /\ Close(evFd)
  /\ NextHandler
  /\ UNCHANGED <<backlog, peers, call, chosenFd, otherFd>>

(* End of stream or error: handleDisconnect closes the descriptor ...      *)
RecvEnds ==
  /\ evAt = "read"
  /\ unread[evFd] = 0
  /\ ending[evFd] # "open" \/ owner[evFd] \notin Firms
  /\ Close(evFd)
  /\ evAt' = "erase"
  /\ UNCHANGED <<backlog, peers, evFd, evHup, call, chosenFd, otherFd>>

(* Faulty: the firm of a closed connection stays available.                *)
UnregisterStaysAvailable ==
  /\ evAt = "erase"
  /\ LET f == registered[evFd] IN
       /\ registered' = [registered EXCEPT ![evFd] = None]
       /\ table' = IF f = None THEN table
                   ELSE [table EXCEPT ![f] = [RowOf(f) EXCEPT !.connected = FALSE]]
  /\ NextHandler
  /\ UNCHANGED <<kernel, call, chosenFd, otherFd>>

(* Faulty: the descriptor is closed a second time, after the lock.         *)
UnregisterClosesAgain ==
  /\ evAt = "erase"
  /\ registered' = [registered EXCEPT ![evFd] = None]
  /\ table' = [f \in Firms |->
       IF f = registered[evFd]
       THEN [RowOf(f) EXCEPT !.connected = FALSE, !.available = FALSE]
       ELSE table[f]]
  /\ Close(evFd)
  /\ NextHandler
  /\ UNCHANGED <<backlog, call, chosenFd, otherFd>>

(* ... and then takes the lock and forgets what was registered under it.   *)
Unregister ==
  /\ evAt = "erase"
  /\ LET f == registered[evFd] IN
       /\ registered' = [registered EXCEPT ![evFd] = None]
       /\ table' = IF f = None THEN table
                   ELSE [table EXCEPT ![f] =
                          [RowOf(f) EXCEPT !.connected = FALSE, !.available = FALSE]]
  /\ NextHandler
  /\ UNCHANGED <<kernel, call, chosenFd, otherFd>>

(* Faulty: the descriptor to unregister is lost with the close.            *)
HangUpForgets ==
  /\ evAt = "hup"
  /\ Close(evFd)
  /\ evAt' = "erase" /\ evFd' = None /\ evHup' = FALSE
  /\ UNCHANGED <<backlog, peers, call, chosenFd, otherFd>>

(* EPOLLHUP came with EPOLLIN: handleDisconnect runs for the same number   *)
(* again and closes whatever it names by now.                              *)
HangUp ==
  /\ evAt = "hup"
  /\ Close(evFd)
  /\ evAt' = "erase" /\ evHup' = FALSE
  /\ UNCHANGED <<backlog, peers, evFd, call, chosenFd, otherFd>>

-----------------------------------------------------------------------------
(* heartbeatLoop: once a period, mark the peers not heard from.  The ages  *)
(* are unsigned: a stamp from the future is as bad as one long past.       *)

Missed(age) == age > MissLimit \/ age < 0

(* Faulty: the sweep clears the wrong flag.                                *)
SweepDisconnects ==
  /\ table' = [f \in Firms |->
       IF table[f] # None /\ table[f].connected /\ Missed(table[f].age)
       THEN [table[f] EXCEPT !.connected = FALSE]
       ELSE table[f]]
  /\ UNCHANGED <<kernel, registered, event, call, chosenFd, otherFd>>

Sweep ==
  /\ table' = [f \in Firms |->
       IF table[f] # None /\ table[f].connected /\ Missed(table[f].age)
       THEN [table[f] EXCEPT !.available = FALSE]
       ELSE table[f]]
  /\ UNCHANGED <<kernel, registered, event, call, chosenFd, otherFd>>

-----------------------------------------------------------------------------
(* connectToPeer: the socket is polled before the table knows of it.       *)

CallConnect(f, fd) ==
  /\ callFd = None /\ f \in Connects
  /\ Cardinality(Conns) + Cardinality(backlog) < MaxConns
  /\ LowestFree(fd)
  /\ Open(fd, f)
  /\ callFd' = fd /\ callFirm' = f
  /\ UNCHANGED <<backlog, peers, event, chosenFd, otherFd>>

CallRegister ==
  /\ callFd # None
  /\ registered' = [registered EXCEPT ![callFd] = callFirm]
  /\ table' = [table EXCEPT ![callFirm] =
       [NewRow EXCEPT !.connected = TRUE, !.available = TRUE]]
  /\ callFd' = None /\ callFirm' = None
  /\ UNCHANGED <<kernel, event, chosenFd, otherFd>>

-----------------------------------------------------------------------------
(* The engine: selectBestPeer under the lock, send after it.               *)

Eligible(fd) ==
  /\ registered[fd] # None
  /\ RowOf(registered[fd]).available
  /\ RowOf(registered[fd]).headroom # 0

SelectBestPeer(fd) ==
  /\ chosenFd = None
  /\ Eligible(fd)
  /\ \A g \in Fds : Eligible(g) =>
       RowOf(registered[fd]).latency <= RowOf(registered[g]).latency
  /\ chosenFd' = fd
  /\ UNCHANGED <<kernel, peers, event, call, otherFd>>

SendRequest ==
  /\ chosenFd # None
  /\ chosenFd' = None
  /\ UNCHANGED <<kernel, peers, event, call, otherFd>>

-----------------------------------------------------------------------------
(* Another thread of the process opens a descriptor and closes it again.   *)

OtherOpens(fd) ==
  /\ Others /\ otherFd = None
  /\ LowestFree(fd)
  /\ Open(fd, Foreign)
  /\ otherFd' = fd
  /\ UNCHANGED <<backlog, peers, event, call, chosenFd>>

OtherCloses ==
  /\ otherFd # None
  /\ Close(otherFd)
  /\ otherFd' = None
  /\ UNCHANGED <<backlog, peers, event, call, chosenFd>>

(* A heartbeat period passes.                                              *)
Older(age) == IF age = Expired THEN Expired ELSE age + 1

Tick ==
  /\ table' = [f \in Firms |->
       IF table[f] = None THEN None ELSE [table[f] EXCEPT !.age = Older(@)]]
  /\ UNCHANGED <<kernel, registered, event, call, chosenFd, otherFd>>

-----------------------------------------------------------------------------

Handle(f) == HandleHello(f) \/ HandleCapability(f) \/ HandleHeartbeat(f)

EventLoop ==
  \/ PollAccept \/ AcceptRetries \/ AcceptDone
  \/ RecvAgain \/ RecvEnds \/ Unregister \/ HangUp
  \/ \E f \in Firms, fd \in Fds : Accept(f, fd)
  \/ \E fd \in Fds : PollRead(fd)
  \/ \E f \in Firms : Handle(f)

Environment ==
  \/ \E f \in Firms : PeerConnects(f)
  \/ \E fd \in Fds : PeerSends(fd) \/ PeerEnds(fd) \/ OtherOpens(fd)
  \/ OtherCloses

Callers ==
  \/ \E f \in Firms, fd \in Fds : CallConnect(f, fd)
  \/ CallRegister
  \/ \E fd \in Fds : SelectBestPeer(fd)
  \/ SendRequest

Next == EventLoop \/ Environment \/ Callers \/ Sweep \/ Tick

(* The threads run, time passes, and epoll_wait reports every ready        *)
(* descriptor sooner or later.  No peer sends faster than handleRead reads, *)
(* so recv is bound to return EAGAIN.  Peers and callers owe nothing.      *)
Fairness ==
  /\ WF_vars(EventLoop)
  /\ \A fd \in Fds : SF_vars(PollRead(fd))
  /\ SF_vars(PollAccept)
  /\ SF_vars(RecvAgain)
  /\ WF_vars(Sweep)
  /\ WF_vars(Tick)

Spec     == Init /\ [][Next]_vars
FairSpec == Spec /\ Fairness

-----------------------------------------------------------------------------

Descriptor == Fds \cup {None}

(* Every variable ranges over what the code can store in it: rows, queued  *)
(* messages and the descriptors each thread holds.                         *)
TypeOK ==
  /\ backlog \in SUBSET Firms
  /\ owner \in [Fds -> Firms \cup {None, Foreign}]
  /\ unread \in [Fds -> Nat]
  /\ ending \in [Fds -> {"open", "fin", "rst"}]
  /\ edge \in [Fds -> BOOLEAN]
  /\ registered \in [Fds -> Firms \cup {None}]
  /\ table \in [Firms -> Row \cup {None}]
  /\ evAt \in {"poll", "accept", "read", "erase", "hup"}
  /\ evFd \in Descriptor
  /\ evAt \in {"read", "erase", "hup"} => evFd \in Fds
  /\ evHup \in BOOLEAN
  /\ callFd \in Descriptor
  /\ callFirm \in Firms \cup {None}
  /\ callFd # None => callFirm \in Firms
  /\ chosenFd \in Descriptor
  /\ otherFd \in Descriptor

(* No event the loop handles carries a hangup, unless the process has no   *)
(* other thread that opens descriptors.                                    *)
Calm == Others => ~evHup

(* A registered descriptor is an open connection to that very firm, but    *)
(* for the moment between the close and the erase of handleDisconnect.     *)
RegistrationsTrue ==
  \A fd \in Fds : registered[fd] # None =>
    \/ owner[fd] = registered[fd]
    \/ evAt = "erase" /\ evFd = fd

FlagsTrue ==
  \A f \in Firms : table[f] # None =>
    /\ table[f].available => table[f].connected
    /\ table[f].connected => \E fd \in Fds : registered[fd] = f

(* While no connection is reset, what peer_fds_ says is true, although     *)
(* another thread may be handed the number that handleDisconnect has       *)
(* closed and not yet erased.                                              *)
RegisteredIsOpen == []Calm => []RegistrationsTrue

(* While no connection is reset, a peer offered to the engine is connected *)
(* and a peer marked connected can be reached: some descriptor is          *)
(* registered for it.  The flags and the descriptors are kept in two maps  *)
(* by four handlers.                                                       *)
AvailableIsReachable == []Calm => []FlagsTrue

(* While no connection is reset, the mesh closes nothing but its own: what *)
(* another thread opened stays open until that thread closes it, however   *)
(* often the number was the mesh's before.                                 *)
OthersKeepTheirs == []Calm => [](otherFd # None => owner[otherFd] = Foreign)

(* acceptPeer goes round for ever, finding all descriptors taken again and *)
(* again.                                                                  *)
AcceptSpins == <>[](evAt = "accept") /\ []<>(Free = {})

(* While no connection is reset, one that ended is closed and forgotten:   *)
(* the event loop gets to it whatever the other peers are doing, unless    *)
(* acceptPeer runs out of descriptors and never leaves its loop.           *)
EndedIsForgotten ==
  []Calm => \/ AcceptSpins
            \/ \A fd \in Fds :
                 owner[fd] \in Firms /\ ending[fd] # "open"
                   ~> owner[fd] \notin Firms /\ registered[fd] = None

(* The event loop does not stay in the handler of one event.               *)
LoopReturns == evAt # "poll" ~> evAt = "poll"

(* A peer that has fallen silent for good does not stay available.         *)
SilentIsUnavailable ==
  \A f \in Firms :
    \/ []<><<Handle(f) \/ CallRegister>>_vars
    \/ []<>~RowOf(f).available

(* An execution request goes out on a connection of an available peer.     *)
RequestGoesToAvailable ==
  [][SendRequest => \E f \in Firms : owner[chosenFd] = f /\ RowOf(f).available]_vars
=============================================================================
