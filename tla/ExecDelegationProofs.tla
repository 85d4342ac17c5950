------------------------ MODULE ExecDelegationProofs ------------------------
(* Theorems about execution requests and the ledger for any number of      *)
(* signals, links and starts, any limit and any delay of the event loop.   *)
EXTENDS ExecDelegation, SequenceTheorems, TLAPS

-----------------------------------------------------------------------------
(* Sequences.                                                              *)

(* What a queue holds after an element has been put at its end.            *)
LEMMA AppendIs ==
  ASSUME NEW S, NEW s \in Seq(S), NEW e \in S
  PROVE  /\ Append(s, e) \in Seq(S)
         /\ DOMAIN s = 1..Len(s) /\ Len(s) \in Nat
         /\ DOMAIN Append(s, e) = 1..(Len(s) + 1)
         /\ \A i \in 1..Len(s) : Append(s, e)[i] = s[i]
         /\ Append(s, e)[Len(s) + 1] = e
BY AppendProperties, LenProperties

(* What a queue holds after its first element has been taken.              *)
LEMMA TailIs ==
  ASSUME NEW S, NEW s \in Seq(S), s # <<>>
  PROVE  /\ Tail(s) \in Seq(S)
         /\ DOMAIN s = 1..Len(s) /\ Len(s) \in Nat \ {0}
         /\ DOMAIN Tail(s) = 1..(Len(s) - 1)
         /\ \A i \in 1..(Len(s) - 1) : Tail(s)[i] = s[i + 1]
         /\ Head(s) = s[1] /\ Head(s) \in S
<1>1. /\ Tail(s) \in Seq(S) /\ Len(Tail(s)) = Len(s) - 1 /\ Head(s) \in S
      /\ \A i \in 1..Len(Tail(s)) : Tail(s)[i] = s[i + 1]
  BY HeadTailProperties
<1>2. DOMAIN Tail(s) = 1..Len(Tail(s)) /\ DOMAIN s = 1..Len(s) /\ Len(s) \in Nat
  BY <1>1, LenProperties
<1>3. Len(s) # 0 /\ Head(s) = s[1]
  BY EmptySeq
<1>4. QED
  BY <1>1, <1>2, <1>3

(* What the queues hold after one of them has got an element at its end.   *)
LEMMA AppendAt ==
  ASSUME NEW S, NEW q \in [Links -> Seq(S)], NEW l \in Links, NEW e \in S,
         NEW p, p = [q EXCEPT ![l] = Append(@, e)]
  PROVE  /\ p \in [Links -> Seq(S)]
         /\ \A m \in Links : \A j \in DOMAIN p[m] :
              \/ m = l /\ j = Len(q[l]) + 1 /\ p[m][j] = e
              \/ j \in DOMAIN q[m] /\ p[m][j] = q[m][j]
<1>1. /\ Append(q[l], e) \in Seq(S)
      /\ DOMAIN q[l] = 1..Len(q[l]) /\ Len(q[l]) \in Nat
      /\ DOMAIN Append(q[l], e) = 1..(Len(q[l]) + 1)
      /\ \A i \in 1..Len(q[l]) : Append(q[l], e)[i] = q[l][i]
      /\ Append(q[l], e)[Len(q[l]) + 1] = e
  BY AppendIs
<1>2. p[l] = Append(q[l], e) /\ \A m \in Links : m # l => p[m] = q[m]
  OBVIOUS
<1>3. p \in [Links -> Seq(S)]
  BY <1>1
<1>4. \A j \in DOMAIN p[l] : \/ j = Len(q[l]) + 1 /\ p[l][j] = e
                             \/ j \in DOMAIN q[l] /\ p[l][j] = q[l][j]
  BY <1>1, <1>2
<1>5. QED
  BY <1>2, <1>3, <1>4

(* What the queues hold after the first element of one has been taken.     *)
LEMMA TailAt ==
  ASSUME NEW S, NEW q \in [Links -> Seq(S)], NEW l \in Links, q[l] # <<>>,
         NEW p, p = [q EXCEPT ![l] = Tail(@)]
  PROVE  /\ p \in [Links -> Seq(S)]
         /\ Head(q[l]) = q[l][1] /\ Head(q[l]) \in S /\ 1 \in DOMAIN q[l]
         /\ \A m \in Links : \A j \in DOMAIN p[m] :
              \/ m # l /\ j \in DOMAIN q[m] /\ p[m][j] = q[m][j]
              \/ m = l /\ j \in Nat /\ j + 1 \in DOMAIN q[l] /\ j + 1 # 1
                   /\ p[m][j] = q[l][j + 1]
<1>1. /\ Tail(q[l]) \in Seq(S)
      /\ DOMAIN q[l] = 1..Len(q[l]) /\ Len(q[l]) \in Nat \ {0}
      /\ DOMAIN Tail(q[l]) = 1..(Len(q[l]) - 1)
      /\ \A i \in 1..(Len(q[l]) - 1) : Tail(q[l])[i] = q[l][i + 1]
      /\ Head(q[l]) = q[l][1] /\ Head(q[l]) \in S
  BY TailIs
<1>2. p[l] = Tail(q[l]) /\ \A m \in Links : m # l => p[m] = q[m]
  OBVIOUS
<1>3. p \in [Links -> Seq(S)] /\ 1 \in DOMAIN q[l]
  BY <1>1
<1>4. \A j \in DOMAIN p[l] : /\ j \in Nat /\ j + 1 \in DOMAIN q[l] /\ j + 1 # 1
                             /\ p[l][j] = q[l][j + 1]
  BY <1>1, <1>2
<1>5. QED
  BY <1>1, <1>2, <1>3, <1>4

(* The runs and requests of a ledger to which a record has been added.     *)
LEMMA AppendMaps ==
  ASSUME NEW s \in Seq(Record), NEW e \in Record
  PROVE  [i \in DOMAIN Append(s, e) |-> <<Append(s, e)[i].run, Append(s, e)[i].req>>]
           = Append([i \in DOMAIN s |-> <<s[i].run, s[i].req>>], <<e.run, e.req>>)
<1> DEFINE t == [i \in DOMAIN s |-> <<s[i].run, s[i].req>>]
           x == <<e.run, e.req>>
           S == Nat \X (Requests \cup {None})
<1>1. /\ DOMAIN s = 1..Len(s) /\ Len(s) \in Nat
      /\ \A i \in DOMAIN s : <<s[i].run, s[i].req>> \in S
  <2>1. DOMAIN s = 1..Len(s) /\ Len(s) \in Nat /\ \A i \in DOMAIN s : s[i] \in Record
    BY LenProperties, ElementOfSeq
  <2>2. QED
    BY <2>1 DEF Record
<1>2. t \in [1..Len(s) -> S] /\ x \in S
  BY <1>1 DEF Record
<1>3. \A i \in 1..Len(s) : t[i] = <<s[i].run, s[i].req>>
  BY <1>1
<1>4. x = <<e.run, e.req>>
  OBVIOUS
<1> HIDE DEF t, x, S
<1>5. /\ Append(t, x) \in Seq(S) /\ DOMAIN Append(t, x) = 1..(Len(s) + 1)
      /\ \A i \in 1..Len(s) : Append(t, x)[i] = t[i]
      /\ Append(t, x)[Len(s) + 1] = x
  <2>1. t \in Seq(S)
    BY <1>1, <1>2, SeqDef
  <2>2. Len(t) = Len(s)
    BY <1>1, <1>2, <2>1, LenProperties
  <2>3. QED
    BY <1>2, <2>1, <2>2, AppendIs
<1>6. DOMAIN Append(s, e) = 1..(Len(s) + 1)
      /\ \A i \in 1..Len(s) : Append(s, e)[i] = s[i]
      /\ Append(s, e)[Len(s) + 1] = e
  BY AppendIs
<1>7. \A i \in 1..(Len(s) + 1) :
        Append(t, x)[i] = <<Append(s, e)[i].run, Append(s, e)[i].req>>
  <2> SUFFICES ASSUME NEW i \in 1..(Len(s) + 1)
               PROVE  Append(t, x)[i] = <<Append(s, e)[i].run, Append(s, e)[i].req>>
    OBVIOUS
  <2>1. i \in 1..Len(s) \/ i = Len(s) + 1
    BY <1>1
  <2>2. QED
    BY <1>3, <1>4, <1>5, <1>6, <2>1
<1>8. Append(t, x) = [i \in 1..(Len(s) + 1) |-> Append(t, x)[i]]
  <2>1. Append(t, x) \in [1..(Len(s) + 1) -> S]
    BY <1>5, LenProperties
  <2>2. QED
    BY <2>1
<1>9. QED
  BY <1>4, <1>6, <1>7, <1>8 DEF t

-----------------------------------------------------------------------------
(* Type correctness.                                                       *)

(* Ids are numbers already handed out, the channels carry requests, the    *)
(* ages stay inside their bounds, and the ledger holds records.            *)
THEOREM TypeCorrect == Spec => []TypeOK
<1>1. Init => TypeOK
  <2> SUFFICES ASSUME Init PROVE TypeOK
    OBVIOUS
  <2>1. NoTraffic \in [Links -> Seq(Requests)] /\ ledger \in Seq(Record)
    BY EmptySeq DEF Init, NoTraffic
  <2>2. pending \in [Requests -> Ages \cup {None}]
    BY DEF Init, NoEntry
  <2>3. /\ run \in 1..MaxRuns /\ signals \in 0..MaxSignals /\ reqId \in 1..(signals + 1)
        /\ soloId \in 1..(signals + 1) /\ bookId \in Nat /\ nowAge \in 0..MaxStall
    BY BoundAssumption, BaseAssumption DEF Init
  <2>4. QED
    BY <2>1, <2>2, <2>3 DEF Init, TypeOK
<1>2. TypeOK /\ [Next]_vars => TypeOK'
  <2> SUFFICES ASSUME TypeOK, [Next]_vars PROVE TypeOK'
    OBVIOUS
  <2> USE BoundAssumption, BaseAssumption
  <2>0. /\ signals \in Nat /\ reqId \in Nat /\ soloId \in Nat /\ bookId \in Nat /\ run \in Nat
        /\ signals <= MaxSignals /\ reqId <= signals + 1 /\ soloId <= signals + 1
        /\ reqId >= 1 /\ soloId >= 1
    BY DEF TypeOK
  <2>1. CASE TradeSolo
    <3>1. [run |-> run, trade |-> soloId, req |-> None] \in Record
      BY <2>0 DEF Record
    <3>2. ledger' \in Seq(Record)
      BY <2>1, <3>1, AppendIs DEF TradeSolo, TypeOK
    <3>3. signals' = signals + 1 /\ signals < MaxSignals
      BY <2>1 DEF TradeSolo, Signal
    <3>4. QED
      BY <2>0, <2>1, <3>2, <3>3 DEF TradeSolo, TypeOK, network, event
  <2>2. ASSUME NEW l \in Links, Delegate(l) PROVE TypeOK'
    BY <2>0, <2>2 DEF Delegate, Signal, TypeOK, network, event
  <2>3. CASE NoPartner
    BY <2>0, <2>3 DEF NoPartner, Signal, TypeOK, network, event
  <2>4. ASSUME engAt # "idle" PROVE reqId - 1 \in Requests /\ chosen \in Links
    BY <2>0, <2>4 DEF TypeOK, Requests
  <2>5. CASE Send
    <3>1. toPeer' \in [Links -> Seq(Requests)]
      <4>1. CASE up[chosen]
        BY <2>4, <2>5, <4>1, AppendAt DEF Send, TypeOK
      <4>2. CASE ~up[chosen]
        BY <2>5, <4>2 DEF Send, TypeOK
      <4>3. QED
        BY <4>1, <4>2
    <3>2. QED
      BY <2>5, <3>1 DEF Send, TypeOK, event
  <2>6. CASE InsertPending
    <3>1. pending' \in [Requests -> Ages \cup {None}]
      BY <2>4, <2>6 DEF InsertPending, TypeOK, Ages
    <3>2. QED
      BY <2>6, <3>1 DEF InsertPending, TypeOK, network, event
  <2>7. ASSUME NEW l \in Links, PeerConfirms(l) PROVE TypeOK'
    <3>1. Head(toPeer[l]) \in Requests /\ toPeer' \in [Links -> Seq(Requests)]
      BY <2>7, TailAt DEF PeerConfirms, TypeOK
    <3>2. fromPeer' \in [Links -> Seq(Requests)]
      BY <2>7, <3>1, AppendAt DEF PeerConfirms, TypeOK
    <3>3. QED
      BY <2>7, <3>1, <3>2 DEF PeerConfirms, TypeOK, engine, event
  <2>8. ASSUME NEW l \in Links, BookConfirm(l) PROVE TypeOK'
    <3>1. Head(fromPeer[l]) \in Requests /\ fromPeer' \in [Links -> Seq(Requests)]
      BY <2>8, TailAt DEF BookConfirm, TypeOK
    <3>2. [run |-> run, trade |-> bookId, req |-> Head(fromPeer[l])] \in Record
      BY <2>0, <3>1 DEF Record
    <3>3. ledger' \in Seq(Record)
      BY <2>8, <3>2, AppendIs DEF BookConfirm, TypeOK
    <3>4. QED
      BY <2>0, <2>8, <3>1, <3>3 DEF BookConfirm, TypeOK, engine
  <2>9. CASE ErasePending
    BY <2>9 DEF ErasePending, TypeOK, engine, network
  <2>10. CASE ReadClock
    BY <2>10 DEF ReadClock, TypeOK, engine, network
  <2>11. CASE PurgeOverdue
    <3>1. pending' \in [Requests -> Ages \cup {None}]
      BY <2>11 DEF PurgeOverdue, TypeOK
    <3>2. timedOut' \in SUBSET Requests
      BY <2>11 DEF PurgeOverdue, TypeOK
    <3>3. QED
      BY <2>11, <3>1, <3>2 DEF PurgeOverdue, TypeOK, engine, network
  <2>12. ASSUME NEW l \in Links, PeerConnects(l) PROVE TypeOK'
    BY <2>12 DEF PeerConnects, TypeOK, engine, event
  <2>13. ASSUME NEW l \in Links, PeerDisconnects(l) PROVE TypeOK'
    BY <2>13, EmptySeq DEF PeerDisconnects, TypeOK, engine, event
  <2>14. CASE Tick
    <3>1. ASSUME NEW a \in Ages PROVE Older(a) \in Ages
      BY DEF Ages, Older
    <3>2. pending' \in [Requests -> Ages \cup {None}]
      BY <2>14, <3>1 DEF Tick, TypeOK
    <3>3. nowAge' \in 0..MaxStall
      <4>1. CASE evAt = "purge"
        BY <2>14, <4>1 DEF Tick, TypeOK
      <4>2. CASE evAt # "purge"
        BY <2>14, <4>2 DEF Tick, TypeOK
      <4>3. QED
        BY <4>1, <4>2
    <3>4. QED
      BY <2>14, <3>2, <3>3 DEF Tick, TypeOK, engine, network
  <2>15. CASE Restart
    <3>1. NoTraffic \in [Links -> Seq(Requests)]
      BY EmptySeq DEF NoTraffic
    <3>2. /\ run' \in 1..MaxRuns /\ reqId' \in 1..(signals' + 1)
          /\ soloId' \in 1..(signals' + 1) /\ bookId' \in Nat
      BY <2>0, <2>15 DEF Restart
    <3>3. pending' \in [Requests -> Ages \cup {None}]
      BY <2>15 DEF Restart, NoEntry
    <3>4. QED
      BY <2>15, <3>1, <3>2, <3>3 DEF Restart, TypeOK
  <2>16. CASE UNCHANGED vars
    BY <2>16 DEF TypeOK, vars, engine, network, event
  <2>17. QED
    BY <2>1, <2>2, <2>3, <2>5, <2>6, <2>7, <2>8, <2>9, <2>10, <2>11, <2>12, <2>13,
       <2>14, <2>15, <2>16 DEF Next, Engine, EventLoop, Environment
<1>3. QED
  BY <1>1, <1>2, PTL DEF Spec
-----------------------------------------------------------------------------
(* A request is booked at most once.                                       *)

(* The first request id that has not been handed to send yet.              *)
Unsent == IF engAt = "send" THEN reqId - 1 ELSE reqId

(* Record k is of a request of the run that is going on.                   *)
Current(k) == ledger[k].run = run /\ ledger[k].req # None

(* What the channels and the ledger know of was sent.                      *)
SentInv ==
  /\ \A l \in Links : \A j \in DOMAIN toPeer[l] : toPeer[l][j] < Unsent
  /\ \A l \in Links : \A j \in DOMAIN fromPeer[l] : fromPeer[l][j] < Unsent
  /\ \A k \in DOMAIN ledger : Current(k) => ledger[k].req < Unsent
  /\ \A k \in DOMAIN ledger : ledger[k].run <= run

(* A request of this run is at one place only: in one channel of one link, *)
(* or in the ledger.                                                       *)
PlaceInv ==
  /\ \A l, m \in Links : \A i \in DOMAIN toPeer[l], j \in DOMAIN toPeer[m] :
       toPeer[l][i] = toPeer[m][j] => l = m /\ i = j
  /\ \A l, m \in Links : \A i \in DOMAIN fromPeer[l], j \in DOMAIN fromPeer[m] :
       fromPeer[l][i] = fromPeer[m][j] => l = m /\ i = j
  /\ \A l, m \in Links : \A i \in DOMAIN toPeer[l], j \in DOMAIN fromPeer[m] :
       toPeer[l][i] # fromPeer[m][j]
  /\ \A l \in Links, k \in DOMAIN ledger : Current(k) =>
       /\ \A i \in DOMAIN toPeer[l] : toPeer[l][i] # ledger[k].req
       /\ \A i \in DOMAIN fromPeer[l] : fromPeer[l][i] # ledger[k].req

UniqueInv == SentInv /\ PlaceInv /\ BookedOnce

(* What the sequences of the state hold, as numbers.                       *)
LEMMA Elements ==
  ASSUME TypeOK
  PROVE  /\ \A l \in Links : \A j \in DOMAIN toPeer[l] : toPeer[l][j] \in Int /\ j \in Int
         /\ \A l \in Links : \A j \in DOMAIN fromPeer[l] : fromPeer[l][j] \in Int /\ j \in Int
         /\ \A k \in DOMAIN ledger : ledger[k] \in Record
         /\ \A k \in DOMAIN ledger : ledger[k].req # None => ledger[k].req \in Int
         /\ \A k \in DOMAIN ledger : ledger[k].run \in Int
         /\ reqId \in Int /\ Unsent \in Int /\ run \in Int
         /\ Len(ledger) \in Nat /\ DOMAIN ledger = 1..Len(ledger)
<1>1. ASSUME NEW q \in [Links -> Seq(Requests)], NEW l \in Links
      PROVE  \A j \in DOMAIN q[l] : q[l][j] \in Int /\ j \in Int
  <2>1. Len(q[l]) \in Nat /\ DOMAIN q[l] = 1..Len(q[l]) /\ \A j \in DOMAIN q[l] : q[l][j] \in Requests
    BY LenProperties, ElementOfSeq
  <2>2. QED
    BY <2>1 DEF Requests
<1>2. /\ Len(ledger) \in Nat /\ DOMAIN ledger = 1..Len(ledger)
      /\ \A k \in DOMAIN ledger : ledger[k] \in Record
  BY LenProperties, ElementOfSeq DEF TypeOK
<1>3. reqId \in Int /\ Unsent \in Int /\ run \in Int
  BY DEF TypeOK, Unsent
<1>4. toPeer \in [Links -> Seq(Requests)] /\ fromPeer \in [Links -> Seq(Requests)]
  BY DEF TypeOK
<1>5. \A k \in DOMAIN ledger :
        ledger[k].run \in Int /\ (ledger[k].req # None => ledger[k].req \in Int)
  BY <1>2 DEF Requests, Record
<1>6. QED
  BY <1>1, <1>2, <1>3, <1>4, <1>5

(* The ledger after a record of this run has been added.                   *)
LEMMA Booking ==
  ASSUME TypeOK, NEW rec \in Record, ledger' = Append(ledger, rec), rec.run = run, run' = run
  PROVE  /\ \A k \in DOMAIN ledger' :
              \/ k = Len(ledger) + 1 /\ ledger'[k] = rec
              \/ k \in DOMAIN ledger /\ k < Len(ledger) + 1 /\ ledger'[k] = ledger[k]
         /\ \A k \in DOMAIN ledger' : k \in Int
BY AppendIs, Elements DEF TypeOK

(* A step that sends, confirms and books nothing.                          *)
LEMMA UniqueFrame ==
  ASSUME TypeOK, UniqueInv, UNCHANGED <<run, toPeer, fromPeer, ledger>>,
         Unsent' \in Int, Unsent <= Unsent'
  PROVE  UniqueInv'
<1>1. SentInv'
  <2>1. /\ \A l \in Links : \A j \in DOMAIN toPeer[l] : toPeer[l][j] < Unsent'
        /\ \A l \in Links : \A j \in DOMAIN fromPeer[l] : fromPeer[l][j] < Unsent'
        /\ \A k \in DOMAIN ledger : Current(k) => ledger[k].req < Unsent'
    BY Elements DEF UniqueInv, SentInv, Current
  <2>2. QED
    BY <2>1 DEF UniqueInv, SentInv, Current
<1>2. QED
  BY <1>1 DEF UniqueInv, PlaceInv, BookedOnce, SameRun, Current

(* Sending puts a new id, higher than all, at the end of one channel.      *)
LEMMA SendKeeps ==
  ASSUME TypeOK, UniqueInv, Send
  PROVE  UniqueInv'
<1>1. /\ Unsent = reqId - 1 /\ Unsent' = reqId /\ UNCHANGED <<run, fromPeer, ledger>>
      /\ chosen \in Links /\ reqId - 1 \in Requests
  BY BoundAssumption DEF Send, Unsent, TypeOK, Requests
<1>2. CASE toPeer' = toPeer
  BY <1>1, <1>2, Elements, UniqueFrame
<1>3. CASE toPeer' = [toPeer EXCEPT ![chosen] = Append(@, reqId - 1)]
  <2>1. \A m \in Links : \A j \in DOMAIN toPeer'[m] :
          \/ m = chosen /\ j = Len(toPeer[chosen]) + 1 /\ toPeer'[m][j] = Unsent
          \/ j \in DOMAIN toPeer[m] /\ toPeer'[m][j] = toPeer[m][j]
    BY <1>1, <1>3, AppendAt DEF TypeOK
  <2>2. /\ \A l \in Links : \A j \in DOMAIN toPeer[l] : toPeer[l][j] < Unsent /\ toPeer[l][j] \in Int
        /\ \A l \in Links : \A j \in DOMAIN fromPeer[l] : fromPeer[l][j] < Unsent /\ fromPeer[l][j] \in Int
        /\ \A k \in DOMAIN ledger : Current(k) => ledger[k].req < Unsent /\ ledger[k].req \in Int
        /\ Unsent \in Int /\ Unsent' = Unsent + 1
    BY <1>1, Elements DEF UniqueInv, SentInv, Current
  <2>3. SentInv'
    BY <1>1, <2>1, <2>2 DEF UniqueInv, SentInv, Current
  <2>4. \A l, m \in Links : \A i \in DOMAIN toPeer'[l], j \in DOMAIN toPeer'[m] :
          toPeer'[l][i] = toPeer'[m][j] => l = m /\ i = j
    BY <2>1, <2>2 DEF UniqueInv, PlaceInv
  <2>5. PlaceInv'
    BY <1>1, <2>1, <2>2, <2>4 DEF UniqueInv, PlaceInv, Current
  <2>6. QED
    BY <1>1, <2>3, <2>5 DEF UniqueInv, BookedOnce, SameRun
<1>4. QED
  BY <1>2, <1>3 DEF Send

(* An answer moves a request from one channel of its link to the other.    *)
LEMMA ConfirmKeeps ==
  ASSUME TypeOK, UniqueInv, NEW l \in Links, PeerConfirms(l)
  PROVE  UniqueInv'
<1> DEFINE r == toPeer[l][1]
<1>1. UNCHANGED <<run, ledger>> /\ Unsent' = Unsent
  BY DEF PeerConfirms, engine, Unsent
<1>2. /\ Head(toPeer[l]) = r /\ r \in Requests /\ 1 \in DOMAIN toPeer[l]
      /\ \A m \in Links : \A j \in DOMAIN toPeer'[m] :
           \/ m # l /\ j \in DOMAIN toPeer[m] /\ toPeer'[m][j] = toPeer[m][j]
           \/ m = l /\ j \in Nat /\ j + 1 \in DOMAIN toPeer[l] /\ j + 1 # 1
                /\ toPeer'[m][j] = toPeer[l][j + 1]
  BY TailAt DEF PeerConfirms, TypeOK
<1>3. \A m \in Links : \A j \in DOMAIN fromPeer'[m] :
        \/ m = l /\ j = Len(fromPeer[l]) + 1 /\ fromPeer'[m][j] = r
        \/ j \in DOMAIN fromPeer[m] /\ fromPeer'[m][j] = fromPeer[m][j]
  BY <1>2, AppendAt DEF PeerConfirms, TypeOK
<1>4. \A m \in Links : \A j \in DOMAIN toPeer'[m] :
        /\ toPeer'[m][j] # r /\ toPeer'[m][j] < Unsent
        /\ \A n \in Links : \A i \in DOMAIN fromPeer[n] : toPeer'[m][j] # fromPeer[n][i]
        /\ \A k \in DOMAIN ledger : Current(k) => toPeer'[m][j] # ledger[k].req
  BY <1>2 DEF UniqueInv, SentInv, PlaceInv
<1>5. /\ r < Unsent
      /\ \A n \in Links : \A i \in DOMAIN fromPeer[n] : r # fromPeer[n][i]
      /\ \A k \in DOMAIN ledger : Current(k) => r # ledger[k].req
  BY <1>2 DEF UniqueInv, SentInv, PlaceInv
<1> HIDE DEF r
<1>6. SentInv'
  BY <1>1, <1>3, <1>4, <1>5 DEF UniqueInv, SentInv, Current
<1>7. \A m, n \in Links : \A i \in DOMAIN toPeer'[m], j \in DOMAIN toPeer'[n] :
        toPeer'[m][i] = toPeer'[n][j] => m = n /\ i = j
  BY <1>2 DEF UniqueInv, PlaceInv
<1>8. \A m, n \in Links : \A i \in DOMAIN fromPeer'[m], j \in DOMAIN fromPeer'[n] :
        fromPeer'[m][i] = fromPeer'[n][j] => m = n /\ i = j
  BY <1>3, <1>5 DEF UniqueInv, PlaceInv
<1>9. \A m, n \in Links : \A i \in DOMAIN toPeer'[m], j \in DOMAIN fromPeer'[n] :
        toPeer'[m][i] # fromPeer'[n][j]
  BY <1>3, <1>4
<1>10. \A m \in Links, k \in DOMAIN ledger : Current(k) =>
         /\ \A i \in DOMAIN toPeer'[m] : toPeer'[m][i] # ledger[k].req
         /\ \A i \in DOMAIN fromPeer'[m] : fromPeer'[m][i] # ledger[k].req
  BY <1>3, <1>4, <1>5 DEF UniqueInv, PlaceInv
<1>11. QED
  BY <1>1, <1>6, <1>7, <1>8, <1>9, <1>10 DEF UniqueInv, PlaceInv, Current, BookedOnce, SameRun

(* Booking moves a request from its channel to the ledger.                 *)
LEMMA BookKeeps ==
  ASSUME TypeOK, UniqueInv, NEW l \in Links, BookConfirm(l)
  PROVE  UniqueInv'
<1> DEFINE r == fromPeer[l][1]
           rec == [run |-> run, trade |-> bookId, req |-> r]
<1>1. UNCHANGED <<run, toPeer>> /\ Unsent' = Unsent
  BY DEF BookConfirm, engine, Unsent
<1>2. /\ Head(fromPeer[l]) = r /\ r \in Requests /\ 1 \in DOMAIN fromPeer[l]
      /\ \A m \in Links : \A j \in DOMAIN fromPeer'[m] :
           \/ m # l /\ j \in DOMAIN fromPeer[m] /\ fromPeer'[m][j] = fromPeer[m][j]
           \/ m = l /\ j \in Nat /\ j + 1 \in DOMAIN fromPeer[l] /\ j + 1 # 1
                /\ fromPeer'[m][j] = fromPeer[l][j + 1]
  BY TailAt DEF BookConfirm, TypeOK
<1>3. rec \in Record /\ rec.run = run /\ rec.req = r /\ ledger' = Append(ledger, rec)
  BY <1>2 DEF BookConfirm, TypeOK, Record
<1>4. \A m \in Links : \A j \in DOMAIN fromPeer'[m] :
        /\ fromPeer'[m][j] # r /\ fromPeer'[m][j] < Unsent
        /\ \A n \in Links : \A i \in DOMAIN toPeer[n] : fromPeer'[m][j] # toPeer[n][i]
        /\ \A k \in DOMAIN ledger : Current(k) => fromPeer'[m][j] # ledger[k].req
  BY <1>2 DEF UniqueInv, SentInv, PlaceInv
<1>5. /\ r < Unsent
      /\ \A n \in Links : \A i \in DOMAIN toPeer[n] : r # toPeer[n][i]
      /\ \A k \in DOMAIN ledger : Current(k) => r # ledger[k].req
  BY <1>2 DEF UniqueInv, SentInv, PlaceInv
<1>6. \A m, n \in Links : \A i \in DOMAIN fromPeer'[m], j \in DOMAIN fromPeer'[n] :
        fromPeer'[m][i] = fromPeer'[n][j] => m = n /\ i = j
  BY <1>2 DEF UniqueInv, PlaceInv
<1> HIDE DEF r, rec
<1>7. /\ \A k \in DOMAIN ledger' :
           \/ k = Len(ledger) + 1 /\ ledger'[k] = rec
           \/ k \in DOMAIN ledger /\ k < Len(ledger) + 1 /\ ledger'[k] = ledger[k]
      /\ \A k \in DOMAIN ledger' : k \in Int
  BY <1>1, <1>3, Booking
<1>8. \A k \in DOMAIN ledger' : Current(k)' =>
        \/ ledger'[k].req = r
        \/ k \in DOMAIN ledger /\ Current(k) /\ ledger'[k] = ledger[k]
  BY <1>1, <1>3, <1>7 DEF Current
<1>9. SentInv'
  <2>1. \A k \in DOMAIN ledger' : Current(k)' => ledger'[k].req < Unsent
    BY <1>5, <1>8 DEF UniqueInv, SentInv
  <2>2. \A k \in DOMAIN ledger' : ledger'[k].run <= run
    BY <1>3, <1>7, Elements DEF UniqueInv, SentInv
  <2>3. QED
    BY <1>1, <1>4, <2>1, <2>2 DEF UniqueInv, SentInv
<1>10. PlaceInv'
  <2>1. \A m \in Links, k \in DOMAIN ledger' : Current(k)' =>
          /\ \A i \in DOMAIN toPeer[m] : toPeer[m][i] # ledger'[k].req
          /\ \A i \in DOMAIN fromPeer'[m] : fromPeer'[m][i] # ledger'[k].req
    BY <1>4, <1>5, <1>8 DEF UniqueInv, PlaceInv
  <2>2. QED
    BY <1>1, <1>4, <1>6, <2>1 DEF UniqueInv, PlaceInv
<1>11. BookedOnce'
  <2> SUFFICES ASSUME NEW i \in DOMAIN ledger', NEW j \in DOMAIN ledger',
                      SameRun(i, j)', ledger'[i].req # None, ledger'[i].req = ledger'[j].req
               PROVE  i = j
    BY DEF BookedOnce
  <2>1. CASE i = Len(ledger) + 1 /\ ledger'[i] = rec
    BY <1>3, <1>5, <1>7, <2>1 DEF SameRun, Current
  <2>2. CASE j = Len(ledger) + 1 /\ ledger'[j] = rec
    BY <1>3, <1>5, <1>7, <2>2 DEF SameRun, Current
  <2>3. CASE /\ i \in DOMAIN ledger /\ ledger'[i] = ledger[i]
             /\ j \in DOMAIN ledger /\ ledger'[j] = ledger[j]
    BY <2>3 DEF SameRun, UniqueInv, BookedOnce
  <2>4. QED
    BY <1>7, <2>1, <2>2, <2>3
<1>12. QED
  BY <1>9, <1>10, <1>11 DEF UniqueInv

(* A trade made alone leaves all requests where they are.                  *)
LEMMA SoloKeeps ==
  ASSUME TypeOK, UniqueInv, TradeSolo
  PROVE  UniqueInv'
<1> DEFINE rec == [run |-> run, trade |-> soloId, req |-> None]
<1>1. UNCHANGED <<run, toPeer, fromPeer>> /\ Unsent' = Unsent
  BY DEF TradeSolo, Signal, network, Unsent
<1>2. rec \in Record /\ rec.run = run /\ rec.req = None /\ ledger' = Append(ledger, rec)
  BY DEF TradeSolo, TypeOK, Record
<1> HIDE DEF rec
<1>3. \A k \in DOMAIN ledger' :
        \/ k = Len(ledger) + 1 /\ ledger'[k] = rec
        \/ k \in DOMAIN ledger /\ k < Len(ledger) + 1 /\ ledger'[k] = ledger[k]
  BY <1>1, <1>2, Booking
<1>4. \A k \in DOMAIN ledger' : ledger'[k].req # None =>
        k \in DOMAIN ledger /\ ledger'[k] = ledger[k]
  BY <1>2, <1>3
<1>5. SentInv'
  <2>1. \A k \in DOMAIN ledger' : ledger'[k].run <= run
    BY <1>2, <1>3, Elements DEF UniqueInv, SentInv
  <2>2. QED
    BY <1>1, <1>4, <2>1 DEF UniqueInv, SentInv, Current
<1>6. PlaceInv'
  BY <1>1, <1>4 DEF UniqueInv, PlaceInv, Current
<1>7. BookedOnce'
  BY <1>4 DEF UniqueInv, BookedOnce, SameRun
<1>8. QED
  BY <1>5, <1>6, <1>7 DEF UniqueInv

(* Every step keeps a request at one place: a send is the first place of a *)
(* new id, an answer takes it on, a break or a new start forgets it.       *)
LEMMA UniqueStep ==
  ASSUME TypeOK, UniqueInv, [Next]_vars
  PROVE  UniqueInv'
<1>0. reqId \in Int /\ Unsent \in Int
  BY Elements
<1>1. CASE TradeSolo
  BY <1>1, SoloKeeps
<1>2. ASSUME NEW l \in Links, Delegate(l) PROVE UniqueInv'
  BY <1>0, <1>2, UniqueFrame DEF Delegate, Signal, network, Unsent
<1>3. CASE NoPartner
  BY <1>0, <1>3, UniqueFrame DEF NoPartner, Signal, network, Unsent
<1>4. CASE Send
  BY <1>4, SendKeeps
<1>5. CASE InsertPending
  BY <1>0, <1>5, UniqueFrame DEF InsertPending, network, Unsent
<1>6. ASSUME NEW l \in Links, PeerConfirms(l) PROVE UniqueInv'
  BY <1>6, ConfirmKeeps
<1>7. ASSUME NEW l \in Links, BookConfirm(l) PROVE UniqueInv'
  BY <1>7, BookKeeps
<1>8. ASSUME NEW l \in Links, PeerDisconnects(l) PROVE UniqueInv'
  <2>1. /\ UNCHANGED <<run, ledger>> /\ Unsent' = Unsent
        /\ \A m \in Links : \A j \in DOMAIN toPeer'[m] :
             j \in DOMAIN toPeer[m] /\ toPeer'[m][j] = toPeer[m][j]
        /\ \A m \in Links : \A j \in DOMAIN fromPeer'[m] :
             j \in DOMAIN fromPeer[m] /\ fromPeer'[m][j] = fromPeer[m][j]
    BY <1>8 DEF PeerDisconnects, engine, Unsent, TypeOK
  <2>2. SentInv' /\ PlaceInv' /\ BookedOnce'
    BY <2>1 DEF UniqueInv, SentInv, PlaceInv, BookedOnce, SameRun, Current
  <2>3. QED
    BY <2>2 DEF UniqueInv
<1>9. CASE Restart
  <2>1. /\ UNCHANGED ledger /\ run' = run + 1
        /\ \A m \in Links : toPeer'[m] = <<>> /\ fromPeer'[m] = <<>>
    BY <1>9 DEF Restart, NoTraffic
  <2>2. \A k \in DOMAIN ledger : ledger[k].run < run'
    BY <2>1, Elements DEF UniqueInv, SentInv
  <2>3. \A k \in DOMAIN ledger' : ledger'[k].run <= run' /\ ~Current(k)'
    BY <2>1, <2>2, Elements DEF Current
  <2>4. QED
    BY <2>1, <2>3 DEF UniqueInv, SentInv, PlaceInv, BookedOnce, SameRun
<1>10. CASE \/ ErasePending \/ ReadClock \/ PurgeOverdue \/ Tick \/ UNCHANGED vars
            \/ \E l \in Links : PeerConnects(l)
  <2>1. UNCHANGED <<run, toPeer, fromPeer, ledger>> /\ Unsent' = Unsent
    BY <1>10 DEF ErasePending, ReadClock, PurgeOverdue, PeerConnects, Tick, vars, engine,
                 network, Unsent
  <2>2. QED
    BY <1>0, <2>1, UniqueFrame
<1>11. QED
  BY <1>1, <1>2, <1>3, <1>4, <1>5, <1>6, <1>7, <1>8, <1>9, <1>10
     DEF Next, Engine, EventLoop, Environment

LEMMA UniqueInvariant == Spec => []UniqueInv
<1>1. Init => UniqueInv
  BY EmptySeq DEF Init, UniqueInv, SentInv, PlaceInv, BookedOnce, NoTraffic
<1>2. QED
  BY <1>1, UniqueStep, TypeCorrect, PTL DEF Spec

(* No request has two records, whatever breaks, is lost or comes late,     *)
(* whichever connections carry it, and however often the engine is started.*)
THEOREM AtMostOneRecord == Spec => []BookedOnce
<1>1. UniqueInv => BookedOnce
  BY DEF UniqueInv
<1>2. QED
  BY <1>1, UniqueInvariant, PTL

-----------------------------------------------------------------------------
(* Trade ids.                                                              *)

Solo(k) == ledger[k].req = None

(* Of the trades of one run, either kind is numbered in the order of its   *)
(* records, below the counter it is taken from, and the delegated ones     *)
(* from DelegatedBase on.                                                  *)
TradeInv ==
  /\ DelegatedBase <= bookId
  /\ \A k \in DOMAIN ledger :
       /\ ledger[k].run <= run
       /\ Solo(k) /\ ledger[k].run = run => ledger[k].trade < soloId
       /\ ~Solo(k) => DelegatedBase <= ledger[k].trade
       /\ ~Solo(k) /\ ledger[k].run = run => ledger[k].trade < bookId
       /\ \A i \in DOMAIN ledger :
            i < k /\ SameRun(i, k) /\ (Solo(i) <=> Solo(k)) => ledger[i].trade < ledger[k].trade

(* The numbers records carry.                                              *)
LEMMA Trades ==
  ASSUME TypeOK
  PROVE  \A k \in DOMAIN ledger : ledger[k].trade \in Nat /\ ledger[k].run \in Int
<1>1. \A k \in DOMAIN ledger : ledger[k] \in Record
  BY Elements
<1>2. QED
  BY <1>1 DEF Record

(* Both ways of booking take the next number of their own counter, and a   *)
(* new start has no records yet.                                           *)
LEMMA TradeStep ==
  ASSUME TypeOK, TradeInv, [Next]_vars
  PROVE  TradeInv'
<1>0. soloId \in Int /\ bookId \in Nat /\ DelegatedBase \in Nat /\ run \in Int
      /\ \A k \in DOMAIN ledger : ledger[k].trade \in Nat /\ ledger[k].run \in Int
  BY BaseAssumption, Trades DEF TypeOK
<1>1. CASE TradeSolo
  <2> DEFINE rec == [run |-> run, trade |-> soloId, req |-> None]
  <2>1. /\ ledger' = Append(ledger, rec) /\ rec.req = None /\ rec.trade = soloId
        /\ rec.run = run /\ rec \in Record /\ soloId' = soloId + 1
        /\ UNCHANGED <<run, bookId>>
    BY <1>1 DEF TradeSolo, TypeOK, Record
  <2> HIDE DEF rec
  <2>2. \A k \in DOMAIN ledger' :
          \/ k = Len(ledger) + 1 /\ ledger'[k] = rec
          \/ k \in DOMAIN ledger /\ k < Len(ledger) + 1 /\ ledger'[k] = ledger[k]
    BY <2>1, Booking
  <2>3. \A i, k \in DOMAIN ledger' : i < k => i \in DOMAIN ledger /\ ledger'[i] = ledger[i]
    BY <2>2, Elements
  <2>4. QED
    BY <1>0, <2>1, <2>2, <2>3 DEF TradeInv, Solo, SameRun
<1>2. ASSUME NEW l \in Links, BookConfirm(l) PROVE TradeInv'
  <2> DEFINE rec == [run |-> run, trade |-> bookId, req |-> Head(fromPeer[l])]
  <2>1. Head(fromPeer[l]) \in Requests
    BY <1>2, TailAt DEF BookConfirm, TypeOK
  <2>2. /\ ledger' = Append(ledger, rec) /\ rec.req # None /\ rec.trade = bookId
        /\ rec.run = run /\ rec \in Record /\ bookId' = bookId + 1
        /\ UNCHANGED <<run, soloId>>
    BY <1>0, <1>2, <2>1, NoneAssumption DEF BookConfirm, engine, Record, Requests, TypeOK
  <2> HIDE DEF rec
  <2>3. \A k \in DOMAIN ledger' :
          \/ k = Len(ledger) + 1 /\ ledger'[k] = rec
          \/ k \in DOMAIN ledger /\ k < Len(ledger) + 1 /\ ledger'[k] = ledger[k]
    BY <2>2, Booking
  <2>4. \A i, k \in DOMAIN ledger' : i < k => i \in DOMAIN ledger /\ ledger'[i] = ledger[i]
    BY <2>3, Elements
  <2>5. QED
    BY <1>0, <2>2, <2>3, <2>4 DEF TradeInv, Solo, SameRun
<1>3. CASE Restart
  <2>1. UNCHANGED ledger /\ run' = run + 1 /\ bookId' = DelegatedBase
    BY <1>3 DEF Restart
  <2>2. \A k \in DOMAIN ledger : ledger[k].run < run'
    BY <1>0, <2>1 DEF TradeInv
  <2>3. QED
    BY <1>0, <2>1, <2>2 DEF TradeInv, Solo, SameRun
<1>4. CASE UNCHANGED <<run, ledger, soloId, bookId>>
  BY <1>4 DEF TradeInv, Solo, SameRun
<1>5. QED
  BY <1>1, <1>2, <1>3, <1>4
     DEF Next, Engine, EventLoop, Environment, Delegate, NoPartner, Send, InsertPending,
         PeerConfirms, ErasePending, ReadClock, PurgeOverdue, PeerConnects,
         PeerDisconnects, Tick, vars, engine

(* Whatever the number of starts, signals and answers, two records of one  *)
(* run share a trade id only if one is of a trade made alone, the other of *)
(* a delegated one, and the first of those reached the ids of the second.  *)
THEOREM UniqueTradeIds == Spec => []TradeIdsUnique
<1>1. Init => TradeInv
  BY BaseAssumption DEF Init, TradeInv
<1>2. TypeOK /\ TradeInv /\ [Next]_vars => TradeInv'
  BY TradeStep
<1>3. TypeOK /\ TradeInv => TradeIdsUnique
  <2> SUFFICES ASSUME TypeOK, TradeInv,
                      NEW i \in DOMAIN ledger, NEW j \in DOMAIN ledger,
                      SameRun(i, j), ledger[i].trade = ledger[j].trade, i # j
               PROVE  /\ ledger[i].trade >= DelegatedBase
                      /\ ledger[i].req = None <=> ledger[j].req # None
    BY DEF TradeIdsUnique
  <2>1. /\ i \in Int /\ j \in Int /\ ledger[i].trade \in Nat /\ ledger[j].trade \in Nat
        /\ DelegatedBase \in Nat /\ SameRun(j, i)
    BY Elements, Trades, BaseAssumption DEF SameRun
  <2>2. ~(Solo(i) <=> Solo(j))
    BY <2>1 DEF TradeInv
  <2>3. QED
    BY <2>1, <2>2 DEF TradeInv, Solo
<1>4. QED
  BY <1>1, <1>2, <1>3, TypeCorrect, PTL DEF Spec

-----------------------------------------------------------------------------
(* Requests given up.                                                      *)

(* The first request id that has no entry yet.                             *)
Uninserted == IF engAt = "idle" THEN reqId ELSE reqId - 1

(* An entry is made once, for the request sent last, and never again.      *)
PendingInv ==
  \A r \in Requests :
    /\ pending[r] # None => r < Uninserted
    /\ r \in timedOut => r < Uninserted /\ pending[r] = None

(* Entries come with a new id, and go for good.                            *)
LEMMA PendingStep ==
  ASSUME TypeOK, PendingInv, [Next]_vars
  PROVE  PendingInv'
<1>0. reqId \in Int /\ Requests \subseteq Int /\ timedOut \subseteq Requests
  BY DEF TypeOK, Requests
<1>1. CASE UNCHANGED <<pending, timedOut>> /\ Uninserted' \in Int /\ Uninserted <= Uninserted'
  BY <1>0, <1>1 DEF PendingInv, Uninserted
<1>2. CASE TradeSolo \/ NoPartner \/ Send \/ \E l \in Links : Delegate(l)
  <2>1. UNCHANGED <<pending, timedOut>> /\ Uninserted' \in Int /\ Uninserted <= Uninserted'
    BY <1>0, <1>2 DEF TradeSolo, Delegate, NoPartner, Send, Signal, Uninserted
  <2>2. QED
    BY <1>1, <2>1
<1>3. CASE InsertPending
  <2>1. /\ Uninserted = reqId - 1 /\ Uninserted' = reqId /\ UNCHANGED timedOut
        /\ pending' = [pending EXCEPT ![reqId - 1] = 0]
    BY <1>3 DEF InsertPending, Uninserted
  <2>2. \A r \in Requests : r = reqId - 1 \/ pending'[r] = pending[r]
    BY <2>1 DEF TypeOK
  <2>3. QED
    BY <1>0, <2>1, <2>2 DEF PendingInv
<1>4. CASE ErasePending
  <2>1. \A r \in Requests : pending'[r] = None \/ pending'[r] = pending[r]
    BY <1>4 DEF ErasePending, TypeOK
  <2>2. QED
    BY <1>4, <2>1 DEF ErasePending, PendingInv, Uninserted, engine
<1>5. CASE PurgeOverdue
  <2>1. \A r \in Requests : /\ pending'[r] = None \/ pending'[r] = pending[r]
                            /\ Overdue(r) => pending'[r] = None /\ pending[r] # None
    BY <1>5 DEF PurgeOverdue, Overdue
  <2>2. timedOut' = timedOut \cup {r \in Requests : Overdue(r)} /\ Uninserted' = Uninserted
    BY <1>5 DEF PurgeOverdue, Uninserted, engine
  <2>3. QED
    BY <2>1, <2>2 DEF PendingInv
<1>6. CASE Tick
  <2>1. \A r \in Requests : pending'[r] = None <=> pending[r] = None
    BY <1>6, NoneAssumption, BoundAssumption DEF Tick, Older, TypeOK, Ages
  <2>2. QED
    BY <1>6, <2>1 DEF Tick, PendingInv, Uninserted, engine
<1>7. CASE Restart
  BY <1>7 DEF Restart, NoEntry, PendingInv
<1>8. CASE \/ ReadClock \/ UNCHANGED vars
           \/ \E l \in Links : \/ PeerConfirms(l) \/ BookConfirm(l)
                               \/ PeerConnects(l) \/ PeerDisconnects(l)
  <2>1. UNCHANGED <<pending, timedOut, engAt, reqId>>
    BY <1>8 DEF PeerConfirms, BookConfirm, ReadClock, PeerConnects, PeerDisconnects, vars, engine
  <2>2. QED
    BY <1>0, <1>1, <2>1 DEF Uninserted
<1>9. QED
  BY <1>2, <1>3, <1>4, <1>5, <1>6, <1>7, <1>8 DEF Next, Engine, EventLoop, Environment

LEMMA PendingInvariant == Spec => []PendingInv
<1>1. Init => PendingInv
  BY DEF Init, PendingInv, NoEntry
<1>2. QED
  BY <1>1, PendingStep, TypeCorrect, PTL DEF Spec

(* A request that was reported as timed out has no entry again, so that it *)
(* is not reported twice, however stale the clock reading of the purge is  *)
(* and though the entry is made after the request was sent.                *)
THEOREM OneReportPerRequest == Spec => []TimedOutOnce
<1>1. TypeOK /\ PendingInv => TimedOutOnce
  BY DEF TypeOK, PendingInv, TimedOutOnce
<1>2. QED
  BY <1>1, PendingInvariant, TypeCorrect, PTL

-----------------------------------------------------------------------------
(* Refinement.                                                             *)

Entries == [i \in DOMAIN ledger |-> <<ledger[i].run, ledger[i].req>>]

(* Every step is one of TradeLog's, or changes nothing of it.              *)
LEMMA LogStep ==
  ASSUME TypeOK, UniqueInv, PendingInv, [Next]_vars
  PROVE  [Log!Next]_(Log!vars)
<1>0. /\ reqId \in Int /\ Requests \subseteq Int
      /\ timedOut \subseteq Requests /\ \A r \in Requests : r >= 1
  BY DEF TypeOK, Requests
<1>1. CASE UNCHANGED <<run, reqId, ledger, timedOut>>
  BY <1>1 DEF Log!vars
<1>2. CASE NoPartner \/ \E l \in Links : Delegate(l)
  <2>1. Log!Ask
    BY <1>0, <1>2 DEF Delegate, NoPartner, Log!Ask
  <2>2. QED
    BY <2>1 DEF Log!Next
<1>3. CASE TradeSolo
  <2> DEFINE rec == [run |-> run, trade |-> soloId, req |-> None]
  <2>1. /\ ledger' = Append(ledger, rec) /\ rec \in Record
        /\ rec.run = run /\ rec.req = None
    BY <1>3 DEF TradeSolo, TypeOK, Record
  <2> HIDE DEF rec
  <2>2. Entries' = Append(Entries, <<run, None>>)
    BY <2>1, AppendMaps DEF Entries, TypeOK
  <2>3. Log!TradeAlone
    BY <1>3, <2>2 DEF TradeSolo, Entries, Log!TradeAlone
  <2>4. QED
    BY <2>3 DEF Log!Next
<1>4. ASSUME NEW l \in Links, BookConfirm(l) PROVE Log!Next
  <2> DEFINE r == fromPeer[l][1]
             rec == [run |-> run, trade |-> bookId, req |-> r]
  <2>1. Head(fromPeer[l]) = r /\ 1 \in DOMAIN fromPeer[l] /\ r \in Requests
    BY <1>4, TailAt DEF BookConfirm, TypeOK
  <2>2. /\ ledger' = Append(ledger, rec) /\ rec \in Record
        /\ rec.run = run /\ rec.req = r
    BY <1>4, <2>1 DEF BookConfirm, TypeOK, Record
  <2>3. /\ r < Unsent
        /\ \A k \in DOMAIN ledger : Current(k) => ledger[k].req # r
    BY <2>1 DEF UniqueInv, SentInv, PlaceInv
  <2> HIDE DEF r, rec
  <2>4. Entries' = Append(Entries, <<run, r>>)
    BY <2>2, AppendMaps DEF Entries, TypeOK
  <2>5. r \in 1..(reqId - 1)
    BY <1>0, <2>1, <2>3 DEF Unsent, Requests
  <2>6. \A i \in DOMAIN Entries : Entries[i] # <<run, r>>
    BY <2>1, <2>3, NoneAssumption DEF Entries, Current, Requests
  <2>7. PICK n \in 1..(reqId - 1) : n = r
    BY <2>5
  <2>8. Log!Book(n)
    BY <1>4, <2>4, <2>6, <2>7 DEF BookConfirm, engine, Entries, Log!Book
  <2>9. QED
    BY <2>8 DEF Log!Next
<1>5. CASE PurgeOverdue
  <2>1. \A r \in Requests : pending[r] # None \/ r \in timedOut => r \in 1..(reqId - 1)
    <3>1. Uninserted \in Int /\ Uninserted <= reqId
      BY <1>0 DEF Uninserted
    <3>2. QED
      BY <1>0, <3>1 DEF PendingInv
  <2>2. Log!GiveUp
    BY <1>0, <1>5, <2>1 DEF PurgeOverdue, Overdue, engine, Log!GiveUp
  <2>3. QED
    BY <2>2 DEF Log!Next
<1>6. CASE Restart
  <2>1. Log!Begin
    BY <1>6 DEF Restart, Log!Begin
  <2>2. QED
    BY <2>1 DEF Log!Next
<1>7. QED
  BY <1>1, <1>2, <1>3, <1>4, <1>5, <1>6
     DEF Next, Engine, EventLoop, Environment, Send, InsertPending, PeerConfirms, ErasePending,
         ReadClock, PeerConnects, PeerDisconnects, Tick, vars, engine

(* The engine, its event loop, its peers and every new start together keep *)
(* the promise made to the owner of the ledger.                            *)
THEOREM LedgerIsTradeLog == Spec => ImplementsTradeLog
<1>1. Init => Log!Init
  BY DEF Init, Log!Init
<1>2. TypeOK /\ UniqueInv /\ PendingInv /\ [Next]_vars => [Log!Next]_(Log!vars)
  BY LogStep
<1>3. QED
  BY <1>1, <1>2, UniqueInvariant, PendingInvariant, TypeCorrect, PTL
     DEF Spec, ImplementsTradeLog, Log!Spec
=============================================================================
