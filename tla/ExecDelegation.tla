--------------------------- MODULE ExecDelegation ---------------------------
(***************************************************************************)
(* From an ML signal to a line in the profit ledger: main.cpp (onMLSignal, *)
(* handleExecConfirm) and the request half of mesh_node.hpp.  The engine   *)
(* thread trades alone or sends an EXEC_REQUEST to a peer; the event loop  *)
(* books the peer's EXEC_CONFIRM and times out what stays unanswered.      *)
(*                                                                         *)
(* A link is a descriptor with a peer's TCP connection: in order on its    *)
(* own, in no order with the others, and what is under way on it is lost   *)
(* when it breaks.  Every request takes the link that selectBestPeer       *)
(* returns at the time; which one that is, and if there is one, is the     *)
(* business of module PeerTable.                                           *)
(*                                                                         *)
(* The engine may end at any step and be started again.  The ledger is a   *)
(* file opened to append and all that survives; run, which the code does   *)
(* not keep, counts the starts so that records can be told apart.          *)
(***************************************************************************)
EXTENDS Integers, Sequences

CONSTANTS
  Links,         (* the descriptors peers are connected through            *)
  MaxSignals,    (* ML signals the engine acts on in all; a bound          *)
  MaxRuns,       (* times the engine is started; a bound                   *)
  Limit,         (* 800 us, in the model's unit of time                    *)
  MaxStall,      (* longest wait of the event loop for pending_mu_; a bound*)
  DelegatedBase, (* first trade_id of a delegated trade: 1000 in the code  *)
  None

ASSUME BoundAssumption ==
  MaxSignals \in Nat /\ MaxRuns \in Nat \ {0} /\ Limit \in Nat /\ MaxStall \in Nat
ASSUME BaseAssumption  == DelegatedBase \in Nat
ASSUME NoneAssumption  == None \notin Int \cup Links

Requests == 1..MaxSignals
Ages     == 0..(Limit + MaxStall + 1)
Record   == [run : Nat, trade : Nat, req : Requests \cup {None}]

VARIABLES
  run,         (* how many times the engine has been started               *)
  signals,     (* signals acted on so far                                  *)
  reqId,       (* req_id: the next request_id                              *)
  soloId,      (* trade_id of onMLSignal: the next solo trade              *)
  bookId,      (* id of handleExecConfirm: the next delegated trade        *)
  engAt,       (* the engine thread: "idle", "send" or "insert"            *)
  chosen,      (* best_fd of the sendExecRequest in progress, or None      *)
  up,          (* per link: the connection is up                           *)
  toPeer,      (* per link: request ids under way to the peer              *)
  fromPeer,    (* per link: request ids of the confirms on their way back  *)
  pending,     (* pending_requests_: age of the entry, or None             *)
  evAt,        (* the event loop: "poll", "erase" or "purge"               *)
  evReq,       (* the confirm in hand is for this request                  *)
  nowAge,      (* age of the now that checkPendingTimeouts has read        *)
  ledger,      (* profit_ledger.bin                                        *)
  timedOut     (* requests of this run reported as timed out               *)

engine  == <<run, signals, reqId, soloId, engAt, chosen>>
network == <<up, toPeer, fromPeer>>
event   == <<evAt, evReq, nowAge>>
vars    == <<engine, bookId, network, pending, event, ledger, timedOut>>

NoTraffic == [l \in Links |-> <<>>]
NoEntry   == [r \in Requests |-> None]

Init ==
  /\ run = 1 /\ signals = 0 /\ ledger = <<>>
  /\ reqId = 1 /\ soloId = 1 /\ bookId = DelegatedBase
  /\ engAt = "idle" /\ chosen = None
  /\ up = [l \in Links |-> FALSE] /\ toPeer = NoTraffic /\ fromPeer = NoTraffic
  /\ pending = NoEntry
  /\ evAt = "poll" /\ evReq = None /\ nowAge = 0
  /\ timedOut = {}

-----------------------------------------------------------------------------
(* The engine thread: onMLSignal.  rand() decides who trades.              *)

Signal ==
  /\ engAt = "idle" /\ signals < MaxSignals
  /\ signals' = signals + 1

TradeSolo ==
  /\ Signal
  /\ ledger' = Append(ledger, [run |-> run, trade |-> soloId, req |-> None])
  /\ soloId' = soloId + 1
  /\ UNCHANGED <<run, reqId, engAt, chosen, bookId, network, pending, event, timedOut>>

(* Faulty: the counter moves on twice.                                     *)
DelegateSkipsId(l) ==
  /\ Signal
  /\ reqId' = reqId + 2
  /\ chosen' = l /\ engAt' = "send"
  /\ UNCHANGED <<run, soloId, bookId, network, pending, event, ledger, timedOut>>

(* A request takes its id before selectBestPeer is asked for a peer.  What *)
(* that returns may have gone down a moment ago.                           *)
Delegate(l) ==
  /\ Signal
  /\ reqId' = reqId + 1
  /\ chosen' = l /\ engAt' = "send"
  /\ UNCHANGED <<run, soloId, bookId, network, pending, event, ledger, timedOut>>

(* No peer is available: sendExecRequest returns false, and that is all.   *)
NoPartner ==
  /\ Signal
  /\ reqId' = reqId + 1
  /\ UNCHANGED <<run, soloId, engAt, chosen, bookId, network, pending, event, ledger,
                 timedOut>>

(* sendExecRequest: send, whatever comes of it, and only then the entry    *)
(* that its timeout needs.                                                 *)
Send ==
  /\ engAt = "send"
  /\ toPeer' = IF up[chosen] THEN [toPeer EXCEPT ![chosen] = Append(@, reqId - 1)]
               ELSE toPeer
  /\ engAt' = "insert"
  /\ UNCHANGED <<run, signals, reqId, soloId, chosen, bookId, up, fromPeer, pending,
                 event, ledger, timedOut>>

(* Faulty: a request is sent and not remembered.                           *)
InsertPendingLost ==
  /\ engAt = "insert"
  /\ engAt' = "idle" /\ chosen' = None
  /\ UNCHANGED <<run, signals, reqId, soloId, bookId, network, pending, event, ledger,
                 timedOut>>

InsertPending ==
  /\ engAt = "insert"
  /\ pending' = [pending EXCEPT ![reqId - 1] = 0]
  /\ engAt' = "idle" /\ chosen' = None
  /\ UNCHANGED <<run, signals, reqId, soloId, bookId, network, event, ledger, timedOut>>

-----------------------------------------------------------------------------
(* The peer's node runs the same code: it answers a request on the         *)
(* connection it came by.                                                  *)
PeerConfirms(l) ==
  /\ toPeer[l] # <<>>
  /\ fromPeer' = [fromPeer EXCEPT ![l] = Append(@, Head(toPeer[l]))]
  /\ toPeer' = [toPeer EXCEPT ![l] = Tail(@)]
  /\ UNCHANGED <<engine, bookId, up, pending, event, ledger, timedOut>>

-----------------------------------------------------------------------------
(* The event loop.                                                         *)

(* Faulty: the id of a booked trade is used again.                         *)
BookConfirmSameId(l) ==
  /\ evAt = "poll" /\ fromPeer[l] # <<>>
  /\ LET r == Head(fromPeer[l]) IN
       /\ ledger' = Append(ledger, [run |-> run, trade |-> bookId, req |-> r])
       /\ evAt' = "erase" /\ evReq' = r
  /\ fromPeer' = [fromPeer EXCEPT ![l] = Tail(@)]
  /\ UNCHANGED <<engine, bookId, up, toPeer, pending, nowAge, timedOut>>

(* EXEC_CONFIRM: the callback books the trade, pending or not, approved or *)
(* rejected by the peer ...                                                *)
BookConfirm(l) ==
  /\ evAt = "poll" /\ fromPeer[l] # <<>>
  /\ LET r == Head(fromPeer[l]) IN
       /\ ledger' = Append(ledger, [run |-> run, trade |-> bookId, req |-> r])
       /\ evAt' = "erase" /\ evReq' = r
  /\ bookId' = bookId + 1
  /\ fromPeer' = [fromPeer EXCEPT ![l] = Tail(@)]
  /\ UNCHANGED <<engine, up, toPeer, pending, nowAge, timedOut>>

(* ... and then the entry is erased, under the lock.                       *)
ErasePending ==
  /\ evAt = "erase"
  /\ pending' = [pending EXCEPT ![evReq] = None]
  /\ evAt' = "poll" /\ evReq' = None
  /\ UNCHANGED <<engine, bookId, network, nowAge, ledger, timedOut>>

(* checkPendingTimeouts reads the clock before it takes the lock.          *)
ReadClock ==
  /\ evAt = "poll"
  /\ evAt' = "purge" /\ nowAge' = 0
  /\ UNCHANGED <<engine, bookId, network, pending, evReq, ledger, timedOut>>

(* Faulty: overdue at the very limit only.                                 *)
OverdueExactly(r) == pending[r] # None /\ pending[r] - nowAge = Limit

(* now - sent_ns in 64 unsigned bits: huge when now is the older of them.  *)
Overdue(r) ==
  /\ pending[r] # None
  /\ \/ pending[r] - nowAge > Limit
     \/ pending[r] - nowAge < 0

(* Faulty: what is overdue is tried again on another link.                 *)
PurgeRetries ==
  /\ evAt = "purge"
  /\ \/ UNCHANGED toPeer
     \/ \E r \in Requests, l \in Links :
          up[l] /\ Overdue(r) /\ toPeer' = [toPeer EXCEPT ![l] = Append(@, r)]
  /\ pending' = [r \in Requests |-> IF Overdue(r) THEN 0 ELSE pending[r]]
  /\ evAt' = "poll" /\ nowAge' = 0
  /\ UNCHANGED <<engine, bookId, up, fromPeer, evReq, ledger, timedOut>>

PurgeOverdue ==
  /\ evAt = "purge"
  /\ timedOut' = timedOut \cup {r \in Requests : Overdue(r)}
  /\ pending' = [r \in Requests |-> IF Overdue(r) THEN None ELSE pending[r]]
  /\ evAt' = "poll" /\ nowAge' = 0
  /\ UNCHANGED <<engine, bookId, network, evReq, ledger>>

-----------------------------------------------------------------------------
(* The world: connections break and are made again, and time passes.       *)

PeerConnects(l) ==
  /\ ~up[l]
  /\ up' = [up EXCEPT ![l] = TRUE]
  /\ UNCHANGED <<engine, bookId, toPeer, fromPeer, pending, event, ledger, timedOut>>

PeerDisconnects(l) ==
  /\ up[l]
  /\ up' = [up EXCEPT ![l] = FALSE]
  /\ toPeer' = [toPeer EXCEPT ![l] = <<>>]
  /\ fromPeer' = [fromPeer EXCEPT ![l] = <<>>]
  /\ UNCHANGED <<engine, bookId, pending, event, ledger, timedOut>>

Older(age) == IF age = Limit + MaxStall + 1 THEN age ELSE age + 1

Tick ==
  /\ evAt = "purge" => nowAge < MaxStall
  /\ pending' = [r \in Requests |->
       IF pending[r] = None THEN None ELSE Older(pending[r])]
  /\ nowAge' = IF evAt = "purge" THEN nowAge + 1 ELSE nowAge
  /\ UNCHANGED <<engine, bookId, network, evAt, evReq, ledger, timedOut>>

(* Faulty: ids start again, and answers of the last run still come in.     *)
RestartKeepsConfirms ==
  /\ run < MaxRuns
  /\ run' = run + 1
  /\ reqId' = 1 /\ soloId' = 1 /\ bookId' = DelegatedBase
  /\ engAt' = "idle" /\ chosen' = None
  /\ pending' = NoEntry
  /\ evAt' = "poll" /\ evReq' = None /\ nowAge' = 0
  /\ timedOut' = {}
  /\ UNCHANGED <<signals, network, ledger>>

(* The engine ends, wherever its threads are, and is started again: the    *)
(* ledger is appended to, the static counters begin anew.                  *)
Restart ==
  /\ run < MaxRuns
  /\ run' = run + 1
  /\ reqId' = 1 /\ soloId' = 1 /\ bookId' = DelegatedBase
  /\ engAt' = "idle" /\ chosen' = None
  /\ up' = [l \in Links |-> FALSE] /\ toPeer' = NoTraffic /\ fromPeer' = NoTraffic
  /\ pending' = NoEntry
  /\ evAt' = "poll" /\ evReq' = None /\ nowAge' = 0
  /\ timedOut' = {}
  /\ UNCHANGED <<signals, ledger>>

-----------------------------------------------------------------------------

Engine == TradeSolo \/ NoPartner \/ Send \/ InsertPending \/ \E l \in Links : Delegate(l)

EventLoop == ErasePending \/ ReadClock \/ PurgeOverdue \/ \E l \in Links : BookConfirm(l)

Environment ==
  \/ \E l \in Links : PeerConfirms(l) \/ PeerConnects(l) \/ PeerDisconnects(l)
  \/ Tick \/ Restart

Next == Engine \/ EventLoop \/ Environment

(* The engine finishes a send it has begun, the event loop ends every turn *)
(* with a look at the clock, and time passes.  Peers owe nothing.          *)
Fairness ==
  /\ WF_vars(Send \/ InsertPending)
  /\ WF_vars(ErasePending \/ PurgeOverdue)
  /\ SF_vars(ReadClock)
  /\ WF_vars(Tick)

Spec     == Init /\ [][Next]_vars
FairSpec == Spec /\ Fairness

-----------------------------------------------------------------------------

(* Every variable ranges over what the code stores in it: ids are numbers  *)
(* already handed out, and ages stay inside the bounds.                    *)
TypeOK ==
  /\ run \in 1..MaxRuns
  /\ signals \in 0..MaxSignals
  /\ reqId \in 1..(signals + 1)
  /\ soloId \in 1..(signals + 1)
  /\ bookId \in Nat
  /\ engAt \in {"idle", "send", "insert"}
  /\ engAt # "idle" => reqId > 1
  /\ chosen \in Links \cup {None}
  /\ engAt # "idle" => chosen \in Links
  /\ up \in [Links -> BOOLEAN]
  /\ toPeer \in [Links -> Seq(Requests)]
  /\ fromPeer \in [Links -> Seq(Requests)]
  /\ pending \in [Requests -> Ages \cup {None}]
  /\ evAt \in {"poll", "erase", "purge"}
  /\ evReq \in Requests \cup {None}
  /\ evAt = "erase" => evReq \in Requests
  /\ nowAge \in 0..MaxStall
  /\ ledger \in Seq(Record)
  /\ timedOut \in SUBSET Requests

SameRun(i, j) == ledger[i].run = ledger[j].run

(* A request is booked at most once, whatever is lost, late or timed out,  *)
(* whichever connection carried it, and though the ledger goes on over the *)
(* starts of the engine while the request ids begin again.                 *)
BookedOnce ==
  \A i, j \in DOMAIN ledger :
    SameRun(i, j) /\ ledger[i].req # None /\ ledger[i].req = ledger[j].req => i = j

(* A request is reported as timed out at most once: what has been reported *)
(* is not pending, and never is again.                                     *)
TimedOutOnce == \A r \in timedOut : pending[r] = None

(* What the owner of the ledger sees of all this is TradeLog: two threads, *)
(* any number of connections and three counters keep to it.                *)
Log == INSTANCE TradeLog
         WITH session <- run,
              asked <- reqId - 1,
              log <- [i \in DOMAIN ledger |-> <<ledger[i].run, ledger[i].req>>],
              givenUp <- timedOut

ImplementsTradeLog == Log!Spec

(* A trade_id comes back in the ledger only when a new start of the engine *)
(* begins again with its counters, or when the solo trades of a run have   *)
(* reached the first delegated id: nothing but the number of those keeps   *)
(* the two counters apart.                                                 *)
TradeIdsUnique ==
  \A i, j \in DOMAIN ledger :
    SameRun(i, j) /\ ledger[i].trade = ledger[j].trade =>
      \/ i = j
      \/ /\ ledger[i].trade >= DelegatedBase
         /\ ledger[i].req = None <=> ledger[j].req # None

Booked(n, r) == \E i \in DOMAIN ledger : ledger[i].run = n /\ ledger[i].req = r

(* Every request that went out is in the end booked or reported as timed   *)
(* out, though its connection may break at any point of its way, unless    *)
(* the engine itself ends before that.                                     *)
EveryRequestResolves ==
  \A n \in 1..MaxRuns, r \in Requests :
    run = n /\ engAt = "insert" /\ reqId - 1 = r
      ~> Booked(n, r) \/ r \in timedOut \/ run # n

(* pending_requests_ does not leak: every entry is erased in the end, one  *)
(* whose confirm came before the entry was made included.                  *)
PendingDrains ==
  \A r \in Requests : pending[r] # None ~> pending[r] = None
=============================================================================
