------------------------------ MODULE TradeLog ------------------------------
(***************************************************************************)
(* What the owner of the profit ledger is promised, whatever becomes of    *)
(* connections, answers and clocks, and of the engine itself.  In every    *)
(* session requests are numbered 1, 2, ...  Records are only ever added;   *)
(* each is of the session it was written in, and of a trade made alone or  *)
(* of a request of that session.  A request has at most one.  A request    *)
(* that is given up may have been booked, and may be booked yet: giving up *)
(* takes nothing back.  Nothing is promised about the order of requests.   *)
(***************************************************************************)
EXTENDS Integers, Sequences

CONSTANT None   (* the record of a trade made alone is of no request       *)

VARIABLES
  session,     (* the number of the session                                *)
  asked,       (* the number of its last request                           *)
  log,         (* the session and request each record is of, oldest first  *)
  givenUp      (* the requests of the session reported as timed out        *)

vars == <<session, asked, log, givenUp>>

Init == session = 1 /\ asked = 0 /\ log = <<>> /\ givenUp = {}

Ask == asked' = asked + 1 /\ UNCHANGED <<session, log, givenUp>>

TradeAlone ==
  /\ log' = Append(log, <<session, None>>)
  /\ UNCHANGED <<session, asked, givenUp>>

(* A request is booked in any order with others, and once.                 *)
Book(r) ==
  /\ \A i \in DOMAIN log : log[i] # <<session, r>>
  /\ log' = Append(log, <<session, r>>)
  /\ UNCHANGED <<session, asked, givenUp>>

GiveUp ==
  /\ givenUp \subseteq givenUp' /\ givenUp' \subseteq 1..asked
  /\ UNCHANGED <<session, asked, log>>

(* A new session keeps the log and forgets all else.                       *)
Begin ==
  /\ session' = session + 1
  /\ asked' = 0 /\ givenUp' = {}
  /\ UNCHANGED log

Next == Ask \/ TradeAlone \/ GiveUp \/ Begin \/ \E r \in 1..asked : Book(r)

Spec == Init /\ [][Next]_vars
=============================================================================
