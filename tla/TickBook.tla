------------------------------ MODULE TickBook ------------------------------
(***************************************************************************)
(* main.cpp: how the router feeds an order book.  processTick turns each   *)
(* tick of the book's venue into two orders, a bid and an ask.  Both books *)
(* number their orders from one counter.                                   *)
(***************************************************************************)
EXTENDS OrderBook

CONSTANT MaxTicks    (* ticks of both venues; a bound, below the largest id *)

Quote == [bid : Prices, ask : Prices, bidQty : Quantities, askQty : Quantities, ts : Times]

VARIABLES
  counter,     (* order_counter: the id of the next tick's bid             *)
  tick,        (* the last tick of this venue, or None                     *)
  bidDone      (* processTick has added the bid of tick and not its ask    *)

tickVars == <<vars, counter, tick, bidDone>>

TickInit == Init /\ counter = 1 /\ tick = None /\ bidDone = FALSE

(* addOrder; when the pool is exhausted nothing is added.                  *)
Offer(o, ts) ==
  \/ AddOrder(o, ts)
  \/ Exhausted /\ UNCHANGED vars

TakeTick == ~bidDone /\ counter <= MaxTicks /\ counter' = counter + 1

(* A tick of the other venue takes an id.                                  *)
OtherVenue == TakeTick /\ UNCHANGED <<vars, tick, bidDone>>

AddBid ==
  /\ TakeTick
  /\ tick' \in Quote
  /\ bidDone' = TRUE
  /\ Offer([id |-> counter, side |-> "bid", price |-> tick'.bid,
            quantity |-> tick'.bidQty], tick'.ts)

(* The ask gets the id that the next tick's bid will get.                  *)
AddAsk ==
  /\ bidDone
  /\ bidDone' = FALSE
  /\ Offer([id |-> counter, side |-> "ask", price |-> tick.ask,
            quantity |-> tick.askQty], tick.ts)
  /\ UNCHANGED <<counter, tick>>

(* The ring is empty: the router sleeps and looks again.                   *)
NoTick == ~bidDone /\ UNCHANGED tickVars

TickNext == NoTick \/ OtherVenue \/ AddBid \/ AddAsk

TickSpec == TickInit /\ [][TickNext]_tickVars

(* Each tick replaces the top of the book: once processTick has added both *)
(* orders, the best prices are the tick's.                                 *)
TopOfBook == tick # None /\ ~bidDone => BestBid = tick.bid /\ BestAsk = tick.ask

(* The counter names ids: none is used up before MaxTicks.                 *)
EnoughIds == MaxTicks \in Nat /\ 1..(MaxTicks + 1) \subseteq Ids

(* Ticks only add orders: what the book gives as best bid never falls, and *)
(* as best ask never rises, whatever the ticks say.                        *)
TopOnlyTightens ==
  [][ /\ BestBid' >= BestBid
      /\ BestAsk # 0 => BestAsk' # 0 /\ BestAsk' <= BestAsk ]_tickVars
=============================================================================
