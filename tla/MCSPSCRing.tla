----------------------------- MODULE MCSPSCRing -----------------------------
(* Small rings for TLC: the feeds are model values, the ring has 4 slots   *)
(* (3 usable), and the feeds offer enough ticks to fill it and to wrap.    *)
EXTENDS SPSCRing

CONSTANTS binance, bybit

OneFeed == {binance}
=============================================================================
