---------------------------- MODULE MCOrderBook ----------------------------
(* Two ids, two prices and a handful of slots: ids collide, orders share   *)
(* levels, and the pool runs out.                                          *)
EXTENDS OrderBook, TLC

CONSTANTS id1, id2

TwoIds       == {id1, id2}
TwoPrices    == {1, 2}
UpToTwo      == 0..2
OneTime      == {1}
Symmetry     == Permutations(Ids)
=============================================================================
