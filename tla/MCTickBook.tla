----------------------------- MODULE MCTickBook -----------------------------
(* Two ticks, two prices, one quantity.                                    *)
EXTENDS TickBook

ThreeIds  == 1..3
TwoPrices == {1, 2}
One       == {1}
=============================================================================
