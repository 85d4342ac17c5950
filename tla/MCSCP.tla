------------------------------- MODULE MCSCP -------------------------------
(* One order and one report on three values of a word: 0, 1 and 1 with its *)
(* bytes reversed.                                                         *)
EXTENDS SCP

ThreeWords == {0, 1, 2^24}
Reverse    == [w \in ThreeWords |-> CASE w = 0 -> 0 [] w = 1 -> 2^24 [] OTHER -> 1]
OneOrder   == {<<1, 1>>}
OneReport  == {1}
=============================================================================
