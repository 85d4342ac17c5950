-------------------------- MODULE PredictionBoard --------------------------
(***************************************************************************)
(* What the engine is promised of the server's predictions.  There is one  *)
(* board; what is on it is put there, and looked at, in one step.  A       *)
(* prediction that is put up is of the last vector that was taken, or of   *)
(* one that the server made up: none takes the place of a later one.  The  *)
(* board may be wiped, and the engine may forget what it saw.              *)
(***************************************************************************)
EXTENDS Sequences

CONSTANTS
  Vectors,     (* what the server may take                                 *)
  Blank,       (* no prediction                                            *)
  MadeUp       (* of no vector of the engine                               *)

VARIABLES
  taken,       (* the vectors the server has taken, oldest first           *)
  board,       (* the vector the prediction on the board is of             *)
  seen         (* the vector the prediction the engine acts on is of       *)

vars == <<taken, board, seen>>

Init == taken = <<>> /\ board = Blank /\ seen = Blank

Take ==
  /\ \E v \in Vectors : taken' = Append(taken, v)
  /\ UNCHANGED <<board, seen>>

PutUp ==
  /\ \/ board' = MadeUp
     \/ taken # <<>> /\ board' = taken[Len(taken)]
  /\ UNCHANGED <<taken, seen>>

Wipe == board' = Blank /\ UNCHANGED <<taken, seen>>

Look == seen' = board /\ UNCHANGED <<taken, board>>

Forget == seen' = Blank /\ UNCHANGED <<taken, board>>

Next == Take \/ PutUp \/ Wipe \/ Look \/ Forget

Spec == Init /\ [][Next]_vars
=============================================================================
