-------------------------- MODULE MCExecDelegation --------------------------
(* A few signals, two links, two starts.  An entry is in time for as long  *)
(* as no unit of time has passed between its making and the clock reading. *)
EXTENDS ExecDelegation

CONSTANTS linkA, linkB

TwoLinks == {linkA, linkB}
=============================================================================
