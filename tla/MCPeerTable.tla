---------------------------- MODULE MCPeerTable ----------------------------
(* Two firms at most, a handful of descriptors, and a miss limit of one    *)
(* heartbeat period instead of five.  firmA's clock may run ahead.         *)
EXTENDS PeerTable

CONSTANTS firmA, firmB

OneFirm  == {firmA}
TwoFirms == {firmA, firmB}
NoFirm   == {}
TwoFds   == 1..2
ThreeFds == 1..3

InStep    == [f \in Firms |-> 0]
OneAhead  == [f \in Firms |-> IF f = firmA THEN 1 ELSE 0]
OneReport == {[headroom |-> 1, latency |-> 1]}
NoRoom    == {[headroom |-> 0, latency |-> 0]}   (* nobody is ever chosen  *)
=============================================================================
