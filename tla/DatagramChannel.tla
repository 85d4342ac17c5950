-------------------------- MODULE DatagramChannel --------------------------
(***************************************************************************)
(* What a firm is promised by the link: an unreliable datagram channel.  A *)
(* message may get lost, arrive more than once and be overtaken; what      *)
(* arrives is a message that was sent, whole.                              *)
(***************************************************************************)
CONSTANT Msgs  (* the messages a firm may send                             *)

VARIABLES
  sent,        (* the messages sent so far                                 *)
  got          (* the messages the partner has acted on                    *)

vars == <<sent, got>>

Init == sent = {} /\ got = {}

(* Firms send; what arrives is among what was sent, now or earlier.        *)
Send    == sent \subseteq sent' /\ sent' \subseteq Msgs /\ UNCHANGED got
Deliver == got \subseteq got' /\ got' \subseteq sent /\ UNCHANGED sent

Next == Send \/ Deliver

Spec == Init /\ [][Next]_vars

=============================================================================
