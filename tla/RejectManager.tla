---------------------------- MODULE RejectManager ----------------------------
(***************************************************************************)
(* RejectManager: what the engine answers to a packet of a UDP flow that a *)
(* script has rejected, an ICMP "port unreachable".  Ends are named from    *)
(* the flow: its source sent the first packet.                             *)
(***************************************************************************)
EXTENDS Integers

Ends == {"source", "destination"}

Opposite(end) == IF end = "source" THEN "destination" ELSE "source"

\* The end that sends in a direction of the flow.
SenderOf(dir) == IF dir = "BACKWARD" THEN "destination" ELSE "source"

\* Mutant: the ends are not exchanged for a packet of the destination.
RejectUDPFlowOneWay(dir) ==
  [to |-> "source", from |-> "destination", endpoint |-> "destination"]

\* What rejectUDPFlow of StackLan answers to a packet in direction dir: the
\* ends in the IP header, and the address that the socket is given.
RejectUDPFlowLan(dir) ==
  [to |-> SenderOf(dir), from |-> Opposite(SenderOf(dir)),
   endpoint |-> Opposite(SenderOf(dir))]

\* rejectUDPFlow of StackLanIPv6 gives the socket the other address.
RejectUDPFlowLanIPv6(dir) ==
  [to |-> SenderOf(dir), from |-> Opposite(SenderOf(dir)), endpoint |-> SenderOf(dir)]

RejectUDPFlow(dir, ipv6) == IF ipv6 THEN RejectUDPFlowLanIPv6(dir) ELSE RejectUDPFlowLan(dir)

=============================================================================
