--------------------------- MODULE StackForwarders ---------------------------
(***************************************************************************)
(* The application protocols of the five stacks, by transport: the list    *)
(* that the constructor makes, and the protocols that the NIDS engine      *)
(* takes off it.  The inner transports of the stacks with tunnels have the *)
(* lists; the outer ones have the protocol of the tunnel alone.            *)
(***************************************************************************)
EXTENDS Sequences, Naturals

Generic == "generic"
Freqs == "freqs"

AppsTCP == <<"http", "ssl", "smtp", "imap", "pop">>
AppsUDP == <<"dns", "sip", "dhcp", "ntp", "snmp", "ssdp">>

\* The lists of a stack: the engines put back what the constructor has put.
Lists(tcp, udp, udpDisabled) ==
  [tcp |-> [apps |-> tcp, disabled |-> tcp],
   udp |-> [apps |-> udp, disabled |-> udpDisabled]]

ForwardersStackLan == Lists(AppsTCP, AppsUDP, AppsUDP)

ForwardersStackLanIPv6 ==
  LET udp == <<"dns", "sip", "ntp", "snmp", "ssdp">> IN Lists(AppsTCP, udp, udp)

ForwardersStackMobile == Lists(AppsTCP, AppsUDP, AppsUDP)

ForwardersStackVirtual == Lists(AppsTCP, AppsUDP, AppsUDP)

ForwardersStackOpenFlow ==
  Lists(AppsTCP, AppsUDP, <<"dns", "sip", "dhcp", "ntp", "ssdp", "snmp">>)

Forwarders ==
  [lan |-> ForwardersStackLan, lan6 |-> ForwardersStackLanIPv6,
   mobile |-> ForwardersStackMobile, virtual |-> ForwardersStackVirtual,
   oflow |-> ForwardersStackOpenFlow]

-----------------------------------------------------------------------------
(***************************************************************************)
(* By what a protocol knows a packet of its own.  A payload is known by    *)
(* its first bytes, head, a name for each kind that the checkers tell      *)
(* apart ("starOK" for an asterisk and OK, "record3" for a record of TLS); *)
(* own is what it is in truth: the protocol whose conversation it opens,   *)
(* or generic for all others.                                              *)
(***************************************************************************)

Payload(own, head, sport, dport, length) ==
  [own |-> own, head |-> head, sport |-> sport, dport |-> dport, length |-> length]

Ports(packet) == {packet.sport, packet.dport}

\* The sizes of the headers that three of them want to be there.
DHCPHeader == 243
NTPHeader == 48
SNMPHeader == 4

\* HTTPProtocol::methods_
Methods == {"GET", "POST", "HEAD", "CONNECT", "OPTIONS", "PUT", "DELETE", "TRACE"}

HTTPChecker(packet) == packet.head \in Methods
SSLChecker(packet) == packet.head = "record3"

SMTPChecker(packet) == packet.head = "220" /\ packet.sport \in {25, 2525, 587}
IMAPChecker(packet) == packet.head = "starOK" /\ packet.sport = 143
POPChecker(packet) == packet.head = "plusOK" /\ packet.sport = 110

\* Over UDP a port is enough, and a header that fits.
DNSChecker(packet) == 53 \in Ports(packet)
SIPChecker(packet) == 5060 \in Ports(packet)
SSDPChecker(packet) == 1900 \in Ports(packet)
DHCPChecker(packet) == packet.length >= DHCPHeader /\ 67 \in Ports(packet)
NTPChecker(packet) == packet.length >= NTPHeader /\ 123 \in Ports(packet)
SNMPChecker(packet) == packet.length >= SNMPHeader /\ 161 \in Ports(packet)

AcceptPacket(p, packet) ==
  \/ p = "http" /\ HTTPChecker(packet)
  \/ p = "ssl" /\ SSLChecker(packet)
  \/ p = "smtp" /\ SMTPChecker(packet)
  \/ p = "imap" /\ IMAPChecker(packet)
  \/ p = "pop" /\ POPChecker(packet)
  \/ p = "dns" /\ DNSChecker(packet)
  \/ p = "sip" /\ SIPChecker(packet)
  \/ p = "ssdp" /\ SSDPChecker(packet)
  \/ p = "dhcp" /\ DHCPChecker(packet)
  \/ p = "ntp" /\ NTPChecker(packet)
  \/ p = "snmp" /\ SNMPChecker(packet)
  \/ p \in {Generic, Freqs}

-----------------------------------------------------------------------------

\* Openings of conversations of each protocol, from the side that speaks first,
\* and payloads that look much like them.
PayloadsTCP ==
  {Payload("http", method, 4000, 80, 60) : method \in {"GET", "POST"}} \cup
  {Payload("http", "GET", 4000, 25, 60), Payload("ssl", "record3", 4000, 443, 60),
   Payload("smtp", "220", 587, 4000, 20), Payload("imap", "starOK", 143, 4000, 20),
   Payload("pop", "plusOK", 110, 4000, 20), Payload(Generic, "220", 21, 4000, 20),
   Payload(Generic, "plusOK", 4000, 110, 20), Payload(Generic, "HTTP", 80, 4000, 60)}

PayloadsUDP ==
  {Payload("dns", "bytes", 4000, 53, 30), Payload("dns", "bytes", 53, 4000, 60),
   Payload("sip", "bytes", 5060, 5060, 300), Payload("dhcp", "bytes", 68, 67, 243),
   Payload("ntp", "bytes", 123, 123, 48), Payload("snmp", "bytes", 4000, 161, 40),
   Payload("ssdp", "bytes", 4000, 1900, 90), Payload(Generic, "bytes", 123, 4000, 12),
   Payload(Generic, "bytes", 68, 67, 10), Payload(Generic, "GET", 4000, 80, 60)}

Payloads == PayloadsTCP \cup PayloadsUDP

=============================================================================
