--------------------------- MODULE MCNetworkStack ---------------------------
(***************************************************************************)
(* Packets for the five stacks: each with the tunnels it is built for,     *)
(* plain ones, and ones that take other ways.                              *)
(***************************************************************************)
EXTENDS NetworkStack, Bitwise

ExclusiveOr(x, y) == x ^^ y

H(kind, size, next, a, b) ==
  [kind |-> kind, size |-> size, next |-> next, a |-> a, b |-> b, c |-> 0, at |-> 0]

Eth(next) == H("eth", 14, next, 0, 0)
Vlan(next) == H("vlan", 4, next, 0, 0)
Label(bottom) == H("mpls", 4, "ip", bottom, 0)
Ip(next, src, dst) == H("ip", 20, next, src, dst)
Ip6(next, src, dst) == H("ip6", 40, next, src, dst)
Ext(size, next) == H("ext", size, next, 0, 0)
Ah(size, next) == H("ah", size, next, 0, 0)
Udp(sport, dport) == H("udp", 8, "none", sport, dport)
Tcp(sport, dport) == H("tcp", 20, "none", sport, dport)
Icmp == H("icmp", 8, "none", 0, 0)
Gre == H("gre", 4, "eth", 0, 0)
VxLan(vni) == H("vxlan", 8, "none", vni, 0)
Gprs(tpdu) == H("gprs", 8, "none", tpdu, 0)
PacketIn == H("of", 18, "none", 1, 0)
Hello == H("of", 8, "none", 0, 0)
Data == H("data", 40, "none", 0, 0)

Fragment(h, c) == [h EXCEPT !.c = c]
Strange(h) == [h EXCEPT !.c = Foreign]
Options(h) == [h EXCEPT !.size = 24]

InnerUdp == <<Ip("udp", 1, 2), Udp(4, 8), Data>>
InnerTcp == <<Ip("tcp", 1, 2), Tcp(4, 8), Data>>

LanPackets ==
  {<<Eth("ip")>> \o InnerUdp,
   <<Eth("vlan"), Vlan("ip")>> \o InnerTcp,
   <<Eth("mpls"), Label(0), Label(1)>> \o InnerTcp,
   <<Eth("mpls"), Label(1)>> \o InnerUdp,
   <<Eth("ip"), Ip("icmp", 1, 2), Icmp, Data>>,
   <<Eth("ip"), Fragment(Ip("udp", 1, 2), 1), Udp(4, 8), Data>>,
   <<Eth("ip"), Fragment(Ip("udp", 1, 2), 2), Data>>,
   <<Eth("ip"), Options(Ip("tcp", 1, 2)), Tcp(4, 8), Data>>,
   <<Eth("ip"), Strange(Ip("udp", 1, 2)), Udp(4, 8), Data>>}

Lan6Packets ==
  {<<Eth("ip6"), Ip6("udp", 1, 2), Udp(4, 8), Data>>,
   <<Eth("ip6"), Ip6("ext", 1, 2), Ext(8, "ext"), Ext(16, "tcp"), Tcp(4, 8), Data>>,
   <<Eth("ip6"), Ip6("ah", 1, 2), Ah(24, "tcp"), Tcp(4, 8), Data>>,
   <<Eth("ip6"), Ip6("ext", 1, 2), Ext(8, "frag"), Data>>,
   <<Eth("ip6"), Ip6("ext", 1, 2), Ext(8, "ext"), Ext(8, "ext"), Ext(8, "udp"), Udp(4, 8), Data>>,
   <<Eth("vlan"), Vlan("ip6"), Ip6("icmp6", 1, 2), H("icmp6", 8, "none", 0, 0), Data>>}

MobilePackets ==
  LET Outer(eth, tpdu) == eth \o <<Ip("udp", 16, 32), Udp(64, 128), Gprs(tpdu)>>
  IN {Outer(<<Eth("ip")>>, 1) \o InnerUdp,
      Outer(<<Eth("vlan"), Vlan("ip")>>, 1) \o InnerTcp,
      Outer(<<Eth("ip")>>, 0) \o <<Data>>,
      <<Eth("ip"), Ip("udp", 16, 33), Udp(64, 128), Data>>}

VirtualPackets ==
  LET Outer(vni) == <<Eth("ip"), Ip("udp", 16, 32), Udp(64, 128), VxLan(vni), Eth("ip")>>
  IN {Outer(256) \o InnerUdp,
      Outer(512) \o InnerUdp,
      <<Eth("ip"), Ip("gre", 16, 32), Gre, Eth("ip")>> \o InnerUdp,
      <<Eth("ip"), Ip("udp", 16, 48), Udp(64, 128), VxLan(256), Eth("ip")>> \o InnerUdp,
      <<Eth("ip"), Ip("udp", 16, 48), Udp(64, 128), Strange(VxLan(256)), Data>>,
      <<Eth("ip"), Ip("gre", 16, 32), Gre, Eth("ip"), Ip("icmp", 1, 2), Icmp, Data>>}

OpenFlowPackets ==
  LET Outer == <<Eth("ip"), Ip("tcp", 16, 32), Tcp(64, 128)>>
  IN {Outer \o <<PacketIn, Eth("ip")>> \o InnerUdp,
      Outer \o <<PacketIn, Eth("ip")>> \o InnerTcp,
      Outer \o <<Hello, Data>>,
      Outer \o <<Strange(Hello), Data>>,
      <<Eth("ip"), Ip("udp", 1, 2), Udp(4, 8), Data>>}

MCPackets ==
  [s \in Stacks |->
     {LaidOut(packet) : packet \in
        CASE s = "lan" -> LanPackets
          [] s = "lan6" -> Lan6Packets
          [] s = "mobile" -> MobilePackets
          [] s = "virtual" -> VirtualPackets
          [] s = "oflow" -> OpenFlowPackets}]

\* Two connections of one host to another whose tuples have the same hash.
Colliding ==
  [s \in Stacks |->
     {LaidOut(<<Eth("ip"), Ip("tcp", 1, 2), ports, Data>>) :
        ports \in {Tcp(1000, 80), Tcp(1001, 81)}}]

=============================================================================
