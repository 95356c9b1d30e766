----------------------------- MODULE StackWiring -----------------------------
(***************************************************************************)
(* What the constructors of the five stacks wire together: which           *)
(* multiplexer is above which and by which key, where a transport layer    *)
(* finds the addresses, which protocol a flow is handed to, and how many   *)
(* flows and infos each part gets.                                         *)
(***************************************************************************)
EXTENDS Integers

Stacks == {"lan", "lan6", "mobile", "virtual", "oflow"}

Muxes == {"eth", "vlan", "mpls", "ip", "icmp", "udp", "tcp", "gre", "vxlan", "gprs",
          "of", "eth_vir", "ip_vir", "icmp_vir", "udp_vir", "tcp_vir"}

\* The kind of header that the checker of a multiplexer expects.
KindOf(stack, mux) ==
  CASE mux = "eth_vir" -> "eth"
    [] mux = "ip_vir" -> "ip"
    [] mux = "udp_vir" -> "udp"
    [] mux = "tcp_vir" -> "tcp"
    [] mux = "icmp_vir" -> "icmp"
    [] mux = "ip" /\ stack = "lan6" -> "ip6"
    [] mux = "icmp" /\ stack = "lan6" -> "icmp6"
    [] OTHER -> mux

\* The transport layers over the inner IP of the three stacks with tunnels.
Inner == {<<"ip_vir", "icmp", "icmp_vir">>, <<"ip_vir", "udp", "udp_vir">>,
          <<"ip_vir", "tcp", "tcp_vir">>}

\* addUpMultiplexer: from, key, to.
UpStackLan == {<<"eth", "ip", "ip">>, <<"ip", "udp", "udp">>, <<"ip", "tcp", "tcp">>,
               <<"ip", "icmp", "icmp">>}

UpStackLanIPv6 == {<<"eth", "ip6", "ip">>, <<"ip", "udp", "udp">>, <<"ip", "tcp", "tcp">>,
                   <<"ip", "icmp6", "icmp">>}

UpStackMobile == {<<"eth", "ip", "ip">>, <<"ip", "udp", "udp">>,
                  <<"gprs", "ip", "ip_vir">>} \cup Inner

UpStackVirtual ==
  {<<"eth", "ip", "ip">>, <<"ip", "udp", "udp">>, <<"ip", "gre", "gre">>,
   <<"gre", "0", "eth_vir">>, <<"vxlan", "0", "eth_vir">>,
   <<"eth_vir", "ip", "ip_vir">>} \cup Inner

UpStackOpenFlow ==
  {<<"eth", "ip", "ip">>, <<"ip", "tcp", "tcp">>, <<"of", "0", "eth_vir">>,
   <<"eth_vir", "ip", "ip_vir">>} \cup Inner

\* enableLinkLayerTagging: the same for every stack, for IP packets only.
UpTagging(tags) == UNION {{<<"eth", tag, tag>>, <<tag, "ip", "ip">>} : tag \in tags}

Up(stack, tags) ==
  UpTagging(tags) \cup
    CASE stack = "lan" -> UpStackLan
      [] stack = "lan6" -> UpStackLanIPv6
      [] stack = "mobile" -> UpStackMobile
      [] stack = "virtual" -> UpStackVirtual
      [] stack = "oflow" -> UpStackOpenFlow

\* Mutant: the inner transport layers are put over the outer IP.
DownOuter(mux) == "ip"

\* addDownMultiplexer of the transport layers: where they read the addresses.
Down(mux) == IF mux \in {"udp_vir", "tcp_vir"} THEN "ip_vir" ELSE "ip"

\* The protocol that a transport layer hands its flows to, if it is a tunnel.
Tunnels(stack, mux) ==
  CASE stack = "mobile" /\ mux = "udp" -> {"gprs"}
    [] stack = "virtual" /\ mux = "udp" -> {"vxlan"}
    [] stack = "oflow" /\ mux = "tcp" -> {"of"}
    [] OTHER -> {}

\* setTotalTCPFlows(tcp) and setTotalUDPFlows(udp): the flows of a layer.
Capacity(stack, mux, tcp, udp) ==
  CASE mux = "udp" /\ stack = "mobile" -> udp \div 8
    [] mux = "udp" /\ stack = "virtual" -> udp \div 32
    [] mux = "tcp" /\ stack = "oflow" -> tcp \div 8
    [] mux = "udp_vir" \/ (mux = "udp" /\ stack \notin {"mobile", "virtual"}) -> udp
    [] mux = "tcp_vir" \/ (mux = "tcp" /\ stack # "oflow") -> tcp
    [] OTHER -> 0

=============================================================================
