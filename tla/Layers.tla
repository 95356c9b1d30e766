------------------------------- MODULE Layers -------------------------------
(***************************************************************************)
(* What each link, network and tunnel layer makes of the header it finds.  *)
(*                                                                         *)
(* A packet is the sequence of its headers, each with its size in bytes    *)
(* and its payload at the end.  The layers do not see the sequence: they   *)
(* are handed a place in the packet, and read there the header they        *)
(* expect.  If another one is there they misread it, and a walk of the     *)
(* model ends.  The fields a, b and c of a header are, by kind,            *)
(*   ip, ip6   source, destination, and for ip 1 if more fragments follow, *)
(*             2 for the last of several; Foreign for another version, as  *)
(*             for vxlan, gprs and of                                      *)
(*   udp, tcp  source and destination port                                 *)
(*   mpls      1 at the bottom of the stack                                *)
(*   vxlan     the VNI                                                     *)
(*   gprs, of  1 if the message carries a packet                           *)
(***************************************************************************)
EXTENDS Integers, SequencesExt

CONSTANT BitXor(_, _)   \* the exclusive or of two numbers

Kinds == {"eth", "vlan", "mpls", "ip", "ip6", "ext", "ah", "icmp", "icmp6",
          "udp", "tcp", "gre", "vxlan", "gprs", "of", "data"}

\* The keys by which a multiplexer knows the one above it.
Keys == Kinds \cup {"0", "none", "frag", "unknown"}

\* The mark of a header of a version or with flags that its layer does not take.
Foreign == 3

Headers ==
  [kind : Kinds, size : Nat, next : Keys, a : Nat, b : Nat, c : 0 .. Foreign, at : Nat]

\* An extension header has a byte for the units of its size, from the first 8
\* bytes on.
IsPacket(packet) ==
  /\ packet \in Seq(Headers) /\ packet # <<>>
  /\ \A i \in 1 .. Len(packet) : packet[i].kind \in {"ext", "ah"} => packet[i].size >= 8

\* The headers with the places where they start, and the length of a packet.
LaidOut(headers) ==
  [i \in 1 .. Len(headers) |->
     [headers[i] EXCEPT !.at = FoldLeft(LAMBDA sum, h : sum + h.size, 0,
                                        SubSeq(headers, 1, i - 1))]]

Length(packet) == packet[Len(packet)].at + packet[Len(packet)].size

\* The indexes of the headers of a kind that start at a place: one or none.
At(packet, place, kind) ==
  {i \in 1 .. Len(packet) : packet[i].at = place /\ packet[i].kind = kind}

HeaderAt(packet, place, kind) == packet[CHOOSE i \in At(packet, place, kind) : TRUE]

-----------------------------------------------------------------------------
(***************************************************************************)
(* The checkers                                                            *)
(***************************************************************************)

HeaderSize(kind) ==
  CASE kind = "eth" -> 14
    [] kind \in {"vlan", "mpls", "gre"} -> 4
    [] kind \in {"ip", "tcp"} -> 20
    [] kind = "ip6" -> 40
    [] OTHER -> 8

\* Each says if its layer takes what is left of a packet, of that length and
\* with header h in front.
EthernetChecker(length, h) == length \in 40 .. 1518
VLanChecker(length, h) == length >= HeaderSize("vlan")
MPLSChecker(length, h) == length >= HeaderSize("mpls")
IPChecker(length, h) == length >= HeaderSize("ip") /\ h.c # Foreign
IP6Checker(length, h) == length >= HeaderSize("ip6") /\ h.c # Foreign
ICMPChecker(length, h) == length >= HeaderSize("icmp")
ICMP6Checker(length, h) == length >= HeaderSize("icmp6")
UDPChecker(length, h) == length >= HeaderSize("udp")
TCPChecker(length, h) == length >= HeaderSize("tcp")
GREChecker(length, h) == length >= HeaderSize("gre") /\ h.next = "eth"
VxLanChecker(length, h) == length >= HeaderSize("vxlan") /\ h.c # Foreign
GPRSChecker(length, h) == length >= HeaderSize("gprs") /\ h.c # Foreign
OpenFlowChecker(length, h) == length >= HeaderSize("of") /\ h.c # Foreign

\* The checker of a layer on a place of the packet.  If another header is there
\* it may well pass.
Checked(kind, packet, place) ==
  LET length == Length(packet) - place
      h == IF At(packet, place, kind) = {} THEN [next |-> "eth", c |-> 0]
           ELSE HeaderAt(packet, place, kind)
  IN CASE kind = "eth" -> EthernetChecker(length, h)
       [] kind = "vlan" -> VLanChecker(length, h)
       [] kind = "mpls" -> MPLSChecker(length, h)
       [] kind = "ip" -> IPChecker(length, h)
       [] kind = "ip6" -> IP6Checker(length, h)
       [] kind = "icmp" -> ICMPChecker(length, h)
       [] kind = "icmp6" -> ICMP6Checker(length, h)
       [] kind = "udp" -> UDPChecker(length, h)
       [] kind = "tcp" -> TCPChecker(length, h)
       [] kind = "gre" -> GREChecker(length, h)
       [] kind = "vxlan" -> VxLanChecker(length, h)
       [] kind = "gprs" -> GPRSChecker(length, h)
       [] kind = "of" -> OpenFlowChecker(length, h)

-----------------------------------------------------------------------------
(***************************************************************************)
(* The processPacket of the layers below the transport.  They leave in     *)
(* their multiplexer m the key of the next layer, the size of the header   *)
(* and the addresses; the walk is on, or the packet is dropped.            *)
(***************************************************************************)

Entry(next, size, src, dst) == [next |-> next, size |-> size, src |-> src, dst |-> dst]

Left(m, end) == [mux |-> m, end |-> end]

\* Mutant: one label is skipped.
LabelsOne(packet, place) == 1

\* The labels that MPLS walks over: three at most.
Labels(packet, place) ==
  LET bottom == {n \in 1 .. 3 :
        \A i \in At(packet, place + 4 * (n - 1), "mpls") : packet[i].a = 1}
  IN IF bottom = {} THEN 3 ELSE Min(bottom)

\* The size of the extension headers with h, the next of them.  AH takes its
\* length in units of six bytes, and not those before it.
ExtendedSize(s, h) ==
  LET units == IF h.kind = "ah" THEN h.size \div 4 - 2 ELSE h.size \div 8 - 1
  IN IF s.next = "ext" THEN s.size + (units + 1) * 8 ELSE units * 6

\* One round of the loop over the extension headers of IPv6.  AH does not move
\* the pointer.
Extension(packet, s) ==
  LET ptr == IF s.next = "ext" THEN s.ptr + s.size ELSE s.ptr
      here == At(packet, ptr, "ext") \cup At(packet, ptr, "ah")
      h == packet[CHOOSE i \in here : TRUE]
  IN IF s.next \notin {"ext", "ah"} \/ s.round = 3 THEN s
     ELSE IF here = {} THEN [s EXCEPT !.next = "unknown"]
     ELSE [next |-> h.next, ptr |-> ptr, round |-> s.round + 1,
           size |-> ExtendedSize(s, h)]

Extensions(packet, place, h) ==
  LET Round(s) == Extension(packet, s)
  IN Round(Round(Round([next |-> h.next, ptr |-> place + 40, size |-> 0, round |-> 0])))

\* A transport layer is seen in the third round at the latest.
ReachesTransport(s) == s.next \in {"udp", "tcp", "icmp6"} /\ s.round < 3

\* Mutant: the header size is only set when there are extension headers.
ProcessIPv6Sticky(m, packet, place, h) ==
  LET s == Extensions(packet, place, h)
  IN IF ~ReachesTransport(s) THEN Left(Entry(m.next, m.size, h.a, h.b), "dropped")
     ELSE Left(Entry(s.next, IF s.size = 0 THEN m.size ELSE 40 + s.size, h.a, h.b), "on")

ProcessIPv6(m, packet, place, h) ==
  LET s == Extensions(packet, place, h)
  IN IF ReachesTransport(s) THEN Left(Entry(s.next, 40 + s.size, h.a, h.b), "on")
     ELSE IF s.next \in {"frag", "none"} THEN Left(Entry(m.next, m.size, h.a, h.b), "dropped")
     ELSE Left(Entry("0", 40 + s.size, h.a, h.b), "dropped")

\* IP: options are not skipped, and only the last of several fragments passes.
ProcessIP(m, h) == Left(Entry(h.next, m.size, h.a, h.b), IF h.c = 1 THEN "dropped" ELSE "on")

ProcessEthernet(m, h) == Left(Entry(h.next, HeaderSize("eth"), m.src, m.dst), "on")
ProcessVLan(m, h) == Left(Entry(h.next, HeaderSize("vlan"), m.src, m.dst), "on")
ProcessGRE(m) == Left(Entry("0", HeaderSize("gre"), m.src, m.dst), "on")

ProcessMPLS(m, packet, place) ==
  Left(Entry("ip", 4 * Labels(packet, place), m.src, m.dst), "on")

ProcessPacket(kind, m, packet, place, h) ==
  CASE kind = "eth" -> ProcessEthernet(m, h)
    [] kind = "vlan" -> ProcessVLan(m, h)
    [] kind = "mpls" -> ProcessMPLS(m, packet, place)
    [] kind = "gre" -> ProcessGRE(m)
    [] kind = "ip"  -> ProcessIP(m, h)
    [] kind = "ip6" -> ProcessIPv6(m, packet, place, h)
    [] OTHER -> Left(m, "on")

-----------------------------------------------------------------------------
(***************************************************************************)
(* The identity of a flow                                                  *)
(***************************************************************************)

ProtocolNumber(kind) == IF kind = "tcp" THEN 6 ELSE 17

\* IPAddress::getHash and the tag of the packet: the exclusive or of the whole
\* tuple, the same in both directions.  tag is 0 for a packet without one.
Hash(m, h, tag) ==
  BitXor(BitXor(BitXor(BitXor(BitXor(m.src, h.a), ProtocolNumber(h.kind)), m.dst), h.b), tag)

=============================================================================
