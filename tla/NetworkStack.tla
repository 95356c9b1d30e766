---------------------------- MODULE NetworkStack ----------------------------
(***************************************************************************)
(* A packet's way through one of the five stacks: the dispatcher hands it  *)
(* to the first multiplexer, forwardPacket hands it from one to the next,  *)
(* a transport layer to the flow it belongs to, and the protocol of a      *)
(* tunnel to the multiplexers of the inner packet.  What a packet leaves   *)
(* behind in the multiplexers is there when the next one comes.  A packet  *)
(* is processed to the end in one step; a script may switch link layer     *)
(* tagging on between two packets.                                         *)
(***************************************************************************)
EXTENDS Layers, StackWiring, FiniteSets

CONSTANTS
  Packets,        \* bound: the packets that come to a stack
  TcpFlows,       \* setTotalTCPFlows
  UdpFlows        \* setTotalUDPFlows

ASSUME NetworkStackAssumption ==
  /\ \A s \in Stacks : \A packet \in Packets[s] : IsPacket(packet)
  /\ {TcpFlows, UdpFlows} \subseteq Nat

VARIABLES
  stack,      \* which of the five
  tags,       \* enableLinkLayerTagging
  mux,        \* what the multiplexers keep: next_protocol_id_, header_size_, address
  gtp,        \* where gprs_header_ points, counted from the start of a packet
  flows,      \* the flow tables of all layers
  labelled,   \* the flows with evidence
  lastPacket  \* what became of the last packet

walkVars == <<stack, tags, mux, gtp, flows, labelled, lastPacket>>

Tuples == [src : Nat, dst : Nat, sport : Nat, dport : Nat, kind : {"udp", "tcp"}, vni : Nat]

\* A flow of a layer: its hash, the tuple of the packet it was made for, and
\* whether it is attached to the protocol of a tunnel.
Flows == [mux : Muxes, hash : Nat, tuple : Tuples, stuck : BOOLEAN]

WalkTypeOK ==
  /\ stack \in Stacks
  /\ tags \subseteq {"vlan", "mpls"}
  /\ mux \in [Muxes -> [next : Keys, size : Nat, src : Nat, dst : Nat]]
  /\ gtp \in Nat
  /\ \A f \in flows : f \in Flows /\ Cardinality({g \in flows : g.mux = f.mux})
                        <= Capacity(stack, f.mux, TcpFlows, UdpFlows)
  /\ labelled \subseteq [mux : Muxes, hash : Nat]

AsConstructed ==
  [m \in Muxes |-> Entry("none", HeaderSize(KindOf(stack, m)), 0, 0)]

\* The stack as a walk finds it, and changes it.
Memory == [stack |-> stack, tags |-> tags, mux |-> mux, gtp |-> gtp, flows |-> flows]

NoFlow == [mux |-> "none", hash |-> 0]

-----------------------------------------------------------------------------
(***************************************************************************)
(* The walk of a packet.  w.at is the place of the header of the           *)
(* multiplexer w.mux; w.end tells why the walk is over, if it is not on.   *)
(***************************************************************************)

Start(mem, packet) ==
  [mem |-> [mem EXCEPT !.mux["eth"] = Entry(packet[1].next, @.size, @.src, @.dst)],
   mux |-> "eth", at |-> 0, tag |-> 0, path |-> <<>>,
   outer |-> NoFlow, flow |-> NoFlow, end |-> "on"]

Ended(w, why) == [w EXCEPT !.end = why]

\* The flow of a transport layer: it is found by its hash, or made.
FlowOf(w, m, h) ==
  [mux |-> m, hash |-> Hash(w.mem.mux[Down(m)], h, w.tag)]

Found(w, f) == {g \in w.mem.flows : g.mux = f.mux /\ g.hash = f.hash}

HasRoom(w, m) ==
  Cardinality({g \in w.mem.flows : g.mux = m}) < Capacity(w.mem.stack, m, TcpFlows, UdpFlows)

Made(w, m, h, f) ==
  LET ip == w.mem.mux[Down(m)]
  IN [mux |-> m, hash |-> f.hash, stuck |-> FALSE,
      tuple |-> [src |-> ip.src, dst |-> ip.dst, sport |-> h.a, dport |-> h.b,
                 kind |-> h.kind, vni |-> w.tag]]

Attached(w, f) == \E g \in Found(w, f) : g.stuck

Attach(w, f) ==
  [w EXCEPT !.mem.flows = {IF g \in Found(w, f) THEN [g EXCEPT !.stuck = TRUE] ELSE g :
                             g \in @}]

\* The next multiplexer is a tunnel's: its header is at the place.
Into(w, tunnel, place, next, size) ==
  [w EXCEPT !.mem.mux[tunnel] = Entry(next, size, @.src, @.dst),
            !.mux = tunnel, !.at = place]

\* GPRSProtocol::processFlow.  gprs_header_ is set by the checker only, for the
\* first packet of a flow: with later ones the type is read where it points to,
\* or is whatever the memory holds when the buffer has moved (stale).
IntoGPRS(w, packet, place, stale) ==
  LET here == At(packet, w.mem.gtp, "gprs")
      type == IF here = {} THEN stale ELSE packet[CHOOSE i \in here : TRUE].a
  IN IF type = 1 THEN Into(w, "gprs", place, "ip", 8) ELSE Ended(w, "signalling")

\* Mutant: the inner packet is forwarded without the VNI.
IntoVxLanUntagged(w, place, h) == Into(w, "vxlan", place, "0", 8)

IntoVxLan(w, place, h) == [Into(w, "vxlan", place, "0", 8) EXCEPT !.tag = h.a]

IntoOpenFlow(w, place, h) ==
  IF h.a = 1 THEN Into(w, "of", place, "0", 18) ELSE Ended(w, "signalling")

\* forwardFlow to the protocol of a tunnel: the checker is only asked until it
\* has accepted a packet of the flow.
IntoTunnel(w, tunnel, f, packet, place, stale) ==
  LET seen == At(packet, place, tunnel) # {}
      a == IF tunnel = "gprs" /\ ~Attached(w, f)
           THEN [Attach(w, f) EXCEPT !.mem.gtp = place] ELSE Attach(w, f)
  IN IF ~Attached(w, f) /\ ~(seen /\ Checked(tunnel, packet, place))
     THEN Ended(w, "refused")
     ELSE IF tunnel = "gprs" THEN IntoGPRS(a, packet, place, stale)
     ELSE IF ~seen THEN Ended(a, "misread")
     ELSE IF tunnel = "vxlan" THEN IntoVxLan(a, place, HeaderAt(packet, place, tunnel))
     ELSE IntoOpenFlow(a, place, HeaderAt(packet, place, tunnel))

\* processPacket of UDP and TCP, as far as the ways of packets go.
IntoFlow(w, m, h, packet, stale) ==
  LET f == FlowOf(w, m, h)
      found == Found(w, f) # {}
      v == IF found THEN w ELSE [w EXCEPT !.mem.flows = @ \cup {Made(w, m, h, f)}]
      place == w.at + h.size
  IN IF ~found /\ ~HasRoom(w, m) THEN Ended(w, "no flow")
     ELSE IF Tunnels(w.mem.stack, m) = {} THEN Ended([v EXCEPT !.flow = f], "flow")
     ELSE IF place >= Length(packet) THEN Ended(v, "empty")
     ELSE IntoTunnel([v EXCEPT !.outer = f], CHOOSE t \in Tunnels(w.mem.stack, m) : TRUE,
                     f, packet, place, stale)

\* The accepted packet is processed by the layer of multiplexer m.
Process(w, m, packet, stale) ==
  LET kind == KindOf(w.mem.stack, m)
      h == HeaderAt(packet, w.at, kind)
      left == ProcessPacket(kind, w.mem.mux[m], packet, w.at, h)
      v == [w EXCEPT !.mem.mux[m] = left.mux]
  IN IF kind \in {"udp", "tcp"} THEN IntoFlow(v, m, h, packet, stale)
     ELSE Ended(v, left.end)

\* One forwardPacket: the next multiplexer is chosen by the key, the header of
\* this one is skipped, and the next one checks and processes the rest.
Forward(w, packet, stale) ==
  LET next == {u \in Up(w.mem.stack, w.mem.tags) :
                 u[1] = w.mux /\ u[2] = w.mem.mux[w.mux].next}
      m == (CHOOSE u \in next : TRUE)[3]
      at == w.at + w.mem.mux[w.mux].size
      v == [w EXCEPT !.mux = m, !.at = at, !.path = Append(@, <<m, at>>)]
  IN IF w.end # "on" THEN w
     ELSE IF next = {} THEN Ended(w, "no layer")
     ELSE IF ~Checked(KindOf(w.mem.stack, m), packet, at) THEN Ended(v, "refused")
     ELSE IF At(packet, at, KindOf(w.mem.stack, m)) = {} THEN Ended(v, "misread")
     ELSE Process(v, m, packet, stale)

\* No stack has more layers than this.
Depth == 10

Walk(mem, packet, stale) ==
  LET w[i \in 0 .. Depth] ==
        IF i = 0 THEN Start(mem, packet) ELSE Forward(w[i - 1], packet, stale)
  IN IF Checked("eth", packet, 0) THEN w[Depth] ELSE Ended(w[0], "refused")

-----------------------------------------------------------------------------
(***************************************************************************)
(* Evidence: what makes the dispatcher write a packet down                 *)
(***************************************************************************)

\* Mutant: GPRS keeps the evidence of the inner packet to itself.
WrittenOuterOnly(w, labels) ==
  IF w.outer = NoFlow THEN w.flow \in labels ELSE w.outer \in labels

\* The flow of a VxLAN tunnel gets the evidence of what it carries, and keeps
\* it; GPRS labels the packet, OpenFlow neither.
LabelsAfter(w, asked) ==
  LET inner == IF asked /\ w.end = "flow" THEN labelled \cup {w.flow} ELSE labelled
  IN IF stack = "virtual" /\ w.outer # NoFlow /\ w.flow \in inner
     THEN inner \cup {w.outer} ELSE inner

\* The evidence of flows is copied to their packets and from layer to layer.
Written(w, labels) ==
  \/ w.outer \in labels
  \/ w.flow \in labels /\ (w.outer = NoFlow \/ stack = "mobile")

-----------------------------------------------------------------------------

WalkInit ==
  /\ stack \in Stacks
  /\ tags = {}
  /\ mux = AsConstructed
  /\ gtp = 0
  /\ flows = {}
  /\ labelled = {}
  /\ lastPacket = {}

\* forward_raw_packet: a packet comes, and something in its inspection may put
\* evidence on the flow that it reaches.
ForwardRawPacket(packet, asked, stale) ==
  LET w == Walk(Memory, packet, stale)
  IN /\ mux' = w.mem.mux
     /\ gtp' = w.mem.gtp
     /\ flows' = w.mem.flows
     /\ labelled' = LabelsAfter(w, asked)
     /\ lastPacket' = {[packet |-> packet, stale |-> stale, path |-> w.path, end |-> w.end,
                  flow |-> w.flow, written |-> Written(w, labelled')]}
     /\ UNCHANGED <<stack, tags>>

EnableLinkLayerTagging(tag) ==
  /\ tags' = tags \cup {tag}
  /\ lastPacket' = {}
  /\ UNCHANGED <<stack, mux, gtp, flows, labelled>>

WalkNext ==
  \/ \E packet \in Packets[stack], asked \in BOOLEAN,
        stale \in IF stack = "mobile" THEN {0, 1} ELSE {0} :
       ForwardRawPacket(packet, asked, stale)
  \/ \E tag \in {"vlan", "mpls"} :
       /\ \E packet \in Packets[stack] : packet[1].next = tag
       /\ EnableLinkLayerTagging(tag)

WalkSpec == WalkInit /\ [][WalkNext]_walkVars

-----------------------------------------------------------------------------
(***************************************************************************)
(* Safety                                                                  *)
(***************************************************************************)

\* What the layers do not know: options of IP and GRE, fragments that are not
\* the first, AH of another length than 24, more than three labels; and what the
\* checker of VxLAN knows but is not asked about once the flow is attached.
IsPlain(packet) ==
  /\ \A i \in 1 .. Len(packet) :
       LET h == packet[i]
       IN /\ h.kind \in {"ip", "gre", "gprs"} => h.size = HeaderSize(h.kind) /\ h.c # 2
          /\ h.kind = "ah" => h.size = 24
          /\ h.kind = "vxlan" => h.c # Foreign
  /\ Cardinality({i \in 1 .. Len(packet) : packet[i].kind = "mpls"}) <= 3

ReadsOwnGTP(packet) ==
  (\E i \in 1 .. Len(packet) : packet[i].kind = "gprs") => At(packet, gtp, "gprs") # {}

\* Every layer reads the header that is meant for it, through tags, labels,
\* extension headers and tunnels, whatever came before, if the header of GTP is
\* where the protocol has last seen one (see IntoGPRS).
HeadersRead ==
  \A l \in lastPacket :
    IsPlain(l.packet) /\ ReadsOwnGTP(l.packet) => l.end # "misread"

\* Nothing of an earlier packet that a multiplexer keeps changes the way of a
\* packet: it is the one it takes through multiplexers as constructed.  (And
\* the state is of its type.)
NothingStale ==
  WalkTypeOK /\ \A l \in lastPacket :
    LET w == Walk([Memory EXCEPT !.mux = AsConstructed], l.packet, l.stale)
    IN w.path = l.path /\ w.end = l.end /\ w.flow = l.flow

\* The tuple of the innermost IP packet.
Innermost(packet) ==
  LET Deepest(kinds) == {i \in 1 .. Len(packet) :
        packet[i].kind \in kinds /\ \A j \in i + 1 .. Len(packet) : packet[j].kind \notin kinds}
      vxlan == Deepest({"vxlan"})
  IN {[src |-> packet[n].a, dst |-> packet[n].b, sport |-> packet[t].a,
       dport |-> packet[t].b, kind |-> packet[t].kind,
       vni |-> IF vxlan = {} THEN 0 ELSE packet[CHOOSE i \in vxlan : TRUE].a] :
      n \in Deepest({"ip", "ip6"}), t \in Deepest({"udp", "tcp"})}

\* A packet is given to the flow of its own innermost tuple: addresses, ports
\* and VNI are not taken from an outer header, from another tunnel or from
\* another packet.
FlowAddressed ==
  \A l \in lastPacket : l.end = "flow" =>
    \A f \in flows : (f.mux = l.flow.mux /\ f.hash = l.flow.hash) =>
      f.tuple \in Innermost(l.packet)

\* PacketDispatcher.h:140, setEvidences: the packets of a flow with evidence
\* are written, through the tunnels of GPRS, VxLAN and GRE.
EvidenceKept ==
  \A l \in lastPacket : l.flow \in labelled /\ stack # "oflow" => l.written

\* The same of every stack: not so for OpenFlow.
EvidenceKeptAlways == \A l \in lastPacket : l.flow \in labelled => l.written

=============================================================================
