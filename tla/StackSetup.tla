----------------------------- MODULE StackSetup -----------------------------
(***************************************************************************)
(* What a program or a script sets on a stack, where it takes effect, and  *)
(* what the flows that come meanwhile leave in the pools and in the        *)
(* databases of the user.                                                  *)
(*                                                                         *)
(* A stack keeps its protocols in a list and looks them up by the name of  *)
(* their class, so that the outer and the inner UDP of a tunnel share one. *)
(* Layers are named by their multiplexers (StackWiring).                   *)
(***************************************************************************)
EXTENDS StackWiring, FiniteSets, SequencesExt

CONSTANTS
  SetupCalls,   \* bound: calls that set something
  FlowsAtOnce,  \* bound: flows in the tables of a stack at a time
  Sampling,     \* setUDPDatabaseAdaptor(db, packet_sampling)
  Tuples        \* five-tuples of flows

ASSUME StackSetupAssumption == {SetupCalls, FlowsAtOnce} \subseteq Nat /\ Sampling \in Nat \ {0}

Transports == {"tcp", "udp"}
Nothing == "nothing"
Day == 86400

-----------------------------------------------------------------------------
(***************************************************************************)
(* The protocols of a stack, in the order in which it adds them            *)
(***************************************************************************)

OverTCP == <<"http", "ssl", "smtp", "imap", "pop", "tcp_generic", "freqs_tcp">>
OverUDP == <<"dns", "sip", "dhcp", "ntp", "snmp", "ssdp", "udp_generic", "freqs_udp">>
OverUDPNoDHCP == <<"dns", "sip", "ntp", "snmp", "ssdp", "udp_generic", "freqs_udp">>

ProtocolsStackLan ==
  <<"eth", "vlan", "mpls", "ip", "tcp", "udp", "icmp">> \o OverTCP \o OverUDP

ProtocolsStackLanIPv6 ==
  <<"eth", "vlan", "mpls", "ip", "tcp", "udp", "icmp">> \o OverTCP \o OverUDPNoDHCP

ProtocolsStackMobile ==
  <<"eth", "vlan", "mpls", "ip", "udp", "gprs", "ip_vir", "udp_vir", "tcp_vir",
    "icmp_vir">> \o OverTCP \o OverUDPNoDHCP

ProtocolsStackVirtual ==
  <<"eth", "vlan", "mpls", "ip", "gre", "udp", "vxlan", "eth_vir", "ip_vir", "tcp_vir",
    "udp_vir", "icmp_vir">> \o OverTCP \o OverUDP

ProtocolsStackOpenFlow ==
  <<"eth", "vlan", "mpls", "ip", "tcp", "of", "eth_vir", "ip_vir", "tcp_vir", "udp_vir",
    "icmp_vir">> \o OverTCP \o OverUDP

-----------------------------------------------------------------------------
(***************************************************************************)
(* The flow tables: the protocol that hears of the flows that time out,    *)
(* the protocols that walk the table to release their caches, the timeout. *)
(***************************************************************************)

Table(owner, walkers, timeout) == [owner |-> owner, walkers |-> walkers, timeout |-> timeout]

WalkTCP == {"http", "ssl", "smtp", "imap", "pop"}
WalkUDP == {"dns", "sip", "ssdp"}
Default == 180

TablesStackLan ==
  [tcp |-> Table("tcp", WalkTCP, Default), udp |-> Table("udp", WalkUDP, Default)]

TablesStackLanIPv6 ==
  [tcp |-> Table("tcp", WalkTCP, Default), udp |-> Table("udp", WalkUDP, Default)]

TablesStackMobile ==
  [udp |-> Table(Nothing, {"gprs"}, Day), tcp_vir |-> Table("tcp_vir", WalkTCP, Default),
   udp_vir |-> Table("udp_vir", WalkUDP, Default)]

TablesStackVirtual ==
  [udp |-> Table("udp", {}, Day), tcp_vir |-> Table("tcp_vir", WalkTCP, Default),
   udp_vir |-> Table("udp_vir", WalkUDP, Default)]

TablesStackOpenFlow ==
  [tcp |-> Table("tcp", {}, Day), tcp_vir |-> Table("tcp_vir", WalkTCP, Default),
   udp_vir |-> Table("udp_vir", WalkUDP, Default)]

-----------------------------------------------------------------------------
(***************************************************************************)
(* setTotalTCPFlows(tcp) and setTotalUDPFlows(udp): flows and infos        *)
(***************************************************************************)

AppInfos(tcp, udp) ==
  [http |-> (tcp * 3) \div 4, ssl |-> (tcp * 2) \div 5, smtp |-> tcp \div 20,
   imap |-> tcp \div 20, pop |-> tcp \div 20,
   dns |-> udp \div 2, sip |-> udp \div 5, ssdp |-> udp \div 5]

\* The infos of the applications and those of another protocol.
With(infos, p, n) == [q \in DOMAIN infos \cup {p} |-> IF q = p THEN n ELSE infos[q]]

TotalsStackLan(tcp, udp) ==
  [flows |-> [tcp |-> tcp, udp |-> udp],
   infos |-> With(AppInfos(tcp, udp), "tcp", tcp)]

TotalsStackLanIPv6(tcp, udp) ==
  [flows |-> [tcp |-> tcp, udp |-> udp],
   infos |-> With(AppInfos(tcp, udp), "tcp", tcp)]

TotalsStackMobile(tcp, udp) ==
  [flows |-> [udp |-> udp \div 8, tcp_vir |-> tcp, udp_vir |-> udp],
   infos |-> With(With(AppInfos(tcp, udp), "tcp_vir", tcp), "gprs", udp \div 8)]

TotalsStackVirtual(tcp, udp) ==
  [flows |-> [udp |-> udp \div 32, tcp_vir |-> tcp, udp_vir |-> udp],
   infos |-> With(AppInfos(tcp, udp), "tcp_vir", tcp)]

TotalsStackOpenFlow(tcp, udp) ==
  [flows |-> [tcp |-> tcp \div 8, tcp_vir |-> tcp, udp_vir |-> udp],
   infos |-> With(With(AppInfos(tcp, udp), "tcp", tcp \div 8), "tcp_vir", tcp)]

-----------------------------------------------------------------------------
(***************************************************************************)
(* The parts that the setters of a stack reach: setFlowsTimeout, and by    *)
(* transport setRegexManager and setIPSetManager                           *)
(***************************************************************************)

Setters(tcp, udp) ==
  [timeout |-> {tcp, udp},
   regex |-> [tcp |-> {tcp, "tcp_generic"}, udp |-> {udp, "udp_generic"}],
   ipset |-> [tcp |-> {tcp}, udp |-> {udp}]]

SettersStackLan == Setters("tcp", "udp")
SettersStackLanIPv6 == Setters("tcp", "udp")
SettersStackMobile == Setters("tcp_vir", "udp_vir")
SettersStackVirtual == Setters("tcp_vir", "udp_vir")
SettersStackOpenFlow == Setters("tcp_vir", "udp_vir")

-----------------------------------------------------------------------------

\* What the constructor of a stack makes of these.
Parts ==
  [lan |-> [protocols |-> ProtocolsStackLan, tables |-> TablesStackLan,
            setters |-> SettersStackLan],
   lan6 |-> [protocols |-> ProtocolsStackLanIPv6, tables |-> TablesStackLanIPv6,
             setters |-> SettersStackLanIPv6],
   mobile |-> [protocols |-> ProtocolsStackMobile, tables |-> TablesStackMobile,
               setters |-> SettersStackMobile],
   virtual |-> [protocols |-> ProtocolsStackVirtual, tables |-> TablesStackVirtual,
                setters |-> SettersStackVirtual],
   oflow |-> [protocols |-> ProtocolsStackOpenFlow, tables |-> TablesStackOpenFlow,
              setters |-> SettersStackOpenFlow]]

Totals(stack, tcp, udp) ==
  CASE stack = "lan" -> TotalsStackLan(tcp, udp)
    [] stack = "lan6" -> TotalsStackLanIPv6(tcp, udp)
    [] stack = "mobile" -> TotalsStackMobile(tcp, udp)
    [] stack = "virtual" -> TotalsStackVirtual(tcp, udp)
    [] stack = "oflow" -> TotalsStackOpenFlow(tcp, udp)

TransportOf(layer) == IF layer \in {"tcp", "tcp_vir"} THEN "tcp" ELSE "udp"

VARIABLES
  stack,
  made,       \* the flows and the infos that were created
  free,       \* the infos that are free
  timeout,    \* of each flow table
  rules,      \* the regex and the ipset manager of each part
  wanted,     \* history: what the user set last
  adaptor,    \* the layers that write to the database of their transport
  flows,      \* the flows in the tables
  rows,       \* the flows that a database of the user has
  stray,      \* history: databases that were told of a flow they did not have
  followed,   \* history: layers that got a fresh database before their first flow,
              \* and have never had two flows of one five-tuple at a time
  calls       \* setters called

setupVars == <<stack, made, free, timeout, rules, wanted, adaptor, flows, rows, stray,
               followed, calls>>

Tables == Parts[stack].tables
Layers == DOMAIN Tables

\* The layer over which the applications are, and the application of the model
\* over a layer.
Inspected(t) == CHOOSE layer \in Parts[stack].setters.timeout : TransportOf(layer) = t
AppOf(layer) ==
  CASE layer \in Parts[stack].setters.timeout ->
         IF TransportOf(layer) = "tcp" THEN "http" ELSE "dns"
    [] stack = "mobile" /\ layer = "udp" -> "gprs"
    [] OTHER -> Nothing

\* get_protocol: the first protocol of a class.
Class(p) == IF p \in Muxes THEN KindOf(stack, p) ELSE p
GetProtocol(class) ==
  LET i == SelectInSeq(Parts[stack].protocols, LAMBDA p : Class(p) = class)
  IN IF i = 0 THEN {} ELSE {Parts[stack].protocols[i]}

\* The pool of TCPInfos that CacheManager knows: every TCPProtocol has registered
\* its own, the last one of the stack stays.
Registered == IF "tcp_vir" \in Layers THEN "tcp_vir" ELSE "tcp"

SetupTypeOK ==
  /\ stack \in Stacks
  /\ made.flows \in [Layers -> Nat]
  /\ free \in [DOMAIN made.infos -> Nat]
  /\ timeout \in [Layers -> Nat]
  /\ adaptor \subseteq Layers /\ followed \subseteq Layers /\ stray \subseteq Transports
  /\ rows \in [Transports -> SUBSET Tuples]
  /\ calls \in 0 .. SetupCalls

Inspectors == {"tcp", "udp", "tcp_vir", "udp_vir", "tcp_generic", "udp_generic"}

SetupInit ==
  /\ stack \in Stacks
  /\ made = Totals(stack, 0, 0)
  /\ free = made.infos
  /\ timeout = [layer \in Layers |-> Tables[layer].timeout]
  /\ rules = [kind \in {"regex", "ipset"} |-> [part \in Inspectors |-> Nothing]]
  /\ wanted = [timeout |-> Default,
               rules |-> [kind \in {"regex", "ipset"} |-> [t \in Transports |-> Nothing]]]
  /\ adaptor = {} /\ flows = {}
  /\ rows = [t \in Transports |-> {}]
  /\ stray = {} /\ followed = {} /\ calls = 0

-----------------------------------------------------------------------------
(***************************************************************************)
(* The setters                                                             *)
(***************************************************************************)

Set ==
  /\ calls < SetupCalls
  /\ calls' = calls + 1
  /\ UNCHANGED <<stack, flows, rows, stray>>

\* setTotalTCPFlows and setTotalUDPFlows: what is created is added.
SetTotalFlows(tcp, udp) ==
  /\ Set
  /\ LET more == Totals(stack, tcp, udp)
     IN /\ made' = [flows |-> [l \in Layers |-> made.flows[l] + more.flows[l]],
                    infos |-> [p \in DOMAIN free |-> made.infos[p] + more.infos[p]]]
        /\ free' = [p \in DOMAIN free |-> free[p] + more.infos[p]]
  /\ UNCHANGED <<timeout, rules, wanted, adaptor, followed>>

SetFlowsTimeout(t) ==
  /\ Set
  /\ timeout' = [l \in Layers |-> IF l \in Parts[stack].setters.timeout THEN t ELSE timeout[l]]
  /\ wanted' = [wanted EXCEPT !.timeout = t]
  /\ UNCHANGED <<made, free, rules, adaptor, followed>>

\* setTCPRegexManager, setUDPRegexManager, setTCPIPSetManager, setUDPIPSetManager.
SetManager(kind, t, manager) ==
  /\ Set
  /\ rules' = [rules EXCEPT ![kind] = [part \in Inspectors |->
                 IF part \in Parts[stack].setters[kind][t] THEN manager ELSE @[part]]]
  /\ wanted' = [wanted EXCEPT !.rules[kind][t] = manager]
  /\ UNCHANGED <<made, free, timeout, adaptor, followed>>

\* Protocol::setDatabaseAdaptor; with None the database is let go.
AdaptorOf(layer, set) == IF set THEN adaptor \cup {layer} ELSE adaptor \ {layer}

\* setTCPDatabaseAdaptor and setUDPDatabaseAdaptor.
SetDatabaseAdaptor(t, set) ==
  /\ Set
  /\ \E layer \in GetProtocol(t) :
       /\ adaptor' = AdaptorOf(layer, set)
       /\ followed' = IF set /\ rows[t] = {} /\ t \notin stray
                         /\ \A f \in flows : f.layer # layer
                      THEN followed \cup {layer} ELSE followed \ {layer}
  /\ UNCHANGED <<made, free, timeout, rules, wanted>>

-----------------------------------------------------------------------------
(***************************************************************************)
(* The databases: a flow is known there by its five-tuple                  *)
(***************************************************************************)

InsertHandler(r, f) == [r EXCEPT !.rows = @ \cup {f.tuple}]
UpdateHandler(r, f) == [r EXCEPT !.stray = @ \/ f.tuple \notin r.rows]
RemoveHandler(r, f) ==
  [rows |-> r.rows \ {f.tuple}, stray |-> r.stray \/ f.tuple \notin r.rows]

\* The database of a layer is told, if there is one.
Tell(layer, Handler(_, _), f, r) == IF layer \in adaptor THEN Handler(r, f) ELSE r

Database(t) == [rows |-> rows[t], stray |-> t \in stray]

Written(t, r) ==
  /\ rows' = [rows EXCEPT ![t] = r.rows]
  /\ stray' = IF r.stray THEN stray \cup {t} ELSE stray \ {t}

-----------------------------------------------------------------------------
(***************************************************************************)
(* The flows                                                               *)
(***************************************************************************)

\* UDP samples the packets 1, 1 + Sampling, ..., TCP every Samplingth.
IsSampled(layer, packets) ==
  packets % Sampling = IF TransportOf(layer) = "udp" THEN 1 % Sampling ELSE 0

\* A pool that counts: the infos that a flow of the layer needs, and has if any
\* is left.
TCPInfoOf(layer) == IF TransportOf(layer) = "tcp" THEN {layer} ELSE {}
Taken(pools, needed) == {p \in needed : pools[p] > 0}
FreeWithout(pools, infos) == [p \in DOMAIN pools |-> IF p \in infos THEN pools[p] - 1 ELSE pools[p]]

\* A packet that asks for the info of the application: a payload of http, a query
\* of dns, of GPRS only CREATE_PDP_CONTEXT_REQUEST.
AppInfoOf(layer, asks) == IF asks THEN {AppOf(layer)} \ {Nothing} ELSE {}

\* getFlow and processPacket for the first packet of a flow: a flow of TCP that
\* gets no TCPInfo goes no further.
NewFlow(layer, tuple, tag, asks) ==
  LET t == TransportOf(layer)
      tcpinfo == Taken(free, TCPInfoOf(layer))
      goesOn == t = "udp" \/ tcpinfo # {}
      infos == tcpinfo \cup IF goesOn THEN Taken(free, AppInfoOf(layer, asks)) ELSE {}
      f == [layer |-> layer, tuple |-> tuple, tag |-> tag, infos |-> infos,
            packets |-> IF goesOn THEN 1 % Sampling ELSE 0]
      inserted == Tell(layer, InsertHandler, f, Database(t))
  IN /\ Cardinality({g \in flows : g.layer = layer}) < made.flows[layer]
     /\ \A g \in flows : ~(g.layer = layer /\ g.tuple = tuple /\ g.tag = tag)
     /\ flows' = flows \cup {f}
     /\ free' = FreeWithout(free, infos)
     /\ Written(t, IF goesOn /\ IsSampled(layer, f.packets)
                   THEN Tell(layer, UpdateHandler, f, inserted) ELSE inserted)
     /\ followed' = IF \E g \in flows : g.layer = layer /\ g.tuple = tuple
                    THEN followed \ {layer} ELSE followed
     /\ UNCHANGED <<stack, made, timeout, rules, wanted, adaptor, calls>>

\* processPacket for a later one: a flow whose info was released or that got none
\* gets one now.
MorePackets(f, asks) ==
  LET t == TransportOf(f.layer)
      infos == Taken(free, AppInfoOf(f.layer, asks) \ f.infos)
      g == [f EXCEPT !.packets = (@ + 1) % Sampling, !.infos = @ \cup infos]
  IN /\ t = "udp" \/ f.layer \in f.infos
     /\ flows' = (flows \ {f}) \cup {g}
     /\ Written(t, IF IsSampled(f.layer, g.packets)
                   THEN Tell(f.layer, UpdateHandler, f, Database(t)) ELSE Database(t))
     /\ free' = FreeWithout(free, infos)
     /\ UNCHANGED <<stack, made, timeout, rules, wanted, adaptor, followed, calls>>

\* Mutant: only TCPInfos go back.
GivenBackTCPOnly(pools, infos) ==
  [p \in DOMAIN pools |->
     IF p \in infos \cap {Registered} /\ pools[p] < made.infos[p] THEN pools[p] + 1
     ELSE pools[p]]

\* CacheManager::releaseFlow: one pool of each kind is known, and a pool that is
\* full takes no more.
GivenBack(pools, infos) ==
  LET home == {IF p \in {"tcp", "tcp_vir"} THEN Registered ELSE p : p \in infos}
  IN [p \in DOMAIN pools |->
        IF p \in home /\ pools[p] < made.infos[p] THEN pools[p] + 1 ELSE pools[p]]

FlowEnds(f, teller) ==
  LET t == TransportOf(f.layer)
  IN /\ flows' = flows \ {f}
     /\ free' = GivenBack(free, f.infos)
     /\ Written(t, Tell(teller, RemoveHandler, f, Database(t)))
     /\ UNCHANGED <<stack, made, timeout, rules, wanted, adaptor, followed, calls>>

\* FlowManager::updateTimers: the owner of the table is told.
FlowTimesOut(f) == FlowEnds(f, Tables[f.layer].owner)

\* Mutant: a connection that closes is not removed from the database.
TCPClosesSilent(f) ==
  /\ TransportOf(f.layer) = "tcp" /\ f.layer \in f.infos
  /\ FlowEnds(f, Nothing)

\* The end of TCPProtocol::processPacket for a connection that is closed.
TCPCloses(f) ==
  /\ TransportOf(f.layer) = "tcp" /\ f.layer \in f.infos
  /\ FlowEnds(f, f.layer)

\* releaseCache(name) and releaseCaches: a protocol takes the infos of the flows
\* in the table that it walks.
ReleaseCache(names) ==
  LET protocols == UNION {GetProtocol(name) : name \in names}
      Walked(f) == f.infos \cap protocols \cap Tables[f.layer].walkers
      back(p) == Cardinality({f \in flows : p \in Walked(f)})
  IN /\ \E f \in flows : Walked(f) # {}
     /\ flows' = {[f EXCEPT !.infos = @ \ Walked(f)] : f \in flows}
     /\ free' = [p \in DOMAIN free |-> free[p] + back(p)]
     /\ UNCHANGED <<stack, made, timeout, rules, wanted, adaptor, rows, stray, followed,
                    calls>>

SetupNext ==
  \/ SetTotalFlows(8, 0) \/ SetTotalFlows(0, 32)
  \/ SetFlowsTimeout(60)
  \/ \E kind \in {"regex", "ipset"}, t \in Transports, manager \in {Nothing, "manager"} :
       SetManager(kind, t, manager)
  \/ \E t \in Transports, set \in BOOLEAN : SetDatabaseAdaptor(t, set)
  \/ \E layer \in Layers, tuple \in Tuples,
        tag \in IF stack = "virtual" THEN {1, 2} ELSE {0} :
       Cardinality(flows) < FlowsAtOnce /\ \E asks \in BOOLEAN : NewFlow(layer, tuple, tag, asks)
  \/ \E f \in flows :
        \/ \E asks \in BOOLEAN : MorePackets(f, asks)
        \/ FlowTimesOut(f)
        \/ TCPCloses(f)
  \/ \E p \in {"http", "dns", "gprs"} : ReleaseCache({p})
  \/ ReleaseCache({"http", "dns", "gprs"})

SetupSpec == SetupInit /\ [][SetupNext]_setupVars

-----------------------------------------------------------------------------
(***************************************************************************)
(* Safety                                                                  *)
(***************************************************************************)

\* DatabaseAdaptor.h, insert, update and remove: a database that is there from
\* the first flow on has the flows of its layer, no more and no less, through
\* time-outs, closed connections and their successors, and is told to update or
\* remove only what it has.  Not so for the outer UDP of StackMobile, of whose
\* table nobody hears (StackMobile.cc:205).
RowsOfFlows ==
  \A layer \in IF stack = "mobile" THEN followed \ {"udp"} ELSE followed :
    LET t == TransportOf(layer)
    IN /\ rows[t] = {f.tuple : f \in {g \in flows : g.layer = layer}}
       /\ t \notin stray

\* What the user sets reaches the layer over which the applications are, on every
\* stack and in any order of calls and packets, and no info of a pool is lost: it
\* is free or a flow in the tables has it.  Not so for StackOpenFlow, see
\* InfosAtHome.  (And the state is of its type.)
SettingsReach ==
  /\ SetupTypeOK
  /\ \A t \in Transports :
       /\ \A kind \in {"regex", "ipset"} : rules[kind][Inspected(t)] = wanted.rules[kind][t]
       /\ rules["regex"][IF t = "tcp" THEN "tcp_generic" ELSE "udp_generic"] = wanted.rules["regex"][t]
       /\ timeout[Inspected(t)] = wanted.timeout
  /\ stack # "oflow" => \A p \in DOMAIN free :
       free[p] + Cardinality({f \in flows : p \in f.infos}) = made.infos[p]

-----------------------------------------------------------------------------
(***************************************************************************)
(* What one expects, and is not so                                         *)
(***************************************************************************)

\* The same without the exceptions: a flow has a row of its own even if another
\* VNI has the same five-tuple, and StackMobile's rows go with their flows.
RowsOfFlowsAlways ==
  \A layer \in adaptor \cap followed :
    rows[TransportOf(layer)] = {f.tuple : f \in {g \in flows : g.layer = layer}}

\* Infos go back to the pool they are from: with two TCP layers in StackOpenFlow
\* the one that CacheManager knows gets all, and the outer one runs dry.
InfosAtHome ==
  \A p \in DOMAIN free :
    free[p] + Cardinality({f \in flows : p \in f.infos}) = made.infos[p]

\* python_wrapper.cc:119, set_udp_database_adaptor: the database gets the flows of
\* the layer over which the applications are.
AdaptorReaches == adaptor \subseteq Parts[stack].setters.timeout

=============================================================================
