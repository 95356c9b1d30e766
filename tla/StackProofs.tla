----------------------------- MODULE StackProofs -----------------------------
(***************************************************************************)
(* Proofs about the five stacks.                                           *)
(*                                                                         *)
(* Their forwarders (FlowForwarder): for any number of flows and of calls  *)
(* that switch an engine between their packets, a flow is served by one    *)
(* protocol until it ends, and by its own one.                             *)
(*                                                                         *)
(* Their setup (StackSetup): what the user sets reaches the layer over     *)
(* which the applications are, no info of a pool is lost, and a database   *)
(* has the flows of its layer.                                             *)
(***************************************************************************)
EXTENDS FlowForwarder, StackSetup, SharedLemmas

-----------------------------------------------------------------------------
(***************************************************************************)
(*                             The forwarders                              *)
(***************************************************************************)

\* The list of a stack as its constructor makes it.
Whole == Append(Protocols, Generic)

\* A flow was served by the protocol it sticks to, and by that alone; and while
\* the NIDS engine is used plainly the list is the constructor's or holds the
\* generic protocol alone, so that a flow sticks to the one that is due.
ForwarderInv ==
  /\ wiring \in UNION {Range(Forwarders[s]) : s \in DOMAIN Forwarders}
  /\ TypeOK
  /\ \A f \in Flows : served[f] = {forwarder[f]} \ {None}
  /\ \A f \in Flows : due[f] # None => forwarder[f] = due[f]
  /\ plain => IF nids THEN Indexes(up, {Generic}) ELSE up = Whole

-----------------------------------------------------------------------------
(***************************************************************************)
(* The lists of the stacks                                                 *)
(***************************************************************************)

AppsUDP5 == <<"dns", "sip", "ntp", "snmp", "ssdp">>

\* The transports of the five stacks have three lists of protocols, and one of
\* them has them in another order for the NIDS engine.
LEMMA Wirings ==
  ASSUME wiring \in UNION {Range(Forwarders[s]) : s \in DOMAIN Forwarders}
  PROVE  \/ wiring.apps = AppsTCP /\ wiring.disabled = AppsTCP
         \/ /\ wiring.apps = AppsUDP
            /\ wiring.disabled \in {AppsUDP, <<"dns", "sip", "dhcp", "ntp", "ssdp", "snmp">>}
         \/ wiring.apps = AppsUDP5 /\ wiring.disabled = AppsUDP5
<1> DEFINE Wired(w, tcp, udp, off) ==
             w = [apps |-> tcp, disabled |-> tcp] \/ w = [apps |-> udp, disabled |-> off]
<1>1. \A tcp, udp, off : \A w \in Range(Lists(tcp, udp, off)) : Wired(w, tcp, udp, off)
  BY DEF Lists, Range
<1>2. PICK s \in {"lan", "lan6", "mobile", "virtual", "oflow"} : wiring \in Range(Forwarders[s])
  BY DEF Forwarders
<1>3. /\ Forwarders["lan"] = Lists(AppsTCP, AppsUDP, AppsUDP)
      /\ Forwarders["lan6"] = Lists(AppsTCP, AppsUDP5, AppsUDP5)
      /\ Forwarders["mobile"] = Lists(AppsTCP, AppsUDP, AppsUDP)
      /\ Forwarders["virtual"] = Lists(AppsTCP, AppsUDP, AppsUDP)
      /\ Forwarders["oflow"] =
           Lists(AppsTCP, AppsUDP, <<"dns", "sip", "dhcp", "ntp", "ssdp", "snmp">>)
  BY DEF Forwarders, ForwardersStackLan, ForwardersStackLanIPv6, ForwardersStackMobile,
         ForwardersStackVirtual, ForwardersStackOpenFlow, AppsUDP5
<1> HIDE DEF Wired
<1>4. \/ Wired(wiring, AppsTCP, AppsUDP, AppsUDP)
      \/ Wired(wiring, AppsTCP, AppsUDP5, AppsUDP5)
      \/ Wired(wiring, AppsTCP, AppsUDP, <<"dns", "sip", "dhcp", "ntp", "ssdp", "snmp">>)
  <2>1. CASE s \in {"lan", "mobile", "virtual"}
    BY <1>1, <1>2, <1>3, <2>1
  <2>2. CASE s = "lan6"
    BY <1>1, <1>2, <1>3, <2>2
  <2>3. CASE s = "oflow"
    BY <1>1, <1>2, <1>3, <2>3
  <2> QED
    BY <2>1, <2>2, <2>3
<1> QED
  BY <1>4 DEF Wired

NamesTCP == {"http", "ssl", "smtp", "imap", "pop"}
NamesUDP == {"dns", "sip", "dhcp", "ntp", "snmp", "ssdp"}

\* The protocols of a list are of one transport, each once, and the NIDS engine
\* takes off those that the constructor has put there.
LEMMA Wired ==
  ASSUME wiring \in UNION {Range(Forwarders[s]) : s \in DOMAIN Forwarders}
  PROVE  /\ Indexes(Protocols, Range(Protocols))
         /\ wiring.disabled \in Seq(Range(Protocols))
         /\ Range(Protocols) =
              {wiring.disabled[j] : j \in 1 .. Len(wiring.disabled)}
         /\ \/ Range(Protocols) \subseteq NamesTCP /\ "http" \in Range(Protocols)
            \/ Range(Protocols) \subseteq NamesUDP
<1> DEFINE apps == wiring.apps
           off == wiring.disabled
<1>1. CASE apps = AppsTCP /\ off = AppsTCP
  <2>1. apps = <<"http", "ssl", "smtp", "imap", "pop">> /\ Len(apps) = 5
    BY <1>1 DEF AppsTCP
  <2>2. Range(apps) = NamesTCP
    BY <2>1 DEF Range, NamesTCP
  <2>3. apps \in Seq(NamesTCP)
    BY <2>1 DEF NamesTCP
  <2>4. {off[j] : j \in 1 .. 5} = NamesTCP
    BY <1>1, <2>1 DEF NamesTCP
  <2> QED
    BY <1>1, <2>1, <2>2, <2>3, <2>4 DEF Indexes, Protocols, NamesTCP
<1>2. CASE /\ apps = AppsUDP
           /\ off \in {AppsUDP, <<"dns", "sip", "dhcp", "ntp", "ssdp", "snmp">>}
  <2>1. apps = <<"dns", "sip", "dhcp", "ntp", "snmp", "ssdp">> /\ Len(apps) = 6
    BY <1>2 DEF AppsUDP
  <2>2. Range(apps) = NamesUDP
    BY <2>1 DEF Range, NamesUDP
  <2>3. apps \in Seq(NamesUDP)
    BY <2>1 DEF NamesUDP
  <2>4. off \in Seq(NamesUDP) /\ Len(off) = 6 /\ {off[j] : j \in 1 .. 6} = NamesUDP
    <3>1. CASE off = AppsUDP
      BY <3>1 DEF AppsUDP, NamesUDP
    <3>2. CASE off = <<"dns", "sip", "dhcp", "ntp", "ssdp", "snmp">>
      BY <3>2 DEF NamesUDP
    <3> QED
      BY <1>2, <3>1, <3>2
  <2>5. \A i, j \in 1 .. 6 : apps[i] = apps[j] => i = j
    BY <2>1
  <2>6. \A p \in NamesUDP : \E i \in 1 .. 6 : apps[i] = p
    BY <2>1 DEF NamesUDP
  <2> HIDE DEF apps, off
  <2> QED
    BY <2>1, <2>2, <2>3, <2>4, <2>5, <2>6 DEF Indexes, Protocols, apps, off
<1>3. CASE apps = AppsUDP5 /\ off = AppsUDP5
  <2>1. apps = <<"dns", "sip", "ntp", "snmp", "ssdp">> /\ Len(apps) = 5
    BY <1>3 DEF AppsUDP5
  <2> DEFINE names == {"dns", "sip", "ntp", "snmp", "ssdp"}
  <2>2. Range(apps) = names
    BY <2>1 DEF Range
  <2>3. apps \in Seq(names)
    BY <2>1
  <2>4. {off[j] : j \in 1 .. 5} = names
    BY <1>3, <2>1
  <2> QED
    BY <1>3, <2>1, <2>2, <2>3, <2>4 DEF Indexes, Protocols, NamesUDP
<1> QED
  BY <1>1, <1>2, <1>3, Wirings

-----------------------------------------------------------------------------
(***************************************************************************)
(* Which protocol gets a flow                                              *)
(***************************************************************************)

\* The checkers of the protocols over TCP tell the openings of their own
\* conversations from those of the others and from what looks like them.
LEMMA AcceptedTCP ==
  ASSUME NEW packet \in PayloadsTCP, NEW p \in NamesTCP
  PROVE  AcceptPacket(p, packet) <=> p = packet.own
<1>1. /\ AcceptPacket("http", packet) <=> packet.head \in Methods
      /\ AcceptPacket("ssl", packet) <=> packet.head = "record3"
      /\ AcceptPacket("smtp", packet) <=> packet.head = "220" /\ packet.sport \in {25, 2525, 587}
      /\ AcceptPacket("imap", packet) <=> packet.head = "starOK" /\ packet.sport = 143
      /\ AcceptPacket("pop", packet) <=> packet.head = "plusOK" /\ packet.sport = 110
  BY DEF AcceptPacket, Generic, Freqs,
         HTTPChecker, SSLChecker, SMTPChecker, IMAPChecker, POPChecker
<1>2. \/ packet.own = "http" /\ packet.head \in {"GET", "POST"} /\ packet.sport = 4000
      \/ packet.own = "ssl" /\ packet.head \in {"record3"} /\ packet.sport = 4000
      \/ packet.own = "smtp" /\ packet.head \in {"220"} /\ packet.sport = 587
      \/ packet.own = "imap" /\ packet.head \in {"starOK"} /\ packet.sport = 143
      \/ packet.own = "pop" /\ packet.head \in {"plusOK"} /\ packet.sport = 110
      \/ packet.own = Generic /\ packet.head \in {"220"} /\ packet.sport = 21
      \/ packet.own = Generic /\ packet.head \in {"plusOK"} /\ packet.sport = 4000
      \/ packet.own = Generic /\ packet.head \in {"HTTP"} /\ packet.sport = 80
  <2>1. CASE \E method \in {"GET", "POST"} : packet = Payload("http", method, 4000, 80, 60)
    BY <2>1 DEF Payload
  <2>2. CASE ~ \E method \in {"GET", "POST"} : packet = Payload("http", method, 4000, 80, 60)
    BY <2>2 DEF PayloadsTCP, Payload
  <2> QED
    BY <2>1, <2>2
<1> DEFINE own == packet.own
           head == packet.head
           sport == packet.sport
<1> HIDE DEF own, head, sport
<1>3. \/ own = "http" /\ head \in {"GET", "POST"} /\ sport = 4000
      \/ own = "ssl" /\ head = "record3" /\ sport = 4000
      \/ own = "smtp" /\ head = "220" /\ sport = 587
      \/ own = "imap" /\ head = "starOK" /\ sport = 143
      \/ own = "pop" /\ head = "plusOK" /\ sport = 110
      \/ own = "generic" /\ head = "220" /\ sport = 21
      \/ own = "generic" /\ head = "plusOK" /\ sport = 4000
      \/ own = "generic" /\ head = "HTTP" /\ sport = 80
  BY <1>2 DEF own, head, sport, Generic
<1>4. head \in Methods <=> own = "http"
  BY <1>3 DEF Methods
<1>5. head = "record3" <=> own = "ssl"
  BY <1>3
<1>6. head = "220" /\ sport \in {25, 2525, 587} <=> own = "smtp"
  BY <1>3
<1>7. head = "starOK" /\ sport = 143 <=> own = "imap"
  BY <1>3
<1>8. head = "plusOK" /\ sport = 110 <=> own = "pop"
  BY <1>3
<1>9. /\ AcceptPacket("http", packet) <=> own = "http"
      /\ AcceptPacket("ssl", packet) <=> own = "ssl"
      /\ AcceptPacket("smtp", packet) <=> own = "smtp"
      /\ AcceptPacket("imap", packet) <=> own = "imap"
      /\ AcceptPacket("pop", packet) <=> own = "pop"
  BY <1>1, <1>4, <1>5, <1>6, <1>7, <1>8 DEF own, head, sport
<1> QED
  BY <1>9 DEF NamesTCP, own

\* The same over UDP, by ports and sizes of headers.
LEMMA AcceptedUDP ==
  ASSUME NEW packet \in PayloadsUDP, NEW p \in NamesUDP
  PROVE  AcceptPacket(p, packet) <=> p = packet.own
<1>1. AcceptPacket(p, packet) <=>
        \/ p = "dns" /\ 53 \in Ports(packet)
        \/ p = "sip" /\ 5060 \in Ports(packet)
        \/ p = "ssdp" /\ 1900 \in Ports(packet)
        \/ p = "dhcp" /\ packet.length >= DHCPHeader /\ 67 \in Ports(packet)
        \/ p = "ntp" /\ packet.length >= NTPHeader /\ 123 \in Ports(packet)
        \/ p = "snmp" /\ packet.length >= SNMPHeader /\ 161 \in Ports(packet)
  BY DEF AcceptPacket, NamesUDP, Generic, Freqs, DNSChecker, SIPChecker, SSDPChecker,
         DHCPChecker, NTPChecker, SNMPChecker
<1>2. \/ /\ packet.own = "dns" /\ packet.sport = 4000
         /\ packet.dport = 53 /\ packet.length = 30
      \/ /\ packet.own = "dns" /\ packet.sport = 53
         /\ packet.dport = 4000 /\ packet.length = 60
      \/ /\ packet.own = "sip" /\ packet.sport = 5060
         /\ packet.dport = 5060 /\ packet.length = 300
      \/ /\ packet.own = "dhcp" /\ packet.sport = 68
         /\ packet.dport = 67 /\ packet.length = 243
      \/ /\ packet.own = "ntp" /\ packet.sport = 123
         /\ packet.dport = 123 /\ packet.length = 48
      \/ /\ packet.own = "snmp" /\ packet.sport = 4000
         /\ packet.dport = 161 /\ packet.length = 40
      \/ /\ packet.own = "ssdp" /\ packet.sport = 4000
         /\ packet.dport = 1900 /\ packet.length = 90
      \/ /\ packet.own = Generic /\ packet.sport = 123
         /\ packet.dport = 4000 /\ packet.length = 12
      \/ /\ packet.own = Generic /\ packet.sport = 68
         /\ packet.dport = 67 /\ packet.length = 10
      \/ /\ packet.own = Generic /\ packet.sport = 4000
         /\ packet.dport = 80 /\ packet.length = 60
  BY DEF PayloadsUDP, Payload
<1>3. CASE p = "dns"
  BY <1>1, <1>2, <1>3 DEF Generic, Ports
<1>4. CASE p = "sip"
  BY <1>1, <1>2, <1>4 DEF Generic, Ports
<1>5. CASE p = "dhcp"
  BY <1>1, <1>2, <1>5 DEF Generic, Ports, DHCPHeader
<1>6. CASE p = "ntp"
  BY <1>1, <1>2, <1>6 DEF Generic, Ports, NTPHeader
<1>7. CASE p = "snmp"
  BY <1>1, <1>2, <1>7 DEF Generic, Ports, SNMPHeader
<1>8. CASE p = "ssdp"
  BY <1>1, <1>2, <1>8 DEF Generic, Ports
<1> QED
  BY <1>3, <1>4, <1>5, <1>6, <1>7, <1>8 DEF NamesUDP

\* The generic protocol accepts whatever comes.
LEMMA AcceptedGeneric == \A packet : AcceptPacket(Generic, packet)
BY DEF AcceptPacket, Generic, Freqs

\* forwardFlow looks for the first protocol of the list that accepts.
LEMMA FirstAccepts ==
  ASSUME NEW packet, up \in Seq(All)
  PROVE  \/ First(packet) = None /\ \A j \in 1 .. Len(up) : ~AcceptPacket(up[j], packet)
         \/ \E i \in 1 .. Len(up) :
              /\ AcceptPacket(up[i], packet) /\ First(packet) = up[i]
              /\ \A j \in 1 .. Len(up) : AcceptPacket(up[j], packet) => i <= j
<1> DEFINE I == {i \in 1 .. Len(up) : AcceptPacket(up[i], packet)}
           i == IF I # {} THEN Min(I) ELSE 0
<1>1. First(packet) = IF i = 0 THEN None ELSE up[i]
  BY DEF First, SelectInSeq
<1>2. I \in SUBSET Nat /\ 0 \notin I
  OBVIOUS
<1>3. CASE I = {}
  BY <1>1, <1>3
<1>4. CASE I # {}
  <2>1. i \in I /\ \A j \in I : i <= j
    <3> HIDE DEF I
    <3> QED
      BY <1>2, <1>4, MinIsLeast
  <2> HIDE DEF i
  <2>2. i # 0 /\ i \in 1 .. Len(up) /\ AcceptPacket(up[i], packet)
    BY <1>2, <2>1
  <2>3. \A j \in 1 .. Len(up) : AcceptPacket(up[j], packet) => i <= j
    BY <2>1
  <2> HIDE DEF I
  <2> QED
    BY <1>1, <2>2, <2>3
<1> QED
  BY <1>3, <1>4

-----------------------------------------------------------------------------
(***************************************************************************)
(* What the engines leave of a list                                        *)
(***************************************************************************)

\* removeUpFlowForwarder takes one protocol of a list that has each once.
LEMMA RemoveUpKeeps ==
  ASSUME NEW S, NEW list \in Seq(S), NEW p
  PROVE  /\ RemoveUpFlowForwarder(list, p) \in Seq(S)
         /\ Indexes(list, S) => Indexes(RemoveUpFlowForwarder(list, p), S \ {p})
<1> DEFINE I == {i \in 1 .. Len(list) : list[i] = p}
           first == IF I # {} THEN Min(I) ELSE 0
           rest == RemoveUpFlowForwarder(list, p)
<1>1. rest = IF first = 0 THEN list ELSE RemoveAt(list, first)
  BY DEF RemoveUpFlowForwarder, SelectInSeq
<1>2. I \in SUBSET Nat /\ 0 \notin I
  OBVIOUS
<1>3. CASE I = {}
  <2>1. rest = list
    BY <1>1, <1>3
  <2>2. Indexes(list, S) => p \notin S
    BY <1>3 DEF Indexes
  <2>3. p \notin S => S \ {p} = S
    OBVIOUS
  <2> HIDE DEF rest
  <2>4. Indexes(list, S) => Indexes(rest, S \ {p})
    BY <2>1, <2>2, <2>3
  <2> QED
    BY <2>1, <2>4 DEF rest
<1>4. CASE I # {}
  <2>1. first \in I
    <3> HIDE DEF I
    <3> QED
      BY <1>2, <1>4, MinIsLeast
  <2> HIDE DEF first
  <2>2. first \in 1 .. Len(list) /\ list[first] = p /\ rest = RemoveAt(list, first)
    BY <1>1, <1>2, <2>1
  <2> HIDE DEF I, rest
  <2>3. rest \in Seq(S)
    BY <2>2, RemoveAtEntries
  <2>4. ASSUME Indexes(list, S) PROVE Indexes(rest, S \ {p})
    <3>1. p \in S
      BY <2>2, ElementOfSeq
    <3>2. Place(list, p) \in 1 .. Len(list) /\ list[Place(list, p)] = p
      BY <2>4, <3>1, PlaceOf
    <3>3. Place(list, p) = first
      BY <2>2, <2>4, <3>2 DEF Indexes
    <3>4. rest = Without(list, p)
      BY <2>2, <3>3 DEF Without
    <3> QED
      BY <2>4, <3>1, <3>4, WithoutIndex
  <2> QED
    BY <2>3, <2>4 DEF rest
<1> QED
  BY <1>3, <1>4

\* The calls of the NIDS engine, one after the other.
LEMMA RemovedSteps ==
  ASSUME NEW S, NEW list \in Seq(S), NEW T, NEW gone \in Seq(T)
  PROVE  \E left :
           /\ Removed(list, gone) = left[Len(gone)]
           /\ left[0] = list
           /\ \A i \in 0 .. Len(gone) : left[i] \in Seq(S)
           /\ \A i \in 1 .. Len(gone) : left[i] = RemoveUpFlowForwarder(left[i - 1], gone[i])
<1> DEFINE k == Len(gone)
           Runs(f) == f = [i \in 0 .. k |->
                             IF i = 0 THEN list ELSE RemoveUpFlowForwarder(f[i - 1], gone[i])]
           left == CHOOSE f : Runs(f)
           G == [i \in 0 .. k |-> Seq(S)]
           step == [i \in 1 .. k |-> [x \in Seq(S) |-> RemoveUpFlowForwarder(x, gone[i])]]
<1>1. k \in Nat
  BY LenProperties
<1>2. Removed(list, gone) = left[k]
  BY DEF Removed
<1> HIDE DEF k
<1>3. /\ \A i \in 1 .. k : i - 1 \in 0 .. k /\ i \in 0 .. k /\ i # 0
      /\ 0 \in 0 .. k
  BY <1>1
<1>4. \A i \in 1 .. k : \A x \in Seq(S) : RemoveUpFlowForwarder(x, gone[i]) \in Seq(S)
  BY RemoveUpKeeps
<1>5. list \in G[0] /\ \A i \in 1 .. k : \A x \in G[i - 1] : step[i][x] \in G[i]
  BY <1>3, <1>4
<1>6. PICK f : Iterates(f, k, G, list, step)
  <2> HIDE DEF step, G
  <2> QED
    BY <1>1, <1>5, Iteration
<1>7. \A i \in 0 .. k : f[i] \in Seq(S)
  BY <1>6 DEF Iterates
<1>8. \A i \in 1 .. k : f[i] = RemoveUpFlowForwarder(f[i - 1], gone[i])
  <2> SUFFICES ASSUME NEW i \in 1 .. k PROVE f[i] = RemoveUpFlowForwarder(f[i - 1], gone[i])
    OBVIOUS
  <2>1. f[i - 1] \in Seq(S) /\ f[i] = step[i][f[i - 1]]
    BY <1>3, <1>6, <1>7 DEF Iterates
  <2> QED
    BY <2>1
<1>9. f = [i \in 0 .. k |-> f[i]] /\ f[0] = list
  BY <1>6 DEF Iterates
<1>10. Runs(f)
  <2>1. \A i \in 0 .. k : i # 0 => i \in 1 .. k
    BY <1>1
  <2>2. \A i \in 0 .. k : f[i] = IF i = 0 THEN list ELSE RemoveUpFlowForwarder(f[i - 1], gone[i])
    BY <1>8, <1>9, <2>1
  <2> QED
    BY <1>9, <2>2
<1>11. Runs(left)
  BY <1>10
<1> HIDE DEF left, step, G
<1>12. \A i \in 1 .. k : left[i] = RemoveUpFlowForwarder(left[i - 1], gone[i])
  BY <1>3, <1>11
<1>13. left[0] = list
  BY <1>3, <1>11
<1>14. \A i \in 0 .. k : left[i] \in Seq(S)
  <2> DEFINE J == {i \in 0 .. k : left[i] \in Seq(S)}
  <2>1. 0 \in J
    BY <1>3, <1>13
  <2>2. \A i \in 0 .. k - 1 : i \in J => i + 1 \in J
    <3> SUFFICES ASSUME NEW i \in 0 .. k - 1, i \in J PROVE i + 1 \in J
      OBVIOUS
    <3> DEFINE j == i + 1
    <3>1. j \in 1 .. k /\ j \in 0 .. k /\ j - 1 = i
      BY <1>1
    <3> HIDE DEF j
    <3>2. left[j] \in Seq(S)
      BY <1>4, <1>12, <3>1
    <3> QED
      BY <3>1, <3>2 DEF j
  <2> HIDE DEF J
  <2>3. 0 .. k \subseteq J
    BY <1>1, <2>1, <2>2, IntervalInduction
  <2> QED
    BY <2>3 DEF J
<1> QED
  BY <1>2, <1>12, <1>13, <1>14 DEF k

\* What they leave is what they were not called for, in its order.
LEMMA RemovedKeeps ==
  ASSUME NEW S, NEW list \in Seq(S), NEW T, NEW gone \in Seq(T)
  PROVE  /\ Removed(list, gone) \in Seq(S)
         /\ Indexes(list, S) =>
              Indexes(Removed(list, gone), S \ {gone[j] : j \in 1 .. Len(gone)})
<1> DEFINE k == Len(gone)
           Off(i) == {gone[j] : j \in 1 .. i}
<1>1. k \in Nat
  BY LenProperties
<1>2. PICK left :
        /\ Removed(list, gone) = left[k]
        /\ left[0] = list
        /\ \A i \in 0 .. k : left[i] \in Seq(S)
        /\ \A i \in 1 .. k : left[i] = RemoveUpFlowForwarder(left[i - 1], gone[i])
  BY RemovedSteps
<1> HIDE DEF k
<1>3. ASSUME Indexes(list, S) PROVE Indexes(left[k], S \ Off(k))
  <2> DEFINE J == {i \in 0 .. k : Indexes(left[i], S \ Off(i))}
  <2>1. 0 \in J
    <3>1. S \ Off(0) = S
      OBVIOUS
    <3> HIDE DEF Off
    <3>2. Indexes(left[0], S \ Off(0))
      BY <1>2, <1>3, <3>1
    <3> QED
      BY <1>1, <3>2
  <2>2. \A i \in 0 .. k - 1 : i \in J => i + 1 \in J
    <3> SUFFICES ASSUME NEW i \in 0 .. k - 1, i \in J PROVE i + 1 \in J
      OBVIOUS
    <3> DEFINE n == i + 1
               R == S \ Off(i)
    <3>1. n \in 1 .. k /\ n \in 0 .. k /\ n - 1 = i
      BY <1>1
    <3>2. R \ {gone[n]} = S \ Off(n)
      <4>1. Off(n) = Off(i) \cup {gone[n]}
        BY <1>1
      <4> HIDE DEF Off, n
      <4> QED
        BY <4>1
    <3>3. Indexes(left[i], R)
      OBVIOUS
    <3> HIDE DEF n, R, Off
    <3>4. left[i] \in Seq(R) /\ left[n] = RemoveUpFlowForwarder(left[i], gone[n])
      BY <1>2, <3>1, <3>3 DEF Indexes
    <3>5. Indexes(left[n], R \ {gone[n]})
      BY <3>3, <3>4, RemoveUpKeeps
    <3>6. n \in J
      BY <3>1, <3>2, <3>5
    <3> QED
      BY <3>6 DEF n
  <2> HIDE DEF J, Off
  <2>3. 0 .. k \subseteq J
    BY <1>1, <2>1, <2>2, IntervalInduction
  <2>4. k \in J
    BY <1>1, <2>3
  <2> QED
    BY <2>4 DEF J
<1> HIDE DEF Off
<1>4. Removed(list, gone) \in Seq(S) /\ (Indexes(list, S) => Indexes(Removed(list, gone), S \ Off(k)))
  BY <1>1, <1>2, <1>3
<1> QED
  BY <1>4 DEF Off, k

\* Generic is no name of an application protocol.
LEMMA GenericIsNone ==
  ASSUME wiring \in UNION {Range(Forwarders[s]) : s \in DOMAIN Forwarders}
  PROVE  Generic \notin Range(Protocols)
BY Wired DEF NamesTCP, NamesUDP, Generic

\* The list of the constructor has each protocol once, the generic one last.
LEMMA WholeIndex ==
  ASSUME wiring \in UNION {Range(Forwarders[s]) : s \in DOMAIN Forwarders}
  PROVE  /\ Indexes(Whole, Range(Protocols) \cup {Generic})
         /\ Len(Whole) = Len(Protocols) + 1 /\ Len(Protocols) \in Nat
         /\ Whole[Len(Protocols) + 1] = Generic
         /\ \A i \in 1 .. Len(Protocols) : Whole[i] = Protocols[i]
<1> DEFINE n == Len(Protocols)
           S == Range(Protocols)
           G == S \cup {Generic}
<1>1. Indexes(Protocols, S) /\ Generic \notin S
  BY Wired, GenericIsNone
<1> HIDE DEF S
<1>2. n \in Nat /\ Protocols \in Seq(S) /\ Protocols \in Seq(G)
      /\ \A i \in 1 .. n : Protocols[i] \in S
  BY <1>1, LenProperties, ElementOfSeq DEF Indexes
<1>3. /\ Whole \in Seq(G) /\ Len(Whole) = n + 1
      /\ Whole[n + 1] = Generic
      /\ \A i \in 1 .. n : Whole[i] = Protocols[i]
  BY <1>2, AppendProperties DEF Whole
<1> HIDE DEF G, n
<1>4. \A i \in 1 .. n + 1 : i = n + 1 \/ i \in 1 .. n
  BY <1>2
<1>5. \A i, j \in 1 .. n + 1 : Whole[i] = Whole[j] => i = j
  BY <1>1, <1>2, <1>3, <1>4 DEF Indexes, n
<1>6. \A p \in G : \E i \in 1 .. n + 1 : Whole[i] = p
  <2>1. n + 1 \in 1 .. n + 1 /\ \A i \in 1 .. n : i \in 1 .. n + 1
    BY <1>2
  <2>2. \A p \in S : \E i \in 1 .. n : Protocols[i] = p
    BY <1>1 DEF Indexes, n
  <2> QED
    BY <1>3, <2>1, <2>2 DEF G
<1>7. Indexes(Whole, G)
  BY <1>3, <1>5, <1>6 DEF Indexes
<1> QED
  BY <1>2, <1>3, <1>7 DEF G, n, S

\* A flow goes to the protocol that is due.
LEMMA FirstIsDue ==
  ASSUME ForwarderInv, plain, NEW packet \in Payloads, IsOf(packet)
  PROVE  First(packet) = DueTo(packet)
<1> DEFINE n == Len(Protocols)
<1>1. /\ wiring \in UNION {Range(Forwarders[s]) : s \in DOMAIN Forwarders}
      /\ up \in Seq(All) /\ nids \in BOOLEAN
  BY DEF ForwarderInv, TypeOK
<1>2. CASE nids
  <2>1. Indexes(up, {Generic})
    BY <1>2 DEF ForwarderInv
  <2>2. DueTo(packet) = Generic
    BY <1>2 DEF DueTo
  <2>3. \A i \in 1 .. Len(up) : up[i] = Generic
    BY <2>1, ElementOfSeq DEF Indexes
  <2>4. \E i \in 1 .. Len(up) : AcceptPacket(up[i], packet)
    BY <2>1, AcceptedGeneric DEF Indexes
  <2> QED
    BY <1>1, <2>2, <2>3, <2>4, FirstAccepts
<1>3. CASE ~nids
  <2>1. up = Whole
    BY <1>3 DEF ForwarderInv
  <2>2. DueTo(packet) = IF packet.own \in Range(Protocols) THEN packet.own ELSE Generic
    BY <1>3 DEF DueTo
  <2>3. /\ Indexes(Protocols, Range(Protocols))
        /\ \/ Range(Protocols) \subseteq NamesTCP /\ "http" \in Range(Protocols)
           \/ Range(Protocols) \subseteq NamesUDP
    BY <1>1, Wired
  <2>4. \A p \in Range(Protocols) : AcceptPacket(p, packet) <=> p = packet.own
    <3>1. CASE "http" \in Range(Protocols)
      <4>1. packet \in PayloadsTCP
        BY <3>1 DEF IsOf
      <4>2. Range(Protocols) \subseteq NamesTCP
        BY <2>3, <3>1 DEF NamesUDP
      <4> QED
        BY <4>1, <4>2, AcceptedTCP
    <3>2. CASE "http" \notin Range(Protocols)
      <4>1. packet \in PayloadsUDP
        BY <3>2 DEF IsOf
      <4>2. Range(Protocols) \subseteq NamesUDP
        BY <2>3, <3>2
      <4> QED
        BY <4>1, <4>2, AcceptedUDP
    <3> QED
      BY <3>1, <3>2
  <2>5. /\ n \in Nat /\ Len(up) = n + 1 /\ up[n + 1] = Generic
        /\ \A i \in 1 .. n : up[i] = Protocols[i] /\ Protocols[i] \in Range(Protocols)
    BY <1>1, <2>1, <2>3, WholeIndex, ElementOfSeq DEF Indexes
  <2> HIDE DEF n
  <2>6. PICK i \in 1 .. Len(up) :
          /\ AcceptPacket(up[i], packet) /\ First(packet) = up[i]
          /\ \A j \in 1 .. Len(up) : AcceptPacket(up[j], packet) => i <= j
    <3>1. n + 1 \in 1 .. Len(up) /\ AcceptPacket(up[n + 1], packet)
      BY <2>5, AcceptedGeneric
    <3> QED
      BY <1>1, <3>1, FirstAccepts
  <2>7. CASE packet.own \in Range(Protocols)
    <3>1. PICK k \in 1 .. n : Protocols[k] = packet.own
      BY <2>3, <2>7 DEF Indexes, n
    <3>2. k \in 1 .. Len(up) /\ AcceptPacket(up[k], packet)
      BY <2>4, <2>5, <2>7, <3>1
    <3>3. i \in 1 .. n
      BY <2>5, <2>6, <3>1, <3>2
    <3>4. up[i] = packet.own
      BY <2>4, <2>5, <2>6, <3>3
    <3> QED
      BY <2>2, <2>6, <2>7, <3>4
  <2>8. CASE packet.own \notin Range(Protocols)
    <3>1. i \notin 1 .. n
      BY <2>4, <2>5, <2>6, <2>8
    <3>2. i = n + 1
      BY <2>5, <3>1
    <3> QED
      BY <2>2, <2>5, <2>6, <2>8, <3>2
  <2> QED
    BY <2>7, <2>8
<1> QED
  BY <1>1, <1>2, <1>3

-----------------------------------------------------------------------------
(***************************************************************************)
(* The invariant                                                           *)
(***************************************************************************)

\* A stack as constructed satisfies the invariant of the forwarders,
LEMMA ForwarderInvInit == Init => ForwarderInv
<1> SUFFICES ASSUME Init PROVE ForwarderInv
  OBVIOUS
<1>1. wiring \in UNION {Range(Forwarders[s]) : s \in DOMAIN Forwarders} /\ up = Whole
  BY DEF Init, Whole
<1>2. up \in Seq(All)
  <2>1. Indexes(up, Range(Protocols) \cup {Generic})
    BY <1>1, WholeIndex
  <2>2. Range(Protocols) \cup {Generic} \subseteq All
    BY DEF All
  <2> QED
    BY <2>1, <2>2 DEF Indexes
<1>3. TypeOK
  <2>1. /\ forwarder \in [Flows -> All \cup {None}]
        /\ served \in [Flows -> SUBSET All]
        /\ due \in [Flows -> All \cup {None}]
    BY DEF Init
  <2>2. nids \in BOOLEAN /\ freq \in BOOLEAN /\ plain \in BOOLEAN
    BY DEF Init
  <2>3. switches \in 0 .. Switches
    BY FlowForwarderAssumption DEF Init
  <2> QED
    BY <1>2, <2>1, <2>2, <2>3 DEF TypeOK
<1>4. /\ \A f \in Flows : served[f] = {forwarder[f]} \ {None}
      /\ \A f \in Flows : due[f] # None => forwarder[f] = due[f]
  BY DEF Init
<1>5. plain => IF nids THEN Indexes(up, {Generic}) ELSE up = Whole
  BY <1>1 DEF Init
<1> QED
  BY <1>1, <1>3, <1>4, <1>5 DEF ForwarderInv

\* A packet reaches the protocol of its flow, or the one that is due.
LEMMA ForwardFlowKeeps ==
  ASSUME ForwarderInv, NEW f \in Flows, NEW packet \in Payloads, IsOf(packet),
         ForwardFlow(f, packet)
  PROVE  ForwarderInv'
<1> DEFINE to == IF forwarder[f] # None THEN forwarder[f] ELSE First(packet)
<1>1. /\ forwarder' = [forwarder EXCEPT ![f] = to]
      /\ served' = [served EXCEPT ![f] = IF to = None THEN served[f] ELSE served[f] \cup {to}]
      /\ due' = [due EXCEPT ![f] = IF forwarder[f] = None THEN DueTo(packet) ELSE due[f]]
      /\ UNCHANGED <<wiring, up, nids, freq, switches, plain>>
  BY DEF ForwardFlow, Served
<1>2. /\ forwarder \in [Flows -> All \cup {None}]
      /\ served \in [Flows -> SUBSET All]
      /\ due \in [Flows -> All \cup {None}]
      /\ up \in Seq(All)
      /\ \A g \in Flows : served[g] = {forwarder[g]} \ {None}
      /\ \A g \in Flows : due[g] # None => forwarder[g] = due[g]
  BY DEF ForwarderInv, TypeOK
<1>3. to \in All \cup {None}
  <2>1. First(packet) \in All \cup {None}
    BY <1>2, FirstAccepts, ElementOfSeq
  <2> QED
    BY <1>2, <2>1
<1>4. DueTo(packet) \in All \cup {None}
  BY DEF DueTo, All
<1>5. forwarder[f] = None /\ DueTo(packet) # None => to = DueTo(packet)
  <2>1. ~plain => DueTo(packet) = None
    BY DEF DueTo
  <2> QED
    BY <2>1, FirstIsDue
<1> HIDE DEF to
<1>6. /\ forwarder' \in [Flows -> All \cup {None}]
      /\ due' \in [Flows -> All \cup {None}]
      /\ served' \in [Flows -> SUBSET All]
  BY <1>1, <1>2, <1>3, <1>4
<1>7. forwarder[f] = None \/ to = forwarder[f]
  BY DEF to
<1>8. /\ \A g \in Flows : served'[g] = {forwarder'[g]} \ {None}
      /\ \A g \in Flows : due'[g] # None => forwarder'[g] = due'[g]
  BY <1>1, <1>2, <1>5, <1>7
<1>9. TypeOK'
  BY <1>1, <1>6 DEF ForwarderInv, TypeOK, All, Protocols
<1> QED
  BY <1>1, <1>8, <1>9 DEF ForwarderInv, Whole, Protocols

\* The protocols of a stack, off its list and on again.
LEMMA EnginesKeep ==
  ASSUME ForwarderInv, NEW enable \in BOOLEAN,
         EnableNIDSEngine(enable) \/ EnableFrequencyEngine(enable)
  PROVE  ForwarderInv'
<1>1. /\ wiring \in UNION {Range(Forwarders[s]) : s \in DOMAIN Forwarders}
      /\ up \in Seq(All) /\ switches \in 0 .. Switches /\ freq \in BOOLEAN /\ nids \in BOOLEAN
      /\ Generic \in All /\ Freqs \in All /\ Range(Protocols) \subseteq All
  BY DEF ForwarderInv, TypeOK, All
<1>2. /\ UNCHANGED <<wiring, forwarder, served, due>>
      /\ switches' = switches - 1 /\ switches > 0
  BY DEF EnableNIDSEngine, EnableFrequencyEngine
<1>3. /\ up' \in Seq(All) /\ nids' \in BOOLEAN /\ freq' \in BOOLEAN /\ plain' \in BOOLEAN
      /\ plain' => IF nids' THEN Indexes(up', {Generic}) ELSE up' = Whole
  <2>1. CASE EnableNIDSEngine(enable)
    <3>1. /\ up' = IF enable THEN EnabledNIDS(up) ELSE DisabledNIDS(up)
          /\ nids' = enable /\ freq' = freq /\ plain' = (plain /\ nids # enable)
      BY <2>1 DEF EnableNIDSEngine
    <3>2. plain' \in BOOLEAN
      BY <3>1
    <3>3. plain' => plain /\ nids # enable
      BY <3>1
    <3>4. CASE enable
      <4>1. up' = Removed(up, wiring.disabled)
        BY <3>1, <3>4 DEF EnabledNIDS
      <4>2. wiring.disabled \in Seq(Range(Protocols))
        BY <1>1, Wired
      <4>3. up' \in Seq(All)
        BY <1>1, <4>1, <4>2, RemovedKeeps
      <4>4. ASSUME plain' PROVE Indexes(up', {Generic})
        <5>1. up = Whole
          BY <1>1, <3>3, <3>4, <4>4 DEF ForwarderInv
        <5>2. Indexes(up, Range(Protocols) \cup {Generic})
          BY <1>1, <5>1, WholeIndex
        <5>3. (Range(Protocols) \cup {Generic}) \
                {wiring.disabled[j] : j \in 1 .. Len(wiring.disabled)} = {Generic}
          BY <1>1, Wired, GenericIsNone
        <5> DEFINE S == Range(Protocols) \cup {Generic}
                   gone == wiring.disabled
        <5> HIDE DEF S
        <5>4. Indexes(up, S) /\ up \in Seq(S)
          BY <5>2 DEF Indexes, S
        <5>5. Indexes(Removed(up, gone), S \ {gone[j] : j \in 1 .. Len(gone)})
          BY <4>2, <5>4, RemovedKeeps
        <5> QED
          BY <4>1, <5>3, <5>5 DEF S
      <4> QED
        BY <1>1, <3>1, <3>2, <3>4, <4>3, <4>4
    <3>5. CASE ~enable
      <4> DEFINE rest == RemoveUpFlowForwarder(up, Generic)
      <4>1. up' = rest \o Whole
        BY <3>1, <3>5 DEF DisabledNIDS, Whole
      <4>2. rest \in Seq(All)
        BY <1>1, RemoveUpKeeps
      <4>3. Whole \in Seq(All)
        <5>1. Whole \in Seq(Range(Protocols) \cup {Generic})
          BY <1>1, WholeIndex DEF Indexes
        <5> QED
          BY <1>1, <5>1
      <4>4. up' \in Seq(All)
        BY <4>1, <4>2, <4>3, ConcatProperties
      <4>5. ASSUME plain' PROVE up' = Whole
        <5>1. Indexes(up, {Generic})
          BY <1>1, <3>3, <3>5, <4>5 DEF ForwarderInv
        <5>2. Indexes(rest, {Generic} \ {Generic})
          BY <5>1, RemoveUpKeeps DEF Indexes
        <5> HIDE DEF rest
        <5>3. rest \in Seq({})
          <6>1. {Generic} \ {Generic} = {}
            OBVIOUS
          <6> QED
            BY <5>2, <6>1 DEF Indexes
        <5>4. rest = <<>>
          BY <5>3, EmptySeq, ElementOfSeq
        <5> QED
          BY <4>1, <4>3, <5>4, ConcatEmptySeq
      <4> QED
        BY <1>1, <3>1, <3>2, <3>5, <4>4, <4>5
    <3> QED
      BY <3>4, <3>5
  <2>2. CASE EnableFrequencyEngine(enable)
    <3>1. /\ up' = IF enable THEN <<Freqs>> \o Front(up) ELSE RemoveUpFlowForwarder(Front(up), Freqs)
          /\ nids' = nids /\ freq' = enable /\ plain' = FALSE /\ up # <<>>
      BY <2>2 DEF EnableFrequencyEngine
    <3>2. Front(up) \in Seq(All)
      <4>1. Len(up) \in Nat /\ \A i \in 1 .. Len(up) - 1 : up[i] \in All
        BY <1>1, LenProperties, ElementOfSeq
      <4> QED
        BY <1>1, <4>1, SubSeqProperties DEF Front
    <3>3. <<Freqs>> \o Front(up) \in Seq(All)
      <4>1. <<Freqs>> \in Seq(All)
        BY <1>1
      <4> QED
        BY <3>2, <4>1, ConcatProperties
    <3>4. RemoveUpFlowForwarder(Front(up), Freqs) \in Seq(All)
      BY <3>2, RemoveUpKeeps
    <3> QED
      BY <1>1, <3>1, <3>3, <3>4
  <2> QED
    BY <2>1, <2>2
<1>4. switches' \in 0 .. Switches
  BY <1>1, <1>2, FlowForwarderAssumption
<1>5. TypeOK'
  BY <1>2, <1>3, <1>4 DEF ForwarderInv, TypeOK, All, Protocols
<1>6. plain' => IF nids' THEN Indexes(up', {Generic}) ELSE up' = Whole'
  BY <1>2, <1>3 DEF Whole, Protocols
<1> QED
  BY <1>2, <1>5, <1>6 DEF ForwarderInv

\* Whoever sends, ends or switches.
LEMMA ForwarderInvStep == ForwarderInv /\ [Next]_vars => ForwarderInv'
<1> SUFFICES ASSUME ForwarderInv, [Next]_vars PROVE ForwarderInv'
  OBVIOUS
<1>1. ASSUME NEW f \in Flows, EndFlow(f) PROVE ForwarderInv'
  <2>1. /\ forwarder' = [forwarder EXCEPT ![f] = None]
        /\ served' = [served EXCEPT ![f] = {}]
        /\ due' = [due EXCEPT ![f] = None]
        /\ UNCHANGED <<wiring, up, nids, freq, switches, plain>>
    BY <1>1 DEF EndFlow
  <2>2. /\ forwarder' \in [Flows -> All \cup {None}]
        /\ due' \in [Flows -> All \cup {None}]
        /\ served' \in [Flows -> SUBSET All]
    BY <2>1 DEF ForwarderInv, TypeOK
  <2>3. TypeOK'
    BY <2>1, <2>2 DEF ForwarderInv, TypeOK, All, Protocols
  <2>4. /\ \A g \in Flows : served'[g] = {forwarder'[g]} \ {None}
        /\ \A g \in Flows : due'[g] # None => forwarder'[g] = due'[g]
    BY <2>1 DEF ForwarderInv, TypeOK
  <2> QED
    BY <2>1, <2>3, <2>4 DEF ForwarderInv, Whole, Protocols
<1>2. CASE UNCHANGED vars
  BY <1>2 DEF vars, ForwarderInv, TypeOK, All, Protocols, Whole
<1> QED
  BY <1>1, <1>2, ForwardFlowKeeps, EnginesKeep DEF Next

\* which holds in every state.
LEMMA ForwarderInvAlways == Spec => []ForwarderInv
BY ForwarderInvInit, ForwarderInvStep, PTL DEF Spec

\* forwardFlow: a flow sticks to the protocol that accepted it first, whatever
\* engines are switched between its packets (FlowForwarder.cc:47, StackLan.cc:240).
THEOREM OneServesAlways == Spec => []OneProtocolServes
<1>1. ForwarderInv => OneProtocolServes
  <2> SUFFICES ASSUME ForwarderInv, NEW f \in Flows PROVE Cardinality(served[f]) <= 1
    BY DEF ForwarderInv, OneProtocolServes
  <2>1. served[f] = {} \/ served[f] = {forwarder[f]}
    BY DEF ForwarderInv
  <2>2. Cardinality({}) = 0 /\ Cardinality({forwarder[f]}) = 1
    BY FS_EmptySet, FS_Singleton
  <2> QED
    BY <2>1, <2>2
<1> QED
  BY <1>1, ForwarderInvAlways, PTL

\* The NIDS engine switched off and on leaves each flow to the protocol whose
\* conversation its first packet opens (StackLan.cc:250).
THEOREM OwnServesAlways == Spec => []OwnProtocolServes
<1>1. ForwarderInv => OwnProtocolServes
  <2> SUFFICES ASSUME ForwarderInv, NEW f \in Flows, due[f] # None PROVE served[f] = {due[f]}
    BY DEF OwnProtocolServes
  <2> QED
    BY DEF ForwarderInv
<1> QED
  BY <1>1, ForwarderInvAlways, PTL

-----------------------------------------------------------------------------
(***************************************************************************)
(*                                The setup                                *)
(***************************************************************************)

Managers == {Nothing, "manager"}

\* The pools of a stack.
Pooled == DOMAIN Totals(stack, 0, 0).infos

FlowRecords ==
  [layer : Layers, tuple : Tuples, tag : 0 .. 2, infos : SUBSET Pooled, packets : Nat]

\* One flow of a table has a key.
KeysUnique(all) ==
  \A f, g \in all : f.layer = g.layer /\ f.tuple = g.tuple /\ f.tag = g.tag => f = g

HoldersIn(all, p) == {f \in all : p \in f.infos}

\* No info of a pool is lost: it is free or one of these flows has it.
Accounted(pools, all, total) ==
  \A p \in DOMAIN pools : pools[p] + Cardinality(HoldersIn(all, p)) = total[p]

\* The variables that the setters write, and the flows, are of their types.
SetupTyped ==
  /\ SetupTypeOK
  /\ made.infos \in [Pooled -> Nat]
  /\ rules \in [{"regex", "ipset"} -> [Inspectors -> Managers]]
  /\ wanted \in [timeout : Nat, rules : [{"regex", "ipset"} -> [Transports -> Managers]]]

FlowsTyped == IsFiniteSet(flows) /\ flows \subseteq FlowRecords /\ KeysUnique(flows)

\* What the user set last is where the applications find it.
RulesReach ==
  \A t \in Transports :
    /\ \A kind \in {"regex", "ipset"} : rules[kind][Inspected(t)] = wanted.rules[kind][t]
    /\ rules["regex"][IF t = "tcp" THEN "tcp_generic" ELSE "udp_generic"] = wanted.rules["regex"][t]
    /\ timeout[Inspected(t)] = wanted.timeout

\* The infos that a flow has are from pools of its stack, the flows are finitely
\* many and have keys, so that the holders of a pool can be counted.
SetupInv ==
  /\ SetupTyped
  /\ FlowsTyped
  /\ RulesReach
  /\ stack # "oflow" => Accounted(free, flows, made.infos)

TuplesOf(all, layer) == {f.tuple : f \in {g \in all : g.layer = layer}}

TuplesUnique(all, layer) ==
  \A f, g \in all : f.layer = layer /\ g.layer = layer /\ f.tuple = g.tuple => f = g

\* The tables whose time-outs somebody hears of.
Heard(layer) == ~(stack = "mobile" /\ layer = "udp")

\* A database is set on what get_protocol finds, one layer of a transport, so that
\* no other layer writes to it, and while a layer is followed no two of its flows
\* share a row.
RowsInv ==
  /\ adaptor \subseteq UNION {GetProtocol(t) : t \in Transports}
  /\ followed \subseteq adaptor
  /\ \A layer \in followed : TuplesUnique(flows, layer)
  /\ \A layer \in followed : Heard(layer) =>
       /\ rows[TransportOf(layer)] = TuplesOf(flows, layer)
       /\ TransportOf(layer) \notin stray

-----------------------------------------------------------------------------
(***************************************************************************)
(* The parts of the five stacks                                            *)
(***************************************************************************)

AppPools == {"http", "ssl", "smtp", "imap", "pop", "dns", "sip", "ssdp"}

\* The infos of the applications and those of another protocol.
LEMMA WithInfos ==
  ASSUME NEW S, NEW infos \in [S -> Nat], NEW p, NEW n \in Nat
  PROVE  With(infos, p, n) \in [S \cup {p} -> Nat]
BY DEF With

\* The share of every application of the infos is a number.
LEMMA AppInfosType ==
  ASSUME NEW tcp \in Nat, NEW udp \in Nat
  PROVE  AppInfos(tcp, udp) \in [AppPools -> Nat]
<1>1. /\ (tcp * 3) \div 4 \in Nat /\ (tcp * 2) \div 5 \in Nat /\ tcp \div 20 \in Nat
      /\ udp \div 2 \in Nat /\ udp \div 5 \in Nat
  OBVIOUS
<1> QED
  BY <1>1 DEF AppInfos, AppPools

\* What the constructor of each stack wires: the tables, the layers over which the
\* applications are, and the pools of infos.
LEMMA PartsOfStacks ==
  ASSUME stack \in Stacks
  PROVE  /\ \/ stack \in {"lan", "lan6"} /\ Layers = {"tcp", "udp"}
            \/ stack \in {"mobile", "virtual"} /\ Layers = {"udp", "tcp_vir", "udp_vir"}
            \/ stack = "oflow" /\ Layers = {"tcp", "tcp_vir", "udp_vir"}
         /\ Parts[stack].setters = IF stack \in {"lan", "lan6"} THEN Setters("tcp", "udp")
                                   ELSE Setters("tcp_vir", "udp_vir")
         /\ \A layer \in Layers :
              Tables[layer].owner = IF stack = "mobile" /\ layer = "udp" THEN Nothing ELSE layer
         /\ \A layer \in Layers : Tables[layer].timeout \in Nat
         /\ \A layer \in Parts[stack].setters.timeout : Tables[layer].timeout = Default
<1>1. CASE stack = "lan"
  <2>1. Tables = TablesStackLan /\ Parts[stack].setters = Setters("tcp", "udp")
    BY <1>1 DEF Tables, Parts, SettersStackLan
  <2>2. Layers = {"tcp", "udp"}
    BY <2>1 DEF Layers, TablesStackLan
  <2>3. /\ Tables["tcp"].owner = "tcp" /\ Tables["tcp"].timeout = Default
        /\ Tables["udp"].owner = "udp" /\ Tables["udp"].timeout = Default
    BY <2>1 DEF TablesStackLan, Table
  <2>4. Setters("tcp", "udp").timeout = {"tcp", "udp"}
    BY DEF Setters
  <2> QED
    BY <1>1, <2>1, <2>2, <2>3, <2>4 DEF Default, Day
<1>2. CASE stack = "lan6"
  <2>1. Tables = TablesStackLanIPv6 /\ Parts[stack].setters = Setters("tcp", "udp")
    BY <1>2 DEF Tables, Parts, SettersStackLanIPv6
  <2>2. Layers = {"tcp", "udp"}
    BY <2>1 DEF Layers, TablesStackLanIPv6
  <2>3. /\ Tables["tcp"].owner = "tcp" /\ Tables["tcp"].timeout = Default
        /\ Tables["udp"].owner = "udp" /\ Tables["udp"].timeout = Default
    BY <2>1 DEF TablesStackLanIPv6, Table
  <2>4. Setters("tcp", "udp").timeout = {"tcp", "udp"}
    BY DEF Setters
  <2> QED
    BY <1>2, <2>1, <2>2, <2>3, <2>4 DEF Default, Day
<1>3. CASE stack = "mobile"
  <2>1. Tables = TablesStackMobile /\ Parts[stack].setters = Setters("tcp_vir", "udp_vir")
    BY <1>3 DEF Tables, Parts, SettersStackMobile
  <2>2. Layers = {"udp", "tcp_vir", "udp_vir"}
    BY <2>1 DEF Layers, TablesStackMobile
  <2>3. /\ Tables["udp"].owner = Nothing /\ Tables["udp"].timeout = Day
        /\ Tables["tcp_vir"].owner = "tcp_vir" /\ Tables["tcp_vir"].timeout = Default
        /\ Tables["udp_vir"].owner = "udp_vir" /\ Tables["udp_vir"].timeout = Default
    BY <2>1 DEF TablesStackMobile, Table
  <2>4. Setters("tcp_vir", "udp_vir").timeout = {"tcp_vir", "udp_vir"}
    BY DEF Setters
  <2> QED
    BY <1>3, <2>1, <2>2, <2>3, <2>4 DEF Default, Day
<1>4. CASE stack = "virtual"
  <2>1. Tables = TablesStackVirtual /\ Parts[stack].setters = Setters("tcp_vir", "udp_vir")
    BY <1>4 DEF Tables, Parts, SettersStackVirtual
  <2>2. Layers = {"udp", "tcp_vir", "udp_vir"}
    BY <2>1 DEF Layers, TablesStackVirtual
  <2>3. /\ Tables["udp"].owner = "udp" /\ Tables["udp"].timeout = Day
        /\ Tables["tcp_vir"].owner = "tcp_vir" /\ Tables["tcp_vir"].timeout = Default
        /\ Tables["udp_vir"].owner = "udp_vir" /\ Tables["udp_vir"].timeout = Default
    BY <2>1 DEF TablesStackVirtual, Table
  <2>4. Setters("tcp_vir", "udp_vir").timeout = {"tcp_vir", "udp_vir"}
    BY DEF Setters
  <2> QED
    BY <1>4, <2>1, <2>2, <2>3, <2>4 DEF Default, Day
<1>5. CASE stack = "oflow"
  <2>1. Tables = TablesStackOpenFlow /\ Parts[stack].setters = Setters("tcp_vir", "udp_vir")
    BY <1>5 DEF Tables, Parts, SettersStackOpenFlow
  <2>2. Layers = {"tcp", "tcp_vir", "udp_vir"}
    BY <2>1 DEF Layers, TablesStackOpenFlow
  <2>3. /\ Tables["tcp"].owner = "tcp" /\ Tables["tcp"].timeout = Day
        /\ Tables["tcp_vir"].owner = "tcp_vir" /\ Tables["tcp_vir"].timeout = Default
        /\ Tables["udp_vir"].owner = "udp_vir" /\ Tables["udp_vir"].timeout = Default
    BY <2>1 DEF TablesStackOpenFlow, Table
  <2>4. Setters("tcp_vir", "udp_vir").timeout = {"tcp_vir", "udp_vir"}
    BY DEF Setters
  <2> QED
    BY <1>5, <2>1, <2>2, <2>3, <2>4 DEF Default, Day
<1> QED
  BY <1>1, <1>2, <1>3, <1>4, <1>5 DEF Stacks

\* setTotalTCPFlows and setTotalUDPFlows create flows for every table, and infos
\* for pools that depend on the stack alone.
LEMMA TotalsOfStacks ==
  ASSUME stack \in Stacks, NEW tcp \in Nat, NEW udp \in Nat
  PROVE  /\ Totals(stack, tcp, udp).flows \in [Layers -> Nat]
         /\ Totals(stack, tcp, udp).infos \in
              [AppPools \cup (Layers \cap {"tcp", "tcp_vir"})
                        \cup (IF stack = "mobile" THEN {"gprs"} ELSE {}) -> Nat]
<1> DEFINE app == AppInfos(tcp, udp)
<1>1. app \in [AppPools -> Nat]
  BY AppInfosType
<1> HIDE DEF app
<1>2. tcp \div 8 \in Nat /\ udp \div 8 \in Nat /\ udp \div 32 \in Nat
  OBVIOUS
<1>3. CASE stack \in {"lan", "lan6"}
  <2>1. Layers = {"tcp", "udp"}
    BY <1>3, PartsOfStacks
  <2>2. Totals(stack, tcp, udp) = [flows |-> [tcp |-> tcp, udp |-> udp],
                                   infos |-> With(app, "tcp", tcp)]
    BY <1>3 DEF Totals, TotalsStackLan, TotalsStackLanIPv6, app
  <2>3. With(app, "tcp", tcp) \in [AppPools \cup {"tcp"} -> Nat]
    BY <1>1, WithInfos
  <2>4. AppPools \cup {"tcp"} = AppPools \cup (Layers \cap {"tcp", "tcp_vir"})
                        \cup (IF stack = "mobile" THEN {"gprs"} ELSE {})
    BY <1>3, <2>1
  <2>6. Totals(stack, tcp, udp).flows \in [Layers -> Nat]
    BY <1>2, <2>1, <2>2
  <2>7. Totals(stack, tcp, udp).infos = With(app, "tcp", tcp)
    BY <2>2
  <2> QED
    BY <2>3, <2>4, <2>6, <2>7
<1>4. CASE stack = "mobile"
  <2>1. Layers = {"udp", "tcp_vir", "udp_vir"}
    BY <1>4, PartsOfStacks
  <2>2. Totals(stack, tcp, udp) =
          [flows |-> [udp |-> udp \div 8, tcp_vir |-> tcp, udp_vir |-> udp],
           infos |-> With(With(app, "tcp_vir", tcp), "gprs", udp \div 8)]
    BY <1>4 DEF Totals, TotalsStackMobile, app
  <2>3. With(app, "tcp_vir", tcp) \in [AppPools \cup {"tcp_vir"} -> Nat]
    BY <1>1, WithInfos
  <2>4. With(With(app, "tcp_vir", tcp), "gprs", udp \div 8) \in
          [(AppPools \cup {"tcp_vir"}) \cup {"gprs"} -> Nat]
    BY <1>2, <2>3, WithInfos
  <2>5. (AppPools \cup {"tcp_vir"}) \cup {"gprs"} =
          AppPools \cup (Layers \cap {"tcp", "tcp_vir"})
                   \cup (IF stack = "mobile" THEN {"gprs"} ELSE {})
    BY <1>4, <2>1
  <2>6. Totals(stack, tcp, udp).flows \in [Layers -> Nat]
    BY <1>2, <2>1, <2>2
  <2>7. Totals(stack, tcp, udp).infos = With(With(app, "tcp_vir", tcp), "gprs", udp \div 8)
    BY <2>2
  <2> QED
    BY <2>4, <2>5, <2>6, <2>7
<1>5. CASE stack = "virtual"
  <2>1. Layers = {"udp", "tcp_vir", "udp_vir"}
    BY <1>5, PartsOfStacks
  <2>2. Totals(stack, tcp, udp) =
          [flows |-> [udp |-> udp \div 32, tcp_vir |-> tcp, udp_vir |-> udp],
           infos |-> With(app, "tcp_vir", tcp)]
    BY <1>5 DEF Totals, TotalsStackVirtual, app
  <2>3. With(app, "tcp_vir", tcp) \in [AppPools \cup {"tcp_vir"} -> Nat]
    BY <1>1, WithInfos
  <2>4. AppPools \cup {"tcp_vir"} = AppPools \cup (Layers \cap {"tcp", "tcp_vir"})
                        \cup (IF stack = "mobile" THEN {"gprs"} ELSE {})
    BY <1>5, <2>1
  <2>6. Totals(stack, tcp, udp).flows \in [Layers -> Nat]
    BY <1>2, <2>1, <2>2
  <2>7. Totals(stack, tcp, udp).infos = With(app, "tcp_vir", tcp)
    BY <2>2
  <2> QED
    BY <2>3, <2>4, <2>6, <2>7
<1>6. CASE stack = "oflow"
  <2>1. Layers = {"tcp", "tcp_vir", "udp_vir"}
    BY <1>6, PartsOfStacks
  <2>2. Totals(stack, tcp, udp) =
          [flows |-> [tcp |-> tcp \div 8, tcp_vir |-> tcp, udp_vir |-> udp],
           infos |-> With(With(app, "tcp", tcp \div 8), "tcp_vir", tcp)]
    BY <1>6 DEF Totals, TotalsStackOpenFlow, app
  <2>3. With(app, "tcp", tcp \div 8) \in [AppPools \cup {"tcp"} -> Nat]
    BY <1>1, <1>2, WithInfos
  <2>4. With(With(app, "tcp", tcp \div 8), "tcp_vir", tcp) \in
          [(AppPools \cup {"tcp"}) \cup {"tcp_vir"} -> Nat]
    BY <2>3, WithInfos
  <2>5. (AppPools \cup {"tcp"}) \cup {"tcp_vir"} =
          AppPools \cup (Layers \cap {"tcp", "tcp_vir"})
                   \cup (IF stack = "mobile" THEN {"gprs"} ELSE {})
    BY <1>6, <2>1
  <2>6. Totals(stack, tcp, udp).flows \in [Layers -> Nat]
    BY <1>2, <2>1, <2>2
  <2>7. Totals(stack, tcp, udp).infos = With(With(app, "tcp", tcp \div 8), "tcp_vir", tcp)
    BY <2>2
  <2> QED
    BY <2>4, <2>5, <2>6, <2>7
<1> QED
  BY <1>3, <1>4, <1>5, <1>6 DEF Stacks

\* The layer over which the applications are, of each transport.
LEMMA InspectedLayers ==
  ASSUME stack \in Stacks
  PROVE  IF stack \in {"lan", "lan6"} THEN Inspected("tcp") = "tcp" /\ Inspected("udp") = "udp"
         ELSE Inspected("tcp") = "tcp_vir" /\ Inspected("udp") = "udp_vir"
<1>1. CASE stack \in {"lan", "lan6"}
  <2>1. Parts[stack].setters.timeout = {"tcp", "udp"}
    BY <1>1, PartsOfStacks DEF Setters
  <2> QED
    BY <1>1, <2>1 DEF Inspected, TransportOf
<1>2. CASE ~(stack \in {"lan", "lan6"})
  <2>1. Parts[stack].setters.timeout = {"tcp_vir", "udp_vir"}
    BY <1>2, PartsOfStacks DEF Setters
  <2> QED
    BY <1>2, <2>1 DEF Inspected, TransportOf
<1> QED
  BY <1>1, <1>2

\* It is the constructor's.
LEMMA InspectedKept ==
  ASSUME UNCHANGED stack, NEW t
  PROVE  Inspected(t)' = Inspected(t)
BY DEF Inspected

\* The protocols that are no transport layer.
OtherProtocols ==
  AppPools \cup
  {"eth", "vlan", "mpls", "ip", "icmp", "gprs", "ip_vir", "icmp_vir", "gre", "vxlan", "eth_vir",
   "of", "tcp_generic", "freqs_tcp", "dhcp", "ntp", "snmp", "udp_generic", "freqs_udp"}

\* A stack has a list of protocols, layers among them.
LEMMA ListsOfStacks ==
  ASSUME stack \in Stacks
  PROVE  Parts[stack].protocols \in Seq(Layers \cup OtherProtocols)
<1> DEFINE P == Layers \cup OtherProtocols
<1>1. OverTCP \in Seq(P) /\ OverUDP \in Seq(P) /\ OverUDPNoDHCP \in Seq(P)
  BY DEF OverTCP, OverUDP, OverUDPNoDHCP, OtherProtocols, AppPools
<1>2. ASSUME NEW list \in Seq(P)
      PROVE  (list \o OverTCP) \o OverUDP \in Seq(P) /\ (list \o OverTCP) \o OverUDPNoDHCP \in Seq(P)
  <2> HIDE DEF P
  <2>1. list \o OverTCP \in Seq(P)
    BY <1>1, <1>2, ConcatProperties
  <2> QED
    BY <1>1, <2>1, ConcatProperties
<1> DEFINE lan == <<"eth", "vlan", "mpls", "ip", "tcp", "udp", "icmp">>
           mobile == <<"eth", "vlan", "mpls", "ip", "udp", "gprs", "ip_vir", "udp_vir",
                       "tcp_vir", "icmp_vir">>
           virtual == <<"eth", "vlan", "mpls", "ip", "gre", "udp", "vxlan", "eth_vir",
                        "ip_vir", "tcp_vir", "udp_vir", "icmp_vir">>
           oflow == <<"eth", "vlan", "mpls", "ip", "tcp", "of", "eth_vir", "ip_vir", "tcp_vir",
                      "udp_vir", "icmp_vir">>
<1>3. CASE stack = "lan"
  <2>1. lan \in Seq(P)
    BY <1>3, PartsOfStacks DEF OtherProtocols
  <2>2. Parts[stack].protocols = (lan \o OverTCP) \o OverUDP
    BY <1>3 DEF Parts, ProtocolsStackLan
  <2> HIDE DEF lan, P
  <2> QED
    BY <1>2, <2>1, <2>2 DEF P
<1>4. CASE stack = "lan6"
  <2>1. lan \in Seq(P)
    BY <1>4, PartsOfStacks DEF OtherProtocols
  <2>2. Parts[stack].protocols = (lan \o OverTCP) \o OverUDPNoDHCP
    BY <1>4 DEF Parts, ProtocolsStackLanIPv6
  <2> HIDE DEF lan, P
  <2> QED
    BY <1>2, <2>1, <2>2 DEF P
<1>5. CASE stack = "mobile"
  <2>1. mobile \in Seq(P)
    BY <1>5, PartsOfStacks DEF OtherProtocols
  <2>2. Parts[stack].protocols = (mobile \o OverTCP) \o OverUDPNoDHCP
    BY <1>5 DEF Parts, ProtocolsStackMobile
  <2> HIDE DEF mobile, P
  <2> QED
    BY <1>2, <2>1, <2>2 DEF P
<1>6. CASE stack = "virtual"
  <2>1. virtual \in Seq(P)
    BY <1>6, PartsOfStacks DEF OtherProtocols
  <2>2. Parts[stack].protocols = (virtual \o OverTCP) \o OverUDP
    BY <1>6 DEF Parts, ProtocolsStackVirtual
  <2> HIDE DEF virtual, P
  <2> QED
    BY <1>2, <2>1, <2>2 DEF P
<1>7. CASE stack = "oflow"
  <2>1. oflow \in Seq(P)
    BY <1>7, PartsOfStacks DEF OtherProtocols
  <2>2. Parts[stack].protocols = (oflow \o OverTCP) \o OverUDP
    BY <1>7 DEF Parts, ProtocolsStackOpenFlow
  <2> HIDE DEF oflow, P
  <2> QED
    BY <1>2, <2>1, <2>2 DEF P
<1> QED
  BY <1>3, <1>4, <1>5, <1>6, <1>7 DEF Stacks

\* Only the TCP layers are of the class of TCP, and only the UDP layers of UDP's.
LEMMA ClassOfTransport ==
  ASSUME NEW p, Class(p) \in Transports
  PROVE  p \in {"tcp", "udp", "tcp_vir", "udp_vir"} /\ TransportOf(p) = Class(p)
<1>1. CASE p \notin Muxes
  BY <1>1 DEF Class, Transports, Muxes
<1>2. CASE p \in Muxes
  <2>1. Class(p) = KindOf(stack, p)
    BY <1>2 DEF Class
  <2>2. p \in {"eth", "vlan", "mpls", "ip", "icmp", "gre", "vxlan", "gprs", "of", "eth_vir",
               "ip_vir", "icmp_vir"} => KindOf(stack, p) \notin Transports
    BY DEF KindOf, Transports
  <2>3. p \in {"tcp", "tcp_vir"} => KindOf(stack, p) = "tcp"
    BY DEF KindOf
  <2>4. p \in {"udp", "udp_vir"} => KindOf(stack, p) = "udp"
    BY DEF KindOf
  <2> QED
    BY <1>2, <2>1, <2>2, <2>3, <2>4 DEF Muxes, TransportOf
<1> QED
  BY <1>1, <1>2

\* get_protocol finds one layer of a transport: the setters of the databases work
\* on that one alone.
LEMMA ProtocolFound ==
  ASSUME stack \in Stacks, NEW t \in Transports
  PROVE  /\ \A layer \in GetProtocol(t) : layer \in Layers /\ TransportOf(layer) = t
         /\ \A layer, other \in GetProtocol(t) : layer = other
<1> DEFINE list == Parts[stack].protocols
           I == {i \in 1 .. Len(list) : Class(list[i]) = t}
           i == IF I # {} THEN Min(I) ELSE 0
<1>1. GetProtocol(t) = IF i = 0 THEN {} ELSE {list[i]}
  BY DEF GetProtocol, SelectInSeq
<1>2. I \in SUBSET Nat /\ 0 \notin I
  OBVIOUS
<1>3. i = 0 \/ i \in I
  <2> HIDE DEF I
  <2> QED
    BY <1>2, MinIsLeast
<1>4. ASSUME NEW j \in I PROVE list[j] \in Layers /\ TransportOf(list[j]) = t
  <2>1. list \in Seq(Layers \cup OtherProtocols)
    BY ListsOfStacks
  <2>2. list[j] \in Layers \cup OtherProtocols
    BY <2>1, ElementOfSeq
  <2>3. list[j] \in {"tcp", "udp", "tcp_vir", "udp_vir"} /\ TransportOf(list[j]) = t
    BY ClassOfTransport
  <2>4. list[j] \notin OtherProtocols
    BY <2>3 DEF OtherProtocols, AppPools
  <2> QED
    BY <2>2, <2>3, <2>4
<1> HIDE DEF I, i, list
<1> QED
  BY <1>1, <1>3, <1>4

\* The infos of a layer are from pools that its stack has, and but for
\* StackOpenFlow the pool of TCPInfos that CacheManager knows is the only one.
LEMMA PoolsOfLayers ==
  ASSUME stack \in Stacks, NEW layer \in Layers, NEW asks \in BOOLEAN
  PROVE  /\ TCPInfoOf(layer) \subseteq Pooled
         /\ AppInfoOf(layer, asks) \subseteq Pooled
         /\ stack # "oflow" => Pooled \cap {"tcp", "tcp_vir"} = {Registered}
<1>1. Pooled = AppPools \cup (Layers \cap {"tcp", "tcp_vir"})
                        \cup (IF stack = "mobile" THEN {"gprs"} ELSE {})
  BY TotalsOfStacks DEF Pooled
<1>2. TCPInfoOf(layer) \subseteq Pooled
  BY <1>1, PartsOfStacks DEF TCPInfoOf, TransportOf
<1>3. AppOf(layer) \in {"http", "dns", Nothing} \cup (IF stack = "mobile" THEN {"gprs"} ELSE {})
  BY DEF AppOf
<1>4. AppInfoOf(layer, asks) \subseteq Pooled
  BY <1>1, <1>3 DEF AppInfoOf, AppPools
<1>5. stack # "oflow" => Pooled \cap {"tcp", "tcp_vir"} = {Registered}
  BY <1>1, PartsOfStacks DEF AppPools, Registered
<1> QED
  BY <1>2, <1>4, <1>5

-----------------------------------------------------------------------------
(***************************************************************************)
(* The infos of a pool that are free and those that flows have             *)
(***************************************************************************)

\* The flows that hold an info of a pool are finitely many.
LEMMA HoldersFinite ==
  ASSUME NEW all, IsFiniteSet(all), NEW p
  PROVE  IsFiniteSet(HoldersIn(all, p)) /\ Cardinality(HoldersIn(all, p)) \in Nat
<1>1. HoldersIn(all, p) \in SUBSET all
  BY DEF HoldersIn
<1>2. IsFiniteSet(HoldersIn(all, p))
  BY <1>1, FS_Subset
<1> QED
  BY <1>2, FS_CardinalityType

\* What is taken was free.
LEMMA TakenType ==
  ASSUME NEW P, NEW pools \in [P -> Nat], NEW needed \in SUBSET P,
         NEW infos, infos \subseteq Taken(pools, needed)
  PROVE  infos \subseteq P /\ FreeWithout(pools, infos) \in [P -> Nat]
BY DEF Taken, FreeWithout

\* A new flow takes infos that were free.
LEMMA AccountedNew ==
  ASSUME NEW P, NEW pools \in [P -> Nat], NEW all, IsFiniteSet(all), NEW total,
         Accounted(pools, all, total), NEW f, f \notin all
  PROVE  Accounted(FreeWithout(pools, f.infos), all \cup {f}, total)
<1> DEFINE less == FreeWithout(pools, f.infos)
<1>1. DOMAIN less = P /\ \A p \in P : less[p] = IF p \in f.infos THEN pools[p] - 1 ELSE pools[p]
  BY DEF FreeWithout
<1>2. ASSUME NEW p \in P
      PROVE  less[p] + Cardinality(HoldersIn(all \cup {f}, p)) = total[p]
  <2> DEFINE held == HoldersIn(all, p)
             now == HoldersIn(all \cup {f}, p)
  <2>1. IsFiniteSet(held) /\ Cardinality(held) \in Nat /\ f \notin held
    BY HoldersFinite DEF HoldersIn
  <2>2. pools[p] + Cardinality(held) = total[p] /\ pools[p] \in Nat
    BY DEF Accounted
  <2>3. now = IF p \in f.infos THEN held \cup {f} ELSE held
    BY DEF HoldersIn
  <2> HIDE DEF held, now
  <2>4. Cardinality(now) = IF p \in f.infos THEN Cardinality(held) + 1 ELSE Cardinality(held)
    BY <2>1, <2>3, FS_AddElement
  <2> HIDE DEF less
  <2>5. less[p] + Cardinality(now) = total[p]
    BY <1>1, <2>1, <2>2, <2>4
  <2> QED
    BY <2>5 DEF now, less
<1> QED
  BY <1>1, <1>2 DEF Accounted

\* A flow that is there takes more of them.
LEMMA AccountedMore ==
  ASSUME NEW P, NEW pools \in [P -> Nat], NEW all, IsFiniteSet(all), NEW total,
         Accounted(pools, all, total), NEW f \in all, NEW g, g \notin all \ {f},
         NEW infos, g.infos = f.infos \cup infos, f.infos \cap infos = {}
  PROVE  Accounted(FreeWithout(pools, infos), (all \ {f}) \cup {g}, total)
<1> DEFINE less == FreeWithout(pools, infos)
<1>1. DOMAIN less = P /\ \A p \in P : less[p] = IF p \in infos THEN pools[p] - 1 ELSE pools[p]
  BY DEF FreeWithout
<1>2. ASSUME NEW p \in P
      PROVE  less[p] + Cardinality(HoldersIn((all \ {f}) \cup {g}, p)) = total[p]
  <2> DEFINE held == HoldersIn(all, p)
             rest == held \ {f}
             now == HoldersIn((all \ {f}) \cup {g}, p)
  <2>1. IsFiniteSet(held) /\ Cardinality(held) \in Nat
    BY HoldersFinite
  <2>2. pools[p] + Cardinality(held) = total[p] /\ pools[p] \in Nat
    BY DEF Accounted
  <2>3. now = (IF p \in g.infos THEN rest \cup {g} ELSE rest) /\ g \notin rest
    BY DEF HoldersIn
  <2>4. f \in held <=> p \in f.infos
    BY DEF HoldersIn
  <2> HIDE DEF held, now
  <2>5. /\ IsFiniteSet(rest)
        /\ Cardinality(rest) = IF f \in held THEN Cardinality(held) - 1 ELSE Cardinality(held)
    BY <2>1, FS_RemoveElement
  <2> HIDE DEF rest
  <2>6. Cardinality(now) = IF p \in g.infos THEN Cardinality(rest) + 1 ELSE Cardinality(rest)
    BY <2>3, <2>5, FS_AddElement
  <2> HIDE DEF less
  <2>7. less[p] + Cardinality(now) = total[p]
    BY <1>1, <2>1, <2>2, <2>4, <2>5, <2>6
  <2> QED
    BY <2>7 DEF now, less
<1> QED
  BY <1>1, <1>2 DEF Accounted

\* A flow that ends gives back all it has.
LEMMA AccountedLess ==
  ASSUME NEW P, NEW pools \in [P -> Nat], NEW all, IsFiniteSet(all), NEW total \in [P -> Nat],
         Accounted(pools, all, total), NEW f \in all
  PROVE  Accounted([p \in P |-> IF p \in f.infos /\ pools[p] < total[p] THEN pools[p] + 1
                                ELSE pools[p]], all \ {f}, total)
<1> DEFINE more == [p \in P |-> IF p \in f.infos /\ pools[p] < total[p] THEN pools[p] + 1
                                ELSE pools[p]]
<1>1. ASSUME NEW p \in P
      PROVE  more[p] + Cardinality(HoldersIn(all \ {f}, p)) = total[p]
  <2> DEFINE held == HoldersIn(all, p)
             now == HoldersIn(all \ {f}, p)
  <2>1. IsFiniteSet(held) /\ Cardinality(held) \in Nat
    BY HoldersFinite
  <2>2. pools[p] + Cardinality(held) = total[p] /\ pools[p] \in Nat /\ total[p] \in Nat
    BY DEF Accounted
  <2>3. now = held \ {f} /\ (f \in held <=> p \in f.infos)
    BY DEF HoldersIn
  <2> HIDE DEF held, now
  <2>4. /\ IsFiniteSet(now)
        /\ Cardinality(now) = IF f \in held THEN Cardinality(held) - 1 ELSE Cardinality(held)
    BY <2>1, <2>3, FS_RemoveElement
  <2>5. Cardinality(now) \in Nat
    BY <2>4, FS_CardinalityType
  <2>6. p \in f.infos => pools[p] < total[p]
    BY <2>1, <2>2, <2>3, <2>4, <2>5
  <2>7. more[p] = IF p \in f.infos THEN pools[p] + 1 ELSE pools[p]
    BY <2>6
  <2> HIDE DEF more
  <2>8. more[p] + Cardinality(now) = total[p]
    BY <2>1, <2>2, <2>3, <2>4, <2>7
  <2> QED
    BY <2>8 DEF now, more
<1> QED
  BY <1>1 DEF Accounted

\* A map that is one to one leaves the number of flows as it is.
LEMMA ImageCount ==
  ASSUME NEW S, IsFiniteSet(S), NEW map,
         \A f, g \in S : map[f] = map[g] => f = g
  PROVE  /\ IsFiniteSet({map[f] : f \in S})
         /\ Cardinality({map[f] : f \in S}) = Cardinality(S)
<1> DEFINE T == {map[f] : f \in S}
           m == [f \in S |-> map[f]]
<1>1. m \in Bijection(S, T)
  BY DEF Bijection, Injection, Surjection, IsInjective
<1> HIDE DEF m, T
<1>2. IsFiniteSet(T) /\ Cardinality(T) = Cardinality(S)
  BY <1>1, FS_Bijection DEF ExistsBijection
<1> QED
  BY <1>2 DEF T

-----------------------------------------------------------------------------
(***************************************************************************)
(* The setters                                                             *)
(***************************************************************************)

\* A stack as constructed satisfies the invariants of the setup.
LEMMA InitSetup == SetupInit => SetupInv /\ RowsInv
<1> SUFFICES ASSUME SetupInit PROVE SetupInv /\ RowsInv
  OBVIOUS
<1>1. stack \in Stacks /\ flows = {} /\ free = made.infos /\ followed = {} /\ adaptor = {}
  BY DEF SetupInit
<1>2. made = Totals(stack, 0, 0)
  BY DEF SetupInit
<1>3. made.flows \in [Layers -> Nat] /\ made.infos \in [Pooled -> Nat]
  BY <1>1, <1>2, TotalsOfStacks DEF Pooled
<1>4. timeout \in [Layers -> Nat]
  BY <1>1, PartsOfStacks DEF SetupInit
<1>5. SetupTypeOK
  BY <1>1, <1>3, <1>4, StackSetupAssumption DEF SetupTypeOK, SetupInit
<1>6. SetupTyped
  BY <1>3, <1>5 DEF SetupTyped, SetupInit, Managers, Default
<1>7. FlowsTyped
  BY <1>1, FS_EmptySet DEF FlowsTyped, KeysUnique
<1>8. \A t \in Transports :
        /\ Inspected(t) \in Inspectors \cap Layers \cap Parts[stack].setters.timeout
  BY <1>1, InspectedLayers, PartsOfStacks DEF Transports, Inspectors, Setters
<1>9. RulesReach
  <2>1. \A t \in Transports : timeout[Inspected(t)] = Default
    BY <1>1, <1>8, PartsOfStacks DEF SetupInit
  <2> QED
    BY <1>8, <2>1 DEF RulesReach, SetupInit, Inspectors
<1>10. Accounted(free, flows, made.infos)
  <2>1. \A p \in DOMAIN free : HoldersIn(flows, p) = {} /\ free[p] \in Nat
    BY <1>1, <1>3 DEF HoldersIn
  <2> QED
    BY <1>1, <2>1, FS_EmptySet DEF Accounted
<1>11. RowsInv
  BY <1>1 DEF RowsInv
<1> QED
  BY <1>6, <1>7, <1>9, <1>10, <1>11 DEF SetupInv

\* What a step that leaves the flows and the pools alone leaves of the invariant.
LEMMA FlowsAlone ==
  ASSUME SetupInv, UNCHANGED <<stack, made, free, flows>>
  PROVE  /\ Pooled' = Pooled /\ Layers' = Layers /\ FlowsTyped'
         /\ stack' # "oflow" => Accounted(free, flows, made.infos)'
<1>1. Layers' = Layers
  BY DEF Layers, Tables
<1>2. Pooled' = Pooled
  BY DEF Pooled
<1>3. FlowRecords' = FlowRecords
  BY <1>1, <1>2 DEF FlowRecords
<1> QED
  BY <1>1, <1>2, <1>3 DEF SetupInv, FlowsTyped, Accounted, KeysUnique, HoldersIn

\* setTotalTCPFlows and setTotalUDPFlows: the new infos are free.
LEMMA SetTotalFlowsSafe ==
  ASSUME SetupInv, NEW tcp \in Nat, NEW udp \in Nat, SetTotalFlows(tcp, udp)
  PROVE  SetupInv'
<1> DEFINE more == Totals(stack, tcp, udp)
<1>1. /\ UNCHANGED <<stack, timeout, rules, wanted, adaptor, followed, flows, rows, stray>>
      /\ calls < SetupCalls /\ calls' = calls + 1
      /\ made' = [flows |-> [l \in Layers |-> made.flows[l] + more.flows[l]],
                  infos |-> [p \in DOMAIN free |-> made.infos[p] + more.infos[p]]]
      /\ free' = [p \in DOMAIN free |-> free[p] + more.infos[p]]
  BY DEF SetTotalFlows, Set
<1>2. /\ stack \in Stacks /\ made.flows \in [Layers -> Nat] /\ free \in [Pooled -> Nat]
      /\ made.infos \in [Pooled -> Nat] /\ DOMAIN free = Pooled
  BY DEF SetupInv, SetupTyped, SetupTypeOK
<1>3. more.flows \in [Layers -> Nat] /\ more.infos \in [Pooled -> Nat]
  BY <1>2, TotalsOfStacks DEF Pooled
<1> HIDE DEF more
<1>4. Layers' = Layers /\ Pooled' = Pooled
  BY <1>1 DEF Layers, Tables, Pooled
<1>5. /\ made'.flows \in [Layers -> Nat]
      /\ made'.infos \in [Pooled -> Nat]
      /\ \A p \in Pooled : made'.infos[p] = made.infos[p] + more.infos[p]
      /\ free' \in [Pooled -> Nat]
      /\ \A p \in Pooled : free'[p] = free[p] + more.infos[p]
  BY <1>1, <1>2, <1>3
<1>6. SetupTyped'
  BY <1>1, <1>4, <1>5, StackSetupAssumption DEF SetupInv, SetupTyped, SetupTypeOK
<1>7. FlowsTyped'
  BY <1>1, <1>4 DEF SetupInv, FlowsTyped, FlowRecords, KeysUnique
<1>8. RulesReach'
  <2>1. \A t \in Transports : Inspected(t)' = Inspected(t)
    BY <1>1, InspectedKept
  <2> QED
    BY <1>1, <2>1 DEF SetupInv, RulesReach
<1>9. stack # "oflow" => Accounted(free', flows, made'.infos)
  <2> SUFFICES ASSUME stack # "oflow", NEW p \in Pooled
               PROVE  free'[p] + Cardinality(HoldersIn(flows, p)) = made'.infos[p]
    BY <1>5 DEF Accounted
  <2>1. free[p] + Cardinality(HoldersIn(flows, p)) = made.infos[p]
    BY <1>2 DEF SetupInv, Accounted
  <2>2. Cardinality(HoldersIn(flows, p)) \in Nat
    BY HoldersFinite DEF SetupInv, FlowsTyped
  <2>3. free[p] \in Nat /\ made.infos[p] \in Nat /\ more.infos[p] \in Nat
    BY <1>2, <1>3
  <2> QED
    BY <1>5, <2>1, <2>2, <2>3
<1> QED
  BY <1>1, <1>6, <1>7, <1>8, <1>9 DEF SetupInv

\* setFlowsTimeout.
LEMMA SetFlowsTimeoutSafe ==
  ASSUME SetupInv, NEW t \in Nat, SetFlowsTimeout(t)
  PROVE  SetupInv'
<1>1. /\ UNCHANGED <<stack, made, free, rules, adaptor, followed, flows, rows, stray>>
      /\ calls < SetupCalls /\ calls' = calls + 1
      /\ timeout' = [l \in Layers |-> IF l \in Parts[stack].setters.timeout THEN t
                                      ELSE timeout[l]]
      /\ wanted' = [wanted EXCEPT !.timeout = t]
  BY DEF SetFlowsTimeout, Set
<1>2. /\ Pooled' = Pooled /\ Layers' = Layers /\ FlowsTyped'
      /\ stack' # "oflow" => Accounted(free, flows, made.infos)'
  BY <1>1, FlowsAlone
<1>3. SetupTyped'
  <2>1. timeout' \in [Layers -> Nat]
    BY <1>1 DEF SetupInv, SetupTyped, SetupTypeOK
  <2>2. wanted' \in [timeout : Nat, rules : [{"regex", "ipset"} -> [Transports -> Managers]]]
    BY <1>1 DEF SetupInv, SetupTyped
  <2> QED
    BY <1>1, <1>2, <2>1, <2>2, StackSetupAssumption DEF SetupInv, SetupTyped, SetupTypeOK
<1>4. RulesReach'
  <2>1. \A u \in Transports : Inspected(u) \in Layers \cap Parts[stack].setters.timeout
    BY InspectedLayers, PartsOfStacks DEF Transports, Setters, SetupInv, SetupTyped, SetupTypeOK
  <2>2. \A u \in Transports : timeout'[Inspected(u)] = t
    BY <1>1, <2>1
  <2>3. wanted'.timeout = t /\ wanted'.rules = wanted.rules
    BY <1>1 DEF SetupInv, SetupTyped
  <2>4. \A u \in Transports : Inspected(u)' = Inspected(u)
    BY <1>1, InspectedKept
  <2> QED
    BY <1>1, <2>2, <2>3, <2>4 DEF SetupInv, RulesReach
<1> QED
  BY <1>2, <1>3, <1>4 DEF SetupInv

\* A regex or an ipset manager reaches the parts of its transport alone.
LEMMA SetManagerSafe ==
  ASSUME SetupInv, NEW kind \in {"regex", "ipset"}, NEW t \in Transports,
         NEW manager \in Managers, SetManager(kind, t, manager)
  PROVE  SetupInv'
<1> DEFINE reached == Parts[stack].setters[kind][t]
           part(p) == IF p \in reached THEN manager ELSE rules[kind][p]
<1>1. /\ UNCHANGED <<stack, made, free, timeout, adaptor, followed, flows, rows, stray>>
      /\ calls < SetupCalls /\ calls' = calls + 1
  BY DEF SetManager, Set
<1>2. /\ rules \in [{"regex", "ipset"} -> [Inspectors -> Managers]]
      /\ wanted \in [timeout : Nat, rules : [{"regex", "ipset"} -> [Transports -> Managers]]]
      /\ stack \in Stacks
  BY DEF SetupInv, SetupTyped, SetupTypeOK
<1>3. rules' = [rules EXCEPT ![kind] = [p \in Inspectors |-> part(p)]]
  BY <1>2 DEF SetManager
<1>4. /\ rules' \in [{"regex", "ipset"} -> [Inspectors -> Managers]]
      /\ \A p \in Inspectors : rules'[kind][p] = part(p)
      /\ \A other \in {"regex", "ipset"} : other # kind => rules'[other] = rules[other]
  BY <1>2, <1>3
<1>5. wanted' = [wanted EXCEPT !.rules[kind][t] = manager]
  BY DEF SetManager
<1>6. /\ wanted' \in [timeout : Nat, rules : [{"regex", "ipset"} -> [Transports -> Managers]]]
      /\ wanted'.timeout = wanted.timeout
      /\ \A other \in {"regex", "ipset"}, u \in Transports :
           wanted'.rules[other][u] = IF other = kind /\ u = t THEN manager
                                     ELSE wanted.rules[other][u]
  BY <1>2, <1>5
<1>7. /\ Pooled' = Pooled /\ Layers' = Layers /\ FlowsTyped'
      /\ stack' # "oflow" => Accounted(free, flows, made.infos)'
  BY <1>1, FlowsAlone
<1>8. SetupTyped'
  BY <1>1, <1>4, <1>6, <1>7, StackSetupAssumption DEF SetupInv, SetupTyped, SetupTypeOK
<1>9. \A u \in Transports :
        /\ Inspected(u) \in Inspectors
        /\ Inspected(u) \in reached <=> u = t
  BY <1>2, InspectedLayers, PartsOfStacks DEF Transports, Setters, Inspectors
<1>10. kind = "regex" => ("tcp_generic" \in reached <=> t = "tcp")
                         /\ ("udp_generic" \in reached <=> t = "udp")
  BY <1>2, PartsOfStacks DEF Transports, Setters
<1> HIDE DEF reached
<1>11. ASSUME NEW u \in Transports
       PROVE  /\ \A k \in {"regex", "ipset"} : rules'[k][Inspected(u)] = wanted'.rules[k][u]
              /\ rules'["regex"][IF u = "tcp" THEN "tcp_generic" ELSE "udp_generic"] =
                   wanted'.rules["regex"][u]
  <2>1. \A k \in {"regex", "ipset"} : rules[k][Inspected(u)] = wanted.rules[k][u]
    BY DEF SetupInv, RulesReach
  <2>2. rules["regex"][IF u = "tcp" THEN "tcp_generic" ELSE "udp_generic"] = wanted.rules["regex"][u]
    BY DEF SetupInv, RulesReach
  <2>3. \A k \in {"regex", "ipset"} : rules'[k][Inspected(u)] = wanted'.rules[k][u]
    BY <1>4, <1>6, <1>9, <2>1
  <2>4. "tcp_generic" \in Inspectors /\ "udp_generic" \in Inspectors
    BY DEF Inspectors
  <2>5. rules'["regex"][IF u = "tcp" THEN "tcp_generic" ELSE "udp_generic"] =
          wanted'.rules["regex"][u]
    BY <1>4, <1>6, <1>10, <2>2, <2>4 DEF Transports
  <2> QED
    BY <2>3, <2>5
<1>12. RulesReach'
  <2>1. \A u \in Transports : Inspected(u)' = Inspected(u)
    BY <1>1, InspectedKept
  <2>2. timeout' = timeout
    BY <1>1
  <2> QED
    BY <1>6, <1>11, <2>1, <2>2 DEF SetupInv, RulesReach
<1> QED
  BY <1>7, <1>8, <1>12 DEF SetupInv

\* A database is set on a layer of the stack.
LEMMA SetDatabaseAdaptorSafe ==
  ASSUME SetupInv, NEW t \in Transports, NEW set \in BOOLEAN, SetDatabaseAdaptor(t, set)
  PROVE  SetupInv'
<1>1. /\ UNCHANGED <<stack, made, free, timeout, rules, wanted, flows, rows, stray>>
      /\ calls < SetupCalls /\ calls' = calls + 1
  BY DEF SetDatabaseAdaptor, Set
<1>2. PICK layer \in GetProtocol(t) :
        adaptor' \subseteq adaptor \cup {layer} /\ followed' \subseteq followed \cup {layer}
  BY DEF SetDatabaseAdaptor, AdaptorOf
<1>3. layer \in Layers
  BY ProtocolFound DEF SetupInv, SetupTyped, SetupTypeOK
<1>4. /\ Pooled' = Pooled /\ Layers' = Layers /\ FlowsTyped'
      /\ stack' # "oflow" => Accounted(free, flows, made.infos)'
  BY <1>1, FlowsAlone
<1>5. adaptor' \subseteq Layers /\ followed' \subseteq Layers
  BY <1>2, <1>3 DEF SetupInv, SetupTyped, SetupTypeOK
<1>6. SetupTyped'
  BY <1>1, <1>4, <1>5, StackSetupAssumption DEF SetupInv, SetupTyped, SetupTypeOK
<1>7. RulesReach'
  <2>1. \A u \in Transports : Inspected(u)' = Inspected(u)
    BY <1>1, InspectedKept
  <2> QED
    BY <1>1, <2>1 DEF SetupInv, RulesReach
<1> QED
  BY <1>4, <1>6, <1>7 DEF SetupInv

-----------------------------------------------------------------------------
(***************************************************************************)
(* What the databases are told                                             *)
(***************************************************************************)

\* Every layer has its transport.
LEMMA TransportType == \A layer : TransportOf(layer) \in Transports
BY DEF TransportOf, Transports

\* What is written to a database.
LEMMA WrittenType ==
  ASSUME rows \in [Transports -> SUBSET Tuples], stray \subseteq Transports,
         NEW t \in Transports, NEW r, r.rows \subseteq Tuples, Written(t, r)
  PROVE  /\ rows' \in [Transports -> SUBSET Tuples]
         /\ \A u \in Transports : rows'[u] = IF u = t THEN r.rows ELSE rows[u]
         /\ stray' \subseteq Transports
         /\ \A u \in Transports : u # t => (u \in stray' <=> u \in stray)
         /\ t \in stray' <=> r.stray
BY DEF Written

\* Of a new flow a database gets a row, and an update finds it.
LEMMA NewFlowTold ==
  ASSUME SetupTypeOK, NEW layer \in Layers, NEW tuple \in Tuples, NEW tag, NEW asks \in BOOLEAN,
         NewFlow(layer, tuple, tag, asks)
  PROVE  /\ rows' \in [Transports -> SUBSET Tuples]
         /\ \A u \in Transports :
              rows'[u] = IF u = TransportOf(layer) /\ layer \in adaptor THEN rows[u] \cup {tuple}
                         ELSE rows[u]
         /\ stray' = stray
<1> DEFINE t == TransportOf(layer)
           base == Database(t)
           ins(f) == Tell(layer, InsertHandler, f, base)
           upd(f) == Tell(layer, UpdateHandler, f, ins(f))
<1>1. t \in Transports /\ rows \in [Transports -> SUBSET Tuples] /\ stray \subseteq Transports
  BY TransportType DEF SetupTypeOK
<1>2. PICK f : f.tuple = tuple /\ \E both \in BOOLEAN :
                 Written(t, IF both THEN upd(f) ELSE ins(f))
  <2> HIDE DEF base
  <2> QED
    BY DEF NewFlow, base
<1>3. base.rows = rows[t] /\ (base.stray <=> t \in stray)
      /\ base = [rows |-> rows[t], stray |-> t \in stray]
  BY DEF Database
<1> HIDE DEF base
<1>4. /\ ins(f).rows = IF layer \in adaptor THEN rows[t] \cup {tuple} ELSE rows[t]
      /\ ins(f).stray <=> t \in stray
  BY <1>2, <1>3 DEF Tell, InsertHandler
<1>5. upd(f).rows = ins(f).rows /\ (upd(f).stray <=> t \in stray)
  BY <1>2, <1>3, <1>4 DEF Tell, InsertHandler, UpdateHandler
<1> HIDE DEF ins, upd
<1>6. PICK r : /\ Written(t, r)
               /\ r.rows = IF layer \in adaptor THEN rows[t] \cup {tuple} ELSE rows[t]
               /\ r.stray <=> t \in stray
  BY <1>2, <1>4, <1>5
<1> HIDE DEF t
<1>7. r.rows \subseteq Tuples
  BY <1>1, <1>6
<1>8. /\ rows' \in [Transports -> SUBSET Tuples]
      /\ \A u \in Transports : rows'[u] = IF u = t THEN r.rows ELSE rows[u]
      /\ stray' \subseteq Transports
      /\ \A u \in Transports : u # t => (u \in stray' <=> u \in stray)
      /\ t \in stray' <=> r.stray
  BY <1>1, <1>6, <1>7, WrittenType
<1>9. stray' = stray
  <2>1. t \in stray' <=> t \in stray
    BY <1>6, <1>8
  <2> QED
    BY <1>1, <1>8, <2>1
<1> QED
  BY <1>6, <1>8, <1>9 DEF t

\* Of the packets that follow it gets updates.
LEMMA MorePacketsTold ==
  ASSUME SetupTypeOK, NEW f, NEW asks \in BOOLEAN, MorePackets(f, asks)
  PROVE  /\ rows' = rows
         /\ stray' \subseteq Transports
         /\ \A u \in Transports : u # TransportOf(f.layer) => (u \in stray' <=> u \in stray)
         /\ (f.layer \in adaptor => f.tuple \in rows[TransportOf(f.layer)])
            => stray' = stray
<1> DEFINE t == TransportOf(f.layer)
           base == Database(t)
           upd == Tell(f.layer, UpdateHandler, f, base)
<1>1. t \in Transports /\ rows \in [Transports -> SUBSET Tuples] /\ stray \subseteq Transports
  BY TransportType DEF SetupTypeOK
<1>2. \E both \in BOOLEAN : Written(t, IF both THEN upd ELSE base)
  <2> HIDE DEF base
  <2> QED
    BY DEF MorePackets, base
<1>3. base.rows = rows[t] /\ (base.stray <=> t \in stray)
      /\ base = [rows |-> rows[t], stray |-> t \in stray]
  BY DEF Database
<1> HIDE DEF base
<1>4. /\ upd.rows = rows[t]
      /\ (f.layer \in adaptor => f.tuple \in rows[t]) => (upd.stray <=> t \in stray)
  BY <1>3 DEF Tell, UpdateHandler
<1> HIDE DEF upd
<1>5. PICK r : /\ Written(t, r)
               /\ r.rows = rows[t]
               /\ (f.layer \in adaptor => f.tuple \in rows[t]) => (r.stray <=> t \in stray)
  BY <1>2, <1>3, <1>4
<1> HIDE DEF t
<1>6. r.rows \subseteq Tuples
  BY <1>1, <1>5
<1>7. /\ rows' \in [Transports -> SUBSET Tuples]
      /\ \A u \in Transports : rows'[u] = IF u = t THEN r.rows ELSE rows[u]
      /\ stray' \subseteq Transports
      /\ \A u \in Transports : u # t => (u \in stray' <=> u \in stray)
      /\ t \in stray' <=> r.stray
  BY <1>1, <1>5, <1>6, WrittenType
<1>8. rows' = rows
  BY <1>1, <1>5, <1>7
<1>9. (f.layer \in adaptor => f.tuple \in rows[t]) => stray' = stray
  BY <1>1, <1>5, <1>7
<1> QED
  BY <1>7, <1>8, <1>9 DEF t

\* At its end the row is removed.
LEMMA FlowEndsTold ==
  ASSUME SetupTypeOK, NEW f, NEW teller, FlowEnds(f, teller)
  PROVE  /\ rows' \in [Transports -> SUBSET Tuples]
         /\ \A u \in Transports :
              rows'[u] = IF u = TransportOf(f.layer) /\ teller \in adaptor
                         THEN rows[u] \ {f.tuple} ELSE rows[u]
         /\ stray' \subseteq Transports
         /\ \A u \in Transports : u # TransportOf(f.layer) => (u \in stray' <=> u \in stray)
         /\ (teller \in adaptor => f.tuple \in rows[TransportOf(f.layer)]) => stray' = stray
<1> DEFINE t == TransportOf(f.layer)
           base == Database(t)
           r == Tell(teller, RemoveHandler, f, base)
<1>1. t \in Transports /\ rows \in [Transports -> SUBSET Tuples] /\ stray \subseteq Transports
  BY TransportType DEF SetupTypeOK
<1>2. Written(t, r)
  BY DEF FlowEnds
<1>3. base.rows = rows[t] /\ (base.stray <=> t \in stray)
      /\ base = [rows |-> rows[t], stray |-> t \in stray]
  BY DEF Database
<1> HIDE DEF base
<1>4. /\ r.rows = IF teller \in adaptor THEN rows[t] \ {f.tuple} ELSE rows[t]
      /\ (teller \in adaptor => f.tuple \in rows[t]) => (r.stray <=> t \in stray)
  BY <1>3 DEF Tell, RemoveHandler
<1> HIDE DEF r, t
<1>5. r.rows \subseteq Tuples
  BY <1>1, <1>4
<1>6. /\ rows' \in [Transports -> SUBSET Tuples]
      /\ \A u \in Transports : rows'[u] = IF u = t THEN r.rows ELSE rows[u]
      /\ stray' \subseteq Transports
      /\ \A u \in Transports : u # t => (u \in stray' <=> u \in stray)
      /\ t \in stray' <=> r.stray
  BY <1>1, <1>2, <1>5, WrittenType
<1>7. (teller \in adaptor => f.tuple \in rows[t]) => stray' = stray
  BY <1>1, <1>4, <1>6
<1> QED
  BY <1>4, <1>6, <1>7 DEF t

-----------------------------------------------------------------------------
(***************************************************************************)
(* The flows                                                               *)
(***************************************************************************)

\* What a step of the flows leaves of the rules.
LEMMA RulesAlone ==
  ASSUME SetupInv, UNCHANGED <<stack, made, timeout, rules, wanted>>
  PROVE  RulesReach' /\ Pooled' = Pooled /\ Layers' = Layers
<1>1. \A t \in Transports : Inspected(t)' = Inspected(t)
  BY InspectedKept
<1> QED
  BY <1>1 DEF SetupInv, RulesReach, Pooled, Layers, Tables

\* getFlow and the first packet: the new flow has what it took.
LEMMA NewFlowSafe ==
  ASSUME SetupInv, NEW layer \in Layers, NEW tuple \in Tuples, NEW tag \in 0 .. 2,
         NEW asks \in BOOLEAN, NewFlow(layer, tuple, tag, asks)
  PROVE  SetupInv'
<1>1. /\ UNCHANGED <<stack, made, timeout, rules, wanted, adaptor, calls>>
      /\ \A g \in flows : ~(g.layer = layer /\ g.tuple = tuple /\ g.tag = tag)
      /\ followed' \subseteq followed
  BY DEF NewFlow
<1> DEFINE flow(infos, packets) == [layer |-> layer, tuple |-> tuple, tag |-> tag,
                                    infos |-> infos, packets |-> packets]
<1>2. PICK infos, packets :
        /\ infos \subseteq Taken(free, TCPInfoOf(layer) \cup AppInfoOf(layer, asks))
        /\ packets \in {0, 1 % Sampling}
        /\ flows' = flows \cup {flow(infos, packets)} /\ free' = FreeWithout(free, infos)
  BY DEF NewFlow, Taken
<1> DEFINE f == flow(infos, packets)
<1>3. stack \in Stacks /\ SetupTypeOK /\ free \in [Pooled -> Nat] /\ IsFiniteSet(flows)
      /\ flows \subseteq FlowRecords /\ KeysUnique(flows)
  BY DEF SetupInv, SetupTyped, SetupTypeOK, FlowsTyped
<1>4. TCPInfoOf(layer) \cup AppInfoOf(layer, asks) \in SUBSET Pooled
  BY <1>3, PoolsOfLayers
<1>5. /\ f.infos \subseteq Taken(free, TCPInfoOf(layer) \cup AppInfoOf(layer, asks))
      /\ f.layer = layer /\ f.tuple = tuple /\ f.tag = tag
      /\ flows' = flows \cup {f} /\ free' = FreeWithout(free, f.infos)
  BY <1>2
<1> HIDE DEF f
<1>6. f.infos \subseteq Pooled /\ free' \in [Pooled -> Nat]
  BY <1>3, <1>4, <1>5, TakenType
<1>7. f \in FlowRecords
  <2>1. 1 % Sampling \in Nat
    BY StackSetupAssumption
  <2> QED
    BY <1>2, <1>5, <1>6, <2>1 DEF FlowRecords, f
<1>8. RulesReach' /\ Pooled' = Pooled /\ Layers' = Layers
  BY <1>1, RulesAlone
<1>9. SetupTyped'
  <2>1. /\ rows' \in [Transports -> SUBSET Tuples]
        /\ stray' = stray
    BY <1>3, NewFlowTold
  <2>2. SetupTypeOK'
    BY <1>1, <1>3, <1>6, <1>8, <2>1 DEF SetupTypeOK, SetupInv, SetupTyped
  <2> QED
    BY <1>1, <1>8, <2>2 DEF SetupInv, SetupTyped
<1>10. FlowsTyped'
  <2>1. IsFiniteSet(flows')
    BY <1>3, <1>5, FS_AddElement
  <2>2. FlowRecords' = FlowRecords
    BY <1>8 DEF FlowRecords
  <2>3. KeysUnique(flows')
    BY <1>1, <1>3, <1>5 DEF KeysUnique
  <2> QED
    BY <1>3, <1>5, <1>7, <2>1, <2>2, <2>3 DEF FlowsTyped
<1>11. stack' # "oflow" => Accounted(free', flows', made'.infos)
  <2>1. f \notin flows
    BY <1>1, <1>5
  <2> QED
    BY <1>1, <1>3, <1>5, <2>1, AccountedNew DEF SetupInv
<1> QED
  BY <1>8, <1>9, <1>10, <1>11 DEF SetupInv

\* A flow whose packets go on: what it gets was free.
LEMMA MorePacketsSafe ==
  ASSUME SetupInv, NEW f \in flows, NEW asks \in BOOLEAN, MorePackets(f, asks)
  PROVE  SetupInv'
<1> DEFINE infos == Taken(free, AppInfoOf(f.layer, asks) \ f.infos)
           g == [f EXCEPT !.packets = (@ + 1) % Sampling, !.infos = @ \cup infos]
<1>1. /\ UNCHANGED <<stack, made, timeout, rules, wanted, adaptor, followed, calls>>
      /\ flows' = (flows \ {f}) \cup {g} /\ free' = FreeWithout(free, infos)
  BY DEF MorePackets
<1>2. stack \in Stacks /\ SetupTypeOK /\ free \in [Pooled -> Nat] /\ IsFiniteSet(flows)
      /\ flows \subseteq FlowRecords /\ KeysUnique(flows)
  BY DEF SetupInv, SetupTyped, SetupTypeOK, FlowsTyped
<1>3. f \in FlowRecords /\ f.layer \in Layers
  BY <1>2 DEF FlowRecords
<1>4. AppInfoOf(f.layer, asks) \ f.infos \in SUBSET Pooled
  BY <1>2, <1>3, PoolsOfLayers
<1>5. infos \subseteq Pooled /\ free' \in [Pooled -> Nat] /\ infos \cap f.infos = {}
  <2>1. infos \cap f.infos = {}
    BY DEF Taken
  <2> DEFINE needed == AppInfoOf(f.layer, asks) \ f.infos
  <2>2. infos \subseteq Pooled /\ FreeWithout(free, infos) \in [Pooled -> Nat]
    <3> HIDE DEF needed
    <3> QED
      BY <1>2, <1>4, TakenType DEF needed
  <2> QED
    BY <1>1, <2>1, <2>2
<1>6. /\ g \in FlowRecords /\ g.infos = f.infos \cup infos
      /\ g.layer = f.layer /\ g.tuple = f.tuple /\ g.tag = f.tag
  <2>1. (f.packets + 1) % Sampling \in Nat
    BY <1>3, StackSetupAssumption DEF FlowRecords
  <2>2. f.infos \cup infos \in SUBSET Pooled
    BY <1>3, <1>5 DEF FlowRecords
  <2> HIDE DEF infos
  <2> QED
    BY <1>3, <2>1, <2>2 DEF FlowRecords
<1> HIDE DEF infos, g
<1>7. RulesReach' /\ Pooled' = Pooled /\ Layers' = Layers
  BY <1>1, RulesAlone
<1>8. SetupTyped'
  <2>1. rows' = rows /\ stray' \subseteq Transports
    BY <1>2, MorePacketsTold
  <2>2. SetupTypeOK'
    BY <1>1, <1>2, <1>5, <1>7, <2>1 DEF SetupTypeOK, SetupInv, SetupTyped
  <2> QED
    BY <1>1, <1>7, <2>2 DEF SetupInv, SetupTyped
<1>9. FlowsTyped'
  <2>1. IsFiniteSet(flows')
    BY <1>1, <1>2, FS_RemoveElement, FS_AddElement
  <2>2. FlowRecords' = FlowRecords
    BY <1>7 DEF FlowRecords
  <2>3. KeysUnique(flows')
    BY <1>1, <1>2, <1>6 DEF KeysUnique
  <2> QED
    BY <1>1, <1>2, <1>6, <2>1, <2>2, <2>3 DEF FlowsTyped
<1>10. stack' # "oflow" => Accounted(free', flows', made'.infos)
  <2>1. g \notin flows \ {f}
    BY <1>2, <1>6 DEF KeysUnique
  <2> QED
    BY <1>1, <1>2, <1>5, <1>6, <2>1, AccountedMore DEF SetupInv
<1> QED
  BY <1>7, <1>8, <1>9, <1>10 DEF SetupInv

\* releaseFlow: but for StackOpenFlow every info goes back to the pool it is from.
LEMMA GivenBackHome ==
  ASSUME SetupInv, NEW f \in flows
  PROVE  /\ GivenBack(free, f.infos) \in [Pooled -> Nat]
         /\ stack # "oflow" =>
              GivenBack(free, f.infos) =
                [p \in Pooled |-> IF p \in f.infos /\ free[p] < made.infos[p] THEN free[p] + 1
                                  ELSE free[p]]
<1>1. /\ free \in [Pooled -> Nat] /\ stack \in Stacks
      /\ f.infos \subseteq Pooled /\ f.layer \in Layers
  BY DEF SetupInv, SetupTyped, SetupTypeOK, FlowsTyped, FlowRecords
<1> DEFINE home == {IF p \in {"tcp", "tcp_vir"} THEN Registered ELSE p : p \in f.infos}
<1>2. GivenBack(free, f.infos) =
        [p \in Pooled |-> IF p \in home /\ free[p] < made.infos[p] THEN free[p] + 1 ELSE free[p]]
  BY <1>1 DEF GivenBack
<1>3. ASSUME stack # "oflow" PROVE home = f.infos
  <2>1. Pooled \cap {"tcp", "tcp_vir"} = {Registered}
    BY <1>1, <1>3, PoolsOfLayers
  <2> QED
    BY <1>1, <2>1
<1> HIDE DEF home
<1>4. GivenBack(free, f.infos) \in [Pooled -> Nat]
  BY <1>1, <1>2
<1> QED
  BY <1>2, <1>3, <1>4

\* A flow ends.
LEMMA FlowEndsSafe ==
  ASSUME SetupInv, NEW f \in flows, NEW teller, FlowEnds(f, teller)
  PROVE  SetupInv'
<1>1. /\ UNCHANGED <<stack, made, timeout, rules, wanted, adaptor, followed, calls>>
      /\ flows' = flows \ {f} /\ free' = GivenBack(free, f.infos)
  BY DEF FlowEnds
<1>2. /\ SetupTypeOK /\ free \in [Pooled -> Nat] /\ IsFiniteSet(flows)
      /\ flows \subseteq FlowRecords /\ KeysUnique(flows) /\ made.infos \in [Pooled -> Nat]
  BY DEF SetupInv, SetupTyped, SetupTypeOK, FlowsTyped
<1>3. RulesReach' /\ Pooled' = Pooled /\ Layers' = Layers
  BY <1>1, RulesAlone
<1>4. SetupTyped'
  <2>1. rows' \in [Transports -> SUBSET Tuples] /\ stray' \subseteq Transports
    BY <1>2, FlowEndsTold
  <2>2. free' \in [Pooled -> Nat]
    BY <1>1, GivenBackHome
  <2>3. SetupTypeOK'
    BY <1>1, <1>2, <1>3, <2>1, <2>2 DEF SetupTypeOK, SetupInv, SetupTyped
  <2> QED
    BY <1>1, <1>3, <2>3 DEF SetupInv, SetupTyped
<1>5. FlowsTyped'
  <2>1. IsFiniteSet(flows')
    BY <1>1, <1>2, FS_RemoveElement
  <2>2. FlowRecords' = FlowRecords
    BY <1>3 DEF FlowRecords
  <2> QED
    BY <1>1, <1>2, <2>1, <2>2 DEF FlowsTyped, KeysUnique
<1>6. stack' # "oflow" => Accounted(free', flows', made'.infos)
  <2> SUFFICES ASSUME stack # "oflow"
               PROVE  Accounted(GivenBack(free, f.infos), flows \ {f}, made.infos)
    BY <1>1
  <2>1. GivenBack(free, f.infos) =
          [p \in Pooled |-> IF p \in f.infos /\ free[p] < made.infos[p] THEN free[p] + 1
                            ELSE free[p]]
    BY GivenBackHome
  <2>2. Accounted(free, flows, made.infos)
    BY DEF SetupInv
  <2> QED
    BY <1>2, <2>1, <2>2, AccountedLess
<1> QED
  BY <1>3, <1>4, <1>5, <1>6 DEF SetupInv

\* releaseCache and releaseCaches: what the flows lose the pools get.
LEMMA ReleaseCacheSafe ==
  ASSUME SetupInv, NEW names, ReleaseCache(names)
  PROVE  SetupInv'
<1> DEFINE protocols == UNION {GetProtocol(name) : name \in names}
           walked == [f \in flows |-> f.infos \cap protocols \cap Tables[f.layer].walkers]
           map == [f \in flows |-> [f EXCEPT !.infos = @ \ walked[f]]]
           back == [p \in Pooled |-> {f \in flows : p \in walked[f]}]
           more == [p \in Pooled |-> free[p] + Cardinality(back[p])]
<1>1. /\ UNCHANGED <<stack, made, timeout, rules, wanted, adaptor, rows, stray, followed, calls>>
      /\ flows' = {map[f] : f \in flows}
  <2> HIDE DEF protocols
  <2> QED
    BY DEF ReleaseCache, protocols
<1>2. /\ SetupTypeOK /\ free \in [Pooled -> Nat] /\ IsFiniteSet(flows)
      /\ flows \subseteq FlowRecords /\ KeysUnique(flows) /\ made.infos \in [Pooled -> Nat]
  BY DEF SetupInv, SetupTyped, SetupTypeOK, FlowsTyped
<1>3. free' = more
  <2>1. \A p : {f \in flows : p \in walked[f]} =
               {f \in flows : p \in f.infos \cap protocols \cap Tables[f.layer].walkers}
    OBVIOUS
  <2> HIDE DEF walked
  <2> QED
    BY <1>2, <2>1 DEF ReleaseCache
<1>4. \A f \in flows : walked[f] \subseteq f.infos
  OBVIOUS
<1> HIDE DEF walked
<1>5. \A f \in flows :
        /\ map[f].infos = f.infos \ walked[f]
        /\ map[f].layer = f.layer /\ map[f].tuple = f.tuple /\ map[f].tag = f.tag
        /\ map[f] \in FlowRecords
  BY <1>2 DEF FlowRecords
<1> HIDE DEF map
<1>6. \A f, g \in flows : map[f] = map[g] => f = g
  BY <1>2, <1>5 DEF KeysUnique
<1>7. RulesReach' /\ Pooled' = Pooled /\ Layers' = Layers
  BY <1>1, RulesAlone
<1>8. /\ IsFiniteSet(flows')
      /\ Cardinality(flows') = Cardinality(flows)
  BY <1>1, <1>2, <1>6, ImageCount
<1>9. FlowsTyped'
  <2>1. FlowRecords' = FlowRecords
    BY <1>7 DEF FlowRecords
  <2>2. KeysUnique(flows')
    BY <1>1, <1>2, <1>5 DEF KeysUnique
  <2> QED
    BY <1>1, <1>5, <1>8, <2>1, <2>2 DEF FlowsTyped
<1>10. ASSUME NEW p \in Pooled
       PROVE  /\ Cardinality(back[p]) \in Nat
              /\ Cardinality(HoldersIn(flows', p)) =
                   Cardinality(HoldersIn(flows, p)) - Cardinality(back[p])
  <2> DEFINE held == HoldersIn(flows, p)
             given == back[p]
             kept == held \ given
             left == HoldersIn(flows', p)
  <2>1. IsFiniteSet(held)
    BY <1>2, HoldersFinite
  <2>2. given \in SUBSET held /\ held \cap given = given
    BY <1>4 DEF HoldersIn
  <2>3. \A f, g \in kept : map[f] = map[g] => f = g
    BY <1>6 DEF HoldersIn
  <2>4. left = {map[f] : f \in kept}
    BY <1>1, <1>5 DEF HoldersIn
  <2> HIDE DEF held, left, given
  <2>5. Cardinality(given) \in Nat
    BY <2>1, <2>2, FS_Subset, FS_CardinalityType
  <2>6. IsFiniteSet(kept) /\ Cardinality(kept) = Cardinality(held) - Cardinality(held \cap given)
    BY <2>1, FS_Difference
  <2> HIDE DEF kept
  <2>7. Cardinality(left) = Cardinality(kept)
    BY <2>3, <2>4, <2>6, ImageCount
  <2>8. Cardinality(left) = Cardinality(held) - Cardinality(given)
    BY <2>2, <2>6, <2>7
  <2> QED
    BY <2>5, <2>8 DEF held, left, given
<1> HIDE DEF back
<1>11. more \in [Pooled -> Nat]
  BY <1>2, <1>10
<1>12. stack' # "oflow" => Accounted(free', flows', made'.infos)
  <2> SUFFICES ASSUME stack # "oflow", NEW p \in Pooled
               PROVE  more[p] + Cardinality(HoldersIn(flows', p)) = made.infos[p]
    BY <1>1, <1>3, <1>11 DEF Accounted
  <2>1. free[p] + Cardinality(HoldersIn(flows, p)) = made.infos[p]
    BY <1>2 DEF SetupInv, Accounted
  <2>2. Cardinality(HoldersIn(flows, p)) \in Nat /\ free[p] \in Nat
    BY <1>2, HoldersFinite
  <2>3. more[p] = free[p] + Cardinality(back[p])
    OBVIOUS
  <2> QED
    BY <1>10, <2>1, <2>2, <2>3
<1> HIDE DEF more
<1>13. SetupTyped'
  <2>1. SetupTypeOK'
    BY <1>1, <1>2, <1>3, <1>7, <1>11 DEF SetupTypeOK, SetupInv, SetupTyped
  <2> QED
    BY <1>1, <1>7, <2>1 DEF SetupInv, SetupTyped
<1> QED
  BY <1>7, <1>9, <1>12, <1>13 DEF SetupInv

-----------------------------------------------------------------------------

\* Every step keeps the invariant.
LEMMA SetupStep == SetupInv /\ [SetupNext]_setupVars => SetupInv'
<1> SUFFICES ASSUME SetupInv, [SetupNext]_setupVars PROVE SetupInv'
  OBVIOUS
<1>1. CASE SetTotalFlows(8, 0) \/ SetTotalFlows(0, 32)
  BY <1>1, SetTotalFlowsSafe
<1>2. CASE SetFlowsTimeout(60)
  BY <1>2, SetFlowsTimeoutSafe
<1>3. ASSUME NEW kind \in {"regex", "ipset"}, NEW t \in Transports,
             NEW manager \in {Nothing, "manager"}, SetManager(kind, t, manager)
      PROVE  SetupInv'
  BY <1>3, SetManagerSafe DEF Managers
<1>4. ASSUME NEW t \in Transports, NEW set \in BOOLEAN, SetDatabaseAdaptor(t, set)
      PROVE  SetupInv'
  BY <1>4, SetDatabaseAdaptorSafe
<1>5. ASSUME NEW layer \in Layers, NEW tuple \in Tuples,
             NEW tag \in IF stack = "virtual" THEN {1, 2} ELSE {0},
             NEW asks \in BOOLEAN, NewFlow(layer, tuple, tag, asks)
      PROVE  SetupInv'
  BY <1>5, NewFlowSafe
<1>6. ASSUME NEW f \in flows, NEW asks \in BOOLEAN, MorePackets(f, asks) PROVE SetupInv'
  BY <1>6, MorePacketsSafe
<1>7. ASSUME NEW f \in flows, FlowTimesOut(f) \/ TCPCloses(f) PROVE SetupInv'
  BY <1>7, FlowEndsSafe DEF FlowTimesOut, TCPCloses
<1>8. ASSUME NEW names, ReleaseCache(names) PROVE SetupInv'
  BY <1>8, ReleaseCacheSafe
<1>9. CASE UNCHANGED setupVars
  <2>1. UNCHANGED <<stack, made, timeout, rules, wanted, adaptor, flows, free, rows, stray,
                    followed, calls>>
    BY <1>9 DEF setupVars
  <2>2. RulesReach' /\ Pooled' = Pooled /\ Layers' = Layers
    BY <2>1, RulesAlone
  <2>3. FlowsTyped' /\ (stack' # "oflow" => Accounted(free, flows, made.infos)')
    BY <2>1, FlowsAlone
  <2>4. SetupTyped'
    BY <2>1, <2>2 DEF SetupInv, SetupTyped, SetupTypeOK
  <2> QED
    BY <2>2, <2>3, <2>4 DEF SetupInv
<1> QED
  BY <1>1, <1>2, <1>3, <1>4, <1>5, <1>6, <1>7, <1>8, <1>9 DEF SetupNext

\* StackLan.cc and its like, setFlowsTimeout to setUDPIPSetManager; Cache.h and
\* CacheManager::releaseFlow: what the user sets reaches the layer over which the
\* applications are, and no info of a pool is lost but on StackOpenFlow.
THEOREM SettingsReachAlways == SetupSpec => []SettingsReach
<1>1. SetupInv => SettingsReach
  BY DEF SetupInv, SetupTyped, RulesReach, Accounted, HoldersIn, SettingsReach
<1> QED
  BY <1>1, InitSetup, SetupStep, PTL DEF SetupSpec

-----------------------------------------------------------------------------
(***************************************************************************)
(* The rows of the databases                                               *)
(***************************************************************************)

\* getProtocol depends on the stack alone.
LEMMA ProtocolKept ==
  ASSUME UNCHANGED stack, NEW t
  PROVE  GetProtocol(t)' = GetProtocol(t)
BY DEF GetProtocol, Class, SelectInSeq

\* No two layers of a transport write to its database.
LEMMA OneWriter ==
  ASSUME SetupInv, RowsInv, NEW layer \in adaptor
  PROVE  /\ layer \in Layers
         /\ layer \in GetProtocol(TransportOf(layer))
         /\ \A other \in adaptor : TransportOf(other) = TransportOf(layer) => other = layer
<1>1. stack \in Stacks
  BY DEF SetupInv, SetupTyped, SetupTypeOK
<1>2. \A other \in adaptor : \E t \in Transports : other \in GetProtocol(t)
  BY DEF RowsInv
<1>3. \A other \in adaptor : other \in Layers /\ other \in GetProtocol(TransportOf(other))
  BY <1>1, <1>2, ProtocolFound
<1>4. \A other \in adaptor : TransportOf(other) = TransportOf(layer) => other = layer
  BY <1>1, <1>3, TransportType, ProtocolFound
<1> QED
  BY <1>3, <1>4

\* What a step that tells no database leaves.
LEMMA RowsAlone ==
  ASSUME RowsInv, UNCHANGED <<stack, adaptor, followed, flows, rows, stray>>
  PROVE  RowsInv'
<1>1. \A t : GetProtocol(t)' = GetProtocol(t)
  BY ProtocolKept
<1>2. \A layer : Heard(layer)' = Heard(layer)
  BY DEF Heard
<1> QED
  BY <1>1, <1>2 DEF RowsInv

\* A layer is followed from the moment on at which it gets a fresh database and has
\* no flow; the other ones keep theirs.
LEMMA SetDatabaseAdaptorRows ==
  ASSUME SetupInv, RowsInv, NEW t \in Transports, NEW set \in BOOLEAN,
         SetDatabaseAdaptor(t, set)
  PROVE  RowsInv'
<1>1. UNCHANGED <<stack, flows, rows, stray>>
  BY DEF SetDatabaseAdaptor, Set
<1>2. PICK layer \in GetProtocol(t) :
        /\ adaptor' = AdaptorOf(layer, set)
        /\ followed' = IF set /\ rows[t] = {} /\ t \notin stray
                          /\ \A f \in flows : f.layer # layer
                       THEN followed \cup {layer} ELSE followed \ {layer}
  BY DEF SetDatabaseAdaptor
<1>3. TransportOf(layer) = t
  BY ProtocolFound DEF SetupInv, SetupTyped, SetupTypeOK
<1>4. adaptor' \subseteq adaptor \cup {layer}
  BY <1>2 DEF AdaptorOf
<1>5. (adaptor \subseteq UNION {GetProtocol(u) : u \in Transports})'
  <2>1. \A u : GetProtocol(u)' = GetProtocol(u)
    BY <1>1, ProtocolKept
  <2> QED
    BY <1>4, <2>1 DEF RowsInv
<1>6. followed' \subseteq adaptor'
  BY <1>2 DEF AdaptorOf, RowsInv
<1>7. ASSUME NEW other \in followed'
      PROVE  /\ TuplesUnique(flows, other)
             /\ Heard(other) => /\ rows[TransportOf(other)] = TuplesOf(flows, other)
                                /\ TransportOf(other) \notin stray
  <2>1. CASE other \in followed
    BY <2>1 DEF RowsInv
  <2>2. CASE other \notin followed
    <3>1. other = layer /\ rows[t] = {} /\ t \notin stray /\ \A f \in flows : f.layer # layer
      BY <1>2, <2>2
    <3>2. TuplesOf(flows, other) = {}
      BY <3>1 DEF TuplesOf
    <3> QED
      BY <1>3, <3>1, <3>2 DEF TuplesUnique
  <2> QED
    BY <2>1, <2>2
<1>8. \A other : Heard(other)' = Heard(other)
  BY <1>1 DEF Heard
<1> QED
  BY <1>1, <1>5, <1>6, <1>7, <1>8 DEF RowsInv

\* What is left to show of a step of the flows.
LEMMA FlowsRows ==
  ASSUME RowsInv, UNCHANGED <<stack, adaptor>>, followed' \subseteq followed,
         \A layer \in followed' :
           /\ TuplesUnique(flows', layer)
           /\ Heard(layer) => /\ rows'[TransportOf(layer)] = TuplesOf(flows', layer)
                              /\ TransportOf(layer) \notin stray'
  PROVE  RowsInv'
<1>1. \A t : GetProtocol(t)' = GetProtocol(t)
  BY ProtocolKept
<1>2. \A layer : Heard(layer)' = Heard(layer)
  BY DEF Heard
<1> QED
  BY <1>1, <1>2 DEF RowsInv

\* A new flow gets a row; one whose five-tuple has a row already is followed no more.
LEMMA NewFlowRows ==
  ASSUME SetupInv, RowsInv, NEW layer \in Layers, NEW tuple \in Tuples, NEW tag,
         NEW asks \in BOOLEAN, NewFlow(layer, tuple, tag, asks)
  PROVE  RowsInv'
<1>1. /\ UNCHANGED <<stack, adaptor>>
      /\ followed' = IF \E g \in flows : g.layer = layer /\ g.tuple = tuple
                     THEN followed \ {layer} ELSE followed
      /\ \E f : f.layer = layer /\ f.tuple = tuple /\ flows' = flows \cup {f}
  BY DEF NewFlow
<1>2. PICK f : f.layer = layer /\ f.tuple = tuple /\ flows' = flows \cup {f}
  BY <1>1
<1>3. /\ \A u \in Transports :
           rows'[u] = IF u = TransportOf(layer) /\ layer \in adaptor THEN rows[u] \cup {tuple}
                      ELSE rows[u]
      /\ stray' = stray
  <2>1. SetupTypeOK
    BY DEF SetupInv, SetupTyped
  <2> QED
    BY <2>1, NewFlowTold
<1>4. ASSUME NEW other \in followed'
      PROVE  /\ TuplesUnique(flows', other)
             /\ Heard(other) => /\ rows'[TransportOf(other)] = TuplesOf(flows', other)
                                /\ TransportOf(other) \notin stray'
  <2>1. /\ other \in followed /\ other \in adaptor /\ TuplesUnique(flows, other)
        /\ Heard(other) => /\ rows[TransportOf(other)] = TuplesOf(flows, other)
                           /\ TransportOf(other) \notin stray
    BY <1>1 DEF RowsInv
  <2>2. TransportOf(other) \in Transports
    BY TransportType
  <2>3. CASE other = layer
    <3>1. \A g \in flows : g.layer = layer => g.tuple # tuple
      BY <1>1, <2>3
    <3>2. TuplesUnique(flows', other)
      BY <1>2, <2>1, <2>3, <3>1 DEF TuplesUnique
    <3>3. TuplesOf(flows', other) = TuplesOf(flows, other) \cup {tuple}
      BY <1>2, <2>3 DEF TuplesOf
    <3>4. rows'[TransportOf(other)] = rows[TransportOf(other)] \cup {tuple}
      BY <1>3, <2>1, <2>2, <2>3
    <3> QED
      BY <1>3, <2>1, <3>2, <3>3, <3>4
  <2>4. CASE other # layer
    <3>1. TuplesUnique(flows', other)
      BY <1>2, <2>1, <2>4 DEF TuplesUnique
    <3>2. TuplesOf(flows', other) = TuplesOf(flows, other)
      BY <1>2, <2>4 DEF TuplesOf
    <3>3. TransportOf(other) = TransportOf(layer) => layer \notin adaptor
      BY <2>1, <2>4, OneWriter
    <3>4. rows'[TransportOf(other)] = rows[TransportOf(other)]
      BY <1>3, <2>2, <3>3
    <3> QED
      BY <1>3, <2>1, <3>1, <3>2, <3>4
  <2> QED
    BY <2>3, <2>4
<1> QED
  BY <1>1, <1>4, FlowsRows

\* The flow whose packets go on keeps its row.
LEMMA MorePacketsRows ==
  ASSUME SetupInv, RowsInv, NEW f \in flows, NEW asks \in BOOLEAN, MorePackets(f, asks)
  PROVE  RowsInv'
<1> DEFINE infos == Taken(free, AppInfoOf(f.layer, asks) \ f.infos)
           g == [f EXCEPT !.packets = (@ + 1) % Sampling, !.infos = @ \cup infos]
<1>1. UNCHANGED <<stack, adaptor, followed>> /\ flows' = (flows \ {f}) \cup {g}
  BY DEF MorePackets
<1>2. f \in FlowRecords
  BY DEF SetupInv, FlowsTyped
<1>3. g.layer = f.layer /\ g.tuple = f.tuple
  BY <1>2 DEF FlowRecords
<1> HIDE DEF infos, g
<1>4. /\ rows' = rows
      /\ \A u \in Transports : u # TransportOf(f.layer) => (u \in stray' <=> u \in stray)
      /\ (f.layer \in adaptor => f.tuple \in rows[TransportOf(f.layer)]) => stray' = stray
  <2>1. SetupTypeOK
    BY DEF SetupInv, SetupTyped
  <2> QED
    BY <2>1, MorePacketsTold
<1>5. ASSUME NEW other \in followed'
      PROVE  /\ TuplesUnique(flows', other)
             /\ Heard(other) => /\ rows'[TransportOf(other)] = TuplesOf(flows', other)
                                /\ TransportOf(other) \notin stray'
  <2>1. /\ other \in followed /\ other \in adaptor /\ TuplesUnique(flows, other)
        /\ Heard(other) => /\ rows[TransportOf(other)] = TuplesOf(flows, other)
                           /\ TransportOf(other) \notin stray
    BY <1>1 DEF RowsInv
  <2>2. TransportOf(other) \in Transports
    BY TransportType
  <2>3. TuplesUnique(flows', other)
    BY <1>1, <1>3, <2>1 DEF TuplesUnique
  <2>4. TuplesOf(flows', other) = TuplesOf(flows, other)
    BY <1>1, <1>3 DEF TuplesOf
  <2>5. ASSUME Heard(other) PROVE TransportOf(other) \notin stray'
    <3>1. CASE other = f.layer
      <4>1. f.tuple \in rows[TransportOf(f.layer)]
        BY <2>1, <2>5, <3>1 DEF TuplesOf
      <4> QED
        BY <1>4, <2>1, <2>5, <4>1
    <3>2. CASE other # f.layer /\ TransportOf(other) = TransportOf(f.layer)
      <4>1. f.layer \notin adaptor
        BY <2>1, <3>2, OneWriter
      <4> QED
        BY <1>4, <2>1, <2>5, <4>1
    <3>3. CASE TransportOf(other) # TransportOf(f.layer)
      BY <1>4, <2>1, <2>2, <2>5, <3>3
    <3> QED
      BY <3>1, <3>2, <3>3
  <2> QED
    BY <1>4, <2>1, <2>3, <2>4, <2>5
<1> QED
  BY <1>1, <1>5, FlowsRows

\* At the end of a flow its layer tells the database, unless nobody hears of it.
LEMMA FlowEndsRows ==
  ASSUME SetupInv, RowsInv, NEW f \in flows, NEW teller, FlowEnds(f, teller),
         teller = IF Heard(f.layer) THEN f.layer ELSE Nothing
  PROVE  RowsInv'
<1>1. UNCHANGED <<stack, adaptor, followed>> /\ flows' = flows \ {f}
  BY DEF FlowEnds
<1>2. /\ \A u \in Transports :
           rows'[u] = IF u = TransportOf(f.layer) /\ teller \in adaptor
                      THEN rows[u] \ {f.tuple} ELSE rows[u]
      /\ \A u \in Transports : u # TransportOf(f.layer) => (u \in stray' <=> u \in stray)
      /\ (teller \in adaptor => f.tuple \in rows[TransportOf(f.layer)]) => stray' = stray
  <2>1. SetupTypeOK
    BY DEF SetupInv, SetupTyped
  <2> QED
    BY <2>1, FlowEndsTold
<1>3. Nothing \notin adaptor
  <2>1. Nothing \notin Layers
    BY PartsOfStacks DEF Nothing, SetupInv, SetupTyped, SetupTypeOK
  <2> QED
    BY <2>1 DEF SetupInv, SetupTyped, SetupTypeOK
<1>4. ASSUME NEW other \in followed'
      PROVE  /\ TuplesUnique(flows', other)
             /\ Heard(other) => /\ rows'[TransportOf(other)] = TuplesOf(flows', other)
                                /\ TransportOf(other) \notin stray'
  <2>1. /\ other \in followed /\ other \in adaptor /\ TuplesUnique(flows, other)
        /\ Heard(other) => /\ rows[TransportOf(other)] = TuplesOf(flows, other)
                           /\ TransportOf(other) \notin stray
    BY <1>1 DEF RowsInv
  <2>2. TransportOf(other) \in Transports
    BY TransportType
  <2>3. TuplesUnique(flows', other)
    BY <1>1, <2>1 DEF TuplesUnique
  <2>4. CASE other = f.layer
    <3> SUFFICES ASSUME Heard(other)
                 PROVE  /\ rows'[TransportOf(other)] = TuplesOf(flows', other)
                        /\ TransportOf(other) \notin stray'
      BY <2>3
    <3>1. teller = other /\ teller \in adaptor
      BY <2>1, <2>4
    <3>2. f.tuple \in TuplesOf(flows, other)
      BY <2>4 DEF TuplesOf
    <3>3. TuplesOf(flows', other) = TuplesOf(flows, other) \ {f.tuple}
      BY <1>1, <2>1, <2>4 DEF TuplesOf, TuplesUnique
    <3> QED
      BY <1>2, <2>1, <2>2, <2>4, <3>1, <3>2, <3>3
  <2>5. CASE other # f.layer
    <3>1. TuplesOf(flows', other) = TuplesOf(flows, other)
      BY <1>1, <2>5 DEF TuplesOf
    <3>2. TransportOf(other) = TransportOf(f.layer) => teller \notin adaptor
      BY <1>3, <2>1, <2>5, OneWriter
    <3>3. TransportOf(other) \in stray' <=> TransportOf(other) \in stray
      BY <1>2, <2>2, <3>2
    <3>4. rows'[TransportOf(other)] = rows[TransportOf(other)]
      BY <1>2, <2>2, <3>2
    <3> QED
      BY <2>1, <2>3, <3>1, <3>3, <3>4
  <2> QED
    BY <2>4, <2>5
<1> QED
  BY <1>1, <1>4, FlowsRows

\* The flows that give back their infos keep their rows.
LEMMA ReleaseCacheRows ==
  ASSUME SetupInv, RowsInv, NEW names, ReleaseCache(names)
  PROVE  RowsInv'
<1> DEFINE protocols == UNION {GetProtocol(name) : name \in names}
           walked(f) == f.infos \cap protocols \cap Tables[f.layer].walkers
           map(f) == [f EXCEPT !.infos = @ \ walked(f)]
<1>1. /\ UNCHANGED <<stack, adaptor, followed, rows, stray>>
      /\ flows' = {map(f) : f \in flows}
  <2> HIDE DEF protocols
  <2> QED
    BY DEF ReleaseCache, protocols
<1>2. flows \subseteq FlowRecords
  BY DEF SetupInv, FlowsTyped
<1> HIDE DEF walked
<1>3. \A f \in flows : map(f).layer = f.layer /\ map(f).tuple = f.tuple
  BY <1>2 DEF FlowRecords
<1> HIDE DEF map
<1>4. ASSUME NEW layer \in followed'
      PROVE  /\ TuplesUnique(flows', layer)
             /\ TuplesOf(flows', layer) = TuplesOf(flows, layer)
  <2>1. TuplesUnique(flows, layer)
    BY <1>1, <1>4 DEF RowsInv
  <2>2. TuplesUnique(flows', layer)
    BY <1>1, <1>3, <2>1 DEF TuplesUnique
  <2>3. TuplesOf(flows', layer) = TuplesOf(flows, layer)
    BY <1>1, <1>3 DEF TuplesOf
  <2> QED
    BY <2>2, <2>3
<1> QED
  BY <1>1, <1>4, FlowsRows DEF RowsInv

\* Every step keeps what is known of the rows.
LEMMA RowsStep == SetupInv /\ RowsInv /\ [SetupNext]_setupVars => RowsInv'
<1> SUFFICES ASSUME SetupInv, RowsInv, [SetupNext]_setupVars PROVE RowsInv'
  OBVIOUS
<1>1. CASE UNCHANGED <<stack, adaptor, followed, flows, rows, stray>>
  BY <1>1, RowsAlone
<1>2. ASSUME NEW tcp, NEW udp, SetTotalFlows(tcp, udp) PROVE RowsInv'
  BY <1>1, <1>2 DEF SetTotalFlows, Set
<1>3. CASE SetFlowsTimeout(60)
  BY <1>1, <1>3 DEF SetFlowsTimeout, Set
<1>4. ASSUME NEW kind, NEW t, NEW manager, SetManager(kind, t, manager) PROVE RowsInv'
  BY <1>1, <1>4 DEF SetManager, Set
<1>5. ASSUME NEW t \in Transports, NEW set \in BOOLEAN, SetDatabaseAdaptor(t, set)
      PROVE  RowsInv'
  BY <1>5, SetDatabaseAdaptorRows
<1>6. ASSUME NEW layer \in Layers, NEW tuple \in Tuples, NEW tag, NEW asks \in BOOLEAN,
             NewFlow(layer, tuple, tag, asks)
      PROVE  RowsInv'
  BY <1>6, NewFlowRows
<1>7. ASSUME NEW f \in flows, NEW asks \in BOOLEAN, MorePackets(f, asks) PROVE RowsInv'
  BY <1>7, MorePacketsRows
<1>8. ASSUME NEW f \in flows, FlowTimesOut(f) PROVE RowsInv'
  <2>1. f.layer \in Layers
    BY DEF SetupInv, FlowsTyped, FlowRecords
  <2>2. Tables[f.layer].owner = IF Heard(f.layer) THEN f.layer ELSE Nothing
    BY <2>1, PartsOfStacks DEF Heard, SetupInv, SetupTyped, SetupTypeOK
  <2> QED
    BY <1>8, <2>2, FlowEndsRows DEF FlowTimesOut
<1>9. ASSUME NEW f \in flows, TCPCloses(f) PROVE RowsInv'
  <2>1. Heard(f.layer)
    BY <1>9 DEF Heard, TCPCloses, TransportOf
  <2> QED
    BY <1>9, <2>1, FlowEndsRows DEF TCPCloses
<1>10. ASSUME NEW names, ReleaseCache(names) PROVE RowsInv'
  BY <1>10, ReleaseCacheRows
<1>11. CASE UNCHANGED setupVars
  BY <1>1, <1>11 DEF setupVars
<1> QED
  BY <1>2, <1>3, <1>4, <1>5, <1>6, <1>7, <1>8, <1>9, <1>10, <1>11 DEF SetupNext

\* DatabaseAdaptor.h, insert, update and remove: a database that is there from the
\* first flow on has the flows of its layer, no more and no less, and is told to
\* update or remove only what it has.
THEOREM RowsFollowFlows == SetupSpec => []RowsOfFlows
<1>1. RowsInv => RowsOfFlows
  BY DEF RowsInv, RowsOfFlows, TuplesOf, Heard
<1> QED
  BY <1>1, InitSetup, SetupStep, RowsStep, PTL DEF SetupSpec
=============================================================================
