--------------------------- MODULE InspectionProofs ---------------------------
(***************************************************************************)
(* Proofs about the parts that look at payloads, answer rejected flows and *)
(* keep evidences: HTTP bodies, expressions, resets, the files of the      *)
(* evidences, the learner and the pools of the frequency engine; and about *)
(* the program that reports what they found.                               *)
(***************************************************************************)
EXTENDS HTTPData, TCPReject, RegexManager, EvidenceManager, LearnerEngine,
  FrequencyProtocol, Main, SharedLemmas

-----------------------------------------------------------------------------
(***************************************************************************)
(* HTTP: the engine is in step with the bodies of the messages.            *)
(***************************************************************************)

HTTPInfos == [dir : Sides \cup {"none"}, have : BOOLEAN, chunk : Nat]
HTTPPackets == [from : Sides, cl : Nat, head : Nat, data : Nat]

\* The engine waits for n bytes.
Waits(i, n) == i.chunk = n /\ (i.have <=> n > 0)

\* In step, whatever the direction the engine last heard of.
HTTPInv ==
  /\ info \in HTTPInfos
  /\ sender \in Sides /\ left \in Nat /\ clean \in BOOLEAN
  /\ clean => Waits(info, left)

\* A packet with a body, or a piece of one, of some bytes takes as much from
\* what the engine waits for.
LEMMA TakenInStep ==
  ASSUME NEW i \in HTTPInfos, NEW n \in Nat, Waits(i, n), NEW bytes \in 0 .. n, NEW dir
  PROVE  Waits([IF i.have THEN Taken(i, bytes) ELSE i EXCEPT !.dir = dir], n - bytes)
<1> DEFINE j == [IF i.have THEN Taken(i, bytes) ELSE i EXCEPT !.dir = dir]
<1>0. i.chunk = n /\ i.chunk \in Nat /\ bytes \in Nat /\ n - bytes \in Nat
  BY DEF Waits
<1>1. CASE n > bytes
  <2>1. i.have
    BY <1>0, <1>1 DEF Waits
  <2>2. Taken(i, bytes) = [i EXCEPT !.chunk = n - bytes]
    BY <1>0, <1>1 DEF Taken
  <2>3. j.chunk = n - bytes /\ j.have
    BY <2>1, <2>2 DEF HTTPInfos
  <2>4. n - bytes > 0
    BY <1>0, <1>1
  <2> HIDE DEF j
  <2>5. Waits(j, n - bytes)
    BY <2>3, <2>4 DEF Waits
  <2> QED
    BY <2>5 DEF j
<1>2. CASE n = bytes /\ i.have
  <2>1. Taken(i, bytes) = [i EXCEPT !.chunk = 0, !.have = FALSE]
    BY <1>0, <1>2 DEF Taken
  <2>2. j.chunk = 0 /\ ~j.have
    BY <1>2, <2>1 DEF HTTPInfos
  <2> QED
    BY <1>0, <1>2, <2>2 DEF Waits
<1>3. CASE ~i.have
  <2>1. n = 0 /\ bytes = 0
    BY <1>3 DEF Waits
  <2>2. j.chunk = i.chunk /\ (j.have <=> i.have)
    BY <1>3 DEF HTTPInfos
  <2> QED
    BY <1>0, <1>3, <2>1, <2>2 DEF Waits
<1> QED
  BY <1>0, <1>1, <1>2, <1>3

\* What the engine does with a packet whose Content-Length is `cl`, if it is
\* not taken for a part of the body before it.
LEMMA ParsedInStep ==
  ASSUME NEW i \in HTTPInfos, NEW packet \in HTTPPackets,
         packet.cl = 0 => Waits(i, 0)
  PROVE  Parsed(i, packet) \in HTTPInfos /\ Waits(Parsed(i, packet), packet.cl)
<1>1. CASE packet.cl = 0
  BY <1>1 DEF Parsed
<1>2. CASE packet.cl # 0
  <2>1. Parsed(i, packet) = [i EXCEPT !.have = TRUE, !.chunk = packet.cl]
    BY <1>2 DEF Parsed
  <2>2. packet.cl \in Nat /\ packet.cl > 0
    BY <1>2 DEF HTTPPackets
  <2> QED
    BY <2>1, <2>2 DEF HTTPInfos, Waits
<1> QED
  BY <1>1, <1>2

\* The types are kept by every packet, in step or not.
LEMMA ProcessHTTPFlowTypes ==
  ASSUME info \in HTTPInfos, NEW packet \in HTTPPackets, ProcessHTTPFlow(packet)
  PROVE  info' \in HTTPInfos
<1> DEFINE same == info.dir = packet.from
           i == IF same THEN info ELSE Parsed(info, packet)
           bytes == IF same THEN packet.head + packet.data ELSE packet.data
<1>1. info' = [IF i.have THEN Taken(i, bytes) ELSE i EXCEPT !.dir = packet.from]
  BY DEF ProcessHTTPFlow
<1>2. /\ packet.cl \in Nat /\ packet.head \in Nat /\ packet.data \in Nat
      /\ packet.from \in Sides \cup {"none"}
  BY DEF HTTPPackets
<1>3. bytes \in Nat
  BY <1>2
<1>4. Parsed(info, packet) \in HTTPInfos
  <2>1. [info EXCEPT !.have = TRUE, !.chunk = packet.cl] \in HTTPInfos
    BY <1>2 DEF HTTPInfos
  <2> QED
    BY <2>1 DEF Parsed
<1>5. i \in HTTPInfos
  BY <1>4
<1> HIDE DEF same, i, bytes
<1>6. Taken(i, bytes) \in HTTPInfos
  <2>1. i.chunk - bytes > 0 => [i EXCEPT !.chunk = i.chunk - bytes] \in HTTPInfos
    BY <1>3, <1>5 DEF HTTPInfos
  <2>2. [i EXCEPT !.chunk = 0, !.have = FALSE] \in HTTPInfos
    BY <1>5 DEF HTTPInfos
  <2> QED
    BY <2>1, <2>2 DEF Taken
<1> DEFINE j == IF i.have THEN Taken(i, bytes) ELSE i
<1>7. j \in HTTPInfos
  BY <1>5, <1>6
<1> HIDE DEF j
<1>8. [j EXCEPT !.dir = packet.from] \in HTTPInfos
  BY <1>2, <1>7 DEF HTTPInfos
<1> QED
  BY <1>1, <1>8 DEF j

\* A flow begins with a header to come.
LEMMA HTTPInvInit == HTTPInit => HTTPInv
BY DEF HTTPInit, HTTPInv, HTTPInfos, Waits, Sides

\* Headers, bodies and their pieces, in any order and of any length.
LEMMA HTTPInvStep == HTTPInv /\ [HTTPNext]_httpVars => HTTPInv'
<1> SUFFICES ASSUME HTTPInv, [HTTPNext]_httpVars PROVE HTTPInv'
  OBVIOUS
<1>0. /\ info \in HTTPInfos /\ sender \in Sides /\ left \in Nat /\ Header \in Nat
      /\ clean => Waits(info, left)
  BY HTTPDataAssumption DEF HTTPInv
<1>side. Other(sender) \in Sides
  BY <1>0 DEF Other, Sides
<1>1. ASSUME NEW side \in Sides, NEW cl \in ContentLengths \cup {0}, NEW data \in 0 .. cl,
             Message(side, cl, data)
      PROVE  HTTPInv'
  <2>1. cl \in Nat /\ data \in Nat /\ cl - data \in Nat
    BY HTTPDataAssumption
  <2> DEFINE packet == [from |-> side, cl |-> cl, head |-> Header, data |-> data]
             i == Parsed(info, packet)
  <2>2. ProcessHTTPFlow(packet) /\ packet \in HTTPPackets
    BY <1>0, <1>1, <2>1 DEF Message, HTTPPackets
  <2>3. /\ left = 0 /\ sender' = side /\ left' = cl - data
        /\ clean' = (info.dir # side /\ (clean \/ cl > 0))
    BY <1>1 DEF Message
  <2>4. info' \in HTTPInfos
    BY <1>0, <2>2, ProcessHTTPFlowTypes
  <2>5. ASSUME clean' PROVE Waits(info', cl - data)
    <3>1. info.dir # side /\ (clean \/ cl > 0)
      BY <2>3, <2>5
    <3>2. info' = [IF i.have THEN Taken(i, data) ELSE i EXCEPT !.dir = side]
      BY <2>2, <3>1 DEF ProcessHTTPFlow
    <3>3. packet.cl = cl /\ (packet.cl = 0 => Waits(info, 0))
      BY <1>0, <2>3, <3>1
    <3> HIDE DEF packet
    <3>4. i \in HTTPInfos /\ Waits(i, cl)
      BY <1>0, <2>2, <3>3, ParsedInStep
    <3> HIDE DEF i
    <3> QED
      BY <2>1, <3>2, <3>4, TakenInStep
  <2> QED
    BY <2>1, <2>3, <2>4, <2>5 DEF HTTPInv
<1>2. ASSUME NEW side \in Sides, NEW cl \in ContentLengths \cup {0}, SplitMessage(side, cl)
      PROVE  HTTPInv'
  <2> DEFINE packet == [from |-> side, cl |-> 0, head |-> Header, data |-> 0]
  <2>1. ProcessHTTPFlow(packet) /\ packet \in HTTPPackets /\ cl \in Nat
    BY <1>0, <1>2, HTTPDataAssumption DEF SplitMessage, HTTPPackets
  <2>2. info' \in HTTPInfos
    BY <1>0, <2>1, ProcessHTTPFlowTypes
  <2> QED
    BY <1>2, <2>1, <2>2 DEF SplitMessage, HTTPInv
<1>3. ASSUME NEW cl \in ContentLengths, NEW data \in 1 .. cl, Body(data)
      PROVE  HTTPInv'
  <2>1. data \in Nat /\ data > 0 /\ left >= data /\ left - data \in Nat /\ data \in 0 .. left
    BY <1>0, <1>3, HTTPDataAssumption DEF Body
  <2> DEFINE packet == [from |-> sender, cl |-> 0, head |-> 0, data |-> data]
  <2>2. ProcessHTTPFlow(packet) /\ packet \in HTTPPackets
    BY <1>0, <1>3, <2>1 DEF Body, HTTPPackets
  <2>3. left' = left - data /\ sender' = sender /\ clean' = clean
    BY <1>3 DEF Body
  <2>4. info' \in HTTPInfos
    BY <1>0, <2>2, ProcessHTTPFlowTypes
  <2>5. ASSUME clean PROVE Waits(info', left - data)
    <3>1. info' = [IF info.have THEN Taken(info, data) ELSE info EXCEPT !.dir = sender]
      BY <2>1, <2>2 DEF ProcessHTTPFlow, Parsed
    <3> QED
      BY <1>0, <2>1, <2>5, <3>1, TakenInStep
  <2> QED
    BY <1>0, <2>1, <2>3, <2>4, <2>5 DEF HTTPInv
<1>4. ASSUME NEW cl \in ContentLengths, NEW data \in 1 .. cl, LoseBody(data)
      PROVE  HTTPInv'
  <2>1. left - data \in Nat
    BY <1>0, <1>4, HTTPDataAssumption DEF LoseBody
  <2> QED
    BY <1>0, <1>4, <2>1 DEF LoseBody, HTTPInv
<1>5. CASE Interim
  <2> DEFINE packet == [from |-> Other(sender), cl |-> 0, head |-> Header, data |-> 0]
  <2>2. ProcessHTTPFlow(packet) /\ packet \in HTTPPackets
    BY <1>0, <1>5, <1>side DEF Interim, HTTPPackets
  <2>3. /\ clean' = (clean /\ info.dir # Other(sender))
        /\ left' = left /\ sender' = sender
    BY <1>5 DEF Interim
  <2>4. info' \in HTTPInfos
    BY <1>0, <2>2, ProcessHTTPFlowTypes
  <2>5. ASSUME clean' PROVE Waits(info', left)
    <3>1. clean /\ info.dir # Other(sender)
      BY <2>3, <2>5
    <3>2. info' = [IF info.have THEN Taken(info, 0) ELSE info EXCEPT !.dir = Other(sender)]
      BY <2>2, <3>1 DEF ProcessHTTPFlow, Parsed
    <3>3. 0 \in 0 .. left /\ left - 0 = left
      BY <1>0
    <3>4. Waits(info', left - 0)
      BY <1>0, <3>1, <3>2, <3>3, TakenInStep
    <3> QED
      BY <3>3, <3>4
  <2> QED
    BY <1>0, <2>3, <2>4, <2>5 DEF HTTPInv
<1>6. CASE UNCHANGED httpVars
  BY <1>6 DEF httpVars, HTTPInv, Waits
<1> QED
  BY <1>1, <1>2, <1>3, <1>4, <1>5, <1>6 DEF HTTPNext

\* HTTPProtocol::processFlow: while nothing of a message is missed the engine
\* waits for exactly the bytes of the body that are still to come, and a header
\* with a length brings it back, for every Content-Length and every cut of the
\* messages into packets.
THEOREM BodiesInStep == HTTPSpec => []InStep
<1>1. HTTPInv => InStep
  BY DEF HTTPInv, HTTPInfos, Waits, InStep
<1> QED
  BY <1>1, HTTPInvInit, HTTPInvStep, PTL DEF HTTPSpec

-----------------------------------------------------------------------------
(***************************************************************************)
(* Resets: the numbers that computeState keeps are those of the wire.      *)
(***************************************************************************)

Directions == {"FORWARD", "BACKWARD"}

\* What ResetBelieved needs of the state, and what keeps it.
RejectInv ==
  /\ seq_num \in [Directions -> Numbers]
  /\ next \in [Ends -> Numbers \cup {-1}]
  /\ ~samePorts /\ "source" \in newest \ fins => seq_num["FORWARD"] = next["source"]

\* Sequence numbers are taken modulo the width of the field.
LEMMA NumberInNumbers == \A n \in Int : Number(n) \in Numbers
BY TCPRejectAssumption DEF Number, Numbers

\* Before the first segment the engine remembers nothing.
LEMMA RejectInvInit == RejectInit => RejectInv
BY TCPRejectAssumption DEF RejectInit, RejectInv, Directions, Numbers, Ends

\* A segment is seen, with its flag and its number.
LEMMA SeenKeeps ==
  ASSUME RejectInv, NEW end \in Ends, NEW flag, NEW seq \in Int, NEW bytes \in Nat,
         NEW length \in Nat, Seen(end, flag, seq, bytes, length),
         fins \subseteq fins',
         end = "source" => length = bytes + (IF flag = "SYN" THEN 1 ELSE 0) \/ end \in fins'
  PROVE  RejectInv'
<1> DEFINE number == Number(seq + (IF flag = "SYN" THEN 1 ELSE 0) + bytes)
<1>1. /\ seq_num' = [seq_num EXCEPT ![DirOf(end)] = number]
      /\ next' = [next EXCEPT ![end] = Number(seq + length)]
      /\ newest' = newest \cup {end} /\ samePorts' = samePorts
  BY DEF Seen, ComputeState
<1>2. number \in Numbers /\ Number(seq + length) \in Numbers
  BY NumberInNumbers
<1>3. DirOf(end) \in Directions /\ (~samePorts /\ end # "source" => DirOf(end) = "BACKWARD")
      /\ (end = "source" => DirOf(end) = "FORWARD")
  BY DEF DirOf, Directions
<1>4. end = "source" /\ "source" \notin fins' => number = Number(seq + length)
  BY DEF number
<1> HIDE DEF number
<1>5. seq_num' \in [Directions -> Numbers] /\ next' \in [Ends -> Numbers \cup {-1}]
  BY <1>1, <1>2, <1>3 DEF RejectInv
<1>6. ASSUME ~samePorts', "source" \in newest' \ fins'
      PROVE  seq_num'["FORWARD"] = next'["source"]
  <2>1. CASE end = "source"
    BY <1>1, <1>3, <1>4, <1>6, <2>1 DEF RejectInv, Directions, Ends
  <2>2. CASE end # "source"
    <3>1. seq_num'["FORWARD"] = seq_num["FORWARD"] /\ next'["source"] = next["source"]
      BY <1>1, <1>3, <1>6, <2>2 DEF RejectInv, Directions, Ends
    <3>2. "source" \in newest \ fins
      BY <1>1, <1>6, <2>2
    <3> QED
      BY <1>1, <1>6, <3>1, <3>2 DEF RejectInv
  <2> QED
    BY <2>1, <2>2
<1> QED
  BY <1>5, <1>6 DEF RejectInv

\* No segment, of either end, seen or not, parts the engine from the ends.
LEMMA RejectInvStep == RejectInv /\ [RejectNext]_rejectVars => RejectInv'
<1> SUFFICES ASSUME RejectInv, [RejectNext]_rejectVars PROVE RejectInv'
  OBVIOUS
<1>bytes. 0 .. MaxBytes \subseteq Nat /\ Numbers \subseteq Int /\ -1 \in Int
  BY TCPRejectAssumption DEF Numbers
<1>1. ASSUME NEW end \in Ends, NEW isn \in Numbers, Establish(end, isn) PROVE RejectInv'
  <2>1. Seen(end, IF end = "source" THEN "SYN" ELSE "SYNACK", isn, 0, 1) /\ fins' = fins
    BY <1>1 DEF Establish
  <2>2. CASE end = "source"
    <3>1. Seen(end, "SYN", isn, 0, 1)
      BY <2>1, <2>2
    <3>2. isn \in Int /\ 1 = 0 + (IF "SYN" = "SYN" THEN 1 ELSE 0)
      BY <1>bytes
    <3> QED
      BY <2>1, <3>1, <3>2, SeenKeeps
  <2>3. CASE end # "source"
    <3>1. Seen(end, "SYNACK", isn, 0, 1)
      BY <2>1, <2>3
    <3>2. isn \in Int
      BY <1>bytes
    <3> QED
      BY <2>1, <2>3, <3>1, <3>2, SeenKeeps
  <2> QED
    BY <2>2, <2>3
<1>2. ASSUME NEW end \in Ends, NEW bytes \in 0 .. MaxBytes, NEW fin \in BOOLEAN,
             Send(end, bytes, fin)
      PROVE  RejectInv'
  <2>0. bytes \in Nat /\ next[end] \in Int
    BY <1>bytes DEF RejectInv
  <2>1. CASE fin
    <3>1. Seen(end, "FIN", next[end], bytes, bytes + 1) /\ fins' = fins \cup {end}
      BY <1>2, <2>1 DEF Send
    <3>2. bytes + 1 \in Nat /\ fins \subseteq fins' /\ end \in fins'
      BY <2>0, <3>1
    <3> QED
      BY <2>0, <3>1, <3>2, SeenKeeps
  <2>2. CASE ~fin
    <3>1. Seen(end, "ACK", next[end], bytes, bytes + 0) /\ fins' = fins
      BY <1>2, <2>2 DEF Send
    <3>2. bytes + 0 \in Nat /\ bytes + 0 = bytes + (IF "ACK" = "SYN" THEN 1 ELSE 0)
      BY <2>0
    <3> QED
      BY <2>0, <3>1, <3>2, SeenKeeps
  <2> QED
    BY <2>1, <2>2
<1>3. ASSUME NEW end \in Ends, NEW bytes \in 0 .. MaxBytes, NEW seq \in Numbers,
             SendAgain(end, seq, bytes)
      PROVE  RejectInv'
  <2> DEFINE number == Number(seq + 0 + bytes)
  <2>1. /\ seq_num' = [seq_num EXCEPT ![DirOf(end)] = number]
        /\ next' = next /\ newest' = newest \ {end} /\ samePorts' = samePorts /\ fins' = fins
    BY <1>3 DEF SendAgain, ComputeState
  <2>2. number \in Numbers
    BY <1>bytes, NumberInNumbers
  <2>3. DirOf(end) \in Directions /\ (~samePorts /\ end # "source" => DirOf(end) = "BACKWARD")
    BY DEF DirOf, Directions
  <2> HIDE DEF number
  <2>4. ASSUME ~samePorts', "source" \in newest' \ fins'
        PROVE  seq_num'["FORWARD"] = next'["source"]
    <3>1. end # "source" /\ ~samePorts /\ "source" \in newest \ fins
      BY <2>1, <2>4
    <3>2. seq_num'["FORWARD"] = seq_num["FORWARD"]
      BY <2>1, <2>3, <3>1 DEF RejectInv, Directions
    <3> QED
      BY <2>1, <3>1, <3>2 DEF RejectInv
  <2>5. seq_num' \in [Directions -> Numbers]
    BY <2>1, <2>2, <2>3 DEF RejectInv
  <2> QED
    BY <2>1, <2>4, <2>5 DEF RejectInv
<1>4. CASE UNCHANGED rejectVars
  BY <1>4 DEF rejectVars, RejectInv
<1> QED
  BY <1>1, <1>2, <1>3, <1>4 DEF RejectNext

\* RejectManager, the resets: both ends are answered, each in the name of the
\* other, and the destination gets the number that it expects, whatever was
\* sent before and wherever the numbers wrap.
THEOREM ResetsReachDestination == RejectSpec => []ResetBelieved
<1>1. RejectInv => ResetBelieved
  <2> SUFFICES ASSUME RejectInv PROVE ResetBelieved
    OBVIOUS
  <2>1. PICK p, q : RejectTCPFlow = {RST("destination", seq_num["FORWARD"], p),
                                     RST("source", seq_num["FORWARD"], q)}
    BY DEF RejectTCPFlow, RejectTCPFlowLan, RejectTCPFlowLanIPv6
  <2> DEFINE one == RST("destination", seq_num["FORWARD"], p)
             two == RST("source", seq_num["FORWARD"], q)
  <2>2. /\ one.to = "source" /\ one.from = "destination" /\ one.endpoint = one.to
        /\ two.to = "destination" /\ two.from = "source" /\ two.endpoint = two.to
        /\ two.seq = seq_num["FORWARD"]
    BY DEF RST, Opposite
  <2>3. RejectTCPFlow = {one, two}
    BY <2>1
  <2> HIDE DEF one, two
  <2>4. {r.to : r \in RejectTCPFlow} = Ends
    BY <2>2, <2>3 DEF Ends
  <2>5. \A r \in RejectTCPFlow : r.endpoint = r.to /\ r.from # r.to
    BY <2>2, <2>3
  <2>6. \A r \in RejectTCPFlow : r.to = "destination" => r.seq = seq_num["FORWARD"]
    BY <2>2, <2>3
  <2> QED
    BY <2>4, <2>5, <2>6 DEF ResetBelieved, RejectInv
<1> QED
  BY <1>1, RejectInvInit, RejectInvStep, PTL DEF RejectSpec

-----------------------------------------------------------------------------
(***************************************************************************)
(* Expressions: what matches in a flow is a chain of the configuration.    *)
(***************************************************************************)

\* What a flow waits for: a first match, a match of the manager that the last
\* expression leads to, or whatever follows the last expression.
Pending(f) ==
  IF path[f] = <<>>
  THEN flow[f].regex = NoOne /\ (flow[f].packets # 0 => flow[f].mng = StartManager(f))
  ELSE LET last == path[f][Len(path[f])]
       IN /\ flow[f].packets # 0
          /\ IF conf.nextMng[last] = NoOne THEN flow[f].regex = last
             ELSE flow[f].regex = NoOne /\ flow[f].mng = conf.nextMng[last]

FlowStates == [packets : Nat, mng : Managers \cup {NoOne}, regex : Regexes \cup {NoOne}]

\* The chain so far, and the expressions that the next payload is held against.
RegexInv ==
  /\ Configured(conf)
  /\ flow \in [RegexFlows -> FlowStates]
  /\ path \in [RegexFlows -> Seq(Regexes)]
  /\ \A f \in RegexFlows \ conf.host : Pending(f)
  /\ ChainFollowed

\* RegexManager::evaluate gives an expression of its own list, if any.
LEMMA EvaluateInList ==
  ASSUME Configured(conf), NEW m \in Managers, NEW payload
  PROVE  LET r == Evaluate(m, payload)
         IN r # NoOne => r \in Range(conf.sigs[m]) /\ r \in Regexes
<1> DEFINE s == conf.sigs[m]
           hits == {i \in DOMAIN s : Matches(s[i], payload)}
<1>1. s \in Seq(Regexes)
  BY DEF Configured
<1>2. Evaluate(m, payload) = IF hits = {} THEN NoOne ELSE s[Min(hits)]
  BY DEF Evaluate
<1> HIDE DEF s
<1>3. DOMAIN s = 1 .. Len(s) /\ Len(s) \in Nat
  BY <1>1, LenProperties
<1>4. CASE hits # {}
  <2>1. hits \in SUBSET Nat
    BY <1>3
  <2>2. Min(hits) \in hits
    <3> HIDE DEF hits
    <3> QED
      BY <1>4, <2>1, MinIsLeast
  <2>3. Min(hits) \in 1 .. Len(s)
    BY <1>3, <2>2
  <2>4. s[Min(hits)] \in Regexes /\ s[Min(hits)] \in Range(s)
    BY <1>1, <1>3, <2>3, ElementOfSeq DEF Range
  <2> HIDE DEF hits
  <2> QED
    BY <1>2, <1>4, <2>4 DEF s
<1>5. CASE hits = {}
  BY <1>2, <1>5
<1> QED
  BY <1>4, <1>5

\* The manager that a flow begins with is one.
LEMMA StartIsManager ==
  ASSUME Configured(conf), NEW f
  PROVE  StartManager(f) \in Managers
<1> DEFINE hits == {i \in DOMAIN IPSets : f \in conf.within[IPSets[i]]}
<1>1. IPSets \in Seq(Range(IPSets)) /\ NoOne \notin Range(IPSets)
  BY RegexAssumption
<1>2. DOMAIN IPSets = 1 .. Len(IPSets) /\ Len(IPSets) \in Nat
  BY <1>1, LenProperties
<1>3. MatchedSet(f) = IF hits = {} THEN NoOne ELSE IPSets[Min(hits)]
  BY DEF MatchedSet
<1>4. MatchedSet(f) # NoOne => MatchedSet(f) \in Range(IPSets)
  <2>1. hits \in SUBSET Nat
    BY <1>2
  <2>2. hits # {} => Min(hits) \in hits
    <3> HIDE DEF hits
    <3> QED
      BY <2>1, MinIsLeast
  <2>3. hits # {} => Min(hits) \in 1 .. Len(IPSets)
    BY <1>2, <2>2
  <2> HIDE DEF hits
  <2>4. hits # {} => IPSets[Min(hits)] \in Range(IPSets)
    BY <1>1, <2>3, ElementOfSeq
  <2> QED
    BY <1>3, <2>4
<1> QED
  BY <1>4 DEF StartManager, Configured

\* A configuration gives every expression what may follow it.
LEMMA FollowersTyped ==
  ASSUME Configured(conf), NEW r \in Regexes
  PROVE  /\ conf.next[r] \in Regexes \cup {NoOne}
         /\ conf.nextMng[r] \in Managers \cup {NoOne}
BY DEF Configured

\* Nothing has matched before the first payload.
LEMMA RegexInvInit == RegexInit => RegexInv
<1> SUFFICES ASSUME RegexInit PROVE RegexInv
  OBVIOUS
<1>1. /\ Configured(conf)
      /\ flow = [f \in RegexFlows |-> [packets |-> 0, mng |-> NoOne, regex |-> NoOne]]
      /\ path = [f \in RegexFlows |-> <<>>]
  BY DEF RegexInit, FlowsInit
<1>2. \A f \in RegexFlows : path[f] = <<>> /\ flow[f].regex = NoOne /\ flow[f].packets = 0
  BY <1>1
<1>3. flow \in [RegexFlows -> FlowStates] /\ path \in [RegexFlows -> Seq(Regexes)]
  BY <1>1, EmptySeq DEF FlowStates
<1>4. \A f \in RegexFlows : 1 .. Len(path[f]) = {}
  BY <1>2, EmptySeq
<1> QED
  BY <1>1, <1>2, <1>3, <1>4 DEF RegexInv, Pending, ChainFollowed

\* An expression is where a chain that ended with the last match may go on.
Follows(f, r) ==
  IF path[f] = <<>> THEN r \in Range(conf.sigs[StartManager(f)])
  ELSE LET last == path[f][Len(path[f])]
       IN IF conf.nextMng[last] # NoOne THEN r \in Range(conf.sigs[conf.nextMng[last]])
          ELSE conf.next[last] = r

\* What matches in a flow, if anything, is an expression, and follows the chain
\* of the flow.
LEMMA MatchedFollows ==
  ASSUME RegexInv, NEW f \in RegexFlows, NEW payload \in SUBSET Regexes
  PROVE  LET fl == Received(f)
             r == Matched(fl, IF f \in conf.host THEN conf.hostMng ELSE fl.mng, payload)
         IN /\ fl \in FlowStates /\ fl.packets # 0 /\ fl.regex = flow[f].regex
            /\ flow[f].packets # 0 => fl.mng = flow[f].mng
            /\ flow[f].packets = 0 => fl.mng = StartManager(f)
            /\ r # NoOne => r \in Regexes /\ (f \notin conf.host => Follows(f, r))
<1> DEFINE fl == Received(f)
           m == IF f \in conf.host THEN conf.hostMng ELSE fl.mng
           r == Matched(fl, m, payload)
           last == path[f][Len(path[f])]
<1>1. Configured(conf) /\ flow[f] \in FlowStates /\ path[f] \in Seq(Regexes)
  BY DEF RegexInv
<1>2. StartManager(f) \in Managers
  BY <1>1, StartIsManager
<1>3. /\ fl \in FlowStates /\ fl.packets # 0 /\ fl.regex = flow[f].regex
      /\ flow[f].packets # 0 => fl.mng = flow[f].mng
      /\ flow[f].packets = 0 => fl.mng = StartManager(f)
  <2> DEFINE g == flow[f]
             mng == IF g.packets = 0 THEN StartManager(f) ELSE g.mng
  <2>1. fl = [g EXCEPT !.packets = g.packets + 1, !.mng = mng]
    BY <1>1 DEF Received, FlowStates
  <2>2. g \in FlowStates /\ mng \in Managers \cup {NoOne}
    BY <1>1, <1>2 DEF FlowStates
  <2> HIDE DEF g, mng, fl
  <2>3. g.packets \in Nat /\ g.packets + 1 \in Nat /\ g.packets + 1 # 0
    BY <2>2 DEF FlowStates
  <2>4. fl = [packets |-> g.packets + 1, mng |-> mng, regex |-> g.regex]
    BY <2>1, <2>2 DEF FlowStates
  <2>5. fl \in FlowStates /\ fl.packets # 0 /\ fl.regex = g.regex /\ fl.mng = mng
    BY <2>2, <2>3, <2>4 DEF FlowStates
  <2> QED
    BY <2>5 DEF g, mng
<1>4. f \notin conf.host => Pending(f)
  BY DEF RegexInv
<1>5. path[f] # <<>> => last \in Regexes
  <2>1. Len(path[f]) \in Nat /\ (path[f] # <<>> => Len(path[f]) # 0)
    BY <1>1, LenProperties, EmptySeq
  <2>2. path[f] # <<>> => Len(path[f]) \in 1 .. Len(path[f])
    BY <2>1
  <2> QED
    BY <1>1, <2>2, ElementOfSeq
<1>6. r = IF fl.regex = NoOne THEN Evaluate(m, payload)
          ELSE IF ~IsTerminal(fl.regex) /\ conf.next[fl.regex] \in payload
               THEN conf.next[fl.regex] ELSE NoOne
  BY DEF Matched
<1>7. NoOne \notin Regexes \cup Managers
  BY RegexAssumption
<1> HIDE DEF fl, m, r, last
<1>8. ASSUME r # NoOne PROVE r \in Regexes /\ (f \notin conf.host => Follows(f, r))
  <2>1. CASE fl.regex = NoOne /\ f \in conf.host
    <3>1. m = conf.hostMng /\ conf.hostMng \in Managers /\ r = Evaluate(m, payload)
      BY <1>1, <1>6, <2>1 DEF m, Configured
    <3> QED
      BY <1>1, <1>8, <2>1, <3>1, EvaluateInList
  <2>2. CASE fl.regex = NoOne /\ f \notin conf.host
    <3>1. m = fl.mng /\ r = Evaluate(m, payload)
      BY <1>6, <2>2 DEF m
    <3>2. CASE path[f] = <<>>
      <4>1. m = StartManager(f)
        BY <1>3, <1>4, <2>2, <3>1, <3>2 DEF Pending
      <4> QED
        BY <1>1, <1>2, <1>8, <2>2, <3>1, <3>2, <4>1, EvaluateInList DEF Follows
    <3>3. CASE path[f] # <<>>
      <4>1. /\ flow[f].packets # 0
            /\ IF conf.nextMng[last] = NoOne THEN flow[f].regex = last
               ELSE flow[f].regex = NoOne /\ flow[f].mng = conf.nextMng[last]
        BY <1>4, <2>2, <3>3 DEF Pending, last
      <4>2. conf.nextMng[last] # NoOne
        BY <1>3, <1>5, <1>7, <2>2, <3>3, <4>1
      <4>3. m = conf.nextMng[last] /\ m \in Managers
        BY <1>1, <1>3, <1>5, <3>1, <3>3, <4>1, <4>2, FollowersTyped
      <4>4. r \in Range(conf.sigs[m]) /\ r \in Regexes
        BY <1>1, <1>8, <3>1, <4>3, EvaluateInList
      <4> QED
        BY <3>3, <4>2, <4>3, <4>4 DEF Follows, last
    <3> QED
      BY <3>2, <3>3
  <2>3. CASE fl.regex # NoOne
    <3>1. r = conf.next[fl.regex] /\ r \in payload
      BY <1>6, <1>8, <2>3
    <3>2. ASSUME f \notin conf.host PROVE Follows(f, r)
      <4>1. path[f] # <<>>
        BY <1>3, <1>4, <2>3, <3>2 DEF Pending
      <4>2. IF conf.nextMng[last] = NoOne THEN flow[f].regex = last
            ELSE flow[f].regex = NoOne
        BY <1>4, <3>2, <4>1 DEF Pending, last
      <4>3. conf.nextMng[last] = NoOne /\ fl.regex = last
        BY <1>3, <2>3, <4>2
      <4> QED
        BY <3>1, <4>1, <4>3 DEF Follows, last
    <3> QED
      BY <3>1, <3>2
  <2> QED
    BY <2>1, <2>2, <2>3
<1> QED
  BY <1>3, <1>8 DEF fl, m, r

\* Payloads of all flows, whatever they match.
LEMMA RegexInvStep == RegexInv /\ [RegexNext]_regexVars => RegexInv'
<1> SUFFICES ASSUME RegexInv, [RegexNext]_regexVars PROVE RegexInv'
  OBVIOUS
<1>1. CASE UNCHANGED regexVars
  <2>1. conf' = conf /\ flow' = flow /\ path' = path
    BY <1>1 DEF regexVars
  <2>2. Configured(conf)' /\ \A f : StartManager(f)' = StartManager(f)
    BY <2>1 DEF RegexInv, Configured, StartManager, MatchedSet
  <2>3. \A f \in RegexFlows \ conf'.host : Pending(f)'
    BY <2>1, <2>2 DEF RegexInv, Pending
  <2>4. ChainFollowed'
    BY <2>1, <2>2 DEF RegexInv, ChainFollowed
  <2> QED
    BY <2>1, <2>2, <2>3, <2>4 DEF RegexInv
<1>2. ASSUME NEW f \in RegexFlows, NEW payload \in SUBSET Regexes, Payload(f, payload)
      PROVE  RegexInv'
  <2> DEFINE fl == Received(f)
             r == Matched(fl, IF f \in conf.host THEN conf.hostMng ELSE fl.mng, payload)
             after == IF r = NoOne THEN fl ELSE AfterMatch(fl, r)
             came == IF r = NoOne THEN path[f] ELSE Append(path[f], r)
  <2>1. /\ fl \in FlowStates /\ fl.packets # 0 /\ fl.regex = flow[f].regex
        /\ flow[f].packets # 0 => fl.mng = flow[f].mng
        /\ flow[f].packets = 0 => fl.mng = StartManager(f)
        /\ r # NoOne => r \in Regexes /\ (f \notin conf.host => Follows(f, r))
    <3>1. LET x == Received(f)
              s == Matched(x, IF f \in conf.host THEN conf.hostMng ELSE x.mng, payload)
          IN /\ x \in FlowStates /\ x.packets # 0 /\ x.regex = flow[f].regex
             /\ flow[f].packets # 0 => x.mng = flow[f].mng
             /\ flow[f].packets = 0 => x.mng = StartManager(f)
             /\ s # NoOne => s \in Regexes /\ (f \notin conf.host => Follows(f, s))
      BY <1>2, MatchedFollows
    <3> QED
      BY <3>1
  <2>2. conf' = conf /\ flow' = [flow EXCEPT ![f] = after] /\ path' = [path EXCEPT ![f] = came]
    <3>1. CASE r = NoOne
      <4>1. path' = path /\ flow' = [flow EXCEPT ![f] = fl] /\ conf' = conf
        BY <1>2, <3>1 DEF Payload
      <4>2. path = [path EXCEPT ![f] = path[f]]
        BY DEF RegexInv
      <4> QED
        BY <3>1, <4>1, <4>2
    <3>2. CASE r # NoOne
      BY <1>2, <3>2 DEF Payload
    <3> QED
      BY <3>1, <3>2
  <2>3. Configured(conf) /\ flow[f] \in FlowStates /\ path[f] \in Seq(Regexes)
        /\ NoOne \notin Regexes
    BY RegexAssumption DEF RegexInv
  <2> HIDE DEF fl, r
  <2>4. r # NoOne => r \in Regexes /\ conf.nextMng[r] \in Managers \cup {NoOne}
    BY <2>1, <2>3, FollowersTyped
  <2>5. /\ after \in FlowStates /\ after.packets # 0
        /\ r # NoOne => IF conf.nextMng[r] = NoOne THEN after.regex = r
                        ELSE after.regex = NoOne /\ after.mng = conf.nextMng[r]
    <3>1. CASE r = NoOne
      BY <2>1, <3>1
    <3>2. CASE r # NoOne /\ conf.nextMng[r] = NoOne
      BY <2>1, <2>4, <3>2 DEF AfterMatch, FlowStates
    <3>3. CASE r # NoOne /\ conf.nextMng[r] # NoOne
      BY <2>1, <2>4, <3>3 DEF AfterMatch, FlowStates
    <3> QED
      BY <3>1, <3>2, <3>3
  <2>6. /\ came \in Seq(Regexes)
        /\ r # NoOne => /\ came # <<>> /\ Len(came) = Len(path[f]) + 1
                        /\ \A i \in 1 .. Len(path[f]) : came[i] = path[f][i]
                        /\ came[Len(path[f]) + 1] = r
    BY <2>1, <2>3, AppendProperties
  <2>7. Len(path[f]) \in Nat /\ (Len(path[f]) = 0 <=> path[f] = <<>>)
    BY <2>3, LenProperties, EmptySeq
  <2> HIDE DEF after
  <2>8. r = NoOne => after = fl /\ came = path[f]
    BY DEF after
  <2> HIDE DEF came
  <2>9. /\ flow' \in [RegexFlows -> FlowStates] /\ flow'[f] = after
        /\ path' \in [RegexFlows -> Seq(Regexes)] /\ path'[f] = came
        /\ \A g \in RegexFlows \ {f} : flow'[g] = flow[g] /\ path'[g] = path[g]
    BY <2>2, <2>5, <2>6 DEF RegexInv
  <2>10. Configured(conf)' /\ \A g : StartManager(g)' = StartManager(g)
    BY <2>2, <2>3 DEF Configured, StartManager, MatchedSet
  <2>11. ASSUME NEW g \in RegexFlows \ conf'.host PROVE Pending(g)'
    <3>1. CASE g # f
      BY <2>2, <2>9, <2>10, <3>1 DEF RegexInv, Pending
    <3>2. CASE g = f /\ r = NoOne
      <4>1. Pending(f) /\ flow'[f] = fl /\ path'[f] = path[f]
        BY <2>2, <2>8, <2>9, <2>11, <3>2 DEF RegexInv
      <4> QED
        BY <2>1, <2>2, <2>10, <3>2, <4>1 DEF Pending
    <3>3. CASE g = f /\ r # NoOne
      <4>1. path'[f] # <<>> /\ path'[f][Len(path'[f])] = r
        BY <2>6, <2>9, <3>3
      <4> QED
        BY <2>2, <2>5, <2>9, <3>3, <4>1 DEF Pending
    <3> QED
      BY <3>1, <3>2, <3>3
  <2>12. ASSUME NEW g \in RegexFlows \ conf'.host, NEW i \in 1 .. Len(path'[g])
         PROVE  IF i = 1 THEN path'[g][i] \in Range(conf.sigs[StartManager(g)])
                ELSE IF conf.nextMng[path'[g][i - 1]] # NoOne
                THEN path'[g][i] \in Range(conf.sigs[conf.nextMng[path'[g][i - 1]]])
                ELSE conf.next[path'[g][i - 1]] = path'[g][i]
    <3>0. \A j \in 1 .. Len(path[g]) :
            IF j = 1 THEN path[g][j] \in Range(conf.sigs[StartManager(g)])
            ELSE IF conf.nextMng[path[g][j - 1]] # NoOne
            THEN path[g][j] \in Range(conf.sigs[conf.nextMng[path[g][j - 1]]])
            ELSE conf.next[path[g][j - 1]] = path[g][j]
      BY <2>2, <2>12 DEF RegexInv, ChainFollowed
    <3>1. CASE path'[g] = path[g]
      BY <3>0, <3>1
    <3>2. CASE g = f /\ r # NoOne
      <4>1. path'[g] = came /\ Len(came) = Len(path[f]) + 1 /\ i \in 1 .. Len(path[f]) + 1
        BY <2>6, <2>9, <3>2
      <4>2. CASE i # Len(path[f]) + 1
        <5>1. i \in 1 .. Len(path[f]) /\ (i # 1 => i - 1 \in 1 .. Len(path[f]))
          BY <2>7, <4>1, <4>2
        <5>2. came[i] = path[f][i] /\ (i # 1 => came[i - 1] = path[f][i - 1])
          BY <2>6, <3>2, <5>1
        <5> QED
          BY <3>0, <3>2, <4>1, <5>1, <5>2
      <4>3. CASE i = Len(path[f]) + 1
        <5>1. came[i] = r /\ Follows(f, r)
          BY <2>1, <2>2, <2>6, <2>12, <3>2, <4>3
        <5>2. CASE i = 1
          <6>1. path[f] = <<>>
            BY <2>7, <4>3, <5>2
          <6> QED
            BY <3>2, <4>1, <5>1, <5>2, <6>1 DEF Follows
        <5>3. CASE i # 1
          <6>1. path[f] # <<>> /\ i - 1 = Len(path[f]) /\ i - 1 \in 1 .. Len(path[f])
            BY <2>7, <4>1, <4>3, <5>3
          <6>2. came[i - 1] = path[f][Len(path[f])]
            BY <2>6, <3>2, <6>1
          <6> QED
            BY <3>2, <4>1, <5>1, <5>3, <6>1, <6>2 DEF Follows
        <5> QED
          BY <5>2, <5>3
      <4> QED
        BY <4>2, <4>3
    <3> QED
      BY <2>8, <2>9, <3>1, <3>2
  <2>13. ChainFollowed'
    BY <2>2, <2>10, <2>12 DEF ChainFollowed
  <2> QED
    BY <2>9, <2>10, <2>11, <2>13 DEF RegexInv
<1> QED
  BY <1>1, <1>2 DEF RegexNext

\* RegexManager and Regex: what matches in the flows of the generic protocols is
\* a chain of the configuration, for every configuration, also one with cycles,
\* and every list of IP sets.
THEOREM MatchesFollowChains == RegexSpec => []ChainFollowed
<1>1. RegexInv => ChainFollowed
  BY DEF RegexInv
<1> QED
  BY <1>1, RegexInvInit, RegexInvStep, PTL DEF RegexSpec

-----------------------------------------------------------------------------
(***************************************************************************)
(* Evidences: what was written stays on disk.                              *)
(***************************************************************************)

Seconds == 1 .. MaxSeconds
Packets == [id : Nat, at : Nat, length : Nat]
Files == [file : Seconds \cup {NoFile}, offset : Nat, disk : [Seconds -> SUBSET Packets],
          size : [Seconds -> Nat], written : [packets : Seq(Seconds), files : Seq(Seconds)]]

End(p) == p.at + PacketHeader + p.length

\* Packet i is among `here`, whole, in a file of some length, apart from the rest.
Kept(here, length, i) ==
  \E p \in here : /\ p.id = i /\ p.at >= FileHeader /\ End(p) <= length
                  /\ \A q \in here \ {p} : q.at >= End(p) \/ p.at >= End(q)

Opened(m, s) == \E j \in DOMAIN m.written.files : m.written.files[j] = s

Once(m, s) ==
  \A i, j \in DOMAIN m.written.files : m.written.files[i] = s /\ m.written.files[j] = s => i = j

\* The packets of an open file are below the place of the next one.
OpenFile(m) ==
  /\ Opened(m, m.file) /\ m.size[m.file] = TotalSize
  /\ m.offset >= FileHeader /\ m.offset <= TotalSize
  /\ \A p \in m.disk[m.file] : End(p) <= m.offset

Sound(m) ==
  /\ m \in Files
  /\ m.file # NoFile => OpenFile(m)
  /\ \A i \in DOMAIN m.written.packets :
       LET s == m.written.packets[i]
       IN Opened(m, s) /\ (Once(m, s) => Kept(m.disk[s], m.size[s], i))

\* What is in the files, in the mapped one and in memory belong together.
EvidenceInv ==
  /\ second \in Seconds /\ evidences \in BOOLEAN
  /\ evidences <=> file # NoFile
  /\ Sound(Now)

\* What the assumption gives: a file has a time for its name, or none.
LEMMA SecondsNat == /\ Seconds \subseteq Nat /\ NoFile \notin Seconds
                    /\ TotalSize \in Nat /\ FileHeader \in Nat /\ PacketHeader \in Nat
BY EvidenceAssumption DEF Seconds, NoFile

\* The manager begins without a file.
LEMMA EvidenceInvInit == EvidenceInit => EvidenceInv
<1> SUFFICES ASSUME EvidenceInit PROVE EvidenceInv
  OBVIOUS
<1>1. /\ second = 1 /\ evidences = FALSE /\ file = NoFile /\ offset = 0
      /\ disk = [s \in Seconds |-> {}] /\ size = [s \in Seconds |-> 0]
      /\ written = [packets |-> <<>>, files |-> <<>>]
  BY DEF EvidenceInit, Seconds
<1>2. <<>> \in Seq(Seconds) /\ DOMAIN <<>> = {}
  BY EmptySeq
<1>3. disk \in [Seconds -> SUBSET Packets] /\ size \in [Seconds -> Nat]
  BY <1>1
<1>4. written \in [packets : Seq(Seconds), files : Seq(Seconds)] /\ written.packets = <<>>
  BY <1>1, <1>2
<1>5. Now \in Files /\ Now.file = NoFile /\ Now.written = written
  BY <1>1, <1>3, <1>4 DEF Now, Files
<1>6. second \in Seconds
  BY <1>1, EvidenceAssumption DEF Seconds
<1> QED
  BY <1>1, <1>2, <1>4, <1>5, <1>6 DEF EvidenceInv, Sound

\* A new file: what was in a file of the same second is gone, and that second is
\* no longer one in which a single file was opened.
LEMMA EnableSound ==
  ASSUME NEW m, Sound(m), m.file = NoFile, second \in Seconds
  PROVE  /\ Sound(AfterEnable(m))
         /\ AfterEnable(m).file = second /\ AfterEnable(m).offset = FileHeader
         /\ AfterEnable(m).written.packets = m.written.packets
<1> DEFINE n == AfterEnable(m)
           times == m.written.files
<1>1. m \in Files /\ times \in Seq(Seconds) /\ m.written.packets \in Seq(Seconds)
  BY DEF Sound, Files
<1>2. /\ n.file = second /\ n.offset = FileHeader
      /\ n.disk = [m.disk EXCEPT ![second] = {}]
      /\ n.size = [m.size EXCEPT ![second] = TotalSize]
      /\ n.written = [m.written EXCEPT !.files = Append(times, second)]
      /\ n = [file |-> second, offset |-> FileHeader, disk |-> n.disk, size |-> n.size,
              written |-> n.written]
  BY DEF AfterEnable
<1>3. /\ Append(times, second) \in Seq(Seconds)
      /\ Len(Append(times, second)) = Len(times) + 1
      /\ \A i \in 1 .. Len(times) : Append(times, second)[i] = times[i]
      /\ Append(times, second)[Len(times) + 1] = second
  BY <1>1, AppendProperties
<1>4. /\ Len(times) \in Nat /\ DOMAIN times = 1 .. Len(times)
      /\ DOMAIN Append(times, second) = 1 .. Len(times) + 1
  BY <1>1, <1>3, LenProperties
<1>5. /\ n.written.files = Append(times, second)
      /\ n.written.packets = m.written.packets
      /\ n.written \in [packets : Seq(Seconds), files : Seq(Seconds)]
  BY <1>1, <1>2, <1>3 DEF Files
<1>6. /\ n.disk \in [Seconds -> SUBSET Packets] /\ n.disk[second] = {}
      /\ n.size \in [Seconds -> Nat] /\ n.size[second] = TotalSize
      /\ \A s \in Seconds \ {second} : n.disk[s] = m.disk[s] /\ n.size[s] = m.size[s]
  BY <1>1, <1>2, SecondsNat DEF Files
<1>7. n \in Files
  BY <1>2, <1>5, <1>6, SecondsNat DEF Files
<1> HIDE DEF n
<1>8. \A s : Opened(m, s) => Opened(n, s)
  BY <1>3, <1>4, <1>5 DEF Opened
<1>9. Opened(n, second)
  <2>1. Len(times) + 1 \in 1 .. Len(times) + 1
    BY <1>4
  <2> QED
    BY <2>1, <1>3, <1>4, <1>5 DEF Opened
<1>10. \A s : Once(n, s) => Once(m, s)
  BY <1>3, <1>4, <1>5 DEF Once
<1>11. Opened(m, second) => ~Once(n, second)
  <2>1. Len(times) + 1 \in 1 .. Len(times) + 1 /\ \A j \in 1 .. Len(times) : j # Len(times) + 1
    BY <1>4
  <2> QED
    BY <2>1, <1>3, <1>4, <1>5 DEF Opened, Once
<1>12. ASSUME NEW i \in DOMAIN n.written.packets
       PROVE  LET s == n.written.packets[i]
              IN Opened(n, s) /\ (Once(n, s) => Kept(n.disk[s], n.size[s], i))
  <2> DEFINE s == n.written.packets[i]
  <2>1. Opened(m, s) /\ (Once(m, s) => Kept(m.disk[s], m.size[s], i)) /\ s \in Seconds
    <3>1. i \in 1 .. Len(m.written.packets)
      BY <1>1, <1>5, <1>12, LenProperties
    <3> QED
      BY <1>1, <1>5, <1>12, <3>1, ElementOfSeq DEF Sound
  <2> HIDE DEF s
  <2>2. Opened(n, s) /\ (Once(n, s) => Kept(n.disk[s], n.size[s], i))
    BY <2>1, <1>6, <1>8, <1>10, <1>11
  <2> QED
    BY <2>2 DEF s
<1>13. OpenFile(n)
  <2>1. FileHeader <= TotalSize
    BY EvidenceAssumption
  <2> QED
    BY <2>1, <1>2, <1>6, <1>9, SecondsNat DEF OpenFile
<1> QED
  BY <1>2, <1>5, <1>7, <1>12, <1>13 DEF Sound, n

\* A file that is closed is cut where its last packet ends, and loses none.
LEMMA DisableSound ==
  ASSUME NEW m, Sound(m)
  PROVE  /\ Sound(AfterDisable(m)) /\ AfterDisable(m).file = NoFile
         /\ AfterDisable(m).written = m.written
<1>0. CASE m.file = NoFile
  BY <1>0 DEF AfterDisable
<1>1. CASE m.file # NoFile
  <2> DEFINE n == AfterDisable(m)
             f == m.file
             cut == {p \in m.disk[f] : p.at + PacketHeader + p.length <= m.offset}
  <2>1. m \in Files /\ f \in Seconds /\ OpenFile(m)
    BY <1>1 DEF Sound, Files
  <2>2. cut = m.disk[f]
    BY <2>1 DEF OpenFile, End
  <2>3. n = [[m EXCEPT !.file = NoFile, !.offset = 0] EXCEPT !.size[f] = m.offset,
                                                            !.disk[f] = cut]
    BY <1>1, <2>1 DEF AfterDisable, Truncated, Files
  <2> HIDE DEF n, cut, f
  <2>4. n = [file |-> NoFile, offset |-> 0, disk |-> [m.disk EXCEPT ![f] = cut],
             size |-> [m.size EXCEPT ![f] = m.offset], written |-> m.written]
    BY <2>1, <2>3 DEF Files
  <2>5. /\ n.file = NoFile /\ n.offset = 0 /\ n.written = m.written
        /\ n.disk = [m.disk EXCEPT ![f] = cut] /\ n.size = [m.size EXCEPT ![f] = m.offset]
    BY <2>4
  <2>6. n.disk = m.disk
    BY <2>1, <2>2, <2>5 DEF Files
  <2>7. /\ n.size \in [Seconds -> Nat] /\ n.size[f] = m.offset
        /\ \A s \in Seconds \ {f} : n.size[s] = m.size[s]
    BY <2>1, <2>5 DEF Files
  <2>8. n \in Files
    BY <2>1, <2>4, <2>6, <2>7 DEF Files
  <2>9. \A s, i : Kept(m.disk[s], m.size[s], i) /\ s \in Seconds => Kept(n.disk[s], n.size[s], i)
    <3> SUFFICES ASSUME NEW s \in Seconds, NEW i, Kept(m.disk[s], m.size[s], i)
                 PROVE  Kept(m.disk[s], n.size[s], i)
      BY <2>6
    <3>1. CASE s = f
      <4>1. \A p \in m.disk[s] : End(p) <= n.size[s]
        BY <2>1, <2>7, <3>1 DEF OpenFile, f
      <4> QED
        BY <4>1 DEF Kept
    <3>2. CASE s # f
      BY <2>7, <3>2
    <3> QED
      BY <3>1, <3>2
  <2>10. \A i \in DOMAIN m.written.packets : m.written.packets[i] \in Seconds
    <3>1. m.written.packets \in Seq(Seconds)
      BY <2>1 DEF Files
    <3> QED
      BY <3>1, LenProperties, ElementOfSeq
  <2>11. \A s : (Opened(n, s) <=> Opened(m, s)) /\ (Once(n, s) <=> Once(m, s))
    BY <2>5 DEF Opened, Once
  <2> QED
    BY <2>5, <2>8, <2>9, <2>10, <2>11 DEF Sound, n
<1> QED
  BY <1>0, <1>1

\* A packet that fits goes above the ones that are in the open file.
LEMMA WriteSound ==
  ASSUME NEW m, Sound(m), m.file # NoFile, NEW length \in Nat,
         m.offset + PacketHeader + length <= TotalSize
  PROVE  Sound(Copied(m, length)) /\ Copied(m, length).file = m.file
<1> DEFINE f == m.file
           past == m.written.packets
           id == Len(past) + 1
           new == [id |-> id, at |-> m.offset, length |-> length]
           top == m.offset + PacketHeader + length
           here == m.disk[f] \cup {new}
           n == Copied(m, length)
<1>1. /\ m \in Files /\ f \in Seconds /\ OpenFile(m) /\ past \in Seq(Seconds)
      /\ m.offset \in Nat
  BY DEF Sound, Files
<1>2. /\ Append(past, f) \in Seq(Seconds) /\ Len(Append(past, f)) = id
      /\ \A i \in 1 .. Len(past) : Append(past, f)[i] = past[i]
      /\ Append(past, f)[id] = f
  BY <1>1, AppendProperties
<1>3. Len(past) \in Nat /\ DOMAIN past = 1 .. Len(past) /\ DOMAIN Append(past, f) = 1 .. id
  BY <1>1, <1>2, LenProperties
<1>4. /\ new \in Packets /\ End(new) = top /\ top \in Nat /\ m.offset <= top
      /\ new.id = id /\ new.at = m.offset
  <2>1. new.id = id /\ new.at = m.offset /\ new.length = length /\ id \in Nat
    BY <1>3
  <2>2. new \in Packets
    BY <1>1, <1>3 DEF Packets
  <2> HIDE DEF new
  <2> QED
    BY <1>1, <2>1, <2>2, SecondsNat DEF End
<1>5. n = [file |-> f, offset |-> top, disk |-> [m.disk EXCEPT ![f] = here], size |-> m.size,
           written |-> [packets |-> Append(past, f), files |-> m.written.files]]
  <2> DEFINE moved == [m EXCEPT !.offset = top]
             filled == [moved EXCEPT !.disk = [moved.disk EXCEPT ![f] = here]]
             later == [filled.written EXCEPT !.packets = Append(past, f)]
  <2>1. n = [filled EXCEPT !.written = later]
    BY <1>1 DEF Copied, Files
  <2> HIDE DEF top, here, past
  <2>m. m \in Files
    BY <1>1
  <2>w. m.written \in [packets : Seq(Seconds), files : Seq(Seconds)]
    BY <2>m DEF Files
  <2> DEFINE kept == m.written
  <2> HIDE DEF f, kept
  <2>2. moved = [file |-> f, offset |-> top, disk |-> m.disk, size |-> m.size,
                 written |-> kept]
    BY <2>m DEF Files, f, kept
  <2> HIDE DEF moved
  <2>3. filled = [file |-> f, offset |-> top, disk |-> [m.disk EXCEPT ![f] = here],
                  size |-> m.size, written |-> kept]
    BY <2>2
  <2> HIDE DEF filled
  <2>4. later = [packets |-> Append(past, f), files |-> kept.files]
    <3>1. filled.written = kept /\ kept \in [packets : Seq(Seconds), files : Seq(Seconds)]
      BY <2>3, <2>w DEF kept
    <3>2. \A x : \A k \in [packets : Seq(Seconds), files : Seq(Seconds)] :
            [k EXCEPT !.packets = x] = [packets |-> x, files |-> k.files]
      OBVIOUS
    <3> QED
      BY <3>1, <3>2
  <2> HIDE DEF later, n
  <2>5. n = [file |-> f, offset |-> top, disk |-> [m.disk EXCEPT ![f] = here],
             size |-> m.size, written |-> later]
    BY <2>1, <2>3
  <2> QED
    BY <2>4, <2>5 DEF kept
<1> HIDE DEF n, new, top, here
<1>6. /\ n.file = f /\ n.offset = top /\ n.size = m.size
      /\ n.disk = [m.disk EXCEPT ![f] = here]
      /\ n.written.packets = Append(past, f) /\ n.written.files = m.written.files
  BY <1>5
<1>7. /\ n.disk \in [Seconds -> SUBSET Packets] /\ n.disk[f] = here
      /\ \A s \in Seconds \ {f} : n.disk[s] = m.disk[s]
  <2>1. m.disk \in [Seconds -> SUBSET Packets]
    BY <1>1 DEF Files
  <2>2. here \subseteq Packets
    BY <1>1, <1>4, <2>1 DEF here
  <2> QED
    BY <1>1, <1>6, <2>1, <2>2
<1>8. n \in Files
  BY <1>1, <1>2, <1>4, <1>5, <1>6, <1>7 DEF Files
<1>9. \A s : (Opened(n, s) <=> Opened(m, s)) /\ (Once(n, s) <=> Once(m, s))
  BY <1>6 DEF Opened, Once
<1>10. /\ \A p \in m.disk[f] : End(p) <= new.at /\ End(p) \in Int
       /\ \A p \in m.disk[f] : End(p) <= top
  <2>1. \A p \in m.disk[f] : p \in Packets
    BY <1>1 DEF Files
  <2>2. \A p \in m.disk[f] : End(p) \in Int
    BY <2>1, SecondsNat DEF Packets, End
  <2> QED
    BY <1>1, <1>4, <2>2 DEF OpenFile
<1>11. OpenFile(n)
  <2>1. Opened(n, f) /\ n.size[f] = TotalSize
    BY <1>1, <1>6, <1>9 DEF OpenFile
  <2>2. \A p \in here : End(p) <= top
    BY <1>4, <1>10 DEF here
  <2>3. top >= FileHeader /\ top <= TotalSize
    BY <1>1, <1>4, SecondsNat DEF OpenFile, top
  <2> QED
    BY <1>6, <1>7, <2>1, <2>2, <2>3 DEF OpenFile
<1>12. ASSUME NEW i \in DOMAIN n.written.packets
       PROVE  LET s == n.written.packets[i]
              IN Opened(n, s) /\ (Once(n, s) => Kept(n.disk[s], n.size[s], i))
  <2>1. CASE i \in 1 .. Len(past)
    <3> DEFINE s == past[i]
    <3>1. n.written.packets[i] = s /\ s \in Seconds
      BY <1>1, <1>2, <1>6, <2>1, ElementOfSeq
    <3>2. Opened(m, s) /\ (Once(m, s) => Kept(m.disk[s], m.size[s], i))
      BY <1>3, <2>1 DEF Sound
    <3> HIDE DEF s
    <3>3. ASSUME s = f, Kept(m.disk[s], m.size[s], i) PROVE Kept(here, m.size[s], i)
      BY <3>3, <1>10 DEF Kept, here
    <3>4. Kept(m.disk[s], m.size[s], i) => Kept(n.disk[s], n.size[s], i)
      BY <1>6, <1>7, <3>1, <3>3
    <3> QED
      BY <1>9, <3>1, <3>2, <3>4
  <2>2. CASE i = id
    <3>1. n.written.packets[i] = f
      BY <1>2, <1>6, <2>2
    <3>2. End(new) <= TotalSize /\ new.at >= FileHeader
      BY <1>1, <1>4 DEF OpenFile, top
    <3>3. \A q \in here \ {new} : new.at >= End(q)
      BY <1>10 DEF here
    <3>4. Kept(here, TotalSize, id)
      BY <1>4, <3>2, <3>3 DEF Kept, here
    <3>5. Opened(n, f) /\ n.disk[f] = here /\ n.size[f] = TotalSize
      BY <1>6, <1>7, <1>11 DEF OpenFile
    <3> QED
      BY <2>2, <3>1, <3>4, <3>5
  <2> QED
    BY <1>2, <1>3, <1>6, <2>1, <2>2
<1>13. Sound(n)
  BY <1>8, <1>11, <1>12 DEF Sound
<1> QED
  BY <1>6, <1>13 DEF n

\* Enabling, writing, filling a file up, disabling, and time between them.
LEMMA EvidenceInvStep == EvidenceInv /\ [EvidenceNext]_evidenceVars => EvidenceInv'
<1> SUFFICES ASSUME EvidenceInv, [EvidenceNext]_evidenceVars PROVE EvidenceInv'
  OBVIOUS
<1>0. /\ second \in Seconds /\ (evidences <=> file # NoFile) /\ Sound(Now) /\ Now.file = file
      /\ evidences \in BOOLEAN
  BY DEF EvidenceInv, Now
<1>now. ASSUME NEW m, m \in Files, Becomes(m) PROVE Now' = m
  BY <1>now DEF Becomes, Now, Files
<1>1. ASSUME NEW on \in BOOLEAN, SetEvidences(on) PROVE EvidenceInv'
  <2>1. evidences' = on /\ second' = second /\ on # evidences
    BY <1>1 DEF SetEvidences
  <2>2. CASE on
    <3>1. Becomes(AfterEnable(Now)) /\ Now.file = NoFile
      BY <1>0, <1>1, <2>1, <2>2 DEF SetEvidences
    <3>2. Sound(AfterEnable(Now)) /\ AfterEnable(Now).file = second
      BY <1>0, <3>1, EnableSound
    <3>3. Now' = AfterEnable(Now) /\ file' = second
      BY <1>now, <3>1, <3>2 DEF Sound, Becomes
    <3> QED
      BY <1>0, <2>1, <2>2, <3>2, <3>3, SecondsNat DEF EvidenceInv
  <2>3. CASE ~on
    <3>1. Becomes(AfterDisable(Now))
      BY <1>1, <2>3 DEF SetEvidences
    <3>2. Sound(AfterDisable(Now)) /\ AfterDisable(Now).file = NoFile
      BY <1>0, DisableSound
    <3>3. Now' = AfterDisable(Now) /\ file' = NoFile
      BY <1>now, <3>1, <3>2 DEF Sound, Becomes
    <3> QED
      BY <1>0, <2>1, <2>3, <3>2, <3>3 DEF EvidenceInv
  <2> QED
    BY <2>2, <2>3
<1>2. ASSUME NEW length \in PacketLengths, Evidence(length) PROVE EvidenceInv'
  <2> DEFINE full == Now.offset + length + PacketHeader > TotalSize
             n == IF full THEN AfterEnable(AfterDisable(Now)) ELSE Now
  <2>1. /\ length \in Nat /\ FileHeader + PacketHeader + length <= TotalSize
        /\ evidences' = evidences /\ second' = second /\ evidences
        /\ Becomes(Written(Now, length))
    BY <1>2, EvidenceAssumption DEF Evidence
  <2>2. /\ Sound(n) /\ n.file # NoFile /\ n.offset + PacketHeader + length <= TotalSize
        /\ n.written.packets = Now.written.packets
    <3>1. CASE full
      <4>1. /\ Sound(AfterDisable(Now)) /\ AfterDisable(Now).file = NoFile
            /\ AfterDisable(Now).written = Now.written
        BY <1>0, DisableSound
      <4>2. /\ Sound(n) /\ n.file = second /\ n.offset = FileHeader
            /\ n.written.packets = Now.written.packets
        BY <1>0, <3>1, <4>1, EnableSound
      <4> QED
        BY <1>0, <2>1, <4>2, SecondsNat
    <3>2. CASE ~full
      <4>1. Now.offset \in Nat
        BY <1>0 DEF Sound, Files
      <4> QED
        BY <1>0, <2>1, <3>2, <4>1, SecondsNat
    <3> QED
      BY <3>1, <3>2
  <2> DEFINE w == Copied(n, length)
  <2>3. Written(Now, length) = w
    BY DEF Written
  <2> HIDE DEF n
  <2>4. Sound(w) /\ w.file = n.file
    BY <2>1, <2>2, WriteSound
  <2> HIDE DEF w
  <2>5. Now' = w /\ file' = w.file
    BY <1>now, <2>1, <2>3, <2>4 DEF Sound, Becomes
  <2> QED
    BY <1>0, <2>1, <2>2, <2>4, <2>5 DEF EvidenceInv
<1>3. CASE Tick
  <2>1. second' \in Seconds /\ Now' = Now /\ evidences' = evidences /\ file' = file
    BY <1>0, <1>3, EvidenceAssumption DEF Tick, Seconds, Now
  <2> QED
    BY <1>0, <2>1 DEF EvidenceInv
<1>4. CASE UNCHANGED evidenceVars
  <2>1. second' = second /\ Now' = Now /\ evidences' = evidences /\ file' = file
    BY <1>4 DEF evidenceVars, Now
  <2> QED
    BY <1>0, <2>1 DEF EvidenceInv
<1> QED
  BY <1>1, <1>2, <1>3, <1>4 DEF EvidenceNext

\* EvidenceManager: a packet that was written stays whole in its file and apart
\* from the others, whatever the sizes and lengths are, however often the file is
\* full, closed and opened, unless its file was opened twice in one second.
THEOREM EvidencesStay == EvidenceSpec => []EvidenceOnDisk
<1>1. EvidenceInv => EvidenceOnDisk
  <2> SUFFICES ASSUME EvidenceInv, NEW i \in DOMAIN written.packets, OpenedOnce(written.packets[i])
               PROVE  \E p \in disk[written.packets[i]] :
                        /\ p.id = i
                        /\ p.at >= FileHeader /\ p.at + PacketHeader + p.length
                                                 <= size[written.packets[i]]
                        /\ \A q \in disk[written.packets[i]] \ {p} :
                             q.at >= p.at + PacketHeader + p.length
                             \/ p.at >= q.at + PacketHeader + q.length
    BY DEF EvidenceOnDisk
  <2>1. Now.disk = disk /\ Now.size = size /\ Now.written = written
    BY DEF Now
  <2>2. Kept(disk[written.packets[i]], size[written.packets[i]], i)
    BY <2>1 DEF EvidenceInv, Sound, Once, OpenedOnce
  <2> QED
    BY <2>2 DEF Kept, End
<1> QED
  BY <1>1, EvidenceInvInit, EvidenceInvStep, PTL DEF EvidenceSpec

-----------------------------------------------------------------------------
(***************************************************************************)
(* The learner: its expression matches what it was computed from.          *)
(***************************************************************************)

Copies == {p \in Seq(Values) : Len(p) <= MaxCopy}
Counts == [1 .. MaxCopy -> [Values -> Nat]]

\* The expression has, at each place, a byte of a payload or any.
Fitted(e, p) == \A i \in 1 .. Len(e) : i <= Len(p) => e[i] = AnyByte \/ e[i] = p[i]

\* Counts of what was learned since, and an expression of what was learned before.
LearnerInv ==
  /\ counts \in Counts
  /\ expression \in Seq(Values \cup {AnyByte})
  /\ \A p \in taught : p \in Copies /\ \A i \in 1 .. Len(p) : counts[i][p[i]] > 0
  /\ \A p \in learned : p \in Copies /\ Fitted(expression, p)

\* The learner begins without payloads.
LEMMA LearnerInvInit == LearnerInit => LearnerInv
<1> SUFFICES ASSUME LearnerInit PROVE LearnerInv
  OBVIOUS
<1>1. counts \in Counts
  BY DEF LearnerInit, NoCounts, Counts
<1>2. expression \in Seq(Values \cup {AnyByte})
  BY EmptySeq DEF LearnerInit
<1> QED
  BY <1>1, <1>2 DEF LearnerInit, LearnerInv

\* PacketFrequencies::addPayload keeps the beginning of the payload.
LEMMA CopyIsBeginning ==
  ASSUME NEW payload \in BoundedSeq(Values, MaxPayload)
  PROVE  Copy(payload) \in Copies
<1> DEFINE n == IF Len(payload) > MaxCopy THEN MaxCopy ELSE Len(payload)
<1>1. payload \in Seq(Values)
  <2>1. PICK m \in 0 .. MaxPayload : payload \in [1 .. m -> Values]
    BY DEF BoundedSeq, SeqOf
  <2>2. m \in Nat
    BY <2>1, LearnerAssumption
  <2> QED
    BY <2>1, <2>2
<1>2. Len(payload) \in Nat /\ n \in Nat /\ n <= Len(payload) /\ n <= MaxCopy
  BY <1>1, LenProperties, LearnerAssumption
<1>3. \A i \in 1 .. n : payload[i] \in Values
  BY <1>1, <1>2, ElementOfSeq
<1>4. Copy(payload) = SubSeq(payload, 1, n)
  BY DEF Copy
<1> HIDE DEF n
<1>5. SubSeq(payload, 1, n) \in Seq(Values) /\ Len(SubSeq(payload, 1, n)) <= MaxCopy
  <2>1. 1 \in Int /\ n \in Int
    BY <1>2
  <2>2. /\ SubSeq(payload, 1, n) \in Seq(Values)
        /\ Len(SubSeq(payload, 1, n)) = IF 1 <= n THEN n - 1 + 1 ELSE 0
    BY <1>3, <2>1, SubSeqProperties
  <2> QED
    BY <1>2, <2>2
<1> QED
  BY <1>4, <1>5 DEF Copies

\* getQualityByte is above 80 for no place at which two bytes came.
LEMMA QualityOfOne ==
  ASSUME counts \in Counts, NEW i \in 1 .. MaxCopy, QualityByte(i) > 80,
         NEW v \in ValuesAt(i), NEW w \in ValuesAt(i)
  PROVE  v = w
<1> DEFINE n == Cardinality(ValuesAt(i))
           q == ((n - 1) * 100) \div n
<1>1. ValuesAt(i) \in SUBSET Values
  BY DEF ValuesAt
<1>2. IsFiniteSet(ValuesAt(i))
  BY <1>1, LearnerAssumption, FS_Subset
<1>3. n \in Nat
  BY <1>2, FS_CardinalityType
<1>4. QualityByte(i) = IF n = 0 THEN 0 ELSE 100 - q
  BY DEF QualityByte
<1> HIDE DEF n
<1>5. n # 0 /\ q < 20
  BY <1>3, <1>4
<1>6. n = 1
  <2> SUFFICES ASSUME n >= 2 PROVE FALSE
    BY <1>3, <1>5
  <2>1. q \in Nat /\ (n - 1) * 100 < n * (q + 1)
    BY <1>3
  <2>2. n * (q + 1) <= n * 20
    BY <1>3, <1>5, <2>1
  <2> QED
    BY <1>3, <2>1, <2>2
<1>7. PICK x : ValuesAt(i) = {x}
  BY <1>2, <1>6, FS_Singleton DEF n
<1> QED
  BY <1>7

\* The expression is as long as the columns that are filled, and no longer than
\* what is copied of a payload.
LEMMA LengthBounded ==
  ASSUME counts \in Counts
  PROVE  Length \in Nat /\ Length <= MaxCopy
<1> DEFINE used == {i \in 1 .. MaxCopy : ValuesAt(i) # {}}
<1>1. MaxCopy \in Nat /\ MaxExpression \in Nat
  BY LearnerAssumption
<1>2. IsFiniteSet(1 .. MaxCopy) /\ Cardinality(1 .. MaxCopy) = MaxCopy
  BY <1>1, FS_Interval
<1>3. used \in SUBSET (1 .. MaxCopy)
  OBVIOUS
<1>4. Length = IF Cardinality(used) > MaxExpression THEN MaxExpression ELSE Cardinality(used)
  BY DEF Length
<1> HIDE DEF used
<1>5. IsFiniteSet(used) /\ Cardinality(used) <= MaxCopy /\ Cardinality(used) \in Nat
  BY <1>2, <1>3, FS_Subset, FS_CardinalityType
<1> QED
  BY <1>1, <1>4, <1>5

\* Payloads are learned, the expression is derived from them, and both are reset.
LEMMA LearnerInvStep == LearnerInv /\ [LearnerNext]_learnerVars => LearnerInv'
<1> SUFFICES ASSUME LearnerInv, [LearnerNext]_learnerVars PROVE LearnerInv'
  OBVIOUS
<1>0. \A p \in Copies : p \in Seq(Values) /\ Len(p) \in Nat /\ Len(p) <= MaxCopy
                        /\ \A i \in 1 .. Len(p) : p[i] \in Values /\ i \in 1 .. MaxCopy
  BY LenProperties, ElementOfSeq, LearnerAssumption DEF Copies
<1>1. ASSUME NEW payload \in BoundedSeq(Values, MaxPayload), Learn(payload)
      PROVE  LearnerInv'
  <2> DEFINE copy == Copy(payload)
             more == [i \in 1 .. MaxCopy |-> [v \in Values |->
                        counts[i][v] + IF i \in DOMAIN copy /\ copy[i] = v THEN 1 ELSE 0]]
  <2>1. copy \in Copies
    BY CopyIsBeginning
  <2>2. /\ counts' = more /\ taught' = taught \cup {copy}
        /\ expression' = expression /\ learned' = learned
    BY <1>1 DEF Learn
  <2> HIDE DEF copy
  <2>3. DOMAIN copy = 1 .. Len(copy)
    BY <1>0, <2>1, LenProperties
  <2>4. more \in Counts
    BY DEF LearnerInv, Counts
  <2>5. ASSUME NEW p \in taught', NEW i \in 1 .. Len(p) PROVE p \in Copies /\ more[i][p[i]] > 0
    <3>1. p \in Copies /\ p[i] \in Values /\ i \in 1 .. MaxCopy
      BY <1>0, <2>1, <2>2, <2>5 DEF LearnerInv
    <3>2. counts[i][p[i]] \in Nat
      BY <3>1 DEF LearnerInv, Counts
    <3>3. more[i][p[i]] = counts[i][p[i]] + IF i \in DOMAIN copy /\ copy[i] = p[i] THEN 1 ELSE 0
      BY <3>1
    <3>4. counts[i][p[i]] > 0 \/ p = copy
      BY <2>2 DEF LearnerInv
    <3> HIDE DEF more
    <3> QED
      BY <2>3, <2>5, <3>1, <3>2, <3>3, <3>4
  <2> HIDE DEF more
  <2> QED
    BY <2>1, <2>2, <2>4, <2>5 DEF LearnerInv
<1>2. CASE Derive
  <2> DEFINE n == Length
  <2>1. /\ expression' \in [1 .. n -> Values \cup {AnyByte}]
        /\ \A i \in 1 .. n : expression'[i] \in Tokens(i)
        /\ learned' = taught /\ counts' = counts /\ taught' = taught
    BY <1>2 DEF Derive
  <2>2. n \in Nat /\ n <= MaxCopy
    BY LengthBounded DEF LearnerInv
  <2> HIDE DEF n
  <2>3. expression' \in Seq(Values \cup {AnyByte}) /\ Len(expression') = n
    BY <2>1, <2>2
  <2>4. ASSUME NEW p \in taught, NEW i \in 1 .. n, i <= Len(p)
        PROVE  expression'[i] = AnyByte \/ expression'[i] = p[i]
    <3>1. i \in 1 .. Len(p) /\ i \in 1 .. MaxCopy
      BY <1>0, <2>2, <2>4 DEF LearnerInv
    <3>2. p[i] \in ValuesAt(i)
      BY <1>0, <3>1 DEF LearnerInv, ValuesAt
    <3>3. CASE QualityByte(i) > 80
      <4>1. expression'[i] \in ValuesAt(i)
        BY <2>1, <2>4, <3>3 DEF Tokens, Candidates
      <4> QED
        BY <3>1, <3>2, <3>3, <4>1, QualityOfOne DEF LearnerInv
    <3>4. CASE ~(QualityByte(i) > 80)
      BY <2>1, <2>4, <3>4 DEF Tokens
    <3> QED
      BY <3>3, <3>4
  <2> QED
    BY <2>1, <2>3, <2>4 DEF LearnerInv, Fitted
<1>3. CASE Reset
  <2>1. NoCounts \in Counts
    BY DEF NoCounts, Counts
  <2> QED
    BY <1>3, <2>1, EmptySeq DEF Reset, LearnerInv
<1>4. CASE UNCHANGED learnerVars
  BY <1>4 DEF learnerVars, LearnerInv
<1> QED
  BY <1>1, <1>2, <1>3, <1>4 DEF LearnerNext

\* The places that pcre may be at behind each part of an expression that fits a
\* payload include the one it would be at if every part took one byte.
LEMMA FittedAccepted ==
  ASSUME NEW p \in Copies, expression \in Seq(Values \cup {AnyByte}), Fitted(expression, p),
         Len(p) >= Len(expression)
  PROVE  Accepts(p)
<1> DEFINE k == Len(expression)
           Runs(f) == f = [i \in 0 .. k |-> IF i = 0 THEN {0} ELSE Advance(p, f[i - 1], i)]
           where == CHOOSE f : Runs(f)
           G == [i \in 0 .. k |-> SUBSET Nat]
           step == [i \in 1 .. k |-> [x \in SUBSET Nat |-> Advance(p, x, i)]]
<1>1. k \in Nat /\ Len(p) \in Nat
  BY LenProperties DEF Copies
<1>2. Accepts(p) <=> where[k] # {}
  BY DEF Accepts
<1> HIDE DEF k
<1>3. ASSUME NEW i \in 1 .. k, NEW x \in SUBSET Nat PROVE Advance(p, x, i) \in SUBSET Nat
  <2> DEFINE ahead == {q \in x : q < Len(p) /\ (expression[i] = AnyByte
                                              \/ expression[i] = p[q + 1])}
             lone == IF LoneAny(i) THEN x ELSE {}
  <2>1. Advance(p, x, i) = {q + 1 : q \in ahead} \cup lone
    BY DEF Advance
  <2>2. ahead \subseteq Nat /\ lone \subseteq Nat
    OBVIOUS
  <2> HIDE DEF ahead, lone
  <2>3. {q + 1 : q \in ahead} \subseteq Nat
    BY <2>2
  <2> QED
    BY <2>1, <2>2, <2>3
<1>4. \E f : Runs(f)
  <2>0. /\ \A i \in 1 .. k : i - 1 \in 0 .. k /\ i \in 0 .. k /\ i # 0
        /\ 0 \in 0 .. k /\ {0} \in SUBSET Nat
    BY <1>1
  <2>1. {0} \in G[0] /\ \A i \in 1 .. k : \A x \in G[i - 1] : step[i][x] \in G[i]
    BY <1>3, <2>0
  <2>2. PICK f : Iterates(f, k, G, {0}, step)
    <3> HIDE DEF step, G
    <3> QED
      BY <1>1, <2>1, Iteration
  <2>3. \A i \in 1 .. k : f[i] = Advance(p, f[i - 1], i)
    <3> SUFFICES ASSUME NEW i \in 1 .. k PROVE f[i] = Advance(p, f[i - 1], i)
      OBVIOUS
    <3>1. f[i - 1] \in SUBSET Nat /\ f[i] = step[i][f[i - 1]]
      BY <2>0, <2>2 DEF Iterates
    <3> QED
      BY <3>1
  <2>4. f = [i \in 0 .. k |-> f[i]] /\ f[0] = {0}
    BY <2>2 DEF Iterates
  <2>5. \A i \in 0 .. k : i # 0 => i \in 1 .. k
    BY <1>1
  <2>6. \A i \in 0 .. k : f[i] = IF i = 0 THEN {0} ELSE Advance(p, f[i - 1], i)
    BY <2>3, <2>4, <2>5
  <2> QED
    BY <2>4, <2>6
<1>5. Runs(where)
  BY <1>4
<1> HIDE DEF where, step, G
<1>6. k \in where[k]
  <2> DEFINE S == {i \in 0 .. k : i \in where[i]}
  <2>1. 0 \in S
    BY <1>1, <1>5
  <2>2. \A i \in 0 .. k - 1 : i \in S => i + 1 \in S
    <3> SUFFICES ASSUME NEW i \in 0 .. k - 1, i \in S PROVE i + 1 \in S
      OBVIOUS
    <3>1. i + 1 \in 1 .. k /\ i + 1 \in 0 .. k /\ i + 1 - 1 = i /\ i + 1 # 0 /\ i < Len(p)
          /\ i + 1 <= Len(p) /\ i \in where[i]
      BY <1>1 DEF k
    <3>2. where[i + 1] = Advance(p, where[i], i + 1)
      <4> DEFINE j == i + 1
      <4>1. j \in 0 .. k /\ j # 0 /\ j - 1 = i
        BY <3>1
      <4> HIDE DEF j
      <4>2. where[j] = Advance(p, where[j - 1], j)
        BY <1>5, <4>1
      <4> QED
        BY <4>1, <4>2 DEF j
    <3>3. expression[i + 1] = AnyByte \/ expression[i + 1] = p[i + 1]
      BY <3>1 DEF Fitted, k
    <3>4. i + 1 \in Advance(p, where[i], i + 1)
      BY <3>1, <3>3 DEF Advance
    <3> QED
      BY <3>1, <3>2, <3>4
  <2> HIDE DEF S
  <2>3. 0 .. k \subseteq S
    BY <1>1, <2>1, <2>2, IntervalInduction
  <2>4. k \in S
    BY <1>1, <2>3
  <2> QED
    BY <2>4 DEF S
<1> QED
  BY <1>2, <1>6

\* LearnerEngine: the expression matches every payload it was computed from that
\* is as long, whatever the flows sent and wherever they disagree.
THEOREM ExpressionsMatch == LearnerSpec => []LearnedMatches
<1>1. LearnerInv => LearnedMatches
  BY FittedAccepted DEF LearnerInv, LearnedMatches
<1> QED
  BY <1>1, LearnerInvInit, LearnerInvStep, PTL DEF LearnerSpec

-----------------------------------------------------------------------------
(***************************************************************************)
(* The frequency engine: no copy of payloads has two flows.                *)
(***************************************************************************)

FreqObjects == 1 .. FreqSize

\* What the flows but some of them have of a pool: an object that a pointer was
\* to, and that has left the vector since, is no longer had.
Had(ptr, p, without) ==
  [f \in FlowObjects |->
     IF f \notin without /\ ptr[f] # None /\ ptr[f] \in InVector(p) THEN ptr[f] ELSE None]

\* A pool of the engine, and one that lends what is had of it.
PoolOf(p) == Fits(p, FreqObjects) /\ Len(p.items) = FreqSize
LendsTo(p, had) == PoolOf(p) /\ Lends(p, FreqObjects, had, FlowObjects, None)

FreqTypes ==
  /\ table \subseteq FlowObjects
  /\ packets \in [FlowObjects -> 0 .. Limit]
  /\ freq \in [FlowObjects -> 0 .. FreqSize] /\ pkt \in [FlowObjects -> 0 .. FreqSize]
  /\ payloadsOf \in [FreqObjects -> {"none", "own", "other"}]
  /\ crashed \in BOOLEAN

\* Frequencies are only taken, never given back; packet infos come and go, and
\* a pointer of a flow may be to one that is gone.
FreqInv ==
  /\ FreqTypes
  /\ Fits(flows, FlowObjects)
  /\ PoolOf(freqs)
  /\ LendsTo(pkts, Had(pkt, pkts, {}))

\* No object is the pointer of a flow that has none.
LEMMA NoneIsNoObject == None \notin FreqObjects /\ None \notin FlowObjects
                        /\ FreqObjects \cup {None} = 0 .. FreqSize
BY FrequencyProtocolAssumption DEF None, FreqObjects, FlowObjects

\* The vector of a pool holds objects of its own.
LEMMA VectorTyped ==
  ASSUME NEW S, NEW p, Fits(p, S)
  PROVE  InVector(p) \subseteq S
BY ElementOfSeq DEF Fits, Pools, InVector

\* A pool that lends a little less.
LEMMA LessLent ==
  ASSUME NEW p, NEW had, LendsTo(p, had), NEW less \in [FlowObjects -> FreqObjects \cup {None}],
         \A f \in FlowObjects : less[f] \in {had[f], None}
  PROVE  LendsTo(p, less)
BY DEF LendsTo, Lends

\* release takes no object into the vector that was not in it, and no new slot.
LEMMA GivenBackSmaller ==
  ASSUME NEW p, PoolOf(p), NEW o
  PROVE  PoolOf(GivenBack(p, o)) /\ InVector(GivenBack(p, o)) \subseteq InVector(p)
<1> DEFINE q == GivenBack(p, o)
<1>1. CASE o \notin InVector(p) \/ ~CanRelease(p)
  BY <1>1 DEF GivenBack, Released
<1>2. CASE o \in InVector(p) /\ CanRelease(p)
  <2>1. Fits(p, FreqObjects) /\ o \in FreqObjects
    BY <1>2, VectorTyped DEF PoolOf
  <2>2. q = Released(p, o)
    BY <1>2 DEF GivenBack
  <2>3. /\ Fits(q, FreqObjects) /\ Len(q.items) = Len(p.items)
        /\ \A i \in 1 .. Len(p.items) : q.items[i] = IF i = p.total + 1 THEN o ELSE p.items[i]
    <3>1. LET r == Released(p, o)
          IN /\ Fits(r, FreqObjects) /\ r.total = p.total + 1
             /\ Len(r.items) = Len(p.items)
             /\ \A i \in 1 .. Len(p.items) :
                  r.items[i] = IF i = p.total + 1 THEN o ELSE p.items[i]
      BY <1>2, <2>1, ReleasedPool
    <3> QED
      BY <2>2, <3>1
  <2> HIDE DEF q
  <2>4. InVector(q) \subseteq InVector(p)
    BY <1>2, <2>3 DEF InVector
  <2> QED
    BY <2>3, <2>4 DEF PoolOf, q
<1> QED
  BY <1>1, <1>2

\* A flow gives its object back, if it has one: the others keep theirs, but for
\* the one whose slot was taken.
LEMMA GivenBackLends ==
  ASSUME NEW ptr \in [FlowObjects -> 0 .. FreqSize], NEW p, NEW without, NEW f \in FlowObjects,
         f \notin without, LendsTo(p, Had(ptr, p, without))
  PROVE  LET q == GivenBack(p, ptr[f])
         IN LendsTo(q, Had(ptr, q, without \cup {f}))
<1> DEFINE o == ptr[f]
           q == GivenBack(p, o)
           had == Had(ptr, p, without)
           less == [had EXCEPT ![f] = None]
           rest == Had(ptr, q, without \cup {f})
<1>1. PoolOf(p) /\ Fits(p, FreqObjects) /\ Lends(p, FreqObjects, had, FlowObjects, None)
  BY DEF LendsTo, PoolOf
<1>2. PoolOf(q) /\ InVector(q) \subseteq InVector(p)
  BY <1>1, GivenBackSmaller
<1>3. InVector(p) \subseteq FreqObjects
  BY <1>1, VectorTyped
<1>4. had[f] = (IF o # None /\ o \in InVector(p) THEN o ELSE None)
  BY DEF Had
<1>5. rest \in [FlowObjects -> FreqObjects \cup {None}]
      /\ \A g \in FlowObjects : rest[g] \in {less[g], None}
  <2>1. \A g \in FlowObjects :
          rest[g] = IF g \notin without \cup {f} /\ ptr[g] # None /\ ptr[g] \in InVector(q)
                    THEN ptr[g] ELSE None
    BY DEF Had
  <2>2. \A g \in FlowObjects :
          g # f => less[g] = IF g \notin without /\ ptr[g] # None /\ ptr[g] \in InVector(p)
                             THEN ptr[g] ELSE None
    BY DEF Had
  <2>3. \A g \in FlowObjects : rest[g] \in {less[g], None}
    <3> HIDE DEF rest, less, had, q
    <3> QED
      BY <1>2, <2>1, <2>2
  <2>4. rest \in [FlowObjects -> FreqObjects \cup {None}]
    BY NoneIsNoObject DEF Had
  <2> QED
    BY <2>3, <2>4
<1>6. LendsTo(q, less)
  <2>1. CASE had[f] = None
    <3>1. o \notin InVector(p)
      BY <1>3, <1>4, <2>1, NoneIsNoObject
    <3>2. q = p
      BY <3>1 DEF GivenBack
    <3> HIDE DEF q, had, o
    <3>3. Lends(p, FreqObjects, less, FlowObjects, None)
      BY <1>1, ForgottenLends
    <3> QED
      BY <1>2, <3>2, <3>3 DEF LendsTo
  <2>2. CASE had[f] # None
    <3>1. had[f] = o /\ q = Released(p, o)
      BY <1>4, <2>2 DEF GivenBack
    <3> HIDE DEF q, had, o
    <3>2. LET r == Released(p, had[f])
          IN /\ Lends(r, FreqObjects, [had EXCEPT ![f] = None], FlowObjects, None)
             /\ Len(r.items) = Len(p.items)
             /\ r.total = IF CanRelease(p) THEN p.total + 1 ELSE p.total
      BY <1>1, <2>2, ReleasedLends
    <3> QED
      BY <1>2, <3>1, <3>2 DEF LendsTo
  <2> QED
    BY <2>1, <2>2
<1> HIDE DEF q, less, rest
<1>7. LendsTo(q, rest)
  BY <1>5, <1>6, LessLent
<1> QED
  BY <1>7 DEF q, rest, o

\* The pools are filled, and no flow holds anything of theirs.
LEMMA FreqInvInit == Init => FreqInv
<1> SUFFICES ASSUME Init PROVE FreqInv
  OBVIOUS
<1>1. FlowSize \in Nat /\ FreqSize \in Nat /\ Limit \in Nat
  BY FrequencyProtocolAssumption
<1>2. LET p == Created(EmptyPool, [i \in 1 .. FlowSize |-> i])
      IN Lends(p, 1 .. FlowSize, [f \in FlowObjects |-> None], FlowObjects, None)
         /\ p.total = FlowSize /\ Len(p.items) = FlowSize
  BY <1>1, NewPool
<1>3. LET p == Created(EmptyPool, [i \in 1 .. FreqSize |-> i])
      IN Lends(p, 1 .. FreqSize, [f \in FlowObjects |-> None], FlowObjects, None)
         /\ p.total = FreqSize /\ Len(p.items) = FreqSize
  BY <1>1, NewPool
<1>4. Fits(flows, FlowObjects)
  BY <1>2 DEF Init, Lends, FlowObjects
<1>5. pkts = freqs /\ LendsTo(freqs, [f \in FlowObjects |-> None])
  BY <1>3 DEF Init, LendsTo, PoolOf, Lends, FreqObjects
<1>6. PoolOf(freqs) /\ LendsTo(pkts, Had(pkt, pkts, {}))
  <2>1. pkt = [f \in FlowObjects |-> None]
    BY DEF Init
  <2>2. Had(pkt, pkts, {}) = [f \in FlowObjects |-> None]
    BY <2>1 DEF Had
  <2> QED
    BY <1>5, <2>2 DEF LendsTo
<1>7. FreqTypes
  <2>1. 0 \in 0 .. Limit /\ 0 \in 0 .. FreqSize
    BY <1>1
  <2>2. packets \in [FlowObjects -> 0 .. Limit] /\ freq \in [FlowObjects -> 0 .. FreqSize]
        /\ pkt \in [FlowObjects -> 0 .. FreqSize]
    BY <2>1 DEF Init, None
  <2>3. payloadsOf \in [FreqObjects -> {"none", "own", "other"}]
    BY DEF Init, FreqObjects
  <2>4. table \subseteq FlowObjects /\ crashed \in BOOLEAN
    BY DEF Init
  <2> QED
    BY <2>2, <2>3, <2>4 DEF FreqTypes
<1> QED
  BY <1>4, <1>6, <1>7 DEF FreqInv

\* The top of a pool that has a free object, and the pool without it.
LEMMA AcquiredFits ==
  ASSUME NEW S, NEW p, Fits(p, S), CanAcquire(p)
  PROVE  Top(p) \in S /\ Fits(Acquired(p), S) /\ Acquired(p).items = p.items
<1>1. /\ p \in Pools(S) /\ p.items \in Seq(S) /\ p.total \in Nat /\ p.total <= Len(p.items)
      /\ Len(p.items) \in Nat /\ p.total \in 1 .. Len(p.items)
  BY LenProperties DEF Fits, Pools, CanAcquire
<1>2. Top(p) \in S
  BY <1>1, ElementOfSeq DEF Top
<1>3. /\ Acquired(p) \in Pools(S)
      /\ Acquired(p).total = p.total - 1 /\ Acquired(p).items = p.items
  BY <1>1 DEF Acquired, Pools, CanAcquire
<1> QED
  BY <1>1, <1>2, <1>3 DEF Fits

\* The inductive invariant holds the type of the state.
LEMMA FreqInvTypes == FreqInv => TypeOK
<1> SUFFICES ASSUME FreqInv PROVE TypeOK
  OBVIOUS
<1>1. flows \in Pools(FlowObjects)
  BY DEF FreqInv, Fits
<1>2. freqs \in Pools(1 .. FreqSize) /\ Len(freqs.items) = FreqSize
  BY DEF FreqInv, PoolOf, Fits, FreqObjects
<1>3. pkts \in Pools(1 .. FreqSize) /\ Len(pkts.items) = FreqSize
  BY DEF FreqInv, LendsTo, PoolOf, Fits, FreqObjects
<1> QED
  BY <1>1, <1>2, <1>3 DEF FreqInv, FreqTypes, TypeOK, FreqObjects

\* A flow object is used, again or for the first time, with what it had.
LEMMA BeginFlowKeeps == FreqInv /\ BeginFlow => FreqInv'
<1> SUFFICES ASSUME FreqInv, BeginFlow PROVE FreqInv'
  OBVIOUS
<1> DEFINE f == Top(flows)
<1>1. /\ FreqTypes /\ Fits(flows, FlowObjects) /\ PoolOf(freqs)
      /\ LendsTo(pkts, Had(pkt, pkts, {}))
  BY DEF FreqInv
<1>2. /\ CanAcquire(flows) /\ flows' = Acquired(flows)
      /\ table' = table \cup {f}
      /\ packets' = [packets EXCEPT ![f] = 0]
      /\ freq' = [freq EXCEPT ![f] = None]
      /\ payloadsOf' \in {payloadsOf, [payloadsOf EXCEPT ![pkt[f]] = "other"]}
      /\ freqs' = freqs /\ pkts' = pkts /\ pkt' = pkt /\ crashed' = crashed
  BY DEF BeginFlow
<1>3. f \in FlowObjects /\ Fits(flows', FlowObjects)
  BY <1>1, <1>2, AcquiredFits
<1> HIDE DEF f
<1>4. FreqTypes'
  <2>1. packets' \in [FlowObjects -> 0 .. Limit] /\ freq' \in [FlowObjects -> 0 .. FreqSize]
    BY <1>1, <1>2, <1>3, FrequencyProtocolAssumption DEF FreqTypes, None
  <2>2. payloadsOf' \in [FreqObjects -> {"none", "own", "other"}]
    BY <1>1, <1>2 DEF FreqTypes
  <2> QED
    BY <1>1, <1>2, <1>3, <2>1, <2>2 DEF FreqTypes
<1>5. PoolOf(freqs)' /\ LendsTo(pkts, Had(pkt, pkts, {}))'
  BY <1>1, <1>2
<1> QED
  BY <1>3, <1>4, <1>5 DEF FreqInv

\* A flow that ends gives back what CacheManager names, and leaves the rest.
LEMMA EndFlowKeeps ==
  ASSUME FreqInv, NEW f \in FlowObjects, EndFlow(f)
  PROVE  FreqInv'
<1>1. /\ table' = table \ {f} /\ flows' = Released(flows, f)
      /\ packets' = packets /\ freqs' = freqs /\ pkts' = pkts /\ freq' = freq /\ pkt' = pkt
      /\ payloadsOf' = payloadsOf /\ crashed' = crashed
  BY DEF EndFlow
<1>2. Fits(flows', FlowObjects)
  <2>1. Fits(flows, FlowObjects)
    BY DEF FreqInv
  <2>2. CASE ~CanRelease(flows)
    BY <1>1, <2>1, <2>2 DEF Released
  <2>3. CASE CanRelease(flows)
    <3>1. LET q == Released(flows, f)
          IN /\ Fits(q, FlowObjects) /\ q.total = flows.total + 1
             /\ Len(q.items) = Len(flows.items)
             /\ \A i \in 1 .. Len(flows.items) :
                  q.items[i] = IF i = flows.total + 1 THEN f ELSE flows.items[i]
      BY <2>1, <2>3, ReleasedPool
    <3> QED
      BY <1>1, <3>1
  <2> QED
    BY <2>2, <2>3
<1>3. FreqTypes'
  BY <1>1 DEF FreqInv, FreqTypes
<1> QED
  BY <1>1, <1>2, <1>3 DEF FreqInv

\* A flow gets a copy of its payloads from the pool, if it has none.
LEMMA ProcessFlowKeeps ==
  ASSUME FreqInv, NEW f \in FlowObjects, ProcessFlow(f),
         packets' \in [FlowObjects -> 0 .. Limit], flows' = flows, table' = table
  PROVE  FreqInv'
<1> DEFINE p == IF NeedPkt(f) THEN Top(pkts) ELSE pkt[f]
           had == Had(pkt, pkts, {})
<1>1. /\ FreqTypes /\ Fits(flows, FlowObjects) /\ PoolOf(freqs) /\ Fits(freqs, FreqObjects)
      /\ LendsTo(pkts, had) /\ PoolOf(pkts) /\ Fits(pkts, FreqObjects)
      /\ Lends(pkts, FreqObjects, had, FlowObjects, None)
  BY DEF FreqInv, LendsTo, PoolOf
<1>2. InVector(pkts) \subseteq FreqObjects
  BY <1>1, VectorTyped
<1>3. NeedFreq(f) => /\ Top(freqs) \in FreqObjects /\ Fits(Acquired(freqs), FreqObjects)
                     /\ Acquired(freqs).items = freqs.items
  BY <1>1, AcquiredFits DEF NeedFreq
<1>4. PoolOf(freqs') /\ freq' \in [FlowObjects -> 0 .. FreqSize]
  <2>1. CASE NeedFreq(f)
    <3>1. freqs' = Acquired(freqs) /\ freq' = [freq EXCEPT ![f] = Top(freqs)]
      BY <2>1 DEF ProcessFlow
    <3> QED
      BY <1>1, <1>3, <2>1, <3>1, NoneIsNoObject DEF PoolOf, FreqTypes
  <2>2. CASE ~NeedFreq(f)
    <3>1. freqs' = freqs /\ freq' = freq
      BY <2>2 DEF ProcessFlow
    <3> QED
      BY <1>1, <3>1 DEF FreqTypes
  <2> QED
    BY <2>1, <2>2
<1>5. /\ LendsTo(pkts', Had(pkt', pkts', {})) /\ pkt' \in [FlowObjects -> 0 .. FreqSize]
      /\ NeedPkt(f) => p \in FreqObjects
  <2>1. CASE NeedPkt(f)
    <3>1. pkts' = Acquired(pkts) /\ pkt' = [pkt EXCEPT ![f] = Top(pkts)]
      BY <2>1 DEF ProcessFlow
    <3>2. CanAcquire(pkts)
      BY <2>1 DEF NeedPkt
    <3> HIDE DEF had
    <3>3. LET q == Acquired(pkts)
          IN /\ Lends(q, FreqObjects, [had EXCEPT ![f] = Top(pkts)], FlowObjects, None)
             /\ Top(pkts) \in FreqObjects /\ q.total = pkts.total - 1 /\ q.items = pkts.items
      BY <1>1, <3>2, NoneIsNoObject, AcquiredLends
    <3>4. Top(pkts) \in InVector(pkts)
      <4>1. pkts.total \in 1 .. Len(pkts.items)
        BY <1>1, <3>2, LenProperties DEF Fits, Pools, CanAcquire
      <4> QED
        BY <4>1 DEF Top, InVector
    <3>5. InVector(pkts') = InVector(pkts)
      BY <3>1, <3>3 DEF InVector
    <3>6. pkt' \in [FlowObjects -> 0 .. FreqSize]
      BY <1>1, <3>1, <3>3, NoneIsNoObject DEF FreqTypes
    <3>7. Had(pkt', pkts', {}) = [had EXCEPT ![f] = Top(pkts)]
      <4>1. ASSUME NEW g \in FlowObjects
            PROVE  (IF g \notin {} /\ pkt'[g] # None /\ pkt'[g] \in InVector(pkts')
                    THEN pkt'[g] ELSE None) = [had EXCEPT ![f] = Top(pkts)][g]
        <5>1. CASE g = f
          <6>1. pkt'[f] = Top(pkts) /\ Top(pkts) # None
            BY <1>1, <3>1, <3>3, NoneIsNoObject DEF FreqTypes
          <6>2. [had EXCEPT ![f] = Top(pkts)][f] = Top(pkts)
            BY DEF had, Had
          <6> QED
            BY <3>4, <3>5, <5>1, <6>1, <6>2
        <5>2. CASE g # f
          <6>1. pkt'[g] = pkt[g]
            BY <1>1, <3>1, <5>2 DEF FreqTypes
          <6>2. [had EXCEPT ![f] = Top(pkts)][g] = had[g]
            BY <5>2 DEF had, Had
          <6>3. had[g] = IF g \notin {} /\ pkt[g] # None /\ pkt[g] \in InVector(pkts)
                         THEN pkt[g] ELSE None
            BY DEF had, Had
          <6> QED
            BY <3>5, <6>1, <6>2, <6>3
        <5> QED
          BY <5>1, <5>2
      <4>2. [had EXCEPT ![f] = Top(pkts)] = [g \in FlowObjects |-> [had EXCEPT ![f] = Top(pkts)][g]]
        BY DEF had, Had
      <4> QED
        BY <4>1, <4>2 DEF Had
    <3>8. PoolOf(pkts')
      BY <1>1, <3>1, <3>3 DEF PoolOf, Lends
    <3> QED
      BY <2>1, <3>1, <3>3, <3>6, <3>7, <3>8 DEF LendsTo
  <2>2. CASE ~NeedPkt(f)
    <3>1. pkts' = pkts /\ pkt' = pkt
      BY <2>2 DEF ProcessFlow
    <3> QED
      BY <1>1, <2>2, <3>1 DEF FreqTypes
  <2> QED
    BY <2>1, <2>2
<1>6. payloadsOf' \in [FreqObjects -> {"none", "own", "other"}]
  <2> DEFINE before == IF NeedPkt(f) THEN "none" ELSE payloadsOf[p]
             withFreq == HasFreq(f) \/ CanAcquire(freqs)
             value == IF withFreq /\ before = "none" THEN "own" ELSE before
  <2>1. payloadsOf' \in {payloadsOf, [payloadsOf EXCEPT ![p] = value]}
    BY DEF ProcessFlow
  <2>2. CASE payloadsOf' = payloadsOf
    BY <1>1, <2>2 DEF FreqTypes
  <2>3. CASE payloadsOf' = [payloadsOf EXCEPT ![p] = value]
    <3> HIDE DEF withFreq, p
    <3>1. payloadsOf \in [FreqObjects -> {"none", "own", "other"}]
      BY <1>1 DEF FreqTypes
    <3>2. p \in FreqObjects => value \in {"none", "own", "other"}
      BY <3>1
    <3> HIDE DEF value
    <3>3. p \notin FreqObjects => payloadsOf' = payloadsOf
      BY <2>3, <3>1
    <3> QED
      BY <2>3, <3>1, <3>2, <3>3
  <2> QED
    BY <2>1, <2>2, <2>3
<1>7. crashed' \in BOOLEAN
  BY DEF ProcessFlow
<1>8. FreqTypes'
  BY <1>1, <1>4, <1>5, <1>6, <1>7 DEF FreqTypes
<1> QED
  BY <1>1, <1>4, <1>5, <1>8 DEF FreqInv

\* The first packet of a flow takes its two objects, later ones use them.
LEMMA PacketKeeps ==
  ASSUME FreqInv, NEW f \in FlowObjects, NEW payload \in BOOLEAN, Packet(f, payload)
  PROVE  FreqInv'
<1>1. /\ packets[f] < Limit /\ packets' = [packets EXCEPT ![f] = @ + 1]
      /\ flows' = flows /\ table' = table
  BY DEF Packet
<1>2. packets' \in [FlowObjects -> 0 .. Limit]
  <2>1. packets \in [FlowObjects -> 0 .. Limit] /\ packets[f] + 1 \in 0 .. Limit
    BY <1>1, FrequencyProtocolAssumption DEF FreqInv, FreqTypes
  <2> QED
    BY <1>1, <2>1
<1>3. CASE ProcessFlow(f)
  BY <1>1, <1>2, <1>3, ProcessFlowKeeps
<1>4. CASE UNCHANGED <<freqs, pkts, freq, pkt, payloadsOf, crashed>>
  <2>1. FreqTypes'
    BY <1>1, <1>2, <1>4 DEF FreqInv, FreqTypes
  <2> QED
    BY <1>1, <1>4, <2>1 DEF FreqInv
<1> QED
  BY <1>3, <1>4 DEF Packet

\* releaseCache: flow after flow of the table, each gives back what it still has.
LEMMA ReleaseCacheKeeps == FreqInv /\ ReleaseCache => FreqInv'
<1> SUFFICES ASSUME FreqInv, ReleaseCache PROVE FreqInv'
  OBVIOUS
<1>0. /\ FreqTypes /\ Fits(flows, FlowObjects) /\ PoolOf(freqs)
      /\ LendsTo(pkts, Had(pkt, pkts, {}))
  BY DEF FreqInv
<1> DEFINE k == Cardinality(table)
<1>1. k \in Nat
  <2>1. IsFiniteSet(FlowObjects)
    BY FS_Interval, FrequencyProtocolAssumption DEF FlowObjects
  <2> QED
    BY <1>0, <2>1, FS_Subset, FS_CardinalityType DEF FreqTypes
<1>2. PICK walk \in SetToSeqs(table) :
        LET m[i \in 0 .. Len(walk)] ==
              IF i = 0 THEN [freqs |-> freqs, pkts |-> pkts]
              ELSE [freqs |-> GivenBack(m[i - 1].freqs, freq[walk[i]]),
                    pkts |-> GivenBack(m[i - 1].pkts, pkt[walk[i]])]
        IN freqs' = m[Len(walk)].freqs /\ pkts' = m[Len(walk)].pkts
  BY DEF ReleaseCache
<1> DEFINE first == [freqs |-> freqs, pkts |-> pkts]
           Back(x, i) == [freqs |-> GivenBack(x.freqs, freq[walk[i]]),
                          pkts |-> GivenBack(x.pkts, pkt[walk[i]])]
           Runs(g) == g = [i \in 0 .. k |-> IF i = 0 THEN first ELSE Back(g[i - 1], i)]
           m == CHOOSE g : Runs(g)
           walked(i) == {walk[j] : j \in 1 .. i}
           Both == [freqs : Pools(FreqObjects), pkts : Pools(FreqObjects)]
           G == [i \in 0 .. k |->
                   {x \in Both : PoolOf(x.freqs) /\ LendsTo(x.pkts, Had(pkt, x.pkts, walked(i)))}]
           step == [i \in 1 .. k |-> [x \in G[i - 1] |-> Back(x, i)]]
<1>3. /\ walk \in [1 .. k -> table] /\ Len(walk) = k
      /\ \A i, j \in 1 .. k : walk[i] = walk[j] => i = j
      /\ \A i \in 1 .. k : walk[i] \in table /\ walk[i] \in FlowObjects
  <2>1. walk \in {g \in [1 .. k -> table] : \A i, j \in 1 .. k : i # j => g[i] # g[j]}
    BY DEF SetToSeqs
  <2> HIDE DEF k
  <2>2. Len(walk) = k
    BY <1>1, <2>1
  <2> QED
    BY <1>0, <2>1, <2>2 DEF FreqTypes
<1>4. freqs' = m[k].freqs /\ pkts' = m[k].pkts
  BY <1>2, <1>3
<1> HIDE DEF k
<1>5. first \in G[0]
  <2>1. walked(0) = {} /\ 0 \in 0 .. k
    BY <1>1
  <2>2. first \in Both
    BY <1>0 DEF PoolOf, LendsTo, Fits
  <2> QED
    BY <1>0, <2>1, <2>2
<1>6. ASSUME NEW i \in 1 .. k, NEW x \in G[i - 1] PROVE Back(x, i) \in G[i]
  <2> DEFINE f == walk[i]
             y == Back(x, i)
  <2>0. i - 1 \in 0 .. k /\ i \in 0 .. k
    BY <1>1
  <2>1. PoolOf(x.freqs) /\ LendsTo(x.pkts, Had(pkt, x.pkts, walked(i - 1)))
    BY <2>0
  <2>2. f \in FlowObjects /\ f \notin walked(i - 1)
    <3>1. \A j \in 1 .. i - 1 : j \in 1 .. k /\ j # i
      BY <1>1
    <3> QED
      BY <1>3, <3>1
  <2>3. walked(i) = walked(i - 1) \cup {f}
    <3>1. \A j : j \in 1 .. i <=> j \in 1 .. i - 1 \/ j = i
      BY <1>1
    <3> QED
      BY <3>1
  <2>4. PoolOf(y.freqs)
    BY <2>1, GivenBackSmaller
  <2>5. LendsTo(y.pkts, Had(pkt, y.pkts, walked(i - 1) \cup {f}))
    <3>1. pkt \in [FlowObjects -> 0 .. FreqSize] /\ y.pkts = GivenBack(x.pkts, pkt[f])
      BY <1>0 DEF FreqTypes
    <3> HIDE DEF walked, y, f
    <3>2. LET q == GivenBack(x.pkts, pkt[f])
          IN LendsTo(q, Had(pkt, q, walked(i - 1) \cup {f}))
      BY <2>1, <2>2, <3>1, GivenBackLends
    <3> QED
      BY <3>1, <3>2
  <2>6. y \in Both
    BY <2>4, <2>5 DEF PoolOf, LendsTo, Fits
  <2> HIDE DEF walked, y, f
  <2>7. PoolOf(y.freqs) /\ LendsTo(y.pkts, Had(pkt, y.pkts, walked(i)))
    BY <2>3, <2>4, <2>5
  <2> QED
    BY <2>0, <2>6, <2>7 DEF y
<1> HIDE DEF G, Back, first
<1>7. \E g : Runs(g)
  <2>1. \A i \in 1 .. k : \A x \in G[i - 1] : step[i][x] \in G[i]
    BY <1>6
  <2>2. PICK g : Iterates(g, k, G, first, step)
    <3> HIDE DEF step
    <3> QED
      BY <1>1, <1>5, <2>1, Iteration
  <2>3. \A i \in 1 .. k : g[i] = Back(g[i - 1], i)
    <3> SUFFICES ASSUME NEW i \in 1 .. k PROVE g[i] = Back(g[i - 1], i)
      OBVIOUS
    <3>1. i - 1 \in 0 .. k
      BY <1>1
    <3>2. g[i - 1] \in G[i - 1] /\ g[i] = step[i][g[i - 1]]
      BY <2>2, <3>1 DEF Iterates
    <3> QED
      BY <3>2
  <2>4. g = [i \in 0 .. k |-> g[i]] /\ g[0] = first
    BY <2>2 DEF Iterates
  <2>5. \A i \in 0 .. k : i # 0 => i \in 1 .. k
    BY <1>1
  <2>6. \A i \in 0 .. k : g[i] = IF i = 0 THEN first ELSE Back(g[i - 1], i)
    BY <2>3, <2>4, <2>5
  <2> QED
    BY <2>4, <2>6
<1>8. Runs(m)
  BY <1>7
<1> HIDE DEF m, step
<1>9. m[k] \in G[k]
  <2> DEFINE S == {i \in 0 .. k : m[i] \in G[i]}
  <2>1. 0 \in S
    BY <1>1, <1>5, <1>8
  <2>2. \A i \in 0 .. k - 1 : i \in S => i + 1 \in S
    <3> SUFFICES ASSUME NEW i \in 0 .. k - 1, i \in S PROVE i + 1 \in S
      OBVIOUS
    <3>1. i + 1 \in 1 .. k /\ i + 1 \in 0 .. k /\ i + 1 - 1 = i /\ i + 1 # 0
      BY <1>1
    <3>2. m[i + 1] = Back(m[i], i + 1)
      <4> DEFINE j == i + 1
      <4>1. j \in 0 .. k /\ j # 0 /\ j - 1 = i
        BY <3>1
      <4> HIDE DEF j
      <4>2. m[j] = Back(m[j - 1], j)
        BY <1>8, <4>1
      <4> QED
        BY <4>1, <4>2 DEF j
    <3>3. m[i] \in G[i + 1 - 1]
      BY <3>1
    <3> QED
      BY <1>6, <3>1, <3>2, <3>3
  <2> HIDE DEF S
  <2>3. 0 .. k \subseteq S
    BY <1>1, <2>1, <2>2, IntervalInduction
  <2>4. k \in S
    BY <1>1, <2>3
  <2> QED
    BY <2>4 DEF S
<1>10. PoolOf(freqs') /\ LendsTo(pkts', Had(pkt, pkts', walked(k)))
  <2>1. k \in 0 .. k
    BY <1>1
  <2> HIDE DEF walked, Both
  <2>2. m[k] \in {x \in Both : PoolOf(x.freqs) /\ LendsTo(x.pkts, Had(pkt, x.pkts, walked(k)))}
    BY <1>9, <2>1 DEF G
  <2>3. PoolOf(m[k].freqs) /\ LendsTo(m[k].pkts, Had(pkt, m[k].pkts, walked(k)))
    BY <2>2
  <2> QED
    BY <1>4, <2>3
<1>11. /\ freq' = [f \in FlowObjects |-> IF f \in table THEN None ELSE freq[f]]
       /\ pkt' = [f \in FlowObjects |-> IF f \in table THEN None ELSE pkt[f]]
       /\ flows' = flows /\ table' = table /\ packets' = packets
       /\ payloadsOf' = payloadsOf /\ crashed' = crashed
  BY DEF ReleaseCache
<1>12. FreqTypes'
  <2>1. freq' \in [FlowObjects -> 0 .. FreqSize] /\ pkt' \in [FlowObjects -> 0 .. FreqSize]
    BY <1>0, <1>11, FrequencyProtocolAssumption DEF FreqTypes, None
  <2> QED
    BY <1>0, <1>11, <2>1 DEF FreqTypes
<1>13. LendsTo(pkts', Had(pkt', pkts', {}))
  <2> DEFINE had == Had(pkt, pkts', walked(k))
             less == Had(pkt', pkts', {})
  <2>1. walked(k) \subseteq table
    BY <1>3
  <2> HIDE DEF walked
  <2>2. \A f \in FlowObjects : less[f] \in {had[f], None}
    BY <1>11, <2>1 DEF Had
  <2>3. PoolOf(pkts')
    BY <1>10 DEF LendsTo
  <2>4. InVector(pkts') \subseteq FreqObjects
    BY <2>3, VectorTyped DEF PoolOf
  <2>5. less \in [FlowObjects -> FreqObjects \cup {None}]
    BY <2>4 DEF Had
  <2> HIDE DEF had, less
  <2>6. LendsTo(pkts', had)
    BY <1>10 DEF had
  <2>7. LendsTo(pkts', less)
    BY <2>2, <2>5, <2>6, LessLent
  <2> QED
    BY <2>7 DEF less
<1> QED
  BY <1>0, <1>10, <1>11, <1>12, <1>13 DEF FreqInv

\* Flows, packets and releaseCache, in any order.
LEMMA FreqInvStep == FreqInv /\ [Next]_vars => FreqInv'
<1> SUFFICES ASSUME FreqInv, [Next]_vars PROVE FreqInv'
  OBVIOUS
<1>1. CASE UNCHANGED vars
  BY <1>1 DEF vars, FreqInv, FreqTypes
<1>2. CASE BeginFlow
  BY <1>2, BeginFlowKeeps
<1>3. CASE ReleaseCache
  BY <1>3, ReleaseCacheKeeps
<1>4. ASSUME NEW f \in FlowObjects, EndFlow(f) PROVE FreqInv'
  BY <1>4, EndFlowKeeps
<1>5. ASSUME NEW f \in FlowObjects, NEW payload \in BOOLEAN, Packet(f, payload) PROVE FreqInv'
  BY <1>5, PacketKeeps
<1> QED
  BY <1>1, <1>2, <1>3, <1>4, <1>5 DEF Next

\* FrequencyProtocol: the flows that hold a copy of payloads, old pointers of
\* flows that began again included, hold one each, for any sizes of the pools.
THEOREM CopiesNeverShared == Spec => []CopiesNotShared
<1>1. FreqInv => CopiesNotShared
  <2> SUFFICES ASSUME FreqInv PROVE CopiesNotShared
    OBVIOUS
  <2> DEFINE had == Had(pkt, pkts, {})
  <2>1. Lends(pkts, FreqObjects, had, FlowObjects, None)
    BY DEF FreqInv, LendsTo
  <2>2. \A f \in FlowObjects : HasPkt(f) => had[f] = pkt[f] /\ had[f] # None
    BY DEF HasPkt, Had
  <2> HIDE DEF had
  <2>3. \A f, g \in FlowObjects : HasPkt(f) /\ HasPkt(g) /\ pkt[f] = pkt[g] => f = g
    BY <2>1, <2>2 DEF Lends
  <2>4. \A f \in FlowObjects : HasPkt(f) => pkt[f] \notin FreeObjects(pkts)
    BY <2>1, <2>2 DEF Lends, FreeObjects
  <2> QED
    BY <2>3, <2>4, FreqInvTypes DEF CopiesNotShared
<1> QED
  BY <1>1, FreqInvInit, FreqInvStep, PTL DEF Spec

-----------------------------------------------------------------------------
(***************************************************************************)
(* The program: what is in the flow tables is the inputs that were read.   *)
(***************************************************************************)

InputNames == FileNames \cup {"device"}
Openable == {"pcap", "raises"}

\* The inputs whose packets were seen: those that are closed, and one that is
\* about to be.
InputsSeen == (Len(AllInputs) - Len(inputs)) + (IF at = "close" THEN 1 ELSE 0)

\* Where main is says if there is a handler, an open input and a report.
MainPlaces ==
  /\ at \in {"start", "open", "run", "close", "exit", "over"}
  /\ at \notin {"start", "over"} => registered /\ opts.stack # "other"
  /\ at \in {"start", "open", "exit"} => ready = NoInput
  /\ at \in {"open", "run", "close"} => opts.input # "unreadable"
  /\ at = "start" => inputs = <<>> /\ tables = {} /\ attached = {}
  /\ at # "over" => report = NoReport

\* The names that are left are the last ones of all.
InputsLeft ==
  at \in {"open", "run", "close"} =>
    /\ inputs \in Seq(InputNames) /\ Len(inputs) <= Len(AllInputs)
    /\ \A i \in 1 .. Len(inputs) : inputs[i] = AllInputs[Len(AllInputs) - Len(inputs) + i]
    /\ at # "open" => inputs # <<>> /\ ready = Head(inputs)

\* What is in the tables.
TablesHold ==
  /\ opts.input = "directory" /\ at \in {"open", "run", "close"} =>
       /\ tables = {AllInputs[j] : j \in 1 .. InputsSeen}
       /\ \A j \in 1 .. InputsSeen : Found(AllInputs[j]) \in Openable
       /\ at # "open" => Found(ready) \in Openable
  /\ opts.input = "directory" /\ at = "exit" => tables = Readable(AllInputs)
  /\ opts.input = "device" => tables \subseteq {"device"}
  /\ opts.input = "unreadable" => tables = {}

\* Until the caches are released every flow has its frequencies.
FrequenciesHeld ==
  engines = {"frequency"} /\ at # "over" =>
    \A name \in tables : <<name, "frequencies">> \in attached

MainInv ==
  /\ opts \in Considered
  /\ files.listing \in Seq(FileNames) /\ files.found \in [FileNames -> Contents]
  /\ MainPlaces /\ InputsLeft /\ TablesHold /\ FrequenciesHeld /\ ReportsAtEnd


\* What can be opened is read up to the first that cannot.
LEMMA ReadUpTo ==
  ASSUME NEW names, names \in Seq(InputNames), NEW n \in 0 .. Len(names),
         \A j \in 1 .. n : Found(names[j]) \in Openable,
         n < Len(names) => Found(names[n + 1]) \notin Openable
  PROVE  Readable(names) = {names[j] : j \in 1 .. n}
<1>0. Len(names) \in Nat
  OBVIOUS
<1>1. ASSUME NEW j \in 1 .. Len(names), \A k \in 1 .. j : Found(names[k]) \in Openable
      PROVE  j \in 1 .. n
  <2>1. CASE j > n
    <3>1. n + 1 \in 1 .. j /\ n < Len(names)
      BY <1>0, <2>1
    <3> QED
      BY <1>1, <3>1
  <2> QED
    BY <1>0, <2>1
<1>2. {j \in 1 .. Len(names) : \A k \in 1 .. j : Found(names[k]) \in Openable} = 1 .. n
  <2>1. ASSUME NEW j \in 1 .. n
        PROVE  j \in 1 .. Len(names) /\ \A k \in 1 .. j : k \in 1 .. n
    BY <1>0
  <2> QED
    BY <1>1, <2>1
<1> QED
  BY <1>2 DEF Readable, Openable

\* The inputs of the program are a list of names.
LEMMA AllInputsTyped ==
  ASSUME files.listing \in Seq(FileNames)
  PROVE  AllInputs \in Seq(InputNames)
<1>1. <<"device">> \in Seq(InputNames)
  BY DEF InputNames
<1>2. files.listing \in Seq(InputNames)
  BY DEF InputNames
<1> QED
  BY <1>1, <1>2 DEF AllInputs

\* The directory and the options stay as they are, and so does what is read.
LEMMA InputsStay ==
  ASSUME UNCHANGED <<opts, files>>
  PROVE  /\ AllInputs' = AllInputs
         /\ \A name : Found(name)' = Found(name)
         /\ Readable(AllInputs)' = Readable(AllInputs)
<1>1. AllInputs' = AllInputs
  BY DEF AllInputs
<1>2. \A name : Found(name)' = Found(name)
  BY DEF Found
<1> QED
  BY <1>1, <1>2 DEF Readable, Found

\* The program starts within the invariant,
LEMMA MainStart == MainInit => MainInv
<1> SUFFICES ASSUME MainInit PROVE MainInv
  OBVIOUS
<1>1. files.listing \in Seq(FileNames)
  <2>1. NoFiles.listing = <<>>
    BY DEF NoFiles
  <2>2. CASE opts.input = "directory"
    <3>1. files.listing \in BoundedSeq(FileNames, MaxListed)
      BY <2>2 DEF MainInit, Directories
    <3>2. PICK m \in 0 .. MaxListed : files.listing \in [1 .. m -> FileNames]
      BY <3>1 DEF BoundedSeq, SeqOf
    <3>3. m \in Nat
      BY MainAssumption
    <3> QED
      BY <3>2, <3>3
  <2>3. CASE opts.input # "directory"
    <3>1. files.listing = <<>>
      BY <2>1, <2>3 DEF MainInit
    <3> QED
      BY <3>1
  <2> QED
    BY <2>2, <2>3
<1>2. opts \in Considered /\ files.found \in [FileNames -> Contents]
  BY DEF MainInit, Directories, NoFiles, Contents
<1>4. MainPlaces
  BY DEF MainInit, MainBegins, MainPlaces
<1>3. InputsLeft /\ TablesHold /\ FrequenciesHeld /\ ReportsAtEnd
  BY DEF MainInit, MainBegins, InputsLeft, TablesHold, FrequenciesHeld, ReportsAtEnd
<1> QED
  BY <1>1, <1>2, <1>3, <1>4 DEF MainInv

\* and every step of it keeps it.
LEMMA MainStep == MainInv /\ [MainNext]_mainVars => MainInv'
<1> SUFFICES ASSUME MainInv, [MainNext]_mainVars PROVE MainInv'
  OBVIOUS
<1> DEFINE names == AllInputs  n == Len(names) - Len(inputs)
<1>0. names \in Seq(InputNames)
  BY AllInputsTyped DEF MainInv
<1>1. CASE UnknownStack /\ UNCHANGED <<opts, files, ready, tables, attached, report>>
  BY <1>1 DEF UnknownStack, MainInv, MainPlaces, InputsLeft, TablesHold, FrequenciesHeld,
    ReportsAtEnd
<1>2. CASE Configure /\ UNCHANGED <<opts, files, ready, tables, attached, report>>
  <2>1. names' = names /\ Readable(AllInputs)' = Readable(AllInputs)
    BY <1>2, InputsStay
  <2>2. MainPlaces'
    BY <1>2 DEF Configure, MainInv, MainPlaces
  <2>3. opts.input # "unreadable" => inputs' = names /\ at' = "open"
    BY <1>2 DEF Configure
  <2>4. opts.input = "unreadable" => at' = "exit"
    BY <1>2 DEF Configure
  <2>5. tables' = {} /\ opts' = opts
    BY <1>2 DEF Configure, MainInv, MainPlaces
  <2> HIDE DEF names
  <2>6. Len(names) \in Nat
    BY <1>0
  <2>7. InputsLeft'
    BY <1>0, <2>1, <2>3, <2>4, <2>6 DEF InputsLeft, names
  <2>8. TablesHold'
    <3>1. opts.input # "unreadable" => InputsSeen' = 0
      BY <2>1, <2>3, <2>6 DEF InputsSeen, names
    <3> QED
      BY <2>1, <2>3, <2>4, <2>5, <3>1 DEF TablesHold, MainInv
  <2>9. FrequenciesHeld' /\ ReportsAtEnd'
    BY <2>3, <2>4, <2>5 DEF FrequenciesHeld, ReportsAtEnd
  <2> QED
    BY <1>2, <2>2, <2>7, <2>8, <2>9 DEF MainInv
<1>3. ASSUME UNCHANGED <<opts, files, registered, engines, sm, report>>,
             Open \/ RunFile \/ RunDevice \/ Close \/ Return
      PROVE  MainInv'
  <2>1. names' = names /\ Readable(names)' = Readable(names)
    BY <1>3, InputsStay
  <2>2. \A name : Found(name)' = Found(name)
    BY <1>3, InputsStay
  <2>3. at \in {"open", "run", "close"} /\ at' # "over"
    BY <1>3 DEF Open, RunFile, RunDevice, Close, Return
  <2>4. /\ inputs \in Seq(InputNames) /\ Len(inputs) \in Nat /\ Len(names) \in Nat
        /\ Len(inputs) <= Len(names) /\ n \in 0 .. Len(names)
        /\ \A i \in 1 .. Len(inputs) : inputs[i] = names[n + i]
    <3>1. /\ inputs \in Seq(InputNames) /\ Len(inputs) <= Len(names)
          /\ \A i \in 1 .. Len(inputs) : inputs[i] = names[n + i]
      BY <2>3 DEF MainInv, InputsLeft
    <3> HIDE DEF names
    <3> QED
      BY <1>0, <3>1
  <2>5. inputs # <<>> => n + 1 \in 1 .. Len(names) /\ Head(inputs) = names[n + 1]
    <3> HIDE DEF names
    <3> QED
      BY <2>4
  <2>6. ReportsAtEnd'
    BY <2>3 DEF ReportsAtEnd
  <2>7. MainPlaces'
    BY <1>3 DEF MainInv, MainPlaces, Open, RunFile, RunDevice, Close, Return
  <2>8. opts.input = "device" => tables' \subseteq {"device"}
    <3>1. opts.input = "device" /\ at # "open" => ready = "device"
      <4>1. CASE opts.input = "device" /\ at # "open"
        <5>1. names = <<"device">> /\ inputs # <<>> /\ ready = Head(inputs)
          BY <2>3, <4>1 DEF MainInv, InputsLeft, AllInputs
        <5> HIDE DEF names
        <5>2. n = 0
          BY <2>4, <2>5, <5>1
        <5> QED
          BY <2>5, <5>1, <5>2
      <4> QED
        BY <4>1
    <3> HIDE DEF names
    <3> QED
      BY <1>3, <3>1 DEF Open, RunFile, RunDevice, Close, Return, Inspected, MainInv, TablesHold
  <2>9. opts.input = "unreadable" => FALSE
    BY <2>3 DEF MainInv, MainPlaces
  <2>10. FrequenciesHeld'
    <3>1. CASE UNCHANGED <<tables, attached>>
      BY <1>3, <2>3, <3>1 DEF FrequenciesHeld, MainInv
    <3>2. CASE Inspected(ready) /\ engines = {"frequency"}
      <4>1. attached' = attached \cup {<<ready, "frequencies">>}
        BY <3>2 DEF Inspected
      <4>2. tables' = tables \cup {ready}
        BY <3>2 DEF Inspected
      <4> QED
        BY <1>3, <2>3, <3>2, <4>1, <4>2 DEF FrequenciesHeld, MainInv
    <3>3. CASE engines # {"frequency"}
      BY <1>3, <3>3 DEF FrequenciesHeld
    <3> QED
      BY <1>3, <3>1, <3>2, <3>3 DEF Open, RunFile, RunDevice, Close, Return
  <2> HIDE DEF names
  \* the part that is about a directory, and the names that are left
  <2>11. SUFFICES InputsLeft'
                  /\ (opts.input = "directory" /\ at' \in {"open", "run", "close"} =>
                        /\ tables' = {names[j] : j \in 1 .. InputsSeen'}
                        /\ \A j \in 1 .. InputsSeen' : Found(names[j]) \in Openable
                        /\ at' # "open" => Found(ready') \in Openable)
                  /\ (opts.input = "directory" /\ at' = "exit" => tables' = Readable(names))
    <3>1. opts' = opts /\ files' = files
      BY <1>3
    <3>2. AllInputs' = names /\ Readable(AllInputs)' = Readable(names)
      BY <2>1 DEF names
    <3>3. Found(ready)' = Found(ready') /\ \A j : Found(AllInputs[j])' = Found(names[j])
      BY <3>1, <3>2 DEF Found
    <3>4. TablesHold'
      BY <2>8, <2>9, <2>11, <3>1, <3>2, <3>3 DEF TablesHold
    <3> QED
      BY <2>6, <2>7, <2>10, <2>11, <3>1, <3>4 DEF MainInv
  <2>12. opts.input = "directory" =>
           /\ tables = {names[j] : j \in 1 .. InputsSeen}
           /\ \A j \in 1 .. InputsSeen : Found(names[j]) \in Openable
           /\ at # "open" => Found(ready) \in Openable
    BY <2>3 DEF MainInv, TablesHold, names
  <2>13. InputsSeen = n + (IF at = "close" THEN 1 ELSE 0)
    BY DEF InputsSeen, names
  <2>14. InputsSeen' = (Len(names) - Len(inputs')) + (IF at' = "close" THEN 1 ELSE 0)
    BY <2>1 DEF InputsSeen, names
  <2>15. at # "open" => inputs # <<>> /\ ready = Head(inputs)
    BY <2>3 DEF MainInv, InputsLeft
  <2>16. CASE Open
    <3>1. at = "open" /\ inputs # <<>> /\ UNCHANGED <<inputs, tables>>
      BY <2>16 DEF Open
    <3>2. InputsSeen = n
      BY <2>13, <3>1, <2>4
    <3>3. CASE Found(Head(inputs)) \in {"pcap", "raises", "device"} /\ at' = "run" /\ ready' = Head(inputs)
      <4>1. InputsSeen' = n
        BY <2>14, <3>1, <3>3, <2>4
      <4>2. InputsLeft'
        BY <2>1, <2>4, <3>1, <3>3 DEF InputsLeft, names
      <4>3. opts.input = "directory" => Found(Head(inputs)) \in Openable
        <5>1. opts.input = "directory" => names[n + 1] \in FileNames
          BY <2>5, <3>1 DEF names, AllInputs, MainInv
        <5>2. opts.input = "directory" => Found(names[n + 1]) \in Contents
          BY <5>1, MainAssumption DEF Found, MainInv
        <5> QED
          BY <2>5, <3>1, <3>3, <5>2 DEF Openable, Contents
      <4> QED
        BY <2>12, <3>1, <3>2, <3>3, <4>1, <4>2, <4>3
    <3>4. CASE Found(Head(inputs)) \in {"broken", "absent", "device"} /\ at' = "exit"
      <4>1. opts.input = "directory" => Found(names[n + 1]) \notin Openable
        BY <2>5, <3>1, <3>4 DEF Openable
      <4>2. opts.input = "directory" => Readable(names) = {names[j] : j \in 1 .. n}
        BY <1>0, <2>4, <2>12, <3>2, <4>1, ReadUpTo
      <4>3. InputsLeft'
        BY <3>4 DEF InputsLeft
      <4> QED
        BY <2>12, <3>1, <3>2, <3>4, <4>2, <4>3
    <3> QED
      BY <2>16, <3>3, <3>4 DEF Open
  <2>17. CASE RunFile \/ RunDevice
    <3>1. at = "run" /\ UNCHANGED <<inputs, ready>> /\ at' \in {"run", "close"}
      BY <2>17 DEF RunFile, RunDevice
    <3>2. InputsLeft'
      BY <2>1, <2>4, <2>15, <3>1 DEF InputsLeft, names
    <3>3. opts.input = "directory" => at' = "close" /\ tables' = tables \cup {ready}
      BY <2>12, <2>17, <3>1 DEF RunFile, RunDevice, Inspected, Openable
    <3>4. CASE opts.input = "directory"
      <4>1. InputsSeen = n /\ InputsSeen' = n + 1
        BY <2>4, <2>13, <2>14, <3>1, <3>3, <3>4
      <4>2. ready = names[n + 1]
        BY <2>5, <2>15, <3>1
      <4>3. \A j \in 1 .. n + 1 : j \in 1 .. n \/ j = n + 1
        BY <2>4
      <4>4. 1 .. n \subseteq 1 .. n + 1 /\ n + 1 \in 1 .. n + 1
        BY <2>4
      <4>5. {names[j] : j \in 1 .. n + 1} = {names[j] : j \in 1 .. n} \cup {names[n + 1]}
        BY <4>3, <4>4
      <4> QED
        BY <2>12, <3>1, <3>2, <3>3, <3>4, <4>1, <4>2, <4>3, <4>5
    <3> QED
      BY <3>1, <3>2, <3>4
  <2>18. CASE Close
    <3>1. at = "close" /\ at' = "open" /\ inputs' = Tail(inputs) /\ tables' = tables
      BY <2>18 DEF Close
    <3>2. inputs # <<>>
      BY <2>15, <3>1
    <3>3. /\ inputs' \in Seq(InputNames) /\ Len(inputs') = Len(inputs) - 1 /\ Len(inputs) > 0
          /\ \A i \in 1 .. Len(inputs') : inputs'[i] = inputs[i + 1]
      BY <2>4, <3>1, <3>2
    <3>4. InputsSeen' = n + 1 /\ InputsSeen = n + 1
      BY <2>4, <2>13, <2>14, <3>1, <3>3
    <3>5. InputsLeft'
      <4>1. \A i \in 1 .. Len(inputs') : inputs'[i] = names[Len(names) - Len(inputs') + i]
        <5> TAKE i \in 1 .. Len(inputs')
        <5>1. i + 1 \in 1 .. Len(inputs) /\ n + (i + 1) = Len(names) - Len(inputs') + i
          BY <2>4, <3>3
        <5> QED
          BY <2>4, <3>3, <5>1
      <4>2. Len(inputs') <= Len(names)
        BY <2>4, <3>3
      <4> QED
        BY <2>1, <3>1, <3>3, <4>1, <4>2 DEF InputsLeft, names
    <3> QED
      BY <2>12, <3>1, <3>4, <3>5
  <2>19. CASE Return
    <3>1. at = "open" /\ at' = "exit" /\ inputs = <<>> /\ tables' = tables
      BY <2>19 DEF Return
    <3>2. InputsSeen = n /\ n = Len(names)
      BY <2>4, <2>13, <3>1
    <3>3. opts.input = "directory" => Readable(names) = {names[j] : j \in 1 .. n}
      <4>1. ~(n < Len(names))
        BY <2>4, <3>2
      <4> QED
        BY <1>0, <2>4, <2>12, <3>2, <4>1, ReadUpTo
    <3>4. InputsLeft'
      BY <3>1 DEF InputsLeft
    <3> QED
      BY <2>12, <3>1, <3>2, <3>3, <3>4
  <2> QED
    BY <1>3, <2>16, <2>17, <2>18, <2>19
<1>4. CASE Exit /\ UNCHANGED <<opts, files, registered, engines, sm>>
  <2>1. Readable(AllInputs)' = Readable(AllInputs)
    BY <1>4, InputsStay
  <2>2. at = "exit" /\ at' = "over" /\ UNCHANGED <<inputs, ready, tables>>
    BY <1>4 DEF Exit
  <2>3. registered /\ ready = NoInput /\ report.times = 0
    BY <2>2 DEF MainInv, MainPlaces, NoReport
  <2>4. Reported(attached)
    BY <1>4, <2>3 DEF Exit, AiengineExit
  <2>5. /\ report'.times = 1 /\ report'.open = NoInput /\ report'.flows = tables
    BY <2>3, <2>4 DEF Reported
  <2>6. engines = {"frequency"} /\ opts.flowType = "tcp" /\ opts.groupBy = "dst-port" =>
          report'.freqs = tables /\ (opts.learner => report'.learned = tables \cap KeyNames)
    <3>1. \A name \in tables : engines = {"frequency"} => <<name, "frequencies">> \in attached
      BY <2>2 DEF MainInv, FrequenciesHeld
    <3>2. CASE engines = {"frequency"} /\ opts.flowType = "tcp" /\ opts.groupBy = "dst-port"
      <4>1. ComputeFrequencyGroup(attached) = tables
        BY <3>1, <3>2 DEF ComputeFrequencyGroup
      <4> QED
        BY <2>4, <3>2, <4>1 DEF Reported, ShowLearnerResults
    <3> QED
      BY <3>2
  <2>7. ReportsAtEnd'
    BY <1>4, <2>1, <2>2, <2>5, <2>6 DEF ReportsAtEnd, MainInv, TablesHold
  <2>8. MainPlaces' /\ InputsLeft' /\ FrequenciesHeld'
    BY <2>2 DEF MainPlaces, InputsLeft, FrequenciesHeld
  <2>9. TablesHold'
    BY <1>4, <2>2 DEF TablesHold, MainInv
  <2> QED
    BY <1>4, <2>7, <2>8, <2>9 DEF MainInv
<1>5. CASE UNCHANGED mainVars
  <2>1. names' = names /\ Readable(AllInputs)' = Readable(AllInputs) /\ \A name : Found(name)' = Found(name)
    BY <1>5, InputsStay DEF mainVars
  <2>2. InputsSeen' = InputsSeen
    BY <1>5, <2>1 DEF InputsSeen, mainVars
  <2>3. InputsLeft' /\ MainPlaces' /\ FrequenciesHeld' /\ ReportsAtEnd'
    BY <1>5, <2>1 DEF InputsLeft, MainPlaces, FrequenciesHeld, ReportsAtEnd, mainVars, MainInv
  <2>4. TablesHold'
    <3>1. /\ Found(ready)' = Found(ready)
          /\ \A j : Found(AllInputs[j])' = Found(AllInputs[j])
      BY <1>5 DEF Found, AllInputs, mainVars
    <3> QED
      BY <1>5, <2>1, <2>2, <3>1 DEF TablesHold, mainVars, MainInv
  <2> QED
    BY <1>5, <2>3, <2>4 DEF MainInv, mainVars
<1> QED
  BY <1>1, <1>2, <1>3, <1>4, <1>5 DEF MainNext

\* However the program ends, after its stack is there, it reports exactly once,
\* with no input open, everything it read up to an input that cannot be opened,
\* and the frequencies of all of it before it releases them (aiengineExit and
\* the loop over the inputs of main), whatever the files of the directory are.
THEOREM ReportsAtEndAlways == MainSpec => []ReportsAtEnd
<1>1. MainInv => ReportsAtEnd
  BY DEF MainInv
<1> QED
  BY MainStart, MainStep, <1>1, PTL DEF MainSpec

=============================================================================
