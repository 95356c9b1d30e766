----------------------------- MODULE TCPReject -----------------------------
(***************************************************************************)
(* What the engine answers when a script has rejected a TCP flow: a reset  *)
(* to each end, in the name of the other, after any packet of the flow.    *)
(* An end believes a reset that has the number it expects next, so what    *)
(* TCPProtocol::computeState remembers of the numbers decides.  A segment  *)
(* that is seen has also reached the other end.                            *)
(***************************************************************************)
EXTENDS RejectManager, FiniteSets

CONSTANTS
  Modulus,      \* bound: what sequence numbers are counted modulo, not 2^32
  MaxBytes      \* bound: payload of a segment

ASSUME TCPRejectAssumption == Modulus \in Nat \ {0} /\ MaxBytes \in Nat

VARIABLES
  seq_num,      \* TCPInfo::seq_num, of the upstream and the downstream
  next,         \* the wire: the number that an end sends next; -1 before its SYN
  fins,         \* the wire: the ends that have sent a FIN
  newest,       \* history: the ends whose last segment was their newest
  samePorts,    \* both ports of the flow are equal
  ipv6          \* the stack is StackLanIPv6

rejectVars == <<seq_num, next, fins, newest, samePorts, ipv6>>

Number(n) == n % Modulus
Numbers == 0 .. Modulus - 1

\* getFlow tells the direction of a packet by its source port.
DirOf(end) == IF samePorts \/ end = "source" THEN "FORWARD" ELSE "BACKWARD"

\* Mutant: a SYN takes no number.
ComputeStateNoSyn(dir, flag, seq, bytes) == [seq_num EXCEPT ![dir] = Number(seq + bytes)]

\* What computeState does about the numbers: only a SYN without ACK takes one.
ComputeState(dir, flag, seq, bytes) ==
  [seq_num EXCEPT ![dir] = Number(seq + (IF flag = "SYN" THEN 1 ELSE 0) + bytes)]

-----------------------------------------------------------------------------

\* A reset: the ends in its header, the address and the port that the socket is
\* given.
RST(from, seq, port) ==
  [from |-> from, to |-> Opposite(from), seq |-> seq,
   endpoint |-> Opposite(from), port |-> port]

\* rejectTCPFlow of StackLan, and of StackLanIPv6, whose socket wants no port.
RejectTCPFlowLan ==
  {RST("destination", seq_num["FORWARD"], "source"),
   RST("source", seq_num["FORWARD"], "destination")}

RejectTCPFlowLanIPv6 ==
  {RST("destination", seq_num["FORWARD"], "none"),
   RST("source", seq_num["FORWARD"], "none")}

RejectTCPFlow == IF ipv6 THEN RejectTCPFlowLanIPv6 ELSE RejectTCPFlowLan

-----------------------------------------------------------------------------
(***************************************************************************)
(* The connection                                                          *)
(***************************************************************************)

RejectInit ==
  /\ seq_num = [dir \in {"FORWARD", "BACKWARD"} |-> 0]
  /\ next = [end \in Ends |-> -1]
  /\ fins = {} /\ newest = {}
  /\ samePorts \in BOOLEAN /\ ipv6 \in BOOLEAN

Seen(end, flag, seq, bytes, length) ==
  /\ seq_num' = ComputeState(DirOf(end), flag, seq, bytes)
  /\ next' = [next EXCEPT ![end] = Number(seq + length)]
  /\ newest' = newest \cup {end}
  /\ UNCHANGED <<samePorts, ipv6>>

\* The source opens with a SYN, the destination answers with a SYN and an ACK.
Establish(end, isn) ==
  /\ next[end] = -1
  /\ end = "destination" => next["source"] # -1
  /\ Seen(end, IF end = "source" THEN "SYN" ELSE "SYNACK", isn, 0, 1)
  /\ UNCHANGED fins

\* An end sends what comes next.  The source waits for the answer.
Send(end, bytes, fin) ==
  /\ next["destination"] # -1 /\ end \notin fins
  /\ Seen(end, IF fin THEN "FIN" ELSE "ACK", next[end], bytes, bytes + IF fin THEN 1 ELSE 0)
  /\ fins' = IF fin THEN fins \cup {end} ELSE fins

\* It sends again something of before.
SendAgain(end, seq, bytes) ==
  /\ next["destination"] # -1
  /\ seq_num' = ComputeState(DirOf(end), "ACK", seq, bytes)
  /\ newest' = newest \ {end}
  /\ UNCHANGED <<next, fins, samePorts, ipv6>>

RejectNext ==
  \E end \in Ends :
    \/ \E isn \in Numbers : Establish(end, isn)
    \/ \E bytes \in 0 .. MaxBytes :
         \/ \E fin \in BOOLEAN : Send(end, bytes, fin)
         \/ \E seq \in Numbers : SendAgain(end, seq, bytes)

RejectSpec == RejectInit /\ [][RejectNext]_rejectVars

-----------------------------------------------------------------------------
(***************************************************************************)
(* Safety                                                                  *)
(***************************************************************************)

\* Whenever a flow is rejected, in the handshake, between data of both ends or
\* when the numbers wrap, both ends get a reset that seems to be of the other
\* one, and the destination believes it, unless the last that the source sent
\* was old or the source has finished.
ResetBelieved ==
  /\ {r.to : r \in RejectTCPFlow} = Ends
  /\ \A r \in RejectTCPFlow : r.endpoint = r.to /\ r.from # r.to
  /\ ~samePorts /\ "source" \in newest \ fins =>
       \A r \in RejectTCPFlow : r.to = "destination" => r.seq = next["source"]

-----------------------------------------------------------------------------

\* RejectManager.cc:68, "TODO: verify the sequence numbers": both resets are
\* believed.
ResetsBelieved ==
  newest = Ends /\ fins = {} => \A r \in RejectTCPFlow : r.seq = next[r.from]

=============================================================================
