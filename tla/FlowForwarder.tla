---------------------------- MODULE FlowForwarder ----------------------------
(***************************************************************************)
(* The forwarder of a transport protocol and the engines of a stack that   *)
(* are enabled and disabled under it.  A flow sticks to the first protocol *)
(* of the list that accepts a packet of it, until the flow ends.           *)
(***************************************************************************)
EXTENDS FiniteSets, Functions, SequencesExt, StackForwarders

CONSTANTS
  Flows,
  Switches      \* bound: calls that switch an engine

ASSUME FlowForwarderAssumption == Switches \in Nat

None == "none"

VARIABLES
  wiring,       \* the lists of a stack's transport, see StackForwarders
  up,           \* flowForwarderVector_
  forwarder,    \* the protocol that each flow sticks to, or None
  served,       \* history: the protocols that got packets of each flow
  due,          \* history: the one that should, if the engines are used plainly
  nids, freq,   \* enable_nids_engine_, enable_frequency_engine_
  switches,     \* switches left
  plain         \* history: the NIDS engine was only switched on when it was off
                \* and off when it was on, the other was left alone

vars == <<wiring, up, forwarder, served, due, nids, freq, switches, plain>>

Protocols == wiring.apps

All == Range(Protocols) \cup {Generic, Freqs}

TypeOK ==
  /\ up \in Seq(All)
  /\ forwarder \in [Flows -> All \cup {None}]
  /\ served \in [Flows -> SUBSET All]
  /\ due \in [Flows -> All \cup {None}]
  /\ nids \in BOOLEAN /\ freq \in BOOLEAN
  /\ switches \in 0 .. Switches
  /\ plain \in BOOLEAN

\* The stack after its construction.
Init ==
  /\ wiring \in UNION {Range(Forwarders[s]) : s \in DOMAIN Forwarders}
  /\ up = Append(Protocols, Generic)
  /\ forwarder = [f \in Flows |-> None]
  /\ served = [f \in Flows |-> {}]
  /\ due = [f \in Flows |-> None]
  /\ nids = FALSE /\ freq = FALSE
  /\ switches = Switches
  /\ plain = TRUE

\* The protocol that should get a flow whose first packet is this one.
DueTo(packet) ==
  IF ~plain THEN None
  ELSE IF ~nids /\ packet.own \in Range(Protocols) THEN packet.own ELSE Generic

\* The protocol to gets the packet, if it is one.
Served(f, packet, to) ==
  /\ forwarder' = [forwarder EXCEPT ![f] = to]
  /\ served' = [served EXCEPT ![f] = IF to = None THEN @ ELSE @ \cup {to}]
  /\ due' = [due EXCEPT ![f] = IF forwarder[f] = None THEN DueTo(packet) ELSE @]
  /\ UNCHANGED <<wiring, up, nids, freq, switches, plain>>

First(packet) ==
  LET i == SelectInSeq(up, LAMBDA p : AcceptPacket(p, packet))
  IN IF i = 0 THEN None ELSE up[i]

\* Mutant: a flow is offered to the protocols with each packet.
ForwardFlowEach(f, packet) == Served(f, packet, First(packet))

\* forwardFlow: a flow stays with its protocol, or is offered to each in turn.
ForwardFlow(f, packet) ==
  Served(f, packet, IF forwarder[f] # None THEN forwarder[f] ELSE First(packet))

\* The flow goes back to its cache and is reset.
EndFlow(f) ==
  /\ forwarder[f] # None
  /\ forwarder' = [forwarder EXCEPT ![f] = None]
  /\ served' = [served EXCEPT ![f] = {}]
  /\ due' = [due EXCEPT ![f] = None]
  /\ UNCHANGED <<wiring, up, nids, freq, switches, plain>>

-----------------------------------------------------------------------------
(***************************************************************************)
(* The engines.                                                            *)
(***************************************************************************)

\* removeUpFlowForwarder of a protocol, the first of its kind, if any is there.
RemoveUpFlowForwarder(list, p) ==
  LET first == SelectInSeq(list, LAMBDA q : q = p)
  IN IF first = 0 THEN list ELSE RemoveAt(list, first)

\* One call for each protocol that is to go.
Removed(list, gone) ==
  LET left[i \in 0 .. Len(gone)] ==
        IF i = 0 THEN list ELSE RemoveUpFlowForwarder(left[i - 1], gone[i])
  IN left[Len(gone)]

\* Mutant: the generic protocol is disabled with the others.
EnabledNIDSBare(list) == Removed(list, Append(wiring.disabled, Generic))

EnabledNIDS(list) == Removed(list, wiring.disabled)
DisabledNIDS(list) ==
  RemoveUpFlowForwarder(list, Generic) \o Append(Protocols, Generic)

EnableNIDSEngine(enable) ==
  /\ switches > 0
  /\ up' = IF enable THEN EnabledNIDS(up) ELSE DisabledNIDS(up)
  /\ nids' = enable
  /\ switches' = switches - 1
  /\ plain' = (plain /\ nids # enable)
  /\ UNCHANGED <<wiring, forwarder, served, due, freq>>

\* The last protocol goes in any case; pop_back of an empty vector has no
\* defined outcome, and is left to the user not to reach.
EnableFrequencyEngine(enable) ==
  /\ switches > 0
  /\ up # <<>>
  /\ up' = IF enable THEN <<Freqs>> \o Front(up)
           ELSE RemoveUpFlowForwarder(Front(up), Freqs)
  /\ freq' = enable
  /\ switches' = switches - 1
  /\ plain' = FALSE
  /\ UNCHANGED <<wiring, forwarder, served, due, nids>>

\* A packet comes over the transport of the list.
IsOf(packet) ==
  packet \in IF "http" \in Range(Protocols) THEN PayloadsTCP ELSE PayloadsUDP

Next ==
  \/ \E f \in Flows :
       \/ EndFlow(f)
       \/ \E packet \in Payloads : IsOf(packet) /\ ForwardFlow(f, packet)
  \/ \E enable \in BOOLEAN : EnableNIDSEngine(enable) \/ EnableFrequencyEngine(enable)

Spec == Init /\ [][Next]_vars

-----------------------------------------------------------------------------
(***************************************************************************)
(* Safety                                                                  *)
(***************************************************************************)

\* Whatever is switched between its packets, a flow is served by one protocol
\* until it ends: releaseFlow of CacheManager, which gives back one application
\* info for a flow, relies on it.  (And the state is of its type.)
OneProtocolServes == TypeOK /\ \A f \in Flows : Cardinality(served[f]) <= 1

\* A flow is served by the protocol that its first packet opens a conversation
\* of, on every stack that has it, and by the generic protocol if there is none
\* or the NIDS engine was on ("we dont remove the ff_tcp_generic",
\* StackLan.cc:244), however often that was switched to change it.
OwnProtocolServes == \A f \in Flows : due[f] # None => served[f] = {due[f]}

-----------------------------------------------------------------------------
(***************************************************************************)
(* What the documentation of the program says                              *)
(***************************************************************************)

\* python_wrapper.cc:172, "Enables/Disables the Frequency Engine.": when it is
\* disabled the list is what it was before.
FrequencyRestored == ~freq => up = Append(Protocols, Generic)

\* python_wrapper.cc:174, "Enables/Disables the NIDS Engine.": while it is
\* enabled no application protocol is offered a flow, however often the
\* property was set before.
NIDSEnabled == nids => Range(up) \cap Range(Protocols) = {}

=============================================================================
