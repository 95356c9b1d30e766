-------------------------- MODULE FrequencyProtocol --------------------------
(***************************************************************************)
(* The frequency engine: each flow has the frequencies of its payloads and *)
(* a copy of the payloads, objects of two pools that belong together.      *)
(* Flows are objects of a pool too, and used again for later connections.  *)
(***************************************************************************)
EXTENDS CacheOps, FiniteSets, SequencesExt

CONSTANTS
  FlowSize,     \* flows
  FreqSize,     \* objects in each of the two pools
  Limit         \* inspection_limit_, packets of a flow that are looked at

ASSUME FrequencyProtocolAssumption ==
  FlowSize \in Nat /\ FreqSize \in Nat /\ Limit \in Nat \ {0}

FlowObjects == 1 .. FlowSize
None == 0

VARIABLES
  flows,        \* the flow cache
  table,        \* the flows of connections
  packets,      \* total_packets of each flow, which no longer matters at Limit
  freqs, pkts,  \* freqs_cache_, packet_freqs_cache_
  freq, pkt,    \* the weak pointers of each flow to objects of them
  payloadsOf,         \* history: the flows whose connection's payloads an object has
  crashed       \* the program dereferenced a null pointer

vars == <<flows, table, packets, freqs, pkts, freq, pkt, payloadsOf, crashed>>

TypeOK ==
  /\ flows \in Pools(FlowObjects) /\ table \subseteq FlowObjects
  /\ packets \in [FlowObjects -> 0 .. Limit]
  /\ freqs \in Pools(1 .. FreqSize) /\ pkts \in Pools(1 .. FreqSize)
  /\ Len(freqs.items) = FreqSize /\ Len(pkts.items) = FreqSize
  /\ freq \in [FlowObjects -> 0 .. FreqSize] /\ pkt \in [FlowObjects -> 0 .. FreqSize]
  /\ payloadsOf \in [1 .. FreqSize -> {"none", "own", "other"}]
  /\ crashed \in BOOLEAN

Init ==
  /\ flows = Created(EmptyPool, [i \in FlowObjects |-> i])
  /\ table = {}
  /\ packets = [f \in FlowObjects |-> 0]
  /\ freqs = Created(EmptyPool, [i \in 1 .. FreqSize |-> i])
  /\ pkts = freqs
  /\ freq = [f \in FlowObjects |-> None]
  /\ pkt = freq
  /\ payloadsOf = [o \in 1 .. FreqSize |-> "none"]
  /\ crashed = FALSE

HasFreq(f) == freq[f] # None /\ freq[f] \in InVector(freqs)
HasPkt(f) == pkt[f] # None /\ pkt[f] \in InVector(pkts)

\* getFlow: a flow for a new connection, which is reset: its frequencies are
\* let go of, the copy of its payloads is not.
BeginFlow ==
  /\ CanAcquire(flows)
  /\ LET f == Top(flows)
     IN /\ flows' = Acquired(flows)
        /\ table' = table \cup {f}
        /\ packets' = [packets EXCEPT ![f] = 0]
        /\ freq' = [freq EXCEPT ![f] = None]
        /\ payloadsOf' = IF HasPkt(f) /\ payloadsOf[pkt[f]] # "none"
                   THEN [payloadsOf EXCEPT ![pkt[f]] = "other"] ELSE payloadsOf
  /\ UNCHANGED <<freqs, pkts, pkt, crashed>>

\* The connection ends: the flow is released, its frequencies are not.
EndFlow(f) ==
  /\ f \in table
  /\ table' = table \ {f}
  /\ flows' = Released(flows, f)
  /\ UNCHANGED <<packets, freqs, pkts, freq, pkt, payloadsOf, crashed>>

\* The objects of flow f with a payload: what it has, or what the pools give.
NeedFreq(f) == ~HasFreq(f) /\ CanAcquire(freqs)
NeedPkt(f) == ~HasPkt(f) /\ CanAcquire(pkts)

\* processFlow.  The payload is added to both if there are frequencies.
ProcessFlow(f) ==
  LET withFreq == HasFreq(f) \/ CanAcquire(freqs)
      withPkt == HasPkt(f) \/ CanAcquire(pkts)
      p == IF NeedPkt(f) THEN Top(pkts) ELSE pkt[f]
  IN /\ freqs' = IF NeedFreq(f) THEN Acquired(freqs) ELSE freqs
     /\ freq' = IF NeedFreq(f) THEN [freq EXCEPT ![f] = Top(freqs)] ELSE freq
     /\ pkts' = IF NeedPkt(f) THEN Acquired(pkts) ELSE pkts
     /\ pkt' = IF NeedPkt(f) THEN [pkt EXCEPT ![f] = Top(pkts)] ELSE pkt
     /\ crashed' = (withFreq /\ ~withPkt)
     /\ payloadsOf' = IF ~withPkt THEN payloadsOf
                ELSE LET before == IF NeedPkt(f) THEN "none" ELSE payloadsOf[p]
                     IN [payloadsOf EXCEPT ![p] =
                           IF withFreq /\ before = "none" THEN "own" ELSE before]

\* A packet with a payload for the engine or without.
Packet(f, payload) ==
  /\ f \in table /\ ~crashed
  /\ packets[f] < Limit
  /\ packets' = [packets EXCEPT ![f] = @ + 1]
  /\ IF payload /\ packets'[f] < Limit THEN ProcessFlow(f)
     ELSE UNCHANGED <<freqs, pkts, freq, pkt, payloadsOf, crashed>>
  /\ UNCHANGED <<flows, table>>

\* An object may go with one that was released before it; a pointer to it is
\* as good as none.
GivenBack(p, o) == IF o \in InVector(p) THEN Released(p, o) ELSE p

\* releaseCache: the flows of the table give both back.
ReleaseCache ==
  /\ ~crashed
  /\ \E walk \in SetToSeqs(table) :
       LET m[i \in 0 .. Len(walk)] ==
             IF i = 0 THEN [freqs |-> freqs, pkts |-> pkts]
             ELSE [freqs |-> GivenBack(m[i - 1].freqs, freq[walk[i]]),
                   pkts |-> GivenBack(m[i - 1].pkts, pkt[walk[i]])]
       IN freqs' = m[Len(walk)].freqs /\ pkts' = m[Len(walk)].pkts
  /\ freq' = [f \in FlowObjects |-> IF f \in table THEN None ELSE freq[f]]
  /\ pkt' = [f \in FlowObjects |-> IF f \in table THEN None ELSE pkt[f]]
  /\ UNCHANGED <<flows, table, packets, payloadsOf, crashed>>

Next ==
  \/ BeginFlow \/ ReleaseCache
  \/ \E f \in FlowObjects : EndFlow(f) \/ \E payload \in BOOLEAN : Packet(f, payload)

Spec == Init /\ [][Next]_vars

-----------------------------------------------------------------------------
(***************************************************************************)
(* Safety                                                                  *)
(***************************************************************************)

\* One test of the frequencies guards the use of both objects
\* (FrequencyProtocol.cc:106): the second pool never runs out first, in no
\* order of packets, ends and releases.
NeverCrashed == ~crashed

\* Two flows never write into one copy of payloads, old pointers included.
\* (And the state is of its type.)
CopiesNotShared ==
  /\ TypeOK
  /\ \A f, g \in FlowObjects : HasPkt(f) /\ HasPkt(g) /\ pkt[f] = pkt[g] => f = g
  /\ \A f \in FlowObjects : HasPkt(f) => pkt[f] \notin FreeObjects(pkts)

-----------------------------------------------------------------------------
(***************************************************************************)
(* What the documentation of the program says                              *)
(***************************************************************************)

\* python_wrapper.cc:550, "Gets the packet frequencies of the flow.": they are
\* of the flow's connection.
OwnPayloads == \A f \in table : HasPkt(f) => payloadsOf[pkt[f]] # "other"

\* FlowManager.cc:159, "Release to their corresponding caches the attached
\* objects": when the table is empty both pools are full again.
FrequenciesReturned == table = {} => Cardinality(FreeObjects(freqs)) = FreqSize

=============================================================================
