---------------------------- MODULE FrequencyGroup ----------------------------
(***************************************************************************)
(* Byte frequencies of flows, added up over the flows with the same key (a *)
(* port or an address) and then averaged.  A flow is added once: it        *)
(* carries the mark.                                                       *)
(***************************************************************************)
EXTENDS Naturals, Sequences, FiniteSets, SequencesExt

CONSTANTS
  FreqFlows,
  KeyOf,        \* the key a flow is grouped by
  Bytes,        \* values of a byte, numbers
  LastByte,     \* the value the operators of Frequencies leave out
  MaxData,      \* bound: bytes of a flow
  MaxAgregated  \* bound: flows added to a group

ASSUME FrequencyGroupAssumption ==
  Bytes \subseteq Nat /\ LastByte \in Bytes /\ DOMAIN KeyOf = FreqFlows

Keys == Range(KeyOf)
Zero == [b \in Bytes |-> 0]

VARIABLES
  data,         \* the payload bytes of each flow: what its Frequencies count
                \* and its PacketFrequencies copy
  told,         \* frequency_engine_inspected of each flow
  groups,       \* group_map_: items and frequencies of each key
  flowList,     \* flow_list_: the flows of the last agregateFlows
  sums          \* history: what the flows of each group had when they were
                \* added, and how often the group was averaged

groupVars == <<data, told, groups, flowList, sums>>

NoGroup == [items |-> 0, freqs |-> Zero]

GroupInit ==
  /\ data = [f \in FreqFlows |-> <<>>]
  /\ told = [f \in FreqFlows |-> FALSE]
  /\ groups = [k \in Keys |-> NoGroup]
  /\ flowList = {}
  /\ sums = [k \in Keys |-> [total |-> Zero, flows |-> 0, computed |-> 0]]

\* addPayload: one more byte of a flow.
AddPayload(f, b) ==
  /\ Len(data[f]) < MaxData
  /\ data' = [data EXCEPT ![f] = Append(@, b)]
  /\ UNCHANGED <<told, groups, flowList, sums>>

\* The flow ends and its object serves another connection, with the same key.
ReuseFlow(f) ==
  /\ told[f]
  /\ data' = [data EXCEPT ![f] = <<>>]
  /\ told' = [told EXCEPT ![f] = FALSE]
  /\ UNCHANGED <<groups, flowList, sums>>

Frequencies(f) == [b \in Bytes |-> Len(SelectSeq(data[f], LAMBDA c : c = b))]

\* operator+ and operator/ go over 255 of the 256 values.
Plus(p, q) == [b \in Bytes |-> IF b = LastByte THEN 0 ELSE p[b] + q[b]]
Divided(p, n) == [b \in Bytes |-> IF b = LastByte THEN 0 ELSE p[b] \div n]

\* A bug for the runs: flows that were added before are added again.
FreshOrNot == {f \in FreqFlows : data[f] # <<>>}

\* A flow has frequencies from its first payload on.
Fresh == {f \in FreqFlows : ~told[f] /\ data[f] # <<>>}

Members(k, flows) == {f \in flows : KeyOf[f] = k}
SumOf(start, flows) ==
  FoldLeft(LAMBDA s, f : Plus(s, Frequencies(f)), start, SetToSeq(flows))

\* agregateFlows: the flows of the table that were not added yet.
AgregateFlows ==
  /\ groups' = [k \in Keys |->
       IF Members(k, Fresh) = {} THEN groups[k]
       ELSE [items |-> groups[k].items + Cardinality(Members(k, Fresh)),
             freqs |-> SumOf(groups[k].freqs, Members(k, Fresh))]]
  /\ \A k \in Keys : groups'[k].items <= MaxAgregated
  /\ told' = [f \in FreqFlows |-> told[f] \/ f \in Fresh]
  /\ flowList' = Fresh
  /\ sums' = [k \in Keys |->
       LET new == {f \in Members(k, FreqFlows) : ~told[f] /\ told'[f]}
       IN IF new = {} THEN sums[k]
          ELSE [total |-> FoldLeft(LAMBDA s, f : [b \in Bytes |-> s[b] + Frequencies(f)[b]],
                                   sums[k].total, SetToSeq(new)),
                flows |-> sums[k].flows + Cardinality(new),
                \* what is added to an average is no sum any more
                computed |-> IF sums[k].computed > 0 THEN 2 ELSE 0]]
  /\ UNCHANGED data

\* compute: every group is divided by the number of its flows, once more if it
\* was divided before.
Compute ==
  /\ groups' = [k \in Keys |->
       IF groups[k].items = 0 THEN groups[k]
       ELSE [groups[k] EXCEPT !.freqs = Divided(@, groups[k].items)]]
  /\ sums' = [k \in Keys |-> [sums[k] EXCEPT !.computed =
               IF groups[k].items > 0 /\ @ < 2 THEN @ + 1 ELSE @]]
  /\ UNCHANGED <<data, told, flowList>>

\* reset: the groups, not the marks of the flows.
ResetGroups ==
  /\ groups' = [k \in Keys |-> NoGroup]
  /\ flowList' = {}
  /\ sums' = [k \in Keys |-> [total |-> Zero, flows |-> 0, computed |-> 0]]
  /\ UNCHANGED <<data, told>>

GroupNext ==
  \/ AgregateFlows \/ Compute \/ ResetGroups
  \/ \E f \in FreqFlows : ReuseFlow(f) \/ \E b \in Bytes : AddPayload(f, b)

-----------------------------------------------------------------------------
(***************************************************************************)
(* Safety                                                                  *)
(***************************************************************************)

\* A group that was averaged once has the average of its flows, each counted
\* once, with the bytes it had when it was added, whatever the order of
\* payloads, ends and calls: but for the last value of a byte.
GroupsRight ==
  \A k \in Keys : sums[k].computed = 1 =>
    \A b \in Bytes \ {LastByte} : groups[k].freqs[b] = sums[k].total[b] \div sums[k].flows

-----------------------------------------------------------------------------
(***************************************************************************)
(* What the code suggests                                                  *)
(***************************************************************************)

\* Frequencies.h:160, "std::array<int,256> freqs_": there are 256 values.
AllBytesCounted ==
  \A k \in Keys : sums[k].computed = 0 => groups[k].freqs = sums[k].total

=============================================================================
