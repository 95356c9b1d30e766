------------------------- MODULE TCPProtocolProofs -------------------------
(***************************************************************************)
(* Proofs about the TCP layer, for every set of connections, every size of *)
(* the caches, every timeout and any header bits; and about its tracker,   *)
(* for every order of segments.                                            *)
(***************************************************************************)
EXTENDS TCPProtocol, TCPConnection, SharedLemmas

TableOf(m) == {id \in Ids : InTable(m, id)}

\* What every call of processPacket keeps.  It says more than FlowsConserved
\* and InfosNotShared do: the weak pointers of a flow are distinct from those
\* of the others and not on the free stack even when they have expired, since
\* an object that is gone never comes back under its number; and an object
\* accounts for each slot outside the free stack of the flow cache.
Consistent(m) ==
  /\ m \in Mem
  /\ Lends(m.flows, 1 .. FlowSize, m.flow, Ids, None)
  /\ Lends(m.tcps, 1 .. TcpSize, m.tcp, Ids, None)
  /\ Lends(m.l7s, 1 .. L7Size, m.l7, Ids, None)
  /\ Indexes(m.order, TableOf(m))
  /\ Len(m.order) = Len(m.flows.items) - m.flows.total

Infos == [prev : States, curr : States]

MemInv ==
  /\ Consistent(mem)
  /\ tcpInfo \in [1 .. TcpSize -> Infos]
  /\ packet_time \in Times
  /\ last_timeout \in Times
  /\ current \in Ids \cup {None}

-----------------------------------------------------------------------------
(***************************************************************************)
(* The tracker                                                             *)
(***************************************************************************)

\* Every entry of the table is a state or "stay".
LEMMA TableEntries ==
  ASSUME NEW state \in States, NEW dir \in Directions, NEW flag \in Flags
  PROVE  tcp_states[state][dir][flag] \in States \cup {"OK"}
<1>1. \A a, b, c, d : Both(Row(a, b, c, d))[dir] = Row(a, b, c, d)
  BY DEF Both, Directions
<1>2. \A a, b, c, d :
        Row(a, b, c, d)[flag] = a \/ Row(a, b, c, d)[flag] = b
          \/ Row(a, b, c, d)[flag] = c \/ Row(a, b, c, d)[flag] = d
  BY DEF Row, Flags
<1>3. dir = "FORWARD" \/ dir = "BACKWARD"
  BY DEF Directions
<1> QED
  BY <1>1, <1>2, <1>3 DEF tcp_states, States

\* computeState leaves a TCPInfo with two states of the table.
LEMMA InfoTyped ==
  ASSUME NEW kept \in Infos, NEW dir \in Directions, NEW seg
  PROVE  ComputeState(kept, dir, seg) \in Infos
<1>1. ClosedInfo \in Infos
  BY DEF ClosedInfo, Infos, States
<1>2. Classify(seg) \in Flags
  BY DEF Classify, Flags
<1>3. NextState(kept.curr, dir, Classify(seg)) \in States
  <2>1. kept.curr \in States
    BY DEF Infos
  <2> QED
    BY <1>2, <2>1, TableEntries DEF NextState
<1> QED
  BY <1>1, <1>3 DEF ComputeState, Infos

-----------------------------------------------------------------------------
(***************************************************************************)
(* The calls                                                               *)
(***************************************************************************)

\* What the model knows of a weak pointer that has not expired.
LEMMA Pointers ==
  ASSUME NEW m, Consistent(m), NEW id \in Ids
  PROVE  /\ None \notin 1 .. FlowSize /\ None \notin 1 .. TcpSize /\ None \notin 1 .. L7Size
         /\ HasTcp(m, id) => m.tcp[id] \in 1 .. TcpSize
         /\ HasL7(m, id) => m.l7[id] \in 1 .. L7Size
<1>1. \A i \in 1 .. Len(m.tcps.items) : m.tcps.items[i] \in 1 .. TcpSize
  <2>1. m.tcps.items \in Seq(1 .. TcpSize)
    BY DEF Consistent, Mem, Pools
  <2> QED
    BY <2>1, ElementOfSeq
<1>2. \A i \in 1 .. Len(m.l7s.items) : m.l7s.items[i] \in 1 .. L7Size
  <2>1. m.l7s.items \in Seq(1 .. L7Size)
    BY DEF Consistent, Mem, Pools
  <2> QED
    BY <2>1, ElementOfSeq
<1> QED
  BY <1>1, <1>2 DEF None, HasTcp, HasL7, InVector

\* getFlow puts a flow in the table with an object of its own.
LEMMA NewFlowKeeps ==
  ASSUME NEW m, Consistent(m), NEW id \in Ids, ~InTable(m, id), CanAcquire(m.flows),
         NEW t \in Times, NEW n \in NewFlow(m, id, t)
  PROVE  /\ Consistent(n)
         /\ TableOf(n) = TableOf(m) \cup {id}
         /\ n.time = [m.time EXCEPT ![id] = t]
         /\ CanAcquire(m.tcps) => HasTcp(n, id)
<1> DEFINE gets == CanAcquire(m.tcps)
<1>0. /\ m \in Mem
      /\ None \notin 1 .. FlowSize /\ None \notin 1 .. TcpSize /\ None \notin 1 .. L7Size
  BY Pointers DEF Consistent
<1>1. PICK order \in Inserted(m.order, [m.time EXCEPT ![id] = t], id) :
        n = [m EXCEPT !.flows = Acquired(@),
                      !.flow[id] = Top(m.flows),
                      !.tcps = IF gets THEN Acquired(@) ELSE @,
                      !.tcp[id] = IF gets THEN Top(m.tcps) ELSE None,
                      !.l7[id] = None,
                      !.order = order,
                      !.time = [m.time EXCEPT ![id] = t]]
  BY DEF NewFlow
<1> HIDE DEF gets
<1>2. /\ n = [flows |-> n.flows, tcps |-> n.tcps, l7s |-> n.l7s, flow |-> n.flow,
              tcp |-> n.tcp, l7 |-> n.l7, order |-> n.order, time |-> n.time]
      /\ n.flows = Acquired(m.flows)
      /\ n.tcps = IF gets THEN Acquired(m.tcps) ELSE m.tcps
      /\ n.l7s = m.l7s
      /\ n.flow = [m.flow EXCEPT ![id] = Top(m.flows)]
      /\ n.tcp = [m.tcp EXCEPT ![id] = IF gets THEN Top(m.tcps) ELSE None]
      /\ n.l7 = [m.l7 EXCEPT ![id] = None]
      /\ n.order = order
      /\ n.time = [m.time EXCEPT ![id] = t]
  BY <1>0, <1>1 DEF Mem
<1>3. /\ Lends(n.flows, 1 .. FlowSize, n.flow, Ids, None)
      /\ Top(m.flows) \in 1 .. FlowSize
      /\ n.flows.total = m.flows.total - 1 /\ n.flows.items = m.flows.items
  BY <1>0, <1>2, AcquiredNumber DEF Consistent
<1>4. /\ Lends(n.tcps, 1 .. TcpSize, n.tcp, Ids, None)
      /\ gets => n.tcp[id] \in InVector(n.tcps)
  <2>1. CASE gets
    <3>1. /\ Lends(n.tcps, 1 .. TcpSize, n.tcp, Ids, None)
          /\ n.tcps.items = m.tcps.items
      BY <1>0, <1>2, <2>1, AcquiredNumber DEF Consistent, gets
    <3>2. m.tcps.total \in 1 .. Len(m.tcps.items)
      <4>1. m.tcps.total \in Nat /\ m.tcps.total <= Len(m.tcps.items) /\ m.tcps.total > 0
        BY <2>1 DEF gets, CanAcquire, Consistent, Lends, Fits, Pools
      <4>2. Len(m.tcps.items) \in Nat
        <5>1. m.tcps.items \in Seq(1 .. TcpSize)
          BY <1>0 DEF Mem, Pools
        <5> QED
          BY <5>1, LenProperties
      <4> QED
        BY <4>1, <4>2
    <3>3. n.tcp[id] = m.tcps.items[m.tcps.total]
      BY <1>0, <1>2, <2>1 DEF Top, Mem
    <3> QED
      BY <3>1, <3>2, <3>3 DEF InVector
  <2>2. CASE ~gets
    BY <1>2, <2>2, ForgottenLends DEF Consistent
  <2> QED
    BY <2>1, <2>2
<1>5. Lends(n.l7s, 1 .. L7Size, n.l7, Ids, None)
  BY <1>2, ForgottenLends DEF Consistent
<1>6. TableOf(n) = TableOf(m) \cup {id} /\ id \notin TableOf(m)
  <2>1. \A a \in Ids : n.flow[a] # None <=> (a = id \/ m.flow[a] # None)
    BY <1>0, <1>2, <1>3 DEF Mem
  <2> QED
    BY <2>1 DEF TableOf, InTable
<1>7. /\ Indexes(n.order, TableOf(n))
      /\ n.order \in Seq(Ids)
      /\ Len(n.order) = Len(m.order) + 1
  <2>1. Indexes(n.order, TableOf(n))
    BY <1>1, <1>2, <1>6, InsertedIndex DEF Consistent
  <2>2. n.order \in Seq(TableOf(n)) /\ TableOf(n) \subseteq Ids
    BY <2>1 DEF Indexes, TableOf
  <2>3. m.order \in Seq(Ids)
    BY <1>0 DEF Mem
  <2>4. Len(n.order) = Len(m.order) + 1
    BY <1>1, <1>2, <2>3, InsertedEntries DEF PutAt
  <2> QED
    BY <2>1, <2>2, <2>4, SeqMonotonic
<1>8. n \in Mem
  <2>1. /\ n.flows \in Pools(1 .. FlowSize) /\ n.tcps \in Pools(1 .. TcpSize)
        /\ n.l7s \in Pools(1 .. L7Size)
        /\ n.flow \in [Ids -> (1 .. FlowSize) \cup {None}]
        /\ n.tcp \in [Ids -> (1 .. TcpSize) \cup {None}]
        /\ n.l7 \in [Ids -> (1 .. L7Size) \cup {None}]
    BY <1>3, <1>4, <1>5 DEF Lends, Fits
  <2>2. n.time \in [Ids -> Times]
    BY <1>0, <1>2 DEF Mem
  <2> QED
    BY <1>2, <1>7, <2>1, <2>2 DEF Mem
<1>9. Len(n.order) = Len(n.flows.items) - n.flows.total
  <2>1. m.flows.total \in Nat /\ Len(m.flows.items) \in Nat
    <3>1. m.flows.items \in Seq(1 .. FlowSize) /\ m.flows.total \in Nat
      BY <1>0 DEF Mem, Pools
    <3> QED
      BY <3>1, LenProperties
  <2> QED
    BY <1>3, <1>7, <2>1 DEF Consistent
<1> QED
  BY <1>2, <1>3, <1>4, <1>5, <1>6, <1>7, <1>8, <1>9 DEF Consistent, HasTcp, gets

\* An application protocol takes an info for the flow, and nothing else changes.
LEMMA ForwardFlowKeeps ==
  ASSUME NEW m, Consistent(m), NEW id \in Ids
  PROVE  LET n == ForwardFlow(m, id)
         IN /\ Consistent(n)
            /\ TableOf(n) = TableOf(m)
            /\ n.time = m.time /\ n.tcp = m.tcp
<1> DEFINE n == ForwardFlow(m, id)
<1>0. m \in Mem /\ None \notin 1 .. L7Size
  BY Pointers DEF Consistent
<1>1. CASE HasL7(m, id) \/ ~CanAcquire(m.l7s)
  BY <1>1 DEF ForwardFlow
<1>2. CASE ~HasL7(m, id) /\ CanAcquire(m.l7s)
  <2>1. n = [m EXCEPT !.l7s = Acquired(@), !.l7[id] = Top(m.l7s)]
    BY <1>2 DEF ForwardFlow
  <2> HIDE DEF n
  <2>2. /\ n = [flows |-> n.flows, tcps |-> n.tcps, l7s |-> n.l7s, flow |-> n.flow,
                tcp |-> n.tcp, l7 |-> n.l7, order |-> n.order, time |-> n.time]
        /\ n.flows = m.flows /\ n.flow = m.flow /\ n.tcps = m.tcps /\ n.tcp = m.tcp
        /\ n.l7s = Acquired(m.l7s) /\ n.l7 = [m.l7 EXCEPT ![id] = Top(m.l7s)]
        /\ n.order = m.order /\ n.time = m.time
    BY <1>0, <2>1 DEF Mem
  <2>3. Lends(n.l7s, 1 .. L7Size, n.l7, Ids, None)
    BY <1>0, <1>2, <2>2, AcquiredNumber DEF Consistent
  <2>4. TableOf(n) = TableOf(m)
    BY <2>2 DEF TableOf, InTable
  <2>5. n \in Mem
    <3>1. n.l7s \in Pools(1 .. L7Size) /\ n.l7 \in [Ids -> (1 .. L7Size) \cup {None}]
      BY <2>3 DEF Lends, Fits
    <3> QED
      BY <1>0, <2>2, <3>1 DEF Mem
  <2> QED
    BY <2>2, <2>3, <2>4, <2>5 DEF Consistent, n
<1> QED
  BY <1>1, <1>2

\* A flow that ends, by the timers or by its connection, gives its object back
\* and leaves both indexes; its infos are given back or forgotten.
LEMMA DropFlowKeeps ==
  ASSUME NEW m, Consistent(m), NEW id \in TableOf(m), NEW pinned,
         pinned # None \/ HasTcp(m, id)
  PROVE  LET n == DropFlow(m, id, pinned)
         IN /\ Consistent(n)
            /\ TableOf(n) = TableOf(m) \ {id}
            /\ n.time = m.time
<1> DEFINE n == DropFlow(m, id, pinned)
           backs == HasTcp(m, id) \/ m.tcp[id] = pinned
<1>0. /\ m \in Mem /\ id \in Ids
      /\ None \notin 1 .. FlowSize /\ None \notin 1 .. TcpSize /\ None \notin 1 .. L7Size
      /\ backs => m.tcp[id] # None
      /\ HasL7(m, id) => m.l7[id] # None
      /\ m.flow[id] # None
  <2>1. id \in Ids /\ m.flow[id] # None
    BY DEF TableOf, InTable
  <2> QED
    BY <2>1, Pointers DEF Consistent
<1>1. n = [m EXCEPT !.tcps = IF backs THEN Released(@, m.tcp[id]) ELSE @,
                    !.l7s = IF HasL7(m, id) THEN Released(@, m.l7[id]) ELSE @,
                    !.flows = Released(@, m.flow[id]),
                    !.flow[id] = None,
                    !.tcp[id] = None,
                    !.l7[id] = None,
                    !.order = Without(@, id)]
  BY DEF DropFlow
<1> HIDE DEF n, backs
<1>2. /\ n = [flows |-> n.flows, tcps |-> n.tcps, l7s |-> n.l7s, flow |-> n.flow,
              tcp |-> n.tcp, l7 |-> n.l7, order |-> n.order, time |-> n.time]
      /\ n.flows = Released(m.flows, m.flow[id])
      /\ n.tcps = IF backs THEN Released(m.tcps, m.tcp[id]) ELSE m.tcps
      /\ n.l7s = IF HasL7(m, id) THEN Released(m.l7s, m.l7[id]) ELSE m.l7s
      /\ n.flow = [m.flow EXCEPT ![id] = None]
      /\ n.tcp = [m.tcp EXCEPT ![id] = None]
      /\ n.l7 = [m.l7 EXCEPT ![id] = None]
      /\ n.order = Without(m.order, id)
      /\ n.time = m.time
  BY <1>0, <1>1 DEF Mem
<1>3. /\ Lends(n.flows, 1 .. FlowSize, n.flow, Ids, None)
      /\ Len(n.flows.items) = Len(m.flows.items)
      /\ n.flows.total = IF CanRelease(m.flows) THEN m.flows.total + 1 ELSE m.flows.total
  <2>1. n.flows = Released(m.flows, m.flow[id]) /\ n.flow = [m.flow EXCEPT ![id] = None]
    BY <1>2
  <2>2. Lends(m.flows, 1 .. FlowSize, m.flow, Ids, None)
    BY DEF Consistent
  <2>3. id \in Ids /\ m.flow[id] # None
    BY <1>0
  <2> QED
    BY <2>1, <2>2, <2>3, ReleasedNumber
<1>4. Lends(n.tcps, 1 .. TcpSize, n.tcp, Ids, None)
  <2>1. CASE backs
    <3>1. /\ n.tcps = Released(m.tcps, m.tcp[id]) /\ m.tcp[id] # None
          /\ n.tcp = [m.tcp EXCEPT ![id] = None]
      BY <1>0, <1>2, <2>1
    <3>2. Lends(m.tcps, 1 .. TcpSize, m.tcp, Ids, None)
      BY DEF Consistent
    <3>3. id \in Ids
      BY <1>0
    <3> QED
      BY <3>1, <3>2, <3>3, ReleasedNumber
  <2>2. CASE ~backs
    BY <1>0, <1>2, <2>2, ForgottenLends DEF Consistent
  <2> QED
    BY <2>1, <2>2
<1>5. Lends(n.l7s, 1 .. L7Size, n.l7, Ids, None)
  <2>1. CASE HasL7(m, id)
    <3>1. /\ n.l7s = Released(m.l7s, m.l7[id]) /\ m.l7[id] # None
          /\ n.l7 = [m.l7 EXCEPT ![id] = None]
      BY <1>0, <1>2, <2>1
    <3>2. Lends(m.l7s, 1 .. L7Size, m.l7, Ids, None)
      BY DEF Consistent
    <3>3. id \in Ids
      BY <1>0
    <3> QED
      BY <3>1, <3>2, <3>3, ReleasedNumber
  <2>2. CASE ~HasL7(m, id)
    BY <1>0, <1>2, <2>2, ForgottenLends DEF Consistent
  <2> QED
    BY <2>1, <2>2
<1>6. TableOf(n) = TableOf(m) \ {id}
  <2>1. \A a \in Ids : n.flow[a] # None <=> (a # id /\ m.flow[a] # None)
    BY <1>0, <1>2 DEF Mem
  <2> QED
    BY <2>1 DEF TableOf, InTable
<1>7. /\ Indexes(n.order, TableOf(n))
      /\ n.order \in Seq(Ids)
      /\ Len(n.order) = Len(m.order) - 1
  <2>1. Indexes(n.order, TableOf(n)) /\ Len(n.order) = Len(m.order) - 1
    BY <1>2, <1>6, WithoutIndex DEF Consistent
  <2>2. n.order \in Seq(TableOf(n)) /\ TableOf(n) \subseteq Ids
    BY <2>1 DEF Indexes, TableOf
  <2> QED
    BY <2>1, <2>2, SeqMonotonic
<1>8. n \in Mem
  <2>1. /\ n.flows \in Pools(1 .. FlowSize) /\ n.tcps \in Pools(1 .. TcpSize)
        /\ n.l7s \in Pools(1 .. L7Size)
        /\ n.flow \in [Ids -> (1 .. FlowSize) \cup {None}]
        /\ n.tcp \in [Ids -> (1 .. TcpSize) \cup {None}]
        /\ n.l7 \in [Ids -> (1 .. L7Size) \cup {None}]
    BY <1>3, <1>4, <1>5 DEF Lends, Fits
  <2>2. n.time \in [Ids -> Times]
    BY <1>0, <1>2 DEF Mem
  <2> QED
    BY <1>2, <1>7, <2>1, <2>2 DEF Mem
<1>9. Len(n.order) = Len(n.flows.items) - n.flows.total
  <2>1. m.flows.total \in Nat /\ Len(m.flows.items) \in Nat /\ Len(n.order) \in Nat
    <3>1. m.flows.items \in Seq(1 .. FlowSize) /\ m.flows.total \in Nat
      BY <1>0 DEF Mem, Pools
    <3> QED
      BY <1>7, <3>1, LenProperties
  <2>2. Len(m.order) = Len(m.flows.items) - m.flows.total
    BY DEF Consistent
  <2>3. CanRelease(m.flows)
    BY <1>7, <2>1, <2>2 DEF CanRelease
  <2> QED
    BY <1>3, <1>7, <2>1, <2>2, <2>3
<1> QED
  BY <1>2, <1>3, <1>4, <1>5, <1>6, <1>7, <1>8, <1>9 DEF Consistent, n

\* updateTimers drops old flows only, one after the other.
LEMMA UpdateTimersKeeps ==
  ASSUME NEW m, Consistent(m), NEW now, NEW pinned, pinned # None
  PROVE  LET n == UpdateTimers(m, now, pinned)
         IN /\ Consistent(n)
            /\ TableOf(n) \subseteq TableOf(m)
            /\ \A id \in TableOf(m) \ TableOf(n) : IsOld(m.time, id, Timeout, now)
<1> DEFINE old == Expired(m.order, m.time, Timeout, now)
           k == Len(old)
           G == [i \in 0 .. k |->
                  {x \in Mem : /\ Consistent(x)
                               /\ TableOf(x) = TableOf(m) \ {old[j] : j \in 1 .. i}}]
           step == [i \in 1 .. k |-> [x \in G[i - 1] |-> DropFlow(x, old[i], pinned)]]
           Runs(f) == f = [i \in 0 .. k |-> IF i = 0 THEN m ELSE DropFlow(f[i - 1], old[i], pinned)]
           left == CHOOSE f : Runs(f)
<1>1. /\ old \in Seq(TableOf(m)) /\ k \in Nat /\ k \in 0 .. Len(m.order)
      /\ \A i \in 1 .. k : old[i] = m.order[i] /\ IsOld(m.time, m.order[i], Timeout, now)
      /\ \A i \in 1 .. k : old[i] \in TableOf(m)
      /\ \A i, j \in 1 .. k : old[i] = old[j] => i = j
  <2>1. /\ old \in Seq(TableOf(m)) /\ k \in 0 .. Len(m.order)
        /\ \A i \in 1 .. k : old[i] = m.order[i] /\ IsOld(m.time, m.order[i], Timeout, now)
    BY ExpiredPrefix DEF Consistent
  <2>2. k \in Nat /\ \A i \in 1 .. k : old[i] \in TableOf(m)
    BY <2>1, LenProperties, ElementOfSeq
  <2>3. \A i \in 1 .. k : i \in 1 .. Len(m.order)
    BY <2>1, <2>2
  <2>4. \A i, j \in 1 .. Len(m.order) : m.order[i] = m.order[j] => i = j
    BY DEF Consistent, Indexes
  <2> HIDE DEF old
  <2> QED
    BY <2>1, <2>2, <2>3, <2>4
<1>2. UpdateTimers(m, now, pinned) = left[k]
  BY DEF UpdateTimers
<1> HIDE DEF old, k
<1>3. m \in G[0]
  <2>1. m \in Mem /\ {old[j] : j \in 1 .. 0} = {} /\ 0 \in 0 .. k
    BY <1>1 DEF Consistent
  <2> QED
    BY <2>1
<1>4. ASSUME NEW i \in 1 .. k, NEW x \in G[i - 1]
      PROVE  DropFlow(x, old[i], pinned) \in G[i]
  <2>1. i - 1 \in 0 .. k /\ i \in 0 .. k
    BY <1>1
  <2>2. Consistent(x) /\ TableOf(x) = TableOf(m) \ {old[j] : j \in 1 .. i - 1}
    BY <2>1
  <2>3. old[i] \in TableOf(x)
    <3>1. \A j \in 1 .. i - 1 : j \in 1 .. k /\ j # i
      BY <1>1
    <3> QED
      BY <1>1, <2>2, <3>1
  <2>4. /\ Consistent(DropFlow(x, old[i], pinned))
        /\ TableOf(DropFlow(x, old[i], pinned)) = TableOf(x) \ {old[i]}
    BY <2>2, <2>3, DropFlowKeeps
  <2>5. {old[j] : j \in 1 .. i} = {old[j] : j \in 1 .. i - 1} \cup {old[i]}
    <3>1. \A j : j \in 1 .. i <=> j \in 1 .. i - 1 \/ j = i
      BY <1>1
    <3> QED
      BY <3>1
  <2> QED
    BY <2>1, <2>2, <2>4, <2>5 DEF Consistent
<1> HIDE DEF G
<1>5. \E f : Runs(f)
  <2>1. \A i \in 1 .. k : \A x \in G[i - 1] : step[i][x] \in G[i]
    BY <1>4
  <2>2. PICK f : Iterates(f, k, G, m, step)
    <3> HIDE DEF step
    <3> QED
      BY <1>1, <1>3, <2>1, Iteration
  <2>3. \A i \in 1 .. k : f[i] = DropFlow(f[i - 1], old[i], pinned)
    <3> SUFFICES ASSUME NEW i \in 1 .. k PROVE f[i] = DropFlow(f[i - 1], old[i], pinned)
      OBVIOUS
    <3>1. i - 1 \in 0 .. k
      BY <1>1
    <3>2. f[i - 1] \in G[i - 1] /\ f[i] = step[i][f[i - 1]]
      BY <2>2, <3>1 DEF Iterates
    <3> QED
      BY <3>2
  <2>4. f = [i \in 0 .. k |-> f[i]] /\ f[0] = m
    BY <2>2 DEF Iterates
  <2>5. \A i \in 0 .. k : i # 0 => i \in 1 .. k
    BY <1>1
  <2>6. \A i \in 0 .. k : f[i] = IF i = 0 THEN m ELSE DropFlow(f[i - 1], old[i], pinned)
    BY <2>3, <2>4, <2>5
  <2> QED
    BY <2>4, <2>6
<1>6. Runs(left)
  BY <1>5
<1> HIDE DEF left, step
<1>7. left[k] \in G[k]
  <2> DEFINE S == {i \in 0 .. k : left[i] \in G[i]}
  <2>1. 0 \in S
    BY <1>1, <1>3, <1>6
  <2>2. \A i \in 0 .. k - 1 : i \in S => i + 1 \in S
    <3> SUFFICES ASSUME NEW i \in 0 .. k - 1, i \in S PROVE i + 1 \in S
      OBVIOUS
    <3>1. i + 1 \in 1 .. k /\ i + 1 \in 0 .. k /\ i + 1 - 1 = i /\ i + 1 # 0
      BY <1>1
    <3>2. left[i + 1] = DropFlow(left[i], old[i + 1], pinned)
      BY <1>6, <3>1
    <3>3. left[i] \in G[i + 1 - 1]
      BY <3>1
    <3> QED
      BY <1>4, <3>1, <3>2, <3>3
  <2> HIDE DEF S
  <2>3. 0 .. k \subseteq S
    BY <1>1, <2>1, <2>2, IntervalInduction
  <2>4. k \in S
    BY <1>1, <2>3
  <2> QED
    BY <2>4 DEF S
<1>8. Consistent(left[k]) /\ TableOf(left[k]) = TableOf(m) \ {old[j] : j \in 1 .. k}
  BY <1>1, <1>7 DEF G
<1> QED
  BY <1>1, <1>2, <1>8

\* The end of processPacket runs the timers or notes the time of the packet.
LEMMA TimersKeep ==
  ASSUME NEW m, Consistent(m), NEW id \in TableOf(m), HasTcp(m, id), NEW t \in Times,
         NEW n \in Timers(m, id, t)
  PROVE  /\ Consistent(n)
         /\ TableOf(n) \subseteq TableOf(m)
         /\ \A a \in TableOf(m) \ TableOf(n) : IsOld(m.time, a, Timeout, t)
<1>1. CASE t - Timeout > last_timeout
  <2>1. n = UpdateTimers(m, t, m.tcp[id])
    BY <1>1 DEF Timers
  <2>2. m.tcp[id] # None
    BY Pointers DEF TableOf
  <2> QED
    BY <2>1, <2>2, UpdateTimersKeeps
<1>2. CASE ~(t - Timeout > last_timeout)
  <2> DEFINE time == [m.time EXCEPT ![id] = t]
  <2>1. PICK order : /\ n = [m EXCEPT !.time = time, !.order = order]
                     /\ order \in Reindexed(m.order, time, id) \/ order = m.order
    BY <1>2 DEF Timers
  <2>2. m \in Mem /\ id \in Ids
    BY DEF Consistent, TableOf
  <2> HIDE DEF time
  <2>3. /\ n = [flows |-> n.flows, tcps |-> n.tcps, l7s |-> n.l7s, flow |-> n.flow,
                tcp |-> n.tcp, l7 |-> n.l7, order |-> n.order, time |-> n.time]
        /\ n.flows = m.flows /\ n.flow = m.flow /\ n.tcps = m.tcps /\ n.tcp = m.tcp
        /\ n.l7s = m.l7s /\ n.l7 = m.l7 /\ n.order = order /\ n.time = time
    BY <2>1, <2>2 DEF Mem
  <2>4. TableOf(n) = TableOf(m)
    BY <2>3 DEF TableOf, InTable
  <2>5. Indexes(order, TableOf(m))
    BY <2>1, ReindexedIndex DEF Consistent
  <2>6. Len(order) = Len(m.order)
    BY <2>5, IndexCount DEF Consistent
  <2>7. n \in Mem
    <3>1. order \in Seq(TableOf(m)) /\ TableOf(m) \subseteq Ids
      BY <2>5 DEF Indexes, TableOf
    <3>2. order \in Seq(Ids)
      BY <3>1, SeqMonotonic
    <3>3. time \in [Ids -> Times]
      BY <2>2 DEF Mem, time
    <3> QED
      BY <2>2, <2>3, <3>2, <3>3 DEF Mem
  <2> QED
    BY <2>3, <2>4, <2>5, <2>6, <2>7 DEF Consistent
<1> QED
  BY <1>1, <1>2

\* A flow that processPacket tracks: what is dropped is old, or is the flow of
\* the packet, and finished.
LEMMA TrackedKeeps ==
  ASSUME NEW m, Consistent(m), NEW id \in TableOf(m), HasTcp(m, id),
         NEW infos \in [1 .. TcpSize -> Infos], NEW dir \in Directions, NEW seg, NEW payload,
         packet_time' \in Times, last_timeout \in Times,
         Tracked(m, infos, id, dir, seg, payload)
  PROVE  /\ Consistent(mem')
         /\ tcpInfo' \in [1 .. TcpSize -> Infos]
         /\ last_timeout' \in Times
         /\ \A a \in TableOf(m) \ TableOf(mem') :
              \/ IsOld(m.time, a, Timeout, packet_time')
              \/ a = id /\ Finished(tcpInfo'[m.tcp[id]])
<1> DEFINE new == ComputeState(infos[m.tcp[id]], dir, seg)
           forwarded == IF payload = "app" THEN ForwardFlow(m, id) ELSE m
<1>1. m.tcp[id] \in 1 .. TcpSize /\ id \in Ids
  BY Pointers DEF TableOf
<1>2. new \in Infos
  BY <1>1, InfoTyped
<1> HIDE DEF new
<1>3. tcpInfo' = [infos EXCEPT ![m.tcp[id]] = new]
  BY DEF Tracked, new
<1>4. tcpInfo' \in [1 .. TcpSize -> Infos] /\ tcpInfo'[m.tcp[id]] = new
  BY <1>1, <1>2, <1>3
<1>5. CASE payload = "none" /\ Finished(new)
  <2>1. mem' = DropFlow(m, id, None) /\ last_timeout' = last_timeout
    BY <1>5 DEF Tracked, new
  <2>2. Consistent(mem') /\ TableOf(mem') = TableOf(m) \ {id}
    BY <2>1, DropFlowKeeps
  <2> QED
    BY <1>4, <1>5, <2>1, <2>2
<1>6. CASE ~(payload = "none" /\ Finished(new))
  <2>1. /\ mem' \in Timers(forwarded, id, packet_time')
        /\ last_timeout' = packet_time' \/ last_timeout' = last_timeout
    BY <1>6 DEF Tracked, new
  <2>2. /\ Consistent(forwarded) /\ TableOf(forwarded) = TableOf(m)
        /\ forwarded.time = m.time /\ HasTcp(forwarded, id)
    <3>1. CASE payload = "app"
      <4>1. /\ Consistent(forwarded) /\ TableOf(forwarded) = TableOf(m)
            /\ forwarded.time = m.time /\ forwarded.tcp = m.tcp
        BY <1>1, <3>1, ForwardFlowKeeps
      <4>2. forwarded.tcps = m.tcps
        <5>1. m \in Mem
          BY DEF Consistent
        <5> QED
          BY <3>1, <5>1 DEF ForwardFlow, Mem
      <4> QED
        BY <4>1, <4>2 DEF HasTcp
    <3>2. CASE payload # "app"
      BY <3>2
    <3> QED
      BY <3>1, <3>2
  <2> HIDE DEF forwarded
  <2>3. /\ Consistent(mem')
        /\ \A a \in TableOf(m) \ TableOf(mem') : IsOld(m.time, a, Timeout, packet_time')
    <3>1. /\ Consistent(mem')
          /\ \A a \in TableOf(forwarded) \ TableOf(mem') :
               IsOld(forwarded.time, a, Timeout, packet_time')
      BY <2>1, <2>2, TimersKeep
    <3> QED
      BY <2>2, <3>1
  <2> QED
    BY <1>4, <2>1, <2>3
<1> QED
  BY <1>5, <1>6

-----------------------------------------------------------------------------
(***************************************************************************)
(* The invariant                                                           *)
(***************************************************************************)

\* The caches are filled before the first packet.
LEMMA MemInit == Init => MemInv
<1> SUFFICES ASSUME Init PROVE MemInv
  OBVIOUS
<1>1. FlowSize \in Nat /\ TcpSize \in Nat /\ L7Size \in Nat /\ Timeout \in Nat
      /\ MaxTime \in Nat /\ Timeout < MaxTime
  BY TCPProtocolAssumption
<1>2. /\ mem.flows = Created(EmptyPool, [i \in 1 .. FlowSize |-> i])
      /\ mem.tcps = Created(EmptyPool, [i \in 1 .. TcpSize |-> i])
      /\ mem.l7s = Created(EmptyPool, [i \in 1 .. L7Size |-> i])
      /\ mem.flow = [id \in Ids |-> None]
      /\ mem.tcp = [id \in Ids |-> None]
      /\ mem.l7 = [id \in Ids |-> None]
      /\ mem.order = <<>>
      /\ mem.time = [id \in Ids |-> 0]
      /\ mem = [flows |-> mem.flows, tcps |-> mem.tcps, l7s |-> mem.l7s, flow |-> mem.flow,
                tcp |-> mem.tcp, l7 |-> mem.l7, order |-> mem.order, time |-> mem.time]
  BY DEF Init
<1>3. /\ Lends(mem.flows, 1 .. FlowSize, mem.flow, Ids, None)
      /\ mem.flows.total = FlowSize /\ Len(mem.flows.items) = FlowSize
  <2>1. LET p == Created(EmptyPool, [i \in 1 .. FlowSize |-> i])
        IN /\ Lends(p, 1 .. FlowSize, [id \in Ids |-> None], Ids, None)
           /\ p.total = FlowSize /\ Len(p.items) = FlowSize
    BY <1>1, NewPool
  <2> QED
    BY <1>2, <2>1
<1>4. Lends(mem.tcps, 1 .. TcpSize, mem.tcp, Ids, None)
  <2>1. Lends(Created(EmptyPool, [i \in 1 .. TcpSize |-> i]), 1 .. TcpSize,
              [id \in Ids |-> None], Ids, None)
    BY <1>1, NewPool
  <2> QED
    BY <1>2, <2>1
<1>5. Lends(mem.l7s, 1 .. L7Size, mem.l7, Ids, None)
  <2>1. Lends(Created(EmptyPool, [i \in 1 .. L7Size |-> i]), 1 .. L7Size,
              [id \in Ids |-> None], Ids, None)
    BY <1>1, NewPool
  <2> QED
    BY <1>2, <2>1
<1>6. TableOf(mem) = {}
  BY <1>2 DEF TableOf, InTable
<1>7. Indexes(mem.order, TableOf(mem)) /\ Len(mem.order) = 0 /\ mem.order \in Seq(Ids)
  <2>1. <<>> \in Seq(TableOf(mem)) /\ <<>> \in Seq(Ids) /\ Len(<<>>) = 0
    BY EmptySeq
  <2> QED
    BY <1>2, <1>6, <2>1 DEF Indexes
<1>8. mem \in Mem
  <2>1. /\ mem.flows \in Pools(1 .. FlowSize) /\ mem.tcps \in Pools(1 .. TcpSize)
        /\ mem.l7s \in Pools(1 .. L7Size)
    BY <1>3, <1>4, <1>5 DEF Lends, Fits
  <2>2. mem.time \in [Ids -> Times]
    BY <1>1, <1>2 DEF Times
  <2> QED
    BY <1>2, <1>7, <2>1, <2>2 DEF Mem
<1>9. Consistent(mem)
  BY <1>1, <1>3, <1>4, <1>5, <1>7, <1>8 DEF Consistent
<1>10. ClosedInfo \in Infos
  BY DEF ClosedInfo, Infos, States
<1>11. /\ tcpInfo \in [1 .. TcpSize -> Infos]
       /\ packet_time \in Times /\ last_timeout \in Times /\ current \in Ids \cup {None}
  BY <1>1, <1>10 DEF Init, Times
<1> QED
  BY <1>9, <1>11 DEF MemInv

\* What a packet does, whichever way processPacket takes: it keeps the
\* invariant, and drops old flows and finished ones only.
LEMMA PacketKeeps ==
  ASSUME MemInv, NEW id \in Ids, Packet(id)
  PROVE  /\ MemInv'
         /\ \A a \in Ids : InTable(mem, a) /\ ~InTable(mem', a) =>
              \/ IsOld(mem.time, a, Timeout, packet_time')
              \/ a = current' /\ Finished(tcpInfo'[mem.tcp[a]])
<1>1. /\ Consistent(mem) /\ tcpInfo \in [1 .. TcpSize -> Infos]
      /\ packet_time \in Times /\ last_timeout \in Times
      /\ current' = id /\ packet_time' \in Times
  <2>1. MaxTime \in Nat
    BY TCPProtocolAssumption
  <2> QED
    BY <2>1 DEF MemInv, Packet, Times
<1>2. CASE Ignored(id)
  <2>1. tcpInfo' = tcpInfo /\ last_timeout' = last_timeout
    BY <1>2 DEF Ignored
  <2>2. \/ mem' = mem
        \/ /\ ~InTable(mem, id) /\ CanAcquire(mem.flows)
           /\ mem' \in NewFlow(mem, id, packet_time')
    BY <1>2 DEF Ignored
  <2>3. Consistent(mem') /\ TableOf(mem) \subseteq TableOf(mem')
    <3>1. CASE mem' = mem
      BY <1>1, <3>1
    <3>2. CASE /\ ~InTable(mem, id) /\ CanAcquire(mem.flows)
               /\ mem' \in NewFlow(mem, id, packet_time')
      <4>1. Consistent(mem') /\ TableOf(mem') = TableOf(mem) \cup {id}
        BY <1>1, <3>2, NewFlowKeeps
      <4> QED
        BY <4>1
    <3> QED
      BY <2>2, <3>1, <3>2
  <2> QED
    BY <1>1, <2>1, <2>3 DEF MemInv, TableOf
<1>3. ASSUME NEW seg \in SegmentsUsed, NEW payload \in Payloads, FirstPacket(id, seg, payload)
      PROVE  /\ MemInv'
             /\ \A a \in TableOf(mem) \ TableOf(mem') : IsOld(mem.time, a, Timeout, packet_time')
  <2>1. ~InTable(mem, id) /\ CanAcquire(mem.flows) /\ CanAcquire(mem.tcps)
    BY <1>3 DEF FirstPacket
  <2>2. PICK m \in NewFlow(mem, id, packet_time') :
          Tracked(m, [tcpInfo EXCEPT ![m.tcp[id]] = ClosedInfo], id, "FORWARD", seg, payload)
    BY <1>3 DEF FirstPacket
  <2>3. /\ Consistent(m)
        /\ TableOf(m) = TableOf(mem) \cup {id}
        /\ m.time = [mem.time EXCEPT ![id] = packet_time']
        /\ HasTcp(m, id)
    BY <1>1, <2>1, <2>2, NewFlowKeeps
  <2>4. [tcpInfo EXCEPT ![m.tcp[id]] = ClosedInfo] \in [1 .. TcpSize -> Infos]
    <3>1. ClosedInfo \in Infos
      BY DEF ClosedInfo, Infos, States
    <3> QED
      BY <1>1, <3>1
  <2>5. "FORWARD" \in Directions
    BY DEF Directions
  <2>6. /\ Consistent(mem')
        /\ tcpInfo' \in [1 .. TcpSize -> Infos]
        /\ last_timeout' \in Times
        /\ \A a \in TableOf(m) \ TableOf(mem') :
             IsOld(m.time, a, Timeout, packet_time') \/ a = id
    BY <1>1, <2>2, <2>3, <2>4, <2>5, TrackedKeeps
  <2>7. \A a \in TableOf(mem) : a # id /\ a \in Ids /\ m.time[a] = mem.time[a]
    <3>1. mem.time \in [Ids -> Times]
      BY <1>1 DEF Consistent, Mem
    <3> QED
      BY <2>1, <2>3, <3>1 DEF TableOf
  <2>8. \A a \in TableOf(mem) \ TableOf(mem') : IsOld(mem.time, a, Timeout, packet_time')
    BY <2>3, <2>6, <2>7 DEF IsOld
  <2> QED
    BY <1>1, <2>6, <2>8 DEF MemInv
<1>4. ASSUME NEW seg \in SegmentsUsed, NEW payload \in Payloads, NextPacket(id, seg, payload)
      PROVE  /\ MemInv'
             /\ \A a \in TableOf(mem) \ TableOf(mem') :
                  \/ IsOld(mem.time, a, Timeout, packet_time')
                  \/ a = current' /\ Finished(tcpInfo'[mem.tcp[a]])
  <2>1. id \in TableOf(mem) /\ HasTcp(mem, id)
    BY <1>4 DEF NextPacket, TableOf
  <2>2. PICK dir \in Directions : Tracked(mem, tcpInfo, id, dir, seg, payload)
    BY <1>4 DEF NextPacket
  <2>3. /\ Consistent(mem')
        /\ tcpInfo' \in [1 .. TcpSize -> Infos]
        /\ last_timeout' \in Times
        /\ \A a \in TableOf(mem) \ TableOf(mem') :
             \/ IsOld(mem.time, a, Timeout, packet_time')
             \/ a = id /\ Finished(tcpInfo'[mem.tcp[id]])
    BY <1>1, <2>1, <2>2, TrackedKeeps
  <2> QED
    BY <1>1, <2>3 DEF MemInv
<1> QED
  BY <1>2, <1>3, <1>4 DEF Packet, TableOf

\* No packet, whichever way it takes, disturbs what is held and what is free.
LEMMA MemStep == MemInv /\ [Next]_vars => MemInv'
<1>1. CASE UNCHANGED vars
  BY <1>1 DEF vars, MemInv
<1>2. ASSUME MemInv, NEW id \in Ids, Packet(id) PROVE MemInv'
  BY <1>2, PacketKeeps
<1> QED
  BY <1>1, <1>2 DEF Next

\* Pools, table and index of the TCP layer belong together for ever.
LEMMA MemAlways == Spec => []MemInv
BY MemInit, MemStep, PTL DEF Spec

-----------------------------------------------------------------------------
(***************************************************************************)
(* What follows                                                            *)
(***************************************************************************)

\* TCPProtocol::processPacket loses and shares no flow object, whichever way
\* flows end: those that are not free are in both indexes, each once.
THEOREM FlowsAlwaysConserved == Spec => []FlowsConserved
<1>1. MemInv => FlowsConserved
  <2> SUFFICES ASSUME MemInv PROVE FlowsConserved
    OBVIOUS
  <2>1. Consistent(mem) /\ Table = TableOf(mem)
    BY DEF MemInv, Table, TableOf
  <2>2. ToSet(mem.order) = Table /\ Cardinality(Table) = Len(mem.order)
    BY <2>1, IndexCount DEF Consistent
  <2>3. TypeOK
    BY DEF MemInv, TypeOK, Infos, Consistent
  <2>4. \A a, b \in Table : mem.flow[a] = mem.flow[b] => a = b
    BY <2>1 DEF Consistent, Lends, TableOf, InTable
  <2> QED
    BY <2>1, <2>2, <2>3, <2>4 DEF FlowsConserved, IndexesAgree, Consistent
<1> QED
  BY <1>1, MemAlways, PTL

\* Two live connections never write to one TCPInfo or application info, and
\* none of theirs is on a free stack, in whatever order connections end.
THEOREM InfosNeverShared == Spec => []InfosNotShared
<1>1. MemInv => InfosNotShared
  <2> SUFFICES ASSUME MemInv PROVE InfosNotShared
    OBVIOUS
  <2>1. Consistent(mem)
    BY DEF MemInv
  <2>2. \A id \in Tracking : id \in Ids /\ mem.tcp[id] # None
    BY <2>1, Pointers DEF Tracking, Table
  <2>3. \A id \in Inspected : id \in Ids /\ mem.l7[id] # None
    BY <2>1, Pointers DEF Inspected, Table
  <2> QED
    BY <2>1, <2>2, <2>3 DEF InfosNotShared, Consistent, Lends, FreeObjects
<1> QED
  BY <1>1, MemAlways, PTL

\* Neither the timers nor the end of a connection take another flow: one leaves
\* the table only when it is old or its own connection is finished.
THEOREM DropsOnlyFinishedOrOld == Spec => OnlyFinishedOrOld
<1>1. MemInv /\ [Next]_vars =>
        [\A id \in Ids : InTable(mem, id) /\ ~InTable(mem', id) =>
           \/ IsOld(mem.time, id, Timeout, packet_time')
           \/ id = current' /\ Finished(tcpInfo'[mem.tcp[id]])]_vars
  <2>1. ASSUME MemInv, NEW id \in Ids, Packet(id)
        PROVE  \A a \in Ids : InTable(mem, a) /\ ~InTable(mem', a) =>
                 \/ IsOld(mem.time, a, Timeout, packet_time')
                 \/ a = current' /\ Finished(tcpInfo'[mem.tcp[a]])
    BY <2>1, PacketKeeps
  <2> QED
    BY <2>1 DEF Next
<1> QED
  BY <1>1, MemAlways, PTL DEF Spec, OnlyFinishedOrOld


-----------------------------------------------------------------------------
(***************************************************************************)
(* The tracker: what a connection has seen                                 *)
(***************************************************************************)

\* The states with an ESTABLISHED or SYN_RECEIVED connection's answer.
Answered == {"SYN_RECEIVED", "ESTABLISHED"}

\* What a state remembers of the segments that led to it.
Remembers(state, from) ==
  /\ state # "CLOSED" => <<"FORWARD", "SYN">> \in from
  /\ state \in Answered => \E dir \in Directions : <<dir, "SYNACK">> \in from
  /\ state = "ESTABLISHED" => <<"FORWARD", "ACK">> \in from
  /\ state \in Closing => \E dir \in Directions : <<dir, "FIN">> \in from

ConnectionInv == ConnectionTypeOK /\ Remembers(info.curr, seen)

\* What the table says of each move, whatever its row.
LEMMA Moves ==
  ASSUME NEW state \in States, NEW dir \in Directions, NEW flag \in Flags,
         NEW new, new = NextState(state, dir, flag)
  PROVE  /\ new \in States
         /\ new = "SYN_SENT" /\ state # "SYN_SENT" => dir = "FORWARD" /\ flag = "SYN"
         /\ new \notin {"CLOSED", "SYN_SENT"} => state # "CLOSED"
         /\ new \in Answered => state \in Answered \/ flag = "SYNACK"
         /\ new = "ESTABLISHED" =>
              \/ state = "ESTABLISHED"
              \/ state = "SYN_RECEIVED" /\ dir = "FORWARD" /\ flag = "ACK"
         /\ new \in Closing => state \in Closing \/ flag = "FIN"
         /\ state \in Closing /\ new \notin Closing =>
              new = "CLOSED" \/ (state = "TIME_WAIT" /\ new = "SYN_SENT")
<1> USE DEF NextState, tcp_states, Both, Row, Directions, Flags, States, Answered, Closing
<1>1. CASE state = "CLOSED"
  BY <1>1
<1>2. CASE state = "SYN_SENT"
  BY <1>2
<1>3. CASE state = "SIMSYN_SENT"
  BY <1>3
<1>4. CASE state = "SYN_RECEIVED"
  BY <1>4
<1>5. CASE state = "ESTABLISHED"
  BY <1>5
<1>6. CASE state = "FIN_SEEN"
  BY <1>6
<1>7. CASE state \in {"CLOSE_WAIT", "FIN_WAIT"}
  BY <1>7
<1>8. CASE state \in {"CLOSING", "LAST_ACK"}
  BY <1>8
<1>9. CASE state = "TIME_WAIT"
  BY <1>9
<1> QED
  BY <1>1, <1>2, <1>3, <1>4, <1>5, <1>6, <1>7, <1>8, <1>9

\* A flow begins with a TCPInfo that is closed.
LEMMA ConnectionInvInit == ConnectionInit => ConnectionInv
<1> SUFFICES ASSUME ConnectionInit PROVE ConnectionInv
  OBVIOUS
<1>1. info \in [prev : States, curr : States] /\ info.curr = "CLOSED"
  BY DEF ConnectionInit, ClosedInfo, States
<1> QED
  BY <1>1 DEF ConnectionInit, ConnectionInv, ConnectionTypeOK, Remembers, Answered, Closing

\* A segment that opens the connection begins what it remembers, one that
\* closes it forgets it, and any other adds to it.
LEMMA SegmentKeeps ==
  ASSUME ConnectionInv, NEW dir \in Directions, NEW seg \in Segments, Segment(dir, seg)
  PROVE  /\ ConnectionInv'
         /\ info.curr \in Closing /\ info'.curr \notin Closing =>
              \/ info'.curr = "CLOSED"
              \/ info.curr = "TIME_WAIT" /\ info'.curr = "SYN_SENT"
<1> DEFINE flag == Classify(seg)
           state == info.curr
           new == info'.curr
<1>1. info \in [prev : States, curr : States] /\ state \in States
  BY DEF ConnectionInv, ConnectionTypeOK
<1>2. flag \in Flags
  BY DEF Classify, Flags
<1>3. CASE "rst" \in seg
  <2>1. info' = ClosedInfo /\ new = "CLOSED"
    BY <1>3 DEF Segment, ComputeState, ClosedInfo
  <2>2. seen' = {}
    BY <2>1 DEF Segment
  <2>3. info' \in [prev : States, curr : States] /\ anomaly' \in BOOLEAN
    BY <2>1 DEF ClosedInfo, States, Segment
  <2> QED
    BY <2>1, <2>2, <2>3
    DEF ConnectionInv, ConnectionTypeOK, Remembers, Answered, Closing
<1>4. CASE "rst" \notin seg
  <2>1. info' = [prev |-> state, curr |-> NextState(state, dir, flag)]
    BY <1>4 DEF Segment, ComputeState
  <2>2. new = NextState(state, dir, flag)
    BY <2>1
  <2> DEFINE added == seen \cup {<<dir, flag>>}
  <2>3. /\ new = "CLOSED" => seen' = {}
        /\ new = "SYN_SENT" /\ state # "SYN_SENT" => seen' = {<<dir, flag>>}
        /\ new # "CLOSED" /\ (new = "SYN_SENT" => state = "SYN_SENT") => seen' = added
    BY DEF Segment
  <2>4. Remembers(state, seen) /\ seen \in SUBSET (Directions \X Flags)
    BY DEF ConnectionInv, ConnectionTypeOK
  <2> HIDE DEF flag, state, new
  <2>5. /\ new \in States
        /\ new = "SYN_SENT" /\ state # "SYN_SENT" => dir = "FORWARD" /\ flag = "SYN"
        /\ new \notin {"CLOSED", "SYN_SENT"} => state # "CLOSED"
        /\ new \in Answered => state \in Answered \/ flag = "SYNACK"
        /\ new = "ESTABLISHED" =>
             \/ state = "ESTABLISHED"
             \/ state = "SYN_RECEIVED" /\ dir = "FORWARD" /\ flag = "ACK"
        /\ new \in Closing => state \in Closing \/ flag = "FIN"
        /\ state \in Closing /\ new \notin Closing =>
             new = "CLOSED" \/ (state = "TIME_WAIT" /\ new = "SYN_SENT")
    BY <1>1, <1>2, <2>2, Moves
  <2>6. info' \in [prev : States, curr : States] /\ anomaly' \in BOOLEAN
    <3>1. info' = [prev |-> state, curr |-> new]
      BY <2>1, <2>2
    <3>2. anomaly \in BOOLEAN
      BY DEF ConnectionInv, ConnectionTypeOK
    <3> QED
      BY <1>1, <2>5, <3>1, <3>2 DEF Segment, BadFlags
  <2>7. seen' \in SUBSET (Directions \X Flags)
    BY <1>2, <2>3, <2>4
  <2>8. Remembers(new, seen')
    <3>1. CASE new = "CLOSED"
      BY <3>1 DEF Remembers, Answered, Closing
    <3>2. CASE new = "SYN_SENT" /\ state # "SYN_SENT"
      BY <2>3, <2>5, <3>2 DEF Remembers, Answered, Closing
    <3>3. CASE new # "CLOSED" /\ (new = "SYN_SENT" => state = "SYN_SENT")
      BY <2>3, <2>4, <2>5, <3>3 DEF Remembers, Answered, Closing
    <3> QED
      BY <3>1, <3>2, <3>3
  <2> QED
    BY <2>5, <2>6, <2>7, <2>8 DEF ConnectionInv, ConnectionTypeOK, state, new
<1> QED
  BY <1>3, <1>4

\* The segments of both sides, lost, repeated and in any order.
LEMMA ConnectionInvStep == ConnectionInv /\ [ConnectionNext]_connectionVars => ConnectionInv'
BY SegmentKeeps
DEF ConnectionNext, connectionVars, ConnectionInv, ConnectionTypeOK, Remembers

\* The tracker calls a connection established only after a handshake and
\* closing only after a FIN, whatever segments come from either side.
THEOREM OnlyAfterHandshake == ConnectionSpec => []Handshake
<1>1. ConnectionInv => Handshake
  BY DEF ConnectionInv, Remembers, Handshake, Answered, Closing
<1> QED
  BY ConnectionInvInit, ConnectionInvStep, <1>1, PTL DEF ConnectionSpec

\* A connection that closes never goes back to the handshake or to data, but
\* for a new SYN of the initiator in TIME_WAIT.
THEOREM NoWayBack == ConnectionSpec => NoReturn
<1> DEFINE Returns == info.curr \in Closing /\ info'.curr \notin Closing =>
                        \/ info'.curr = "CLOSED"
                        \/ info.curr = "TIME_WAIT" /\ info'.curr = "SYN_SENT"
<1>1. ConnectionInv /\ [ConnectionNext]_connectionVars => Returns
  BY SegmentKeeps DEF ConnectionNext, connectionVars
<1> HIDE DEF Returns
<1>2. ConnectionSpec => [][Returns]_connectionVars
  BY ConnectionInvInit, ConnectionInvStep, <1>1, PTL DEF ConnectionSpec
<1> QED
  BY <1>2 DEF Returns, NoReturn
=============================================================================
