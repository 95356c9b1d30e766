------------------------- MODULE UDPProtocolProofs -------------------------
(***************************************************************************)
(* Proofs about the UDP layer, for every set of flows, every size of the   *)
(* flow cache, every timeout and refresh rate and any gap between packets. *)
(***************************************************************************)
EXTENDS UDPProtocol, SharedLemmas

TableOf(m) == {id \in Ids : InTable(m, id)}

\* What every call of processPacket keeps.  ObjectsConserved says it with
\* cardinalities; to keep it, the objects of the flows must also be distinct
\* from those on the free stack, which each call changes.
Consistent(m) ==
  /\ m \in Mem
  /\ Lends(m.flows, 1 .. FlowSize, m.flow, Ids, None)
  /\ Indexes(m.order, TableOf(m))
  /\ Len(m.order) = Len(m.flows.items) - m.flows.total

ObjectInv ==
  /\ Consistent(mem)
  /\ object \in [1 .. FlowSize -> Object]
  /\ sweep \in 0 .. Timeout + 1
  /\ replies \subseteq Replies
  /\ live \subseteq Ids

-----------------------------------------------------------------------------
(***************************************************************************)
(* The calls                                                               *)
(***************************************************************************)

RelativeTimes == {-age : age \in Ages}

\* Relative times are integers, none greater than that of the packet.
LEMMA TimesBounded ==
  /\ 0 \in RelativeTimes /\ RelativeTimes \subseteq Int
  /\ \A t \in RelativeTimes : t <= 0 /\ -Timeout <= t
  /\ \A t \in Int : t <= 0 /\ -Timeout <= t => t \in RelativeTimes
<1>1. Timeout \in Nat
  BY UDPProtocolAssumption
<1>2. ASSUME NEW t \in Int, t <= 0, -Timeout <= t PROVE t \in RelativeTimes
  <2>1. -t \in Ages /\ -(-t) = t
    BY <1>1, <1>2 DEF Ages
  <2> QED
    BY <2>1 DEF RelativeTimes
<1> QED
  BY <1>1, <1>2 DEF RelativeTimes, Ages

\* getFlow puts a flow in the table with an object of its own.
LEMMA NewFlowKeeps ==
  ASSUME NEW m, Consistent(m), NEW id \in Ids, ~InTable(m, id), CanAcquire(m.flows)
  PROVE  LET n == NewFlow(m, id)
         IN /\ Consistent(n)
            /\ TableOf(n) = TableOf(m) \cup {id}
            /\ n.flow[id] \in 1 .. FlowSize
<1> DEFINE n == NewFlow(m, id)
           time == [m.time EXCEPT ![id] = 0]
           order == CHOOSE order \in Inserted(m.order, time, id) : TRUE
<1>0. m \in Mem /\ None \notin 1 .. FlowSize
  BY DEF Consistent, None
<1>time. time \in [Ids -> RelativeTimes] /\ time[id] = 0
  BY <1>0, TimesBounded DEF Mem, RelativeTimes
<1>1. n = [m EXCEPT !.flows = Acquired(@),
                    !.flow[id] = Top(m.flows),
                    !.order = order,
                    !.time = time]
  BY DEF NewFlow
<1> HIDE DEF n, time
<1>2. order \in Inserted(m.order, time, id)
  <2> DEFINE last == Len(m.order) + 1
  <2>1. m.order \in Seq(Ids) /\ Len(m.order) \in Nat
    BY <1>0, LenProperties DEF Mem
  <2>2. last \in 1 .. Len(m.order) + 1 /\ ~(last <= Len(m.order))
    BY <2>1
  <2>3. last > 1 => time[m.order[last - 1]] <= time[id]
    <3> SUFFICES ASSUME last > 1 PROVE time[m.order[last - 1]] <= time[id]
      OBVIOUS
    <3>1. last - 1 \in 1 .. Len(m.order)
      BY <2>1
    <3>2. m.order[last - 1] \in Ids
      BY <2>1, <3>1, ElementOfSeq
    <3> QED
      BY <1>time, <3>2, TimesBounded
  <2> HIDE DEF last
  <2>4. InsertAt(m.order, last, id) \in Inserted(m.order, time, id)
    BY <2>2, <2>3 DEF Inserted
  <2> QED
    BY <2>4
<1> HIDE DEF order
<1>3. /\ n = [flows |-> n.flows, flow |-> n.flow, order |-> n.order, time |-> n.time]
      /\ n.flows = Acquired(m.flows)
      /\ n.flow = [m.flow EXCEPT ![id] = Top(m.flows)]
      /\ n.order = order
      /\ n.time = time
  BY <1>0, <1>1 DEF Mem
<1>4. /\ Lends(n.flows, 1 .. FlowSize, n.flow, Ids, None)
      /\ Top(m.flows) \in 1 .. FlowSize
      /\ n.flows.total = m.flows.total - 1 /\ n.flows.items = m.flows.items
  BY <1>0, <1>3, AcquiredNumber DEF Consistent
<1>5. TableOf(n) = TableOf(m) \cup {id} /\ id \notin TableOf(m) /\ n.flow[id] \in 1 .. FlowSize
  <2>1. /\ \A a \in Ids : n.flow[a] # None <=> (a = id \/ m.flow[a] # None)
        /\ n.flow[id] = Top(m.flows)
    BY <1>0, <1>3, <1>4 DEF Mem
  <2> QED
    BY <1>4, <2>1 DEF TableOf, InTable
<1>6. /\ Indexes(n.order, TableOf(n))
      /\ n.order \in Seq(Ids)
      /\ Len(n.order) = Len(m.order) + 1
  <2>1. Indexes(n.order, TableOf(n))
    BY <1>2, <1>3, <1>5, InsertedIndex DEF Consistent
  <2>2. n.order \in Seq(TableOf(n)) /\ TableOf(n) \subseteq Ids
    BY <2>1 DEF Indexes, TableOf
  <2>3. m.order \in Seq(Ids)
    BY <1>0 DEF Mem
  <2>4. Len(n.order) = Len(m.order) + 1
    BY <1>2, <1>3, <2>3, InsertedEntries DEF PutAt
  <2> QED
    BY <2>1, <2>2, <2>4, SeqMonotonic
<1>7. n \in Mem
  <2>1. n.flows \in Pools(1 .. FlowSize) /\ n.flow \in [Ids -> (1 .. FlowSize) \cup {None}]
    BY <1>4 DEF Lends, Fits
  <2> QED
    BY <1>3, <1>6, <1>time, <2>1 DEF Mem, RelativeTimes
<1>8. Len(n.order) = Len(n.flows.items) - n.flows.total
  <2>1. m.flows.total \in Nat /\ Len(m.flows.items) \in Nat
    <3>1. m.flows.items \in Seq(1 .. FlowSize) /\ m.flows.total \in Nat
      BY <1>0 DEF Mem, Pools
    <3> QED
      BY <3>1, LenProperties
  <2> QED
    BY <1>4, <1>6, <2>1 DEF Consistent
<1> QED
  BY <1>4, <1>5, <1>6, <1>7, <1>8 DEF Consistent, n

\* A flow that times out gives its object back and leaves both indexes.
LEMMA DropFlowKeeps ==
  ASSUME NEW m, Consistent(m), NEW id \in TableOf(m)
  PROVE  LET n == DropFlow(m, id)
         IN /\ Consistent(n)
            /\ TableOf(n) = TableOf(m) \ {id}
<1> DEFINE n == DropFlow(m, id)
<1>0. m \in Mem /\ id \in Ids /\ m.flow[id] # None
  BY DEF Consistent, TableOf, InTable
<1>1. n = [m EXCEPT !.flows = Released(@, m.flow[id]),
                    !.flow[id] = None,
                    !.order = Without(@, id), !.time[id] = 0]
  BY DEF DropFlow
<1> HIDE DEF n
<1>2. /\ n = [flows |-> n.flows, flow |-> n.flow, order |-> n.order, time |-> n.time]
      /\ n.flows = Released(m.flows, m.flow[id])
      /\ n.flow = [m.flow EXCEPT ![id] = None]
      /\ n.order = Without(m.order, id)
      /\ n.time = [m.time EXCEPT ![id] = 0]
  BY <1>0, <1>1 DEF Mem
<1>3. /\ Lends(n.flows, 1 .. FlowSize, n.flow, Ids, None)
      /\ Len(n.flows.items) = Len(m.flows.items)
      /\ n.flows.total = IF CanRelease(m.flows) THEN m.flows.total + 1 ELSE m.flows.total
  <2>1. id \in Ids /\ m.flow[id] # None /\ Lends(m.flows, 1 .. FlowSize, m.flow, Ids, None)
    BY <1>0 DEF Consistent
  <2>2. LET q == Released(m.flows, m.flow[id])
        IN /\ Lends(q, 1 .. FlowSize, [m.flow EXCEPT ![id] = None], Ids, None)
           /\ Len(q.items) = Len(m.flows.items)
           /\ q.total = IF CanRelease(m.flows) THEN m.flows.total + 1 ELSE m.flows.total
    BY <2>1, ReleasedNumber
  <2> QED
    BY <1>2, <2>2
<1>4. TableOf(n) = TableOf(m) \ {id}
  <2>1. \A a \in Ids : n.flow[a] # None <=> (a # id /\ m.flow[a] # None)
    BY <1>0, <1>2 DEF Mem
  <2> QED
    BY <2>1 DEF TableOf, InTable
<1>5. /\ Indexes(n.order, TableOf(n))
      /\ n.order \in Seq(Ids)
      /\ Len(n.order) = Len(m.order) - 1
  <2>1. Indexes(n.order, TableOf(n)) /\ Len(n.order) = Len(m.order) - 1
    BY <1>2, <1>4, WithoutIndex DEF Consistent
  <2>2. n.order \in Seq(TableOf(n)) /\ TableOf(n) \subseteq Ids
    BY <2>1 DEF Indexes, TableOf
  <2> QED
    BY <2>1, <2>2, SeqMonotonic
<1>6. n \in Mem
  <2>1. n.flows \in Pools(1 .. FlowSize) /\ n.flow \in [Ids -> (1 .. FlowSize) \cup {None}]
    BY <1>3 DEF Lends, Fits
  <2>2. n.time \in [Ids -> RelativeTimes]
    BY <1>0, <1>2, TimesBounded DEF Mem, RelativeTimes
  <2> QED
    BY <1>2, <1>5, <2>1, <2>2 DEF Mem, RelativeTimes
<1>7. Len(n.order) = Len(n.flows.items) - n.flows.total
  <2>1. m.flows.total \in Nat /\ Len(m.flows.items) \in Nat /\ Len(n.order) \in Nat
    <3>1. m.flows.items \in Seq(1 .. FlowSize) /\ m.flows.total \in Nat
      BY <1>0 DEF Mem, Pools
    <3> QED
      BY <1>5, <3>1, LenProperties
  <2>2. Len(m.order) = Len(m.flows.items) - m.flows.total
    BY DEF Consistent
  <2>3. CanRelease(m.flows)
    BY <1>5, <2>1, <2>2 DEF CanRelease
  <2> QED
    BY <1>3, <1>5, <2>1, <2>2, <2>3
<1> QED
  BY <1>3, <1>4, <1>5, <1>6, <1>7 DEF Consistent, n

\* updateTimers drops old flows only, one after the other.
LEMMA UpdateTimersKeeps ==
  ASSUME NEW m, Consistent(m)
  PROVE  LET n == UpdateTimers(m)
         IN /\ Consistent(n)
            /\ TableOf(n) \subseteq TableOf(m)
            /\ \A id \in TableOf(m) \ TableOf(n) : IsOld(m.time, id, Timeout, 0)
<1> DEFINE old == Expired(m.order, m.time, Timeout, 0)
           k == Len(old)
           G == [i \in 0 .. k |->
                  {x \in Mem : /\ Consistent(x)
                               /\ TableOf(x) = TableOf(m) \ {old[j] : j \in 1 .. i}}]
           step == [i \in 1 .. k |-> [x \in G[i - 1] |-> DropFlow(x, old[i])]]
           Runs(f) == f = [i \in 0 .. k |-> IF i = 0 THEN m ELSE DropFlow(f[i - 1], old[i])]
           left == CHOOSE f : Runs(f)
<1>1. /\ old \in Seq(TableOf(m)) /\ k \in Nat /\ k \in 0 .. Len(m.order)
      /\ \A i \in 1 .. k : old[i] = m.order[i] /\ IsOld(m.time, m.order[i], Timeout, 0)
      /\ \A i \in 1 .. k : old[i] \in TableOf(m)
      /\ \A i, j \in 1 .. k : old[i] = old[j] => i = j
  <2>1. /\ old \in Seq(TableOf(m)) /\ k \in 0 .. Len(m.order)
        /\ \A i \in 1 .. k : old[i] = m.order[i] /\ IsOld(m.time, m.order[i], Timeout, 0)
    BY ExpiredPrefix DEF Consistent
  <2>2. k \in Nat /\ \A i \in 1 .. k : old[i] \in TableOf(m)
    BY <2>1, LenProperties, ElementOfSeq
  <2>3. \A i \in 1 .. k : i \in 1 .. Len(m.order)
    BY <2>1, <2>2
  <2>4. \A i, j \in 1 .. Len(m.order) : m.order[i] = m.order[j] => i = j
    BY DEF Consistent, Indexes
  <2> HIDE DEF old
  <2> QED
    BY <2>1, <2>2, <2>3, <2>4
<1>2. UpdateTimers(m) = left[k]
  BY DEF UpdateTimers
<1> HIDE DEF old, k
<1>3. m \in G[0]
  <2>1. m \in Mem /\ {old[j] : j \in 1 .. 0} = {} /\ 0 \in 0 .. k
    BY <1>1 DEF Consistent
  <2> QED
    BY <2>1
<1>4. ASSUME NEW i \in 1 .. k, NEW x \in G[i - 1]
      PROVE  DropFlow(x, old[i]) \in G[i]
  <2>1. i - 1 \in 0 .. k /\ i \in 0 .. k
    BY <1>1
  <2>2. Consistent(x) /\ TableOf(x) = TableOf(m) \ {old[j] : j \in 1 .. i - 1}
    BY <2>1
  <2>3. old[i] \in TableOf(x)
    <3>1. \A j \in 1 .. i - 1 : j \in 1 .. k /\ j # i
      BY <1>1
    <3> QED
      BY <1>1, <2>2, <3>1
  <2>4. /\ Consistent(DropFlow(x, old[i]))
        /\ TableOf(DropFlow(x, old[i])) = TableOf(x) \ {old[i]}
    BY <2>2, <2>3, DropFlowKeeps
  <2>5. {old[j] : j \in 1 .. i} = {old[j] : j \in 1 .. i - 1} \cup {old[i]}
    <3>1. \A j : j \in 1 .. i <=> j \in 1 .. i - 1 \/ j = i
      BY <1>1
    <3> QED
      BY <3>1
  <2> QED
    BY <2>1, <2>2, <2>4, <2>5 DEF Consistent
<1> HIDE DEF G
<1>5. \E f : Runs(f)
  <2>1. \A i \in 1 .. k : \A x \in G[i - 1] : step[i][x] \in G[i]
    BY <1>4
  <2>2. PICK f : Iterates(f, k, G, m, step)
    <3> HIDE DEF step
    <3> QED
      BY <1>1, <1>3, <2>1, Iteration
  <2>3. \A i \in 1 .. k : f[i] = DropFlow(f[i - 1], old[i])
    <3> SUFFICES ASSUME NEW i \in 1 .. k PROVE f[i] = DropFlow(f[i - 1], old[i])
      OBVIOUS
    <3>1. i - 1 \in 0 .. k
      BY <1>1
    <3>2. f[i - 1] \in G[i - 1] /\ f[i] = step[i][f[i - 1]]
      BY <2>2, <3>1 DEF Iterates
    <3> QED
      BY <3>2
  <2>4. f = [i \in 0 .. k |-> f[i]] /\ f[0] = m
    BY <2>2 DEF Iterates
  <2>5. \A i \in 0 .. k : i # 0 => i \in 1 .. k
    BY <1>1
  <2>6. \A i \in 0 .. k : f[i] = IF i = 0 THEN m ELSE DropFlow(f[i - 1], old[i])
    BY <2>3, <2>4, <2>5
  <2> QED
    BY <2>4, <2>6
<1>6. Runs(left)
  BY <1>5
<1> HIDE DEF left, step
<1>7. left[k] \in G[k]
  <2> DEFINE S == {i \in 0 .. k : left[i] \in G[i]}
  <2>1. 0 \in S
    BY <1>1, <1>3, <1>6
  <2>2. \A i \in 0 .. k - 1 : i \in S => i + 1 \in S
    <3> SUFFICES ASSUME NEW i \in 0 .. k - 1, i \in S PROVE i + 1 \in S
      OBVIOUS
    <3>1. i + 1 \in 1 .. k /\ i + 1 \in 0 .. k /\ i + 1 - 1 = i /\ i + 1 # 0
      BY <1>1
    <3>2. left[i + 1] = DropFlow(left[i], old[i + 1])
      BY <1>6, <3>1
    <3>3. left[i] \in G[i + 1 - 1]
      BY <3>1
    <3> QED
      BY <1>4, <3>1, <3>2, <3>3
  <2> HIDE DEF S
  <2>3. 0 .. k \subseteq S
    BY <1>1, <2>1, <2>2, IntervalInduction
  <2>4. k \in S
    BY <1>1, <2>3
  <2> QED
    BY <2>4 DEF S
<1>8. Consistent(left[k]) /\ TableOf(left[k]) = TableOf(m) \ {old[j] : j \in 1 .. k}
  BY <1>1, <1>7 DEF G
<1> QED
  BY <1>1, <1>2, <1>8

\* The end of processPacket runs the timers or notes the time of the packet.
LEMMA TimersKeep ==
  ASSUME NEW m, Consistent(m), NEW id \in TableOf(m), NEW packets, NEW elapsed,
         NEW n \in Timers(m, id, packets, elapsed)
  PROVE  Consistent(n)
<1>1. CASE SweepDue(elapsed)
  <2>1. n = UpdateTimers(m)
    BY <1>1 DEF Timers
  <2> QED
    BY <2>1, UpdateTimersKeeps
<1>2. CASE ~SweepDue(elapsed)
  <2> DEFINE time == [m.time EXCEPT ![id] = 0]
  <2>1. PICK order : /\ n = [m EXCEPT !.time = time, !.order = order]
                     /\ order \in Reindexed(m.order, time, id) \/ order = m.order
    BY <1>2 DEF Timers
  <2>2. m \in Mem /\ id \in Ids
    BY DEF Consistent, TableOf
  <2>time. time \in [Ids -> RelativeTimes]
    BY <2>2, TimesBounded DEF Mem, RelativeTimes
  <2> HIDE DEF time
  <2>3. /\ n = [flows |-> n.flows, flow |-> n.flow, order |-> n.order, time |-> n.time]
        /\ n.flows = m.flows /\ n.flow = m.flow /\ n.order = order /\ n.time = time
    BY <2>1, <2>2 DEF Mem
  <2>4. TableOf(n) = TableOf(m)
    BY <2>3 DEF TableOf, InTable
  <2>5. Indexes(order, TableOf(m))
    BY <2>1, ReindexedIndex DEF Consistent
  <2>6. Len(order) = Len(m.order)
    BY <2>5, IndexCount DEF Consistent
  <2>7. n \in Mem
    <3>1. order \in Seq(TableOf(m)) /\ TableOf(m) \subseteq Ids
      BY <2>5 DEF Indexes, TableOf
    <3>2. order \in Seq(Ids)
      BY <3>1, SeqMonotonic
    <3> QED
      BY <2>2, <2>3, <2>time, <3>2 DEF Mem, RelativeTimes
  <2> QED
    BY <2>3, <2>4, <2>5, <2>6, <2>7 DEF Consistent
<1> QED
  BY <1>1, <1>2

\* Time passes: the flows grow older and stay where they are.
LEMMA LaterKeeps ==
  ASSUME Consistent(mem), NEW d \in Nat
  PROVE  /\ Consistent(Later(d))
         /\ Later(d).flows = mem.flows /\ Later(d).flow = mem.flow
<1> DEFINE n == Later(d)
           time == [id \in Ids |->
                     IF InTable(mem, id) THEN Max({-Timeout, mem.time[id] - d}) ELSE 0]
<1>0. mem \in Mem
  BY DEF Consistent
<1>1. n = [mem EXCEPT !.time = time]
  BY DEF Later
<1>2. ASSUME NEW id \in Ids PROVE Max({-Timeout, mem.time[id] - d}) \in RelativeTimes
  <2>1. mem.time[id] \in RelativeTimes
    BY <1>0 DEF Mem, RelativeTimes
  <2>2. /\ -Timeout \in Int /\ mem.time[id] - d \in Int
        /\ -Timeout <= 0 /\ mem.time[id] - d <= 0
    <3>1. mem.time[id] \in Int /\ mem.time[id] <= 0
      BY <2>1, TimesBounded
    <3>2. Timeout \in Nat
      BY UDPProtocolAssumption
    <3> QED
      BY <3>1, <3>2
  <2>3. CASE -Timeout <= mem.time[id] - d
    <3>1. \E x \in {-Timeout, mem.time[id] - d} :
            \A y \in {-Timeout, mem.time[id] - d} : x >= y
      BY <2>2, <2>3
    <3>2. Max({-Timeout, mem.time[id] - d}) \in {-Timeout, mem.time[id] - d}
          /\ Max({-Timeout, mem.time[id] - d}) >= -Timeout
      BY <3>1 DEF Max
    <3> HIDE DEF time
    <3> QED
      BY <2>2, <3>2, TimesBounded
  <2>4. CASE ~(-Timeout <= mem.time[id] - d)
    <3>1. \E x \in {-Timeout, mem.time[id] - d} :
            \A y \in {-Timeout, mem.time[id] - d} : x >= y
      BY <2>2, <2>4
    <3>2. Max({-Timeout, mem.time[id] - d}) \in {-Timeout, mem.time[id] - d}
          /\ Max({-Timeout, mem.time[id] - d}) >= -Timeout
      BY <3>1 DEF Max
    <3> QED
      BY <2>2, <3>2, TimesBounded
  <2> QED
    BY <2>3, <2>4
<1>3. time \in [Ids -> RelativeTimes]
  BY <1>2, TimesBounded
<1> HIDE DEF n, time
<1>4. /\ n = [flows |-> n.flows, flow |-> n.flow, order |-> n.order, time |-> n.time]
      /\ n.flows = mem.flows /\ n.flow = mem.flow /\ n.order = mem.order /\ n.time = time
  BY <1>0, <1>1 DEF Mem
<1>5. TableOf(n) = TableOf(mem)
  BY <1>4 DEF TableOf, InTable
<1>6. n \in Mem
  BY <1>0, <1>3, <1>4 DEF Mem, RelativeTimes
<1> QED
  BY <1>4, <1>5, <1>6 DEF Consistent, n

\* The sweep's clock stops at one more than the timeout.
LEMMA ElapsedBounded ==
  ASSUME sweep \in 0 .. Timeout + 1, NEW d \in Nat
  PROVE  Elapsed(d) \in 0 .. Timeout + 1
<1>1. Timeout \in Nat
  BY UDPProtocolAssumption
<1> DEFINE S == {sweep + d, Timeout + 1}
<1>2. S \in SUBSET Nat /\ S # {} /\ Timeout + 1 \in S
  BY <1>1
<1> HIDE DEF S
<1>3. Min(S) \in S /\ Min(S) <= Timeout + 1
  BY <1>2, MinIsLeast
<1> QED
  BY <1>1, <1>2, <1>3 DEF Elapsed, S

\* "port unreachable" goes to the sender of the packet it answers.
LEMMA Answer ==
  ASSUME NEW id \in Ids, NEW sender \in Ends
  PROVE  LET a == RejectUDPFlow(Direction(id, sender), IPv6)
         IN /\ a \in [to : Ends, from : Ends, endpoint : Ends]
            /\ id \notin SamePorts => a.to = sender /\ a.from = Opposite(sender)
<1> DEFINE a == RejectUDPFlow(Direction(id, sender), IPv6)
           end == SenderOf(Direction(id, sender))
<1>1. end \in Ends /\ Opposite(end) \in Ends
  BY DEF SenderOf, Opposite, Ends
<1>2. id \notin SamePorts => end = sender
  BY DEF SenderOf, Direction, Ends
<1> HIDE DEF end
<1>3. \/ a = [to |-> end, from |-> Opposite(end), endpoint |-> end]
      \/ a = [to |-> end, from |-> Opposite(end), endpoint |-> Opposite(end)]
  BY DEF RejectUDPFlow, RejectUDPFlowLan, RejectUDPFlowLanIPv6, end
<1> HIDE DEF a
<1>4. a \in [to : Ends, from : Ends, endpoint : Ends]
      /\ a.to = end /\ a.from = Opposite(end)
  BY <1>1, <1>3
<1> QED
  BY <1>2, <1>4 DEF a

-----------------------------------------------------------------------------
(***************************************************************************)
(* The steps                                                               *)
(***************************************************************************)

\* A packet counts, and may change the flags of its flow.
LEMMA FieldsKept ==
  ASSUME NEW fields \in Object, NEW ask \in BOOLEAN
  PROVE  LET seen == [fields EXCEPT !.packets = (@ + 1) % RefreshRate,
                                    !.reject = @ \/ ask]
         IN seen \in Object /\ Rejected(seen) \in Object
<1> DEFINE seen == [fields EXCEPT !.packets = (@ + 1) % RefreshRate,
                                  !.reject = @ \/ ask]
<1>1. RefreshRate \in Nat /\ RefreshRate > 0
  BY UDPProtocolAssumption
<1>2. fields.packets \in Nat /\ fields.reject \in BOOLEAN /\ fields.partial \in BOOLEAN
  BY <1>1 DEF Object
<1>3. (fields.packets + 1) % RefreshRate \in 0 .. RefreshRate - 1
  BY <1>1, <1>2
<1> DEFINE count == (fields.packets + 1) % RefreshRate
           asked == fields.reject \/ ask
<1>4. asked \in BOOLEAN
  BY <1>2
<1>5. seen = [packets |-> count, reject |-> asked, partial |-> fields.partial]
  <2>1. seen = [fields EXCEPT !.packets = count, !.reject = asked]
    BY Zenon
  <2> HIDE DEF count, asked, seen
  <2> QED
    BY <2>1 DEF Object
<1> HIDE DEF count, asked, seen
<1>6. seen \in Object /\ seen.packets = count /\ seen.reject = asked
  BY <1>2, <1>3, <1>4, <1>5 DEF Object, count
<1>7. Rejected(seen) \in Object
  BY <1>6 DEF Rejected, Object
<1> QED
  BY <1>6, <1>7 DEF seen

\* The part of processPacket that the first packet of a flow and the next
\* ones have in common.
LEMMA ProcessKeeps ==
  ASSUME ObjectInv, NEW m, Consistent(m), NEW id \in TableOf(m), NEW fields \in Object,
         NEW sender \in Ends, NEW d \in Nat, NEW ask \in BOOLEAN,
         Process(m, fields, id, sender, d, ask), live' = live
  PROVE  ObjectInv' /\ RejectGoesBack'
<1> DEFINE seen == [fields EXCEPT !.packets = (@ + 1) % RefreshRate,
                                  !.reject = @ \/ ask]
           a == RejectUDPFlow(Direction(id, sender), IPv6)
<1>1. /\ object' = [object EXCEPT ![m.flow[id]] = Rejected(seen)]
      /\ replies' = IF seen.reject THEN {[icmp |-> a, sender |-> sender, id |-> id]} ELSE {}
      /\ mem' \in Timers(m, id, seen.packets, Elapsed(d))
      /\ sweep' = IF SweepDue(Elapsed(d)) THEN 0 ELSE Elapsed(d)
  BY DEF Process
<1>2. Rejected(seen) \in Object
  BY FieldsKept
<1>3. /\ a \in [to : Ends, from : Ends, endpoint : Ends]
      /\ id \notin SamePorts => a.to = sender /\ a.from = Opposite(sender)
  <2>1. id \in Ids
    BY DEF TableOf
  <2> QED
    BY <2>1, Answer
<1> HIDE DEF seen, a
<1>4. Consistent(mem')
  BY <1>1, TimersKeep
<1>5. object' \in [1 .. FlowSize -> Object]
  BY <1>1, <1>2 DEF ObjectInv
<1>6. sweep' \in 0 .. Timeout + 1
  <2>1. Timeout \in Nat
    BY UDPProtocolAssumption
  <2>2. Elapsed(d) \in 0 .. Timeout + 1
    BY ElapsedBounded DEF ObjectInv
  <2> QED
    BY <1>1, <2>1, <2>2
<1>7. replies' \subseteq Replies /\ RejectGoesBack'
  <2>1. id \in Ids
    BY DEF TableOf
  <2>2. ASSUME NEW r \in replies'
        PROVE  r = [icmp |-> a, sender |-> sender, id |-> id]
    BY <1>1, <2>2
  <2>3. ASSUME NEW r \in replies'
        PROVE  r \in Replies /\ r.icmp = a /\ r.sender = sender /\ r.id = id
    BY <1>3, <2>1, <2>2 DEF Replies
  <2> QED
    BY <1>3, <2>3 DEF RejectGoesBack
<1>8. live' \subseteq Ids
  BY DEF ObjectInv
<1>9. ObjectInv'
  BY <1>4, <1>5, <1>6, <1>7, <1>8 DEF ObjectInv, Consistent, TableOf, InTable
<1> QED
  BY <1>7, <1>9

\* The caches are filled, and nothing is to be rejected yet.
LEMMA ObjectInit == Init => ObjectInv /\ RejectGoesBack
<1> SUFFICES ASSUME Init PROVE ObjectInv /\ RejectGoesBack
  OBVIOUS
<1>1. FlowSize \in Nat /\ Timeout \in Nat
  BY UDPProtocolAssumption
<1>2. /\ mem.flows = Created(EmptyPool, [i \in 1 .. FlowSize |-> i])
      /\ mem.flow = [id \in Ids |-> None]
      /\ mem.order = <<>>
      /\ mem.time = [id \in Ids |-> 0]
      /\ mem = [flows |-> mem.flows, flow |-> mem.flow, order |-> mem.order, time |-> mem.time]
  BY DEF Init
<1>3. /\ Lends(mem.flows, 1 .. FlowSize, mem.flow, Ids, None)
      /\ mem.flows.total = FlowSize /\ Len(mem.flows.items) = FlowSize
  <2>1. LET p == Created(EmptyPool, [i \in 1 .. FlowSize |-> i])
        IN /\ Lends(p, 1 .. FlowSize, [id \in Ids |-> None], Ids, None)
           /\ p.total = FlowSize /\ Len(p.items) = FlowSize
    BY <1>1, NewPool
  <2> QED
    BY <1>2, <2>1
<1>4. TableOf(mem) = {}
  BY <1>2 DEF TableOf, InTable
<1>5. Indexes(mem.order, TableOf(mem)) /\ Len(mem.order) = 0 /\ mem.order \in Seq(Ids)
  <2>1. <<>> \in Seq(TableOf(mem)) /\ <<>> \in Seq(Ids) /\ Len(<<>>) = 0
    BY EmptySeq
  <2> QED
    BY <1>2, <1>4, <2>1 DEF Indexes
<1>6. mem \in Mem
  <2>1. mem.flows \in Pools(1 .. FlowSize)
    BY <1>3 DEF Lends, Fits
  <2>2. mem.time \in [Ids -> RelativeTimes]
    BY <1>2, TimesBounded
  <2> QED
    BY <1>2, <1>5, <2>1, <2>2 DEF Mem, RelativeTimes
<1>7. Consistent(mem)
  BY <1>1, <1>3, <1>5, <1>6 DEF Consistent
<1>8. Clean \in Object
  <2>1. RefreshRate \in Nat /\ RefreshRate > 0
    BY UDPProtocolAssumption
  <2> QED
    BY <2>1 DEF Clean, Object
<1>9. object \in [1 .. FlowSize -> Object] /\ sweep \in 0 .. Timeout + 1
  BY <1>1, <1>8 DEF Init
<1> QED
  BY <1>7, <1>9 DEF Init, ObjectInv, RejectGoesBack

\* Each action preserves what holds of the memory and of the answers.
LEMMA ObjectStep ==
  ObjectInv /\ RejectGoesBack /\ [Next]_vars => ObjectInv' /\ RejectGoesBack'
<1> SUFFICES ASSUME ObjectInv, RejectGoesBack, [Next]_vars
             PROVE  ObjectInv' /\ RejectGoesBack'
  OBVIOUS
<1>gap. \A d \in 0 .. Gap : d \in Nat
  BY UDPProtocolAssumption
<1>1. ASSUME NEW id \in Ids, NEW d \in 0 .. Gap, Packet(id, d)
      PROVE  ObjectInv' /\ RejectGoesBack'
  <2>0. live' = live /\ d \in Nat
    BY <1>1, <1>gap DEF Packet
  <2>later. /\ Consistent(Later(d))
            /\ Later(d).flows = mem.flows /\ Later(d).flow = mem.flow
    BY <2>0, LaterKeeps DEF ObjectInv
  <2>1. CASE NoFlow(id, d)
    <3>1. /\ mem' = Later(d) /\ sweep' = Elapsed(d) /\ replies' = {} /\ object' = object
      BY <2>1 DEF NoFlow
    <3>2. Elapsed(d) \in 0 .. Timeout + 1
      BY <2>0, ElapsedBounded DEF ObjectInv
    <3>3. Consistent(mem')
      BY <2>later, <3>1
    <3> QED
      BY <2>0, <3>1, <3>2, <3>3
      DEF ObjectInv, RejectGoesBack, Consistent, TableOf, InTable
  <2>2. ASSUME NEW ask \in BOOLEAN, FirstPacket(id, d, ask)
        PROVE  ObjectInv' /\ RejectGoesBack'
    <3> DEFINE m == NewFlow(Later(d), id)
    <3>1. ~InTable(mem, id) /\ CanAcquire(mem.flows) /\ Process(m, Clean, id, "source", d, ask)
      BY <2>2 DEF FirstPacket
    <3>2. ~InTable(Later(d), id) /\ CanAcquire(Later(d).flows)
      BY <2>later, <3>1 DEF InTable
    <3>3. Consistent(m) /\ TableOf(m) = TableOf(Later(d)) \cup {id}
      BY <2>later, <3>2, NewFlowKeeps
    <3>4. Clean \in Object
      <4>1. RefreshRate \in Nat /\ RefreshRate > 0
        BY UDPProtocolAssumption
      <4> QED
        BY <4>1 DEF Clean, Object
    <3>5. id \in TableOf(m) /\ "source" \in Ends
      BY <3>3 DEF Ends
    <3> HIDE DEF m
    <3> QED
      BY <2>0, <3>1, <3>3, <3>4, <3>5, ProcessKeeps
  <2>3. ASSUME NEW ask \in BOOLEAN, NextPacket(id, d, ask)
        PROVE  ObjectInv' /\ RejectGoesBack'
    <3> DEFINE m == Later(d)
               fields == object[mem.flow[id]]
    <3>1. PICK sender \in Ends : Process(m, fields, id, sender, d, ask)
      BY <2>3 DEF NextPacket
    <3>2. InTable(mem, id)
      BY <2>3 DEF NextPacket
    <3>3. id \in TableOf(m)
      BY <2>later, <3>2 DEF InTable, TableOf
    <3>4. fields \in Object
      <4>1. mem.flow[id] \in 1 .. FlowSize
        BY <3>2 DEF ObjectInv, Consistent, Mem, InTable
      <4> QED
        BY <4>1 DEF ObjectInv
    <3> HIDE DEF m, fields
    <3>5. Consistent(m)
      BY <2>later DEF m
    <3> QED
      BY <2>0, <3>1, <3>3, <3>4, <3>5, ProcessKeeps
  <2> QED
    BY <1>1, <2>1, <2>2, <2>3 DEF Packet
<1>2. ASSUME NEW id \in Ids, Silence(id) PROVE ObjectInv' /\ RejectGoesBack'
  BY <1>2 DEF Silence, ObjectInv, RejectGoesBack, Consistent, TableOf, InTable
<1>3. CASE UNCHANGED vars
  BY <1>3 DEF vars, ObjectInv, RejectGoesBack, Consistent, TableOf, InTable
<1> QED
  BY <1>1, <1>2, <1>3 DEF Next

\* The invariant holds for ever.
LEMMA ObjectAlways == Spec => [](ObjectInv /\ RejectGoesBack)
BY ObjectInit, ObjectStep, PTL DEF Spec

-----------------------------------------------------------------------------
(***************************************************************************)
(* What follows                                                            *)
(***************************************************************************)

\* UDPProtocol::processPacket loses and shares no flow object, whatever
\* packets come and whenever the sweep runs.
THEOREM ObjectsAlwaysConserved == Spec => []ObjectsConserved
<1>1. ObjectInv => ObjectsConserved
  <2> SUFFICES ASSUME ObjectInv PROVE ObjectsConserved
    OBVIOUS
  <2>1. Consistent(mem) /\ Table = TableOf(mem)
    BY DEF ObjectInv, Table, TableOf
  <2>2. ToSet(mem.order) = Table /\ Cardinality(Table) = Len(mem.order)
    BY <2>1, IndexCount DEF Consistent
  <2>3. TypeOK
    BY DEF ObjectInv, TypeOK, Consistent
  <2>4. \A a, b \in Table : mem.flow[a] = mem.flow[b] => a = b
    BY <2>1 DEF Consistent, Lends, TableOf, InTable
  <2> QED
    BY <2>1, <2>2, <2>3, <2>4 DEF ObjectsConserved, IndexesAgree, Consistent
<1> QED
  BY <1>1, ObjectAlways, PTL

\* RejectManager answers to the end that sent the rejected packet, in the
\* stack of either IP version and in both directions of a flow.
THEOREM RejectsGoBack == Spec => []RejectGoesBack
BY ObjectAlways, PTL

=============================================================================
