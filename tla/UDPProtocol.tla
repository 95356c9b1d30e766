---------------------------- MODULE UDPProtocol ----------------------------
(***************************************************************************)
(* The UDP layer: UDPProtocol::processPacket with everything it calls.     *)
(* It composes the flow cache (CacheOps), the flow table and its time      *)
(* index (FlowTable) and the RejectManager.  A packet is processed to the  *)
(* end in one step.  The infos of the application protocols come and go    *)
(* with a flow as in TCPProtocol and are left out.                         *)
(*                                                                         *)
(* The code only compares times with the time of the packet, which does    *)
(* not go backwards: times are kept relative to it, mem.time[id] = -age,   *)
(* and an age is not counted beyond the timeout.  So the model has no      *)
(* bound on time, and what must eventually happen can be checked.          *)
(***************************************************************************)
EXTENDS CacheOps, FlowTable, RejectManager

CONSTANTS
  Ids,          \* identifiers of flows
  SamePorts,    \* those whose two ends use the same port
  FlowSize,     \* objects in the flow cache
  Timeout,      \* FlowManager::timeout_
  RefreshRate,  \* FlowManager::flowTimeRefreshRate
  IPv6,         \* the stack of the RejectManager
  Rejecting,    \* bound: the flows that scripts may reject
  Steady,       \* bound: the flows whose hosts never fall silent
  Gap           \* bound: seconds from a packet to the next

ASSUME UDPProtocolAssumption ==
  /\ SamePorts \subseteq Ids /\ Rejecting \subseteq Ids /\ Steady \subseteq Ids
  /\ {FlowSize, Timeout} \subseteq Nat /\ Gap \in Nat \ {0}
  /\ RefreshRate \in Nat \ {0, 1}
  /\ IPv6 \in BOOLEAN

None == 0

VARIABLES
  mem,        \* the flow table and the pools, see Mem
  object,     \* the fields of each flow object, see Object
  sweep,      \* seconds since last_timeout_, at most Timeout + 1
  replies,    \* what the last packet made RejectManager send, with the packet's sender
  live        \* the flows whose hosts still send

vars == <<mem, object, sweep, replies, live>>

Ages == 0 .. Timeout

Mem == [
  flows : Pools(1 .. FlowSize),
  flow  : [Ids -> (1 .. FlowSize) \cup {None}],  \* the hashed index
  order : Seq(Ids),                              \* the time index
  time  : [Ids -> {-age : age \in Ages}]]        \* Flow::current_time_

Object == [
  packets : 0 .. RefreshRate - 1,  \* total_packets, modulo the refresh rate
  reject  : BOOLEAN,               \* reject_
  partial : BOOLEAN]               \* partial_reject_

Replies == [
  icmp   : [to : Ends, from : Ends, endpoint : Ends],
  sender : Ends,
  id     : Ids]

TypeOK ==
  /\ mem \in Mem
  /\ object \in [1 .. FlowSize -> Object]
  /\ sweep \in 0 .. Timeout + 1
  /\ replies \subseteq Replies
  /\ live \in SUBSET Ids

\* Flow::reset, which acquire calls.
Clean == [packets |-> 0, reject |-> FALSE, partial |-> FALSE]

InTable(m, id) == m.flow[id] # None

-----------------------------------------------------------------------------
(***************************************************************************)
(* The calls of processPacket.                                             *)
(***************************************************************************)

\* getFlow on a packet of no flow in the table.  The packet's time is a
\* greatest key, so the time index has one place for it, the last.
NewFlow(m, id) ==
  LET time == [m.time EXCEPT ![id] = 0]
  IN [m EXCEPT !.flows = Acquired(@),
               !.flow[id] = Top(m.flows),
               !.order = CHOOSE order \in Inserted(m.order, time, id) : TRUE,
               !.time = time]

\* Mutants: the flow is not given back to its cache; it stays in the time index.
DropFlowKept(m, id) ==
  [m EXCEPT !.flow[id] = None, !.order = Without(@, id), !.time[id] = 0]

\* updateTimers for one flow: out of the table, then CacheManager::releaseFlow
\* and the object back to its cache.  Built for Ruby the flows are first all
\* taken out and then all released, to the same effect.
DropFlow(m, id) ==
  [m EXCEPT !.flows = Released(@, m.flow[id]),
            !.flow[id] = None,
            !.order = Without(@, id), !.time[id] = 0]

\* updateTimers: the flows of old are dropped one after the other.
UpdateTimers(m) ==
  LET old == Expired(m.order, m.time, Timeout, 0)
      left[n \in 0 .. Len(old)] == IF n = 0 THEN m ELSE DropFlow(left[n - 1], old[n])
  IN left[Len(old)]

\* Mutant: as in TCPProtocol, where & stands for %.
RefreshNever(packets) == FALSE

RefreshDue(packets) == packets = 1

SweepDue(elapsed) == elapsed > Timeout

\* The end of processPacket, for a flow with that many packets.
Timers(m, id, packets, elapsed) ==
  LET time == [m.time EXCEPT ![id] = 0]
  IN IF SweepDue(elapsed) THEN {UpdateTimers(m)}
     ELSE {[m EXCEPT !.time = time, !.order = order] : order \in
             IF RefreshDue(packets) THEN Reindexed(m.order, time, id) ELSE {m.order}}

\* The two flags after a packet of a rejected flow: one more is rejected.
Rejected(o) ==
  IF ~o.reject THEN o
  ELSE IF o.partial THEN [o EXCEPT !.reject = FALSE] ELSE [o EXCEPT !.partial = TRUE]

\* The direction that getFlow gives a packet, by its source port.
Direction(id, sender) ==
  IF sender = "source" \/ id \in SamePorts THEN "FORWARD" ELSE "BACKWARD"

-----------------------------------------------------------------------------

Init ==
  /\ mem = [flows |-> Created(EmptyPool, [i \in 1 .. FlowSize |-> i]),
            flow  |-> [id \in Ids |-> None],
            order |-> <<>>,
            time  |-> [id \in Ids |-> 0]]
  /\ object = [i \in 1 .. FlowSize |-> Clean]
  /\ sweep = Timeout + 1
  /\ replies = {}
  /\ live = Ids

\* The memory when a packet comes, d seconds after the one before.
Later(d) ==
  [mem EXCEPT !.time = [id \in Ids |->
     IF InTable(mem, id) THEN Max({-Timeout, mem.time[id] - d}) ELSE 0]]

Elapsed(d) == Min({sweep + d, Timeout + 1})

\* A packet that finds no flow and gets none: nothing happens, and nothing is
\* done about time.
NoFlow(id, d) ==
  /\ ~InTable(mem, id) /\ ~CanAcquire(mem.flows)
  /\ mem' = Later(d)
  /\ sweep' = Elapsed(d)
  /\ replies' = {}
  /\ UNCHANGED object

\* The rest of processPacket on the state that getFlow leaves.  The callbacks
\* of the IP sets and of the application may ask for the flow to be rejected.
Process(m, fields, id, sender, d, ask) ==
  LET seen == [fields EXCEPT !.packets = (@ + 1) % RefreshRate,
                             !.reject = @ \/ ask]
  IN /\ ask => id \in Rejecting
     /\ object' = [object EXCEPT ![m.flow[id]] = Rejected(seen)]
     /\ replies' = IF seen.reject
                   THEN {[icmp |-> RejectUDPFlow(Direction(id, sender), IPv6),
                          sender |-> sender, id |-> id]}
                   ELSE {}
     /\ mem' \in Timers(m, id, seen.packets, Elapsed(d))
     /\ sweep' = IF SweepDue(Elapsed(d)) THEN 0 ELSE Elapsed(d)

\* The sender of the first packet is the source of the flow.
FirstPacket(id, d, ask) ==
  /\ ~InTable(mem, id) /\ CanAcquire(mem.flows)
  /\ Process(NewFlow(Later(d), id), Clean, id, "source", d, ask)

NextPacket(id, d, ask) ==
  /\ InTable(mem, id)
  /\ \E sender \in Ends :
       Process(Later(d), object[mem.flow[id]], id, sender, d, ask)

\* A packet of flow id, d seconds after the last packet of any.
Packet(id, d) ==
  /\ id \in live
  /\ UNCHANGED live
  /\ \/ NoFlow(id, d)
     \/ \E ask \in BOOLEAN :
          FirstPacket(id, d, ask) \/ NextPacket(id, d, ask)

\* The hosts of a flow fall silent.
Silence(id) ==
  /\ id \in live \ Steady
  /\ live' = live \ {id}
  /\ UNCHANGED <<mem, object, sweep, replies>>

Next ==
  \/ \E id \in Ids, d \in 0 .. Gap : Packet(id, d)
  \/ \E id \in Ids : Silence(id)

Spec == Init /\ [][Next]_vars

\* What is assumed of the traffic: while a flow in the table is live, packets
\* of such flows come and time passes; and a live flow that again and again
\* is due for a refresh is not swept over by its own packet each time.
Passing == \E id \in Ids : Packet(id, Gap)
PassingFlow == \E id \in Ids : InTable(mem, id) /\ Packet(id, Gap)

Refreshing(id) ==
  /\ InTable(mem, id)
  /\ object[mem.flow[id]].packets = 0
  /\ ~SweepDue(sweep)
  /\ Packet(id, 0)

FairSpec ==
  /\ Spec
  /\ WF_vars(Passing) /\ WF_vars(PassingFlow)
  /\ \A id \in Ids : SF_vars(Refreshing(id))

-----------------------------------------------------------------------------
(***************************************************************************)
(* Safety                                                                  *)
(***************************************************************************)

Table == {id \in Ids : InTable(mem, id)}

\* The hashed and the ordered index hold the same flows, each once.
IndexesAgree ==
  /\ ToSet(mem.order) = Table
  /\ Len(mem.order) = Cardinality(Table)

\* No flow object is lost or shared by processPacket and the sweep, whatever
\* order packets come in: what is not free is in both indexes, once.
ObjectsConserved ==
  /\ TypeOK
  /\ IndexesAgree
  /\ Cardinality(Table) = Len(mem.flows.items) - mem.flows.total
  /\ \A a, b \in Table : mem.flow[a] = mem.flow[b] => a = b

\* "port unreachable" goes to the end that sent the packet, and seems to come
\* from the other, if the ends can be told apart by their ports.
RejectGoesBack ==
  \A r \in replies : r.id \notin SamePorts =>
    r.icmp.to = r.sender /\ r.icmp.from = Opposite(r.sender)

-----------------------------------------------------------------------------
(***************************************************************************)
(* Liveness                                                                *)
(***************************************************************************)

\* main.cc:400, the timeout of every flow: a flow that has fallen silent leaves
\* the table, although most packets change the keys of the flows before it in
\* the time index in place; the refresh of one packet in RefreshRate is enough.
\* It takes traffic that has a flow, since packets that find none do not run
\* the timers: it fails when silent flows hold all objects of the cache.
SilentDropped ==
  \A id \in Ids : InTable(mem, id) /\ id \notin live ~> ~InTable(mem, id)

=============================================================================
