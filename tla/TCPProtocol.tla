---------------------------- MODULE TCPProtocol ----------------------------
(***************************************************************************)
(* The TCP layer: TCPProtocol::processPacket with everything it calls.     *)
(* It composes the flow cache and the info caches (CacheOps), the flow     *)
(* table and its time index (FlowTable), CacheManager::releaseFlow and the *)
(* connection tracker (TCPStates).  The engine is single threaded: a       *)
(* packet is processed to the end before the next one, in one step.        *)
(*                                                                         *)
(* A flow is named by its identifier, the hash of its five tuple; a flow   *)
(* object belongs to at most one identifier (Cache!NoSharing).  A flow has *)
(* its TCPInfo and the info of its application layer by weak pointers.     *)
(***************************************************************************)
EXTENDS CacheOps, FlowTable, TCPStates

CONSTANTS
  Ids,          \* identifiers of connections
  FlowSize,     \* objects in the flow cache
  TcpSize,      \* objects in the TCPInfo cache
  L7Size,       \* objects in the info cache of the application protocol
  Timeout,      \* FlowManager::timeout_
  MaxTime,      \* bound: packet times
  SegmentsUsed  \* bound: the header bits of the segments that are sent

ASSUME TCPProtocolAssumption ==
  /\ {FlowSize, TcpSize, L7Size, Timeout, MaxTime} \subseteq Nat
  /\ Timeout < MaxTime
  /\ SegmentsUsed \subseteq Segments

None == 0
Times == 0 .. MaxTime

\* No payload, one that no application protocol keeps an info for, one that
\* an application protocol does.
Payloads == {"none", "raw", "app"}

VARIABLES
  mem,          \* the flow table and the pools, see Mem
  tcpInfo,      \* the state kept in each TCPInfo object
  packet_time,  \* packet_time_: the time of the last packet
  last_timeout, \* last_timeout_: when updateTimers last ran
  current       \* current_flow_: the connection of the last packet, or None

vars == <<mem, tcpInfo, packet_time, last_timeout, current>>

Mem == [
  flows : Pools(1 .. FlowSize),                 \* the flow cache
  tcps  : Pools(1 .. TcpSize),                  \* the TCPInfo cache
  l7s   : Pools(1 .. L7Size),                   \* the application's info cache
  flow  : [Ids -> (1 .. FlowSize) \cup {None}], \* the hashed index
  tcp   : [Ids -> (1 .. TcpSize) \cup {None}],  \* Flow::tcp_info, weak
  l7    : [Ids -> (1 .. L7Size) \cup {None}],   \* Flow::http_info and so on, weak
  order : Seq(Ids),                             \* the time index
  time  : [Ids -> Times]]                       \* Flow::current_time_

TypeOK ==
  /\ mem \in Mem
  /\ tcpInfo \in [1 .. TcpSize -> [prev : States, curr : States]]
  /\ packet_time \in Times
  /\ last_timeout \in Times
  /\ current \in Ids \cup {None}

InTable(m, id) == m.flow[id] # None

\* Weak pointers of a flow: the object exists while its pool points to it.
HasTcp(m, id) == m.tcp[id] \in InVector(m.tcps)
HasL7(m, id) == m.l7[id] \in InVector(m.l7s)

-----------------------------------------------------------------------------
(***************************************************************************)
(* The calls of processPacket, each from the state it finds to the state   *)
(* it leaves.                                                              *)
(***************************************************************************)

\* getFlow on a packet of no flow in the table: a flow from the flow cache,
\* put in the table with the packet's time, and a TCPInfo if there is one.
\* The time index may put the flow in several places.
NewFlow(m, id, t) ==
  LET time == [m.time EXCEPT ![id] = t]
      gets == CanAcquire(m.tcps)
  IN {[m EXCEPT !.flows = Acquired(@),
                !.flow[id] = Top(m.flows),
                !.tcps = IF gets THEN Acquired(@) ELSE @,
                !.tcp[id] = IF gets THEN Top(m.tcps) ELSE None,
                !.l7[id] = None,
                !.order = order,
                !.time = time] : order \in Inserted(m.order, time, id)}

\* FlowForwarder::forwardFlow to an application protocol that keeps an info:
\* it takes one if the flow has none.
ForwardFlow(m, id) ==
  IF HasL7(m, id) \/ ~CanAcquire(m.l7s)
  THEN m
  ELSE [m EXCEPT !.l7s = Acquired(@), !.l7[id] = Top(m.l7s)]

\* Mutants: the flow is not given back to the flow cache; it stays in the
\* time index.
DropFlowKept(m, id, pinned) ==
  [m EXCEPT !.tcps = IF HasTcp(m, id) \/ m.tcp[id] = pinned
                     THEN Released(@, m.tcp[id]) ELSE @,
            !.l7s = IF HasL7(m, id) THEN Released(@, m.l7[id]) ELSE @,
            !.flow[id] = None,
            !.tcp[id] = None,
            !.l7[id] = None,
            !.order = Without(@, id)]

\* CacheManager::releaseFlow, then the flow out of the table and back to the
\* flow cache.  An info whose weak pointer has expired is not given back;
\* pinned is the TCPInfo that processPacket itself keeps alive, if any.
DropFlow(m, id, pinned) ==
  [m EXCEPT !.tcps = IF HasTcp(m, id) \/ m.tcp[id] = pinned
                     THEN Released(@, m.tcp[id]) ELSE @,
            !.l7s = IF HasL7(m, id) THEN Released(@, m.l7[id]) ELSE @,
            !.flows = Released(@, m.flow[id]),
            !.flow[id] = None,
            !.tcp[id] = None,
            !.l7[id] = None,
            !.order = Without(@, id)]

\* updateTimers: the flows of old are dropped one after the other.
UpdateTimers(m, now, pinned) ==
  LET old == Expired(m.order, m.time, Timeout, now)
      left[n \in 0 .. Len(old)] ==
        IF n = 0 THEN m ELSE DropFlow(left[n - 1], old[n], pinned)
  IN left[Len(old)]

\* (total_packets & 64) == 1 compares 0 or 64 with 1.
RefreshDue == 1 \in {0, 64}

\* What the end of processPacket does about time: one packet in a while runs
\* the timers, the others note their time in the flow.
Timers(m, id, t) ==
  IF t - Timeout > last_timeout
  THEN {UpdateTimers(m, t, m.tcp[id])}
  ELSE LET time == [m.time EXCEPT ![id] = t]
       IN {[m EXCEPT !.time = time, !.order = order] : order \in
             IF RefreshDue THEN Reindexed(m.order, time, id) ELSE {m.order}}

-----------------------------------------------------------------------------

\* The stack creates all objects before the first packet (setTotalTCPFlows).
\* Packet times are seconds of the epoch: far beyond a timeout after 0.
Init ==
  /\ mem = [flows |-> Created(EmptyPool, [i \in 1 .. FlowSize |-> i]),
            tcps  |-> Created(EmptyPool, [i \in 1 .. TcpSize |-> i]),
            l7s   |-> Created(EmptyPool, [i \in 1 .. L7Size |-> i]),
            flow  |-> [id \in Ids |-> None],
            tcp   |-> [id \in Ids |-> None],
            l7    |-> [id \in Ids |-> None],
            order |-> <<>>,
            time  |-> [id \in Ids |-> 0]]
  /\ tcpInfo = [i \in 1 .. TcpSize |-> ClosedInfo]
  /\ packet_time = Timeout + 1
  /\ last_timeout = 0
  /\ current = None

\* A packet that finds no flow and gets none, or whose flow has no TCPInfo:
\* processPacket does nothing more with it.
Ignored(id) ==
  /\ IF InTable(mem, id)
     THEN ~HasTcp(mem, id) /\ UNCHANGED mem
     ELSE \/ ~CanAcquire(mem.flows) /\ UNCHANGED mem
          \/ /\ CanAcquire(mem.flows) /\ ~CanAcquire(mem.tcps)
             /\ mem' \in NewFlow(mem, id, packet_time')
  /\ UNCHANGED <<tcpInfo, last_timeout>>

\* The rest of processPacket for a flow with its TCPInfo, from the state
\* getFlow leaves: the tracker, then the application on a payload or the end
\* of a closed connection, which skips the timers, then the timers.
Tracked(m, info, id, dir, seg, payload) ==
  LET new == ComputeState(info[m.tcp[id]], dir, seg)
      t == packet_time'
  IN /\ tcpInfo' = [info EXCEPT ![m.tcp[id]] = new]
     /\ IF payload = "none" /\ Finished(new)
        THEN /\ mem' = DropFlow(m, id, None)
             /\ UNCHANGED last_timeout
        ELSE /\ mem' \in Timers(IF payload = "app" THEN ForwardFlow(m, id) ELSE m, id, t)
             /\ last_timeout' = IF t - Timeout > last_timeout THEN t ELSE last_timeout

\* The first packet of a flow is in the direction of the flow.
FirstPacket(id, seg, payload) ==
  /\ ~InTable(mem, id)
  /\ CanAcquire(mem.flows) /\ CanAcquire(mem.tcps)
  /\ \E m \in NewFlow(mem, id, packet_time') :
       Tracked(m, [tcpInfo EXCEPT ![m.tcp[id]] = ClosedInfo], id, "FORWARD", seg, payload)

NextPacket(id, seg, payload) ==
  /\ InTable(mem, id) /\ HasTcp(mem, id)
  /\ \E dir \in Directions : Tracked(mem, tcpInfo, id, dir, seg, payload)

\* A packet of connection id.  Packet times do not go backwards.
Packet(id) ==
  /\ packet_time' \in packet_time .. MaxTime
  /\ current' = id
  /\ \/ Ignored(id)
     \/ \E seg \in SegmentsUsed, payload \in Payloads :
          FirstPacket(id, seg, payload) \/ NextPacket(id, seg, payload)

Next == \E id \in Ids : Packet(id)

Spec == Init /\ [][Next]_vars

-----------------------------------------------------------------------------
(***************************************************************************)
(* Safety                                                                  *)
(***************************************************************************)

Table == {id \in Ids : InTable(mem, id)}
Tracking == {id \in Table : HasTcp(mem, id)}
Inspected == {id \in Table : HasL7(mem, id)}

\* The hashed and the ordered index hold the same flows, each once, after
\* evictions, closes and insertions into an index that is out of order.
IndexesAgree ==
  /\ ToSet(mem.order) = Table
  /\ Len(mem.order) = Cardinality(Table)

\* No flow object is lost or shared by processPacket, whichever way its flow
\* ends: those that are not free are in both indexes, each once.
FlowsConserved ==
  /\ TypeOK
  /\ IndexesAgree
  /\ Cardinality(Table) = Len(mem.flows.items) - mem.flows.total
  /\ \A a, b \in Table : mem.flow[a] = mem.flow[b] => a = b

\* Whatever the order in which connections end, two live connections never
\* write to one TCPInfo or application info, and none of theirs is free.
InfosNotShared ==
  /\ \A a, b \in Tracking : mem.tcp[a] = mem.tcp[b] => a = b
  /\ \A a, b \in Inspected : mem.l7[a] = mem.l7[b] => a = b
  /\ \A id \in Tracking : mem.tcp[id] \notin FreeObjects(mem.tcps)
  /\ \A id \in Inspected : mem.l7[id] \notin FreeObjects(mem.l7s)

\* A flow leaves the table only when its own connection is finished or its
\* recorded time is old: neither the timers nor a close take another flow.
OnlyFinishedOrOld ==
  [][\A id \in Ids : InTable(mem, id) /\ ~InTable(mem', id) =>
       \/ IsOld(mem.time, id, Timeout, packet_time')
       \/ id = current' /\ Finished(tcpInfo'[mem.tcp[id]])]_vars

-----------------------------------------------------------------------------
(***************************************************************************)
(* What comments and documents of the program say                          *)
(***************************************************************************)

\* FlowManager.cc:166: "the multiset is ordered and there is no need to check
\* more flows": when updateTimers has run, no old flow is in the table.
TimersComplete ==
  [][last_timeout' # last_timeout =>
       \A id \in Ids : InTable(mem', id) =>
         ~IsOld(mem'.time, id, Timeout, packet_time')]_vars

\* FlowManager.cc:159: "Release to their corresponding caches the attached
\* objects": a TCPInfo that was attached to a flow is in its cache again once
\* the flow is gone.
InfosReturned ==
  Cardinality({id \in Table : mem.tcp[id] # None}) = Len(mem.tcps.items) - mem.tcps.total

\* main.cc:400 and aiengine.1:110, the timeout of every flow: a flow is not
\* timed out by the packet it just received.
FreshKept ==
  [][InTable(mem, current') /\ ~InTable(mem', current') =>
       Finished(tcpInfo'[mem.tcp[current']])]_vars

=============================================================================
