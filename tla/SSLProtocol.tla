----------------------------- MODULE SSLProtocol -----------------------------
(***************************************************************************)
(* SSL: the server name of the client hellos in the first two packets of a *)
(* flow.  Packets are counted before the flow gets its info, so a flow     *)
(* that waits for one may have its hellos behind it.  Nothing sets the     *)
(* flag banned of an info of SSL; a banned hello is skipped.               *)
(***************************************************************************)
EXTENDS AppInfos

CONSTANT MaxRecords   \* bound: records with a hello, of the 4 that are read

SSLProtocolAssumption ==
  /\ Kinds = {"host"}
  /\ MaxRecords \in 0 .. 4

VARIABLES
  seen,         \* total_packets_l7 of each flow, which no longer matters at 3
  brought       \* history: the number of the packet that brought the host

allvars == <<vars, seen, brought>>

\* handle_client_hello, with a server name within the limits of the packet.
Hello(x, n) == IF n \in Banned THEN {x} ELSE Attach(x, "host", n)

\* The packet that is being processed is one of the first two.
Inspects(f) == seen[f] < 2

\* The records of the packet, of which other kinds are only counted.
Records(f, names) ==
  LET after[i \in 0 .. Len(names)] ==
        IF i = 0 THEN {Before(f)} ELSE UNION {Hello(x, names[i]) : x \in after[i - 1]}
  IN IF Inspects(f) THEN after[Len(names)] ELSE {Before(f)}

Counted(f) == seen' = [seen EXCEPT ![f] = IF @ < 3 THEN @ + 1 ELSE @]

PacketSSL(f) ==
  /\ ~crashed
  /\ GetInfo(f)
  /\ Counted(f)
  /\ \E names \in SeqOf(Names, MaxRecords) : Processed(f, Records(f, names))
  /\ brought' = IF HasString(Before(f), "host") THEN brought
                ELSE [brought EXCEPT ![f] = seen'[f]]

\* No info for the flow yet.
PacketUncovered(f) ==
  /\ ~crashed
  /\ ~HasInfo(f) /\ ~CanAcquire(infos)
  /\ Counted(f)
  /\ UNCHANGED <<vars, brought>>

\* releaseCache
ReleaseCacheSSL == ReleaseCacheInto(ItsOwn)

SSLInit ==
  /\ Init
  /\ seen = [f \in Flows |-> 0]
  /\ brought = [f \in Flows |-> 0]

\* Without an info only the flow's counters begin again.
EndSSLFlow(f) ==
  /\ EndFlow(f) \/ (~crashed /\ ~HasInfo(f) /\ seen[f] > 0 /\ UNCHANGED vars)
  /\ seen' = [seen EXCEPT ![f] = 0]
  /\ brought' = [brought EXCEPT ![f] = 0]

NextSSL ==
  \/ \E f \in Flows : PacketSSL(f) \/ PacketUncovered(f) \/ EndSSLFlow(f)
  \/ \E f \in Flows : Crash(f) /\ UNCHANGED <<seen, brought>>
  \/ ReleaseCacheSSL /\ UNCHANGED <<seen, brought>>

SpecSSL == SSLInit /\ [][NextSSL]_allvars

-----------------------------------------------------------------------------
(***************************************************************************)
(* Safety                                                                  *)
(***************************************************************************)

\* A name that the ban manager matches is never the name of a flow: not from
\* another record of the packet, nor from another flow that shares strings.
BannedNotAttached ==
  \A i \in Live : StringOf(i, "host") # None =>
    strs["host"].name[StringOf(i, "host")] \notin Banned

\* A flow has a name from the first two packets only, whenever its info came,
\* and keeps it.
NameFromHandshake ==
  \A f \in Flows : HasInfo(f) /\ StringOf(flow[f], "host") # None => brought[f] \in 1 .. 2

FirstServerStays == [][KeepsFirst(Kinds)]_allvars

=============================================================================
