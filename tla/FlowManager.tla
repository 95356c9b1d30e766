---------------------------- MODULE FlowManager ----------------------------
(***************************************************************************)
(* FlowManager: the table of the live flows, found by identifier and kept  *)
(* by the time of their last packet, so that the timers can drop the old   *)
(* ones.  Its users are the TCP and UDP layers.                            *)
(***************************************************************************)
EXTENDS FlowTable

CONSTANTS
  Ids,          \* the identifiers (hashes) of flows
  Timeout,      \* timeout_, 180 seconds by default
  MaxTime       \* bound: packet times

ASSUME FlowManagerAssumption ==
  /\ Timeout \in Nat
  /\ MaxTime \in Nat

VARIABLES
  table,        \* the hashed index: the identifiers it holds
  order,        \* the ordered index
  time,         \* current_time_ of each flow, wherever the flow is
  swept,        \* history: the time updateTimers was given, when the last call
                \* was updateTimers, else Never
  touched       \* history: a flow in the table got a time that the index was
                \* not told of

tableVars == <<table, order, time, swept, touched>>

Times == 0 .. MaxTime
Never == -1

TableTypeOK ==
  /\ table \subseteq Ids
  /\ order \in Seq(Ids)
  /\ time \in [Ids -> Times]
  /\ swept \in Times \cup {Never}
  /\ touched \in BOOLEAN

TableInit ==
  /\ table = {}
  /\ order = <<>>
  /\ time = [id \in Ids |-> 0]
  /\ swept = Never
  /\ touched = FALSE

\* Mutant: the flow is inserted before its time is set.
AddFlowUntimed(id, t) ==
  /\ id \notin table
  /\ table' = table \cup {id}
  /\ time' = [time EXCEPT ![id] = t]
  /\ order' \in Inserted(order, time, id)
  /\ swept' = Never
  /\ UNCHANGED touched

\* The caller sets the time of the new flow before it inserts it.  A second
\* flow with the same identifier is refused by the unique index.
AddFlow(id, t) ==
  /\ id \notin table
  /\ table' = table \cup {id}
  /\ time' = [time EXCEPT ![id] = t]
  /\ order' \in Inserted(order, time', id)
  /\ swept' = Never
  /\ UNCHANGED touched

RemoveFlow(id) ==
  /\ id \in table
  /\ table' = table \ {id}
  /\ order' = Without(order, id)
  /\ swept' = Never
  /\ UNCHANGED <<time, touched>>

\* Mutant: the key changes behind the index.
UpdateFlowTimeInPlace(id, t) ==
  /\ id \in table
  /\ time' = [time EXCEPT ![id] = t]
  /\ swept' = Never
  /\ UNCHANGED <<table, order, touched>>

UpdateFlowTime(id, t) ==
  /\ id \in table
  /\ time' = [time EXCEPT ![id] = t]
  /\ order' \in Reindexed(order, time', id)
  /\ swept' = Never
  /\ UNCHANGED <<table, touched>>

\* Flow::setLastPacketTime on a flow that is in the table: the index does not
\* know.
SetLastPacketTime(id, t) ==
  /\ id \in table
  /\ time' = [time EXCEPT ![id] = t]
  /\ swept' = Never
  /\ touched' = TRUE
  /\ UNCHANGED <<table, order>>

UpdateTimers(now) ==
  LET old == Expired(order, time, Timeout, now)
  IN /\ order' = SubSeq(order, Len(old) + 1, Len(order))
     /\ table' = table \ ToSet(old)
     /\ swept' = now
     /\ UNCHANGED <<time, touched>>

TableNext ==
  \/ \E id \in Ids :
       \/ RemoveFlow(id)
       \/ \E t \in Times :
            AddFlow(id, t) \/ UpdateFlowTime(id, t) \/ SetLastPacketTime(id, t)
  \/ \E now \in Times : UpdateTimers(now)

TableSpec == TableInit /\ [][TableNext]_tableVars

-----------------------------------------------------------------------------
(***************************************************************************)
(* Safety                                                                  *)
(***************************************************************************)

\* The two indexes hold the same flows, each once.
IndexesAgree ==
  /\ TableTypeOK
  /\ ToSet(order) = table
  /\ Cardinality(table) = Len(order)

\* FlowManager.h:56: the multiset is ordered by the most recent activity, if it
\* is told of every change, and holds the flows of the table, whatever was
\* added, removed or timed out in between (and the state is of its type).
InOrder == IndexesAgree /\ (~touched => Sorted(order, time))

\* FlowManager.cc:166: "the multiset is ordered and there is no need to check
\* more flows": when updateTimers returns, no old flow is left in a table that
\* was told of every change.
TimersComplete ==
  ~touched /\ swept # Never => \A id \in table : ~IsOld(time, id, Timeout, swept)

=============================================================================
