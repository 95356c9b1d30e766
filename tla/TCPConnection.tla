--------------------------- MODULE TCPConnection ---------------------------
(***************************************************************************)
(* One connection seen by the tracker: segments with any header bits come  *)
(* from either side in any order, so every loss, reordering, duplication   *)
(* and retransmission on the wire is a behaviour.                          *)
(***************************************************************************)
EXTENDS TCPStates

VARIABLES
  info,         \* TCPInfo: state_prev and state_curr
  anomaly,      \* the flow carries TCP_BAD_FLAGS
  seen          \* history: what came from each side since the connection
                \* was last opened, as pairs <<direction, flag>>

connectionVars == <<info, anomaly, seen>>

ConnectionTypeOK ==
  /\ info \in [prev : States, curr : States]
  /\ anomaly \in BOOLEAN
  /\ seen \in SUBSET (Directions \X Flags)

ConnectionInit ==
  /\ info = ClosedInfo
  /\ anomaly = FALSE
  /\ seen = {}

\* A segment arrives while the flow is in the table.
Segment(dir, seg) ==
  /\ info' = ComputeState(info, dir, seg)
  /\ anomaly' = (anomaly \/ BadFlags(seg))
  /\ seen' = CASE info'.curr = "CLOSED" -> {}
               [] info'.curr = "SYN_SENT" /\ info.curr # "SYN_SENT" ->
                    {<<dir, Classify(seg)>>}
               [] OTHER -> seen \cup {<<dir, Classify(seg)>>}

ConnectionNext == \E dir \in Directions, seg \in Segments : Segment(dir, seg)

ConnectionSpec == ConnectionInit /\ [][ConnectionNext]_connectionVars

-----------------------------------------------------------------------------
(***************************************************************************)
(* Safety                                                                  *)
(***************************************************************************)

Opening == {"SYN_SENT", "SIMSYN_SENT", "SYN_RECEIVED"}
Closing == {"FIN_SEEN", "CLOSE_WAIT", "FIN_WAIT", "CLOSING", "LAST_ACK", "TIME_WAIT"}

\* The tracker calls a connection established only after a handshake: the
\* initiator's SYN, a SYN-ACK, and the initiator's ACK, whatever else came
\* between them (TCPStates.h, rows SYN_SENT to SYN_RECEIVED); and closing only
\* after a FIN, and a SYN of its initiator: no segment in the middle of a
\* connection puts a fresh flow there.  (And the state is of its type.)
Handshake ==
  /\ ConnectionTypeOK
  /\ info.curr = "ESTABLISHED" =>
       /\ {<<"FORWARD", "SYN">>, <<"FORWARD", "ACK">>} \subseteq seen
       /\ \E dir \in Directions : <<dir, "SYNACK">> \in seen
  /\ info.curr \in Closing =>
       /\ \E dir \in Directions : <<dir, "FIN">> \in seen
       /\ <<"FORWARD", "SYN">> \in seen

\* A connection never goes back to the handshake or to data transfer once a
\* FIN was seen, except by a new SYN of the initiator from TIME_WAIT.
NoReturn ==
  [][info.curr \in Closing /\ info'.curr \notin Closing =>
       \/ info'.curr = "CLOSED"
       \/ info.curr = "TIME_WAIT" /\ info'.curr = "SYN_SENT"]_connectionVars

-----------------------------------------------------------------------------
(***************************************************************************)
(* What the comments of the table say                                      *)
(***************************************************************************)

\* TCPStates.h:245, of LAST_ACK: "FINs exchanged - expecting last ACK."
FinsExchanged ==
  info.curr = "LAST_ACK" =>
    {<<"FORWARD", "FIN">>, <<"BACKWARD", "FIN">>} \subseteq seen

\* TCPStates.h:194, of CLOSE_WAIT: "Sender has sent the FIN and closed its
\* end.", and :211, of FIN_WAIT: "Receiver has closed its end."
HalfClosed ==
  /\ info.curr = "CLOSE_WAIT" => <<"FORWARD", "FIN">> \in seen
  /\ info.curr = "FIN_WAIT" => <<"BACKWARD", "FIN">> \in seen

=============================================================================
