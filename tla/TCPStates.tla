----------------------------- MODULE TCPStates -----------------------------
(***************************************************************************)
(* The connection tracker: the table of TCPStates.h and the part of        *)
(* TCPProtocol::computeState that drives it.                               *)
(***************************************************************************)

States == {"CLOSED", "SYN_SENT", "SIMSYN_SENT", "SYN_RECEIVED", "ESTABLISHED",
           "FIN_SEEN", "CLOSE_WAIT", "FIN_WAIT", "CLOSING", "LAST_ACK", "TIME_WAIT"}

Directions == {"FORWARD", "BACKWARD"}

\* How computeState classifies a segment.
Flags == {"SYN", "SYNACK", "ACK", "FIN"}

\* Mutant: the columns are not in the order of TcpFlags.
RowSwapped(syn, synack, ack, fin) ==
  [SYN |-> syn, SYNACK |-> synack, ACK |-> fin, FIN |-> ack]

Row(syn, synack, ack, fin) ==
  [SYN |-> syn, SYNACK |-> synack, ACK |-> ack, FIN |-> fin]

Both(row) == [FORWARD |-> row, BACKWARD |-> row]

\* One row of four entries for each state and direction; OK is "stay".
tcp_states == [
  CLOSED |->
    [FORWARD  |-> Row("SYN_SENT", "CLOSED", "CLOSED", "CLOSED"),
     BACKWARD |-> Row("CLOSED", "CLOSED", "CLOSED", "CLOSED")],
  SYN_SENT |->
    [FORWARD  |-> Row("OK", "CLOSED", "CLOSED", "CLOSED"),
     BACKWARD |-> Row("SIMSYN_SENT", "SYN_RECEIVED", "CLOSED", "CLOSED")],
  SIMSYN_SENT |->
    [FORWARD  |-> Row("OK", "SYN_RECEIVED", "CLOSED", "CLOSED"),
     BACKWARD |-> Row("OK", "SYN_RECEIVED", "CLOSED", "FIN_SEEN")],
  SYN_RECEIVED |->
    [FORWARD  |-> Row("CLOSED", "CLOSED", "ESTABLISHED", "FIN_SEEN"),
     BACKWARD |-> Row("CLOSED", "OK", "OK", "FIN_SEEN")],
  ESTABLISHED |->
    [FORWARD  |-> Row("CLOSED", "CLOSED", "OK", "FIN_SEEN"),
     BACKWARD |-> Row("CLOSED", "OK", "OK", "FIN_SEEN")],
  FIN_SEEN |->
    [FORWARD  |-> Row("CLOSED", "CLOSED", "CLOSE_WAIT", "CLOSING"),
     BACKWARD |-> Row("CLOSED", "CLOSED", "FIN_WAIT", "CLOSING")],
  CLOSE_WAIT |-> Both(Row("CLOSED", "CLOSED", "OK", "LAST_ACK")),
  FIN_WAIT   |-> Both(Row("CLOSED", "CLOSED", "OK", "LAST_ACK")),
  CLOSING    |-> Both(Row("CLOSED", "CLOSED", "LAST_ACK", "CLOSED")),
  LAST_ACK   |-> Both(Row("CLOSED", "CLOSED", "TIME_WAIT", "CLOSED")),
  TIME_WAIT |->
    [FORWARD  |-> Row("SYN_SENT", "CLOSED", "CLOSED", "CLOSED"),
     BACKWARD |-> Row("CLOSED", "CLOSED", "CLOSED", "CLOSED")]]

\* Mutant: the direction is read the other way round.
NextStateReversed(state, dir, flag) ==
  LET other == CHOOSE d \in Directions : d # dir
      new == tcp_states[state][other][flag]
  IN IF new = "OK" THEN state ELSE new

NextState(state, dir, flag) ==
  LET new == tcp_states[state][dir][flag]
  IN IF new = "OK" THEN state ELSE new

-----------------------------------------------------------------------------
(***************************************************************************)
(* Segments are the sets of the header bits that computeState reads.       *)
(***************************************************************************)

Segments == SUBSET {"syn", "ack", "fin", "rst"}

Classify(seg) ==
  IF "syn" \in seg
  THEN IF "ack" \in seg THEN "SYNACK" ELSE "SYN"
  ELSE IF "fin" \in seg THEN "FIN" ELSE "ACK"

\* The segments that raise the TCP_BAD_FLAGS anomaly.
BadFlags(seg) == "syn" \in seg /\ seg \cap {"fin", "rst"} # {}

\* TCPInfo's state_prev and state_curr after TCPInfo::reset, and after a
\* segment; a reset closes both at once.
ClosedInfo == [prev |-> "CLOSED", curr |-> "CLOSED"]

\* Mutant: the row is looked up with the state before the last segment.
ComputeStateStale(info, dir, seg) ==
  IF "rst" \in seg
  THEN ClosedInfo
  ELSE [prev |-> info.curr, curr |-> NextState(info.prev, dir, Classify(seg))]

ComputeState(info, dir, seg) ==
  IF "rst" \in seg
  THEN ClosedInfo
  ELSE [prev |-> info.curr, curr |-> NextState(info.curr, dir, Classify(seg))]

\* The condition under which processPacket gives the flow back.
Finished(info) == info = ClosedInfo

=============================================================================
