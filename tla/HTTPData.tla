------------------------------- MODULE HTTPData -------------------------------
(***************************************************************************)
(* Which bytes of an HTTP flow are the body of a message.  The protocol    *)
(* sees packets, not messages: a packet in the other direction than the    *)
(* last may begin with a header, a packet in the same direction continues  *)
(* a body if bytes of the last Content-Length are missing.                 *)
(***************************************************************************)
EXTENDS Integers

CONSTANTS
  ContentLengths,      \* values of Content-Length
  Header        \* length of a header, which is never inspected

ASSUME HTTPDataAssumption == ContentLengths \subseteq Nat \ {0} /\ Header \in Nat \ {0}

VARIABLES
  info,         \* direction_, have_data_, data_chunk_length_ of the HTTPInfo
  inspected,    \* history: bytes of the last message's body given to the expressions
  sender,       \* the wire: who sends, "client" or "server"
  left,         \* the wire: bytes of the body that were not sent yet
  clean         \* history: the engine saw the whole of the message being sent,
                \* and the message before it was the other side's

httpVars == <<info, inspected, sender, left, clean>>

Sides == {"client", "server"}
Other(side) == CHOOSE s \in Sides : s # side

HTTPInit ==
  /\ info = [dir |-> "none", have |-> FALSE, chunk |-> 0]
  /\ inspected = 0
  /\ sender = "server" /\ left = 0 /\ clean = TRUE

(* A packet: from, its direction; cl, the Content-Length of the header in  *)
(* it, 0 if it has none or has no header; head, the length of that header; *)
(* data, the bytes of body.                                                *)

\* process_content_length_parameter, if the packet's header is parsed.
Parsed(i, pkt) ==
  IF pkt.cl = 0 THEN i ELSE [i EXCEPT !.have = TRUE, !.chunk = pkt.cl]

\* A bug for the runs: a complete body is noticed one packet late.
TakenLate(i, size) ==
  IF i.chunk - size >= 0 THEN [i EXCEPT !.chunk = i.chunk - size]
  ELSE [i EXCEPT !.chunk = 0, !.have = FALSE]

\* `size` bytes of body come: what is missing then.  A body that is complete
\* leaves no data to wait for.
Taken(i, size) ==
  IF i.chunk - size > 0 THEN [i EXCEPT !.chunk = i.chunk - size]
  ELSE [i EXCEPT !.chunk = 0, !.have = FALSE]

\* processFlow.  In the direction of the last packet everything is body, a
\* header too; in the other one, what follows the header.
ProcessHTTPFlow(pkt) ==
  LET same == info.dir = pkt.from
      i == IF same THEN info ELSE Parsed(info, pkt)
      size == IF same THEN pkt.head + pkt.data ELSE pkt.data
  IN /\ info' = [IF i.have THEN Taken(i, size) ELSE i EXCEPT !.dir = pkt.from]
     /\ inspected' = (IF pkt.head > 0 THEN 0 ELSE inspected)
                     + (IF i.have /\ (same \/ i.chunk > pkt.data) THEN size ELSE 0)

\* A message begins: a header, with a body of cl bytes of which `data` are in
\* the packet.  Messages follow each other when a body is complete; a second
\* one of the same side is pipelined (or the answer between was lost).
Message(side, cl, data) ==
  /\ left = 0
  /\ ProcessHTTPFlow([from |-> side, cl |-> cl, head |-> Header, data |-> data])
  /\ sender' = side /\ left' = cl - data
  \* A header with a length that is parsed puts the engine in step again.
  /\ clean' = (info.dir # side /\ (clean \/ cl > 0))

\* A header over two packets, of which the second has the Content-Length and
\* the beginning of the body.
SplitMessage(side, cl) ==
  /\ left = 0
  /\ ProcessHTTPFlow([from |-> side, cl |-> 0, head |-> Header, data |-> 0])
  /\ sender' = side /\ left' = cl /\ clean' = FALSE

\* More of the body.
Body(data) ==
  /\ left >= data
  /\ ProcessHTTPFlow([from |-> sender, cl |-> 0, head |-> 0, data |-> data])
  /\ left' = left - data
  /\ UNCHANGED <<sender, clean>>

\* The other side answers before the body is complete (100 Continue).  Of two
\* such answers in a row the second is taken for a part of the body.
Interim ==
  /\ left > 0
  /\ ProcessHTTPFlow([from |-> Other(sender), cl |-> 0, head |-> Header, data |-> 0])
  /\ clean' = (clean /\ info.dir # Other(sender))
  /\ UNCHANGED <<sender, left>>

\* A part of the body is lost, or not seen.
LoseBody(data) ==
  /\ left >= data
  /\ left' = left - data /\ clean' = FALSE
  /\ UNCHANGED <<info, inspected, sender>>

HTTPNext ==
  \/ \E side \in Sides, cl \in ContentLengths \cup {0} :
       \/ \E data \in 0 .. cl : Message(side, cl, data)
       \/ SplitMessage(side, cl)
  \/ \E cl \in ContentLengths : \E data \in 1 .. cl : Body(data) \/ LoseBody(data)
  \/ Interim

HTTPSpec == HTTPInit /\ [][HTTPNext]_httpVars

-----------------------------------------------------------------------------
(***************************************************************************)
(* Safety                                                                  *)
(***************************************************************************)

\* While nothing is lost, the engine knows exactly how much of a body is
\* missing, with an interim answer between, however a body is cut into
\* packets; and a header with a length brings it back in step after a loss, a
\* header over two packets or pipelined messages.
InStep == clean => info.have = (left > 0) /\ info.chunk = left

-----------------------------------------------------------------------------
(***************************************************************************)
(* What the comments of the program say                                    *)
(***************************************************************************)

\* HTTPProtocol.cc:616, "The HTTPInfo says that the pdu have data": such data
\* is inspected, all of it.
BodyInspected ==
  [][clean /\ clean' /\ left > 0 /\ left' < left => inspected' = inspected + (left - left')]_httpVars

=============================================================================
