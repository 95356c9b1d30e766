--------------------------- MODULE MCTCPProtocol ---------------------------
(***************************************************************************)
(* TCPProtocol for TLC: the segments of an opening handshake, of data and  *)
(* of a reset are enough to open, keep and end connections in any order;   *)
(* connections are interchangeable.                                        *)
(***************************************************************************)
EXTENDS TCPProtocol, TLC

OpenAndReset == {{"syn"}, {"ack"}, {"rst"}}
SynOnly == {{"syn"}, {"rst"}}
OpenAndClose == {{"syn"}, {"syn", "ack"}, {"ack"}, {"ack", "fin"}}

IdSymmetry == Permutations(Ids)

=============================================================================
