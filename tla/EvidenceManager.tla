---------------------------- MODULE EvidenceManager ----------------------------
(***************************************************************************)
(* The file that packets marked as evidence are copied to: mapped into     *)
(* memory at its full size, cut to what was written when it is closed, and *)
(* replaced by a new one when the next packet does not fit.  Its name has  *)
(* the second in which it was opened.                                      *)
(***************************************************************************)
EXTENDS Naturals, Sequences, SequencesExt

CONSTANTS
  TotalSize,    \* total_size_
  FileHeader,   \* sizeof(pcap_file_header)
  PacketHeader, \* sizeof(pcap_header_writeable)
  PacketLengths,      \* lengths of packets
  MaxSeconds,   \* bound: seconds
  MaxWritten,   \* bound: packets written
  MaxFiles      \* bound: files opened

ASSUME EvidenceAssumption ==
  /\ {TotalSize, FileHeader, PacketHeader} \subseteq Nat /\ MaxSeconds \in Nat \ {0}
  /\ PacketLengths \subseteq Nat /\ FileHeader <= TotalSize
  /\ \A l \in PacketLengths : FileHeader + PacketHeader + l <= TotalSize

VARIABLES
  second,       \* the clock
  evidences,    \* have_evidences_ of the dispatcher
  file,         \* the open file's name (its second), or none
  offset,       \* evidence_offset_
  disk,         \* the packets in each file, with the place of each
  size,         \* the length of each file
  written       \* history: each packet that was written, with its file, and
                \* the files that were opened, in order

evidenceVars == <<second, evidences, file, offset, disk, size, written>>

NoFile == 0

EvidenceInit ==
  /\ second = 1 /\ evidences = FALSE
  /\ file = NoFile /\ offset = 0
  /\ disk = [s \in 1 .. MaxSeconds |-> {}]
  /\ size = [s \in 1 .. MaxSeconds |-> 0]
  /\ written = [packets |-> <<>>, files |-> <<>>]

\* The part of the state that enable, disable and write change.
Now == [file |-> file, offset |-> offset, disk |-> disk, size |-> size, written |-> written]

\* enable: a file of the full size, over one with the same name.
AfterEnable(m) ==
  IF m.file # NoFile THEN m
  ELSE [file |-> second, offset |-> FileHeader,
        disk |-> [m.disk EXCEPT ![second] = {}],
        size |-> [m.size EXCEPT ![second] = TotalSize],
        written |-> [m.written EXCEPT !.files = Append(@, second)]]

\* disable: the file ends where the last packet ends, and what is beyond is lost.
Truncated(m, length) ==
  [m EXCEPT !.file = NoFile, !.offset = 0, !.size[m.file] = length,
            !.disk[m.file] = {p \in @ : p.at + PacketHeader + p.length <= length}]

\* A bug for the runs: the offset is reset before the file is cut to it.
AfterDisableReset(m) == IF m.file = NoFile THEN m ELSE Truncated(m, 0)

AfterDisable(m) == IF m.file = NoFile THEN m ELSE Truncated(m, m.offset)

\* A packet, with its header, behind what the file has.
Copied(m, length) ==
  LET id == Len(m.written.packets) + 1
  IN [m EXCEPT !.offset = @ + PacketHeader + length,
               !.disk[m.file] = @ \cup {[id |-> id, at |-> m.offset, length |-> length]},
               !.written.packets = Append(@, m.file)]

\* write: a packet that does not fit goes to a new file.
Written(m, length) ==
  Copied(IF m.offset + length + PacketHeader > TotalSize THEN AfterEnable(AfterDisable(m)) ELSE m,
         length)

Becomes(m) ==
  /\ file' = m.file /\ offset' = m.offset /\ disk' = m.disk
  /\ size' = m.size /\ written' = m.written

\* PacketDispatcher::setEvidences.
SetEvidences(value) ==
  /\ value # evidences /\ Len(written.files) < MaxFiles
  /\ evidences' = value
  /\ Becomes(IF value THEN AfterEnable(Now) ELSE AfterDisable(Now))
  /\ UNCHANGED second

\* The dispatcher writes a packet after the layers marked it.
Evidence(length) ==
  /\ evidences /\ Len(written.packets) < MaxWritten
  /\ Becomes(Written(Now, length))
  /\ UNCHANGED <<second, evidences>>

Tick ==
  /\ second < MaxSeconds
  /\ second' = second + 1
  /\ UNCHANGED <<evidences, file, offset, disk, size, written>>

EvidenceNext ==
  \/ \E value \in BOOLEAN : SetEvidences(value)
  \/ \E length \in PacketLengths : Evidence(length)
  \/ Tick

EvidenceSpec == EvidenceInit /\ [][EvidenceNext]_evidenceVars

-----------------------------------------------------------------------------
(***************************************************************************)
(* Safety                                                                  *)
(***************************************************************************)

OpenedOnce(s) ==
  \A i, j \in DOMAIN written.files : written.files[i] = s /\ written.files[j] = s => i = j

\* Every packet that was written stays in its file, whole, inside the file and
\* apart from the others, across rollovers and disable, if no other file was
\* opened in the same second.
EvidenceOnDisk ==
  \A i \in DOMAIN written.packets : LET s == written.packets[i] IN
    OpenedOnce(s) =>
      \E p \in disk[s] :
        /\ p.id = i
        /\ p.at >= FileHeader /\ p.at + PacketHeader + p.length <= size[s]
        /\ \A q \in disk[s] \ {p} : q.at >= p.at + PacketHeader + p.length
                                    \/ p.at >= q.at + PacketHeader + q.length

\* python_wrapper.cc:468, "Gets/Sets the evidences for make forensic analysis.":
\* whenever the files were opened.
NothingOverwritten ==
  \A i \in DOMAIN written.packets : \E p \in disk[written.packets[i]] : p.id = i

=============================================================================
