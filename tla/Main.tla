-------------------------------- MODULE Main --------------------------------
(***************************************************************************)
(* The program: a stack and its engines are set up from the options, the   *)
(* inputs are read one after the other, and an atexit handler reports what *)
(* they left in the flow tables, however the program ends.                 *)
(***************************************************************************)
EXTENDS Naturals, Sequences, FiniteSets, SequencesExt

CONSTANTS
  FileNames,   \* names of files
  KeyNames,    \* the files whose flows go to port 80, the default key
  MaxListed    \* bound: the files of a directory

\* The options.  "other" is a word the code does not know.
Options == [
  stack     : {"lan", "other"},
  input     : {"device", "directory", "unreadable"},
  regexes   : 0 .. 2,                        \* -R -r; 0: no -R
  flowClass : {"all", "tcp", "udp", "other"},
  freqs     : BOOLEAN, learner : BOOLEAN,    \* -F -L
  flowType  : {"tcp", "other"},
  groupBy   : {"dst-port", "other"},         \* with the default key, 80
  release   : {"none", "all", "http", "openflow"}]

\* What stands for all of them: a stack that is not there ends the program, and
\* an option is tried out where it is read.
Considered ==
  {o \in Options :
     /\ o.stack = "other" => o.freqs
     /\ o.regexes = 0 => o.flowClass = "all"
     /\ o.regexes = 2 \/ ~o.freqs => ~o.learner /\ o.flowType = "tcp" /\ o.groupBy = "dst-port"
     /\ o.input # "directory" => o.release = "all"}

Contents == {"absent", "pcap", "raises", "broken"}

\* The files of all the directory are listed by their names, and sorted: the same
\* names are together.  What is found is what has the name in the directory
\* itself; what the files below are makes no difference.
Directories ==
  {d \in [listing : BoundedSeq(FileNames, MaxListed), found : [FileNames -> Contents]] :
     /\ \A name \in FileNames : d.found[name] # "absent" => name \in Range(d.listing)
     /\ \A i, j, k \in DOMAIN d.listing :
          i < j /\ j < k /\ d.listing[i] = d.listing[k] => d.listing[j] = d.listing[i]}
NoFiles == [listing |-> <<>>, found |-> [name \in FileNames |-> "absent"]]

VARIABLES
  opts,
  files,       \* the directory
  at,          \* where main is
  registered,  \* the atexit handler
  inputs,      \* names that are left
  ready,       \* the input that the dispatcher has open
  engines,     \* enable_nids_engine_, enable_frequency_engine_
  sm,          \* the RegexManager: who has it and its expressions
  tables,      \* inputs whose flows are in the flow tables
  attached,    \* <<input, what a protocol attached to its flows>>
  report       \* what the reports showed; history

mainVars ==
  <<opts, files, at, registered, inputs, ready, engines, sm, tables, attached, report>>

NoInput == "none"
NoManager == [managers |-> {}, expressions |-> <<>>]
NoReport == [times |-> 0, open |-> NoInput, flows |-> {}, freqs |-> {}, learned |-> {}]

ASSUME MainAssumption ==
  NoInput \notin FileNames /\ "device" \notin FileNames /\ MaxListed \in Nat

MainBegins ==
  /\ at = "start" /\ registered = FALSE
  /\ inputs = <<>> /\ ready = NoInput
  /\ engines = {} /\ sm = NoManager
  /\ tables = {} /\ attached = {}
  /\ report = NoReport

MainInit ==
  /\ opts \in Considered
  /\ files \in IF opts.input = "directory" THEN Directories ELSE {NoFiles}
  /\ MainBegins

-----------------------------------------------------------------------------
(***************************************************************************)
(* The set up                                                              *)
(***************************************************************************)

\* The expressions are a chain; its first one alone is the manager's, and has
\* the flags of the options.
Chain(n) == [i \in 1 .. n |-> [next |-> (i + 1) % (n + 1), flags |-> i = 1]]

Manager ==
  [managers |-> CASE opts.flowClass = "all" -> {"tcp", "udp"}
                  [] opts.flowClass = "other" -> {}
                  [] OTHER -> {opts.flowClass},
   expressions |-> Chain(opts.regexes)]

\* The files of all the directory, each as a name in the one on top.
AllInputs == IF opts.input = "device" THEN <<"device">> ELSE files.listing

\* exit before there is a handler.
UnknownStack ==
  /\ at = "start" /\ opts.stack = "other"
  /\ at' = "over"
  /\ UNCHANGED <<registered, inputs, engines, sm>>

\* The frequency engine only without the other one.
Configure ==
  /\ at = "start" /\ opts.stack # "other"
  /\ engines' = IF opts.regexes > 0 THEN {"nids"} ELSE IF opts.freqs THEN {"frequency"} ELSE {}
  /\ sm' = IF opts.regexes > 0 THEN Manager ELSE NoManager
  /\ registered' = TRUE
  \* a directory that cannot be read to its end ends the program
  /\ IF opts.input = "unreadable" THEN at' = "exit" /\ UNCHANGED inputs
     ELSE at' = "open" /\ inputs' = AllInputs

-----------------------------------------------------------------------------
(***************************************************************************)
(* The inputs                                                              *)
(***************************************************************************)

\* What is there under the path of an input; what is no file is a device.
Found(name) == IF name = "device" THEN "device" ELSE files.found[name]

\* open: an input that cannot be opened ends the program.
Open ==
  /\ at = "open" /\ inputs # <<>>
  /\ \/ Found(Head(inputs)) \in {"pcap", "raises", "device"} /\ at' = "run" /\ ready' = Head(inputs)
     \/ Found(Head(inputs)) \in {"broken", "absent", "device"} /\ at' = "exit" /\ UNCHANGED ready
  /\ UNCHANGED <<inputs, tables, attached>>

\* Its packets get flows, and the protocols of the engine attach theirs.
Inspected(name) ==
  /\ tables' = tables \cup {name}
  /\ attached' = attached \cup
       (CASE "frequency" \in engines -> {<<name, "frequencies">>}
          [] "nids" \in engines -> {}
          [] OTHER -> {<<name, "http">>})

\* run_pcap; SIGINT waits for a loop that does not run.  main catches what a
\* packet raises.
RunFile ==
  /\ at = "run" /\ Found(ready) \in {"pcap", "raises"}
  /\ Inspected(ready)
  /\ at' = "close"
  /\ UNCHANGED <<inputs, ready>>

\* run_device, up to SIGINT or SIGTERM.
RunDevice ==
  /\ at = "run" /\ Found(ready) = "device"
  /\ \/ Inspected(ready) /\ UNCHANGED at
     \/ at' = "close" /\ UNCHANGED <<tables, attached>>
  /\ UNCHANGED <<inputs, ready>>

Close ==
  /\ at = "close"
  /\ ready' = NoInput /\ inputs' = Tail(inputs)
  /\ at' = "open"
  /\ UNCHANGED <<tables, attached>>

Return ==
  /\ at = "open" /\ inputs = <<>>
  /\ at' = "exit"
  /\ UNCHANGED <<inputs, ready, tables, attached>>

-----------------------------------------------------------------------------
(***************************************************************************)
(* The report                                                              *)
(***************************************************************************)

\* computeFrequencyGroup: the groups of the flows that have frequencies.
ComputeFrequencyGroup(held) ==
  IF opts.flowType = "tcp" /\ opts.groupBy = "dst-port"
  THEN {name \in tables : <<name, "frequencies">> \in held} ELSE {}

\* showLearnerResults: the group of the key.
ShowLearnerResults(group) == IF opts.learner THEN group \cap KeyNames ELSE {}

\* The names that the user gives get upper case letters and "Protocol".
ShortProtocolName(name) ==
  CASE name = "http" -> "HTTPProtocol" [] name = "openflow" -> "OPENFLOWProtocol"
ProtocolNames == {"HTTPProtocol", "OpenFlowProtocol"}

\* releaseCaches, or releaseCache of one protocol; an unknown name is no error.
CachesReleased(held) ==
  IF opts.release = "all" THEN {}
  ELSE IF opts.release = "none" THEN held
  ELSE {h \in held : ShortProtocolName(opts.release) = "HTTPProtocol" => h[2] # "http"}

Reported(held) ==
  LET group == IF "frequency" \in engines THEN ComputeFrequencyGroup(held) ELSE {}
  IN report' = [times |-> report.times + 1, open |-> ready, flows |-> tables,
                freqs |-> group, learned |-> ShowLearnerResults(group)]

\* Mutant: the caches are released first.
AiengineExitReleased == Reported(CachesReleased(attached)) /\ attached' = CachesReleased(attached)

\* What is shown is shown before it is released.
AiengineExit == Reported(attached) /\ attached' = CachesReleased(attached)

Exit ==
  /\ at = "exit"
  /\ IF registered THEN AiengineExit ELSE UNCHANGED <<attached, report>>
  /\ at' = "over"
  /\ UNCHANGED <<inputs, ready, tables>>

MainNext ==
  \/ (UnknownStack \/ Configure) /\ UNCHANGED <<opts, files, ready, tables, attached, report>>
  \/ (Open \/ RunFile \/ RunDevice \/ Close \/ Return)
       /\ UNCHANGED <<opts, files, registered, engines, sm, report>>
  \/ Exit /\ UNCHANGED <<opts, files, registered, engines, sm>>

MainSpec == MainInit /\ [][MainNext]_mainVars

-----------------------------------------------------------------------------
(***************************************************************************)
(* Safety                                                                  *)
(***************************************************************************)

\* The inputs before the first one that cannot be opened.
Readable(names) ==
  {names[i] : i \in {j \in 1 .. Len(names) :
                       \A k \in 1 .. j : Found(names[k]) \in {"pcap", "raises"}}}

\* Once a stack is there, the program reports exactly once however it ends (all
\* inputs read, a signal, a directory or an input that cannot be read, a packet
\* that raises), with no input open.  It reports what it read, every input up to
\* one that cannot be opened, and the frequencies of all of it although it
\* releases them.
ReportsAtEnd ==
  at = "over" /\ opts.stack # "other" =>
    /\ report.times = 1 /\ report.open = NoInput
    /\ opts.input = "directory" => report.flows = Readable(AllInputs)
    /\ opts.input = "device" => report.flows \subseteq {"device"}
    /\ opts.input = "unreadable" => report.flows = {}
    /\ engines = {"frequency"} /\ opts.flowType = "tcp" /\ opts.groupBy = "dst-port" =>
         report.freqs = report.flows /\ (opts.learner => report.learned = report.flows \cap KeyNames)

-----------------------------------------------------------------------------
(***************************************************************************)
(* What the options say                                                    *)
(***************************************************************************)

\* main.cc:337, "directory with pcap files": the files of all the directory
\* are read.
AllRead ==
  at = "over" /\ opts.stack # "other" =>
    \A name \in Range(files.listing) :
      files.found[name] \in {"pcap", "absent"} => name \in report.flows

\* main.cc:372, "Enables the Frequency engine.": it does.
FrequenciesEnabled == at = "open" /\ opts.freqs => "frequency" \in engines

\* main.cc:274, "aliases for protocols such as http, ssdp, etc..": they name a
\* protocol.
AliasesKnown ==
  opts.release \in {"http", "openflow"} => ShortProtocolName(opts.release) \in ProtocolNames

\* main.cc:366, "Rejects the flows that matchs with the regex.": every
\* expression of the options has the flags.
AllExpressionsFlagged == \A e \in Range(sm.expressions) : e.flags

=============================================================================
