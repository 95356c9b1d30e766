-------------------------- MODULE PacketDispatcher --------------------------
(***************************************************************************)
(* The PacketDispatcher built for Python: one boost::asio loop whose       *)
(* handlers read packets, run the scheduler and read the user's input.     *)
(* The loop takes in one poll everything that has happened, and runs the   *)
(* handlers it got, in an order that nothing fixes, before it polls again: *)
(* what a handler does comes too late for those that are ready.            *)
(* A handler runs to the end in one step, with what the script's callback  *)
(* does in it: a call of this class, an exception, or nothing.             *)
(***************************************************************************)
EXTENDS Interpreter, TLC

CONSTANTS
  MaxPackets   \* bound: packets that wait for pcap

ASSUME PacketDispatcherAssumption == MaxPackets \in Nat \ {0}

VARIABLES
  d,       \* the dispatcher, see Dispatcher
  wire,    \* packets that wait for pcap
  typed,   \* the line that the user has typed, if it is not handled yet
  asked    \* the last line that was handled is quit(); history

vars == <<d, wire, typed, asked>>

\* Two reads of the packets are outstanding if a script goes on after an
\* exception: they are not counted beyond.
MaxReads == 2

Inputs == {"none", "device", "file"}

Dispatcher == [
  ready    : Inputs,         \* device_is_ready_, pcap_file_ready_
  pcap     : BOOLEAN,        \* pcap_ is open
  in       : Inputs,         \* which run is on the stack
  stopped  : BOOLEAN,        \* the io_service
  waiting  : 0 .. MaxReads,  \* reads of stream_ that wait
  readable : 0 .. MaxReads,  \* their handlers, ready
  aborted  : 0 .. MaxReads,  \* the same, of a closed stream
  timer    : {"none", "idle", "armed", "due"},   \* timer_
  fired    : {"none", "current", "stale"},       \* scheduler_handler ready, for which timer
  set      : BOOLEAN,        \* scheduler_set_
  shell    : Shell,
  heard    : BOOLEAN,        \* handle_read_user_input ready
  refused  : BOOLEAN,        \* setScheduler last got something not callable; history
  fault    : {"", "null timer", "closed pcap"}]

TypeOK ==
  /\ d \in Dispatcher
  /\ wire \in 0 .. MaxPackets
  /\ typed \in Lines \cup {""}
  /\ asked \in BOOLEAN

Counted(n) == Min({n, MaxReads})

-----------------------------------------------------------------------------
(***************************************************************************)
(* The calls that a script may make, from any handler or outside the loop  *)
(***************************************************************************)

\* setScheduler begins so: a handler that is ready is not called back.
Cancelled(x) ==
  [x EXCEPT !.timer = IF @ = "none" THEN @ ELSE "idle",
            !.fired = IF @ = "current" THEN "stale" ELSE @]

SetScheduler(x, what) ==
  CASE what = "None" ->
         [Cancelled(x) EXCEPT !.set = FALSE, !.timer = "none", !.refused = FALSE]
    [] what = "number" -> [Cancelled(x) EXCEPT !.refused = TRUE]
    [] what = "callable" ->
         [Cancelled(x) EXCEPT !.set = TRUE, !.timer = "armed", !.refused = FALSE]

\* close: the reads that wait are aborted, pcap_ keeps its value.
Close(x) ==
  CASE x.ready = "device" ->
         [x EXCEPT !.ready = "none", !.pcap = FALSE,
                   !.aborted = Counted(@ + x.waiting), !.waiting = 0]
    [] x.ready = "file" -> [x EXCEPT !.ready = "none", !.pcap = FALSE]
    [] OTHER -> x

\* open, of a device or file that is there.
Open(x, input) == [x EXCEPT !.ready = input, !.pcap = TRUE]

\* What callbacks and commands do, one call each.
ScriptOutcomes(x) ==
  {x, Close(x)}
    \cup {SetScheduler(x, what) : what \in {"None", "number", "callable"}}
    \cup {[x EXCEPT !.shell = SetShell(@, on)] : on \in BOOLEAN}

\* An exception of Python is no std::exception: it leaves run as well, and
\* status_ as it is.
Raised(x) == [x EXCEPT !.in = "none"]

-----------------------------------------------------------------------------
(***************************************************************************)
(* The handlers                                                            *)
(***************************************************************************)

\* Mutant: the shell is not asked to read on.
StartOperationsOnly(x) ==
  IF x.ready = "device" THEN [x EXCEPT !.waiting = Counted(@ + 1)]
  ELSE [x EXCEPT !.aborted = Counted(@ + 1)]

\* start_operations; a read of a closed stream is aborted.
StartOperations(x) ==
  LET y == [x EXCEPT !.shell = ReadUserInput(@)]
  IN IF x.ready = "device" THEN [y EXCEPT !.waiting = Counted(@ + 1)]
     ELSE [y EXCEPT !.aborted = Counted(@ + 1)]

\* Mutant: the next read is asked for after a packet only.
DoReadOnce(x, error) ==
  \/ \E y \in ScriptOutcomes(x) :
       d' = IF error \/ wire = 0 THEN y ELSE StartOperations(y)
  \/ d' = Raised(x)

\* do_read, with pcap_ open.  If there is no packet the last one is processed
\* again.
DoRead(x, error) ==
  \/ \E y \in ScriptOutcomes(x) : d' = IF error THEN y ELSE StartOperations(y)
  \/ d' = Raised(x)

\* pcap is asked whatever the error is.
Read(x, error) ==
  /\ d.in = "device"
  /\ IF x.pcap THEN DoRead(x, error) ELSE d' = [x EXCEPT !.fault = "closed pcap"]
  /\ wire' = IF x.pcap THEN Max({wire - 1, 0}) ELSE wire
  /\ UNCHANGED <<typed, asked>>

\* A read handler: it was ready when the packets came, or the stream was closed.
HandleRead == d.readable > 0 /\ Read([d EXCEPT !.readable = @ - 1], FALSE)

HandleAborted == d.aborted > 0 /\ Read([d EXCEPT !.aborted = @ - 1], TRUE)

\* expires_at cancels a wait of the new timer, if the handler is a stale one.
Rearmed(x) == [x EXCEPT !.timer = "armed"]

\* scheduler_handler, of a wait that was not aborted.
HandleTimer ==
  /\ d.in = "device" /\ d.fired # "none"
  /\ LET x == [d EXCEPT !.fired = "none"]
     IN IF d.timer = "none" THEN d' = [x EXCEPT !.fault = "null timer"]
        ELSE \/ d' \in ScriptOutcomes(Rearmed(x))
             \/ d' = Raised(Rearmed(x))
  /\ UNCHANGED <<wire, typed, asked>>

\* handle_read_user_input; exceptions of a command are caught here.
HandleLine ==
  /\ d.in = "device" /\ d.heard
  /\ LET x == [d EXCEPT !.heard = FALSE, !.shell = HandleReadUserInput(@, typed)]
     IN d' \in IF IsExecuted(d.shell, typed) THEN ScriptOutcomes(x) ELSE {x}
  /\ typed' = "" /\ asked' = (typed = "quit()")
  /\ UNCHANGED wire

-----------------------------------------------------------------------------
(***************************************************************************)
(* The loop and the world                                                  *)
(***************************************************************************)

NothingReady == d.readable = 0 /\ d.fired = "none" /\ ~d.heard

LineRead == typed # "" /\ d.shell.reads > 0

\* What a poll finds goes to the handlers.
Collect(read) ==
  d' = [d EXCEPT !.readable = IF read THEN d.waiting ELSE 0,
                 !.waiting = IF read THEN 0 ELSE @,
                 !.fired = IF d.timer = "due" THEN "current" ELSE @,
                 !.timer = IF @ = "due" THEN "idle" ELSE @,
                 !.heard = LineRead,
                 !.shell.reads = IF LineRead THEN @ - 1 ELSE @]

Readable(spurious) == d.waiting > 0 /\ (wire > 0 \/ spurious)

\* The loop polls: packets (or none: spurious), the timer, a line for the
\* first read that waits for it.
Poll(spurious) ==
  /\ d.in = "device" /\ NothingReady
  /\ Readable(spurious) \/ d.timer = "due" \/ LineRead
  /\ Collect(Readable(spurious))
  /\ UNCHANGED <<wire, typed, asked>>

\* SIGINT stops the io_service.  Nothing ever resets it: every later run of a
\* device returns at once, and the behaviour ends here.
Signal ==
  /\ d.in = "device"
  /\ d' = [d EXCEPT !.in = "none", !.stopped = TRUE]
  /\ UNCHANGED <<wire, typed, asked>>

\* The reading of a file, packet by packet until its end.
FilePacket ==
  /\ d.in = "file"
  /\ IF ~d.pcap THEN d' = [d EXCEPT !.fault = "closed pcap"]
     ELSE \/ d' \in ScriptOutcomes(d)
          \/ d' = Raised(d)
          \/ d' = [d EXCEPT !.in = "none"]
  /\ UNCHANGED <<wire, typed, asked>>

Run(x) ==
  CASE x.ready = "device" ->
         [StartOperations(x) EXCEPT !.in = "device"]
    [] x.ready = "file" -> [x EXCEPT !.in = "file"]
    [] OTHER -> x

\* The script, outside the loop: it closes before it opens again.
Script ==
  /\ d.in = "none"
  /\ \/ d' \in ScriptOutcomes(d) \cup {Run(d)}
     \/ d.ready = "none" /\ \E input \in {"device", "file"} : d' = Open(d, input)
  /\ UNCHANGED <<wire, typed, asked>>

Arrives == /\ wire < MaxPackets
           /\ wire' = wire + 1
           /\ UNCHANGED <<d, typed, asked>>

Deadline == /\ d.timer = "armed"
            /\ d' = [d EXCEPT !.timer = "due"]
            /\ UNCHANGED <<wire, typed, asked>>

\* The user waits for the answer before typing on.
Types == /\ typed = "" /\ d.shell.enabled /\ d.in = "device"
         /\ typed' \in Lines
         /\ UNCHANGED <<d, wire, asked>>

Init ==
  /\ d = [ready |-> "none", pcap |-> FALSE, in |-> "none",
          stopped |-> FALSE, waiting |-> 0, readable |-> 0, aborted |-> 0,
          timer |-> "idle", fired |-> "none", set |-> FALSE,
          shell |-> Constructed, heard |-> FALSE,
          refused |-> FALSE, fault |-> ""]
  /\ wire = 0
  /\ typed = ""
  /\ asked = FALSE

Next ==
  /\ d.fault = "" /\ ~d.stopped
  /\ \/ HandleRead \/ HandleAborted \/ HandleTimer \/ HandleLine
     \/ \E spurious \in BOOLEAN : Poll(spurious)
     \/ Signal \/ FilePacket \/ Script \/ Arrives \/ Deadline \/ Types

Spec == Init /\ [][Next]_vars

\* The loop runs every handler that is ready and polls again; packets come.
FairSpec ==
  /\ Spec
  /\ WF_vars(d.fault = "" /\ HandleRead) /\ WF_vars(d.fault = "" /\ HandleTimer)
  /\ WF_vars(d.fault = "" /\ HandleLine) /\ WF_vars(d.fault = "" /\ Poll(FALSE))
  /\ WF_vars(d.fault = "" /\ Arrives)

-----------------------------------------------------------------------------
(***************************************************************************)
(* Safety                                                                  *)
(***************************************************************************)

\* While the loop runs on an open device a read of its packets is outstanding
\* or its handler ready, whatever callbacks do and however run was left before.
ReadsGoOn ==
  d.in = "device" /\ d.pcap => d.waiting + d.readable > 0

\* A scheduler that is set will be called: its timer runs or its handler is
\* ready, also after an exception in the callback, unless setScheduler was
\* last given something that is not callable.
SchedulerLives ==
  d.set /\ ~d.refused => d.timer \in {"armed", "due"} \/ d.fired = "current"

\* Nothing that callbacks, exceptions and lines do in any order makes the loop
\* deaf (and the state is of its type).
LoopLives == TypeOK /\ ReadsGoOn /\ SchedulerLives

\* A line of the user closes the shell only if it is a command that asks for
\* it, or the yes right after quit(); packets are processed in between.
ExitConfirmed ==
  [][d.shell.open /\ ~d.shell.open' /\ typed' # typed =>
       \/ IsExecuted(d.shell, typed)
       \/ asked /\ typed = "yes"]_vars

\* PacketDispatcher.cc:393 "Check if the timer have been cancel": no handler is
\* left of a timer that setScheduler has cancelled.
CancelledNeverRuns == d.fired # "stale"

\* One read at a time, as read_in_progress_ says.
OneRead == d.in = "device" => d.waiting + d.readable <= 1

\* Nothing is read from what close has closed.
NothingAfterClose == d.fault # "closed pcap"

-----------------------------------------------------------------------------
(***************************************************************************)
(* Liveness                                                                *)
(***************************************************************************)

InLoop == d.in = "device" /\ d.pcap /\ d.fault = ""

\* While the loop runs, packets that wait are processed, and a line of the user is
\* handled as long as packets come, since only they make the dispatcher read on,
\* and unless the shell had been closed before.
EventuallyServed ==
  /\ InLoop /\ wire = MaxPackets ~> ~InLoop \/ wire < MaxPackets
  /\ InLoop /\ d.shell.enabled /\ d.shell.open /\ typed # "" ~>
       ~InLoop \/ ~d.shell.enabled \/ typed = ""

=============================================================================
