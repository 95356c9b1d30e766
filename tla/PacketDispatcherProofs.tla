------------------------ MODULE PacketDispatcherProofs ------------------------
(***************************************************************************)
(* Proofs about the dispatcher and what becomes of a packet it hands out.  *)
(*                                                                         *)
(* The loop (PacketDispatcher): whatever callbacks, exceptions and lines   *)
(* do, and in whatever order the handlers of a poll run, it goes on        *)
(* reading, its scheduler is called, and the shell is closed only as the   *)
(* user confirmed.                                                         *)
(*                                                                         *)
(* The walk (NetworkStack): what earlier packets left in the multiplexers  *)
(* does not decide the way of a packet, and evidence comes back from the   *)
(* innermost flow.                                                         *)
(***************************************************************************)
EXTENDS PacketDispatcher, NetworkStack, SharedLemmas

\* What the state of the dispatcher needs by itself, in every handler.
Well(x) ==
  /\ x \in Dispatcher
  /\ x.pcap <=> x.ready # "none"
  /\ x.in = "device" => x.ready # "file"
  /\ x.timer = "none" => ~x.set
  /\ x.set /\ ~x.refused => x.timer \in {"armed", "due"} \/ x.fired = "current"

\* The loop reads, outside of the handler that has just taken a packet.
Reading(x) == x.in = "device" /\ x.pcap => x.waiting + x.readable > 0

\* A question that the user may still answer was asked by the last line.
Dialogue(s, quit) == s.wantExit /\ s.open => s.enabled /\ quit

DispatcherInv ==
  /\ Well(d) /\ Reading(d) /\ Dialogue(d.shell, asked)
  /\ wire \in 0 .. MaxPackets
  /\ typed \in Lines \cup {""}
  /\ asked \in BOOLEAN

-----------------------------------------------------------------------------
(***************************************************************************)
(* The parts of a handler                                                  *)
(***************************************************************************)

\* A count of reads is one of those that are told apart.
LEMMA CountedReads ==
  ASSUME NEW n \in Nat
  PROVE  Counted(n) \in 0 .. MaxReads /\ (n > 0 => Counted(n) > 0)
<1>1. Counted(n) = IF n <= MaxReads THEN n ELSE MaxReads
  BY DEF Counted, Min, MaxReads
<1> QED
  BY <1>1 DEF MaxReads

\* Every call of the shell leaves a shell.
LEMMA ShellCalls ==
  ASSUME NEW s \in Shell
  PROVE  /\ Stop(s) \in Shell
         /\ \A on \in BOOLEAN : SetShell(s, on) \in Shell
         /\ ReadUserInput(s) \in Shell
         /\ \A line : HandleReadUserInput(s, line) \in Shell
<1>1. MaxUserReads \in Nat /\ MaxUserReads > 0
  BY InterpreterAssumption
<1>2. Stop(s) \in Shell
  <2>1. 0 \in 0 .. MaxUserReads
    BY <1>1
  <2>2. \A k \in Shell : [k EXCEPT !.enabled = FALSE, !.open = FALSE] \in Shell
    BY DEF Shell
  <2>3. \A k \in Shell : \A n \in 0 .. MaxUserReads : [k EXCEPT !.reads = n] \in Shell
    BY DEF Shell
  <2> DEFINE closed == [s EXCEPT !.enabled = FALSE, !.open = FALSE]
  <2>4. closed \in Shell
    BY <2>2
  <2>5. Stop(s) = [closed EXCEPT !.reads = 0]
    BY DEF Stop, Shell
  <2> HIDE DEF closed
  <2> QED
    BY <2>1, <2>3, <2>4, <2>5
<1>3. ASSUME NEW on \in BOOLEAN PROVE SetShell(s, on) \in Shell
  <2>1. [s EXCEPT !.enabled = TRUE] \in Shell
    BY DEF Shell
  <2> QED
    BY <1>2, <2>1 DEF SetShell
<1>4. ReadUserInput(s) \in Shell
  <2>1. s.reads \in 0 .. MaxUserReads
    BY DEF Shell
  <2>2. Min({s.reads + 1, MaxUserReads}) \in 0 .. MaxUserReads
    BY <1>1, <2>1 DEF Min
  <2>3. [s EXCEPT !.reads = Min({s.reads + 1, MaxUserReads})] \in Shell
    BY <2>2 DEF Shell
  <2> QED
    BY <2>3 DEF ReadUserInput
<1>5. ASSUME NEW line PROVE HandleReadUserInput(s, line) \in Shell
  <2>1. [s EXCEPT !.wantExit = FALSE] \in Shell /\ [s EXCEPT !.wantExit = TRUE] \in Shell
    BY DEF Shell
  <2> QED
    BY <1>2, <2>1 DEF HandleReadUserInput
<1> QED
  BY <1>2, <1>3, <1>4, <1>5

\* What a call of the script leaves alone.
LEMMA CallsWell ==
  ASSUME NEW x, Well(x), NEW y \in ScriptOutcomes(x)
  PROVE  /\ Well(y) /\ y.in = x.in /\ y.readable = x.readable
         /\ y.pcap => x.pcap /\ y.waiting = x.waiting
         /\ \/ y.shell = x.shell
            \/ \E on \in BOOLEAN : y.shell = SetShell(x.shell, on)
<1>1. x \in Dispatcher
  BY DEF Well
<1>2. CASE y = x
  BY <1>2
<1>3. CASE y = Close(x)
  <2>1. Counted(x.aborted + x.waiting) \in 0 .. MaxReads
    <3>1. x.aborted \in 0 .. MaxReads /\ x.waiting \in 0 .. MaxReads
      BY <1>1 DEF Dispatcher
    <3>2. x.aborted + x.waiting \in Nat
      BY <3>1 DEF MaxReads
    <3> QED
      BY <3>2, CountedReads
  <2>2. 0 \in 0 .. MaxReads
    BY DEF MaxReads
  <2>3. CASE x.ready = "device"
    <3>1. y = [x EXCEPT !.ready = "none", !.pcap = FALSE,
                        !.aborted = Counted(x.aborted + x.waiting), !.waiting = 0]
      BY <1>1, <1>3, <2>3 DEF Close, Dispatcher
    <3> QED
      BY <1>1, <2>1, <2>2, <2>3, <3>1 DEF Well, Dispatcher, Inputs
  <2>4. CASE x.ready = "file"
    <3>1. y = [x EXCEPT !.ready = "none", !.pcap = FALSE]
      BY <1>3, <2>4 DEF Close
    <3> QED
      BY <1>1, <2>4, <3>1 DEF Well, Dispatcher, Inputs
  <2>5. CASE x.ready \notin {"device", "file"}
    <3>1. y = x
      BY <1>3, <2>5 DEF Close
    <3> QED
      BY <3>1
  <2> QED
    BY <2>3, <2>4, <2>5
<1>4. ASSUME NEW what \in {"None", "number", "callable"}, y = SetScheduler(x, what)
      PROVE  /\ Well(y) /\ y.in = x.in /\ y.readable = x.readable /\ y.shell = x.shell
             /\ y.pcap = x.pcap /\ y.waiting = x.waiting
  <2> DEFINE c == Cancelled(x)
  <2>1. c \in Dispatcher /\ c.ready = x.ready /\ c.pcap = x.pcap /\ c.in = x.in
        /\ c.waiting = x.waiting /\ c.readable = x.readable /\ c.shell = x.shell
        /\ c.set = x.set /\ (c.timer = "none" <=> x.timer = "none")
    BY <1>1 DEF Cancelled, Dispatcher
  <2> HIDE DEF c
  <2>2. CASE what = "None"
    <3>1. y = [c EXCEPT !.set = FALSE, !.timer = "none", !.refused = FALSE]
      BY <1>4, <2>2 DEF SetScheduler, c
    <3> QED
      BY <2>1, <3>1 DEF Well, Dispatcher
  <2>3. CASE what = "number"
    <3>1. y = [c EXCEPT !.refused = TRUE]
      BY <1>4, <2>3 DEF SetScheduler, c
    <3> QED
      BY <2>1, <3>1 DEF Well, Dispatcher
  <2>4. CASE what = "callable"
    <3>1. y = [c EXCEPT !.set = TRUE, !.timer = "armed", !.refused = FALSE]
      BY <1>4, <2>4 DEF SetScheduler, c
    <3> QED
      BY <2>1, <3>1 DEF Well, Dispatcher
  <2> QED
    BY <2>2, <2>3, <2>4
<1>5. ASSUME NEW on \in BOOLEAN, y = [x EXCEPT !.shell = SetShell(x.shell, on)]
      PROVE  /\ Well(y) /\ y.in = x.in /\ y.readable = x.readable
             /\ y.pcap = x.pcap /\ y.waiting = x.waiting /\ y.shell = SetShell(x.shell, on)
  <2>1. SetShell(x.shell, on) \in Shell
    BY <1>1, ShellCalls DEF Dispatcher
  <2> QED
    BY <1>1, <1>5, <2>1 DEF Well, Dispatcher
<1> QED
  BY <1>2, <1>3, <1>4, <1>5 DEF ScriptOutcomes

\* The next reads are asked for, of the packets and of the user.
LEMMA OperationsWell ==
  ASSUME NEW x, Well(x), NEW y, y = StartOperations(x)
  PROVE  /\ Well(y) /\ y.in = x.in /\ y.pcap = x.pcap /\ y.ready = x.ready
         /\ y.shell = ReadUserInput(x.shell)
         /\ x.ready = "device" => y.waiting > 0
<1> DEFINE z == [x EXCEPT !.shell = ReadUserInput(x.shell)]
<1>1. x \in Dispatcher
  BY DEF Well
<1>2. /\ z \in Dispatcher /\ z.shell = ReadUserInput(x.shell)
      /\ z.ready = x.ready /\ z.pcap = x.pcap /\ z.in = x.in /\ z.timer = x.timer
      /\ z.fired = x.fired /\ z.set = x.set /\ z.refused = x.refused
      /\ z.waiting = x.waiting /\ z.aborted = x.aborted
  <2>1. ReadUserInput(x.shell) \in Shell
    BY <1>1, ShellCalls DEF Dispatcher
  <2> QED
    BY <1>1, <2>1 DEF Dispatcher
<1>3. /\ Counted(z.waiting + 1) \in 0 .. MaxReads /\ Counted(z.waiting + 1) > 0
      /\ Counted(z.aborted + 1) \in 0 .. MaxReads
  <2>1. z.waiting \in 0 .. MaxReads /\ z.aborted \in 0 .. MaxReads
    BY <1>2 DEF Dispatcher
  <2>2. z.waiting + 1 \in Nat /\ z.waiting + 1 > 0 /\ z.aborted + 1 \in Nat
    BY <2>1 DEF MaxReads
  <2> QED
    BY <2>2, CountedReads
<1>4. Well(z)
  BY <1>2 DEF Well
<1>5. y = IF x.ready = "device" THEN [z EXCEPT !.waiting = Counted(z.waiting + 1)]
          ELSE [z EXCEPT !.aborted = Counted(z.aborted + 1)]
  BY <1>1 DEF StartOperations, Dispatcher
<1> HIDE DEF z
<1>6. CASE x.ready = "device"
  <2>1. y = [z EXCEPT !.waiting = Counted(z.waiting + 1)]
    BY <1>5, <1>6
  <2>2. \A k \in Dispatcher : \A n \in 0 .. MaxReads : [k EXCEPT !.waiting = n] \in Dispatcher
    BY DEF Dispatcher
  <2>3. y \in Dispatcher
    BY <1>2, <1>3, <2>1, <2>2
  <2>4. /\ y.in = z.in /\ y.pcap = z.pcap /\ y.ready = z.ready /\ y.shell = z.shell
        /\ y.set = z.set /\ y.timer = z.timer /\ y.fired = z.fired
        /\ y.refused = z.refused /\ y.waiting = Counted(z.waiting + 1)
    BY <1>2, <2>1 DEF Dispatcher
  <2> QED
    BY <1>2, <1>3, <1>4, <2>3, <2>4 DEF Well
<1>7. CASE x.ready # "device"
  <2>1. y = [z EXCEPT !.aborted = Counted(z.aborted + 1)]
    BY <1>5, <1>7
  <2>2. \A k \in Dispatcher : \A n \in 0 .. MaxReads : [k EXCEPT !.aborted = n] \in Dispatcher
    BY DEF Dispatcher
  <2>3. y \in Dispatcher
    BY <1>2, <1>3, <2>1, <2>2
  <2>4. /\ y.in = z.in /\ y.pcap = z.pcap /\ y.ready = z.ready /\ y.shell = z.shell
        /\ y.set = z.set /\ y.timer = z.timer /\ y.fired = z.fired
        /\ y.refused = z.refused
    BY <1>2, <2>1 DEF Dispatcher
  <2> QED
    BY <1>2, <1>4, <1>7, <2>3, <2>4 DEF Well
<1> QED
  BY <1>6, <1>7

\* Scripts and reads neither ask a question nor hide that it was asked.
LEMMA DialogueGoesOn ==
  ASSUME NEW s \in Shell, NEW quit, Dialogue(s, quit)
  PROVE  /\ \A on \in BOOLEAN : Dialogue(SetShell(s, on), quit)
         /\ Dialogue(ReadUserInput(s), quit)
<1>1. ~Stop(s).open
  BY DEF Stop, Shell
<1>2. Dialogue(Stop(s), quit)
  BY <1>1 DEF Dialogue
<1>3. Dialogue([s EXCEPT !.enabled = TRUE], quit)
  BY DEF Dialogue, Shell
<1>4. \A n : Dialogue([s EXCEPT !.reads = n], quit)
  BY DEF Dialogue, Shell
<1> QED
  BY <1>2, <1>3, <1>4 DEF SetShell, ReadUserInput

-----------------------------------------------------------------------------
(***************************************************************************)
(* The handlers                                                            *)
(***************************************************************************)

\* A call of the script, and an exception, in a handler that goes on reading.
LEMMA CallsKeep ==
  ASSUME NEW x, Well(x), Reading(x), NEW quit, Dialogue(x.shell, quit),
         NEW y \in ScriptOutcomes(x) \cup {Raised(x)}
  PROVE  Well(y) /\ Reading(y) /\ Dialogue(y.shell, quit)
<1>1. x \in Dispatcher /\ x.shell \in Shell
  BY DEF Well, Dispatcher
<1>2. CASE y \in ScriptOutcomes(x)
  <2>1. /\ Well(y) /\ y.in = x.in /\ y.readable = x.readable
        /\ y.pcap => x.pcap /\ y.waiting = x.waiting
    BY <1>2, CallsWell
  <2>2. \/ y.shell = x.shell
        \/ \E on \in BOOLEAN : y.shell = SetShell(x.shell, on)
    BY <1>2, CallsWell
  <2>3. Reading(y)
    BY <2>1 DEF Reading
  <2>4. Dialogue(y.shell, quit)
    BY <1>1, <2>2, DialogueGoesOn
  <2> QED
    BY <2>1, <2>3, <2>4
<1>3. CASE y = Raised(x)
  BY <1>1, <1>3 DEF Raised, Well, Reading, Dispatcher, Inputs
<1> QED
  BY <1>2, <1>3

\* A read handler, with the read that it stands for taken away.
LEMMA ReadKeeps ==
  ASSUME DispatcherInv, NEW error \in BOOLEAN, NEW x, Well(x), Read(x, error),
         x.shell = d.shell, error => Reading(x)
  PROVE  DispatcherInv'
<1>1. x \in Dispatcher /\ x.shell \in Shell
  BY DEF Well, Dispatcher
<1>2. Dialogue(x.shell, asked)
  BY DEF DispatcherInv
<1>3. typed' = typed /\ asked' = asked
  BY DEF Read
<1>4. wire' \in 0 .. MaxPackets
  <2>1. wire \in 0 .. MaxPackets /\ MaxPackets \in Nat
    BY PacketDispatcherAssumption DEF DispatcherInv
  <2>2. Max({wire - 1, 0}) \in {wire - 1, 0} /\ Max({wire - 1, 0}) >= 0
    <3>1. Max({wire - 1, 0}) = IF wire - 1 >= 0 THEN wire - 1 ELSE 0
      BY <2>1 DEF Max
    <3> QED
      BY <2>1, <3>1
  <2>3. Max({wire - 1, 0}) \in 0 .. MaxPackets
    BY <2>1, <2>2
  <2>4. wire' = Max({wire - 1, 0}) \/ wire' = wire
    BY DEF Read
  <2> QED
    BY <2>1, <2>3, <2>4
<1>5. Well(d') /\ Reading(d') /\ Dialogue(d'.shell, asked)
  <2>1. CASE ~x.pcap
    <3>1. d' = [x EXCEPT !.fault = "closed pcap"]
      BY <2>1 DEF Read
    <3> QED
      BY <1>1, <1>2, <2>1, <3>1 DEF Well, Reading, Dispatcher
  <2>2. CASE x.pcap /\ d' = Raised(x)
    BY <1>1, <1>2, <2>2 DEF Raised, Well, Reading, Dispatcher, Inputs
  <2>3. CASE x.pcap /\ d' # Raised(x)
    <3>1. PICK y \in ScriptOutcomes(x) : d' = IF error THEN y ELSE StartOperations(y)
      BY <2>3 DEF Read, DoRead
    <3>2. Well(y) /\ y.in = x.in
      BY CallsWell
    <3>3. Dialogue(y.shell, asked)
      <4>1. \/ y.shell = x.shell
            \/ \E on \in BOOLEAN : y.shell = SetShell(x.shell, on)
        BY CallsWell
      <4> QED
        BY <1>1, <1>2, <4>1, DialogueGoesOn
    <3>4. CASE error
      BY <1>2, <3>1, <3>4, CallsKeep
    <3>5. CASE ~error
      <4>1. /\ Well(d') /\ d'.in = y.in /\ d'.pcap = y.pcap /\ d'.ready = y.ready
            /\ d'.shell = ReadUserInput(y.shell)
            /\ y.ready = "device" => d'.waiting > 0
        BY <3>1, <3>2, <3>5, OperationsWell
      <4>2. Reading(d')
        <5>1. d'.waiting \in 0 .. MaxReads /\ d'.readable \in 0 .. MaxReads
          BY <4>1 DEF Well, Dispatcher
        <5>2. y \in Dispatcher
          BY <3>2 DEF Well
        <5>3. y.ready \in Inputs
          BY <5>2 DEF Dispatcher
        <5>4. d'.in = "device" /\ d'.pcap => y.ready = "device"
          BY <3>2, <4>1, <5>3 DEF Well, Inputs
        <5> QED
          BY <4>1, <5>1, <5>4 DEF Reading, MaxReads
      <4>3. y.shell \in Shell
        BY <3>2 DEF Well, Dispatcher
      <4> QED
        BY <3>3, <4>1, <4>2, <4>3, DialogueGoesOn
    <3> QED
      BY <3>4, <3>5
  <2> QED
    BY <2>1, <2>2, <2>3
<1> QED
  BY <1>3, <1>4, <1>5 DEF DispatcherInv

\* The handlers of a read, of a packet and of a stream that was closed.
LEMMA ReadsKeep ==
  ASSUME DispatcherInv, HandleRead \/ HandleAborted
  PROVE  DispatcherInv'
<1>1. d \in Dispatcher
  BY DEF DispatcherInv, Well
<1>2. /\ d.waiting \in 0 .. MaxReads /\ d.readable \in 0 .. MaxReads
      /\ d.aborted \in 0 .. MaxReads
  BY <1>1 DEF Dispatcher
<1>3. CASE HandleRead
  <2> DEFINE x == [d EXCEPT !.readable = @ - 1]
  <2>1. Read(x, FALSE)
    BY <1>3 DEF HandleRead
  <2>2. d.readable - 1 \in 0 .. MaxReads
    BY <1>2, <1>3 DEF HandleRead, MaxReads
  <2>3. Well(x) /\ x.shell = d.shell
    BY <1>1, <2>2 DEF DispatcherInv, Well, Dispatcher
  <2> HIDE DEF x
  <2> QED
    BY <2>1, <2>3, ReadKeeps
<1>4. CASE HandleAborted
  <2> DEFINE x == [d EXCEPT !.aborted = @ - 1]
  <2>1. Read(x, TRUE)
    BY <1>4 DEF HandleAborted
  <2>2. d.aborted - 1 \in 0 .. MaxReads
    BY <1>2, <1>4 DEF HandleAborted, MaxReads
  <2>3. Well(x) /\ x.shell = d.shell /\ Reading(x)
    BY <1>1, <2>2 DEF DispatcherInv, Well, Reading, Dispatcher
  <2> HIDE DEF x
  <2> QED
    BY <2>1, <2>3, ReadKeeps
<1> QED
  BY <1>3, <1>4

\* scheduler_handler, of the timer it was armed for or of a cancelled one.
LEMMA TimerKeeps ==
  ASSUME DispatcherInv, HandleTimer
  PROVE  DispatcherInv'
<1>1. d \in Dispatcher
  BY DEF DispatcherInv, Well
<1> DEFINE x == [d EXCEPT !.fired = "none"]
           y == Rearmed(x)
<1>2. wire' = wire /\ typed' = typed /\ asked' = asked
  BY DEF HandleTimer
<1>3. Well(d') /\ Reading(d') /\ Dialogue(d'.shell, asked)
  <2>1. CASE d.timer = "none"
    <3>1. d' = [x EXCEPT !.fault = "null timer"]
      BY <2>1 DEF HandleTimer
    <3> QED
      BY <1>1, <2>1, <3>1 DEF DispatcherInv, Well, Reading, Dispatcher
  <2>2. CASE d.timer # "none"
    <3>1. Well(y) /\ Reading(y) /\ Dialogue(y.shell, asked)
      BY <1>1 DEF Rearmed, DispatcherInv, Well, Reading, Dispatcher
    <3>2. d' \in ScriptOutcomes(y) \cup {Raised(y)}
      BY <2>2 DEF HandleTimer
    <3> HIDE DEF y
    <3> QED
      BY <3>1, <3>2, CallsKeep
  <2> QED
    BY <2>1, <2>2
<1> QED
  BY <1>2, <1>3 DEF DispatcherInv

\* The line is a part of the dialogue, or a command that calls the dispatcher.
LEMMA LineKeeps ==
  ASSUME DispatcherInv, HandleLine
  PROVE  DispatcherInv' /\ (d.shell.open /\ ~d'.shell.open =>
           IsExecuted(d.shell, typed) \/ (asked /\ typed = "yes"))
<1> DEFINE s == HandleReadUserInput(d.shell, typed)
           x == [d EXCEPT !.heard = FALSE, !.shell = s]
<1>1. d \in Dispatcher /\ d.shell \in Shell
  BY DEF DispatcherInv, Well, Dispatcher
<1>2. wire' = wire /\ typed' = "" /\ asked' = (typed = "quit()")
  BY DEF HandleLine
<1>3. s \in Shell
  BY <1>1, ShellCalls
<1>4. Dialogue(d.shell, asked)
  BY DEF DispatcherInv
<1>5. Dialogue(s, typed = "quit()")
  <2>1. CASE ~d.shell.enabled
    BY <1>4, <2>1 DEF HandleReadUserInput, Dialogue
  <2>2. CASE d.shell.enabled /\ d.shell.wantExit
    BY <1>1, <2>2 DEF HandleReadUserInput, Dialogue, Stop, Shell
  <2>3. CASE d.shell.enabled /\ ~d.shell.wantExit
    BY <1>1, <2>3 DEF HandleReadUserInput, Dialogue, Shell
  <2> QED
    BY <2>1, <2>2, <2>3
<1>6. Well(x) /\ Reading(x) /\ x.shell = s
  <2> HIDE DEF s
  <2> QED
    BY <1>1, <1>3 DEF DispatcherInv, Well, Reading, Dispatcher
<1>7. d' \in ScriptOutcomes(x) \/ d' = x
  BY DEF HandleLine
<1>8. d' \in ScriptOutcomes(x) \cup {Raised(x)}
  BY <1>7 DEF ScriptOutcomes
<1>9. Well(d') /\ Reading(d') /\ Dialogue(d'.shell, typed = "quit()")
  <2> HIDE DEF s, x
  <2> QED
    BY <1>5, <1>6, <1>8, CallsKeep
<1>10. ASSUME d.shell.open, ~d'.shell.open, ~IsExecuted(d.shell, typed)
       PROVE  asked /\ typed = "yes"
  <2>1. d' = x
    BY <1>10 DEF HandleLine
  <2>2. ~s.open
    BY <1>6, <1>10, <2>1
  <2>3. d.shell.enabled /\ d.shell.wantExit /\ typed = "yes"
    BY <1>1, <1>10, <2>2 DEF HandleReadUserInput, Shell
  <2> QED
    BY <1>4, <1>10, <2>3 DEF Dialogue
<1> QED
  BY <1>2, <1>9, <1>10 DEF DispatcherInv, Lines

-----------------------------------------------------------------------------
(***************************************************************************)
(* The loop and the world                                                  *)
(***************************************************************************)

\* A poll takes the reads that wait for their handlers.
LEMMA PollKeeps ==
  ASSUME DispatcherInv, NEW spurious \in BOOLEAN, Poll(spurious)
  PROVE  DispatcherInv'
<1> DEFINE read == Readable(spurious)
<1>1. d \in Dispatcher /\ d.shell \in Shell
  BY DEF DispatcherInv, Well, Dispatcher
<1>2. /\ d.waiting \in 0 .. MaxReads /\ d.readable \in 0 .. MaxReads
      /\ d.shell.reads \in 0 .. MaxUserReads
  BY <1>1 DEF Dispatcher, Shell
<1>3. wire' = wire /\ typed' = typed /\ asked' = asked
  BY DEF Poll
<1> DEFINE a == IF read THEN d.waiting ELSE 0
           b == IF read THEN 0 ELSE d.waiting
           c == IF d.timer = "due" THEN "current" ELSE d.fired
           t == IF d.timer = "due" THEN "idle" ELSE d.timer
           n == IF LineRead THEN d.shell.reads - 1 ELSE d.shell.reads
           polled == [d EXCEPT !.readable = a, !.waiting = b, !.fired = c, !.timer = t,
                               !.heard = LineRead]
<1>4. a \in 0 .. MaxReads /\ b \in 0 .. MaxReads
  BY <1>2 DEF MaxReads
<1>5. c \in {"none", "current", "stale"} /\ t \in {"none", "idle", "armed", "due"}
  BY <1>1 DEF Dispatcher
<1>6. LineRead \in BOOLEAN
  BY DEF LineRead
<1>7. n \in 0 .. MaxUserReads
  <2>1. MaxUserReads \in Nat
    BY InterpreterAssumption
  <2>2. CASE LineRead
    <3>1. d.shell.reads > 0
      BY <2>2 DEF LineRead
    <3>2. n = d.shell.reads - 1
      BY <2>2
    <3> QED
      BY <1>2, <2>1, <3>1, <3>2
  <2>3. CASE ~LineRead
    BY <1>2, <2>3
  <2> QED
    BY <2>2, <2>3
<1>8. d.waiting + d.readable > 0 => b + a > 0
  <2>1. d.readable = 0
    BY DEF Poll, NothingReady
  <2> QED
    BY <1>2, <2>1 DEF MaxReads
<1>9. /\ t = "none" <=> d.timer = "none"
      /\ (d.timer \in {"armed", "due"} \/ d.fired = "current")
           => (t \in {"armed", "due"} \/ c = "current")
  BY DEF Poll, NothingReady
<1>10. d' = [polled EXCEPT !.shell = [d.shell EXCEPT !.reads = n]]
  BY <1>1 DEF Poll, Collect, Dispatcher, Shell
<1> HIDE DEF a, b, c, t, n
<1>11. polled \in Dispatcher
  BY <1>1, <1>4, <1>5, <1>6 DEF Dispatcher
<1>12. /\ polled.readable = a /\ polled.waiting = b /\ polled.fired = c
       /\ polled.timer = t /\ polled.ready = d.ready /\ polled.pcap = d.pcap
       /\ polled.in = d.in /\ polled.set = d.set /\ polled.refused = d.refused
  BY <1>1 DEF Dispatcher
<1> HIDE DEF polled
<1>13. Well(polled)
  BY <1>9, <1>11, <1>12 DEF DispatcherInv, Well
<1>14. Reading(polled)
  BY <1>8, <1>12 DEF DispatcherInv, Reading
<1> DEFINE s == [d.shell EXCEPT !.reads = n]
<1>15. s \in Shell
  BY <1>1, <1>7 DEF Shell
<1>16. Dialogue(s, asked)
  BY <1>1 DEF DispatcherInv, Dialogue, Shell
<1> HIDE DEF s
<1>17. d' = [polled EXCEPT !.shell = s]
  BY <1>10 DEF s
<1>18. Well(d') /\ Reading(d') /\ d'.shell = s
  BY <1>11, <1>13, <1>14, <1>15, <1>17 DEF Well, Reading, Dispatcher
<1> QED
  BY <1>3, <1>16, <1>18 DEF DispatcherInv

\* Signals, the reading of a file, the script outside the loop, and deadlines.
LEMMA OutsideKeeps ==
  ASSUME DispatcherInv, Signal \/ FilePacket \/ Script \/ Deadline
  PROVE  DispatcherInv'
<1>1. d \in Dispatcher /\ d.shell \in Shell
  BY DEF DispatcherInv, Well, Dispatcher
<1>2. wire' = wire /\ typed' = typed /\ asked' = asked
  BY DEF Signal, FilePacket, Script, Deadline
<1>3. Well(d) /\ Reading(d) /\ Dialogue(d.shell, asked)
  BY DEF DispatcherInv
<1>4. Well(d') /\ Reading(d') /\ Dialogue(d'.shell, asked)
  <2>1. CASE Signal
    BY <1>1, <1>3, <2>1 DEF Signal, Well, Reading, Dispatcher, Inputs
  <2>2. CASE d' \in ScriptOutcomes(d) \cup {Raised(d)}
    BY <1>3, <2>2, CallsKeep
  <2>3. CASE FilePacket
    <3>1. CASE d' = [d EXCEPT !.fault = "closed pcap"]
      BY <1>1, <1>3, <3>1 DEF Well, Reading, Dispatcher
    <3>2. CASE d' = [d EXCEPT !.in = "none"]
      BY <1>1, <1>3, <3>2 DEF Well, Reading, Dispatcher, Inputs
    <3> QED
      BY <2>2, <2>3, <3>1, <3>2 DEF FilePacket
  <2>4. CASE Script
    <3>1. CASE d' = Run(d) /\ d.ready = "device"
      <4> DEFINE y == StartOperations(d)
      <4>1. /\ Well(y) /\ y.ready = "device" /\ y.waiting > 0
            /\ y.shell = ReadUserInput(d.shell)
        BY <1>3, <3>1, OperationsWell
      <4>2. d' = [y EXCEPT !.in = "device"]
        BY <3>1 DEF Run
      <4>3. Dialogue(y.shell, asked)
        BY <1>1, <1>3, <4>1, DialogueGoesOn
      <4> HIDE DEF y
      <4>4. y.waiting \in 0 .. MaxReads /\ y.readable \in 0 .. MaxReads
        BY <4>1 DEF Well, Dispatcher
      <4>5. y.waiting + y.readable > 0
        BY <4>1, <4>4 DEF MaxReads
      <4> QED
        BY <4>1, <4>2, <4>3, <4>5 DEF Well, Reading, Dispatcher, Inputs
    <3>2. CASE d' = Run(d) /\ d.ready = "file"
      <4>1. d' = [d EXCEPT !.in = "file"]
        BY <3>2 DEF Run
      <4> QED
        BY <1>1, <1>3, <4>1 DEF Well, Reading, Dispatcher, Inputs
    <3>3. CASE d' = Run(d) /\ d.ready \notin {"device", "file"}
      BY <1>3, <3>3 DEF Run
    <3>4. ASSUME d.in = "none", d.ready = "none",
                 NEW input \in {"device", "file"}, d' = Open(d, input)
          PROVE  Well(d') /\ Reading(d') /\ Dialogue(d'.shell, asked)
      BY <1>1, <1>3, <3>4 DEF Open, Well, Reading, Dispatcher, Inputs
    <3> QED
      BY <2>2, <2>4, <3>1, <3>2, <3>3, <3>4 DEF Script
  <2>5. CASE Deadline
    BY <1>1, <1>3, <2>5 DEF Deadline, Well, Reading, Dispatcher
  <2> QED
    BY <2>1, <2>3, <2>4, <2>5
<1> QED
  BY <1>2, <1>4 DEF DispatcherInv

-----------------------------------------------------------------------------
(***************************************************************************)
(* The theorems                                                            *)
(***************************************************************************)

\* The dispatcher is constructed with nothing open.
LEMMA DispatcherInvInit == Init => DispatcherInv
<1> SUFFICES ASSUME Init PROVE DispatcherInv
  OBVIOUS
<1>1. Constructed \in Shell /\ ~Constructed.wantExit
  BY InterpreterAssumption DEF Constructed, Shell
<1>2. d \in Dispatcher
  <2>1. 0 \in 0 .. MaxReads
    BY DEF MaxReads
  <2> QED
    BY <1>1, <2>1 DEF Init, Dispatcher, Inputs
<1>3. Well(d) /\ Reading(d) /\ d.shell = Constructed
  BY <1>2 DEF Init, Well, Reading
<1>4. 0 \in 0 .. MaxPackets
  BY PacketDispatcherAssumption
<1> QED
  BY <1>1, <1>3, <1>4 DEF Init, DispatcherInv, Dialogue

\* Only the handler of a line closes the shell with the line taken.
LEMMA DispatcherInvStep ==
  ASSUME DispatcherInv, [Next]_vars
  PROVE  /\ DispatcherInv'
         /\ d.shell.open /\ ~d'.shell.open /\ typed' # typed
              => IsExecuted(d.shell, typed) \/ (asked /\ typed = "yes")
<1>1. CASE HandleRead \/ HandleAborted
  BY <1>1, ReadsKeep DEF HandleRead, HandleAborted, Read
<1>2. CASE HandleTimer
  BY <1>2, TimerKeeps DEF HandleTimer
<1>3. CASE HandleLine
  BY <1>3, LineKeeps
<1>4. ASSUME NEW spurious \in BOOLEAN, Poll(spurious)
      PROVE  DispatcherInv' /\ typed' = typed
  BY <1>4, PollKeeps DEF Poll
<1>5. CASE Signal \/ FilePacket \/ Script \/ Deadline
  BY <1>5, OutsideKeeps DEF Signal, FilePacket, Script, Deadline
<1>6. CASE Arrives
  <2>1. wire \in 0 .. MaxPackets /\ MaxPackets \in Nat
    BY PacketDispatcherAssumption DEF DispatcherInv
  <2>2. wire' \in 0 .. MaxPackets
    BY <1>6, <2>1 DEF Arrives
  <2> QED
    BY <1>6, <2>2 DEF Arrives, DispatcherInv
<1>7. CASE Types
  BY <1>7 DEF Types, DispatcherInv
<1>8. CASE UNCHANGED vars
  BY <1>8 DEF vars, DispatcherInv
<1> QED
  BY <1>1, <1>2, <1>3, <1>4, <1>5, <1>6, <1>7, <1>8 DEF Next

\* Nothing that callbacks, exceptions, closings and lines do in any order makes
\* the loop deaf: while it runs on an open device a read of its packets is
\* outstanding or its handler ready, and a scheduler that is set will be called.
THEOREM LoopNeverDeaf == Spec => []LoopLives
<1>1. DispatcherInv /\ [Next]_vars => DispatcherInv'
  BY DispatcherInvStep
<1>2. DispatcherInv => LoopLives
  BY DEF DispatcherInv, Well, Reading, LoopLives, TypeOK, ReadsGoOn, SchedulerLives
<1> QED
  BY DispatcherInvInit, <1>1, <1>2, PTL DEF Spec

\* A line closes the shell only if it is a command that asks for it or the yes
\* right after quit(), with packets, timers and callbacks in between.
THEOREM ExitsAreConfirmed == Spec => ExitConfirmed
<1> DEFINE Confirmed == d.shell.open /\ ~d.shell.open' /\ typed' # typed =>
                          \/ IsExecuted(d.shell, typed)
                          \/ asked /\ typed = "yes"
<1>1. DispatcherInv /\ [Next]_vars => DispatcherInv' /\ Confirmed
  BY DispatcherInvStep
<1> HIDE DEF Confirmed
<1>2. Spec => [][Confirmed]_vars
  BY DispatcherInvInit, <1>1, PTL DEF Spec
<1> QED
  BY <1>2 DEF Confirmed, ExitConfirmed

-----------------------------------------------------------------------------
(***************************************************************************)
(*                          The walk of a packet                           *)
(*                                                                         *)
(* Each operator of the walk leaves one of a few results, which predicates *)
(* tell field by field (Over, Tunnelled, Flowed, Processed, Forwarded).    *)
(* Of one walk they show that its memory stays as it should (Goes); of two *)
(* that go through other multiplexers, the second after the first, that    *)
(* they take the same way (Agree).                                         *)
(***************************************************************************)

\* What a multiplexer keeps, and what a walk carries.
Entries == [next : Keys, size : Nat, src : Nat, dst : Nat]

Memories == [stack : Stacks, tags : SUBSET {"vlan", "mpls"}, mux : [Muxes -> Entries],
             gtp : Nat, flows : SUBSET Flows]

Ids == [mux : Muxes, hash : Nat]
FlowIds == Ids \cup {NoFlow}

Ends == {"on", "refused", "misread", "signalling", "no flow", "flow", "empty", "dropped", "no layer"}

Walks == [mem : Memories, mux : Muxes, at : Nat, tag : Nat, path : Seq(Muxes \X Nat),
          outer : FlowIds, flow : FlowIds, end : Ends]

\* The exclusive or of numbers is a number.
BitXorOfNumbers == \A x, y \in Nat : BitXor(x, y) \in Nat

\* The multiplexers inside of a tunnel that has a flow.
Inside == {"gprs", "vxlan", "of", "eth_vir", "ip_vir", "icmp_vir", "udp_vir", "tcp_vir"}

Ips == {"ip", "ip_vir"}

\* The wiring of the five stacks: a transport layer is over the IP from which it
\* takes the addresses, nothing leads out of a tunnel, and tunnels begin at outer
\* flows.
LEMMA WiringOfStacks ==
  ASSUME NEW s \in Stacks, NEW t \in SUBSET {"vlan", "mpls"}, NEW u \in Up(s, t)
  PROVE  /\ u[1] \in Muxes /\ u[3] \in Muxes \ {"eth", "gprs", "vxlan", "of"}
         /\ KindOf(s, u[3]) \in {"udp", "tcp"} => u[1] = Down(u[3]) /\ u[1] \in Ips
         /\ u[1] \in Inside => u[3] \in Inside
         /\ u[3] \in Inside => Tunnels(s, u[3]) = {}
         /\ u[3] \in Ips \/ KindOf(s, u[3]) \notin {"ip", "ip6"}
<1>1. u \in UpTagging(t) \cup UpStackLan \cup UpStackLanIPv6 \cup UpStackMobile
            \cup UpStackVirtual \cup UpStackOpenFlow
  BY DEF Up, Stacks
<1>2. \E x, y, z \in Muxes \cup {"icmp6", "ip6", "0"} : u = <<x, y, z>>
  BY <1>1 DEF UpTagging, UpStackLan, UpStackLanIPv6, UpStackMobile,
              UpStackVirtual, UpStackOpenFlow, Inner, Muxes
<1> QED
  BY <1>1 DEF UpTagging, UpStackLan, UpStackLanIPv6, UpStackMobile, UpStackVirtual, UpStackOpenFlow, Inner,
    Muxes, KindOf, Down, Ips, Inside, Tunnels, Stacks

\* A header found at a place is one of the packet's.
LEMMA HeaderFound ==
  ASSUME NEW packet, IsPacket(packet), NEW place, NEW kind, At(packet, place, kind) # {}
  PROVE  HeaderAt(packet, place, kind) \in Headers /\ HeaderAt(packet, place, kind).kind = kind
<1>1. PICK i \in At(packet, place, kind) : i = CHOOSE j \in At(packet, place, kind) : TRUE
  OBVIOUS
<1>2. i \in 1 .. Len(packet) /\ packet[i].kind = kind
  BY DEF At
<1>3. packet[i] \in Headers
  BY <1>2 DEF IsPacket
<1> QED
  BY <1>1, <1>2, <1>3 DEF HeaderAt

\* IPv6 walks over its extension headers.
Rounds == [next : Keys, ptr : Nat, round : 0 .. 3, size : Nat]

\* A round adds a number of bytes, also for AH, whose units may be none.
LEMMA ExtendedSizeType ==
  ASSUME NEW s \in Rounds, NEW h \in Headers, h.size >= 8
  PROVE  ExtendedSize(s, h) \in Nat
<1> DEFINE units == IF h.kind = "ah" THEN h.size \div 4 - 2 ELSE h.size \div 8 - 1
<1>1. h.size \in Nat
  BY DEF Headers
<1>2. h.size \div 4 >= 2 /\ h.size \div 8 >= 1 /\ h.size \div 4 \in Nat /\ h.size \div 8 \in Nat
  BY <1>1
<1>3. units \in Nat
  BY <1>2
<1>4. ExtendedSize(s, h) = IF s.next = "ext" THEN s.size + (units + 1) * 8 ELSE units * 6
  BY DEF ExtendedSize
<1>5. s.size \in Nat
  BY DEF Rounds
<1> HIDE DEF units
<1> QED
  BY <1>3, <1>4, <1>5

\* A round of the loop over the extension headers leaves one of its states.
LEMMA ExtensionType ==
  ASSUME NEW packet, IsPacket(packet), NEW s \in Rounds
  PROVE  Extension(packet, s) \in Rounds
<1> DEFINE ptr == IF s.next = "ext" THEN s.ptr + s.size ELSE s.ptr
           here == At(packet, ptr, "ext") \cup At(packet, ptr, "ah")
           h == packet[CHOOSE i \in here : TRUE]
<1>1. ptr \in Nat /\ s.next \in Keys /\ s.ptr \in Nat /\ s.round \in 0 .. 3 /\ s.size \in Nat
  BY DEF Rounds
<1>2. ASSUME here # {} PROVE h \in Headers /\ h.size >= 8
  <2>1. PICK i \in here : i = CHOOSE j \in here : TRUE
    BY <1>2
  <2>2. i \in 1 .. Len(packet) /\ packet[i].kind \in {"ext", "ah"}
    BY DEF At
  <2>3. packet[i] \in Headers /\ packet[i].size >= 8
    BY <2>2 DEF IsPacket
  <2> QED
    BY <2>1, <2>3
<1>3. ASSUME here # {} PROVE ExtendedSize(s, h) \in Nat /\ h.next \in Keys
  <2> HIDE DEF ptr, here, h
  <2>1. h \in Headers /\ h.size >= 8
    BY <1>2, <1>3
  <2> QED
    BY <2>1, ExtendedSizeType DEF Headers
<1>4. "unknown" \in Keys
  BY DEF Keys
<1>5. CASE s.next \notin {"ext", "ah"} \/ s.round = 3
  BY <1>5 DEF Extension
<1>6. CASE ~(s.next \notin {"ext", "ah"} \/ s.round = 3) /\ here = {}
  <2>1. Extension(packet, s) = [s EXCEPT !.next = "unknown"]
    BY <1>6 DEF Extension
  <2>2. ASSUME NEW k \in Keys PROVE [s EXCEPT !.next = k] \in Rounds
    BY DEF Rounds
  <2> QED
    BY <1>4, <2>1, <2>2
<1>7. CASE ~(s.next \notin {"ext", "ah"} \/ s.round = 3) /\ here # {}
  <2>1. Extension(packet, s) =
          [next |-> h.next, ptr |-> ptr, round |-> s.round + 1, size |-> ExtendedSize(s, h)]
    BY <1>7 DEF Extension
  <2> HIDE DEF ptr, here, h
  <2> QED
    BY <1>1, <1>3, <1>7, <2>1 DEF Rounds
<1> QED
  BY <1>5, <1>6, <1>7

\* So do its three rounds, from the header of IPv6 on.
LEMMA ExtensionsType ==
  ASSUME NEW packet, IsPacket(packet), NEW place \in Nat, NEW h \in Headers
  PROVE  Extensions(packet, place, h) \in Rounds
<1> DEFINE start == [next |-> h.next, ptr |-> place + 40, size |-> 0, round |-> 0]
<1>1. start \in Rounds
  BY DEF Headers, Rounds
<1>2. Extensions(packet, place, h) = Extension(packet, Extension(packet, Extension(packet, start)))
  BY DEF Extensions
<1> HIDE DEF start
<1>3. \A s \in Rounds : Extension(packet, s) \in Rounds
  BY ExtensionType
<1> QED
  BY <1>1, <1>2, <1>3

\* MPLS finds one to three labels.
LEMMA LabelsType ==
  ASSUME NEW packet, NEW place \in Nat
  PROVE  Labels(packet, place) \in 1 .. 3
<1> DEFINE bottom == {n \in 1 .. 3 : \A i \in At(packet, place + 4 * (n - 1), "mpls") : packet[i].a = 1}
<1>1. Labels(packet, place) = IF bottom = {} THEN 3 ELSE Min(bottom)
  BY DEF Labels
<1>2. ASSUME bottom # {} PROVE Min(bottom) \in bottom
  <2>1. bottom \subseteq 1 .. 3
    OBVIOUS
  <2> HIDE DEF bottom
  <2>2. \E x \in bottom : \A y \in bottom : x <= y
    <3>1. CASE 1 \in bottom
      BY <2>1, <3>1
    <3>2. CASE 1 \notin bottom /\ 2 \in bottom
      <4>1. \A y \in bottom : 2 <= y
        BY <2>1, <3>2
      <4> QED
        BY <3>2, <4>1
    <3>3. CASE 1 \notin bottom /\ 2 \notin bottom
      <4>1. \A y \in bottom : y = 3
        BY <2>1, <3>3
      <4>2. 3 \in bottom
        BY <1>2, <4>1
      <4> QED
        BY <4>1, <4>2
    <3> QED
      BY <3>1, <3>2, <3>3
  <2> QED
    BY <2>2 DEF Min
<1> QED
  BY <1>1, <1>2

\* What a multiplexer keeps is an entry of its four fields,
LEMMA EntryOf ==
  ASSUME NEW m \in Entries
  PROVE  /\ m.next \in Keys /\ m.size \in Nat /\ m.src \in Nat /\ m.dst \in Nat
         /\ m = Entry(m.next, m.size, m.src, m.dst)
BY DEF Entries, Entry

\* the fields of an entry are those it is made of,
LEMMA EntryFields ==
  ASSUME NEW n, NEW z, NEW a, NEW b
  PROVE  /\ Entry(n, z, a, b).next = n /\ Entry(n, z, a, b).size = z
         /\ Entry(n, z, a, b).src = a /\ Entry(n, z, a, b).dst = b
         /\ n \in Keys /\ z \in Nat /\ a \in Nat /\ b \in Nat => Entry(n, z, a, b) \in Entries
BY DEF Entries, Entry

\* and the same of what processPacket leaves.
LEMMA LeftFields == \A x, end : Left(x, end).mux = x /\ Left(x, end).end = end
BY DEF Left

\* What processPacket leaves; the size of the header of an IP is left alone.
LEMMA ProcessPacketKeeps ==
  ASSUME NEW packet, IsPacket(packet), NEW place \in Nat, NEW h \in Headers, NEW kind, NEW m \in Entries
  PROVE  /\ ProcessPacket(kind, m, packet, place, h).mux \in Entries
         /\ ProcessPacket(kind, m, packet, place, h).end \in {"on", "dropped"}
         /\ kind = "eth" => ProcessPacket(kind, m, packet, place, h).mux.size = 14
         /\ kind = "ip" => ProcessPacket(kind, m, packet, place, h).mux.size = m.size
         /\ kind \in {"udp", "tcp", "icmp", "icmp6"} =>
              ProcessPacket(kind, m, packet, place, h) = Left(m, "on")
<1> DEFINE s == Extensions(packet, place, h)
<1>1. s.next \in Keys /\ 40 + s.size \in Nat
  BY ExtensionsType DEF Rounds
<1>2. 4 * Labels(packet, place) \in Nat
  BY LabelsType
<1>3. /\ h.next \in Keys /\ h.a \in Nat /\ h.b \in Nat
      /\ m.next \in Keys /\ m.size \in Nat /\ m.src \in Nat /\ m.dst \in Nat
  BY EntryOf DEF Headers
<1>4. {"0", "ip"} \subseteq Keys
  BY DEF Keys, Kinds
<1>5. HeaderSize("eth") = 14 /\ HeaderSize("vlan") = 4
  BY DEF HeaderSize
<1>6. CASE kind = "ip6"
  <2>1. ProcessPacket("ip6", m, packet, place, h) =
          IF ReachesTransport(s) THEN Left(Entry(s.next, 40 + s.size, h.a, h.b), "on")
          ELSE IF s.next \in {"frag", "none"} THEN Left(Entry(m.next, m.size, h.a, h.b), "dropped")
          ELSE Left(Entry("0", 40 + s.size, h.a, h.b), "dropped")
    BY DEF ProcessPacket, ProcessIPv6
  <2> HIDE DEF s
  <2> DEFINE r == ProcessPacket("ip6", m, packet, place, h)
  <2>2. r.end \in {"on", "dropped"}
    BY <2>1 DEF Left
  <2>3. r.mux \in {Entry(s.next, 40 + s.size, h.a, h.b), Entry(m.next, m.size, h.a, h.b),
                Entry("0", 40 + s.size, h.a, h.b)}
    BY <2>1 DEF Left
  <2>4. r.mux \in Entries
    BY <1>1, <1>3, <1>4, <2>3 DEF Entry, Entries
  <2> QED
    BY <1>6, <2>2, <2>4
<1>7. CASE kind \in {"ip", "eth", "vlan", "mpls", "gre"}
  <2>1. kind = "ip" \/ kind \in {"eth", "vlan"} \/ kind = "mpls" \/ kind = "gre"
    BY <1>7
  <2>2. CASE kind = "ip"
    <3>1. ProcessPacket(kind, m, packet, place, h) =
                 Left(Entry(h.next, m.size, h.a, h.b), IF h.c = 1 THEN "dropped" ELSE "on")
      BY <2>2 DEF ProcessPacket, ProcessIP
    <3> QED
      BY <1>3, <2>2, <3>1 DEF Left, Entry, Entries
  <2>3. CASE kind \in {"eth", "vlan"}
    <3>1. ProcessPacket(kind, m, packet, place, h) = Left(Entry(h.next, HeaderSize(kind), m.src, m.dst), "on")
      BY <2>3 DEF ProcessPacket, ProcessEthernet, ProcessVLan
    <3> QED
      BY <1>3, <1>5, <2>3, <3>1 DEF Left, Entry, Entries
  <2>4. CASE kind = "mpls"
    <3>1. ProcessPacket(kind, m, packet, place, h) =
                 Left(Entry("ip", 4 * Labels(packet, place), m.src, m.dst), "on")
      BY <2>4 DEF ProcessPacket, ProcessMPLS
    <3> QED
      BY <1>2, <1>3, <1>4, <2>4, <3>1 DEF Left, Entry, Entries
  <2>5. CASE kind = "gre"
    <3>1. ProcessPacket(kind, m, packet, place, h) = Left(Entry("0", 4, m.src, m.dst), "on")
      BY <2>5 DEF ProcessPacket, ProcessGRE, HeaderSize
    <3> QED
      BY <1>3, <1>4, <2>5, <3>1 DEF Left, Entry, Entries
  <2> QED
    BY <2>1, <2>2, <2>3, <2>4, <2>5
<1>8. CASE kind \notin {"ip6", "ip", "eth", "vlan", "mpls", "gre"}
  BY <1>8, LeftFields DEF ProcessPacket
<1> QED
  BY <1>6, <1>7, <1>8

\* What two multiplexers of one kind leave is the same to those that come next.
Alike(kind, x, y) ==
  /\ x.end = y.end
  /\ x.end = "on" /\ kind \notin {"udp", "tcp"} =>
       x.mux.next = y.mux.next /\ x.mux.size = y.mux.size
  /\ kind \in {"ip", "ip6"} => x.mux.src = y.mux.src /\ x.mux.dst = y.mux.dst

\* Two multiplexers that process one header agree on what comes next; those of IP
\* if they agreed on the size.
LEMMA ProcessPacketAgrees ==
  ASSUME NEW packet, NEW place \in Nat, NEW h \in Headers,
         NEW kind \in {"eth", "vlan", "mpls", "gre", "ip", "ip6"},
         NEW m \in Entries, NEW n \in Entries, kind = "ip" => m.size = n.size,
         NEW x, NEW y, x = ProcessPacket(kind, m, packet, place, h),
         y = ProcessPacket(kind, n, packet, place, h)
  PROVE  Alike(kind, x, y)
<1> USE DEF Alike
<1>1. CASE kind = "ip6"
  <2> DEFINE s == Extensions(packet, place, h)
  <2>1. \A e \in Entries : ProcessPacket("ip6", e, packet, place, h) =
          IF ReachesTransport(s) THEN Left(Entry(s.next, 40 + s.size, h.a, h.b), "on")
          ELSE IF s.next \in {"frag", "none"} THEN Left(Entry(e.next, e.size, h.a, h.b), "dropped")
          ELSE Left(Entry("0", 40 + s.size, h.a, h.b), "dropped")
    BY DEF ProcessPacket, ProcessIPv6
  <2> HIDE DEF s
  <2> QED
    BY <1>1, <2>1 DEF Left, Entry
<1>2. CASE kind \in {"eth", "vlan", "mpls", "gre", "ip"}
  <2>1. kind = "ip" \/ kind \in {"eth", "vlan"} \/ kind = "mpls" \/ kind = "gre"
    BY <1>2
  <2>2. CASE kind = "ip"
    <3>1. \A e : ProcessPacket(kind, e, packet, place, h) =
                 Left(Entry(h.next, e.size, h.a, h.b), IF h.c = 1 THEN "dropped" ELSE "on")
      BY <2>2 DEF ProcessPacket, ProcessIP
    <3> QED
      BY <2>2, <3>1 DEF Left, Entry
  <2>3. CASE kind \in {"eth", "vlan"}
    <3>1. \A e : ProcessPacket(kind, e, packet, place, h) =
          Left(Entry(h.next, HeaderSize(kind), e.src, e.dst), "on")
      BY <2>3 DEF ProcessPacket, ProcessEthernet, ProcessVLan
    <3>2. /\ x = Left(Entry(h.next, HeaderSize(kind), m.src, m.dst), "on")
          /\ y = Left(Entry(h.next, HeaderSize(kind), n.src, n.dst), "on")
      BY <3>1
    <3>3. kind \notin {"ip", "ip6"}
      BY <2>3
    <3> QED
      BY <3>2, <3>3 DEF Left, Entry
  <2>4. CASE kind = "mpls"
    <3>1. \A e : ProcessPacket(kind, e, packet, place, h) =
                 Left(Entry("ip", 4 * Labels(packet, place), e.src, e.dst), "on")
      BY <2>4 DEF ProcessPacket, ProcessMPLS
    <3> QED
      BY <2>4, <3>1 DEF Left, Entry
  <2>5. CASE kind = "gre"
    <3>1. \A e : ProcessPacket(kind, e, packet, place, h) = Left(Entry("0", 4, e.src, e.dst), "on")
      BY <2>5 DEF ProcessPacket, ProcessGRE, HeaderSize
    <3> QED
      BY <2>5, <3>1 DEF Left, Entry
  <2> QED
    BY <2>1, <2>2, <2>3, <2>4, <2>5
<1> QED
  BY <1>1, <1>2

-----------------------------------------------------------------------------
(***************************************************************************)
(* The parts of a walk: what each leaves, field by field                   *)
(***************************************************************************)

\* The rest of a walk, if it is not over, is not changed.
SameButMemory(v, w) ==
  /\ v.mux = w.mux /\ v.at = w.at /\ v.tag = w.tag /\ v.path = w.path
  /\ v.outer = w.outer /\ v.flow = w.flow /\ v.end = w.end

\* A walk that ends is where it was.
LEMMA EndedWalk ==
  ASSUME NEW w \in Walks, NEW why \in Ends
  PROVE  /\ Ended(w, why) \in Walks /\ Ended(w, why).end = why
         /\ Ended(w, why).mem = w.mem /\ Ended(w, why).mux = w.mux /\ Ended(w, why).at = w.at
         /\ Ended(w, why).tag = w.tag /\ Ended(w, why).path = w.path
         /\ Ended(w, why).outer = w.outer /\ Ended(w, why).flow = w.flow
BY DEF Walks, Ended

\* The walk v is w with another entry, other flows or another place of a header.
WithMux(v, w, m, e) ==
  /\ v \in Walks /\ SameButMemory(v, w)
  /\ v.mem.stack = w.mem.stack /\ v.mem.tags = w.mem.tags
  /\ v.mem.gtp = w.mem.gtp /\ v.mem.flows = w.mem.flows
  /\ v.mem.mux = [w.mem.mux EXCEPT ![m] = e]
  /\ v.mem.mux[m] = e /\ \A n \in Muxes \ {m} : v.mem.mux[n] = w.mem.mux[n]

WithFlows(v, w, F) ==
  /\ v \in Walks /\ SameButMemory(v, w)
  /\ v.mem.stack = w.mem.stack /\ v.mem.tags = w.mem.tags
  /\ v.mem.gtp = w.mem.gtp /\ v.mem.flows = F /\ v.mem.mux = w.mem.mux

WithGTP(v, w, place) ==
  /\ v \in Walks /\ SameButMemory(v, w)
  /\ v.mem.stack = w.mem.stack /\ v.mem.tags = w.mem.tags
  /\ v.mem.gtp = place /\ v.mem.flows = w.mem.flows /\ v.mem.mux = w.mem.mux

\* It is w in the next multiplexer, that of a tunnel.
InTunnel(v, w, tunnel, place, next, size) ==
  /\ v \in Walks /\ v.mux = tunnel /\ v.at = place
  /\ v.tag = w.tag /\ v.path = w.path /\ v.outer = w.outer /\ v.flow = w.flow /\ v.end = w.end
  /\ v.mem.stack = w.mem.stack /\ v.mem.tags = w.mem.tags
  /\ v.mem.gtp = w.mem.gtp /\ v.mem.flows = w.mem.flows
  /\ v.mem.mux[tunnel].next = next /\ v.mem.mux[tunnel].size = size
  /\ \A n \in Muxes \ {tunnel} : v.mem.mux[n] = w.mem.mux[n]

\* A walk with an entry of one multiplexer replaced,
LEMMA WithMuxWalk ==
  ASSUME NEW w \in Walks, NEW m \in Muxes, NEW e \in Entries
  PROVE  WithMux([w EXCEPT !.mem.mux[m] = e], w, m, e)
<1> DEFINE mem == [w.mem EXCEPT !.mux = [w.mem.mux EXCEPT ![m] = e]]
           v == [w EXCEPT !.mem.mux[m] = e]
<1>1. w.mem \in Memories /\ w.mem.mux \in [Muxes -> Entries]
  BY DEF Walks, Memories
<1>2. v = [w EXCEPT !.mem = mem]
  OBVIOUS
<1>3. /\ mem \in Memories /\ mem.stack = w.mem.stack /\ mem.tags = w.mem.tags
      /\ mem.gtp = w.mem.gtp /\ mem.flows = w.mem.flows
      /\ mem.mux = [w.mem.mux EXCEPT ![m] = e]
  BY <1>1 DEF Memories
<1> HIDE DEF mem, v
<1>4. v \in Walks /\ SameButMemory(v, w) /\ v.mem = mem
  BY <1>2, <1>3 DEF Walks, SameButMemory
<1>5. WithMux(v, w, m, e)
  BY <1>1, <1>3, <1>4 DEF WithMux
<1> QED
  BY <1>5 DEF v

\* with other flows,
LEMMA WithFlowsWalk ==
  ASSUME NEW w \in Walks, NEW F \in SUBSET Flows
  PROVE  WithFlows([w EXCEPT !.mem.flows = F], w, F)
<1> DEFINE mem == [w.mem EXCEPT !.flows = F]
           v == [w EXCEPT !.mem.flows = F]
<1>1. w.mem \in Memories
  BY DEF Walks
<1>2. v = [w EXCEPT !.mem = mem]
  OBVIOUS
<1>3. /\ mem \in Memories /\ mem.stack = w.mem.stack /\ mem.tags = w.mem.tags
      /\ mem.gtp = w.mem.gtp /\ mem.flows = F /\ mem.mux = w.mem.mux
  BY <1>1 DEF Memories
<1> HIDE DEF mem, v
<1>4. WithFlows(v, w, F)
  BY <1>2, <1>3 DEF Walks, SameButMemory, WithFlows
<1> QED
  BY <1>4 DEF v

\* with another place of the GTP header,
LEMMA WithGTPWalk ==
  ASSUME NEW w \in Walks, NEW place \in Nat
  PROVE  WithGTP([w EXCEPT !.mem.gtp = place], w, place)
<1> DEFINE mem == [w.mem EXCEPT !.gtp = place]
           v == [w EXCEPT !.mem.gtp = place]
<1>1. w.mem \in Memories
  BY DEF Walks
<1>2. v = [w EXCEPT !.mem = mem]
  OBVIOUS
<1>3. /\ mem \in Memories /\ mem.stack = w.mem.stack /\ mem.tags = w.mem.tags
      /\ mem.gtp = place /\ mem.flows = w.mem.flows /\ mem.mux = w.mem.mux
  BY <1>1 DEF Memories
<1> HIDE DEF mem, v
<1>4. WithGTP(v, w, place)
  BY <1>2, <1>3 DEF Walks, SameButMemory, WithGTP
<1> QED
  BY <1>4 DEF v

\* with the multiplexer of a tunnel as the next,
LEMMA IntoWalk ==
  ASSUME NEW w \in Walks, NEW tunnel \in Muxes, NEW place \in Nat, NEW next \in Keys, NEW size \in Nat
  PROVE  InTunnel(Into(w, tunnel, place, next, size), w, tunnel, place, next, size)
<1> DEFINE v == Into(w, tunnel, place, next, size)
           old == w.mem.mux[tunnel]
           e == Entry(next, size, old.src, old.dst)
           u == [w EXCEPT !.mem.mux[tunnel] = e]
<1>1. old \in Entries
  BY DEF Walks, Memories
<1>2. e \in Entries /\ e.next = next /\ e.size = size
  BY <1>1, EntryOf, EntryFields
<1>3. v = [[u EXCEPT !.mux = tunnel] EXCEPT !.at = place]
  BY DEF Into
<1>4. WithMux(u, w, tunnel, e)
  <2> HIDE DEF e
  <2> QED
    BY <1>2, WithMuxWalk
<1> HIDE DEF e, u, v
<1>5. u \in Walks
  BY <1>4 DEF WithMux
<1>6. /\ v \in Walks /\ v.mem = u.mem /\ v.mux = tunnel /\ v.at = place
      /\ v.tag = u.tag /\ v.path = u.path /\ v.outer = u.outer /\ v.flow = u.flow /\ v.end = u.end
  BY <1>3, <1>5 DEF Walks
<1>7. InTunnel(v, w, tunnel, place, next, size)
  BY <1>2, <1>4, <1>6 DEF SameButMemory, WithMux, InTunnel
<1> QED
  BY <1>7 DEF v

\* forwardPacket to the multiplexer m.
IsMoved(v, w, m, at) ==
  /\ v \in Walks /\ v.mux = m /\ v.at = at /\ v.path = Append(w.path, <<m, at>>)
  /\ v.mem = w.mem /\ v.tag = w.tag /\ v.outer = w.outer /\ v.flow = w.flow /\ v.end = w.end

\* and with the next multiplexer of forwardPacket, is a walk.
LEMMA MovedWalk ==
  ASSUME NEW w \in Walks, NEW m \in Muxes, NEW at \in Nat
  PROVE  IsMoved([w EXCEPT !.mux = m, !.at = at, !.path = Append(@, <<m, at>>)], w, m, at)
<1> DEFINE v == [w EXCEPT !.mux = m, !.at = at, !.path = Append(@, <<m, at>>)]
<1>1. Append(w.path, <<m, at>>) \in Seq(Muxes \X Nat)
  BY DEF Walks
<1>2. /\ v \in Walks /\ v.mux = m /\ v.at = at /\ v.path = Append(w.path, <<m, at>>)
      /\ v.mem = w.mem /\ v.tag = w.tag /\ v.outer = w.outer /\ v.flow = w.flow /\ v.end = w.end
  BY <1>1 DEF Walks
<1> HIDE DEF v
<1>3. IsMoved(v, w, m, at)
  BY <1>2 DEF IsMoved
<1> QED
  BY <1>3 DEF v

-----------------------------------------------------------------------------
(***************************************************************************)
(* The flows of the layers                                                 *)
(***************************************************************************)

\* The flows with an identity.
OfId(F, f) == {g \in F : g.mux = f.mux /\ g.hash = f.hash}

StuckIn(F, f) == \E g \in OfId(F, f) : g.stuck

\* Every flow stays, and stays attached.
Grown(F, G) == \A g \in F : \E k \in G : /\ k.mux = g.mux /\ k.hash = g.hash
                                         /\ g.stuck => k.stuck

\* No layer has more flows than its table.
Rooms(s, F) ==
  /\ IsFiniteSet(F)
  /\ \A m \in Muxes : Cardinality({g \in F : g.mux = m}) <= Capacity(s, m, TcpFlows, UdpFlows)

\* The flows after those of an identity are attached.
Stick(F, f) == {IF g \in OfId(F, f) THEN [g EXCEPT !.stuck = TRUE] ELSE g : g \in F}

\* A flow that is found, and its attachment, is found in the flows as they have grown.
LEMMA GrownIds ==
  ASSUME NEW F, NEW G, Grown(F, G), NEW f
  PROVE  /\ OfId(F, f) # {} => OfId(G, f) # {}
         /\ StuckIn(F, f) => StuckIn(G, f)
BY DEF Grown, OfId, StuckIn

\* Flows that grow twice have grown.
LEMMA GrownTransitive ==
  ASSUME NEW F, NEW G, NEW H, Grown(F, G), Grown(G, H)
  PROVE  Grown(F, H)
<1> SUFFICES ASSUME NEW g \in F
             PROVE  \E k \in H : k.mux = g.mux /\ k.hash = g.hash /\ (g.stuck => k.stuck)
  BY DEF Grown
<1>1. PICK k \in G : k.mux = g.mux /\ k.hash = g.hash /\ (g.stuck => k.stuck)
  BY DEF Grown
<1>2. PICK l \in H : l.mux = k.mux /\ l.hash = k.hash /\ (k.stuck => l.stuck)
  BY DEF Grown
<1> QED
  BY <1>1, <1>2

\* A flow table has a number of flows.
LEMMA CapacityType ==
  ASSUME NEW s \in Stacks, NEW m \in Muxes
  PROVE  Capacity(s, m, TcpFlows, UdpFlows) \in Nat
<1>1. TcpFlows \in Nat /\ UdpFlows \in Nat
  BY NetworkStackAssumption
<1>2. UdpFlows \div 8 \in Nat /\ UdpFlows \div 32 \in Nat /\ TcpFlows \div 8 \in Nat
  BY <1>1
<1> QED
  BY <1>1, <1>2 DEF Capacity

\* The image of a finite set.
LEMMA FiniteImage ==
  ASSUME NEW S, IsFiniteSet(S), NEW T, NEW f \in [S -> T], T = {f[x] : x \in S}
  PROVE  IsFiniteSet(T) /\ Cardinality(T) <= Cardinality(S)
<1>1. f \in Surjection(S, T)
  BY DEF Surjection
<1> QED
  BY <1>1, FS_Surjection

\* Attaching flows keeps all of them, and their number in every layer.
LEMMA Sticking ==
  ASSUME NEW F \in SUBSET Flows, NEW f
  PROVE  /\ Stick(F, f) \in SUBSET Flows /\ Grown(F, Stick(F, f))
         /\ \A s \in Stacks : Rooms(s, F) => Rooms(s, Stick(F, f))
         /\ OfId(F, f) # {} => StuckIn(Stick(F, f), f)
<1> DEFINE To(g) == IF g \in OfId(F, f) THEN [g EXCEPT !.stuck = TRUE] ELSE g
<1>1. ASSUME NEW g \in F
      PROVE  /\ To(g) \in Flows /\ To(g).mux = g.mux /\ To(g).hash = g.hash
             /\ g.stuck => To(g).stuck
             /\ g \in OfId(F, f) => To(g).stuck
  BY DEF Flows
<1>2. Stick(F, f) = {To(g) : g \in F}
  BY DEF Stick
<1> HIDE DEF To
<1>3. Stick(F, f) \in SUBSET Flows
  BY <1>1, <1>2
<1>4. Grown(F, Stick(F, f))
  BY <1>1, <1>2 DEF Grown
<1>5. ASSUME OfId(F, f) # {} PROVE StuckIn(Stick(F, f), f)
  <2>1. PICK g \in OfId(F, f) : TRUE
    BY <1>5
  <2>2. g \in F /\ g.mux = f.mux /\ g.hash = f.hash
    BY <2>1 DEF OfId
  <2>3. To(g) \in OfId(Stick(F, f), f)
    BY <1>1, <1>2, <2>2 DEF OfId
  <2> QED
    BY <1>1, <2>1, <2>2, <2>3 DEF StuckIn
<1>6. ASSUME NEW s \in Stacks, Rooms(s, F) PROVE Rooms(s, Stick(F, f))
  <2>1. IsFiniteSet(Stick(F, f))
    <3> DEFINE T == {To(g) : g \in F}
               t == [g \in F |-> To(g)]
    <3>1. t \in [F -> T] /\ T = {t[g] : g \in F}
      OBVIOUS
    <3> HIDE DEF T, t
    <3>2. IsFiniteSet(T)
      BY <1>6, <3>1, FiniteImage DEF Rooms
    <3> QED
      BY <1>2, <3>2 DEF T
  <2>2. ASSUME NEW m \in Muxes
        PROVE  Cardinality({g \in Stick(F, f) : g.mux = m}) <= Capacity(s, m, TcpFlows, UdpFlows)
    <3> DEFINE A == {g \in F : g.mux = m}
               B == {g \in Stick(F, f) : g.mux = m}
    <3>1. IsFiniteSet(A) /\ Cardinality(A) \in Nat
      BY <1>6, FS_Subset, FS_CardinalityType DEF Rooms
    <3>2. B = {To(g) : g \in A}
      BY <1>1, <1>2
    <3>3. Cardinality(A) <= Capacity(s, m, TcpFlows, UdpFlows)
      BY <1>6 DEF Rooms
    <3> HIDE DEF A, B
    <3>4. IsFiniteSet(B) /\ Cardinality(B) <= Cardinality(A) /\ Cardinality(B) \in Nat
      <4> DEFINE t == [g \in A |-> To(g)]
      <4>1. t \in [A -> B] /\ B = {t[g] : g \in A}
        BY <3>2
      <4> HIDE DEF t
      <4> QED
        BY <3>1, <4>1, FiniteImage, FS_CardinalityType
    <3>5. Cardinality(B) <= Capacity(s, m, TcpFlows, UdpFlows)
      BY <3>1, <3>3, <3>4, CapacityType
    <3> QED
      BY <3>5 DEF B
  <2> QED
    BY <2>1, <2>2 DEF Rooms
<1> QED
  BY <1>3, <1>4, <1>5, <1>6

OfLayer(F, m) == {g \in F : g.mux = m}

\* Attaching a flow leaves the flows of other layers as they are.
LEMMA StuckElsewhere ==
  ASSUME NEW F \in SUBSET Flows, NEW f, NEW m, m # f.mux
  PROVE  OfLayer(Stick(F, f), m) = OfLayer(F, m)
<1> DEFINE To(g) == IF g \in OfId(F, f) THEN [g EXCEPT !.stuck = TRUE] ELSE g
<1>1. ASSUME NEW g \in F PROVE To(g).mux = g.mux /\ (g.mux = m => To(g) = g)
  BY DEF Flows, OfId
<1>2. Stick(F, f) = {To(g) : g \in F}
  BY DEF Stick
<1> HIDE DEF To
<1> QED
  BY <1>1, <1>2 DEF OfLayer

\* A new flow of a layer that has room for it.
LEMMA Making ==
  ASSUME NEW s \in Stacks, NEW F \in SUBSET Flows, NEW g \in Flows
  PROVE  /\ F \cup {g} \in SUBSET Flows /\ Grown(F, F \cup {g})
         /\ /\ Rooms(s, F)
            /\ Cardinality({k \in F : k.mux = g.mux}) < Capacity(s, g.mux, TcpFlows, UdpFlows)
            => Rooms(s, F \cup {g})
<1>1. Grown(F, F \cup {g})
  BY DEF Grown
<1>2. ASSUME Rooms(s, F),
             Cardinality({k \in F : k.mux = g.mux}) < Capacity(s, g.mux, TcpFlows, UdpFlows)
      PROVE  Rooms(s, F \cup {g})
  <2>1. IsFiniteSet(F \cup {g})
    BY <1>2, FS_AddElement DEF Rooms
  <2>2. ASSUME NEW m \in Muxes
        PROVE  Cardinality({k \in F \cup {g} : k.mux = m}) <= Capacity(s, m, TcpFlows, UdpFlows)
    <3> DEFINE A == {k \in F : k.mux = m}
    <3>1. IsFiniteSet(A) /\ Cardinality(A) \in Nat
      BY <1>2, FS_Subset, FS_CardinalityType DEF Rooms
    <3>2. Cardinality(A) <= Capacity(s, m, TcpFlows, UdpFlows)
      BY <1>2 DEF Rooms
    <3>3. CASE g.mux = m
      <4>1. {k \in F \cup {g} : k.mux = m} = A \cup {g}
        BY <3>3
      <4>2. Cardinality(A) < Capacity(s, m, TcpFlows, UdpFlows)
        BY <1>2, <3>3
      <4> HIDE DEF A
      <4>3. Cardinality(A \cup {g}) <= Cardinality(A) + 1 /\ Cardinality(A \cup {g}) \in Nat
        BY <3>1, FS_AddElement, FS_CardinalityType
      <4>4. Cardinality(A \cup {g}) <= Capacity(s, m, TcpFlows, UdpFlows)
        BY <3>1, <4>2, <4>3, CapacityType
      <4> QED
        BY <4>1, <4>4
    <3>4. CASE g.mux # m
      <4>1. {k \in F \cup {g} : k.mux = m} = A
        BY <3>4
      <4> QED
        BY <3>2, <4>1
    <3> QED
      BY <3>3, <3>4
  <2> QED
    BY <2>1, <2>2 DEF Rooms
<1> QED
  BY <1>1, <1>2

-----------------------------------------------------------------------------
(***************************************************************************)
(* Into a tunnel                                                           *)
(***************************************************************************)

TunnelNames == {"gprs", "vxlan", "of"}

\* At most one tunnel is over a transport layer, in the stacks that have tunnels.
LEMMA TunnelsOfStacks ==
  ASSUME NEW s \in Stacks, NEW m \in Muxes, Tunnels(s, m) # {}
  PROVE  \E t \in TunnelNames : /\ Tunnels(s, m) = {t} /\ t = CHOOSE u \in Tunnels(s, m) : TRUE
                                /\ t \in Muxes \ Ips /\ t \in Inside
                                /\ s \in {"mobile", "virtual", "oflow"}
BY DEF Tunnels, TunnelNames, Muxes, Ips, Inside

\* The type of message that GPRS reads.
TypeAt(packet, place, stale) ==
  LET here == At(packet, place, "gprs")
  IN IF here = {} THEN stale ELSE packet[CHOOSE i \in here : TRUE].a

TunnelEnd(tunnel, packet, place, stale, header) ==
  IF tunnel = "gprs" THEN IF TypeAt(packet, header, stale) = 1 THEN "on" ELSE "signalling"
  ELSE IF At(packet, place, tunnel) = {} THEN "misread"
  ELSE IF tunnel = "vxlan" \/ HeaderAt(packet, place, tunnel).a = 1 THEN "on" ELSE "signalling"

TunnelKey(tunnel) == IF tunnel = "gprs" THEN "ip" ELSE "0"
TunnelSize(tunnel) == IF tunnel = "of" THEN 18 ELSE 8

Refused(F, f, tunnel, packet, place) ==
  ~StuckIn(F, f) /\ ~(At(packet, place, tunnel) # {} /\ Checked(tunnel, packet, place))

GTPAfter(w, f, tunnel, place) ==
  IF tunnel = "gprs" /\ ~StuckIn(w.mem.flows, f) THEN place ELSE w.mem.gtp

\* The walk r is where w is after the flow f was handed to a tunnel.
Tunnelled(r, w, f, tunnel, packet, place, stale) ==
  /\ r \in Walks /\ r.path = w.path /\ r.outer = w.outer /\ r.flow = w.flow
  /\ r.mem.stack = w.mem.stack /\ r.mem.tags = w.mem.tags
  /\ \A n \in Muxes \ {tunnel} : r.mem.mux[n] = w.mem.mux[n]
  /\ Refused(w.mem.flows, f, tunnel, packet, place) => r.end = "refused" /\ r.mem = w.mem
  /\ ~Refused(w.mem.flows, f, tunnel, packet, place) =>
       /\ r.mem.flows = Stick(w.mem.flows, f)
       /\ r.mem.gtp = GTPAfter(w, f, tunnel, place)
       /\ r.end = TunnelEnd(tunnel, packet, place, stale, r.mem.gtp)
  /\ r.end = "on" =>
       /\ r.mux = tunnel /\ r.at = place
       /\ r.mem.mux[tunnel].next = TunnelKey(tunnel) /\ r.mem.mux[tunnel].size = TunnelSize(tunnel)
       /\ r.tag = IF tunnel = "vxlan" THEN HeaderAt(packet, place, tunnel).a ELSE w.tag
  /\ r.end # "on" => r.mux = w.mux /\ r.at = w.at /\ r.tag = w.tag

\* FlowForwarder::forwardFlow attaches the flow that has the hash of the packet.
LEMMA AttachFound ==
  ASSUME NEW w \in Walks, NEW f
  PROVE  /\ Found(w, f) = OfId(w.mem.flows, f)
         /\ Attached(w, f) <=> StuckIn(w.mem.flows, f)
         /\ Attach(w, f) = [w EXCEPT !.mem.flows = Stick(w.mem.flows, f)]
<1>1. Found(w, f) = OfId(w.mem.flows, f)
  BY DEF Found, OfId
<1>2. Attached(w, f) <=> StuckIn(w.mem.flows, f)
  BY <1>1 DEF Attached, StuckIn
<1>3. Attach(w, f) = [w EXCEPT !.mem.flows = Stick(w.mem.flows, f)]
  BY <1>1 DEF Attach, Stick
<1> QED
  BY <1>1, <1>2, <1>3

\* The walk after the flow is attached, and the place of the GTP header noted.
Attachment(w, f, tunnel, place) ==
  IF tunnel = "gprs" /\ ~Attached(w, f) THEN [Attach(w, f) EXCEPT !.mem.gtp = place]
  ELSE Attach(w, f)

IsAttachment(a, w, f, tunnel, place) ==
  /\ a \in Walks /\ SameButMemory(a, w)
  /\ a.mem.stack = w.mem.stack /\ a.mem.tags = w.mem.tags /\ a.mem.mux = w.mem.mux
  /\ a.mem.flows = Stick(w.mem.flows, f) /\ a.mem.gtp = GTPAfter(w, f, tunnel, place)

\* What the attachment changes: the flows, and for GPRS the place of its header.
LEMMA AttachedWalk ==
  ASSUME NEW w \in Walks, NEW f, NEW tunnel, NEW place \in Nat
  PROVE  IsAttachment(Attachment(w, f, tunnel, place), w, f, tunnel, place)
<1> DEFINE a == Attachment(w, f, tunnel, place)
           F == Stick(w.mem.flows, f)
           u == [w EXCEPT !.mem.flows = F]
<1>1. w.mem.flows \in SUBSET Flows
  BY DEF Walks, Memories
<1>2. F \in SUBSET Flows
  BY <1>1, Sticking
<1>3. WithFlows(u, w, F)
  <2> HIDE DEF F
  <2> QED
    BY <1>2, WithFlowsWalk
<1>4. Attach(w, f) = u
  BY AttachFound
<1> HIDE DEF F, u
<1>5. u \in Walks
  BY <1>3 DEF WithFlows
<1>6. CASE tunnel = "gprs" /\ ~Attached(w, f)
  <2>1. WithGTP([u EXCEPT !.mem.gtp = place], u, place)
    BY <1>5, WithGTPWalk
  <2>2. WithGTP(a, u, place)
    BY <1>4, <1>6, <2>1 DEF Attachment
  <2>3. GTPAfter(w, f, tunnel, place) = place
    BY <1>6, AttachFound DEF GTPAfter
  <2> QED
    BY <1>3, <2>2, <2>3 DEF WithGTP, WithFlows, SameButMemory, IsAttachment, F
<1>7. CASE ~(tunnel = "gprs" /\ ~Attached(w, f))
  <2>1. a = u
    BY <1>4, <1>7 DEF Attachment
  <2>2. GTPAfter(w, f, tunnel, place) = w.mem.gtp
    BY <1>7, AttachFound DEF GTPAfter
  <2> QED
    BY <1>3, <2>1, <2>2 DEF WithFlows, SameButMemory, IsAttachment, F
<1> QED
  BY <1>6, <1>7

\* All the ways forwardFlow to the protocol of a tunnel may go, field by field.
LEMMA IntoTunnelWalk ==
  ASSUME NEW w \in Walks, w.end = "on", NEW tunnel \in TunnelNames, NEW f,
         NEW packet, IsPacket(packet), NEW place \in Nat, NEW stale
  PROVE  Tunnelled(IntoTunnel(w, tunnel, f, packet, place, stale), w, f, tunnel, packet, place, stale)
<1> DEFINE seen == At(packet, place, tunnel) # {}
           a == Attachment(w, f, tunnel, place)
           r == IntoTunnel(w, tunnel, f, packet, place, stale)
           h == HeaderAt(packet, place, tunnel)
           no == Refused(w.mem.flows, f, tunnel, packet, place)
<1>1. tunnel \in Muxes
  BY DEF TunnelNames, Muxes
<1>2. r = IF ~Attached(w, f) /\ ~(seen /\ Checked(tunnel, packet, place))
          THEN Ended(w, "refused")
          ELSE IF tunnel = "gprs" THEN IntoGPRS(a, packet, place, stale)
          ELSE IF ~seen THEN Ended(a, "misread")
          ELSE IF tunnel = "vxlan" THEN IntoVxLan(a, place, h)
          ELSE IntoOpenFlow(a, place, h)
  BY DEF IntoTunnel, Attachment
<1>3. no <=> ~Attached(w, f) /\ ~(seen /\ Checked(tunnel, packet, place))
  BY AttachFound DEF Refused
<1>4. /\ a \in Walks /\ SameButMemory(a, w)
      /\ a.mem.stack = w.mem.stack /\ a.mem.tags = w.mem.tags /\ a.mem.mux = w.mem.mux
      /\ a.mem.flows = Stick(w.mem.flows, f) /\ a.mem.gtp = GTPAfter(w, f, tunnel, place)
  BY AttachedWalk DEF IsAttachment
<1>5. seen => h.a \in Nat
  BY HeaderFound DEF Headers
<1>6. "on" \in Ends /\ {"refused", "misread", "signalling"} \subseteq Ends
  BY DEF Ends
<1> HIDE DEF a, r, h, no
<1>7. CASE no
  <2>1. r = Ended(w, "refused")
    BY <1>2, <1>3, <1>7
  <2>2. /\ r \in Walks /\ r.end = "refused" /\ r.mem = w.mem /\ r.mux = w.mux /\ r.at = w.at
        /\ r.tag = w.tag /\ r.path = w.path /\ r.outer = w.outer /\ r.flow = w.flow
    BY <1>6, <2>1, EndedWalk
  <2>3. Tunnelled(r, w, f, tunnel, packet, place, stale)
    BY <1>7, <2>2 DEF Tunnelled, no
  <2> QED
    BY <2>3 DEF r
<1>8. CASE ~no /\ \E why \in Ends \ {"on"} : /\ r = Ended(a, why)
                                             /\ why = TunnelEnd(tunnel, packet, place, stale, a.mem.gtp)
  <2>1. PICK why \in Ends \ {"on"} : r = Ended(a, why)
                                 /\ why = TunnelEnd(tunnel, packet, place, stale, a.mem.gtp)
    BY <1>8
  <2>2. /\ r \in Walks /\ r.end = why /\ r.mem = a.mem /\ r.mux = a.mux /\ r.at = a.at
        /\ r.tag = a.tag /\ r.path = a.path /\ r.outer = a.outer /\ r.flow = a.flow
    BY <1>4, <2>1, EndedWalk
  <2>3. Tunnelled(r, w, f, tunnel, packet, place, stale)
    BY <1>4, <1>8, <2>1, <2>2 DEF Tunnelled, SameButMemory, no
  <2> QED
    BY <2>3 DEF r
<1>9. CASE ~no /\ tunnel # "vxlan" /\ r = Into(a, tunnel, place, TunnelKey(tunnel), TunnelSize(tunnel))
                /\ "on" = TunnelEnd(tunnel, packet, place, stale, a.mem.gtp)
  <2>1. TunnelKey(tunnel) \in Keys /\ TunnelSize(tunnel) \in Nat
    BY DEF TunnelKey, TunnelSize, Keys, Kinds
  <2>2. InTunnel(r, a, tunnel, place, TunnelKey(tunnel), TunnelSize(tunnel))
    BY <1>1, <1>4, <1>9, <2>1, IntoWalk
  <2>3. Tunnelled(r, w, f, tunnel, packet, place, stale)
    BY <1>4, <1>9, <2>2 DEF Tunnelled, InTunnel, SameButMemory, no
  <2> QED
    BY <2>3 DEF r
<1>10. CASE ~no /\ tunnel = "vxlan" /\ seen /\ r = IntoVxLan(a, place, h)
  <2> DEFINE u == Into(a, "vxlan", place, "0", 8)
  <2>1. "0" \in Keys /\ "vxlan" \in Muxes
    BY DEF Keys, Muxes
  <2>2. InTunnel(u, a, "vxlan", place, "0", 8)
    BY <1>4, <2>1, IntoWalk
  <2>3. r = [u EXCEPT !.tag = h.a]
    BY <1>10 DEF IntoVxLan
  <2> HIDE DEF u
  <2>4. u \in Walks
    BY <2>2 DEF InTunnel
  <2>5. /\ r \in Walks /\ r.tag = h.a /\ r.mem = u.mem /\ r.mux = u.mux /\ r.at = u.at
        /\ r.path = u.path /\ r.outer = u.outer /\ r.flow = u.flow /\ r.end = u.end
    BY <1>5, <1>10, <2>3, <2>4 DEF Walks
  <2>6. /\ TunnelKey(tunnel) = "0" /\ TunnelSize(tunnel) = 8
        /\ TunnelEnd(tunnel, packet, place, stale, a.mem.gtp) = "on"
    BY <1>10 DEF TunnelKey, TunnelSize, TunnelEnd
  <2>7. Tunnelled(r, w, f, tunnel, packet, place, stale)
    BY <1>4, <1>10, <2>2, <2>5, <2>6 DEF Tunnelled, InTunnel, SameButMemory, no, h
  <2> QED
    BY <2>7 DEF r
<1>11. CASE ~no /\ tunnel = "gprs"
  <2>1. r = IF TypeAt(packet, a.mem.gtp, stale) = 1 THEN Into(a, "gprs", place, "ip", 8)
            ELSE Ended(a, "signalling")
    BY <1>2, <1>3, <1>11 DEF IntoGPRS, TypeAt
  <2>2. /\ TunnelKey(tunnel) = "ip" /\ TunnelSize(tunnel) = 8
        /\ TunnelEnd(tunnel, packet, place, stale, a.mem.gtp) =
             IF TypeAt(packet, a.mem.gtp, stale) = 1 THEN "on" ELSE "signalling"
    BY <1>11 DEF TunnelKey, TunnelSize, TunnelEnd
  <2> QED
    BY <1>6, <1>8, <1>9, <1>11, <2>1, <2>2
<1>12. CASE ~no /\ tunnel = "of" /\ seen
  <2>1. r = IF h.a = 1 THEN Into(a, "of", place, "0", 18) ELSE Ended(a, "signalling")
    BY <1>2, <1>3, <1>12 DEF IntoOpenFlow
  <2>2. /\ TunnelKey(tunnel) = "0" /\ TunnelSize(tunnel) = 18
        /\ TunnelEnd(tunnel, packet, place, stale, a.mem.gtp) = IF h.a = 1 THEN "on" ELSE "signalling"
    BY <1>12 DEF TunnelKey, TunnelSize, TunnelEnd, h
  <2> QED
    BY <1>6, <1>8, <1>9, <1>12, <2>1, <2>2
<1>13. CASE ~no /\ tunnel # "gprs" /\ ~seen
  <2>1. r = Ended(a, "misread")
    BY <1>2, <1>3, <1>13
  <2>2. TunnelEnd(tunnel, packet, place, stale, a.mem.gtp) = "misread"
    BY <1>13 DEF TunnelEnd
  <2> QED
    BY <1>6, <1>8, <1>13, <2>1, <2>2
<1>14. CASE ~no /\ tunnel = "vxlan" /\ seen
  BY <1>2, <1>3, <1>10, <1>14
<1> QED
  BY <1>7, <1>11, <1>12, <1>13, <1>14 DEF TunnelNames

-----------------------------------------------------------------------------
(***************************************************************************)
(* To a flow                                                               *)
(***************************************************************************)

\* The table has neither the flow nor room for it.
NoRoom(w, m, f) == OfId(w.mem.flows, f) = {} /\ ~HasRoom(w, m)

\* The walk v is w with the flow f, that it has found or made.
HasFlow(v, w, f) ==
  /\ v \in Walks /\ SameButMemory(v, w)
  /\ v.mem.stack = w.mem.stack /\ v.mem.tags = w.mem.tags
  /\ v.mem.gtp = w.mem.gtp /\ v.mem.mux = w.mem.mux
  /\ OfId(w.mem.flows, f) # {} => v.mem.flows = w.mem.flows
  /\ OfId(w.mem.flows, f) = {} =>
       \E g \in Flows : /\ g.mux = f.mux /\ g.hash = f.hash
                        /\ v.mem.flows = w.mem.flows \cup {g}

\* The walk u is v with an outer flow.
HasOuter(u, v, f) ==
  /\ u \in Walks /\ u.mem = v.mem /\ u.outer = f
  /\ u.mux = v.mux /\ u.at = v.at /\ u.tag = v.tag /\ u.path = v.path
  /\ u.flow = v.flow /\ u.end = v.end

\* The walk r is v when it is over, at a flow or not.
Over(r, v, flow, why) ==
  /\ r \in Walks /\ r.mem = v.mem /\ r.flow = flow /\ r.end = why
  /\ r.mux = v.mux /\ r.at = v.at /\ r.tag = v.tag /\ r.path = v.path /\ r.outer = v.outer

\* The walk r is where w is after it was handed to a flow of layer m.
Flowed(r, w, m, h, packet, stale) ==
  LET f == FlowOf(w, m, h)
      place == w.at + h.size
  IN /\ NoRoom(w, m, f) => Over(r, w, w.flow, "no flow")
     /\ ~NoRoom(w, m, f) => \E v :
          /\ HasFlow(v, w, f)
          /\ Tunnels(w.mem.stack, m) = {} => Over(r, v, f, "flow")
          /\ Tunnels(w.mem.stack, m) # {} /\ place >= Length(packet) => Over(r, v, v.flow, "empty")
          /\ Tunnels(w.mem.stack, m) # {} /\ ~(place >= Length(packet)) =>
               \E u : /\ HasOuter(u, v, f)
                      /\ \A t \in TunnelNames : Tunnels(w.mem.stack, m) = {t} =>
                           Tunnelled(r, u, f, t, packet, place, stale)

\* The hash of a packet's flow is a number of its layer.
LEMMA FlowOfType ==
  ASSUME BitXorOfNumbers, NEW w \in Walks, NEW m \in Muxes, NEW h \in Headers
  PROVE  FlowOf(w, m, h) \in Ids /\ FlowOf(w, m, h).mux = m
<1> DEFINE ip == w.mem.mux[Down(m)]
           n == Hash(ip, h, w.tag)
<1>1. Down(m) \in Muxes
  BY DEF Down, Muxes
<1>2. ip \in Entries /\ w.tag \in Nat
  BY <1>1 DEF Walks, Memories
<1>3. ip.src \in Nat /\ ip.dst \in Nat
  BY <1>2 DEF Entries
<1>4. h.a \in Nat /\ h.b \in Nat /\ ProtocolNumber(h.kind) \in Nat
  BY DEF Headers, ProtocolNumber
<1>5. n = BitXor(BitXor(BitXor(BitXor(BitXor(ip.src, h.a), ProtocolNumber(h.kind)), ip.dst), h.b), w.tag)
  BY DEF Hash
<1> HIDE DEF ip, n
<1>6. BitXor(ip.src, h.a) \in Nat
  BY <1>3, <1>4 DEF BitXorOfNumbers
<1>7. BitXor(BitXor(ip.src, h.a), ProtocolNumber(h.kind)) \in Nat
  BY <1>4, <1>6 DEF BitXorOfNumbers
<1>8. BitXor(BitXor(BitXor(ip.src, h.a), ProtocolNumber(h.kind)), ip.dst) \in Nat
  BY <1>3, <1>7 DEF BitXorOfNumbers
<1>9. BitXor(BitXor(BitXor(BitXor(ip.src, h.a), ProtocolNumber(h.kind)), ip.dst), h.b) \in Nat
  BY <1>4, <1>8 DEF BitXorOfNumbers
<1>10. n \in Nat
  BY <1>2, <1>5, <1>9 DEF BitXorOfNumbers
<1>11. FlowOf(w, m, h) = [mux |-> m, hash |-> n]
  BY DEF FlowOf, ip, n
<1> QED
  BY <1>10, <1>11 DEF Ids

\* getFlow makes a flow of the layer with the hash that was looked for.
LEMMA MadeFlow ==
  ASSUME NEW w \in Walks, NEW m \in Muxes, NEW h \in Headers, h.kind \in {"udp", "tcp"},
         NEW f \in Ids, f.mux = m
  PROVE  /\ Made(w, m, h, f) \in Flows
         /\ Made(w, m, h, f).mux = f.mux /\ Made(w, m, h, f).hash = f.hash
<1> DEFINE ip == w.mem.mux[Down(m)]
           tuple == [src |-> ip.src, dst |-> ip.dst, sport |-> h.a, dport |-> h.b,
                     kind |-> h.kind, vni |-> w.tag]
<1>1. Down(m) \in Muxes
  BY DEF Down, Muxes
<1>2. ip \in Entries /\ w.tag \in Nat
  BY <1>1 DEF Walks, Memories
<1>3. tuple \in Tuples
  BY <1>2 DEF Entries, Headers, Tuples
<1>4. Made(w, m, h, f) = [mux |-> m, hash |-> f.hash, stuck |-> FALSE, tuple |-> tuple]
  BY DEF Made
<1> HIDE DEF tuple
<1> QED
  BY <1>3, <1>4 DEF Flows, Ids

\* The flow that is found, or made, is among the flows.
LEMMA FlowFound ==
  ASSUME NEW w \in Walks, NEW m \in Muxes, NEW h \in Headers, h.kind \in {"udp", "tcp"},
         NEW f \in Ids, f.mux = m
  PROVE  HasFlow(IF OfId(w.mem.flows, f) # {} THEN w
                 ELSE [w EXCEPT !.mem.flows = @ \cup {Made(w, m, h, f)}], w, f)
<1>1. CASE OfId(w.mem.flows, f) # {}
  <2>1. HasFlow(w, w, f)
    BY <1>1 DEF HasFlow, SameButMemory
  <2> QED
    BY <1>1, <2>1
<1>2. CASE OfId(w.mem.flows, f) = {}
  <2> DEFINE g == Made(w, m, h, f)
             F == w.mem.flows \cup {g}
             v == [w EXCEPT !.mem.flows = F]
  <2>1. g \in Flows /\ g.mux = f.mux /\ g.hash = f.hash
    BY MadeFlow
  <2>2. F \in SUBSET Flows
    BY <2>1 DEF Walks, Memories
  <2>3. WithFlows(v, w, F)
    <3> HIDE DEF F
    <3> QED
      BY <2>2, WithFlowsWalk
  <2>4. [w EXCEPT !.mem.flows = @ \cup {g}] = v
    OBVIOUS
  <2> HIDE DEF v, g
  <2>5. HasFlow(v, w, f)
    BY <1>2, <2>1, <2>3 DEF WithFlows, HasFlow
  <2> QED
    BY <1>2, <2>4, <2>5 DEF g
<1> QED
  BY <1>1, <1>2

\* All the ways processPacket of UDP and TCP may go, field by field.
LEMMA IntoFlowWalk ==
  ASSUME BitXorOfNumbers, NEW w \in Walks, w.end = "on", NEW m \in Muxes,
         NEW h \in Headers, h.kind \in {"udp", "tcp"},
         NEW packet, IsPacket(packet), NEW stale
  PROVE  Flowed(IntoFlow(w, m, h, packet, stale), w, m, h, packet, stale)
<1> DEFINE f == FlowOf(w, m, h)
           v == IF OfId(w.mem.flows, f) # {} THEN w
                ELSE [w EXCEPT !.mem.flows = @ \cup {Made(w, m, h, f)}]
           place == w.at + h.size
           r == IntoFlow(w, m, h, packet, stale)
           T == Tunnels(w.mem.stack, m)
           u == [v EXCEPT !.outer = f]
<1>1. f \in Ids /\ f \in FlowIds /\ f.mux = m
  BY FlowOfType DEF FlowIds
<1>2. r = IF NoRoom(w, m, f) THEN Ended(w, "no flow")
          ELSE IF T = {} THEN Ended([v EXCEPT !.flow = f], "flow")
          ELSE IF place >= Length(packet) THEN Ended(v, "empty")
          ELSE IntoTunnel(u, CHOOSE t \in T : TRUE, f, packet, place, stale)
  <2>1. Found(w, f) = OfId(w.mem.flows, f)
    BY AttachFound
  <2> HIDE DEF f
  <2>2. IntoFlow(w, m, h, packet, stale) =
          IF ~(Found(w, f) # {}) /\ ~HasRoom(w, m) THEN Ended(w, "no flow")
          ELSE IF T = {}
          THEN Ended([(IF Found(w, f) # {} THEN w ELSE [w EXCEPT !.mem.flows = @ \cup {Made(w, m, h, f)}])
                        EXCEPT !.flow = f], "flow")
          ELSE IF place >= Length(packet)
          THEN Ended(IF Found(w, f) # {} THEN w ELSE [w EXCEPT !.mem.flows = @ \cup {Made(w, m, h, f)}],
                     "empty")
          ELSE IntoTunnel([(IF Found(w, f) # {} THEN w ELSE [w EXCEPT !.mem.flows = @ \cup {Made(w, m, h, f)}])
                             EXCEPT !.outer = f],
                          CHOOSE t \in T : TRUE, f, packet, place, stale)
    BY DEF IntoFlow, f
  <2> QED
    BY <2>1, <2>2 DEF NoRoom
<1>3. HasFlow(v, w, f)
  <2> HIDE DEF f
  <2> QED
    BY <1>1, FlowFound
<1>4. place \in Nat /\ w.mem.stack \in Stacks
  BY DEF Walks, Memories, Headers
<1>5. {"no flow", "flow", "empty"} \subseteq Ends
  BY DEF Ends
<1> HIDE DEF f, v, r, place
<1>6. v \in Walks /\ v.end = "on"
  BY <1>3 DEF HasFlow, SameButMemory
<1>7. ASSUME NoRoom(w, m, f) PROVE Over(r, w, w.flow, "no flow")
  BY <1>2, <1>5, <1>7, EndedWalk DEF Over
<1>8. ASSUME ~NoRoom(w, m, f), T = {} PROVE Over(r, v, f, "flow")
  <2> DEFINE x == [v EXCEPT !.flow = f]
  <2>1. /\ x \in Walks /\ x.flow = f /\ x.mem = v.mem /\ x.mux = v.mux /\ x.at = v.at
        /\ x.tag = v.tag /\ x.path = v.path /\ x.outer = v.outer
    BY <1>1, <1>6 DEF Walks
  <2>2. r = Ended(x, "flow")
    BY <1>2, <1>8
  <2> HIDE DEF x
  <2> QED
    BY <1>5, <2>1, <2>2, EndedWalk DEF Over
<1>9. ASSUME ~NoRoom(w, m, f), T # {}, place >= Length(packet) PROVE Over(r, v, v.flow, "empty")
  <2>1. r = Ended(v, "empty")
    BY <1>2, <1>9
  <2> QED
    BY <1>5, <1>6, <2>1, EndedWalk DEF Over
<1>10. HasOuter(u, v, f)
  BY <1>1, <1>6 DEF Walks, HasOuter
<1>11. ASSUME ~NoRoom(w, m, f), T # {}, ~(place >= Length(packet)), NEW t \in TunnelNames, T = {t}
       PROVE  Tunnelled(r, u, f, t, packet, place, stale)
  <2>1. t = CHOOSE k \in T : TRUE
    BY <1>11
  <2>2. r = IntoTunnel(u, t, f, packet, place, stale)
    BY <1>2, <1>11, <2>1
  <2> HIDE DEF u
  <2>3. u \in Walks /\ u.end = "on"
    BY <1>6, <1>10 DEF HasOuter
  <2>4. Tunnelled(IntoTunnel(u, t, f, packet, place, stale), u, f, t, packet, place, stale)
    BY <1>4, <2>3, IntoTunnelWalk
  <2> QED
    BY <2>2, <2>4
<1> HIDE DEF u, T
<1>12. Flowed(r, w, m, h, packet, stale)
  BY <1>3, <1>7, <1>8, <1>9, <1>10, <1>11 DEF Flowed, f, place, T
<1> QED
  BY <1>12 DEF r

-----------------------------------------------------------------------------
(***************************************************************************)
(* To the next multiplexer                                                 *)
(***************************************************************************)

\* The walk r is where w is after the layer of multiplexer m has processed it.
Processed(r, w, m, packet, stale) ==
  LET kind == KindOf(w.mem.stack, m)
      h == HeaderAt(packet, w.at, kind)
      left == ProcessPacket(kind, w.mem.mux[m], packet, w.at, h)
  IN \E v : /\ WithMux(v, w, m, left.mux)
            /\ kind \in {"udp", "tcp"} => Flowed(r, v, m, h, packet, stale)
            /\ kind \notin {"udp", "tcp"} => Over(r, v, v.flow, left.end)

\* All the ways the processPacket of a multiplexer may go, field by field.
LEMMA ProcessWalk ==
  ASSUME BitXorOfNumbers, NEW w \in Walks, w.end = "on", NEW m \in Muxes,
         NEW packet, IsPacket(packet), NEW stale,
         At(packet, w.at, KindOf(w.mem.stack, m)) # {}
  PROVE  Processed(Process(w, m, packet, stale), w, m, packet, stale)
<1> DEFINE kind == KindOf(w.mem.stack, m)
           h == HeaderAt(packet, w.at, kind)
           left == ProcessPacket(kind, w.mem.mux[m], packet, w.at, h)
           v == [w EXCEPT !.mem.mux[m] = left.mux]
           r == Process(w, m, packet, stale)
<1>1. r = IF kind \in {"udp", "tcp"} THEN IntoFlow(v, m, h, packet, stale) ELSE Ended(v, left.end)
  BY DEF Process
<1>2. w.at \in Nat /\ w.mem.mux[m] \in Entries
  BY DEF Walks, Memories
<1> HIDE DEF kind
<1>3. h \in Headers /\ h.kind = kind
  BY HeaderFound DEF kind
<1> HIDE DEF h
<1>4. left.mux \in Entries /\ left.end \in {"on", "dropped"}
  BY <1>2, <1>3, ProcessPacketKeeps
<1> HIDE DEF left
<1>5. WithMux(v, w, m, left.mux)
  BY <1>4, WithMuxWalk
<1> HIDE DEF v, r
<1>6. v \in Walks /\ v.end = "on"
  BY <1>5 DEF WithMux, SameButMemory
<1>7. ASSUME kind \in {"udp", "tcp"} PROVE Flowed(r, v, m, h, packet, stale)
  <2>1. r = IntoFlow(v, m, h, packet, stale)
    BY <1>1, <1>7
  <2>2. h.kind \in {"udp", "tcp"}
    BY <1>3, <1>7
  <2>3. Flowed(IntoFlow(v, m, h, packet, stale), v, m, h, packet, stale)
    BY <1>3, <1>6, <2>2, IntoFlowWalk
  <2> QED
    BY <2>1, <2>3
<1>8. ASSUME kind \notin {"udp", "tcp"} PROVE Over(r, v, v.flow, left.end)
  <2>1. r = Ended(v, left.end) /\ left.end \in Ends
    BY <1>1, <1>4, <1>8 DEF Ends
  <2> QED
    BY <1>6, <2>1, EndedWalk DEF Over
<1>9. Processed(r, w, m, packet, stale)
  BY <1>5, <1>7, <1>8 DEF Processed, kind, h, left
<1> QED
  BY <1>9 DEF r

\* What is above the multiplexer of a walk, by the key that it has left there.
NextOf(w) == {u \in Up(w.mem.stack, w.mem.tags) : u[1] = w.mux /\ u[2] = w.mem.mux[w.mux].next}

\* The walk r is where w is after one forwardPacket.
Forwarded(r, w, packet, stale) ==
  LET m == (CHOOSE u \in NextOf(w) : TRUE)[3]
      kind == KindOf(w.mem.stack, m)
      at == w.at + w.mem.mux[w.mux].size
  IN /\ w.end # "on" => r = w
     /\ w.end = "on" /\ NextOf(w) = {} => Over(r, w, w.flow, "no layer")
     /\ w.end = "on" /\ NextOf(w) # {} => \E v :
          /\ IsMoved(v, w, m, at)
          /\ ~Checked(kind, packet, at) => Over(r, v, v.flow, "refused")
          /\ Checked(kind, packet, at) /\ At(packet, at, kind) = {} => Over(r, v, v.flow, "misread")
          /\ Checked(kind, packet, at) /\ At(packet, at, kind) # {} => Processed(r, v, m, packet, stale)

\* What is known of the next multiplexer.
LEMMA NextMux ==
  ASSUME NEW w \in Walks, NextOf(w) # {}, NEW m, m = (CHOOSE u \in NextOf(w) : TRUE)[3]
  PROVE  /\ m \in Muxes \ TunnelNames
         /\ KindOf(w.mem.stack, m) \in {"udp", "tcp"} => w.mux = Down(m) /\ w.mux \in Ips
         /\ w.mux \in Inside => m \in Inside
         /\ m \in Inside => Tunnels(w.mem.stack, m) = {}
         /\ m \in Ips \/ KindOf(w.mem.stack, m) \notin {"ip", "ip6"}
<1> DEFINE u == CHOOSE k \in NextOf(w) : TRUE
<1>1. w.mem.stack \in Stacks /\ w.mem.tags \in SUBSET {"vlan", "mpls"}
  BY DEF Walks, Memories
<1>2. u \in NextOf(w)
  OBVIOUS
<1> HIDE DEF u
<1>3. u \in Up(w.mem.stack, w.mem.tags) /\ u[1] = w.mux
  BY <1>2 DEF NextOf
<1>4. m = u[3]
  BY DEF u
<1>5. /\ u[1] \in Muxes /\ u[3] \in Muxes \ {"eth", "gprs", "vxlan", "of"}
      /\ KindOf(w.mem.stack, u[3]) \in {"udp", "tcp"} => u[1] = Down(u[3]) /\ u[1] \in Ips
      /\ u[1] \in Inside => u[3] \in Inside
      /\ u[3] \in Inside => Tunnels(w.mem.stack, u[3]) = {}
      /\ u[3] \in Ips \/ KindOf(w.mem.stack, u[3]) \notin {"ip", "ip6"}
  BY <1>1, <1>3, WiringOfStacks
<1>6. m \in Muxes \ TunnelNames
  BY <1>4, <1>5 DEF TunnelNames
<1> QED
  BY <1>3, <1>4, <1>5, <1>6

\* All the ways a forwardPacket may go, field by field.
LEMMA ForwardWalk ==
  ASSUME BitXorOfNumbers, NEW w \in Walks, NEW packet, IsPacket(packet), NEW stale
  PROVE  Forwarded(Forward(w, packet, stale), w, packet, stale)
<1> DEFINE next == NextOf(w)
           m == (CHOOSE u \in next : TRUE)[3]
           kind == KindOf(w.mem.stack, m)
           at == w.at + w.mem.mux[w.mux].size
           v == [w EXCEPT !.mux = m, !.at = at, !.path = Append(@, <<m, at>>)]
           r == Forward(w, packet, stale)
<1>1. r = IF w.end # "on" THEN w
          ELSE IF next = {} THEN Ended(w, "no layer")
          ELSE IF ~Checked(kind, packet, at) THEN Ended(v, "refused")
          ELSE IF At(packet, at, kind) = {} THEN Ended(v, "misread")
          ELSE Process(v, m, packet, stale)
  BY DEF Forward, NextOf
<1>2. at \in Nat
  <2>1. w.at \in Nat /\ w.mem.mux[w.mux] \in Entries
    BY DEF Walks, Memories
  <2>2. w.mem.mux[w.mux].size \in Nat
    BY <2>1, EntryOf
  <2> QED
    BY <2>1, <2>2
<1>3. {"no layer", "refused", "misread"} \subseteq Ends
  BY DEF Ends
<1>4. ASSUME w.end = "on", next = {} PROVE Over(r, w, w.flow, "no layer")
  <2>1. r = Ended(w, "no layer")
    BY <1>1, <1>4
  <2> HIDE DEF r
  <2> QED
    BY <1>3, <2>1, EndedWalk DEF Over
<1>5. ASSUME next # {} PROVE IsMoved(v, w, m, at)
  <2> DEFINE n == m
  <2>1. n \in Muxes
    BY <1>5, NextMux
  <2> HIDE DEF n
  <2>2. IsMoved([w EXCEPT !.mux = n, !.at = at, !.path = Append(@, <<n, at>>)], w, n, at)
    <3> HIDE DEF at
    <3> QED
      BY <1>2, <2>1, MovedWalk
  <2> QED
    BY <2>2 DEF n
<1> HIDE DEF next, m, at, v, r
<1>6. ASSUME w.end = "on", next # {}
      PROVE  /\ IsMoved(v, w, m, at)
             /\ ~Checked(kind, packet, at) => Over(r, v, v.flow, "refused")
             /\ Checked(kind, packet, at) /\ At(packet, at, kind) = {} => Over(r, v, v.flow, "misread")
             /\ Checked(kind, packet, at) /\ At(packet, at, kind) # {} => Processed(r, v, m, packet, stale)
  <2>1. IsMoved(v, w, m, at)
    BY <1>5, <1>6
  <2>2. v \in Walks /\ v.end = "on" /\ v.at = at /\ v.mem = w.mem
    BY <1>6, <2>1 DEF IsMoved
  <2>3. ASSUME ~Checked(kind, packet, at) PROVE Over(r, v, v.flow, "refused")
    <3>1. r = Ended(v, "refused")
      BY <1>1, <1>6, <2>3
    <3> QED
      BY <1>3, <2>2, <3>1, EndedWalk DEF Over
  <2>4. ASSUME Checked(kind, packet, at), At(packet, at, kind) = {} PROVE Over(r, v, v.flow, "misread")
    <3>1. r = Ended(v, "misread")
      BY <1>1, <1>6, <2>4
    <3> QED
      BY <1>3, <2>2, <3>1, EndedWalk DEF Over
  <2>5. ASSUME Checked(kind, packet, at), At(packet, at, kind) # {} PROVE Processed(r, v, m, packet, stale)
    <3>1. r = Process(v, m, packet, stale)
      BY <1>1, <1>6, <2>5
    <3>2. m \in Muxes
      BY <1>6, NextMux DEF next, m
    <3>3. Processed(Process(v, m, packet, stale), v, m, packet, stale)
      BY <2>2, <2>5, <3>2, ProcessWalk
    <3> QED
      BY <3>1, <3>3
  <2> QED
    BY <2>1, <2>3, <2>4, <2>5
<1>7. w.end # "on" => r = w
  BY <1>1
<1>8. Forwarded(r, w, packet, stale)
  BY <1>4, <1>6, <1>7 DEF Forwarded, next, m, at
<1> QED
  BY <1>8 DEF r

-----------------------------------------------------------------------------
(***************************************************************************)
(* What a walk does to the stack                                           *)
(***************************************************************************)

TunnelStacks == {"mobile", "virtual", "oflow"}

\* What is always the same: all of ICMP, and the sizes of IP and Ethernet.
KeptMux(kind, entry) ==
  /\ kind \in {"icmp", "icmp6"} => entry = Entry("none", 8, 0, 0)
  /\ kind = "ip" => entry.size = 20
  /\ kind = "eth" => entry.size = 14

Kept(mem) == \A m \in Muxes : KeptMux(KindOf(mem.stack, m), mem.mux[m])

\* A walk with an outer flow is inside of the tunnel that begins there.
Placed(w) ==
  w.outer # NoFlow => /\ w.mem.stack \in TunnelStacks
                      /\ Tunnels(w.mem.stack, w.outer.mux) # {}
                      /\ w.end = "on" => w.mux \in Inside

\* From w to r.  The outer flow, and the place of the GTP header, are for good.
Goes(r, w) ==
  /\ r \in Walks /\ r.mem.stack = w.mem.stack /\ r.mem.tags = w.mem.tags
  /\ Grown(w.mem.flows, r.mem.flows)
  /\ Rooms(w.mem.stack, w.mem.flows) => Rooms(r.mem.stack, r.mem.flows)
  /\ Kept(w.mem) => Kept(r.mem)
  /\ Placed(r)
  /\ w.outer # NoFlow => r.outer = w.outer /\ r.mem.gtp = w.mem.gtp
  /\ r.end = "flow" /\ w.end # "flow" => r.flow \in Ids

\* Flows that stay as they are have grown.
LEMMA GrownReflexive == \A F : Grown(F, F)
BY DEF Grown

\* A walk that is over, with its flow or without one, has gone on from where it was.
LEMMA OverGoes ==
  ASSUME NEW w \in Walks, Placed(w), NEW r, NEW flow, NEW why, Over(r, w, flow, why), why # "on",
         why = "flow" => flow \in Ids
  PROVE  Goes(r, w)
BY GrownReflexive DEF Over, Goes, Placed, Kept

\* From one place to the next, and to the one after it.
LEMMA GoesOn ==
  ASSUME NEW w \in Walks, w.end # "flow", NEW v, v.end # "flow", NEW r, Goes(v, w), Goes(r, v)
  PROVE  Goes(r, w)
<1>1. Grown(w.mem.flows, r.mem.flows)
  BY GrownTransitive DEF Goes
<1> QED
  BY <1>1 DEF Goes

\* Into a tunnel: the flow of the tunnel is the outer flow from now on.
LEMMA TunnelGoes ==
  ASSUME NEW v \in Walks, NEW u, NEW f \in Ids, HasOuter(u, v, f), v.end = "on", v.outer = NoFlow,
         v.mem.stack \in TunnelStacks, Tunnels(v.mem.stack, f.mux) # {},
         NEW tunnel \in TunnelNames, NEW packet, NEW place, NEW stale,
         NEW r, Tunnelled(r, u, f, tunnel, packet, place, stale)
  PROVE  Goes(r, v)
<1>1. u \in Walks /\ u.mem = v.mem /\ u.outer = f /\ u.end = "on"
  BY DEF HasOuter
<1>2. r \in Walks /\ r.mem.stack = v.mem.stack /\ r.mem.tags = v.mem.tags /\ r.outer = f
  BY <1>1 DEF Tunnelled
<1>3. f # NoFlow
  BY DEF Ids, NoFlow, Muxes
<1>4. tunnel \in Inside
  BY DEF Inside, TunnelNames
<1>5. v.mem.flows \in SUBSET Flows /\ v.mem.stack \in Stacks
  BY DEF Walks, Memories
<1>6. r.mem.flows = v.mem.flows \/ r.mem.flows = Stick(v.mem.flows, f)
  BY <1>1 DEF Tunnelled
<1>7. /\ Grown(v.mem.flows, r.mem.flows)
      /\ Rooms(v.mem.stack, v.mem.flows) => Rooms(r.mem.stack, r.mem.flows)
  <2>1. CASE r.mem.flows = v.mem.flows
    BY <1>2, <2>1, GrownReflexive
  <2>2. CASE r.mem.flows = Stick(v.mem.flows, f)
    BY <1>2, <1>5, <2>2, Sticking
  <2> QED
    BY <1>6, <2>1, <2>2
<1>8. Placed(r)
  BY <1>2, <1>4 DEF Placed, Tunnelled
<1>9. Kept(v.mem) => Kept(r.mem)
  <2> SUFFICES ASSUME Kept(v.mem), NEW m \in Muxes
               PROVE  KeptMux(KindOf(r.mem.stack, m), r.mem.mux[m])
    BY DEF Kept
  <2>1. CASE m = tunnel
    <3>1. KindOf(r.mem.stack, m) = tunnel
      BY <2>1 DEF KindOf, TunnelNames
    <3> QED
      BY <3>1 DEF TunnelNames, KeptMux
  <2>2. CASE m # tunnel
    <3>1. r.mem.mux[m] = v.mem.mux[m]
      BY <1>1, <2>2 DEF Tunnelled
    <3> QED
      BY <1>2, <3>1 DEF Kept
  <2> QED
    BY <2>1, <2>2
<1>10. r.end # "flow"
  <2>1. TunnelEnd(tunnel, packet, place, stale, r.mem.gtp) # "flow"
    BY DEF TunnelEnd
  <2> QED
    BY <2>1 DEF Tunnelled
<1> QED
  BY <1>2, <1>7, <1>8, <1>9, <1>10 DEF Goes

\* A flow that is found, or made while there is room, keeps the flow table within its size.
LEMMA HasFlowGoes ==
  ASSUME NEW w \in Walks, w.end = "on", Placed(w), NEW m \in Muxes, NEW f \in Ids, f.mux = m,
         ~NoRoom(w, m, f), NEW v, HasFlow(v, w, f)
  PROVE  Goes(v, w) /\ Placed(v) /\ v \in Walks /\ v.end = "on" /\ v.outer = w.outer
         /\ OfId(v.mem.flows, f) # {}
<1>1. /\ v \in Walks /\ v.mem.stack = w.mem.stack /\ v.mem.tags = w.mem.tags
      /\ v.mem.gtp = w.mem.gtp /\ v.mem.mux = w.mem.mux
      /\ v.mux = w.mux /\ v.outer = w.outer /\ v.end = "on"
  BY DEF HasFlow, SameButMemory
<1>2. Placed(v)
  BY <1>1 DEF Placed
<1>3. Kept(w.mem) => Kept(v.mem)
  BY <1>1 DEF Kept
<1>4. w.mem.flows \in SUBSET Flows /\ w.mem.stack \in Stacks
  BY DEF Walks, Memories
<1>5. /\ Grown(w.mem.flows, v.mem.flows) /\ OfId(v.mem.flows, f) # {}
      /\ Rooms(w.mem.stack, w.mem.flows) => Rooms(v.mem.stack, v.mem.flows)
  <2>1. CASE OfId(w.mem.flows, f) # {}
    <3>1. v.mem.flows = w.mem.flows
      BY <2>1 DEF HasFlow
    <3> QED
      BY <1>1, <2>1, <3>1, GrownReflexive
  <2>2. CASE OfId(w.mem.flows, f) = {}
    <3>1. PICK g \in Flows : g.mux = f.mux /\ g.hash = f.hash /\ v.mem.flows = w.mem.flows \cup {g}
      BY <2>2 DEF HasFlow
    <3>2. Cardinality({k \in w.mem.flows : k.mux = g.mux}) < Capacity(w.mem.stack, g.mux, TcpFlows, UdpFlows)
      BY <2>2, <3>1 DEF NoRoom, HasRoom
    <3>3. g \in OfId(v.mem.flows, f)
      BY <3>1 DEF OfId
    <3> QED
      BY <1>1, <1>4, <3>1, <3>2, <3>3, Making
  <2> QED
    BY <2>1, <2>2
<1> QED
  BY <1>1, <1>2, <1>3, <1>5 DEF Goes

\* Through processPacket of UDP and TCP.
LEMMA FlowGoes ==
  ASSUME BitXorOfNumbers, NEW w \in Walks, w.end = "on", Placed(w), NEW m \in Muxes,
         w.outer # NoFlow => Tunnels(w.mem.stack, m) = {},
         NEW h \in Headers, NEW packet, NEW stale, NEW r, Flowed(r, w, m, h, packet, stale)
  PROVE  Goes(r, w)
<1> DEFINE f == FlowOf(w, m, h)
           place == w.at + h.size
<1>1. f \in Ids /\ f.mux = m
  BY FlowOfType
<1> HIDE DEF f
<1>2. CASE NoRoom(w, m, f)
  <2>1. Over(r, w, w.flow, "no flow")
    BY <1>2 DEF Flowed, f
  <2> QED
    BY <2>1, OverGoes
<1>3. CASE ~NoRoom(w, m, f)
  <2>1. PICK v :
          /\ HasFlow(v, w, f)
          /\ Tunnels(w.mem.stack, m) = {} => Over(r, v, f, "flow")
          /\ Tunnels(w.mem.stack, m) # {} /\ place >= Length(packet) => Over(r, v, v.flow, "empty")
          /\ Tunnels(w.mem.stack, m) # {} /\ ~(place >= Length(packet)) =>
               \E u : /\ HasOuter(u, v, f)
                      /\ \A t \in TunnelNames : Tunnels(w.mem.stack, m) = {t} =>
                           Tunnelled(r, u, f, t, packet, place, stale)
    BY <1>3 DEF Flowed, f
  <2>2. Goes(v, w) /\ Placed(v) /\ v \in Walks /\ v.end = "on" /\ v.outer = w.outer
    BY <1>1, <1>3, <2>1, HasFlowGoes
  <2> HIDE DEF place
  <2>3. Goes(r, v)
    <3>1. CASE Tunnels(w.mem.stack, m) = {}
      BY <1>1, <2>1, <2>2, <3>1, OverGoes
    <3>2. CASE Tunnels(w.mem.stack, m) # {} /\ place >= Length(packet)
      BY <2>1, <2>2, <3>2, OverGoes
    <3>3. CASE Tunnels(w.mem.stack, m) # {} /\ ~(place >= Length(packet))
      <4>1. PICK u : /\ HasOuter(u, v, f)
                     /\ \A t \in TunnelNames : Tunnels(w.mem.stack, m) = {t} =>
                          Tunnelled(r, u, f, t, packet, place, stale)
        BY <2>1, <3>3
      <4>2. w.mem.stack \in Stacks
        BY DEF Walks, Memories
      <4>3. PICK t \in TunnelNames : Tunnels(w.mem.stack, m) = {t} /\ w.mem.stack \in TunnelStacks
        BY <3>3, <4>2, TunnelsOfStacks DEF TunnelStacks
      <4>4. Tunnelled(r, u, f, t, packet, place, stale)
        BY <4>1, <4>3
      <4>5. v.outer = NoFlow /\ v.mem.stack \in TunnelStacks /\ Tunnels(v.mem.stack, f.mux) # {}
        BY <1>1, <2>1, <2>2, <3>3, <4>3 DEF HasFlow
      <4> QED
        BY <1>1, <2>2, <4>1, <4>4, <4>5, TunnelGoes
    <3> QED
      BY <3>1, <3>2, <3>3
  <2> QED
    BY <2>2, <2>3, GoesOn
<1> QED
  BY <1>2, <1>3

\* Through the processPacket of any layer: the sizes that are always the same stay so.
LEMMA ProcessedGoes ==
  ASSUME BitXorOfNumbers, NEW w \in Walks, w.end = "on", NEW m \in Muxes \ TunnelNames, w.mux = m, Placed(w),
         w.outer # NoFlow => Tunnels(w.mem.stack, m) = {},
         NEW packet, IsPacket(packet), At(packet, w.at, KindOf(w.mem.stack, m)) # {},
         NEW stale, NEW r, Processed(r, w, m, packet, stale)
  PROVE  Goes(r, w)
<1> DEFINE kind == KindOf(w.mem.stack, m)
           h == HeaderAt(packet, w.at, kind)
           left == ProcessPacket(kind, w.mem.mux[m], packet, w.at, h)
<1>1. w.at \in Nat /\ w.mem.mux[m] \in Entries
  BY DEF Walks, Memories
<1>2. PICK v : /\ WithMux(v, w, m, left.mux)
               /\ kind \in {"udp", "tcp"} => Flowed(r, v, m, h, packet, stale)
               /\ kind \notin {"udp", "tcp"} => Over(r, v, v.flow, left.end)
  BY DEF Processed
<1> HIDE DEF kind
<1>3. h \in Headers
  BY HeaderFound DEF kind
<1> HIDE DEF h
<1>4. /\ left.end \in {"on", "dropped"}
      /\ kind = "ip" => left.mux.size = w.mem.mux[m].size
      /\ kind = "eth" => left.mux.size = 14
      /\ kind \in {"icmp", "icmp6"} => left = Left(w.mem.mux[m], "on")
  BY <1>1, <1>3, ProcessPacketKeeps
<1> HIDE DEF left
<1>5. kind \in {"icmp", "icmp6"} => left.mux = w.mem.mux[m]
  BY <1>4 DEF Left
<1>6. /\ v \in Walks /\ SameButMemory(v, w)
      /\ v.mem.stack = w.mem.stack /\ v.mem.tags = w.mem.tags
      /\ v.mem.gtp = w.mem.gtp /\ v.mem.flows = w.mem.flows
      /\ v.mem.mux[m] = left.mux /\ \A n \in Muxes \ {m} : v.mem.mux[n] = w.mem.mux[n]
  BY <1>2 DEF WithMux
<1>7. v.end = "on" /\ v.outer = w.outer /\ v.mux = w.mux
  BY <1>6 DEF SameButMemory
<1>8. Placed(v)
  BY <1>6, <1>7 DEF Placed
<1>9. Kept(w.mem) => Kept(v.mem)
  <2> SUFFICES ASSUME Kept(w.mem), NEW n \in Muxes
               PROVE  KeptMux(KindOf(v.mem.stack, n), v.mem.mux[n])
    BY DEF Kept
  <2>1. CASE n = m
    BY <1>4, <1>5, <1>6, <2>1 DEF Kept, KeptMux, kind
  <2>2. CASE n # m
    BY <1>6, <2>2 DEF Kept
  <2> QED
    BY <2>1, <2>2
<1>10. Goes(v, w)
  BY <1>6, <1>7, <1>8, <1>9, GrownReflexive DEF Goes
<1>11. Goes(r, v)
  <2>1. CASE kind \in {"udp", "tcp"}
    <3>1. Flowed(r, v, m, h, packet, stale)
      BY <1>2, <2>1
    <3>2. v.outer # NoFlow => Tunnels(v.mem.stack, m) = {}
      BY <1>6, <1>7
    <3> QED
      BY <1>3, <1>6, <1>7, <1>8, <3>1, <3>2, FlowGoes
  <2>2. CASE kind \notin {"udp", "tcp"}
    <3>1. Over(r, v, v.flow, left.end) /\ left.end # "flow"
      BY <1>2, <1>4, <2>2
    <3>2. r.end # "flow" /\ Placed(r) /\ (Kept(v.mem) => Kept(r.mem))
      BY <1>7, <1>8, <3>1 DEF Over, Placed, Kept
    <3> QED
      BY <3>1, <3>2, GrownReflexive DEF Goes, Over
  <2> QED
    BY <2>1, <2>2
<1> QED
  BY <1>6, <1>7, <1>10, <1>11, GoesOn

\* Through a forwardPacket.
LEMMA ForwardGoes ==
  ASSUME BitXorOfNumbers, NEW w \in Walks, Placed(w), NEW packet, IsPacket(packet), NEW stale,
         NEW r, Forwarded(r, w, packet, stale)
  PROVE  Goes(r, w)
<1> DEFINE m == (CHOOSE u \in NextOf(w) : TRUE)[3]
           kind == KindOf(w.mem.stack, m)
           at == w.at + w.mem.mux[w.mux].size
<1>1. CASE w.end # "on"
  <2>1. r = w
    BY <1>1 DEF Forwarded
  <2> QED
    BY <2>1, GrownReflexive DEF Goes
<1>2. CASE w.end = "on" /\ NextOf(w) = {}
  <2>1. Over(r, w, w.flow, "no layer")
    BY <1>2 DEF Forwarded
  <2> QED
    BY <2>1, OverGoes
<1>3. CASE w.end = "on" /\ NextOf(w) # {}
  <2>1. PICK v :
          /\ IsMoved(v, w, m, at)
          /\ ~Checked(kind, packet, at) => Over(r, v, v.flow, "refused")
          /\ Checked(kind, packet, at) /\ At(packet, at, kind) = {} => Over(r, v, v.flow, "misread")
          /\ Checked(kind, packet, at) /\ At(packet, at, kind) # {} => Processed(r, v, m, packet, stale)
    BY <1>3 DEF Forwarded
  <2> HIDE DEF at
  <2>2. /\ m \in Muxes \ TunnelNames
        /\ w.mux \in Inside => m \in Inside
        /\ m \in Inside => Tunnels(w.mem.stack, m) = {}
    BY <1>3, NextMux
  <2> HIDE DEF m
  <2>3. /\ v \in Walks /\ v.mux = m /\ v.at = at /\ v.mem = w.mem
        /\ v.outer = w.outer /\ v.end = "on" /\ v.flow = w.flow
    BY <1>3, <2>1 DEF IsMoved
  <2>4. Placed(v)
    BY <1>3, <2>2, <2>3 DEF Placed
  <2>5. Goes(v, w)
    BY <1>3, <2>3, <2>4, GrownReflexive DEF Goes
  <2>6. CASE ~Checked(kind, packet, at) \/ At(packet, at, kind) = {}
    <3>1. Over(r, v, v.flow, "refused") \/ Over(r, v, v.flow, "misread")
      BY <2>1, <2>6
    <3>2. Goes(r, v)
      BY <2>3, <2>4, <3>1, OverGoes
    <3> QED
      BY <1>3, <2>3, <2>5, <3>2, GoesOn
  <2>7. CASE Checked(kind, packet, at) /\ At(packet, at, kind) # {}
    <3>1. Processed(r, v, m, packet, stale)
      BY <2>1, <2>7
    <3>2. At(packet, v.at, KindOf(v.mem.stack, m)) # {}
      BY <2>3, <2>7
    <3>3. v.outer # NoFlow => Tunnels(v.mem.stack, m) = {}
      BY <1>3, <2>2, <2>3 DEF Placed
    <3>4. Goes(r, v)
      BY <2>2, <2>3, <2>4, <3>1, <3>2, <3>3, ProcessedGoes
    <3> QED
      BY <1>3, <2>3, <2>5, <3>4, GoesOn
  <2> QED
    BY <2>6, <2>7
<1> QED
  BY <1>1, <1>2, <1>3

-----------------------------------------------------------------------------
(***************************************************************************)
(* A walk w, and a walk x that comes after it, through other multiplexers  *)
(***************************************************************************)

\* What the next forwardPacket reads is the same.
SameEntry(w, x) ==
  /\ x.mem.mux[w.mux].next = w.mem.mux[w.mux].next
  /\ x.mem.mux[w.mux].size = w.mem.mux[w.mux].size
  /\ w.mux \in Ips => /\ x.mem.mux[w.mux].src = w.mem.mux[w.mux].src
                      /\ x.mem.mux[w.mux].dst = w.mem.mux[w.mux].dst

\* The walk finds the flows and the GTP header as the memory F has them; inside
\* of a tunnel a flow of the layer below it may have been attached since.
Behind(x, F) ==
  /\ x.outer = NoFlow => x.mem.flows = F.flows
  /\ \A m \in Muxes \ {x.outer.mux} : OfLayer(x.mem.flows, m) = OfLayer(F.flows, m)
  /\ Grown(F.flows, x.mem.flows)
  /\ x.mem.gtp = F.gtp

SameStack(w, x) == x.mem.stack = w.mem.stack /\ x.mem.tags = w.mem.tags

Agree(w, x, F) ==
  /\ SameButMemory(x, w) /\ SameStack(w, x)
  /\ w.end = "on" => SameEntry(w, x) /\ Behind(x, F)

\* The memory F is what a walk that is at w leaves.
Precedes(w, F) ==
  /\ Grown(w.mem.flows, F.flows)
  /\ w.end # "on" => F = w.mem
  /\ w.outer # NoFlow => F.gtp = w.mem.gtp

\* What comes after a place comes after the one before it.
LEMMA GoesPrecedes ==
  ASSUME NEW w, NEW r, Goes(r, w), NEW F, Precedes(r, F), w.end # "on" => r = w
  PROVE  Precedes(w, F)
<1>1. Grown(w.mem.flows, F.flows)
  BY GrownTransitive DEF Goes, Precedes
<1> QED
  BY <1>1 DEF Goes, Precedes

\* Two walks that end for one reason where they agree, agree.
LEMMA OverAgrees ==
  ASSUME NEW v, NEW y, SameButMemory(y, v), SameStack(v, y), NEW F, NEW flow, NEW why, why # "on",
         NEW r, Over(r, v, flow, why), NEW s, Over(s, y, flow, why)
  PROVE  Agree(r, s, F)
BY DEF Over, Agree, SameButMemory, SameStack

\* Two walks agree after the tunnel: the second finds the flow attached already, if the
\* first attached it, and is not refused where the first was not.
LEMMA TunnelAgrees ==
  ASSUME NEW v \in Walks, NEW y \in Walks, SameButMemory(y, v), SameStack(v, y), v.end = "on",
         v.outer = NoFlow, NEW F, Behind(y, F), NEW f \in Ids,
         NEW u, HasOuter(u, v, f), NEW z, HasOuter(z, y, f),
         NEW tunnel \in TunnelNames, NEW packet, NEW place, NEW stale,
         NEW r, Tunnelled(r, u, f, tunnel, packet, place, stale), Precedes(r, F),
         NEW s, Tunnelled(s, z, f, tunnel, packet, place, stale)
  PROVE  Agree(r, s, F)
<1>1. /\ u \in Walks /\ u.mem = v.mem /\ u.outer = f /\ z \in Walks /\ z.mem = y.mem /\ z.outer = f
      /\ z.mux = u.mux /\ z.at = u.at /\ z.tag = u.tag /\ z.path = u.path /\ z.flow = u.flow
      /\ u.end = "on" /\ z.end = "on"
  BY DEF HasOuter, SameButMemory
<1>2. z.mem.flows = F.flows /\ z.mem.gtp = F.gtp
  BY <1>1 DEF Behind, SameButMemory
<1>3. f # NoFlow /\ tunnel \notin Ips
  BY DEF Ids, NoFlow, Muxes, TunnelNames, Ips
<1>4. u.mem.flows \in SUBSET Flows /\ z.mem.flows \in SUBSET Flows
  BY <1>1 DEF Walks, Memories
<1>5. SameStack(r, s)
  BY <1>1 DEF Tunnelled, SameStack
<1>6. r.outer = f /\ s.outer = f /\ s.path = r.path /\ s.flow = r.flow
  BY <1>1 DEF Tunnelled
<1>7. CASE Refused(u.mem.flows, f, tunnel, packet, place)
  <2>1. r.end = "refused" /\ r.mem = u.mem
    BY <1>7 DEF Tunnelled
  <2>2. z.mem.flows = u.mem.flows
    BY <1>2, <2>1 DEF Precedes
  <2>3. s.end = "refused"
    BY <1>7, <2>2 DEF Tunnelled
  <2>4. r.mux = u.mux /\ r.at = u.at /\ r.tag = u.tag /\ s.mux = z.mux /\ s.at = z.at /\ s.tag = z.tag
    BY <2>1, <2>3 DEF Tunnelled
  <2> QED
    BY <1>1, <1>5, <1>6, <2>1, <2>3, <2>4 DEF Agree, SameButMemory
<1>8. CASE ~Refused(u.mem.flows, f, tunnel, packet, place)
  <2>1. /\ r.mem.flows = Stick(u.mem.flows, f) /\ r.mem.gtp = GTPAfter(u, f, tunnel, place)
        /\ r.end = TunnelEnd(tunnel, packet, place, stale, r.mem.gtp)
    BY <1>8 DEF Tunnelled
  <2>2. Grown(u.mem.flows, F.flows)
    <3>1. Grown(u.mem.flows, r.mem.flows)
      BY <1>4, <2>1, Sticking
    <3> QED
      BY <3>1, GrownTransitive DEF Precedes
  <2>3. StuckIn(u.mem.flows, f) => StuckIn(z.mem.flows, f)
    BY <1>2, <2>2, GrownIds
  <2>4. ~Refused(z.mem.flows, f, tunnel, packet, place)
    BY <1>8, <2>3 DEF Refused
  <2>5. /\ s.mem.flows = Stick(z.mem.flows, f) /\ s.mem.gtp = GTPAfter(z, f, tunnel, place)
        /\ s.end = TunnelEnd(tunnel, packet, place, stale, s.mem.gtp)
    BY <2>4 DEF Tunnelled
  <2>6. F.gtp = r.mem.gtp
    BY <1>3, <1>6 DEF Precedes
  <2>7. s.mem.gtp = F.gtp
    BY <1>2, <2>1, <2>3, <2>5, <2>6 DEF GTPAfter
  <2>8. s.end = r.end
    BY <2>1, <2>5, <2>6, <2>7
  <2>9. Behind(s, F)
    <3>1. Grown(z.mem.flows, s.mem.flows)
      BY <1>4, <2>5, Sticking
    <3>2. \A m \in Muxes \ {f.mux} : OfLayer(s.mem.flows, m) = OfLayer(F.flows, m)
      BY <1>2, <1>4, <2>5, StuckElsewhere
    <3> QED
      BY <1>2, <1>3, <1>6, <2>7, <3>1, <3>2 DEF Behind
  <2>10. CASE r.end = "on"
    <3>1. /\ r.mux = tunnel /\ r.at = place
          /\ r.mem.mux[tunnel].next = TunnelKey(tunnel) /\ r.mem.mux[tunnel].size = TunnelSize(tunnel)
          /\ r.tag = IF tunnel = "vxlan" THEN HeaderAt(packet, place, tunnel).a ELSE u.tag
      BY <2>10 DEF Tunnelled
    <3>2. /\ s.mux = tunnel /\ s.at = place
          /\ s.mem.mux[tunnel].next = TunnelKey(tunnel) /\ s.mem.mux[tunnel].size = TunnelSize(tunnel)
          /\ s.tag = IF tunnel = "vxlan" THEN HeaderAt(packet, place, tunnel).a ELSE z.tag
      BY <2>8, <2>10 DEF Tunnelled
    <3>3. SameEntry(r, s)
      BY <1>3, <3>1, <3>2 DEF SameEntry
    <3>4. SameButMemory(s, r)
      BY <1>1, <1>6, <2>8, <3>1, <3>2 DEF SameButMemory
    <3> QED
      BY <1>5, <2>9, <3>3, <3>4 DEF Agree
  <2>11. CASE r.end # "on"
    <3>1. r.mux = u.mux /\ r.at = u.at /\ r.tag = u.tag /\ s.mux = z.mux /\ s.at = z.at /\ s.tag = z.tag
      BY <2>8, <2>11 DEF Tunnelled
    <3> QED
      BY <1>1, <1>5, <1>6, <2>8, <2>11, <3>1 DEF Agree, SameButMemory
  <2> QED
    BY <2>10, <2>11
<1> QED
  BY <1>7, <1>8

\* Two walks agree after the flow, if the first has found or made one: the second finds it.
LEMMA RoomAgrees ==
  ASSUME BitXorOfNumbers, NEW v \in Walks, NEW y \in Walks, SameButMemory(y, v), SameStack(v, y),
         v.end = "on", Placed(v), NEW m \in Muxes, v.outer # NoFlow => Tunnels(v.mem.stack, m) = {},
         y.mem.mux[Down(m)].src = v.mem.mux[Down(m)].src,
         y.mem.mux[Down(m)].dst = v.mem.mux[Down(m)].dst,
         NEW F, Behind(y, F), NEW h \in Headers, NEW packet, NEW stale,
         ~NoRoom(v, m, FlowOf(v, m, h)),
         NEW r, Flowed(r, v, m, h, packet, stale), Precedes(r, F),
         NEW s, Flowed(s, y, m, h, packet, stale)
  PROVE  Agree(r, s, F)
<1> DEFINE f == FlowOf(v, m, h)
           place == v.at + h.size
           T == Tunnels(v.mem.stack, m)
<1>1. f \in Ids /\ f.mux = m
  BY FlowOfType
<1>2. /\ y.tag = v.tag /\ y.at = v.at /\ y.flow = v.flow /\ y.end = "on" /\ y.outer = v.outer
      /\ y.mem.stack = v.mem.stack
  BY DEF SameButMemory, SameStack
<1>3. FlowOf(y, m, h) = f
  BY <1>2 DEF FlowOf, Hash
<1>4. Placed(y)
  BY <1>2 DEF Placed, SameButMemory
<1> HIDE DEF f
<1>5. ~NoRoom(v, m, f)
  BY DEF f
<1>6. PICK v1 :
        /\ HasFlow(v1, v, f)
        /\ T = {} => Over(r, v1, f, "flow")
        /\ T # {} /\ place >= Length(packet) => Over(r, v1, v1.flow, "empty")
        /\ T # {} /\ ~(place >= Length(packet)) =>
             \E u : /\ HasOuter(u, v1, f)
                    /\ \A t \in TunnelNames : T = {t} => Tunnelled(r, u, f, t, packet, place, stale)
  BY <1>5 DEF Flowed, f
<1>7. Goes(v1, v) /\ Placed(v1) /\ v1 \in Walks /\ v1.end = "on" /\ v1.outer = v.outer
       /\ OfId(v1.mem.flows, f) # {}
  BY <1>1, <1>5, <1>6, HasFlowGoes
<1>8. OfId(y.mem.flows, f) # {}
  <2>1. Goes(r, v1)
    <3>1. CASE T = {}
      BY <1>1, <1>6, <1>7, <3>1, OverGoes
    <3>2. CASE T # {} /\ place >= Length(packet)
      BY <1>6, <1>7, <3>2, OverGoes
    <3>3. CASE T # {} /\ ~(place >= Length(packet))
      <4>1. PICK u : /\ HasOuter(u, v1, f)
                     /\ \A t \in TunnelNames : T = {t} => Tunnelled(r, u, f, t, packet, place, stale)
        BY <1>6, <3>3
      <4>2. v.mem.stack \in Stacks /\ v1.mem.stack = v.mem.stack
        BY <1>6 DEF Walks, Memories, HasFlow
      <4>3. PICK t \in TunnelNames : T = {t} /\ v.mem.stack \in TunnelStacks
        BY <3>3, <4>2, TunnelsOfStacks DEF TunnelStacks
      <4>4. Tunnelled(r, u, f, t, packet, place, stale)
        BY <4>1, <4>3
      <4>5. v1.outer = NoFlow /\ v1.mem.stack \in TunnelStacks /\ Tunnels(v1.mem.stack, f.mux) # {}
        BY <1>1, <1>7, <3>3, <4>2, <4>3
      <4> QED
        BY <1>1, <1>7, <4>1, <4>4, <4>5, TunnelGoes
    <3> QED
      BY <3>1, <3>2, <3>3
  <2>2. Grown(v1.mem.flows, r.mem.flows)
    BY <2>1 DEF Goes
  <2>3. OfId(r.mem.flows, f) # {}
    BY <1>7, <2>2, GrownIds
  <2>4. Grown(r.mem.flows, F.flows)
    BY DEF Precedes
  <2>5. OfId(F.flows, f) # {}
    BY <2>3, <2>4, GrownIds
  <2>6. Grown(F.flows, y.mem.flows)
    BY DEF Behind
  <2> QED
    BY <2>5, <2>6, GrownIds
<1>9. ~NoRoom(y, m, f)
  BY <1>8 DEF NoRoom
<1>10. Tunnels(y.mem.stack, m) = T /\ y.at + h.size = place
  BY <1>2
<1>11. PICK y1 :
        /\ HasFlow(y1, y, f)
        /\ T = {} => Over(s, y1, f, "flow")
        /\ T # {} /\ place >= Length(packet) => Over(s, y1, y1.flow, "empty")
        /\ T # {} /\ ~(place >= Length(packet)) =>
             \E u : /\ HasOuter(u, y1, f)
                    /\ \A t \in TunnelNames : T = {t} => Tunnelled(s, u, f, t, packet, place, stale)
  <2> HIDE DEF place, T
  <2> QED
    BY <1>3, <1>9, <1>10 DEF Flowed
<1> HIDE DEF place
<1>12. y1 \in Walks /\ SameButMemory(y1, v1) /\ SameStack(v1, y1)
  BY <1>6, <1>11 DEF HasFlow, SameButMemory, SameStack
<1>13. Behind(y1, F)
  <2>1. y1.mem.flows = y.mem.flows /\ y1.mem.gtp = y.mem.gtp /\ y1.outer = y.outer
    BY <1>8, <1>11 DEF HasFlow, SameButMemory
  <2> QED
    BY <2>1 DEF Behind
<1>14. CASE T = {}
  BY <1>6, <1>11, <1>12, <1>14, OverAgrees
<1>15. CASE T # {} /\ place >= Length(packet)
  <2>1. y1.flow = v1.flow
    BY <1>12 DEF SameButMemory
  <2> QED
    BY <1>6, <1>11, <1>12, <1>15, <2>1, OverAgrees
<1>16. CASE T # {} /\ ~(place >= Length(packet))
  <2>1. PICK u : /\ HasOuter(u, v1, f)
                 /\ \A t \in TunnelNames : T = {t} => Tunnelled(r, u, f, t, packet, place, stale)
    BY <1>6, <1>16
  <2>2. PICK z : /\ HasOuter(z, y1, f)
                 /\ \A t \in TunnelNames : T = {t} => Tunnelled(s, z, f, t, packet, place, stale)
    BY <1>11, <1>16
  <2>3. v.mem.stack \in Stacks
    BY DEF Walks, Memories
  <2>4. PICK t \in TunnelNames : T = {t}
    BY <1>16, <2>3, TunnelsOfStacks
  <2>5. Tunnelled(r, u, f, t, packet, place, stale) /\ Tunnelled(s, z, f, t, packet, place, stale)
    BY <2>1, <2>2, <2>4
  <2>6. v1.outer = NoFlow
    BY <1>7, <1>16
  <2> HIDE DEF T
  <2> QED
    BY <1>1, <1>7, <1>12, <1>13, <2>1, <2>2, <2>5, <2>6, TunnelAgrees
<1> QED
  BY <1>14, <1>15, <1>16

\* Two walks agree where the flow table is full: it is so for the second, as the first
\* has attached no flow of this layer.
LEMMA NoRoomAgrees ==
  ASSUME NEW v \in Walks, NEW y \in Walks, SameButMemory(y, v), SameStack(v, y),
         Placed(v), NEW m \in Muxes, v.outer # NoFlow => Tunnels(v.mem.stack, m) = {},
         NEW F, Behind(y, F), NEW f \in Ids, f.mux = m, NoRoom(v, m, f),
         NEW r, Over(r, v, v.flow, "no flow"), Precedes(r, F)
  PROVE  NoRoom(y, m, f)
<1>1. F = v.mem
  BY DEF Over, Precedes
<1>2. y.outer = v.outer /\ y.mem.stack = v.mem.stack
  BY DEF SameButMemory, SameStack
<1>3. m # y.outer.mux
  <2>1. CASE v.outer = NoFlow
    <3>1. NoFlow.mux \notin Muxes
      BY DEF NoFlow, Muxes
    <3>2. y.outer.mux = NoFlow.mux
      BY <1>2, <2>1
    <3> QED
      BY <3>1, <3>2
  <2>2. CASE v.outer # NoFlow
    BY <1>2, <2>2 DEF Placed
  <2> QED
    BY <2>1, <2>2
<1>4. OfLayer(y.mem.flows, m) = OfLayer(v.mem.flows, m)
  BY <1>1, <1>3 DEF Behind
<1>5. OfId(y.mem.flows, f) = OfId(v.mem.flows, f)
  BY <1>4 DEF OfId, OfLayer
<1>6. HasRoom(y, m) = HasRoom(v, m)
  <2>1. HasRoom(y, m) = (Cardinality(OfLayer(y.mem.flows, m))
                           < Capacity(y.mem.stack, m, TcpFlows, UdpFlows))
    BY DEF HasRoom, OfLayer
  <2>2. HasRoom(v, m) = (Cardinality(OfLayer(v.mem.flows, m))
                           < Capacity(v.mem.stack, m, TcpFlows, UdpFlows))
    BY DEF HasRoom, OfLayer
  <2> QED
    BY <1>2, <1>4, <2>1, <2>2
<1> QED
  BY <1>5, <1>6 DEF NoRoom

\* Two walks agree after the flow.
LEMMA FlowAgrees ==
  ASSUME BitXorOfNumbers, NEW v \in Walks, NEW y \in Walks, SameButMemory(y, v), SameStack(v, y),
         v.end = "on", Placed(v), NEW m \in Muxes, v.outer # NoFlow => Tunnels(v.mem.stack, m) = {},
         y.mem.mux[Down(m)].src = v.mem.mux[Down(m)].src,
         y.mem.mux[Down(m)].dst = v.mem.mux[Down(m)].dst,
         NEW F, Behind(y, F), NEW h \in Headers, NEW packet, NEW stale,
         NEW r, Flowed(r, v, m, h, packet, stale), Precedes(r, F),
         NEW s, Flowed(s, y, m, h, packet, stale)
  PROVE  Agree(r, s, F)
<1> DEFINE f == FlowOf(v, m, h)
<1>1. f \in Ids /\ f.mux = m
  BY FlowOfType
<1>2. FlowOf(y, m, h) = f
  BY DEF FlowOf, Hash, SameButMemory
<1>3. CASE ~NoRoom(v, m, f)
  BY <1>3, RoomAgrees
<1>4. CASE NoRoom(v, m, f)
  <2>1. Over(r, v, v.flow, "no flow")
    BY <1>4 DEF Flowed
  <2> HIDE DEF f
  <2>2. NoRoom(y, m, f)
    BY <1>1, <1>4, <2>1, NoRoomAgrees
  <2>3. Over(s, y, y.flow, "no flow")
    BY <1>2, <2>2 DEF Flowed
  <2>4. y.flow = v.flow
    BY DEF SameButMemory
  <2> QED
    BY <2>1, <2>3, <2>4, OverAgrees
<1> QED
  BY <1>3, <1>4

\* The kinds of the multiplexers other than the tunnels.
LEMMA KindsOfMuxes ==
  ASSUME NEW s \in Stacks, NEW m \in Muxes \ TunnelNames
  PROVE  /\ KindOf(s, m) \in {"eth", "vlan", "mpls", "gre", "ip", "ip6", "icmp", "icmp6", "udp", "tcp"}
         /\ m \in Ips <=> KindOf(s, m) \in {"ip", "ip6"}
         /\ KindOf(s, m) \in {"udp", "tcp"} => Down(m) # m /\ Down(m) \in Muxes
BY DEF Stacks, Muxes, TunnelNames, KindOf, Ips, Down

\* Two multiplexers of one kind, as the stack keeps them, process a header alike.
LEMMA ProcessedAlike ==
  ASSUME NEW packet, IsPacket(packet), NEW place \in Nat, NEW h \in Headers,
         NEW kind \in {"eth", "vlan", "mpls", "gre", "ip", "ip6", "icmp", "icmp6", "udp", "tcp"},
         NEW m \in Entries, KeptMux(kind, m), NEW n \in Entries, KeptMux(kind, n),
         NEW x, x = ProcessPacket(kind, m, packet, place, h),
         NEW y, y = ProcessPacket(kind, n, packet, place, h)
  PROVE  Alike(kind, x, y)
<1>1. CASE kind \in {"udp", "tcp", "icmp", "icmp6"}
  <2>1. ProcessPacket(kind, m, packet, place, h) = Left(m, "on")
    BY <1>1, ProcessPacketKeeps
  <2>2. ProcessPacket(kind, n, packet, place, h) = Left(n, "on")
    BY <1>1, ProcessPacketKeeps
  <2>3. x.mux = m /\ x.end = "on" /\ y.mux = n /\ y.end = "on"
    BY <2>1, <2>2 DEF Left
  <2>4. kind \in {"icmp", "icmp6"} => m = n
    BY DEF KeptMux
  <2> QED
    BY <1>1, <2>3, <2>4 DEF Alike
<1>2. CASE kind \in {"eth", "vlan", "mpls", "gre", "ip", "ip6"}
  <2>1. kind = "ip" => m.size = n.size
    BY DEF KeptMux
  <2> QED
    BY <1>2, <2>1, ProcessPacketAgrees
<1> QED
  BY <1>1, <1>2

\* Two walks agree after the processPacket of a layer.
LEMMA ProcessedAgrees ==
  ASSUME BitXorOfNumbers, NEW w \in Walks, NEW x \in Walks, SameButMemory(x, w), SameStack(w, x),
         w.end = "on", NEW m \in Muxes \ TunnelNames, w.mux = m, Placed(w),
         w.outer # NoFlow => Tunnels(w.mem.stack, m) = {},
         Kept(w.mem), Kept(x.mem),
         KindOf(w.mem.stack, m) \in {"udp", "tcp"} =>
           /\ x.mem.mux[Down(m)].src = w.mem.mux[Down(m)].src
           /\ x.mem.mux[Down(m)].dst = w.mem.mux[Down(m)].dst,
         NEW packet, IsPacket(packet), At(packet, w.at, KindOf(w.mem.stack, m)) # {}, NEW stale,
         NEW F, Behind(x, F),
         NEW r, Processed(r, w, m, packet, stale), Precedes(r, F),
         NEW s, Processed(s, x, m, packet, stale)
  PROVE  Agree(r, s, F)
<1> DEFINE kind == KindOf(w.mem.stack, m)
           h == HeaderAt(packet, w.at, kind)
           left == ProcessPacket(kind, w.mem.mux[m], packet, w.at, h)
           right == ProcessPacket(kind, x.mem.mux[m], packet, w.at, h)
<1>1. /\ w.at \in Nat /\ w.mem.mux[m] \in Entries /\ x.mem.mux[m] \in Entries
      /\ w.mem.stack \in Stacks
  BY DEF Walks, Memories
<1>2. PICK v : /\ WithMux(v, w, m, left.mux)
               /\ kind \in {"udp", "tcp"} => Flowed(r, v, m, h, packet, stale)
               /\ kind \notin {"udp", "tcp"} => Over(r, v, v.flow, left.end)
  BY DEF Processed
<1>3. PICK y : /\ WithMux(y, x, m, right.mux)
               /\ kind \in {"udp", "tcp"} => Flowed(s, y, m, h, packet, stale)
               /\ kind \notin {"udp", "tcp"} => Over(s, y, y.flow, right.end)
  <2>1. x.at = w.at /\ x.mem.stack = w.mem.stack
    BY DEF SameButMemory, SameStack
  <2> QED
    BY <2>1 DEF Processed
<1>4. KeptMux(kind, w.mem.mux[m]) /\ KeptMux(kind, x.mem.mux[m])
  BY DEF Kept, SameStack
<1>5. /\ kind \in {"eth", "vlan", "mpls", "gre", "ip", "ip6", "icmp", "icmp6", "udp", "tcp"}
      /\ m \in Ips <=> kind \in {"ip", "ip6"}
      /\ kind \in {"udp", "tcp"} => Down(m) # m /\ Down(m) \in Muxes
  BY <1>1, KindsOfMuxes
<1> HIDE DEF kind
<1>6. h \in Headers
  BY HeaderFound DEF kind
<1> HIDE DEF h
<1>7. left = ProcessPacket(kind, w.mem.mux[m], packet, w.at, h)
  OBVIOUS
<1>8. right = ProcessPacket(kind, x.mem.mux[m], packet, w.at, h)
  OBVIOUS
<1> HIDE DEF left, right
<1>30. Alike(kind, left, right)
  BY <1>1, <1>4, <1>5, <1>6, <1>7, <1>8, ProcessedAlike
<1>9. /\ v \in Walks /\ SameButMemory(v, w) /\ v.mem.stack = w.mem.stack /\ v.mem.tags = w.mem.tags
      /\ v.mem.gtp = w.mem.gtp /\ v.mem.flows = w.mem.flows
      /\ v.mem.mux[m] = left.mux /\ \A n \in Muxes \ {m} : v.mem.mux[n] = w.mem.mux[n]
  BY <1>2 DEF WithMux
<1>10. /\ y \in Walks /\ SameButMemory(y, x) /\ y.mem.stack = x.mem.stack /\ y.mem.tags = x.mem.tags
       /\ y.mem.gtp = x.mem.gtp /\ y.mem.flows = x.mem.flows
       /\ y.mem.mux[m] = right.mux /\ \A n \in Muxes \ {m} : y.mem.mux[n] = x.mem.mux[n]
  BY <1>3 DEF WithMux
<1>11. SameButMemory(y, v) /\ SameStack(v, y) /\ Behind(y, F)
  BY <1>9, <1>10 DEF SameButMemory, SameStack, Behind
<1>12. v.end = "on" /\ v.mux = m /\ v.outer = w.outer /\ y.flow = v.flow
  BY <1>9, <1>11 DEF SameButMemory
<1>13. CASE kind \in {"udp", "tcp"}
  <2>1. /\ y.mem.mux[Down(m)].src = v.mem.mux[Down(m)].src
        /\ y.mem.mux[Down(m)].dst = v.mem.mux[Down(m)].dst
    BY <1>5, <1>9, <1>10, <1>13 DEF kind
  <2>2. Placed(v)
    BY <1>9, <1>12 DEF Placed
  <2>3. v.outer # NoFlow => Tunnels(v.mem.stack, m) = {}
    BY <1>9, <1>12
  <2>4. Flowed(r, v, m, h, packet, stale) /\ Flowed(s, y, m, h, packet, stale)
    BY <1>2, <1>3, <1>13
  <2> QED
    BY <1>6, <1>9, <1>10, <1>11, <1>12, <2>1, <2>2, <2>3, <2>4, FlowAgrees
<1>14. CASE kind \notin {"udp", "tcp"}
  <2>2. Over(r, v, v.flow, left.end) /\ Over(s, y, v.flow, left.end)
    BY <1>2, <1>3, <1>12, <1>14, <1>30 DEF Alike
  <2>3. CASE left.end # "on"
    BY <1>11, <2>2, <2>3, OverAgrees
  <2>4. CASE left.end = "on"
    <3>2. SameEntry(v, y)
      BY <1>5, <1>9, <1>10, <1>12, <1>14, <1>30, <2>4 DEF SameEntry, Alike
    <3>3. /\ r.mem = v.mem /\ s.mem = y.mem /\ r.mux = v.mux /\ s.outer = y.outer /\ SameButMemory(s, r)
      BY <1>11, <2>2 DEF Over, SameButMemory
    <3> QED
      BY <1>11, <3>2, <3>3 DEF Agree, SameEntry, SameStack, Behind
  <2> QED
    BY <2>3, <2>4
<1> QED
  BY <1>13, <1>14

\* Two walks that agree do so after one more forwardPacket.
LEMMA ForwardAgrees ==
  ASSUME BitXorOfNumbers, NEW w \in Walks, Placed(w), Kept(w.mem), NEW x \in Walks, Kept(x.mem),
         NEW F, Agree(w, x, F), NEW packet, IsPacket(packet), NEW stale,
         NEW r, Forwarded(r, w, packet, stale), Precedes(r, F),
         NEW s, Forwarded(s, x, packet, stale)
  PROVE  Agree(r, s, F)
<1> DEFINE m == (CHOOSE u \in NextOf(w) : TRUE)[3]
           kind == KindOf(w.mem.stack, m)
           at == w.at + w.mem.mux[w.mux].size
<1>1. SameButMemory(x, w) /\ SameStack(w, x) /\ x.end = w.end /\ x.flow = w.flow
  BY DEF Agree, SameButMemory
<1>2. CASE w.end # "on"
  <2>1. r = w /\ s = x
    BY <1>1, <1>2 DEF Forwarded
  <2> QED
    BY <2>1
<1>3. CASE w.end = "on"
  <2>1. SameEntry(w, x) /\ Behind(x, F)
    BY <1>3 DEF Agree
  <2>2. NextOf(x) = NextOf(w) /\ x.at + x.mem.mux[x.mux].size = at /\ x.mem.stack = w.mem.stack
    BY <1>1, <2>1 DEF NextOf, SameButMemory, SameStack, SameEntry
  <2>3. CASE NextOf(w) = {}
    <3>1. Over(r, w, w.flow, "no layer") /\ Over(s, x, w.flow, "no layer")
      BY <1>1, <1>3, <2>2, <2>3 DEF Forwarded
    <3> QED
      BY <1>1, <3>1, OverAgrees
  <2>4. CASE NextOf(w) # {}
    <3>1. PICK v :
            /\ IsMoved(v, w, m, at)
            /\ ~Checked(kind, packet, at) => Over(r, v, v.flow, "refused")
            /\ Checked(kind, packet, at) /\ At(packet, at, kind) = {} => Over(r, v, v.flow, "misread")
            /\ Checked(kind, packet, at) /\ At(packet, at, kind) # {} => Processed(r, v, m, packet, stale)
      BY <1>3, <2>4 DEF Forwarded
    <3>2. PICK y :
            /\ IsMoved(y, x, m, at)
            /\ ~Checked(kind, packet, at) => Over(s, y, y.flow, "refused")
            /\ Checked(kind, packet, at) /\ At(packet, at, kind) = {} => Over(s, y, y.flow, "misread")
            /\ Checked(kind, packet, at) /\ At(packet, at, kind) # {} => Processed(s, y, m, packet, stale)
      BY <1>1, <1>3, <2>2, <2>4 DEF Forwarded
    <3> HIDE DEF at
    <3>3. /\ m \in Muxes \ TunnelNames
          /\ kind \in {"udp", "tcp"} => w.mux = Down(m) /\ w.mux \in Ips
          /\ w.mux \in Inside => m \in Inside
          /\ m \in Inside => Tunnels(w.mem.stack, m) = {}
      BY <2>4, NextMux
    <3> HIDE DEF m
    <3>4. /\ v \in Walks /\ v.mux = m /\ v.at = at /\ v.mem = w.mem
          /\ v.outer = w.outer /\ v.end = "on" /\ v.flow = w.flow
      BY <1>3, <3>1 DEF IsMoved
    <3>5. y \in Walks /\ y.mem = x.mem /\ SameButMemory(y, v) /\ y.outer = x.outer
      BY <1>1, <3>1, <3>2 DEF IsMoved, SameButMemory
    <3>6. SameStack(v, y) /\ Behind(y, F) /\ y.flow = v.flow
      BY <1>1, <2>1, <3>4, <3>5 DEF SameStack, Behind, SameButMemory
    <3>7. CASE ~Checked(kind, packet, at)
      BY <3>1, <3>2, <3>5, <3>6, <3>7, OverAgrees
    <3>8. CASE Checked(kind, packet, at) /\ At(packet, at, kind) = {}
      BY <3>1, <3>2, <3>5, <3>6, <3>8, OverAgrees
    <3>9. CASE Checked(kind, packet, at) /\ At(packet, at, kind) # {}
      <4>1. Processed(r, v, m, packet, stale) /\ Processed(s, y, m, packet, stale)
        BY <3>1, <3>2, <3>9
      <4>2. Placed(v) /\ (v.outer # NoFlow => Tunnels(v.mem.stack, m) = {})
        BY <1>3, <3>3, <3>4 DEF Placed
      <4>3. KindOf(v.mem.stack, m) \in {"udp", "tcp"} =>
              /\ y.mem.mux[Down(m)].src = v.mem.mux[Down(m)].src
              /\ y.mem.mux[Down(m)].dst = v.mem.mux[Down(m)].dst
        BY <2>1, <3>3, <3>4, <3>5 DEF SameEntry
      <4>4. Kept(v.mem) /\ Kept(y.mem) /\ At(packet, v.at, KindOf(v.mem.stack, m)) # {}
        BY <3>4, <3>5, <3>9
      <4> HIDE DEF kind
      <4> QED
        BY <3>3, <3>4, <3>5, <3>6, <4>1, <4>2, <4>3, <4>4, ProcessedAgrees
    <3> QED
      BY <3>7, <3>8, <3>9
  <2> QED
    BY <2>3, <2>4
<1> QED
  BY <1>2, <1>3


-----------------------------------------------------------------------------
(***************************************************************************)
(* All of a walk                                                           *)
(***************************************************************************)

\* The places of a walk, one forwardPacket after the other.
Steps(w, mem, packet, stale) ==
  /\ w[0] = Start(mem, packet)
  /\ \A i \in 1 .. Depth : w[i] = Forward(w[i - 1], packet, stale)

\* The walk r is at its start.
Started(r, mem, packet) ==
  /\ r \in Walks /\ Placed(r) /\ Kept(r.mem)
  /\ r.mem.stack = mem.stack /\ r.mem.tags = mem.tags
  /\ r.mem.gtp = mem.gtp /\ r.mem.flows = mem.flows
  /\ r.mem.mux["eth"].next = packet[1].next /\ r.mem.mux["eth"].size = 14
  /\ r.mux = "eth" /\ r.at = 0 /\ r.tag = 0 /\ r.path = <<>>
  /\ r.outer = NoFlow /\ r.flow = NoFlow /\ r.end = "on"

\* A walk starts at Ethernet, whose size is set anew and whose key is the packet's.
LEMMA StartWalk ==
  ASSUME NEW mem \in Memories, Kept(mem), NEW packet, IsPacket(packet)
  PROVE  Started(Start(mem, packet), mem, packet)
<1> DEFINE old == mem.mux["eth"]
           e == Entry(packet[1].next, old.size, old.src, old.dst)
           n == [mem EXCEPT !.mux["eth"] = e]
           r == Start(mem, packet)
<1>1. old \in Entries /\ "eth" \in Muxes
  BY DEF Memories, Muxes
<1>2. packet[1] \in Headers
  BY DEF IsPacket
<1>3. e \in Entries /\ e.next = packet[1].next /\ e.size = old.size
  BY <1>1, <1>2 DEF Entries, Entry, Headers
<1>4. KindOf(mem.stack, "eth") = "eth"
  BY DEF KindOf
<1>5. old.size = 14
  BY <1>1, <1>4 DEF Kept, KeptMux
<1>6. r.mem = n
  BY DEF Start
<1> HIDE DEF e, old
<1>7. /\ n \in Memories /\ n.stack = mem.stack /\ n.tags = mem.tags /\ n.gtp = mem.gtp
      /\ n.flows = mem.flows /\ n.mux["eth"] = e
      /\ \A m \in Muxes \ {"eth"} : n.mux[m] = mem.mux[m]
  BY <1>1, <1>3 DEF Memories
<1> HIDE DEF n
<1>8. /\ r.mux = "eth" /\ r.at = 0 /\ r.tag = 0 /\ r.path = <<>>
      /\ r.outer = NoFlow /\ r.flow = NoFlow /\ r.end = "on"
  BY DEF Start
<1>9. r = [mem |-> n, mux |-> "eth", at |-> 0, tag |-> 0, path |-> <<>>,
           outer |-> NoFlow, flow |-> NoFlow, end |-> "on"]
  BY <1>6 DEF Start
<1>10. <<>> \in Seq(Muxes \X Nat) /\ NoFlow \in FlowIds /\ "on" \in Ends
  BY DEF FlowIds, Ends
<1>11. r \in Walks
  BY <1>1, <1>7, <1>9, <1>10 DEF Walks
<1>12. Kept(n)
  <2> SUFFICES ASSUME NEW m \in Muxes PROVE KeptMux(KindOf(n.stack, m), n.mux[m])
    BY DEF Kept
  <2>1. CASE m = "eth"
    BY <1>3, <1>4, <1>5, <1>7, <2>1 DEF KeptMux
  <2>2. CASE m # "eth"
    BY <1>7, <2>2 DEF Kept
  <2> QED
    BY <2>1, <2>2
<1>13. Placed(r)
  BY <1>8 DEF Placed
<1>14. Started(r, mem, packet)
  <2> HIDE DEF r
  <2> QED
    BY <1>3, <1>5, <1>6, <1>7, <1>8, <1>11, <1>12, <1>13 DEF Started
<1> QED
  BY <1>14

\* A walk that is over stays where it is.
LEMMA ForwardedStays ==
  ASSUME NEW w, NEW packet, NEW stale, NEW r, Forwarded(r, w, packet, stale), w.end # "on"
  PROVE  r = w
BY DEF Forwarded

\* The recursive function of Walk, step by step.
LEMMA WalkSteps ==
  ASSUME BitXorOfNumbers, NEW mem \in Memories, Kept(mem), NEW packet, IsPacket(packet), NEW stale
  PROVE  \E w : /\ Steps(w, mem, packet, stale)
                /\ Walk(mem, packet, stale) =
                     IF Checked("eth", packet, 0) THEN w[Depth] ELSE Ended(w[0], "refused")
<1> DEFINE base == Start(mem, packet)
           V == {x \in Walks : Placed(x)}
           G == [n \in 0 .. Depth |-> V]
           step == [n \in 1 .. Depth |-> [x \in V |-> Forward(x, packet, stale)]]
           e(f) == [i \in 0 .. Depth |-> IF i = 0 THEN base ELSE Forward(f[i - 1], packet, stale)]
           w == CHOOSE f : f = e(f)
<1>1. base \in V
  BY StartWalk DEF Started
<1>2. \A x \in V : Forward(x, packet, stale) \in V
  <2> SUFFICES ASSUME NEW x \in V PROVE Forward(x, packet, stale) \in V
    OBVIOUS
  <2>1. Forwarded(Forward(x, packet, stale), x, packet, stale)
    BY ForwardWalk
  <2> QED
    BY <2>1, ForwardGoes DEF Goes
<1>3. Walk(mem, packet, stale) =
        IF Checked("eth", packet, 0) THEN w[Depth] ELSE Ended(w[0], "refused")
  BY DEF Walk
<1> HIDE DEF base, V
<1>4. PICK g : Iterates(g, Depth, G, base, step)
  <2>1. Depth \in Nat /\ base \in G[0]
    BY <1>1 DEF Depth
  <2>2. \A n \in 1 .. Depth : \A x \in G[n - 1] : step[n][x] \in G[n]
    <3> SUFFICES ASSUME NEW n \in 1 .. Depth, NEW x \in G[n - 1] PROVE step[n][x] \in G[n]
      OBVIOUS
    <3>1. n - 1 \in 0 .. Depth /\ n \in 0 .. Depth
      BY DEF Depth
    <3>2. G[n - 1] = V /\ G[n] = V
      BY <3>1
    <3> QED
      BY <1>2, <3>2
  <2> HIDE DEF G, step
  <2> QED
    BY <2>1, <2>2, Iteration
<1>5. \A n \in 1 .. Depth : g[n] = Forward(g[n - 1], packet, stale)
  <2> SUFFICES ASSUME NEW n \in 1 .. Depth PROVE g[n] = Forward(g[n - 1], packet, stale)
    OBVIOUS
  <2>1. n - 1 \in 0 .. Depth
    BY DEF Depth
  <2>2. g[n - 1] \in G[n - 1] /\ g[n] = step[n][g[n - 1]]
    <3> HIDE DEF G, step
    <3> QED
      BY <1>4, <2>1 DEF Iterates
  <2>3. g[n - 1] \in V
    BY <2>1, <2>2
  <2> QED
    BY <2>2, <2>3
<1>6. g[0] = base /\ g = [n \in 0 .. Depth |-> g[n]]
  BY <1>4 DEF Iterates
<1>7. g = e(g)
  <2>1. \A n \in 0 .. Depth : g[n] = IF n = 0 THEN base ELSE Forward(g[n - 1], packet, stale)
    BY <1>5, <1>6 DEF Depth
  <2> QED
    BY <1>6, <2>1
<1>8. w = e(w)
  <2> HIDE DEF e
  <2> QED
    BY <1>7
<1> HIDE DEF w
<1>9. Steps(w, mem, packet, stale)
  <2>1. 0 \in 0 .. Depth /\ \A i \in 1 .. Depth : i \in 0 .. Depth /\ i # 0
    BY DEF Depth
  <2>2. w[0] = base /\ \A i \in 1 .. Depth : w[i] = Forward(w[i - 1], packet, stale)
    BY <1>8, <2>1
  <2> QED
    BY <2>2 DEF Steps, base
<1> QED
  BY <1>3, <1>9

\* A walk keeps what each of its steps keeps.
LEMMA StepsGo ==
  ASSUME BitXorOfNumbers, NEW mem \in Memories, Kept(mem), Rooms(mem.stack, mem.flows),
         NEW packet, IsPacket(packet), NEW stale,
         NEW w, Steps(w, mem, packet, stale)
  PROVE  /\ \A i \in 0 .. Depth :
              /\ w[i] \in Walks /\ Placed(w[i]) /\ Kept(w[i].mem)
              /\ w[i].mem.stack = mem.stack /\ w[i].mem.tags = mem.tags
              /\ Rooms(mem.stack, w[i].mem.flows)
              /\ w[i].end = "flow" => w[i].flow \in Ids
         /\ \A i \in 1 .. Depth : /\ Forwarded(w[i], w[i - 1], packet, stale)
                                  /\ Goes(w[i], w[i - 1])
<1> DEFINE Good(x) == /\ x \in Walks /\ Placed(x) /\ Kept(x.mem)
                      /\ x.mem.stack = mem.stack /\ x.mem.tags = mem.tags
                      /\ Rooms(mem.stack, x.mem.flows)
                      /\ x.end = "flow" => x.flow \in Ids
           S == {i \in 0 .. Depth : Good(w[i])}
<1>1. Depth \in Nat
  BY DEF Depth
<1>2. Good(w[0])
  BY StartWalk DEF Started, Steps
<1>3. ASSUME NEW i \in 1 .. Depth, Good(w[i - 1])
      PROVE  Forwarded(w[i], w[i - 1], packet, stale) /\ Goes(w[i], w[i - 1]) /\ Good(w[i])
  <2>1. w[i] = Forward(w[i - 1], packet, stale)
    BY DEF Steps
  <2>2. Forwarded(w[i], w[i - 1], packet, stale)
    BY <1>3, <2>1, ForwardWalk
  <2>3. Goes(w[i], w[i - 1])
    BY <1>3, <2>2, ForwardGoes
  <2>4. w[i - 1].end = "flow" => w[i] = w[i - 1]
    BY <2>2, ForwardedStays
  <2> QED
    BY <1>3, <2>2, <2>3, <2>4 DEF Goes
<1> HIDE DEF Good
<1>4. 0 \in S /\ \A i \in 0 .. Depth - 1 : i \in S => i + 1 \in S
  <2>1. 0 \in S
    BY <1>1, <1>2
  <2>2. ASSUME NEW i \in 0 .. Depth - 1, i \in S PROVE i + 1 \in S
    <3>1. i + 1 \in 1 .. Depth /\ (i + 1) - 1 = i /\ Good(w[i])
      BY <1>1, <2>2
    <3>2. Good(w[i + 1])
      BY <1>3, <3>1
    <3> QED
      BY <3>1, <3>2
  <2> QED
    BY <2>1, <2>2
<1>5. 0 .. Depth \subseteq S
  <2> HIDE DEF S
  <2> QED
    BY <1>1, <1>4, IntervalInduction
<1>6. \A i \in 0 .. Depth : Good(w[i])
  BY <1>5
<1>7. \A i \in 1 .. Depth : Forwarded(w[i], w[i - 1], packet, stale) /\ Goes(w[i], w[i - 1])
  <2> SUFFICES ASSUME NEW i \in 1 .. Depth
               PROVE  Forwarded(w[i], w[i - 1], packet, stale) /\ Goes(w[i], w[i - 1])
    OBVIOUS
  <2>1. i - 1 \in 0 .. Depth
    BY <1>1
  <2> QED
    BY <1>3, <1>6, <2>1
<1> QED
  BY <1>6, <1>7 DEF Good

\* The memory X is what the walk w left, but for the multiplexers.
AfterWalk(X, w) ==
  /\ X \in Memories /\ Kept(X) /\ X.stack = w.mem.stack /\ X.tags = w.mem.tags
  /\ X.gtp = w.mem.gtp /\ X.flows = w.mem.flows

\* Seen from its end: the last memory of a walk comes after all of its places.
LEMMA StepsPrecede ==
  ASSUME BitXorOfNumbers, NEW mem \in Memories, Kept(mem), Rooms(mem.stack, mem.flows),
         NEW packet, IsPacket(packet), NEW stale,
         NEW w, Steps(w, mem, packet, stale)
  PROVE  \A i \in 0 .. Depth : Precedes(w[i], w[Depth].mem)
<1> DEFINE Good(x) == Precedes(x, w[Depth].mem)
           S == {i \in 0 .. Depth : Good(w[Depth - i])}
<1>1. Depth \in Nat /\ Depth - 0 = Depth
  BY DEF Depth
<1>2. Good(w[Depth])
  BY GrownReflexive DEF Precedes
<1>3. ASSUME NEW i \in 1 .. Depth, Good(w[i]) PROVE Good(w[i - 1])
  <2>1. Forwarded(w[i], w[i - 1], packet, stale) /\ Goes(w[i], w[i - 1])
    BY StepsGo
  <2>2. w[i - 1].end # "on" => w[i] = w[i - 1]
    BY <2>1, ForwardedStays
  <2> QED
    BY <1>3, <2>1, <2>2, GoesPrecedes
<1>4. 0 \in S /\ \A i \in 0 .. Depth - 1 : i \in S => i + 1 \in S
  <2>1. 0 \in S
    BY <1>1, <1>2
  <2>2. ASSUME NEW i \in 0 .. Depth - 1, i \in S PROVE i + 1 \in S
    <3>1. Depth - i \in 1 .. Depth /\ (Depth - i) - 1 = Depth - (i + 1) /\ Good(w[Depth - i])
      BY <1>1, <2>2
    <3>2. Good(w[(Depth - i) - 1])
      BY <1>3, <3>1
    <3>3. i + 1 \in 0 .. Depth
      BY <1>1
    <3> QED
      BY <3>1, <3>2, <3>3
  <2> QED
    BY <2>1, <2>2
<1>5. 0 .. Depth \subseteq S
  <2> HIDE DEF S
  <2> QED
    BY <1>1, <1>4, IntervalInduction
<1>6. ASSUME NEW i \in 0 .. Depth PROVE Good(w[i])
  <2>1. Depth - i \in 0 .. Depth /\ Depth - (Depth - i) = i
    BY <1>1
  <2> QED
    BY <1>5, <2>1
<1> QED
  BY <1>6 DEF Good

\* Two walks of a packet, the second after the first, through other multiplexers.
LEMMA StepsAgree ==
  ASSUME BitXorOfNumbers, NEW mem \in Memories, Kept(mem), Rooms(mem.stack, mem.flows),
         NEW packet, IsPacket(packet), NEW stale,
         NEW w, Steps(w, mem, packet, stale),
         NEW X, AfterWalk(X, w[Depth]),
         NEW x, Steps(x, X, packet, stale)
  PROVE  SameButMemory(x[Depth], w[Depth])
<1> DEFINE F == w[Depth].mem
           S == {i \in 0 .. Depth : Agree(w[i], x[i], F)}
<1>1. Depth \in Nat /\ Depth \in 0 .. Depth
  BY DEF Depth
<1>2. X \in Memories /\ Kept(X) /\ Rooms(X.stack, X.flows) /\ X.stack = mem.stack /\ X.tags = mem.tags
  BY <1>1, StepsGo DEF AfterWalk
<1>3. /\ \A i \in 0 .. Depth : w[i] \in Walks /\ Placed(w[i]) /\ Kept(w[i].mem)
      /\ \A i \in 1 .. Depth : Forwarded(w[i], w[i - 1], packet, stale)
  BY StepsGo
<1>4. /\ \A i \in 0 .. Depth : x[i] \in Walks /\ Kept(x[i].mem)
      /\ \A i \in 1 .. Depth : Forwarded(x[i], x[i - 1], packet, stale)
  BY <1>2, StepsGo
<1>5. \A i \in 0 .. Depth : Precedes(w[i], F)
  BY StepsPrecede
<1>6. X.gtp = F.gtp /\ X.flows = F.flows
  BY DEF AfterWalk
<1> HIDE DEF F
<1>7. 0 \in S
  <2>1. Started(w[0], mem, packet) /\ Started(x[0], X, packet)
    BY <1>2, StartWalk DEF Steps
  <2>2. "eth" \notin Ips
    BY DEF Ips
  <2>3. SameButMemory(x[0], w[0]) /\ SameStack(w[0], x[0])
    BY <1>2, <2>1 DEF Started, SameButMemory, SameStack
  <2>4. SameEntry(w[0], x[0])
    BY <2>1, <2>2 DEF Started, SameEntry
  <2>5. Behind(x[0], F)
    BY <1>6, <2>1, GrownReflexive DEF Started, Behind
  <2> QED
    BY <1>1, <2>3, <2>4, <2>5 DEF Agree
<1>8. ASSUME NEW i \in 0 .. Depth - 1, i \in S PROVE i + 1 \in S
  <2>1. i \in 0 .. Depth /\ i + 1 \in 0 .. Depth /\ i + 1 \in 1 .. Depth /\ (i + 1) - 1 = i
    BY <1>1
  <2>2. Agree(w[i], x[i], F)
    BY <1>8
  <2>3. Forwarded(w[i + 1], w[i], packet, stale) /\ Forwarded(x[i + 1], x[i], packet, stale)
    BY <1>3, <1>4, <2>1
  <2>4. /\ w[i] \in Walks /\ Placed(w[i]) /\ Kept(w[i].mem) /\ x[i] \in Walks /\ Kept(x[i].mem)
        /\ Precedes(w[i + 1], F)
    BY <1>3, <1>4, <1>5, <2>1
  <2>5. Agree(w[i + 1], x[i + 1], F)
    BY <2>2, <2>3, <2>4, ForwardAgrees
  <2> QED
    BY <2>1, <2>5
<1>9. Depth \in S
  <2> HIDE DEF S
  <2> QED
    BY <1>1, <1>7, <1>8, IntervalInduction
<1> QED
  BY <1>9 DEF Agree

-----------------------------------------------------------------------------
(***************************************************************************)
(* Every packet                                                            *)
(***************************************************************************)

\* What a walk leaves.
Walked(w, mem) ==
  /\ w \in Walks /\ Placed(w) /\ Kept(w.mem)
  /\ w.mem.stack = mem.stack /\ w.mem.tags = mem.tags
  /\ Rooms(mem.stack, w.mem.flows)
  /\ w.end = "flow" => w.flow \in Ids

\* forward_raw_packet keeps the memory within its types, and leaves an outer flow only
\* inside of a tunnel.
LEMMA WalkKeeps ==
  ASSUME BitXorOfNumbers, NEW mem \in Memories, Kept(mem), Rooms(mem.stack, mem.flows),
         NEW packet, IsPacket(packet), NEW stale
  PROVE  Walked(Walk(mem, packet, stale), mem)
<1>1. PICK w : /\ Steps(w, mem, packet, stale)
               /\ Walk(mem, packet, stale) =
                    IF Checked("eth", packet, 0) THEN w[Depth] ELSE Ended(w[0], "refused")
  BY WalkSteps
<1>2. \A i \in 0 .. Depth : Walked(w[i], mem)
  BY <1>1, StepsGo DEF Walked
<1>3. 0 \in 0 .. Depth /\ Depth \in 0 .. Depth /\ "refused" \in Ends
  BY DEF Depth, Ends
<1>4. Walked(Ended(w[0], "refused"), mem)
  <2>1. Walked(w[0], mem)
    BY <1>2, <1>3
  <2>2. w[0] \in Walks
    BY <2>1 DEF Walked
  <2>3. /\ Ended(w[0], "refused") \in Walks /\ Ended(w[0], "refused").end = "refused"
        /\ Ended(w[0], "refused").mem = w[0].mem /\ Ended(w[0], "refused").outer = w[0].outer
    BY <1>3, <2>2, EndedWalk
  <2> QED
    BY <2>1, <2>3 DEF Walked, Placed
<1> QED
  BY <1>1, <1>2, <1>3, <1>4

\* A packet goes the same way again through other multiplexers, whatever these keep.
LEMMA WalkAgrees ==
  ASSUME BitXorOfNumbers, NEW mem \in Memories, Kept(mem), Rooms(mem.stack, mem.flows),
         NEW packet, IsPacket(packet), NEW stale,
         NEW X, AfterWalk(X, Walk(mem, packet, stale))
  PROVE  SameButMemory(Walk(X, packet, stale), Walk(mem, packet, stale))
<1>1. PICK w : /\ Steps(w, mem, packet, stale)
               /\ Walk(mem, packet, stale) =
                    IF Checked("eth", packet, 0) THEN w[Depth] ELSE Ended(w[0], "refused")
  BY WalkSteps
<1>2. PICK x : /\ Steps(x, X, packet, stale)
               /\ Walk(X, packet, stale) =
                    IF Checked("eth", packet, 0) THEN x[Depth] ELSE Ended(x[0], "refused")
  BY WalkSteps DEF AfterWalk
<1>3. CASE Checked("eth", packet, 0)
  BY <1>1, <1>2, <1>3, StepsAgree
<1>4. CASE ~Checked("eth", packet, 0)
  <2>1. Walk(mem, packet, stale) = Ended(w[0], "refused") /\ Walk(X, packet, stale) = Ended(x[0], "refused")
    BY <1>1, <1>2, <1>4
  <2>2. X \in Memories /\ Kept(X)
    BY DEF AfterWalk
  <2>3. Started(w[0], mem, packet) /\ Started(x[0], X, packet)
    BY <1>1, <1>2, <2>2, StartWalk DEF Steps
  <2>4. w[0] \in Walks /\ x[0] \in Walks /\ SameButMemory(x[0], w[0])
    BY <2>3 DEF Started, SameButMemory
  <2>5. "refused" \in Ends
    BY DEF Ends
  <2>6. SameButMemory(Ended(x[0], "refused"), Ended(w[0], "refused"))
    BY <2>4, <2>5, EndedWalk DEF SameButMemory
  <2> QED
    BY <2>1, <2>6
<1> QED
  BY <1>3, <1>4

\* The inductive invariant: the memory is one that the walks keep.
WalkInv ==
  /\ Memory \in Memories /\ Kept(Memory) /\ Rooms(stack, flows)
  /\ labelled \subseteq Ids

\* The last packet went where multiplexers as constructed would have led it.
Retraced ==
  \A l \in lastPacket :
    LET w == Walk([Memory EXCEPT !.mux = AsConstructed], l.packet, l.stale)
    IN w.path = l.path /\ w.end = l.end /\ w.flow = l.flow

\* The constructors of the multiplexers make a memory that the walks keep.
LEMMA ConstructedKept ==
  ASSUME NEW s \in Stacks, NEW t \in SUBSET {"vlan", "mpls"}, NEW g \in Nat,
         NEW F \in SUBSET Flows
  PROVE  LET X == [stack |-> s, tags |-> t,
                   mux |-> [m \in Muxes |-> Entry("none", HeaderSize(KindOf(s, m)), 0, 0)],
                   gtp |-> g, flows |-> F]
         IN X \in Memories /\ Kept(X)
<1> DEFINE c == [m \in Muxes |-> Entry("none", HeaderSize(KindOf(s, m)), 0, 0)]
           X == [stack |-> s, tags |-> t, mux |-> c, gtp |-> g, flows |-> F]
<1>1. \A kind : HeaderSize(kind) \in Nat
  BY DEF HeaderSize
<1>2. "none" \in Keys
  BY DEF Keys
<1>3. \A m \in Muxes : Entry("none", HeaderSize(KindOf(s, m)), 0, 0) \in Entries
  BY <1>1, <1>2 DEF Entries, Entry
<1>4. \A m \in Muxes : KeptMux(KindOf(s, m), Entry("none", HeaderSize(KindOf(s, m)), 0, 0))
  <2> SUFFICES ASSUME NEW kind PROVE KeptMux(kind, Entry("none", HeaderSize(kind), 0, 0))
    OBVIOUS
  <2>1. /\ HeaderSize("icmp") = 8 /\ HeaderSize("icmp6") = 8 /\ HeaderSize("ip") = 20
        /\ HeaderSize("eth") = 14
    BY DEF HeaderSize
  <2>2. Entry("none", HeaderSize(kind), 0, 0).size = HeaderSize(kind)
    BY DEF Entry
  <2> QED
    BY <2>1, <2>2 DEF KeptMux
<1>5. c \in [Muxes -> Entries]
  BY <1>3
<1>6. \A m \in Muxes : c[m] = Entry("none", HeaderSize(KindOf(s, m)), 0, 0)
  OBVIOUS
<1> HIDE DEF c
<1>7. X \in Memories
  BY <1>5 DEF Memories
<1>8. X.stack = s /\ X.mux = c
  OBVIOUS
<1>9. Kept(X)
  BY <1>4, <1>6, <1>8 DEF Kept
<1> QED
  BY <1>7, <1>9 DEF c

\* A stack as constructed satisfies the invariant.
LEMMA WalkInvInit == WalkInit => WalkInv
<1> SUFFICES ASSUME WalkInit PROVE WalkInv
  OBVIOUS
<1>1. Memory \in Memories /\ Kept(Memory)
  <2>1. tags \in SUBSET {"vlan", "mpls"} /\ gtp \in Nat /\ flows \in SUBSET Flows /\ stack \in Stacks
    BY DEF WalkInit
  <2> QED
    BY <2>1, ConstructedKept DEF WalkInit, Memory, AsConstructed
<1>2. Rooms(stack, flows)
  <2>1. \A m \in Muxes : {g \in flows : g.mux = m} = {}
    BY DEF WalkInit
  <2>2. IsFiniteSet(flows) /\ Cardinality({}) = 0
    BY FS_EmptySet DEF WalkInit
  <2>3. stack \in Stacks /\ \A m \in Muxes : Capacity(stack, m, TcpFlows, UdpFlows) \in Nat
    BY CapacityType DEF WalkInit
  <2> QED
    BY <2>1, <2>2, <2>3 DEF Rooms
<1> QED
  BY <1>1, <1>2 DEF WalkInv, WalkInit

\* The memory is made of the variables.
LEMMA MemoryFields ==
  /\ Memory.stack = stack /\ Memory.tags = tags /\ Memory.mux = mux /\ Memory.gtp = gtp
  /\ Memory.flows = flows
  /\ Memory \in Memories <=>
       /\ stack \in Stacks /\ tags \in SUBSET {"vlan", "mpls"} /\ mux \in [Muxes -> Entries]
       /\ gtp \in Nat /\ flows \in SUBSET Flows
BY DEF Memory, Memories

\* What l says of a packet.
Tells(l, packet, stale, path, end, flow) ==
  l.packet = packet /\ l.stale = stale /\ l.path = path /\ l.end = end /\ l.flow = flow

\* What is written down of a packet is what its walk was.
LEMMA RecordOfPacket ==
  ASSUME NEW p, NEW z, NEW t, NEW e, NEW f, NEW v,
         NEW l \in {[packet |-> p, stale |-> z, path |-> t, end |-> e, flow |-> f, written |-> v]}
  PROVE  Tells(l, p, z, t, e, f)
BY DEF Tells

\* What a packet does to the invariant, and what is known of it afterwards.
LEMMA PacketKeeps ==
  ASSUME BitXorOfNumbers, WalkInv, NEW packet, IsPacket(packet), NEW wanted \in BOOLEAN, NEW stale,
         ForwardRawPacket(packet, wanted, stale)
  PROVE  WalkInv' /\ Retraced' /\ EvidenceKept'
<1> DEFINE w == Walk(Memory, packet, stale)
<1>1. /\ mux' = w.mem.mux /\ gtp' = w.mem.gtp /\ flows' = w.mem.flows
      /\ labelled' = LabelsAfter(w, wanted)
      /\ lastPacket' = {[packet |-> packet, stale |-> stale, path |-> w.path, end |-> w.end,
                         flow |-> w.flow, written |-> Written(w, labelled')]}
      /\ stack' = stack /\ tags' = tags
  BY DEF ForwardRawPacket
<1>2. Walked(w, Memory)
  BY WalkKeeps, MemoryFields DEF WalkInv
<1>3. \A X : AfterWalk(X, w) => SameButMemory(Walk(X, packet, stale), w)
  BY WalkAgrees, MemoryFields DEF WalkInv
<1> HIDE DEF w
<1>4. /\ w \in Walks /\ Placed(w) /\ Kept(w.mem) /\ w.mem \in Memories
      /\ w.mem.stack = stack /\ w.mem.tags = tags /\ Rooms(stack, w.mem.flows)
      /\ w.end = "flow" => w.flow \in Ids
      /\ w.outer # NoFlow => w.outer \in Ids
  BY <1>2, MemoryFields DEF Walked, Walks, FlowIds
<1>5. /\ stack' \in Stacks /\ tags' \in SUBSET {"vlan", "mpls"} /\ mux' \in [Muxes -> Entries]
      /\ gtp' \in Nat /\ flows' \in SUBSET Flows
  BY <1>1, <1>4 DEF Memories
<1>6. Memory' \in Memories /\ Memory'.stack = stack' /\ Memory'.mux = mux'
  BY <1>5 DEF Memory, Memories
<1>7. Kept(Memory')
  BY <1>1, <1>4, <1>6 DEF Kept
<1>8. LabelsAfter(w, wanted) \subseteq Ids
  BY <1>4 DEF LabelsAfter, WalkInv
<1>9. WalkInv'
  <2>1. Rooms(stack', flows')
    BY <1>1, <1>4
  <2> QED
    BY <1>1, <1>6, <1>7, <1>8, <2>1 DEF WalkInv
<1>10. Retraced'
  <2> DEFINE X == [Memory' EXCEPT !.mux = AsConstructed']
  <2> SUFFICES ASSUME NEW l \in lastPacket'
               PROVE  /\ Walk(X, l.packet, l.stale).path = l.path
                      /\ Walk(X, l.packet, l.stale).end = l.end
                      /\ Walk(X, l.packet, l.stale).flow = l.flow
    BY DEF Retraced
  <2>1. Tells(l, packet, stale, w.path, w.end, w.flow)
    <3>1. PICK v : lastPacket' = {[packet |-> packet, stale |-> stale, path |-> w.path, end |-> w.end,
                                   flow |-> w.flow, written |-> v]}
      BY <1>1
    <3>2. l \in {[packet |-> packet, stale |-> stale, path |-> w.path, end |-> w.end,
                  flow |-> w.flow, written |-> v]}
      BY <3>1
    <3> QED
      BY <3>2, RecordOfPacket
  <2>2. X = [stack |-> stack', tags |-> tags',
             mux |-> [m \in Muxes |-> Entry("none", HeaderSize(KindOf(stack', m)), 0, 0)],
             gtp |-> gtp', flows |-> flows']
    <3> DEFINE c == [m \in Muxes |-> Entry("none", HeaderSize(KindOf(stack', m)), 0, 0)]
    <3>1. AsConstructed' = c
      BY DEF AsConstructed
    <3>2. Memory' = [stack |-> stack', tags |-> tags', mux |-> mux', gtp |-> gtp', flows |-> flows']
      BY DEF Memory
    <3> HIDE DEF c
    <3>3. X = [[stack |-> stack', tags |-> tags', mux |-> mux', gtp |-> gtp', flows |-> flows']
                 EXCEPT !.mux = c]
      BY <3>1, <3>2
    <3> HIDE DEF X
    <3>4. X = [stack |-> stack', tags |-> tags', mux |-> c, gtp |-> gtp', flows |-> flows']
      BY <3>3
    <3> QED
      BY <3>4 DEF c
  <2> HIDE DEF X
  <2>3. X \in Memories /\ Kept(X)
    BY <1>5, <2>2, ConstructedKept
  <2>4. X.stack = stack' /\ X.tags = tags' /\ X.gtp = gtp' /\ X.flows = flows'
    BY <2>2
  <2>5. AfterWalk(X, w)
    BY <1>1, <1>4, <2>3, <2>4 DEF AfterWalk
  <2>6. SameButMemory(Walk(X, packet, stale), w)
    BY <1>3, <2>5
  <2> QED
    BY <2>1, <2>6 DEF SameButMemory, Tells
<1>11. EvidenceKept'
  <2> SUFFICES ASSUME w.flow \in labelled', stack # "oflow" PROVE Written(w, labelled')
    BY <1>1 DEF EvidenceKept
  <2>1. CASE w.outer = NoFlow \/ stack = "mobile"
    BY <2>1 DEF Written
  <2>2. CASE w.outer # NoFlow /\ stack # "mobile"
    <3>1. stack = "virtual"
      BY <1>4, <2>2 DEF Placed, TunnelStacks
    <3>2. w.outer \in labelled'
      BY <1>1, <2>2, <3>1 DEF LabelsAfter
    <3> QED
      BY <3>2 DEF Written
  <2> QED
    BY <2>1, <2>2
<1> QED
  BY <1>9, <1>10, <1>11

\* Every step keeps the invariant, and shows the two properties of the packet it brought.
LEMMA WalkInvNext ==
  ASSUME BitXorOfNumbers, WalkInv, Retraced, EvidenceKept, [WalkNext]_walkVars
  PROVE  WalkInv' /\ Retraced' /\ EvidenceKept'
<1>1. ASSUME NEW packet \in Packets[stack], NEW wanted \in BOOLEAN, NEW stale,
             ForwardRawPacket(packet, wanted, stale)
      PROVE  WalkInv' /\ Retraced' /\ EvidenceKept'
  <2>1. IsPacket(packet)
    BY NetworkStackAssumption, MemoryFields DEF WalkInv
  <2> QED
    BY <1>1, <2>1, PacketKeeps
<1>2. ASSUME NEW tag \in {"vlan", "mpls"}, EnableLinkLayerTagging(tag)
      PROVE  WalkInv' /\ Retraced' /\ EvidenceKept'
  <2>1. /\ tags' = tags \cup {tag} /\ lastPacket' = {} /\ stack' = stack /\ mux' = mux
        /\ gtp' = gtp /\ flows' = flows /\ labelled' = labelled
    BY <1>2 DEF EnableLinkLayerTagging
  <2>2. Retraced' /\ EvidenceKept'
    BY <2>1 DEF Retraced, EvidenceKept
  <2>3. /\ stack' \in Stacks /\ tags' \in SUBSET {"vlan", "mpls"} /\ mux' \in [Muxes -> Entries]
        /\ gtp' \in Nat /\ flows' \in SUBSET Flows
    BY <2>1, MemoryFields DEF WalkInv
  <2>4. Memory' \in Memories /\ Memory'.stack = stack' /\ Memory'.mux = mux'
    BY <2>3 DEF Memory, Memories
  <2>5. Kept(Memory')
    BY <2>1, <2>4, MemoryFields DEF WalkInv, Kept
  <2> QED
    BY <2>1, <2>2, <2>4, <2>5 DEF WalkInv
<1>3. CASE UNCHANGED walkVars
  <2>1. /\ stack' = stack /\ tags' = tags /\ mux' = mux /\ gtp' = gtp /\ flows' = flows
        /\ labelled' = labelled /\ lastPacket' = lastPacket
    BY <1>3 DEF walkVars
  <2>2. Memory' = Memory /\ AsConstructed' = AsConstructed
    BY <2>1 DEF Memory, AsConstructed
  <2>3. Retraced'
    BY <2>1, <2>2 DEF Retraced
  <2> QED
    BY <2>1, <2>2, <2>3 DEF WalkInv, EvidenceKept
<1> QED
  BY <1>1, <1>2, <1>3 DEF WalkNext

\* The invariant implies the types, the bounds of the flow tables among them.
LEMMA WalkTypes == WalkInv => WalkTypeOK
<1> SUFFICES ASSUME WalkInv PROVE WalkTypeOK
  OBVIOUS
<1>1. /\ stack \in Stacks /\ tags \in SUBSET {"vlan", "mpls"} /\ mux \in [Muxes -> Entries]
      /\ gtp \in Nat /\ flows \in SUBSET Flows /\ labelled \subseteq Ids
  BY MemoryFields DEF WalkInv
<1>2. \A f \in flows : f \in Flows /\ Cardinality({g \in flows : g.mux = f.mux})
                                        <= Capacity(stack, f.mux, TcpFlows, UdpFlows)
  BY <1>1 DEF WalkInv, Rooms, Flows
<1> QED
  BY <1>1, <1>2 DEF WalkTypeOK, Entries, Ids

\* For packets of any number and shape, in any order, with flow tables of any size and
\* through all five stacks: next_protocol_id_, header_size_ and the addresses that the
\* multiplexers keep from an earlier packet never change the way of a packet, if there
\* is room for its flow (Multiplexer.h, the processPacket of every layer).  And the
\* types: no flow table has more flows than it was given.
THEOREM NothingStaleAlways == ASSUME BitXorOfNumbers PROVE WalkSpec => []NothingStale
<1>1. WalkInit => WalkInv /\ Retraced /\ EvidenceKept
  BY WalkInvInit DEF WalkInit, Retraced, EvidenceKept
<1>2. WalkInv /\ Retraced /\ EvidenceKept /\ [WalkNext]_walkVars
        => WalkInv' /\ Retraced' /\ EvidenceKept'
  BY WalkInvNext
<1>3. WalkInv /\ Retraced => NothingStale
  BY WalkTypes DEF Retraced, NothingStale
<1> QED
  BY <1>1, <1>2, <1>3, PTL DEF WalkSpec

\* Under the same conditions the packets of a flow with evidence are written by the
\* dispatcher, through the tunnels of GPRS, VxLAN and GRE (PacketDispatcher.h,
\* setEvidences; not so for OpenFlow).
THEOREM EvidenceKeptOfStacks == ASSUME BitXorOfNumbers PROVE WalkSpec => []EvidenceKept
<1>1. WalkInit => WalkInv /\ Retraced /\ EvidenceKept
  BY WalkInvInit DEF WalkInit, Retraced, EvidenceKept
<1>2. WalkInv /\ Retraced /\ EvidenceKept /\ [WalkNext]_walkVars
        => WalkInv' /\ Retraced' /\ EvidenceKept'
  BY WalkInvNext
<1> QED
  BY <1>1, <1>2, PTL DEF WalkSpec
=============================================================================
