----------------------------- MODULE Interpreter -----------------------------
(***************************************************************************)
(* Interpreter: the shell in which a user gives commands while packets are *)
(* processed.  Its calls are operators from the state of the shell to the  *)
(* state they leave; PacketDispatcher composes them with the loop.         *)
(***************************************************************************)
EXTENDS Integers, FiniteSetsExt

CONSTANT MaxUserReads   \* bound: reads of the user's input are counted so far

ASSUME InterpreterAssumption == MaxUserReads \in Nat \ {0}

Lines == {"quit()", "yes", "command"}

Shell == [
  enabled  : BOOLEAN,            \* shell_enable_
  wantExit : BOOLEAN,            \* want_exit_
  open     : BOOLEAN,            \* user_input_
  reads    : 0 .. MaxUserReads]  \* the reads of user_input_ that wait for a line

Constructed == [enabled |-> FALSE, wantExit |-> FALSE, open |-> TRUE, reads |-> 0]

\* The descriptor is closed for good: only the constructor opens it.
Stop(s) == [s EXCEPT !.enabled = FALSE, !.open = FALSE, !.reads = 0]

SetShell(s, enable) ==
  IF enable = s.enabled THEN s
  ELSE IF enable THEN [s EXCEPT !.enabled = TRUE] ELSE Stop(s)

\* A read of the closed descriptor ends at once, in an error that is ignored.
ReadUserInput(s) ==
  IF s.enabled /\ s.open THEN [s EXCEPT !.reads = Min({@ + 1, MaxUserReads})] ELSE s

\* Mutant: an answer that is not yes leaves the question open.
HandleReadUserInputAsking(s, line) ==
  IF ~s.enabled THEN s
  ELSE IF s.wantExit THEN IF line = "yes" THEN Stop(s) ELSE s
  ELSE IF line = "quit()" THEN [s EXCEPT !.wantExit = TRUE]
  ELSE s

\* handle_read_user_input: quit() is to be confirmed by the next line.
HandleReadUserInput(s, line) ==
  IF ~s.enabled THEN s
  ELSE IF s.wantExit
  THEN IF line = "yes" THEN Stop(s) ELSE [s EXCEPT !.wantExit = FALSE]
  ELSE IF line = "quit()" THEN [s EXCEPT !.wantExit = TRUE]
  ELSE s

\* Only a line that is no part of the dialogue is executed.
IsExecuted(s, line) == s.enabled /\ ~s.wantExit /\ line # "quit()"

=============================================================================
