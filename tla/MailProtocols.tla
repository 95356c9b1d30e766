---------------------------- MODULE MailProtocols ----------------------------
(***************************************************************************)
(* SMTP, IMAP and POP: the commands of the client that name somebody.  A   *)
(* name whose domain is banned ends the inspection of the flow; its        *)
(* strings stay.  The other commands and the server's answers only count.  *)
(***************************************************************************)
EXTENDS AppInfos

CONSTANT MailProtocol     \* which of them this is

MailProtocolsAssumption ==
  /\ MailProtocol \in {"SMTP", "IMAP", "POP"}
  /\ Kinds = IF MailProtocol = "SMTP" THEN {"from", "to"} ELSE {"user"}

Login(x, k, n) ==
  IF n \in Banned THEN {[x EXCEPT !.i.banned = TRUE]} ELSE Attach(x, k, n)

\* handle_cmd_mail: an address without brackets or without a domain is an
\* anomaly and ends there, as if there was no command.
Mail(x, n) == Login(x, "from", n)

\* handle_cmd_rcpt: not looked up, and whatever stands there is attached.
Rcpt(x, n) == Attach(x, "to", n)

\* handle_cmd_login of IMAP: an anomaly does not stop it, the name is empty,
\* which is one of Names.
LoginIMAP(x, n) == Login(x, "user", n)

\* handle_cmd_user of POP, where an anomaly ends it.
User(x, n) == Login(x, "user", n)

\* processFlow of each, for a packet of the client with a command that names
\* somebody.
CommandSMTP(x, n) == Mail(x, n) \cup Rcpt(x, n)
CommandIMAP(x, n) == LoginIMAP(x, n)
CommandPOP(x, n) == User(x, n)

Command(x, n) ==
  CASE MailProtocol = "SMTP" -> CommandSMTP(x, n)
    [] MailProtocol = "IMAP" -> CommandIMAP(x, n)
    [] MailProtocol = "POP"  -> CommandPOP(x, n)

\* processFlow in common.  Other packets leave the info alone, and so does any
\* packet of a banned flow.
PacketMail(f) ==
  /\ ~crashed
  /\ GetInfo(f)
  /\ LET x == Before(f)
     IN Processed(f, IF x.i.banned THEN {x}
                     ELSE {x} \cup UNION {Command(x, n) : n \in Names})

\* setIsBanned from a script, for SMTP.
SetBannedMail(f, value) ==
  /\ MailProtocol = "SMTP" /\ ~crashed /\ HasInfo(f)
  /\ info' = [info EXCEPT ![flow[f]].banned = value]
  /\ UNCHANGED <<infos, flow, strs, crashed>>

\* releaseCache
ReleaseCacheMail == ReleaseCacheInto(ItsOwn)

NextMail ==
  \/ \E f \in Flows :
       PacketMail(f) \/ Crash(f) \/ EndFlow(f) \/ \E value \in BOOLEAN : SetBannedMail(f, value)
  \/ ReleaseCacheMail

SpecMail == Init /\ [][NextMail]_vars

-----------------------------------------------------------------------------

\* python_wrapper.cc:636, "Gets the user name of the POP session": the name is
\* that of the first command that gave one; neither a later command nor
\* another flow that shares it and ends takes it away.
FirstUserStays == [][KeepsFirst(Kinds)]_vars

=============================================================================
