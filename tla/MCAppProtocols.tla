--------------------------- MODULE MCAppProtocols ---------------------------
(***************************************************************************)
(* The application protocols for TLC.  The infos and strings of one        *)
(* protocol are no business of another's, so a behaviour follows one of    *)
(* them, chosen at the beginning; each has pools small enough to run       *)
(* empty and, where it bans, a name that is banned.                        *)
(***************************************************************************)
EXTENDS Naturals, Sequences, FiniteSets, TLC

CONSTANTS
  Running,      \* the protocols of the run
  f1, f2, f3,   \* flows
  a, b,         \* names
  bad           \* a name that is banned where there are bans

VARIABLES protocol, infos, info, flow, strs, crashed, seen, brought

appvars == <<infos, info, flow, strs, crashed>>
sslvars == <<seen, brought>>
vars == <<protocol, appvars, sslvars>>

\* As many strings of each kind.
Sizes(kinds, n) == [k \in kinds |-> n]
HTTPKinds == {"host", "ua", "uri"}

\* HTTP without bans: two hosts and URIs; user agents are treated as hosts.
HTTP == INSTANCE HTTPProtocol WITH
  Flows <- {f1, f2}, InfoSize <- 2, Names <- {a, b}, Banned <- {}, MaxHits <- 3,
  Kinds <- HTTPKinds, Size <- [Sizes(HTTPKinds, 2) EXCEPT !["ua"] = 0],
  Scripts <- FALSE, MaxFields <- 1

\* HTTP with bans by name and by script, and one string of each kind.
HTTPBans == INSTANCE HTTPProtocol WITH
  Flows <- {f1, f2}, InfoSize <- 2, Names <- {a, bad}, Banned <- {bad}, MaxHits <- 2,
  Kinds <- HTTPKinds, Size <- [Sizes(HTTPKinds, 1) EXCEPT !["ua"] = 0],
  Scripts <- TRUE, MaxFields <- 2

SMTP == INSTANCE MailProtocols WITH
  Flows <- {f1, f2}, InfoSize <- 2, Names <- {a, bad}, Banned <- {bad}, MaxHits <- 2,
  Kinds <- {"from", "to"}, Size <- [Sizes({"from", "to"}, 2) EXCEPT !["from"] = 1],
  MailProtocol <- "SMTP"

IMAP == INSTANCE MailProtocols WITH
  Flows <- {f1, f2}, InfoSize <- 2, Names <- {a, b, bad}, Banned <- {bad}, MaxHits <- 3,
  Kinds <- {"user"}, Size <- Sizes({"user"}, 2), MailProtocol <- "IMAP"

POP == INSTANCE MailProtocols WITH
  Flows <- {f1, f2}, InfoSize <- 2, Names <- {a, b, bad}, Banned <- {bad}, MaxHits <- 3,
  Kinds <- {"user"}, Size <- Sizes({"user"}, 2), MailProtocol <- "POP"

\* SSL: a flow more than infos, which has to wait for one.
SSL == INSTANCE SSLProtocol WITH
  Flows <- {f1, f2, f3}, InfoSize <- 2, Names <- {a, b, bad}, Banned <- {bad},
  MaxHits <- 2, Kinds <- {"host"}, Size <- Sizes({"host"}, 2), MaxRecords <- 1

\* DNS: two strings for three names.
DNS == INSTANCE DatagramProtocols WITH
  Flows <- {f1, f2}, InfoSize <- 2, Names <- {a, b, bad}, Banned <- {bad}, MaxHits <- 3,
  Kinds <- {"name"}, Size <- Sizes({"name"}, 2), DatagramProtocol <- "DNS"

SSDP == INSTANCE DatagramProtocols WITH
  Flows <- {f1, f2}, InfoSize <- 2, Names <- {a, bad}, Banned <- {bad}, MaxHits <- 3,
  Kinds <- {"host", "uri"}, Size <- Sizes({"host", "uri"}, 1), DatagramProtocol <- "SSDP"

\* SIP: From, which is treated as To, has no strings.
SIPKinds == {"uri", "via", "from", "to"}
SIP == INSTANCE DatagramProtocols WITH
  Flows <- {f1, f2}, InfoSize <- 2, Names <- {a, b}, Banned <- {}, MaxHits <- 2,
  Kinds <- SIPKinds, Size <- [Sizes(SIPKinds, 1) EXCEPT !["from"] = 0, !["to"] = 2],
  DatagramProtocol <- "SIP"

ASSUME Assumptions ==
  /\ \A assumption \in {
       HTTP!AppInfosAssumption, HTTP!HTTPProtocolAssumption,
       HTTPBans!AppInfosAssumption, HTTPBans!HTTPProtocolAssumption,
       SMTP!AppInfosAssumption, SMTP!MailProtocolsAssumption,
       IMAP!AppInfosAssumption, IMAP!MailProtocolsAssumption,
       POP!AppInfosAssumption, POP!MailProtocolsAssumption,
       SSL!AppInfosAssumption, SSL!SSLProtocolAssumption,
       DNS!AppInfosAssumption, DNS!DatagramProtocolsAssumption,
       SSDP!AppInfosAssumption, SSDP!DatagramProtocolsAssumption,
       SIP!AppInfosAssumption, SIP!DatagramProtocolsAssumption} : assumption
  /\ Running \subseteq {"HTTP", "HTTPBans", "SMTP", "IMAP", "POP", "SSL", "DNS", "SSDP", "SIP"}

-----------------------------------------------------------------------------

Init ==
  /\ protocol \in Running
  /\ \/ protocol = "HTTP" /\ HTTP!Init
     \/ protocol = "HTTPBans" /\ HTTPBans!Init
     \/ protocol = "SMTP" /\ SMTP!Init
     \/ protocol = "IMAP" /\ IMAP!Init
     \/ protocol = "POP" /\ POP!Init
     \/ protocol = "SSL" /\ SSL!SSLInit
     \/ protocol = "DNS" /\ DNS!Init
     \/ protocol = "SSDP" /\ SSDP!Init
     \/ protocol = "SIP" /\ SIP!Init
  /\ protocol # "SSL" => seen = <<>> /\ brought = <<>>

Next ==
  /\ \/ protocol = "HTTP" /\ HTTP!NextHTTP
     \/ protocol = "HTTPBans" /\ HTTPBans!NextHTTP
     \/ protocol = "SMTP" /\ SMTP!NextMail
     \/ protocol = "IMAP" /\ IMAP!NextMail
     \/ protocol = "POP" /\ POP!NextMail
     \/ protocol = "SSL" /\ SSL!NextSSL
     \/ protocol = "DNS" /\ DNS!NextDatagram
     \/ protocol = "SSDP" /\ SSDP!NextDatagram
     \/ protocol = "SIP" /\ SIP!NextDatagram
  /\ protocol # "SSL" => UNCHANGED sslvars
  /\ UNCHANGED protocol

Spec == Init /\ [][Next]_vars

\* Only SSL has a third flow, and no name but bad is banned.
Symmetry == Permutations({f1, f2}) \cup Permutations({a, b})

-----------------------------------------------------------------------------
(***************************************************************************)
(* Each protocol's properties.                                             *)
(***************************************************************************)

\* The variables of each protocol have the values that its module gives them.
TypeOK ==
  CASE protocol = "HTTP" -> HTTP!TypeOK
    [] protocol = "HTTPBans" -> HTTPBans!TypeOK
    [] protocol = "SMTP" -> SMTP!TypeOK
    [] protocol = "IMAP" -> IMAP!TypeOK
    [] protocol = "POP" -> POP!TypeOK
    [] protocol = "SSL" -> SSL!TypeOK
    [] protocol = "DNS" -> DNS!TypeOK
    [] protocol = "SSDP" -> SSDP!TypeOK
    [] protocol = "SIP" -> SIP!TypeOK

\* The hits of a map's entry are at least the flows that have its string now:
\* attach_host and the like count each of them.
HitsCover ==
  /\ protocol = "HTTP" => HTTP!HitsCoverFields
  /\ protocol = "DNS" => DNS!HitsCoverNames
  /\ protocol = "SSDP" => SSDP!HitsCoverNames

\* No protocol's attach and release leave a string in a map and free, or in two
\* entries, or an entry with fewer hits than flows that have its string; HTTP with
\* bans does (NamesRightAfterBan).  (The state is of its type for all of them.)
MapSound ==
  /\ TypeOK /\ HitsCover
  /\ CASE protocol = "HTTP" -> HTTP!MapSound
       [] protocol = "SMTP" -> SMTP!MapSound
       [] protocol = "IMAP" -> IMAP!MapSound
       [] protocol = "POP" -> POP!MapSound
       [] protocol = "SSL" -> SSL!MapSound
       [] protocol = "DNS" -> DNS!MapSound
       [] protocol = "SSDP" -> SSDP!MapSound
       [] protocol = "SIP" -> SIP!MapSound
       [] OTHER -> TRUE

\* A flow shows the names that its own packets carried (getHostName and the
\* like of the infos), however flows share them, end and are released.
NamesRight ==
  CASE protocol = "HTTP" -> HTTP!NamesRight
    [] protocol = "SMTP" -> SMTP!NamesRight
    [] protocol = "IMAP" -> IMAP!NamesRight
    [] protocol = "POP" -> POP!NamesRight
    [] protocol = "SSL" -> SSL!NamesRight
    [] protocol = "DNS" -> DNS!NamesRight
    [] protocol = "SSDP" -> SSDP!NamesRight
    [] protocol = "SIP" -> SIP!NamesRight
    [] OTHER -> TRUE

\* A flow keeps the host, name, user or caller that it was first given
\* (attach_host, attach_from, attach_dns_to_flow...).
FirstStays ==
  [][/\ protocol = "HTTP" => HTTP!KeepsFirst({"host", "ua"})
     /\ protocol = "SMTP" => SMTP!KeepsFirst({"from", "to"})
     /\ protocol = "IMAP" => IMAP!KeepsFirst({"user"})
     /\ protocol = "POP" => POP!KeepsFirst({"user"})
     /\ protocol = "SSL" => SSL!KeepsFirst({"host"})
     /\ protocol = "DNS" => DNS!KeepsFirst({"name"})
     /\ protocol = "SIP" => SIP!KeepsFirst({"via", "from", "to"})]_vars

\* Bans hold.  HTTP (test_http.cc:605, "Verify that the flow dont have references
\* in order to save memory"): a banned flow never has a string again.  SSL:
\* handle_client_hello skips a banned name, and no other way or later packet
\* leads to it.
BansHold ==
  /\ protocol = "HTTPBans" => HTTPBans!BannedHoldsNothing
  /\ protocol = "SSL" => SSL!BannedNotAttached /\ SSL!NameFromHandshake

\* python_wrapper.cc:586, "Gets the HTTP Host of the flow if the flow is HTTP.":
\* the host and the URI of a flow are its own, also when other flows are banned.
NamesRightAfterBan == protocol = "HTTPBans" => HTTPBans!NamesRight

\* test_http.cc:1561, "Release items to their corresponding cache": after
\* releaseCache the next flow gets an info again.
NeverCrashed == ~crashed

=============================================================================
