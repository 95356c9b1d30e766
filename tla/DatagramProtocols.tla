-------------------------- MODULE DatagramProtocols --------------------------
(***************************************************************************)
(* DNS, SIP and SSDP: the messages over UDP whose names are attached to    *)
(* the flow.  Only SSDP looks at the mark of a banned info, and none of    *)
(* them sets it: a banned name is skipped.                                 *)
(***************************************************************************)
EXTENDS AppInfos

CONSTANT DatagramProtocol     \* which of them this is

DatagramProtocolsAssumption ==
  /\ DatagramProtocol \in {"DNS", "SIP", "SSDP"}
  /\ Kinds = CASE DatagramProtocol = "DNS" -> {"name"}
               [] DatagramProtocol = "SIP" -> {"uri", "via", "from", "to"}
               [] DatagramProtocol = "SSDP" -> {"host", "uri"}
  /\ DatagramProtocol = "SIP" => Banned = {}

-----------------------------------------------------------------------------
(***************************************************************************)
(* DNS: the first name that a flow asks for, or is answered about.         *)
(***************************************************************************)

\* Mutant: the flow takes the name of its last query.
QueryLast(x, n) ==
  IF n \in Banned THEN {x} ELSE AttachNew(x, "name", n, TRUE)

\* handle_standard_query
Query(x, n) == IF n \in Banned THEN {x} ELSE Attach(x, "name", n)

\* handle_standard_response: a flow with a name is matched by that name, one
\* without takes the name of the response.
Answer(x, n) == Attach(x, "name", n)

\* A message without questions or answers leaves the info alone.
MessageDNS(x) == {x} \cup UNION {Query(x, n) \cup Answer(x, n) : n \in Names}

-----------------------------------------------------------------------------
(***************************************************************************)
(* SIP: the URI, Via, From and To, looked for one after the other.         *)
(***************************************************************************)

\* extract_uri_value of a request: the info gets the new URI, and each hit is
\* counted, those of the same info too.
UriSIP(x, n) == AttachNew(x, "uri", n, TRUE)

\* A field that the message may have or not.
Optional(states, k) == states \cup UNION {Attach(x, k, n) : x \in states, n \in Names}

MessageSIP(x) ==
  LET uri == {x} \cup UNION {UriSIP(x, n) : n \in Names}
  IN Optional(Optional(Optional(uri, "via"), "from"), "to")

-----------------------------------------------------------------------------
(***************************************************************************)
(* SSDP: the header of HTTP, of which the URI and the Host are looked at.  *)
(***************************************************************************)

\* extract_uri of a request; hits of a URI are not counted.
UriSSDP(x, n) == AttachNew(x, "uri", n, FALSE)

\* The field Host.  A banned one ends the header; the lines that would mark
\* the info and give its strings back are commented out.
HostSSDP(x, n) == IF n \in Banned THEN {x} ELSE Attach(x, "host", n)

\* A request or a response, with a Host or without.
RequestSSDP(x, host) ==
  LET with == {x} \cup UNION {UriSSDP(x, n) : n \in Names}
  IN IF host = None THEN with ELSE UNION {HostSSDP(y, host) : y \in with}

MessageSSDP(x) ==
  IF x.i.banned THEN {x} ELSE UNION {RequestSSDP(x, host) : host \in Names \cup {None}}

-----------------------------------------------------------------------------

Message(x) ==
  CASE DatagramProtocol = "DNS" -> MessageDNS(x)
    [] DatagramProtocol = "SIP" -> MessageSIP(x)
    [] DatagramProtocol = "SSDP" -> MessageSSDP(x)

\* processFlow of each.
PacketDatagram(f) ==
  /\ ~crashed
  /\ GetInfo(f)
  /\ Processed(f, Message(Before(f)))

\* releaseCache of each; that of SIP gives the string of Via to the cache of To.
ReleaseCacheDNS == DatagramProtocol = "DNS" /\ ReleaseCacheInto(ItsOwn)
ReleaseCacheSIP == DatagramProtocol = "SIP" /\ ReleaseCacheInto([ItsOwn EXCEPT !["via"] = "to"])
ReleaseCacheSSDP == DatagramProtocol = "SSDP" /\ ReleaseCacheInto(ItsOwn)

NextDatagram ==
  \/ \E f \in Flows : PacketDatagram(f) \/ Crash(f) \/ EndFlow(f)
  \/ ReleaseCacheDNS \/ ReleaseCacheSIP \/ ReleaseCacheSSDP

SpecDatagram == Init /\ [][NextDatagram]_vars

-----------------------------------------------------------------------------

\* The hits of a domain of DNS, or of a host of SSDP, are at least the flows
\* that have it.
HitsCoverNames == HitsCover(IF DatagramProtocol = "DNS" THEN "name" ELSE "host")

\* attach_dns_to_flow and the like are called for a flow without the string
\* only: a flow keeps its domain, a call the Via, From and To it began with, while
\* others ask, share their strings and end; the URI follows the last request.
FirstStays == [][KeepsFirst(Kinds \ {"uri", "host"})]_vars

\* test_dns.cc:76, "Test the ban functionality for avoid unwanted domains":
\* no flow has the name of a banned domain.
BannedNotAttachedDNS ==
  \A i \in Live : info[i].said["name"] \notin Banned

\* python_wrapper.cc:122, "Release the cache of a specific protocol given":
\* when it releases infos, the strings they have are free in their own caches.
StringsReturned ==
  [][Null \notin InVector(infos) /\ Null \in InVector(infos') =>
       \A i \in Live, k \in Kinds :
         StringOf(i, k) # None => StringOf(i, k) \in FreeObjects(strs'[k].pool)]_vars

=============================================================================
