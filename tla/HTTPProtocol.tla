---------------------------- MODULE HTTPProtocol ----------------------------
(***************************************************************************)
(* HTTP: the strings of requests and responses, banned flows, and the      *)
(* commands that reach them from scripts.  Which packets carry a header is *)
(* the matter of HTTPData; here any packet of a flow that is not banned    *)
(* may.                                                                    *)
(***************************************************************************)
EXTENDS AppInfos

CONSTANTS
  Scripts,      \* TRUE: a script uses the property banned of infos
  MaxFields     \* bound: fields of a header that the protocol looks at

HTTPProtocolAssumption ==
  /\ Kinds = {"host", "ua", "uri"}
  /\ Scripts \in BOOLEAN
  /\ MaxFields \in Nat

\* extract_uri of a request: the info gets the new URI; a hit is not counted.
UriHTTP(x, n) == AttachNew(x, "uri", n, FALSE)

\* The string of kind k of the info has a hit less.
Unhitted(y, k) ==
  IF HasString(y, k) THEN {[y EXCEPT !.s[k] = t] : t \in Unhit(y.s[k], y.i.str[k])} ELSE {y}

\* Mutant of ReleaseInfoCache: the info keeps its strings.
ReleaseInfoCacheKept(x) == {[x EXCEPT !.s = ReleaseStrings(x).s]}

\* release_http_info_cache: hits of the user agent and the URI go down, then
\* the strings of the info go back.
ReleaseInfoCache(x) ==
  {ReleaseStrings(z) : z \in UNION {Unhitted(y, "uri") : y \in Unhitted(x, "ua")}}

\* A field of the header: Host, which may end the flow's inspection and the
\* header's, or User-Agent.
HostHTTP(x, n) ==
  IF n \in Banned
  THEN ReleaseInfoCache([x EXCEPT !.i.banned = TRUE])
  ELSE Attach(x, "host", n)

Field(x, kind, n) ==
  IF x.i.banned THEN {x}
  ELSE IF kind = "host" THEN HostHTTP(x, n) ELSE Attach(x, "ua", n)

Fields == SeqOf({"host", "ua"} \X Names, MaxFields)

ParseHeader(states, fields) ==
  LET after[i \in 0 .. Len(fields)] ==
        IF i = 0 THEN states
        ELSE UNION {Field(x, fields[i][1], fields[i][2]) : x \in after[i - 1]}
  IN after[Len(fields)]

\* A request for a URI, or a response.
RequestHTTP(f, uri, fields) ==
  /\ ~InfoState(f).banned
  /\ Processed(f, ParseHeader(UriHTTP(Before(f), uri), fields))

ResponseHTTP(f, fields) ==
  /\ ~InfoState(f).banned
  /\ Processed(f, ParseHeader({Before(f)}, fields))

\* The first packet after a script banned the flow gives the strings back.
BannedPacket(f) ==
  /\ InfoState(f).banned /\ InfoState(f).release
  /\ Processed(f, {[x EXCEPT !.i.release = FALSE] : x \in ReleaseInfoCache(Before(f))})

PacketHTTP(f) ==
  /\ ~crashed
  /\ GetInfo(f)
  /\ \/ \E fields \in Fields : ResponseHTTP(f, fields) \/ \E uri \in Names : RequestHTTP(f, uri, fields)
     \/ BannedPacket(f)

\* setBanAndRelease from a script.
SetBannedHTTP(f, value) ==
  /\ Scripts /\ ~crashed /\ HasInfo(f)
  /\ info' = [info EXCEPT ![flow[f]].banned = value, ![flow[f]].release = value]
  /\ UNCHANGED <<infos, flow, strs, crashed>>

\* releaseCache
ReleaseCacheHTTP == ReleaseCacheInto(ItsOwn)

NextHTTP ==
  \/ \E f \in Flows :
       PacketHTTP(f) \/ Crash(f) \/ EndFlow(f) \/ \E value \in BOOLEAN : SetBannedHTTP(f, value)
  \/ ReleaseCacheHTTP

SpecHTTP == Init /\ [][NextHTTP]_vars

-----------------------------------------------------------------------------
(***************************************************************************)
(* Safety                                                                  *)
(***************************************************************************)

\* test_http.cc:605: "Verify that the flow dont have references in order to
\* save memory": once a banned flow has been told to let go of its strings it
\* never has one again.
BannedHoldsNothing ==
  \A i \in Live : info[i].banned /\ ~info[i].release =>
    \A k \in Kinds : StringOf(i, k) = None

\* Hosts and user agents are counted for each info that has them, whichever
\* flow brought them first; URIs are not.
HitsCoverFields == HitsCover("host") /\ HitsCover("ua")

\* Without bans a flow keeps the host and user agent of its first request.
FirstHostStays == [][KeepsFirst({"host", "ua"})]_vars

-----------------------------------------------------------------------------
(***************************************************************************)
(* What comments and tests of the program say                              *)
(***************************************************************************)

HitsOf(S, o) == {e.hits : e \in {d \in S.map : d.obj = o}}

\* HTTPProtocol.cc:144, of release_http_info_cache: "Removes or decrements the
\* hits of the maps": when a flow is banned the entry of each of its strings
\* has less hits or is gone.
HitsReleased ==
  [][\A f \in Flows, k \in Kinds :
       LET o == StringOf(flow[f], k) IN
       /\ HasInfo(f) /\ o # None /\ HitsOf(strs[k], o) # {}
       /\ ~info[flow[f]].banned /\ info'[flow[f]].banned /\ ~info'[flow[f]].release
       => \A h \in HitsOf(strs'[k], o), g \in HitsOf(strs[k], o) : h < g]_vars

=============================================================================
