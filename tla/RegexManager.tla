----------------------------- MODULE RegexManager -----------------------------
(***************************************************************************)
(* Regular expressions over the life of a flow.  A flow has a manager, a   *)
(* list of expressions of which the first that matches a payload counts,   *)
(* and the last expression that matched.  An expression may lead to a next *)
(* expression, or to another manager, for the payloads to come.  The       *)
(* manager comes with the protocol, or with an IP set that has the address *)
(* of the flow.  HTTP looks with the manager of the flow's domain.         *)
(***************************************************************************)
EXTENDS Naturals, Sequences, FiniteSets, SequencesExt

CONSTANTS
  RegexFlows,   \* flows, which share managers and expressions
  Regexes,
  Managers,
  IPSets,       \* the sets of the IPSetManager, in its order
  NoOne,        \* an empty pointer
  Setups,       \* the configurations a script may build (see Configured)
  MaxPayloads   \* bound: payloads of a flow

ASSUME RegexAssumption ==
  /\ IPSets \in Seq(Range(IPSets))
  /\ NoOne \notin Regexes \cup Managers \cup Range(IPSets)

VARIABLES
  conf,         \* the configuration, which stays
  flow,         \* of each flow, what the engine keeps
  path          \* history: the expressions that matched in each flow

regexVars == <<conf, flow, path>>

(* A configuration: default, the manager of the protocol; sigs, the        *)
(* signatures_ of each manager; next and nextMng of each expression;       *)
(* within, the flows whose address is in each set, and mng, the set's      *)
(* manager; host, the flows of HTTP, and hostMng, their domain's manager.  *)
Configured(c) ==
  /\ c.default \in Managers /\ c.hostMng \in Managers
  /\ c.sigs \in [Managers -> Seq(Regexes)]
  /\ c.next \in [Regexes -> Regexes \cup {NoOne}]
  /\ c.nextMng \in [Regexes -> Managers \cup {NoOne}]
  /\ c.within \in [Range(IPSets) -> SUBSET RegexFlows]
  /\ c.mng \in [Range(IPSets) -> Managers \cup {NoOne}]
  /\ c.host \subseteq RegexFlows

IsTerminal(r) == conf.next[r] = NoOne /\ conf.nextMng[r] = NoOne

\* Regex::evaluate: a payload is the set of the expressions that match it.
Matches(r, payload) == r \in payload

\* RegexManager::evaluate: the first expression of the list that matches.
Evaluate(m, payload) ==
  LET hits == {i \in DOMAIN conf.sigs[m] : Matches(conf.sigs[m][i], payload)}
  IN IF hits = {} THEN NoOne ELSE conf.sigs[m][Min(hits)]

\* IPSetManager::lookupIPAddress: the first set with the address.
MatchedSet(f) ==
  LET hits == {i \in DOMAIN IPSets : f \in conf.within[IPSets[i]]}
  IN IF hits = {} THEN NoOne ELSE IPSets[Min(hits)]

\* The first packet of a flow, before its payload is forwarded: the manager of
\* the matched set, if it has one, replaces that of the protocol.
StartManager(f) ==
  LET s == MatchedSet(f)
  IN IF s # NoOne /\ conf.mng[s] # NoOne THEN conf.mng[s] ELSE conf.default

FlowsInit ==
  /\ flow = [f \in RegexFlows |-> [packets |-> 0, mng |-> NoOne, regex |-> NoOne]]
  /\ path = [f \in RegexFlows |-> <<>>]

RegexInit == conf \in {c \in Setups : Configured(c)} /\ FlowsInit

\* The expression a payload of a flow matches, if any: the next one of the
\* last match, or one of the list `m` if the flow has none.
Matched(fl, m, payload) ==
  IF fl.regex = NoOne THEN Evaluate(m, payload)
  ELSE IF ~IsTerminal(fl.regex) /\ conf.next[fl.regex] \in payload
       THEN conf.next[fl.regex]
       ELSE NoOne

\* A bug for the runs: the flow keeps the expression with its next manager.
AfterMatchKept(fl, r) ==
  [fl EXCEPT !.regex = r, !.mng = IF conf.nextMng[r] = NoOne THEN @ ELSE conf.nextMng[r]]

\* What a match of r leaves in a flow: r, or the next manager and no expression.
AfterMatch(fl, r) ==
  IF conf.nextMng[r] = NoOne THEN [fl EXCEPT !.regex = r]
  ELSE [fl EXCEPT !.mng = conf.nextMng[r], !.regex = NoOne]

\* What fl is for the protocol above: with the manager of a first packet.
Received(f) ==
  [flow[f] EXCEPT !.packets = @ + 1,
                  !.mng = IF flow[f].packets = 0 THEN StartManager(f) ELSE @]

\* processFlow of the generic protocols looks with the flow's manager,
\* process_payloadl7 of HTTP with that of the domain the flow matched.
Payload(f, payload) ==
  /\ flow[f].packets < MaxPayloads
  /\ LET fl == Received(f)
         r == Matched(fl, IF f \in conf.host THEN conf.hostMng ELSE fl.mng, payload)
     IN IF r = NoOne
        THEN flow' = [flow EXCEPT ![f] = fl] /\ UNCHANGED path
        ELSE /\ flow' = [flow EXCEPT ![f] = AfterMatch(fl, r)]
             /\ path' = [path EXCEPT ![f] = Append(@, r)]
  /\ UNCHANGED conf

RegexNext == \E f \in RegexFlows, payload \in SUBSET Regexes : Payload(f, payload)

RegexSpec == RegexInit /\ [][RegexNext]_regexVars

-----------------------------------------------------------------------------
(***************************************************************************)
(* Safety                                                                  *)
(***************************************************************************)

\* The expressions that match in a flow are a chain of the configuration: the
\* first is of the manager the flow began with, each other one follows the one
\* before it, in the manager that one leads to, or as its next expression, and
\* nothing follows the end of a chain.  (Flows of HTTP: see HostChain.)
ChainFollowed ==
  \A f \in RegexFlows \ conf.host : \A i \in 1 .. Len(path[f]) :
    LET r == path[f][i]
        before == path[f][i - 1]
    IN IF i = 1 THEN r \in Range(conf.sigs[StartManager(f)])
       ELSE IF conf.nextMng[before] # NoOne
            THEN r \in Range(conf.sigs[conf.nextMng[before]])
            ELSE conf.next[before] = r

\* python_wrapper.cc:443, "Gets/Sets the next RegexManager for assign to the
\* flow when a match occurs.": in a flow of HTTP too.
HostChain ==
  \A f \in conf.host : \A i \in 2 .. Len(path[f]) :
    LET m == conf.nextMng[path[f][i - 1]]
    IN m # NoOne => path[f][i] \in Range(conf.sigs[m])

=============================================================================
