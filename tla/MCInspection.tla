----------------------------- MODULE MCInspection -----------------------------
(***************************************************************************)
(* What looks at payloads and addresses, what answers a rejected flow, and *)
(* the program around it, for TLC.  The parts share nothing, so a behaviour*)
(* has one of them, chosen at the beginning, and their states add up.      *)
(***************************************************************************)
EXTENDS TLC, RegexManager, DomainNameManager, EvidenceManager, HTTPData, FrequencyGroup,
  LearnerEngine, TCPReject, Checksum, Main, FrequencyProtocol

VARIABLE part   \* the part that moves
Parts == {"regexes", "domains", "evidences", "http", "groups", "learner", "rejects", "checksums",
  "main", "frequencies"}

CONSTANTS a, b, c, m1, m2   \* three expressions and two managers

\* Every chain of the three expressions, also a cyclic one; two managers that
\* have one of them in common; two sets, with and without the flow's address
\* and a manager of their own; the flow is HTTP's or of a generic protocol.
MCSetups ==
  {[default |-> m1, hostMng |-> m1, sigs |-> (m1 :> <<a, b>> @@ m2 :> <<c, b>>),
    next |-> n, nextMng |-> (a :> x @@ b :> y @@ c :> NoOne),
    within |-> ("set1" :> s @@ "set2" :> t), mng |-> ("set1" :> z @@ "set2" :> m2), host |-> h] :
     n \in [{a, b, c} -> {a, b, c, NoOne}], x \in {m2, NoOne}, y \in {m1, NoOne},
     z \in {m2, NoOne}, s, t, h \in SUBSET RegexFlows}
OneSetup == CHOOSE s \in MCSetups : TRUE
OneOption == CHOOSE o \in Considered : TRUE
MCIPSets == <<"set1", "set2">>
MCKeyOf == <<1, 1>>

MCInit ==
  /\ part \in Parts
  /\ IF part = "regexes" THEN RegexInit ELSE conf = OneSetup /\ FlowsInit
  /\ DomainInit /\ EvidenceInit /\ HTTPInit /\ GroupInit /\ LearnerInit
  /\ RejectInit /\ (part # "rejects" => ~samePorts /\ ~ipv6)
  /\ ChecksumInit /\ (part # "checksums" => fields = Zeros(8))
  /\ IF part = "main" THEN MainInit ELSE opts = OneOption /\ files = NoFiles /\ MainBegins
  /\ Init

MCNext ==
  \/ /\ part = "regexes" /\ RegexNext
     /\ UNCHANGED <<part, domainVars, evidenceVars, httpVars, groupVars, learnerVars,
                     rejectVars, checksumVars, mainVars, vars>>
  \/ /\ part = "domains" /\ DomainNext
     /\ UNCHANGED <<part, regexVars, evidenceVars, httpVars, groupVars, learnerVars,
                     rejectVars, checksumVars, mainVars, vars>>
  \/ /\ part = "evidences" /\ EvidenceNext
     /\ UNCHANGED <<part, regexVars, domainVars, httpVars, groupVars, learnerVars,
                     rejectVars, checksumVars, mainVars, vars>>
  \/ /\ part = "http" /\ HTTPNext
     /\ UNCHANGED <<part, regexVars, domainVars, evidenceVars, groupVars, learnerVars,
                     rejectVars, checksumVars, mainVars, vars>>
  \/ /\ part = "groups" /\ GroupNext
     /\ UNCHANGED <<part, regexVars, domainVars, evidenceVars, httpVars, learnerVars,
                     rejectVars, checksumVars, mainVars, vars>>
  \/ /\ part = "learner" /\ LearnerNext
     /\ UNCHANGED <<part, regexVars, domainVars, evidenceVars, httpVars, groupVars,
                     rejectVars, checksumVars, mainVars, vars>>
  \/ /\ part = "rejects" /\ RejectNext
     /\ UNCHANGED <<part, regexVars, domainVars, evidenceVars, httpVars, groupVars,
                     learnerVars, checksumVars, mainVars, vars>>
  \/ /\ part = "checksums" /\ ChecksumNext
     /\ UNCHANGED <<part, regexVars, domainVars, evidenceVars, httpVars, groupVars,
                     learnerVars, rejectVars, mainVars, vars>>
  \/ /\ part = "main" /\ MainNext
     /\ UNCHANGED <<part, regexVars, domainVars, evidenceVars, httpVars, groupVars,
                     learnerVars, rejectVars, checksumVars, vars>>
  \/ /\ part = "frequencies" /\ Next
     /\ UNCHANGED <<part, regexVars, domainVars, evidenceVars, httpVars, groupVars,
                     learnerVars, rejectVars, checksumVars, mainVars>>

MCSpec == MCInit /\ [][MCNext]_<<part, regexVars, domainVars, evidenceVars, httpVars,
                             groupVars, learnerVars, rejectVars, checksumVars, mainVars, vars>>

=============================================================================
