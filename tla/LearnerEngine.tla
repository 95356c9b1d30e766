---------------------------- MODULE LearnerEngine ----------------------------
(***************************************************************************)
(* The learner: from the payloads of some flows, an expression that has    *)
(* the bytes they share at the same place.                                 *)
(***************************************************************************)
EXTENDS Naturals, Sequences, FiniteSets, SequencesExt

CONSTANTS
  Values,         \* values of a byte
  AnyByte,        \* the token ".?"
  MaxCopy,        \* MAX_PACKET_FREQUENCIES_VALUES, what is copied of a flow
  MaxExpression,  \* max_raw_expression_
  MaxPayload,     \* bound: length of what a flow sends
  MaxItems        \* bound: flows given to the learner

ASSUME LearnerAssumption ==
  /\ IsFiniteSet(Values) /\ AnyByte \notin Values
  /\ {MaxCopy, MaxExpression, MaxPayload} \subseteq Nat

VARIABLES
  counts,       \* q_array_: how often each byte was at each place
  items,        \* items_
  expression,   \* regex_expression_: bytes and AnyByte
  taught,       \* history: the payloads given to the learner
  learned       \* history: those of them the expression was computed from

NoCounts == [i \in 1 .. MaxCopy |-> [v \in Values |-> 0]]

\* PacketFrequencies::addPayload stops at the end of the array.
Copy(payload) == SubSeq(payload, 1, IF Len(payload) > MaxCopy THEN MaxCopy ELSE Len(payload))

LearnerInit ==
  /\ counts = NoCounts /\ items = 0
  /\ expression = <<>> /\ taught = {} /\ learned = {}

\* agregatePacketFlow, for each flow of a list that has a copy of its payload.
Learn(payload) ==
  LET copy == Copy(payload)
  IN /\ items < MaxItems
     /\ items' = items + 1
     /\ counts' = [i \in 1 .. MaxCopy |-> [v \in Values |->
          counts[i][v] + IF i \in DOMAIN copy /\ copy[i] = v THEN 1 ELSE 0]]
     /\ taught' = taught \cup {copy}
     /\ UNCHANGED <<expression, learned>>

ValuesAt(i) == {v \in Values : counts[i][v] > 0}

\* getQualityByte: of the number of values, not of how often each came.
QualityByte(i) ==
  LET n == Cardinality(ValuesAt(i))
  IN IF n = 0 THEN 0 ELSE 100 - ((n - 1) * 100) \div n

\* The byte that came most often; which of several is not determined.
Candidates(i) == {v \in ValuesAt(i) : \A w \in ValuesAt(i) : counts[i][w] <= counts[i][v]}

\* A bug for the runs: half of the bytes is enough.
TokensHalf(i) == IF QualityByte(i) > 40 THEN Candidates(i) ELSE {AnyByte}

Tokens(i) == IF QualityByte(i) > 80 THEN Candidates(i) ELSE {AnyByte}

\* length_, the longest payload, or less
Length ==
  LET used == {i \in 1 .. MaxCopy : ValuesAt(i) # {}}
  IN IF Cardinality(used) > MaxExpression THEN MaxExpression ELSE Cardinality(used)

\* compute
Derive ==
  /\ expression' \in {e \in [1 .. Length -> Values \cup {AnyByte}] :
                       \A i \in 1 .. Length : e[i] \in Tokens(i)}
  /\ learned' = taught
  /\ UNCHANGED <<counts, items, taught>>

Reset ==
  /\ counts' = NoCounts /\ items' = 0
  /\ expression' = <<>> /\ taught' = {} /\ learned' = {}

learnerVars == <<counts, items, expression, taught, learned>>

LearnerNext ==
  \/ \E payload \in BoundedSeq(Values, MaxPayload) : Learn(payload)
  \/ Derive \/ Reset

LearnerSpec == LearnerInit /\ [][LearnerNext]_learnerVars

\* How pcre reads an expression, from the places it may be at in a payload: a
\* byte; one ".?", which may take none; two or more of them, which compute
\* writes as ".{n}" and which take n.
LoneAny(i) ==
  /\ expression[i] = AnyByte
  /\ i = 1 \/ expression[i - 1] # AnyByte
  /\ i = Len(expression) \/ expression[i + 1] # AnyByte
Advance(payload, at, i) ==
  {p + 1 : p \in {p \in at : p < Len(payload)
                             /\ (expression[i] = AnyByte \/ expression[i] = payload[p + 1])}}
    \cup IF LoneAny(i) THEN at ELSE {}
Accepts(payload) ==
  LET at[i \in 0 .. Len(expression)] == IF i = 0 THEN {0} ELSE Advance(payload, at[i - 1], i)
  IN at[Len(expression)] # {}

-----------------------------------------------------------------------------
(***************************************************************************)
(* Safety                                                                  *)
(***************************************************************************)

\* The expression matches every payload it was computed from that is as long
\* as it, however many flows disagree on however many bytes.
LearnedMatches ==
  \A payload \in learned : Len(payload) >= Len(expression) => Accepts(payload)

\* The comment of compute, LearnerEngine.cc:127, "Remove .? and substitute for
\* operators {n} or .*", which changes nothing of what is matched: shorter
\* payloads match too when only bytes nobody agrees on are missing.
ShorterMatch ==
  \A payload \in learned :
    (\A i \in Len(payload) + 1 .. Len(expression) : expression[i] = AnyByte) => Accepts(payload)

=============================================================================
