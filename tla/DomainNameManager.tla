-------------------------- MODULE DomainNameManager --------------------------
(***************************************************************************)
(* Domain names in a tree of labels, from the last label of a name to the  *)
(* first.  A name that was configured ends in a node that has its domain;  *)
(* the nodes on the way to it have none of their own.                      *)
(***************************************************************************)
EXTENDS Naturals, Sequences, FiniteSets, SequencesExt

CONSTANTS
  Domains,      \* DomainName objects
  Labels,
  Empty,        \* the label before a leading dot or between two dots
  NoDomain,     \* a node without a domain, and a lookup without a match
  MaxLabels     \* bound: labels of a name

VARIABLES
  tree,         \* the nodes below the root, each with its domain
  names,        \* the names that were added, with their domains, in order
  last          \* history: the last lookup and its result

domainVars == <<tree, names, last>>

Names == BoundedSeq(Labels \cup {Empty}, MaxLabels) \ {<<>>}

\* addDomainName walks the labels from the last and skips the empty ones.
PathOf(name) == Reverse(SelectSeq(name, LAMBDA l : l # Empty))

DomainInit ==
  /\ tree = <<>> :> NoDomain
  /\ names = <<>>
  /\ last = [name |-> <<>>, domain |-> NoDomain]

\* addDomainName: the nodes of the path that are not there, and the domain at
\* its end, in place of one that was there.
AddDomainName(d, name) ==
  LET path == PathOf(name)
  IN /\ \A i \in DOMAIN names : names[i].domain # d
     /\ tree' = [n \in DOMAIN tree \cup {SubSeq(path, 1, i) : i \in 0 .. Len(path)} |->
                   IF n = path THEN d
                   ELSE IF n \in DOMAIN tree THEN tree[n] ELSE NoDomain]
     /\ names' = Append(names, [name |-> name, domain |-> d])
     /\ UNCHANGED last

\* A bug for the runs: the walk goes on below a label it did not find.
StepOver(walk, label) ==
  LET node == Append(walk.at, label)
  IN IF node \in DOMAIN tree
     THEN [walk EXCEPT !.at = node, !.candidate = tree[node]]
     ELSE walk

(* getDomainName.  `at` is curr_node, `candidate` the domain of the node,  *)
(* whatever that of the node above was; the first label without a node     *)
(* ends the walk.                                                          *)
Step(walk, label) ==
  LET node == Append(walk.at, label)
  IN IF walk.ended THEN walk
     ELSE IF node \in DOMAIN tree
     THEN [walk EXCEPT !.at = node, !.candidate = tree[node]]
     ELSE [walk EXCEPT !.ended = TRUE]

\* Before a leading dot there is no label.
Walk(name) ==
  FoldLeft(Step, [at |-> <<>>, candidate |-> NoDomain, ended |-> FALSE],
           Reverse(IF Head(name) = Empty THEN Tail(name) ELSE name))

GetDomainName(name) ==
  /\ last' = [name |-> name, domain |-> Walk(name).candidate]
  /\ UNCHANGED <<tree, names>>

\* A script adds names of labels, perhaps with a leading dot; a packet may have
\* any.
DomainNext ==
  \/ \E d \in Domains, name \in Names :
       /\ \A i \in 2 .. Len(name) : name[i] # Empty
       /\ AddDomainName(d, name)
  \/ \E name \in Names : GetDomainName(name)

-----------------------------------------------------------------------------
(***************************************************************************)
(* Safety                                                                  *)
(***************************************************************************)

\* The domain that was added last for the labels `path`.
DomainOf(path) ==
  LET own == SelectSeq(names, LAMBDA e : PathOf(e.name) = path)
  IN IF own = <<>> THEN NoDomain ELSE own[Len(own)].domain

Added == {PathOf(names[k].name) : k \in DOMAIN names}
Largest(s) == CHOOSE i \in s : \A j \in s : j <= i

\* How many labels of a path some added name shares, and how many are a whole
\* added name.
Shared(path) ==
  Largest({i \in 0 .. Len(path) : \E a \in Added \cup {<<>>} : IsPrefix(SubSeq(path, 1, i), a)})
Covered(path) == Largest({0} \cup {i \in 1 .. Len(path) : SubSeq(path, 1, i) \in Added})

\* A lookup gives the longest suffix of the name that was added, with the
\* domain it was added with last, unless an added name shares more labels with
\* the name; then it gives none.  Empty labels hide only what is before them.
LongestSuffix ==
  [][last' # last =>
       LET path == Reverse(IF Head(last'.name) = Empty THEN Tail(last'.name) ELSE last'.name)
           best == Covered(path)
       IN last'.domain = IF best > 0 /\ best = Shared(path)
                         THEN DomainOf(SubSeq(path, 1, best)) ELSE NoDomain]_domainVars

-----------------------------------------------------------------------------
(***************************************************************************)
(* What a reader of the tree expects                                       *)
(***************************************************************************)

\* A domain that was added matches each name below it, whatever other names
\* were added (DomainNameManager.cc:81).
NothingHidden ==
  [][last' # last => (Covered(PathOf(last'.name)) > 0 => last'.domain # NoDomain)]_domainVars

=============================================================================
