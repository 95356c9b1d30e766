----------------------------- MODULE ObjectPool -----------------------------
(***************************************************************************)
(* What a pool of reusable objects promises: an object is free or held by  *)
(* exactly one holder, a holder gets a free object or nothing, and an      *)
(* object given back is free again.  Cache implements it.                  *)
(***************************************************************************)
EXTENDS Integers

CONSTANTS
  Holders,      \* who can hold one object
  Objects,      \* the objects there may be
  None          \* not an object

VARIABLES
  free,         \* the objects nobody holds
  lent          \* the object each holder has, or None

vars == <<free, lent>>

TypeOK ==
  /\ free \subseteq Objects
  /\ lent \in [Holders -> Objects \cup {None}]

Held == {lent[h] : h \in Holders} \ {None}

Init ==
  /\ free = {}
  /\ lent = [h \in Holders |-> None]

\* Objects that are neither free nor held join the pool.
Grow ==
  /\ \E new \in SUBSET (Objects \ (free \cup Held)) : free' = free \cup new
  /\ UNCHANGED lent

\* Free objects leave the pool.
Shrink ==
  /\ free' \in SUBSET free
  /\ UNCHANGED lent

\* A holder takes a free object.
Lend(h) ==
  /\ lent[h] = None
  /\ \E o \in free :
       /\ lent' = [lent EXCEPT ![h] = o]
       /\ free' = free \ {o}

\* A holder gives its object back.
GiveBack(h) ==
  /\ lent[h] # None
  /\ free' = free \cup {lent[h]}
  /\ lent' = [lent EXCEPT ![h] = None]

Next ==
  \/ Grow
  \/ Shrink
  \/ \E h \in Holders : Lend(h) \/ GiveBack(h)

Spec == Init /\ [][Next]_vars

=============================================================================
