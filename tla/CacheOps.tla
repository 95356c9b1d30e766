------------------------------ MODULE CacheOps ------------------------------
(***************************************************************************)
(* The calls of the object pool Cache<T> (Cache.h) as operators on its     *)
(* state, for the modules that use a pool.                                 *)
(*                                                                         *)
(* A pool is a vector of shared pointers, items, and a number, total:      *)
(* items[1..total] are the free objects, used as a stack.  acquire hands   *)
(* out a weak pointer to the object on the top and leaves the shared       *)
(* pointer where it is, above the top; release writes the object it is     *)
(* given over whatever the slot above the top still holds.                 *)
(***************************************************************************)
EXTENDS Integers, Sequences

Pools(Objects) == [items : Seq(Objects), total : Nat]

EmptyPool == [items |-> <<>>, total |-> 0]

\* create(n), the n new objects in the order of their allocation: they go to
\* the end of the vector, wherever the top of the free stack is.
Created(p, new) ==
  [items |-> p.items \o new, total |-> p.total + Len(new)]

\* Mutants of destroy: no limit on the number; what is above the top goes too.
DestroyedUnlimited(p, n) ==
  [items |-> SubSeq(p.items, 1, p.total - n)
               \o SubSeq(p.items, p.total + 1, Len(p.items)),
   total |-> p.total - n]

\* destroy(n): at most total objects, from the top of the free stack; what is
\* above moves down.
Destroyed(p, n) ==
  LET real == IF n > p.total THEN p.total ELSE n
  IN [items |-> SubSeq(p.items, 1, p.total - real)
                  \o SubSeq(p.items, p.total + 1, Len(p.items)),
      total |-> p.total - real]

\* acquire() when it succeeds: the object it hands out, and the pool after.
CanAcquire(p) == p.total > 0
Top(p) == p.items[p.total]

\* Mutant: the object stays on the free stack.
AcquiredNotPopped(p) == p

Acquired(p) == [p EXCEPT !.total = @ - 1]

\* Mutants of release: one slot is kept empty; the object is pushed at the end
\* of the vector; it is written before total moves up.
CanReleaseBelowLast(p) == p.total + 1 < Len(p.items)

ReleasedAtEnd(p, o) == [items |-> Append(p.items, o), total |-> p.total + 1]

ReleasedOnTop(p, o) ==
  IF p.total < Len(p.items)
  THEN [items |-> [p.items EXCEPT ![p.total] = o], total |-> p.total + 1]
  ELSE p

\* release(o): ignored when the free stack fills the vector.
CanRelease(p) == p.total < Len(p.items)
Released(p, o) ==
  IF CanRelease(p)
  THEN [items |-> [p.items EXCEPT ![p.total + 1] = o], total |-> p.total + 1]
  ELSE p

\* Who keeps an object alive and where it is.
InVector(p) == {p.items[i] : i \in 1 .. Len(p.items)}
FreeObjects(p) == {p.items[i] : i \in 1 .. p.total}

=============================================================================
