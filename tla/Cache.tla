------------------------------- MODULE Cache -------------------------------
(***************************************************************************)
(* The object pool Cache<T> (Cache.h) and its users.  Every long-lived     *)
(* object of the engine (flows, TCP, HTTP, SSL, DNS... infos, strings,     *)
(* frequencies) comes from one of these pools.                             *)
(*                                                                         *)
(* A holder is whoever keeps the acquired object: the flow table, which    *)
(* keeps a shared pointer (Strong), or a Flow, which keeps its infos by    *)
(* weak pointers (~Strong).                                                *)
(***************************************************************************)
EXTENDS CacheOps, FiniteSets

CONSTANTS
  Holders,      \* who can hold one object of the pool
  Strong,       \* TRUE: a holder keeps a shared pointer; FALSE: a weak one
  GrowInUse,    \* TRUE: create may be called while objects are lent
  MaxObjects,   \* bound: objects ever allocated
  MaxCalls      \* bound: calls of acquire

ASSUME CacheAssumption ==
  /\ IsFiniteSet(Holders)
  /\ Strong \in BOOLEAN
  /\ GrowInUse \in BOOLEAN
  /\ MaxObjects \in Nat
  /\ MaxCalls \in Nat

VARIABLES
  pool,         \* items_ and total_; objects are numbered as they are made
  allocated,    \* objects allocated so far
  lent,         \* the object each holder was given, or None
  stats         \* total_acquires_, total_releases_, total_fails_

vars == <<pool, allocated, lent, stats>>

None == 0
Objects == 1 .. MaxObjects

TypeOK ==
  /\ pool \in Pools(Objects)
  /\ pool.total \in 0 .. Len(pool.items)
  /\ allocated \in 0 .. MaxObjects
  /\ lent \in [Holders -> Objects \cup {None}]
  /\ stats \in [acquires : Nat, releases : Nat, fails : Nat]

\* An object exists while some shared pointer to it does.
Alive(o) ==
  \/ o \in InVector(pool)
  \/ Strong /\ \E h \in Holders : lent[h] = o

\* The holders whose object still exists: lock() on it is not null.
Holding == {h \in Holders : lent[h] # None /\ Alive(lent[h])}

-----------------------------------------------------------------------------

Init ==
  /\ pool = EmptyPool
  /\ allocated = 0
  /\ lent = [h \in Holders |-> None]
  /\ stats = [acquires |-> 0, releases |-> 0, fails |-> 0]

Create(n) ==
  /\ GrowInUse \/ ~CanRelease(pool)
  /\ allocated + n <= MaxObjects
  /\ pool' = Created(pool, [i \in 1 .. n |-> allocated + i])
  /\ allocated' = allocated + n
  /\ UNCHANGED <<lent, stats>>

Destroy(n) ==
  /\ pool' = Destroyed(pool, n)
  /\ UNCHANGED <<allocated, lent, stats>>

\* A holder that has nothing asks for an object and gets one, or nothing.
Acquire(h) ==
  /\ lent[h] = None
  /\ stats.acquires + stats.fails < MaxCalls
  /\ IF CanAcquire(pool)
     THEN /\ lent' = [lent EXCEPT ![h] = Top(pool)]
          /\ pool' = Acquired(pool)
          /\ stats' = [stats EXCEPT !.acquires = @ + 1]
     ELSE /\ stats' = [stats EXCEPT !.fails = @ + 1]
          /\ UNCHANGED <<lent, pool>>
  /\ UNCHANGED allocated

\* A holder gives its object back and drops its own pointer.
Release(h) ==
  /\ h \in Holding
  /\ pool' = Released(pool, lent[h])
  /\ stats' = IF CanRelease(pool) THEN [stats EXCEPT !.releases = @ + 1] ELSE stats
  /\ lent' = [lent EXCEPT ![h] = None]
  /\ UNCHANGED allocated

\* A holder that finds its weak pointer expired has nothing to release.
Forget(h) ==
  /\ lent[h] # None /\ h \notin Holding
  /\ lent' = [lent EXCEPT ![h] = None]
  /\ UNCHANGED <<pool, allocated, stats>>

Next ==
  \/ \E n \in Objects : Create(n) \/ Destroy(n)
  \/ \E h \in Holders : Acquire(h) \/ Release(h) \/ Forget(h)

Spec == Init /\ [][Next]_vars

-----------------------------------------------------------------------------
(***************************************************************************)
(* Safety                                                                  *)
(***************************************************************************)

\* Two holders never hold the same object: Cache::acquire never hands out
\* one that is in use, whatever the slots above the top still point to.
NoSharing ==
  \A g, h \in Holders : lent[g] = lent[h] /\ lent[g] # None => g = h

\* Why: the free stack of Cache<T> holds each free object once and none that
\* is lent, whatever destroy moved and release overwrote.
FreeStack ==
  /\ \A i, j \in 1 .. pool.total : pool.items[i] = pool.items[j] => i = j
  /\ \A i \in 1 .. pool.total, h \in Holders : pool.items[i] # lent[h]

\* A pool whose holders keep shared pointers loses no capacity in acquire and
\* release: a holder accounts for every slot outside the free stack, and so do
\* the counters Cache::statistics prints.  So release always finds a slot for
\* an object in use: its test total_ < items_.size() never drops one.
NothingLost ==
  /\ Cardinality(Holding) = Len(pool.items) - pool.total
  /\ Cardinality(Holding) = stats.acquires - stats.releases

-----------------------------------------------------------------------------
(***************************************************************************)
(* What the pool promises                                                  *)
(***************************************************************************)

Pool == INSTANCE ObjectPool WITH free <- FreeObjects(pool)

\* Seen through its free stack, Cache<T> is a pool of reusable objects: an
\* object is free or lent to one holder, and is free again once released.
ImplementsPool == Pool!Spec

=============================================================================
