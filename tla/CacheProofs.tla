---------------------------- MODULE CacheProofs ----------------------------
(***************************************************************************)
(* Proofs about Cache, for every set of holders and every number of        *)
(* objects, when create is not called while objects are lent.              *)
(***************************************************************************)
EXTENDS Cache, SharedLemmas

-----------------------------------------------------------------------------
(***************************************************************************)
(* Type correctness                                                        *)
(***************************************************************************)

\* Cache<T> keeps its type, whatever its users do: total_ stays within the
\* vector, and every slot points to an object that was allocated.
LEMMA TypeStep == TypeOK /\ [Next]_vars => TypeOK'
<1> USE CacheAssumption
<1> SUFFICES ASSUME TypeOK, [Next]_vars PROVE TypeOK'
  OBVIOUS
<1>1. Fits(pool, Objects) /\ Len(pool.items) \in Nat
  <2>1. pool.items \in Seq(Objects)
    BY DEF TypeOK, Pools
  <2> QED
    BY <2>1, LenProperties DEF TypeOK, Fits, Pools
<1> DEFINE PoolOK(q) == q \in Pools(Objects) /\ q.total \in 0 .. Len(q.items)
<1>2. \A q : Fits(q, Objects) => PoolOK(q)
  <2> TAKE q
  <2> HAVE Fits(q, Objects)
  <2>1. q.items \in Seq(Objects) /\ q.total \in Nat /\ q.total <= Len(q.items)
    BY DEF Fits, Pools
  <2>2. Len(q.items) \in Nat
    BY <2>1, LenProperties
  <2> QED
    BY <2>1, <2>2 DEF Fits
<1> HIDE DEF PoolOK
<1>3. PoolOK(pool)
  BY <1>1, <1>2
<1>4. ASSUME NEW n \in Objects, Create(n) PROVE TypeOK'
  <2>1. [i \in 1 .. n |-> allocated + i] \in Seq(Objects)
    <3>1. \A i \in 1 .. n : allocated + i \in Objects
      BY <1>4 DEF Create, TypeOK, Objects
    <3> QED
      BY <3>1 DEF Objects
  <2>2. PoolOK(pool')
    BY <1>1, <1>2, <1>4, <2>1, CreatedPool DEF Create
  <2>3. allocated' \in 0 .. MaxObjects
    BY <1>4 DEF Create, TypeOK, Objects
  <2> QED
    BY <1>4, <2>2, <2>3 DEF Create, TypeOK, PoolOK
<1>5. ASSUME NEW n \in Objects, Destroy(n) PROVE TypeOK'
  <2>1. PoolOK(pool')
    BY <1>1, <1>2, <1>5, DestroyedPool DEF Destroy, Objects
  <2> QED
    BY <1>5, <2>1 DEF Destroy, TypeOK, PoolOK
<1>6. ASSUME NEW h \in Holders, Acquire(h) PROVE TypeOK'
  <2>1. CASE CanAcquire(pool)
    <3>1. pool.total \in 1 .. Len(pool.items)
      BY <2>1, <1>1 DEF CanAcquire, TypeOK
    <3>2. Top(pool) \in Objects
      BY <3>1, ElementOfSeq DEF Top, TypeOK, Pools
    <3>3. PoolOK(pool')
      BY <1>6, <2>1, <3>1, <1>1 DEF Acquire, Acquired, PoolOK, Pools, Fits
    <3>4. lent' \in [Holders -> Objects \cup {None}]
      BY <1>6, <2>1, <3>2 DEF Acquire, TypeOK
    <3>5. stats' \in [acquires : Nat, releases : Nat, fails : Nat]
      BY <1>6, <2>1 DEF Acquire, TypeOK
    <3> QED
      BY <1>6, <3>3, <3>4, <3>5 DEF Acquire, TypeOK, PoolOK
  <2>2. CASE ~CanAcquire(pool)
    <3>1. stats' \in [acquires : Nat, releases : Nat, fails : Nat]
      BY <1>6, <2>2 DEF Acquire, TypeOK
    <3> QED
      BY <1>6, <2>2, <3>1, <1>3 DEF Acquire, TypeOK, PoolOK
  <2> QED
    BY <2>1, <2>2
<1>7. ASSUME NEW h \in Holders, Release(h) PROVE TypeOK'
  <2>1. lent[h] \in Objects
    BY <1>7 DEF Release, Holding, TypeOK
  <2>2. PoolOK(pool')
    <3>1. CASE CanRelease(pool)
      BY <1>1, <1>2, <1>7, <2>1, <3>1, ReleasedPool DEF Release
    <3>2. CASE ~CanRelease(pool)
      BY <1>3, <1>7, <3>2 DEF Release, Released
    <3> QED BY <3>1, <3>2
  <2>3. stats' \in [acquires : Nat, releases : Nat, fails : Nat]
    BY <1>7 DEF Release, TypeOK
  <2> QED
    BY <1>7, <2>2, <2>3 DEF Release, TypeOK, PoolOK
<1>8. ASSUME NEW h \in Holders, Forget(h) PROVE TypeOK'
  BY <1>8 DEF Forget, TypeOK
<1>9. CASE UNCHANGED vars
  BY <1>9 DEF vars, TypeOK
<1> QED
  BY <1>4, <1>5, <1>6, <1>7, <1>8, <1>9 DEF Next

\* TypeOK of Cache<T>, for every value of the constants.
THEOREM TypeCorrect == Spec => []TypeOK
<1>1. Init => TypeOK
  <2> SUFFICES ASSUME Init PROVE TypeOK
    OBVIOUS
  <2>1. EmptyPool \in Pools(Objects) /\ EmptyPool.total \in 0 .. Len(EmptyPool.items)
    BY EmptySeq DEF EmptyPool, Pools
  <2> QED
    BY <2>1, CacheAssumption DEF Init, TypeOK
<1> QED
  BY <1>1, TypeStep, PTL DEF Spec

-----------------------------------------------------------------------------
(***************************************************************************)
(* Nothing is handed out twice                                             *)
(***************************************************************************)

\* New objects are new: their numbers are greater than all those in use.
Numbered ==
  /\ \A i \in 1 .. Len(pool.items) : pool.items[i] <= allocated
  /\ \A h \in Holders : lent[h] <= allocated

\* NoSharing is not inductive: Acquire keeps it because the object on the top
\* is not lent, and the object on the top is not lent because no slot of the
\* free stack is, once; new objects are neither in the vector nor lent.
StackInv == TypeOK /\ NoSharing /\ FreeStack /\ Numbered

\* The pool is constructed empty.
LEMMA StackInit == Init => StackInv
<1> SUFFICES ASSUME Init PROVE StackInv
  OBVIOUS
<1>1. TypeOK
  <2>1. EmptyPool \in Pools(Objects) /\ EmptyPool.total \in 0 .. Len(EmptyPool.items)
    BY EmptySeq DEF EmptyPool, Pools
  <2> QED
    BY <2>1, CacheAssumption DEF Init, TypeOK
<1>2. Len(pool.items) = 0 /\ pool.total = 0 /\ \A h \in Holders : lent[h] = 0
  BY EmptySeq DEF Init, EmptyPool, None
<1>3. allocated = 0
  BY DEF Init
<1> QED
  BY <1>1, <1>2, <1>3 DEF StackInv, NoSharing, FreeStack, Numbered, None

\* No call of the pool, in any order of its holders, disturbs the free stack.
LEMMA StackStep ==
  ASSUME ~GrowInUse, StackInv, [Next]_vars
  PROVE  StackInv'
<1> USE CacheAssumption
<1>1. TypeOK'
  BY TypeStep DEF StackInv
<1>2. /\ Fits(pool, Objects)
      /\ Len(pool.items) \in Nat /\ pool.total \in 0 .. Len(pool.items)
      /\ allocated \in Nat
      /\ lent \in [Holders -> Objects \cup {None}]
      /\ \A i \in 1 .. Len(pool.items) : pool.items[i] \in Objects
      /\ None \notin Objects
  <2>1. pool.items \in Seq(Objects)
    BY DEF StackInv, TypeOK, Pools
  <2> QED
    BY <2>1, LenProperties, ElementOfSeq DEF StackInv, TypeOK, Pools, Fits, Objects, None
<1>3. /\ NoSharing /\ FreeStack /\ Numbered
  BY DEF StackInv
<1>fits. Fits(pool, Objects)
  BY <1>2
<1>nat. allocated \in Nat
  BY <1>2
<1>4. ASSUME NEW n \in Objects, Create(n) PROVE NoSharing' /\ FreeStack' /\ Numbered'
  <2> DEFINE new == [i \in 1 .. n |-> allocated + i]
             len == Len(pool.items)
  <2>created. \A new1 \in Seq(Objects) :
      /\ Created(pool, new1).total = pool.total + Len(new1)
      /\ Len(Created(pool, new1).items) = Len(pool.items) + Len(new1)
      /\ \A i \in 1 .. Len(pool.items) + Len(new1) :
           Created(pool, new1).items[i] =
             IF i <= Len(pool.items) THEN pool.items[i] ELSE new1[i - Len(pool.items)]
    <3> TAKE new1 \in Seq(Objects)
    <3> DEFINE q == Created(pool, new1)
    <3>1. /\ q.total = pool.total + Len(new1)
          /\ Len(q.items) = Len(pool.items) + Len(new1)
          /\ \A i \in 1 .. Len(q.items) :
               q.items[i] = IF i <= Len(pool.items) THEN pool.items[i]
                                                    ELSE new1[i - Len(pool.items)]
      BY <1>fits, CreatedPool
    <3> QED
      BY <3>1
  <2>1. n \in Nat /\ n >= 1 /\ allocated + n <= MaxObjects /\ allocated' = allocated + n
    BY <1>4 DEF Create, Objects
  <2>2. new \in Seq(Objects) /\ Len(new) = n /\ \A i \in 1 .. n : new[i] = allocated + i
    <3>1. \A i \in 1 .. n : allocated + i \in Objects
      BY <1>2, <2>1 DEF Objects
    <3> QED
      BY <3>1, <2>1
  <2>3. pool.total = len
    BY <1>2, <1>4 DEF Create, CanRelease
  <2>4. pool' = Created(pool, new) /\ lent' = lent
    BY <1>4 DEF Create
  <2>len. len = Len(pool.items) /\ len \in Nat
    BY <1>2
  <2> HIDE DEF new, len
  <2>5. /\ pool'.total = len + n
        /\ Len(pool'.items) = len + n
        /\ \A i \in 1 .. len + n :
             pool'.items[i] = IF i <= len THEN pool.items[i] ELSE allocated + (i - len)
    <3>1. /\ pool'.total = len + n
          /\ Len(pool'.items) = len + n
          /\ \A i \in 1 .. len + n :
               pool'.items[i] = IF i <= len THEN pool.items[i] ELSE new[i - len]
      BY <2>created, <2>2, <2>3, <2>4, <2>len
    <3>2. \A i \in 1 .. len + n : ~(i <= len) => new[i - len] = allocated + (i - len)
      <4>1. \A i \in 1 .. len + n : ~(i <= len) => i - len \in 1 .. n
        BY <2>1, <2>len
      <4> QED
        BY <4>1, <2>2
    <3> QED
      BY <3>1, <3>2
  <2>new. \A i \in 1 .. len + n : ~(i <= len) =>
            \E d \in 1 .. n : i = len + d /\ pool'.items[i] = allocated + d
    <3> SUFFICES ASSUME NEW i \in 1 .. len + n, ~(i <= len)
                 PROVE  \E d \in 1 .. n : i = len + d /\ pool'.items[i] = allocated + d
      OBVIOUS
    <3> DEFINE d == i - len
    <3>1. d \in 1 .. n /\ i = len + d
      BY <2>1, <2>len
    <3>2. pool'.items[i] = allocated + d
      BY <2>5
    <3> HIDE DEF d
    <3> QED
      BY <3>1, <3>2
  <2>6. \A i \in 1 .. len + n : ~(i <= len) => pool'.items[i] > allocated
    <3> SUFFICES ASSUME NEW i \in 1 .. len + n, ~(i <= len)
                 PROVE  pool'.items[i] > allocated
      OBVIOUS
    <3>1. PICK d \in 1 .. n : pool'.items[i] = allocated + d
      BY <2>new
    <3>2. allocated + d > allocated
      BY <1>nat, <2>1
    <3> QED
      BY <3>1, <3>2
  <2>7. \A i \in 1 .. len + n : i <= len => pool'.items[i] = pool.items[i]
    BY <2>5
  <2>8. NoSharing'
    BY <1>3, <2>4 DEF NoSharing
  <2>9. FreeStack'
    <3>1. ASSUME NEW i \in 1 .. len + n, NEW j \in 1 .. len + n,
                 pool'.items[i] = pool'.items[j]
          PROVE  i = j
      <4>0. \A k \in 1 .. len : /\ k \in 1 .. Len(pool.items)
                                 /\ pool.items[k] <= allocated /\ pool.items[k] \in Nat
        BY <1>2, <1>3, <2>len DEF Numbered, Objects
      <4>1. CASE i <= len /\ j <= len
        <5>1. i \in 1 .. pool.total /\ j \in 1 .. pool.total
          BY <2>1, <2>3, <2>len, <4>1
        <5> QED
          BY <1>3, <2>7, <3>1, <4>1, <5>1 DEF FreeStack
      <4>2. CASE i <= len /\ ~(j <= len)
        BY <1>2, <2>len, <2>6, <2>7, <3>1, <4>0, <4>2
      <4>3. CASE ~(i <= len) /\ j <= len
        BY <1>2, <2>len, <2>6, <2>7, <3>1, <4>0, <4>3
      <4>4. CASE ~(i <= len) /\ ~(j <= len)
        <5>1. PICK d \in 1 .. n : i = len + d /\ pool'.items[i] = allocated + d
          BY <2>new, <4>4
        <5>2. PICK e \in 1 .. n : j = len + e /\ pool'.items[j] = allocated + e
          BY <2>new, <4>4
        <5>3. allocated + d = allocated + e
          BY <3>1, <5>1, <5>2
        <5>4. d = e
          BY <1>nat, <2>1, <5>3
        <5> QED
          BY <5>1, <5>2, <5>4
      <4> QED BY <4>1, <4>2, <4>3, <4>4
    <3>2. ASSUME NEW i \in 1 .. len + n, NEW h \in Holders
          PROVE  pool'.items[i] # lent[h]
      <4>1. CASE i <= len
        <5>1. i \in 1 .. pool.total
          BY <2>1, <2>3, <2>len, <4>1
        <5> QED
          BY <1>3, <2>7, <4>1, <5>1 DEF FreeStack
      <4>2. CASE ~(i <= len)
        <5>1. pool'.items[i] > allocated
          BY <2>6, <4>2
        <5>2. lent[h] <= allocated /\ lent[h] \in Nat
          BY <1>2, <1>3 DEF Numbered, Objects, None
        <5> QED
          BY <1>2, <5>1, <5>2
      <4> QED BY <4>1, <4>2
    <3> QED
      BY <3>1, <3>2, <2>4, <2>5 DEF FreeStack
  <2>10. Numbered'
    <3>1. ASSUME NEW i \in 1 .. len + n PROVE pool'.items[i] <= allocated + n
      <4>1. CASE i <= len
        <5>1. pool'.items[i] = pool.items[i] /\ i \in 1 .. Len(pool.items)
          BY <2>1, <2>7, <2>len, <4>1
        <5>2. pool.items[i] \in Nat /\ pool.items[i] <= allocated
          BY <1>2, <1>3, <5>1 DEF Numbered, Objects
        <5> QED
          BY <1>nat, <2>1, <5>1, <5>2
      <4>2. CASE ~(i <= len)
        <5>1. PICK d \in 1 .. n : pool'.items[i] = allocated + d
          BY <2>new, <4>2
        <5>2. allocated + d <= allocated + n
          BY <1>nat, <2>1
        <5> QED
          BY <5>1, <5>2
      <4> QED BY <4>1, <4>2
    <3>2. \A h \in Holders : lent[h] <= allocated + n
      BY <1>2, <1>3, <2>1 DEF Numbered, Objects, None
    <3> QED
      BY <3>1, <3>2, <2>1, <2>4, <2>5 DEF Numbered
  <2> QED
    BY <2>8, <2>9, <2>10
<1>5. ASSUME NEW n \in Objects, Destroy(n) PROVE NoSharing' /\ FreeStack' /\ Numbered'
  <2>1. /\ pool'.total <= pool.total
        /\ \A i \in 1 .. pool'.total : pool'.items[i] = pool.items[i]
        /\ \A i \in 1 .. Len(pool'.items) :
             \E j \in 1 .. Len(pool.items) : pool'.items[i] = pool.items[j]
    <3>1. n \in Nat /\ pool' = Destroyed(pool, n)
      BY <1>5 DEF Destroy, Objects
    <3> QED
      BY <1>fits, <3>1, DestroyedPool
  <2>2. lent' = lent /\ allocated' = allocated /\ pool'.total \in Nat
    BY <1>1, <1>5 DEF Destroy, TypeOK, Pools
  <2>3. NoSharing'
    BY <1>3, <2>2 DEF NoSharing
  <2>4. FreeStack'
    <3>1. pool.total \in Nat
      BY <1>2
    <3>2. \A i \in 1 .. pool'.total : i \in 1 .. pool.total
      BY <2>1, <2>2, <3>1
    <3>3. \A i \in 1 .. pool'.total, h \in Holders : pool'.items[i] # lent'[h]
      BY <1>3, <2>1, <2>2, <3>2 DEF FreeStack
    <3>4. \A i, j \in 1 .. pool'.total : pool'.items[i] = pool'.items[j] => i = j
      BY <1>3, <2>1, <3>2 DEF FreeStack
    <3> QED
      BY <3>3, <3>4 DEF FreeStack
  <2>5. Numbered'
    BY <1>3, <2>1, <2>2 DEF Numbered
  <2> QED
    BY <2>3, <2>4, <2>5
<1>6. ASSUME NEW h \in Holders, Acquire(h) PROVE NoSharing' /\ FreeStack' /\ Numbered'
  <2>1. CASE ~CanAcquire(pool)
    BY <1>3, <1>6, <2>1 DEF Acquire, NoSharing, FreeStack, Numbered
  <2>2. CASE CanAcquire(pool)
    <3> DEFINE o == pool.items[pool.total]
    <3>1. pool.total \in 1 .. Len(pool.items)
      BY <1>2, <2>2 DEF CanAcquire
    <3>2. o \in Objects /\ o <= allocated /\ \A g \in Holders : lent[g] # o
      BY <1>2, <1>3, <3>1 DEF Numbered, FreeStack
    <3>3. /\ pool'.items = pool.items
          /\ pool'.total = pool.total - 1
          /\ lent' = [lent EXCEPT ![h] = o]
          /\ allocated' = allocated
      BY <1>2, <1>6, <2>2 DEF Acquire, Acquired, Top, Fits, Pools
    <3> HIDE DEF o
    <3>4. NoSharing'
      BY <1>2, <1>3, <3>2, <3>3 DEF NoSharing
    <3>5. FreeStack'
      <4>1. \A i, j \in 1 .. pool.total - 1 : pool.items[i] = pool.items[j] => i = j
        BY <1>2, <1>3, <3>1 DEF FreeStack
      <4>2. \A i \in 1 .. pool.total - 1 : pool.items[i] # o
        BY <1>2, <1>3, <3>1 DEF FreeStack, o
      <4>3. \A i \in 1 .. pool.total - 1, g \in Holders : pool.items[i] # lent[g]
        BY <1>2, <1>3, <3>1 DEF FreeStack
      <4> QED
        BY <1>2, <3>3, <4>1, <4>2, <4>3 DEF FreeStack
    <3>6. Numbered'
      BY <1>2, <1>3, <3>2, <3>3 DEF Numbered
    <3> QED BY <3>4, <3>5, <3>6
  <2> QED
    BY <2>1, <2>2
<1>7. ASSUME NEW h \in Holders, Release(h) PROVE NoSharing' /\ FreeStack' /\ Numbered'
  <2> DEFINE o == lent[h]
  <2>1. o \in Objects /\ o <= allocated /\ o # None
    BY <1>2, <1>3, <1>7 DEF Release, Holding, Numbered
  <2>2. lent' = [lent EXCEPT ![h] = None] /\ allocated' = allocated
        /\ pool' = Released(pool, o)
    BY <1>7 DEF Release
  <2> HIDE DEF o
  <2>3. NoSharing'
    BY <1>2, <1>3, <2>2 DEF NoSharing
  <2>4. \A g \in Holders : g # h => lent[g] # o
    BY <1>3, <2>1 DEF NoSharing, o
  <2>5. CASE ~CanRelease(pool)
    <3>1. pool' = pool
      BY <2>2, <2>5 DEF Released
    <3>2. FreeStack'
      BY <1>2, <1>3, <2>2, <3>1 DEF FreeStack
    <3>3. Numbered'
      BY <1>2, <1>3, <2>2, <3>1 DEF Numbered, None
    <3> QED BY <2>3, <3>2, <3>3
  <2>6. CASE CanRelease(pool)
    <3>1. /\ pool'.total = pool.total + 1
          /\ Len(pool'.items) = Len(pool.items)
          /\ \A i \in 1 .. Len(pool.items) :
               pool'.items[i] = IF i = pool.total + 1 THEN o ELSE pool.items[i]
      BY <1>2, <2>1, <2>2, <2>6, ReleasedPool
    <3>2. \A i \in 1 .. pool.total + 1 : i \in 1 .. Len(pool.items)
      BY <1>2, <2>6 DEF CanRelease
    <3>3. \A i \in 1 .. pool.total : pool'.items[i] = pool.items[i] /\ pool.items[i] # o
      BY <1>2, <1>3, <3>1, <3>2 DEF FreeStack, o
    <3>4. FreeStack'
      <4>1. ASSUME NEW i \in 1 .. pool.total + 1, NEW j \in 1 .. pool.total + 1,
                   pool'.items[i] = pool'.items[j]
            PROVE  i = j
        <5>1. pool.total + 1 \in 1 .. pool.total + 1 /\ pool'.items[pool.total + 1] = o
          BY <1>2, <3>1, <3>2
        <5>2. \A k \in 1 .. pool.total + 1 : k = pool.total + 1 \/ k \in 1 .. pool.total
          BY <1>2
        <5>3. CASE i \in 1 .. pool.total /\ j \in 1 .. pool.total
          BY <1>3, <3>3, <4>1, <5>3 DEF FreeStack
        <5>4. CASE i = pool.total + 1 \/ j = pool.total + 1
          BY <3>3, <4>1, <5>1, <5>2, <5>4
        <5> QED
          BY <5>2, <5>3, <5>4
      <4>2. ASSUME NEW i \in 1 .. pool.total + 1, NEW g \in Holders
            PROVE  pool'.items[i] # lent'[g]
        <5>1. CASE g = h
          BY <1>2, <2>1, <2>2, <3>1, <3>2, <5>1
        <5>2. CASE g # h
          BY <1>2, <1>3, <2>2, <2>4, <3>1, <3>2, <3>3, <5>2 DEF FreeStack
        <5> QED BY <5>1, <5>2
      <4> QED
        BY <3>1, <4>1, <4>2 DEF FreeStack
    <3>5. Numbered'
      BY <1>2, <1>3, <2>1, <2>2, <3>1 DEF Numbered, None
    <3> QED BY <2>3, <3>4, <3>5
  <2> QED
    BY <2>5, <2>6
<1>8. ASSUME NEW h \in Holders, Forget(h) PROVE NoSharing' /\ FreeStack' /\ Numbered'
  BY <1>2, <1>3, <1>8 DEF Forget, NoSharing, FreeStack, Numbered, None
<1>9. ASSUME UNCHANGED vars PROVE NoSharing' /\ FreeStack' /\ Numbered'
  <2>1. pool' = pool /\ lent' = lent /\ allocated' = allocated
    BY <1>9 DEF vars
  <2>2. NoSharing'
    BY <1>3, <2>1 DEF NoSharing
  <2>3. FreeStack'
    BY <1>3, <2>1 DEF FreeStack
  <2>4. Numbered'
    BY <1>3, <2>1 DEF Numbered
  <2> QED
    BY <2>2, <2>3, <2>4
<1>10. NoSharing' /\ FreeStack' /\ Numbered'
  <2>1. CASE Next
    BY <1>4, <1>5, <1>6, <1>7, <1>8, <2>1 DEF Next
  <2>2. Next \/ UNCHANGED vars
    OBVIOUS
  <2> QED
    BY <1>9, <2>1, <2>2
<1> QED
  BY <1>1, <1>10 DEF StackInv

\* Cache::acquire never hands out an object that is in use, for any number of
\* holders, whether they keep shared or weak pointers.
THEOREM NeverShared == ~GrowInUse => (Spec => []NoSharing)
<1> SUFFICES ASSUME ~GrowInUse PROVE Spec => []NoSharing
  OBVIOUS
<1>1. StackInv /\ [Next]_vars => StackInv'
  BY StackStep
<1>2. StackInv => NoSharing
  BY DEF StackInv
<1> QED
  BY StackInit, <1>1, <1>2, PTL DEF Spec

\* The free stack of Cache<T> holds each free object once and none in use.
THEOREM FreeStackSound == ~GrowInUse => (Spec => []FreeStack)
<1> SUFFICES ASSUME ~GrowInUse PROVE Spec => []FreeStack
  OBVIOUS
<1>1. StackInv /\ [Next]_vars => StackInv'
  BY StackStep
<1>2. StackInv => FreeStack
  BY DEF StackInv
<1> QED
  BY StackInit, <1>1, <1>2, PTL DEF Spec

-----------------------------------------------------------------------------
(***************************************************************************)
(* Nothing is lost                                                         *)
(***************************************************************************)

Users == {h \in Holders : lent[h] # None}

\* A shared pointer keeps its object alive: whoever was lent one has it.
LEMMA StrongHolding == Strong => Holding = Users
BY DEF Holding, Users, Alive

\* NothingLost counts the users, and only what StackInv says of the free stack
\* tells that release finds a slot.
CountInv == StackInv /\ NothingLost

\* A pool that is constructed has lent nothing.
LEMMA CountInit == Strong /\ Init => CountInv
<1> SUFFICES ASSUME Strong, Init PROVE CountInv
  OBVIOUS
<1>1. Users = {} /\ Len(pool.items) = 0 /\ pool.total = 0
  BY EmptySeq DEF Init, Users, EmptyPool, None
<1>2. Cardinality(Holding) = 0
  BY <1>1, StrongHolding, FS_EmptySet
<1>3. stats.acquires = 0 /\ stats.releases = 0
  BY DEF Init
<1> QED
  BY <1>1, <1>2, <1>3, StackInit DEF CountInv, NothingLost

\* Each call keeps what is lent and what is counted as lent together.
LEMMA CountStep ==
  ASSUME Strong, ~GrowInUse, CountInv, [Next]_vars
  PROVE  CountInv'
<1> USE CacheAssumption
<1>1. StackInv'
  BY StackStep DEF CountInv
<1>2. /\ Fits(pool, Objects)
      /\ Len(pool.items) \in Nat /\ pool.total \in 0 .. Len(pool.items)
      /\ lent \in [Holders -> Objects \cup {None}]
      /\ stats \in [acquires : Nat, releases : Nat, fails : Nat]
      /\ IsFiniteSet(Users) /\ Cardinality(Users) \in Nat
      /\ Cardinality(Users) = Len(pool.items) - pool.total
      /\ Cardinality(Users) = stats.acquires - stats.releases
  <2>1. pool.items \in Seq(Objects) /\ pool.total \in Nat /\ TypeOK
    BY DEF CountInv, StackInv, TypeOK, Pools
  <2>2. Len(pool.items) \in Nat
    BY <2>1, LenProperties
  <2>3. Users \subseteq Holders /\ IsFiniteSet(Users)
    <3>1. Users \subseteq Holders
      BY DEF Users
    <3> QED
      BY <3>1, FS_Subset
  <2> QED
    BY <2>1, <2>2, <2>3, FS_CardinalityType, StrongHolding
    DEF CountInv, NothingLost, TypeOK, Fits
<1>3. Holding' = Users'
  BY DEF Holding, Users, Alive
<1>4. SUFFICES /\ Cardinality(Users') = Len(pool'.items) - pool'.total
               /\ Cardinality(Users') = stats'.acquires - stats'.releases
  BY <1>1, <1>3 DEF CountInv, NothingLost
<1>fits. Fits(pool, Objects)
  BY <1>2
<1>5. ASSUME NEW n \in Objects, Create(n)
      PROVE  /\ Cardinality(Users') = Len(pool'.items) - pool'.total
             /\ Cardinality(Users') = stats'.acquires - stats'.releases
  <2> DEFINE new == [i \in 1 .. n |-> allocated + i]
  <2>1. new \in Seq(Objects) /\ Len(new) = n
    <3>1. \A i \in 1 .. n : allocated + i \in Objects
      BY <1>5 DEF Create, CountInv, StackInv, TypeOK, Objects
    <3> QED
      BY <3>1 DEF Objects
  <2>2. pool' = Created(pool, new) /\ Users' = Users /\ stats' = stats
    BY <1>5 DEF Create, Users
  <2>3. n \in Nat
    BY DEF Objects
  <2> HIDE DEF new
  <2>4. /\ pool'.total = pool.total + n
        /\ Len(pool'.items) = Len(pool.items) + n
    BY <1>fits, <2>1, <2>2, CreatedPool
  <2> QED
    BY <1>2, <2>2, <2>3, <2>4
<1>6. ASSUME NEW n \in Objects, Destroy(n)
      PROVE  /\ Cardinality(Users') = Len(pool'.items) - pool'.total
             /\ Cardinality(Users') = stats'.acquires - stats'.releases
  <2>1. pool' = Destroyed(pool, n) /\ Users' = Users /\ stats' = stats
    BY <1>6 DEF Destroy, Users
  <2>2. Len(pool'.items) - pool'.total = Len(pool.items) - pool.total
    <3>1. n \in Nat
      BY DEF Objects
    <3> QED
      BY <1>fits, <2>1, <3>1, DestroyedPool
  <2> QED
    BY <1>2, <2>1, <2>2
<1>7. ASSUME NEW h \in Holders, Acquire(h)
      PROVE  /\ Cardinality(Users') = Len(pool'.items) - pool'.total
             /\ Cardinality(Users') = stats'.acquires - stats'.releases
  <2>1. CASE CanAcquire(pool)
    <3>1. /\ lent[h] = None /\ lent' = [lent EXCEPT ![h] = Top(pool)]
          /\ pool' = Acquired(pool) /\ stats' = [stats EXCEPT !.acquires = @ + 1]
      BY <1>7, <2>1 DEF Acquire
    <3>2. pool.total \in 1 .. Len(pool.items)
      BY <1>2, <2>1 DEF CanAcquire
    <3>3. Top(pool) # None
      <4>1. Top(pool) \in Objects
        BY <3>2, ElementOfSeq DEF Top, CountInv, StackInv, TypeOK, Pools
      <4> QED
        BY <4>1 DEF Objects, None
    <3>4. Users' = Users \cup {h} /\ h \notin Users
      BY <1>2, <3>1, <3>3 DEF Users
    <3>5. Cardinality(Users') = Cardinality(Users) + 1
      BY <1>2, <3>4, FS_AddElement
    <3>6. pool'.items = pool.items /\ pool'.total = pool.total - 1
      BY <1>2, <3>1 DEF Acquired, Fits, Pools
    <3>7. stats'.acquires = stats.acquires + 1 /\ stats'.releases = stats.releases
      BY <1>2, <3>1
    <3> QED
      BY <1>2, <3>5, <3>6, <3>7
  <2>2. CASE ~CanAcquire(pool)
    <3>1. /\ pool' = pool /\ Users' = Users
          /\ stats'.acquires = stats.acquires /\ stats'.releases = stats.releases
      BY <1>2, <1>7, <2>2 DEF Acquire, Users
    <3> QED
      BY <1>2, <3>1
  <2> QED
    BY <2>1, <2>2
<1>8. ASSUME NEW h \in Holders, Release(h)
      PROVE  /\ Cardinality(Users') = Len(pool'.items) - pool'.total
             /\ Cardinality(Users') = stats'.acquires - stats'.releases
  <2>1. h \in Users /\ lent[h] \in Objects
    BY <1>2, <1>8 DEF Release, Holding, Users
  <2>2. Users' = Users \ {h}
    BY <1>2, <1>8 DEF Release, Users
  <2>3. Cardinality(Users') = Cardinality(Users) - 1 /\ Cardinality(Users') \in Nat
    BY <1>2, <2>1, <2>2, FS_RemoveElement, FS_CardinalityType
  <2>4. CanRelease(pool)
    BY <1>2, <2>3 DEF CanRelease
  <2>5. pool'.total = pool.total + 1 /\ Len(pool'.items) = Len(pool.items)
    BY <1>fits, <1>8, <2>1, <2>4, ReleasedPool DEF Release
  <2>6. stats'.acquires = stats.acquires /\ stats'.releases = stats.releases + 1
    BY <1>2, <1>8, <2>4 DEF Release
  <2> QED
    BY <1>2, <2>3, <2>5, <2>6
<1>9. ASSUME NEW h \in Holders, Forget(h) PROVE FALSE
  BY <1>9, StrongHolding DEF Forget, Users
<1>10. CASE UNCHANGED vars
  BY <1>2, <1>10 DEF vars, Users
<1> QED
  BY <1>5, <1>6, <1>7, <1>8, <1>9, <1>10 DEF Next

\* A pool whose holders keep shared pointers loses no capacity, and release
\* never drops an object in use, for any number of holders and objects.
THEOREM NeverLost == Strong /\ ~GrowInUse => (Spec => []NothingLost)
<1> SUFFICES ASSUME Strong, ~GrowInUse PROVE Spec => []NothingLost
  OBVIOUS
<1>1. Init => CountInv
  BY CountInit
<1>2. CountInv /\ [Next]_vars => CountInv'
  BY CountStep
<1>3. CountInv => NothingLost
  BY DEF CountInv
<1> QED
  BY <1>1, <1>2, <1>3, PTL DEF Spec

-----------------------------------------------------------------------------
(***************************************************************************)
(* Cache implements ObjectPool                                             *)
(***************************************************************************)

\* A pool that is constructed is an abstract pool.
LEMMA PoolInit == Init => Pool!Init
BY EmptySeq DEF Init, Pool!Init, EmptyPool, FreeObjects

\* Every call is a step of the pool or changes nothing the pool shows: an
\* acquire that fails, a destroy that finds nothing free.
LEMMA PoolStep ==
  ASSUME Strong, ~GrowInUse, CountInv, [Next]_vars
  PROVE  [Pool!Next]_(Pool!vars)
<1> USE CacheAssumption
<1>1. /\ Fits(pool, Objects)
      /\ pool.total \in 0 .. Len(pool.items) /\ Len(pool.items) \in Nat
      /\ lent \in [Holders -> Objects \cup {None}]
      /\ None \notin Objects
      /\ \A i \in 1 .. Len(pool.items) : pool.items[i] \in Objects
  <2>1. pool.items \in Seq(Objects)
    BY DEF CountInv, StackInv, TypeOK, Pools
  <2> QED
    BY <2>1, LenProperties, ElementOfSeq
    DEF CountInv, StackInv, TypeOK, Pools, Fits, Objects, None
<1>fits. Fits(pool, Objects)
  BY <1>1
<1>2. /\ \A i, j \in 1 .. pool.total : pool.items[i] = pool.items[j] => i = j
      /\ \A i \in 1 .. pool.total, h \in Holders : pool.items[i] # lent[h]
      /\ \A i \in 1 .. Len(pool.items) : pool.items[i] <= allocated
      /\ \A h \in Holders : lent[h] <= allocated
      /\ allocated \in Nat
  <2>1. FreeStack /\ Numbered /\ allocated \in 0 .. MaxObjects
    BY DEF CountInv, StackInv, TypeOK
  <2>2. allocated \in Nat
    BY <2>1
  <2> QED
    BY <2>1, <2>2 DEF FreeStack, Numbered
<1>3. ASSUME NEW n \in Objects, Create(n) PROVE Pool!Grow
  <2> DEFINE new == [i \in 1 .. n |-> allocated + i]
             more == {allocated + i : i \in 1 .. n}
  <2>1. \A i \in 1 .. n : allocated + i \in Objects /\ allocated + i > allocated
    BY <1>2, <1>3 DEF Create, Objects
  <2>2. /\ n \in Nat /\ new \in Seq(Objects) /\ Len(new) = n
        /\ \A i \in 1 .. n : new[i] = allocated + i
    BY <2>1 DEF Objects
  <2>3. pool' = Created(pool, new) /\ lent' = lent /\ pool.total = Len(pool.items)
    BY <1>1, <1>3 DEF Create, CanRelease
  <2> HIDE DEF new
  <2>4. /\ pool'.total = pool.total + n
        /\ \A i \in 1 .. pool.total + n :
             pool'.items[i] = IF i <= pool.total THEN pool.items[i] ELSE new[i - pool.total]
    <3>1. /\ pool'.total = pool.total + n
          /\ Len(pool'.items) = Len(pool.items) + n
          /\ \A i \in 1 .. Len(pool'.items) :
               pool'.items[i] = IF i <= Len(pool.items) THEN pool.items[i]
                                                        ELSE new[i - Len(pool.items)]
      <4>1. ASSUME NEW s \in Seq(Objects)
            PROVE  LET q == Created(pool, s)
                   IN /\ q.total = pool.total + Len(s)
                      /\ Len(q.items) = Len(pool.items) + Len(s)
                      /\ \A i \in 1 .. Len(q.items) :
                           q.items[i] = IF i <= Len(pool.items) THEN pool.items[i]
                                                                ELSE s[i - Len(pool.items)]
        BY <1>fits, CreatedPool
      <4> QED
        BY <2>2, <2>3, <4>1
    <3> QED
      BY <2>3, <3>1
  <2>5. ASSUME NEW i \in 1 .. pool.total + n
        PROVE  pool'.items[i] \in FreeObjects(pool) \cup more
    <3>1. CASE i <= pool.total
      BY <1>1, <2>4, <3>1 DEF FreeObjects
    <3>2. CASE ~(i <= pool.total)
      <4>1. i - pool.total \in 1 .. n
        BY <1>1, <2>2, <3>2
      <4>2. pool'.items[i] = allocated + (i - pool.total)
        BY <2>2, <2>4, <3>2, <4>1
      <4> QED
        BY <4>1, <4>2
    <3> QED BY <3>1, <3>2
  <2>6. ASSUME NEW o \in FreeObjects(pool) PROVE o \in FreeObjects(pool')
    <3>1. PICK i \in 1 .. pool.total : o = pool.items[i]
      BY DEF FreeObjects
    <3>2. i \in 1 .. pool.total + n /\ i <= pool.total
      BY <1>1, <2>2
    <3> QED
      BY <2>4, <3>1, <3>2 DEF FreeObjects
  <2>7. ASSUME NEW o \in more PROVE o \in FreeObjects(pool')
    <3>1. PICK i \in 1 .. n : o = allocated + i
      OBVIOUS
    <3> DEFINE k == pool.total + i
    <3>2. k \in 1 .. pool.total + n /\ ~(k <= pool.total) /\ k - pool.total = i
      BY <1>1, <2>2
    <3> HIDE DEF k
    <3>3. pool'.items[k] = new[k - pool.total]
      BY <2>4, <3>2
    <3>4. pool'.items[k] = o
      BY <2>2, <3>1, <3>2, <3>3
    <3> QED
      BY <2>4, <3>2, <3>4 DEF FreeObjects
  <2>8. FreeObjects(pool') = FreeObjects(pool) \cup more
    <3>1. \A o \in FreeObjects(pool') : \E i \in 1 .. pool.total + n : o = pool'.items[i]
      BY <2>4 DEF FreeObjects
    <3> HIDE DEF more
    <3> QED
      BY <2>5, <2>6, <2>7, <3>1
  <2>9. more \in SUBSET (Objects \ (FreeObjects(pool) \cup Pool!Held))
    <3> SUFFICES ASSUME NEW i \in 1 .. n
                 PROVE  /\ allocated + i \in Objects
                        /\ allocated + i \notin FreeObjects(pool)
                        /\ allocated + i \notin Pool!Held
      OBVIOUS
    <3>1. allocated + i \in Objects /\ allocated + i > allocated
      BY <2>1
    <3>2. ASSUME NEW o \in FreeObjects(pool) PROVE o # allocated + i
      <4>1. PICK j \in 1 .. pool.total : o = pool.items[j]
        BY DEF FreeObjects
      <4>2. o <= allocated /\ o \in Int
        BY <1>1, <1>2, <4>1 DEF Objects
      <4> QED
        BY <1>2, <3>1, <4>2
    <3>3. ASSUME NEW o \in Pool!Held PROVE o # allocated + i
      <4>1. PICK h \in Holders : o = lent[h]
        BY DEF Pool!Held
      <4>2. o <= allocated /\ o \in Int
        BY <1>1, <1>2, <4>1 DEF Objects, None
      <4> QED
        BY <1>2, <3>1, <4>2
    <3> QED
      BY <3>1, <3>2, <3>3
  <2> HIDE DEF more
  <2> QED
    BY <2>3, <2>8, <2>9 DEF Pool!Grow
<1>4. ASSUME NEW n \in Objects, Destroy(n) PROVE Pool!Shrink
  <2>1. pool' = Destroyed(pool, n) /\ lent' = lent /\ n \in Nat
    BY <1>4 DEF Destroy, Objects
  <2>2. /\ pool'.total <= pool.total /\ Fits(pool', Objects)
        /\ \A i \in 1 .. pool'.total : pool'.items[i] = pool.items[i]
    BY <1>fits, <2>1, DestroyedPool
  <2>3. \A i \in 1 .. pool'.total : i \in 1 .. pool.total
    BY <1>1, <2>2 DEF Fits, Pools
  <2>4. FreeObjects(pool') \in SUBSET FreeObjects(pool)
    BY <2>2, <2>3 DEF FreeObjects
  <2> QED
    BY <2>1, <2>4 DEF Pool!Shrink
<1>5. ASSUME NEW h \in Holders, Acquire(h) PROVE Pool!Lend(h) \/ UNCHANGED Pool!vars
  <2>1. CASE ~CanAcquire(pool)
    BY <1>5, <2>1 DEF Acquire, Pool!vars
  <2>2. CASE CanAcquire(pool)
    <3>1. /\ lent[h] = None /\ lent' = [lent EXCEPT ![h] = Top(pool)]
          /\ pool' = Acquired(pool)
      BY <1>5, <2>2 DEF Acquire
    <3>2. /\ pool.total \in 1 .. pool.total /\ Top(pool) = pool.items[pool.total]
          /\ pool'.items = pool.items /\ pool'.total = pool.total - 1
      BY <1>1, <2>2, <3>1 DEF Top, CanAcquire, Acquired, Fits, Pools
    <3>3. \A i \in 1 .. pool.total : i \in 1 .. pool.total - 1 <=> i # pool.total
      BY <1>1
    <3>4. \A i \in 1 .. pool.total - 1 : i \in 1 .. pool.total
      BY <1>1
    <3>5. FreeObjects(pool') = FreeObjects(pool) \ {Top(pool)}
      <4>1. ASSUME NEW o \in FreeObjects(pool') PROVE o \in FreeObjects(pool) /\ o # Top(pool)
        <5>1. PICK i \in 1 .. pool.total - 1 : o = pool.items[i]
          BY <3>2 DEF FreeObjects
        <5> QED
          BY <1>2, <3>2, <3>3, <3>4, <5>1 DEF FreeObjects
      <4>2. ASSUME NEW o \in FreeObjects(pool), o # Top(pool) PROVE o \in FreeObjects(pool')
        <5>1. PICK i \in 1 .. pool.total : o = pool.items[i]
          BY DEF FreeObjects
        <5> QED
          BY <3>2, <3>3, <4>2, <5>1 DEF FreeObjects
      <4> QED
        BY <4>1, <4>2
    <3>6. Top(pool) \in FreeObjects(pool)
      BY <3>2 DEF FreeObjects
    <3> QED
      BY <3>1, <3>5, <3>6 DEF Pool!Lend
  <2> QED
    BY <2>1, <2>2
<1>6. ASSUME NEW h \in Holders, Release(h) PROVE Pool!GiveBack(h)
  <2>1. /\ lent[h] # None /\ lent[h] \in Objects /\ h \in Users
        /\ pool' = Released(pool, lent[h]) /\ lent' = [lent EXCEPT ![h] = None]
    BY <1>1, <1>6 DEF Release, Holding, Users
  <2>2. CanRelease(pool)
    <3>1. IsFiniteSet(Users)
      <4>1. Users \subseteq Holders
        BY DEF Users
      <4> QED
        BY <4>1, FS_Subset
    <3>2. Cardinality(Users) \in Nat /\ Cardinality(Users) # 0
      BY <2>1, <3>1, FS_CardinalityType, FS_EmptySet
    <3>3. Cardinality(Users) = Len(pool.items) - pool.total
      BY StrongHolding DEF CountInv, NothingLost
    <3> QED
      BY <1>1, <3>2, <3>3 DEF CanRelease
  <2>3. /\ pool'.total = pool.total + 1
        /\ Len(pool'.items) = Len(pool.items)
        /\ \A i \in 1 .. Len(pool.items) :
             pool'.items[i] = IF i = pool.total + 1 THEN lent[h] ELSE pool.items[i]
    BY <1>fits, <2>1, <2>2, ReleasedPool
  <2>4. /\ pool.total + 1 \in 1 .. pool.total + 1
        /\ \A i \in 1 .. pool.total + 1 : i \in 1 .. Len(pool.items)
        /\ \A i \in 1 .. pool.total + 1 : i # pool.total + 1 => i \in 1 .. pool.total
        /\ \A i \in 1 .. pool.total : i \in 1 .. pool.total + 1 /\ i # pool.total + 1
    BY <1>1, <2>2 DEF CanRelease
  <2>5. FreeObjects(pool') = FreeObjects(pool) \cup {lent[h]}
    <3>1. ASSUME NEW o \in FreeObjects(pool') PROVE o \in FreeObjects(pool) \/ o = lent[h]
      <4>1. PICK i \in 1 .. pool.total + 1 : o = pool'.items[i]
        BY <2>3 DEF FreeObjects
      <4> QED
        BY <2>3, <2>4, <4>1 DEF FreeObjects
    <3>2. ASSUME NEW o \in FreeObjects(pool) PROVE o \in FreeObjects(pool')
      <4>1. PICK i \in 1 .. pool.total : o = pool.items[i]
        BY DEF FreeObjects
      <4> QED
        BY <2>3, <2>4, <4>1 DEF FreeObjects
    <3>3. lent[h] \in FreeObjects(pool')
      BY <2>3, <2>4 DEF FreeObjects
    <3> QED
      BY <3>1, <3>2, <3>3
  <2> QED
    BY <2>1, <2>5 DEF Pool!GiveBack
<1>7. ASSUME NEW h \in Holders, Forget(h) PROVE FALSE
  BY <1>7, StrongHolding DEF Forget, Users
<1>8. CASE UNCHANGED vars
  BY <1>8 DEF vars, Pool!vars
<1> QED
  BY <1>3, <1>4, <1>5, <1>6, <1>7, <1>8 DEF Next, Pool!Next

\* Cache<T> with holders that keep shared pointers implements the pool of
\* reusable objects, for any number of holders, objects and calls.
THEOREM CacheIsPool == Strong /\ ~GrowInUse => (Spec => ImplementsPool)
<1> SUFFICES ASSUME Strong, ~GrowInUse PROVE Spec => ImplementsPool
  OBVIOUS
<1>1. Init => CountInv
  BY CountInit
<1>2. CountInv /\ [Next]_vars => CountInv'
  BY CountStep
<1>3. CountInv /\ [Next]_vars => [Pool!Next]_(Pool!vars)
  BY PoolStep
<1> QED
  BY <1>1, <1>2, <1>3, PoolInit, PTL DEF Spec, ImplementsPool, Pool!Spec

=============================================================================
