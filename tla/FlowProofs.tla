----------------------------- MODULE FlowProofs -----------------------------
(***************************************************************************)
(* Proofs about what is kept for the flows of a layer: the flow table that *)
(* finds and drops them (FlowManager), and the infos and shared strings of *)
(* the application protocols over it (AppInfos and the protocols).         *)
(***************************************************************************)
EXTENDS FlowManager, HTTPProtocol, MailProtocols, SSLProtocol, DatagramProtocols, SharedLemmas

-----------------------------------------------------------------------------
(***************************************************************************)
(* The flow table, for every set of flows, every timeout and packet times  *)
(* without bound.                                                          *)
(***************************************************************************)

\* InOrder is inductive once "the same flows, each once" is said entry by
\* entry: erase and insert move entries, and a cardinality tells nothing of
\* where they go.
IndexInv ==
  /\ TableTypeOK
  /\ Indexes(order, table)
  /\ ~touched => Sorted(order, time)

\* An empty table is indexed.
LEMMA IndexInit == TableInit => IndexInv
<1> SUFFICES ASSUME TableInit PROVE IndexInv
  OBVIOUS
<1>1. order = <<>> /\ Len(order) = 0 /\ table = {}
  BY EmptySeq DEF TableInit
<1>2. order \in Seq(Ids) /\ order \in Seq(table)
  BY <1>1, EmptySeq
<1>3. TableTypeOK
  <2>1. table \subseteq Ids /\ time \in [Ids -> Times]
    BY FlowManagerAssumption DEF TableInit, Times
  <2>2. swept \in Times \cup {Never} /\ touched \in BOOLEAN
    BY DEF TableInit
  <2> QED
    BY <1>2, <2>1, <2>2 DEF TableTypeOK
<1> QED
  BY <1>1, <1>2, <1>3 DEF IndexInv, Indexes, Sorted

\* A flow that gets a time the index is told of stays in order.
LEMMA IndexStep == IndexInv /\ [TableNext]_tableVars => IndexInv'
<1> USE FlowManagerAssumption
<1> SUFFICES ASSUME IndexInv, [TableNext]_tableVars PROVE IndexInv'
  OBVIOUS
<1>1. /\ TableTypeOK
      /\ Indexes(order, table)
      /\ ~touched => Sorted(order, time)
      /\ table \subseteq Ids
      /\ time \in [Ids -> Int] /\ time \in [Ids -> Times] /\ Times \subseteq Int
  BY DEF IndexInv, TableTypeOK, Times
<1>typed. ASSUME NEW T \in SUBSET Ids, NEW s, Indexes(s, T) PROVE s \in Seq(Ids)
  <2>1. s \in Seq(T)
    BY <1>typed DEF Indexes
  <2> QED
    BY <2>1, SeqMonotonic
<1>2. ASSUME NEW id \in Ids, NEW t \in Times, AddFlow(id, t) PROVE IndexInv'
  <2>1. /\ id \notin table /\ table' = table \cup {id}
        /\ time' = [time EXCEPT ![id] = t] /\ order' \in Inserted(order, time', id)
        /\ swept' = Never /\ touched' = touched
    BY <1>2 DEF AddFlow
  <2>2. Indexes(order', table')
    BY <1>1, <2>1, InsertedIndex
  <2>3. time' \in [Ids -> Times] /\ time' \in [Ids -> Int]
    BY <1>1, <2>1
  <2>4. ~touched => Sorted(order', time')
    <3>1. \A a \in table : time'[a] = time[a]
      BY <1>1, <2>1
    <3>2. ~touched => Sorted(order, time')
      BY <1>1, <3>1, SortedElsewhere
    <3> QED
      BY <1>1, <2>1, <2>3, <3>2, InsertedSorted
  <2>5. TableTypeOK'
    BY <1>1, <1>typed, <2>1, <2>2, <2>3 DEF TableTypeOK
  <2> QED
    BY <2>1, <2>2, <2>4, <2>5 DEF IndexInv
<1>3. ASSUME NEW id \in Ids, RemoveFlow(id) PROVE IndexInv'
  <2>1. /\ id \in table /\ table' = table \ {id} /\ order' = Without(order, id)
        /\ swept' = Never /\ time' = time /\ touched' = touched
    BY <1>3 DEF RemoveFlow
  <2>2. Indexes(order', table')
    BY <1>1, <2>1, WithoutIndex
  <2>3. ~touched => Sorted(order', time')
    BY <1>1, <2>1, WithoutSorted
  <2>4. TableTypeOK'
    BY <1>1, <1>typed, <2>1, <2>2 DEF TableTypeOK
  <2> QED
    BY <2>1, <2>2, <2>3, <2>4 DEF IndexInv
<1>4. ASSUME NEW id \in Ids, NEW t \in Times, UpdateFlowTime(id, t) PROVE IndexInv'
  <2>1. /\ id \in table /\ table' = table
        /\ time' = [time EXCEPT ![id] = t] /\ order' \in Reindexed(order, time', id)
        /\ swept' = Never /\ touched' = touched
    BY <1>4 DEF UpdateFlowTime
  <2>2. Indexes(order', table')
    BY <1>1, <2>1, ReindexedIndex
  <2>3. /\ time' \in [Ids -> Times] /\ time' \in [Ids -> Int]
        /\ \A a \in Ids : a # id => time'[a] = time[a]
    BY <1>1, <2>1
  <2>4. ~touched => Sorted(order', time')
    BY <1>1, <2>1, <2>3, ReindexedSorted
  <2>5. TableTypeOK'
    BY <1>1, <1>typed, <2>1, <2>2, <2>3 DEF TableTypeOK
  <2> QED
    BY <2>1, <2>2, <2>4, <2>5 DEF IndexInv
<1>5. ASSUME NEW id \in Ids, NEW t \in Times, SetLastPacketTime(id, t) PROVE IndexInv'
  BY <1>1, <1>5 DEF SetLastPacketTime, IndexInv, TableTypeOK
<1>6. ASSUME NEW now \in Times, UpdateTimers(now) PROVE IndexInv'
  <2> DEFINE old == Expired(order, time, Timeout, now)
             n == Len(old)
  <2>1. /\ order' = SubSeq(order, n + 1, Len(order)) /\ table' = table \ ToSet(old)
        /\ swept' = now /\ time' = time /\ touched' = touched
    BY <1>6 DEF UpdateTimers
  <2>2. /\ old \in Seq(table) /\ n \in 0 .. Len(order)
        /\ \A i \in 1 .. n : old[i] = order[i]
    BY <1>1, ExpiredPrefix
  <2>3. ToSet(old) = {order[i] : i \in 1 .. n}
    <3>1. DOMAIN old = 1 .. n
      BY <2>2, LenProperties
    <3> QED
      BY <2>2, <3>1 DEF ToSet
  <2> HIDE DEF n, old
  <2>4. /\ Indexes(order', table')
        /\ Len(order') = Len(order) - n
        /\ \A i \in 1 .. Len(order') : order'[i] = order[n + i]
    <3> DEFINE rest == SubSeq(order, n + 1, Len(order))
    <3>1. /\ Indexes(rest, table \ {order[i] : i \in 1 .. n})
          /\ Len(rest) = Len(order) - n
          /\ \A i \in 1 .. Len(rest) : rest[i] = order[n + i]
      BY <1>1, <2>2, SuffixIndex
    <3>2. order' = rest
      BY <2>1
    <3> HIDE DEF rest
    <3> QED
      BY <2>1, <2>3, <3>1, <3>2
  <2>5. ~touched => Sorted(order', time')
    <3> SUFFICES ASSUME ~touched, NEW i \in 1 .. Len(order'), NEW j \in 1 .. Len(order'), i < j
                 PROVE  time[order'[i]] <= time[order'[j]]
      BY <2>1 DEF Sorted
    <3>1. Len(order) \in Nat
      BY <1>1, LenProperties DEF Indexes
    <3>2. n + i \in 1 .. Len(order) /\ n + j \in 1 .. Len(order) /\ n + i < n + j
      BY <2>2, <2>4, <3>1
    <3> QED
      BY <1>1, <2>4, <3>2 DEF Sorted
  <2>6. TableTypeOK'
    BY <1>1, <1>typed, <2>1, <2>4 DEF TableTypeOK
  <2> QED
    BY <2>1, <2>4, <2>5, <2>6 DEF IndexInv
<1>7. CASE UNCHANGED tableVars
  BY <1>1, <1>7 DEF tableVars, IndexInv, TableTypeOK
<1> QED
  BY <1>2, <1>3, <1>4, <1>5, <1>6, <1>7 DEF TableNext

\* The two indexes of the table stay one, whatever its users do.
LEMMA IndexAlways == TableSpec => []IndexInv
BY IndexInit, IndexStep, PTL DEF TableSpec

\* FlowManager.h:56: the index holds the flows of the table, each once, and is
\* ordered by the last activity as long as it is told of every change.
THEOREM IndexInOrder == TableSpec => []InOrder
<1>1. IndexInv => InOrder
  <2> SUFFICES ASSUME IndexInv PROVE InOrder
    OBVIOUS
  <2>1. ToSet(order) = table /\ Cardinality(table) = Len(order)
    BY IndexCount DEF IndexInv
  <2> QED
    BY <2>1 DEF IndexInv, InOrder, IndexesAgree
<1> QED
  BY <1>1, IndexAlways, PTL

-----------------------------------------------------------------------------

\* FlowManager.cc:166: updateTimers may stop at the first flow that is not old:
\* in an index that is in order, none behind it is.
LEMMA TimersStep == IndexInv /\ TimersComplete /\ [TableNext]_tableVars => TimersComplete'
<1> USE FlowManagerAssumption
<1> SUFFICES ASSUME IndexInv, TimersComplete, [TableNext]_tableVars PROVE TimersComplete'
  OBVIOUS
<1>1. CASE UNCHANGED tableVars
  BY <1>1 DEF tableVars, TimersComplete, IsOld
<1>2. ASSUME NEW now \in Times, UpdateTimers(now) PROVE TimersComplete'
  <2> DEFINE old == Expired(order, time, Timeout, now)
             n == Len(old)
  <2>1. /\ Indexes(order, table) /\ time \in [Ids -> Times] /\ table \subseteq Ids
        /\ ~touched => Sorted(order, time)
    BY DEF IndexInv, TableTypeOK
  <2>2. /\ old \in Seq(table) /\ n \in 0 .. Len(order)
        /\ \A i \in 1 .. n : old[i] = order[i]
        /\ n < Len(order) => ~IsOld(time, order[n + 1], Timeout, now)
    BY <2>1, ExpiredPrefix
  <2>3. ToSet(old) = {order[i] : i \in 1 .. n}
    <3>1. DOMAIN old = 1 .. n
      BY <2>2, LenProperties
    <3> QED
      BY <2>2, <3>1 DEF ToSet
  <2>4. table' = table \ ToSet(old) /\ swept' = now /\ time' = time /\ touched' = touched
    BY <1>2 DEF UpdateTimers
  <2> HIDE DEF n, old
  <2>5. ASSUME ~touched, NEW id \in table \ ToSet(old) PROVE ~IsOld(time, id, Timeout, now)
    <3>1. PICK i \in 1 .. Len(order) : order[i] = id
      BY <2>1, <2>5 DEF Indexes
    <3>2. Len(order) \in Nat /\ ~(i \in 1 .. n)
      BY <2>1, <2>3, <2>5, <3>1, LenProperties DEF Indexes
    <3>3. n < Len(order) /\ n + 1 \in 1 .. Len(order) /\ (i = n + 1 \/ n + 1 < i)
      BY <2>2, <3>2
    <3>4. time[order[n + 1]] <= time[id]
      <4>1. order[n + 1] \in Ids /\ id \in Ids
        BY <2>1, <2>5, <3>3, ElementOfSeq DEF Indexes
      <4>2. time[order[n + 1]] \in Int
        BY <2>1, <4>1 DEF Times
      <4> QED
        BY <2>1, <2>5, <3>1, <3>3, <4>2 DEF Sorted
    <3>5. time[order[n + 1]] \in Int /\ time[id] \in Int /\ now \in Int /\ Timeout \in Int
      <4>1. order[n + 1] \in Ids /\ id \in Ids
        BY <2>1, <2>5, <3>3, ElementOfSeq DEF Indexes
      <4> QED
        BY <2>1, <4>1 DEF Times
    <3> QED
      BY <2>2, <3>3, <3>4, <3>5 DEF IsOld
  <2> QED
    BY <2>4, <2>5 DEF TimersComplete, IsOld
<1>3. ASSUME swept' = Never PROVE TimersComplete'
  BY <1>3 DEF TimersComplete
<1> QED
  BY <1>1, <1>2, <1>3 DEF TableNext, AddFlow, RemoveFlow, UpdateFlowTime, SetLastPacketTime

\* FlowManager.cc:166: when updateTimers returns, no old flow is left in a table
\* that was told of every change.
THEOREM NoOldFlowLeft == TableSpec => []TimersComplete
<1>1. TableInit => TimersComplete
  BY DEF TableInit, TimersComplete
<1> QED
  BY <1>1, TimersStep, IndexAlways, PTL DEF TableSpec

-----------------------------------------------------------------------------
(***************************************************************************)
(* The strings that flows share: until releaseCache objects only leave the *)
(* free stack, and an object that left it keeps the name it was given.     *)
(***************************************************************************)

\* A pool of strings that lends what its map and the infos have: no entry has a
\* free object, and each has the name that its object has.
StringsSound(s, n) ==
  /\ s \in Strings(1 .. n)
  /\ s.pool.items = [o \in 1 .. n |-> o] /\ s.pool.total \in 0 .. n
  /\ \A e \in s.map : e.obj > s.pool.total /\ s.name[e.obj] = e.key
  /\ \A d, e \in s.map : d.obj = e.obj \/ d.key = e.key => d = e

\* What attach_host and the like do to the strings s of n objects, for a name.
LEMMA AttachedSound ==
  ASSUME NEW n \in Nat, NEW s, StringsSound(s, n),
         NEW name \in Names, 0 \notin Names, NEW count \in BOOLEAN, NEW r \in Attached(s, name, count)
  PROVE  /\ StringsSound(r.strs, n)
         /\ r.strs.pool.total <= s.pool.total
         /\ \A o \in s.pool.total + 1 .. n : r.strs.name[o] = s.name[o]
         /\ r.obj # None => r.obj \in r.strs.pool.total + 1 .. n /\ r.strs.name[r.obj] = name
         /\ \A e \in r.strs.map :
              \/ \E d \in s.map : d.obj = e.obj /\ e.hits = d.hits + (IF count /\ e.obj = r.obj THEN 1 ELSE 0)
              \/ e.obj = r.obj /\ e.obj <= s.pool.total /\ e.hits = 1
<1> DEFINE Entries == [obj : 1 .. n, key : Names, hits : Int]
           match == {e \in s.map : e.key = name}
<1>1. /\ s.pool \in [items : Seq(1 .. n \cup {None}), total : Nat]
      /\ s.name \in [1 .. n -> Names \cup {None}] /\ s.map \subseteq Entries
      /\ s = [pool |-> s.pool, name |-> s.name, map |-> s.map]
  BY DEF StringsSound, Strings, Pools
<1>2. /\ s.pool.items = [o \in 1 .. n |-> o] /\ s.pool.total \in 0 .. n
      /\ \A e \in s.map : e.obj > s.pool.total /\ s.name[e.obj] = e.key
      /\ \A d, e \in s.map : d.obj = e.obj \/ d.key = e.key => d = e
  BY DEF StringsSound
<1>3. Finds(s, name).hits = match /\ (Finds(s, name).misses <=> match = {})
  <2>1. {e \in s.map : IsStale(s, e)} = {}
    BY <1>2 DEF IsStale
  <2> QED
    BY <2>1 DEF Finds
<1>4. ASSUME NEW e \in match, r = [strs |-> Hit(s, e, IF count THEN 1 ELSE 0), obj |-> e.obj]
      PROVE  /\ StringsSound(r.strs, n)
             /\ r.strs.pool = s.pool /\ r.strs.name = s.name /\ r.obj = e.obj
             /\ r.obj \in s.pool.total + 1 .. n /\ s.name[r.obj] = name
             /\ \A d \in r.strs.map : \E c \in s.map :
                  d.obj = c.obj /\ d.hits = c.hits + (IF count /\ d.obj = r.obj THEN 1 ELSE 0)
  <2> DEFINE by == IF count THEN 1 ELSE 0
             new == [obj |-> e.obj, key |-> e.key, hits |-> e.hits + by]
             map == (s.map \ {e}) \cup {new}
  <2>1. e \in Entries /\ e \in s.map /\ e.key = name /\ by \in Int
    BY <1>1
  <2>2. [e EXCEPT !.hits = @ + by] = new
    BY <2>1
  <2>3. r.strs = [pool |-> s.pool, name |-> s.name, map |-> map] /\ r.obj = e.obj
    <3> HIDE DEF by, new
    <3>a. \A X : [s EXCEPT !.map = X] = [pool |-> s.pool, name |-> s.name, map |-> X]
      BY <1>1
    <3>b. Hit(s, e, by) = [s EXCEPT !.map = map]
      BY <2>2 DEF Hit
    <3>1. Hit(s, e, by) = [pool |-> s.pool, name |-> s.name, map |-> map]
      <4> HIDE DEF map
      <4> QED
        BY <3>a, <3>b
    <3> QED
      BY <1>4, <3>1 DEF by
  <2>4. new \in Entries
    <3>1. e.obj \in 1 .. n /\ e.key \in Names /\ e.hits + by \in Int
      BY <2>1
    <3> HIDE DEF by
    <3> QED
      BY <3>1
  <2>5. new.obj = e.obj /\ new.key = e.key /\ new.hits = e.hits + by
    OBVIOUS
  <2> HIDE DEF new
  <2>6. r.strs.pool = s.pool /\ r.strs.name = s.name /\ r.strs.map = map
    BY <2>3
  <2>7. r.strs \in Strings(1 .. n)
    BY <1>1, <2>3, <2>4 DEF Strings, Pools
  <2>8. \A d \in map : d.obj > s.pool.total /\ s.name[d.obj] = d.key
    BY <1>2, <2>1, <2>5
  <2>9. \A c, d \in map : c.obj = d.obj \/ c.key = d.key => c = d
    BY <1>2, <2>1, <2>5
  <2>10. StringsSound(r.strs, n)
    BY <1>2, <2>6, <2>7, <2>8, <2>9 DEF StringsSound
  <2>11. r.obj \in s.pool.total + 1 .. n /\ s.name[r.obj] = name
    <3>1. e.obj \in 1 .. n /\ e.obj > s.pool.total /\ s.name[e.obj] = name
      BY <1>2, <2>1
    <3> QED
      BY <1>2, <2>3, <3>1
  <2>12. \A d \in map : \E c \in s.map :
           d.obj = c.obj /\ d.hits = c.hits + (IF count /\ d.obj = r.obj THEN 1 ELSE 0)
    <3> SUFFICES ASSUME NEW d \in map
                 PROVE  \E c \in s.map :
                   d.obj = c.obj /\ d.hits = c.hits + (IF count /\ d.obj = r.obj THEN 1 ELSE 0)
      OBVIOUS
    <3>1. CASE d = new
      <4>1. d.obj = e.obj /\ d.hits = e.hits + (IF count /\ d.obj = r.obj THEN 1 ELSE 0)
        BY <2>3, <2>5, <3>1
      <4> QED
        BY <2>1, <4>1
    <3>2. CASE d # new
      <4>1. d \in s.map /\ d # e /\ d \in Entries
        BY <1>1, <3>2
      <4>2. d.obj # e.obj /\ d.hits \in Int
        BY <1>2, <2>1, <4>1
      <4>3. d.hits = d.hits + (IF count /\ d.obj = r.obj THEN 1 ELSE 0)
        BY <2>3, <4>2
      <4> QED
        BY <4>1, <4>3
    <3> QED
      BY <3>1, <3>2
  <2> QED
    BY <2>3, <2>6, <2>10, <2>11, <2>12
<1>5. ASSUME match = {}, CanAcquire(s.pool), NEW t \in NewString(s, name),
             r = [strs |-> t, obj |-> Top(s.pool)]
      PROVE  /\ StringsSound(r.strs, n) /\ r.strs.pool.total = s.pool.total - 1
             /\ r.obj = s.pool.total /\ r.obj \in 1 .. n
             /\ r.strs.name = [s.name EXCEPT ![r.obj] = name]
             /\ r.strs.map = s.map \cup {[obj |-> r.obj, key |-> name, hits |-> 1]}
  <2> DEFINE o == s.pool.total
             new == [obj |-> o, key |-> name, hits |-> 1]
             named == [pool |-> [items |-> s.pool.items, total |-> o - 1],
                       name |-> [s.name EXCEPT ![o] = name], map |-> s.map]
             entered == [pool |-> [items |-> s.pool.items, total |-> o - 1],
                         name |-> [s.name EXCEPT ![o] = name], map |-> s.map \cup {new}]
  <2>1. o \in 1 .. n /\ Top(s.pool) = o
    BY <1>2, <1>5 DEF CanAcquire, Top
  <2>2. Acquired(s.pool) = [items |-> s.pool.items, total |-> o - 1]
    BY <1>1 DEF Acquired
  <2>3. /\ [s EXCEPT !.pool = Acquired(@), !.name[o] = name] = named
        /\ [named EXCEPT !.map = @ \cup {new}] = entered
    <3>1. \A P, N : [s EXCEPT !.pool = P, !.name = N] = [pool |-> P, name |-> N, map |-> s.map]
      <4> SUFFICES ASSUME NEW P, NEW N
                   PROVE  [s EXCEPT !.pool = P, !.name = N] = [pool |-> P, name |-> N, map |-> s.map]
        OBVIOUS
      <4>1. [s EXCEPT !.pool = P] = [pool |-> P, name |-> s.name, map |-> s.map]
        BY <1>1
      <4>2. [s EXCEPT !.pool = P, !.name = N] = [[pool |-> P, name |-> s.name, map |-> s.map] EXCEPT !.name = N]
        BY <4>1
      <4> QED
        BY <4>2
    <3>2. [s EXCEPT !.pool = Acquired(@), !.name[o] = name]
            = [s EXCEPT !.pool = Acquired(s.pool), !.name = [s.name EXCEPT ![o] = name]]
      BY <1>1
    <3>3. \A X : [named EXCEPT !.map = X] = [pool |-> named.pool, name |-> named.name, map |-> X]
      OBVIOUS
    <3> QED
      BY <3>1, <3>2, <3>3, <2>2
  <2>4. \A e \in s.map : e.obj # o /\ e.obj \in 1 .. n /\ [s.name EXCEPT ![o] = name][e.obj] = e.key
    <3> SUFFICES ASSUME NEW e \in s.map
                 PROVE  e.obj # o /\ e.obj \in 1 .. n /\ [s.name EXCEPT ![o] = name][e.obj] = e.key
      OBVIOUS
    <3>1. e.obj > o /\ s.name[e.obj] = e.key /\ e.obj \in 1 .. n
      BY <1>1, <1>2
    <3> QED
      BY <1>1, <2>1, <3>1
  <2>5. \A e \in s.map : ~IsStale(named, e)
    BY <2>4 DEF IsStale
  <2>6. t = entered
    <3> HIDE DEF named, entered
    <3>1. NewString(s, name) = IF \E e \in s.map : IsStale(named, e) THEN {named, entered} ELSE {entered}
      BY <2>1, <2>3 DEF NewString
    <3> QED
      BY <2>5, <3>1, <1>5
  <2>7. /\ r.strs = entered /\ r.obj = o
        /\ r.strs.pool = [items |-> s.pool.items, total |-> o - 1]
        /\ r.strs.name = [s.name EXCEPT ![o] = name] /\ r.strs.map = s.map \cup {new}
    BY <1>5, <2>1, <2>6
  <2>8. r.strs \in Strings(1 .. n)
    <3>1. new \in Entries
      BY <2>1
    <3>2. [s.name EXCEPT ![o] = name] \in [1 .. n -> Names \cup {None}]
      BY <1>1
    <3>3. [items |-> s.pool.items, total |-> o - 1] \in Pools(1 .. n \cup {None})
      BY <1>1, <2>1 DEF Pools
    <3> HIDE DEF new
    <3> QED
      BY <1>1, <2>7, <3>1, <3>2, <3>3 DEF Strings
  <2>9. new.obj = o /\ new.key = name /\ new.hits = 1
    OBVIOUS
  <2> HIDE DEF new
  <2>10. \A e \in r.strs.map : e.obj > r.strs.pool.total /\ r.strs.name[e.obj] = e.key
    <3> SUFFICES ASSUME NEW e \in s.map \cup {new}
                 PROVE  e.obj > o - 1 /\ [s.name EXCEPT ![o] = name][e.obj] = e.key
      BY <2>7
    <3>1. CASE e \in s.map
      <4>1. e.obj > o /\ e.obj \in 1 .. n
        BY <1>2, <2>4, <3>1
      <4> QED
        BY <2>1, <2>4, <3>1, <4>1
    <3>2. CASE e = new
      <4>1. [s.name EXCEPT ![o] = name][o] = name
        BY <1>1, <2>1
      <4> QED
        BY <2>1, <2>9, <3>2, <4>1
    <3> QED
      BY <3>1, <3>2
  <2>11. \A d, e \in r.strs.map : d.obj = e.obj \/ d.key = e.key => d = e
    <3>1. \A d \in s.map : d.obj # new.obj /\ d.key # new.key
      BY <1>5, <2>4, <2>9
    <3> QED
      BY <1>2, <2>7, <3>1
  <2>12. r.strs.pool.items = [p \in 1 .. n |-> p] /\ r.strs.pool.total \in 0 .. n
         /\ r.strs.pool.total = o - 1
    BY <1>2, <2>1, <2>7
  <2>13. StringsSound(r.strs, n)
    BY <2>8, <2>10, <2>11, <2>12 DEF StringsSound
  <2> QED
    BY <2>1, <2>7, <2>12, <2>13 DEF new
<1>6. ASSUME match = {}, CanAcquire(s.pool), NEW t \in NewString(s, name),
             r = [strs |-> t, obj |-> Top(s.pool)]
      PROVE  /\ r.strs.pool.total <= s.pool.total
             /\ \A o \in s.pool.total + 1 .. n : r.strs.name[o] = s.name[o]
             /\ r.obj \in r.strs.pool.total + 1 .. n /\ r.strs.name[r.obj] = name
             /\ \A e \in r.strs.map :
                  \/ e \in s.map /\ e.obj # r.obj /\ e.hits \in Int
                  \/ e.obj = r.obj /\ e.obj <= s.pool.total /\ e.hits = 1
  <2>1. /\ r.strs.pool.total = s.pool.total - 1
        /\ r.obj = s.pool.total /\ r.obj \in 1 .. n
        /\ r.strs.name = [s.name EXCEPT ![r.obj] = name]
        /\ r.strs.map = s.map \cup {[obj |-> r.obj, key |-> name, hits |-> 1]}
    BY <1>5, <1>6
  <2>2. r.strs.name[r.obj] = name
    BY <1>1, <2>1
  <2>3. \A o \in s.pool.total + 1 .. n : r.strs.name[o] = s.name[o]
    <3> TAKE o \in s.pool.total + 1 .. n
    <3>1. o # r.obj /\ o \in 1 .. n
      BY <1>2, <2>1
    <3> QED
      BY <1>1, <2>1, <3>1
  <2>4. \A e \in s.map : e.obj # r.obj /\ e.hits \in Int
    <3> TAKE e \in s.map
    <3>1. e \in Entries /\ e.obj > s.pool.total
      BY <1>1, <1>2
    <3> QED
      BY <2>1, <3>1
  <2>5. \A e \in r.strs.map :
          \/ e \in s.map
          \/ e.obj = r.obj /\ e.obj <= s.pool.total /\ e.hits = 1
    BY <2>1
  <2>6. r.obj \in r.strs.pool.total + 1 .. n /\ r.strs.pool.total <= s.pool.total
    BY <1>2, <2>1
  <2> QED
    BY <2>2, <2>3, <2>4, <2>5, <2>6
<1>7. CASE \E e \in match : r = [strs |-> Hit(s, e, IF count THEN 1 ELSE 0), obj |-> e.obj]
  BY <1>2, <1>4, <1>7
<1>8. CASE match = {} /\ CanAcquire(s.pool)
           /\ \E t \in NewString(s, name) : r = [strs |-> t, obj |-> Top(s.pool)]
  <2>1. PICK t \in NewString(s, name) : r = [strs |-> t, obj |-> Top(s.pool)]
    BY <1>8
  <2>2. /\ StringsSound(r.strs, n)
        /\ r.strs.pool.total <= s.pool.total
        /\ \A o \in s.pool.total + 1 .. n : r.strs.name[o] = s.name[o]
        /\ r.obj \in r.strs.pool.total + 1 .. n /\ r.strs.name[r.obj] = name
        /\ \A e \in r.strs.map :
             \/ e \in s.map /\ e.obj # r.obj /\ e.hits \in Int
             \/ e.obj = r.obj /\ e.obj <= s.pool.total /\ e.hits = 1
    BY <1>5, <1>6, <1>8, <2>1
  <2>3. \A e \in s.map : e.obj # r.obj /\ e.hits \in Int => e.hits = e.hits + (IF count /\ e.obj = r.obj THEN 1 ELSE 0)
    OBVIOUS
  <2> QED
    BY <2>2, <2>3
<1>9. CASE r = [strs |-> s, obj |-> None]
  <2>1. r.strs = s /\ r.obj = None
    BY <1>9
  <2>2. \A e \in s.map : e.obj # None /\ e.hits \in Int
    <3> TAKE e \in s.map
    <3>1. e.obj \in 1 .. n /\ e.hits \in Int
      BY <1>1
    <3> QED
      BY <3>1 DEF None
  <2>3. \A e \in s.map : e.hits = e.hits + (IF count /\ e.obj = r.obj THEN 1 ELSE 0)
    BY <2>1, <2>2
  <2> QED
    BY <1>2, <2>1, <2>3
<1>10. Attached(s, name, count) =
         {[strs |-> Hit(s, e, IF count THEN 1 ELSE 0), obj |-> e.obj] : e \in match}
         \cup (IF ~(match = {}) THEN {}
               ELSE IF CanAcquire(s.pool)
               THEN {[strs |-> t, obj |-> Top(s.pool)] : t \in NewString(s, name)}
               ELSE {[strs |-> s, obj |-> None]})
  BY <1>3 DEF Attached
<1> HIDE DEF match
<1> QED
  BY <1>7, <1>8, <1>9, <1>10

-----------------------------------------------------------------------------
(***************************************************************************)
(* What a packet may do to an info and the strings.                        *)
(***************************************************************************)

AllStrings == UNION {Strings(1 .. Size[k]) : k \in Kinds}
States == [i : Info, s : [Kinds -> AllStrings]]

\* An info has objects that are lent, with the names its flow said.
Named(j, s) ==
  \A k \in Kinds : j.str[k] # None =>
    /\ j.str[k] \in s[k].pool.total + 1 .. Size[k]
    /\ s[k].name[j.str[k]] = j.said[k]

StrsSound(s) == s \in [Kinds -> AllStrings] /\ \A k \in Kinds : StringsSound(s[k], Size[k])

Sound(x) == x \in States /\ StrsSound(x.s) /\ Named(x.i, x.s)

\* Objects that are lent stay so, with their names.
StayLent(s, t) ==
  \A k \in Kinds :
    /\ t[k].pool.total <= s[k].pool.total
    /\ \A o \in s[k].pool.total + 1 .. Size[k] : t[k].name[o] = s[k].name[o]

Uses(j, k, o) == IF j.str[k] = o THEN 1 ELSE 0

\* From x to y the info uses no string more than its entry has hits more, and a
\* new entry has a hit for the info.
HitsFollow(x, y, k) ==
  \A e \in y.s[k].map :
    \/ \E d \in x.s[k].map : d.obj = e.obj /\ d.hits + Uses(y.i, k, e.obj) <= e.hits + Uses(x.i, k, e.obj)
    \/ e.obj <= x.s[k].pool.total /\ Uses(y.i, k, e.obj) <= e.hits

\* y after x: what the info has of the kinds kept stays, and hits of the kinds
\* counted are counted.
Follows(x, y, kept, counted) ==
  /\ Sound(y)
  /\ StayLent(x.s, y.s)
  /\ \A k \in kept : x.i.str[k] # None => y.i.str[k] = x.i.str[k]
  /\ \A k \in counted : HitsFollow(x, y, k)

\* The parts of a sound state.
LEMMA SoundParts ==
  ASSUME AppInfosAssumption, NEW x, Sound(x), NEW k \in Kinds
  PROVE  /\ Size[k] \in Nat
         /\ StringsSound(x.s[k], Size[k])
         /\ x.s[k].pool.total \in 0 .. Size[k]
         /\ x.i.str[k] \in Nat
         /\ \A e \in x.s[k].map : e.obj \in 1 .. Size[k] /\ e.hits \in Int /\ e.obj > x.s[k].pool.total
         /\ HasString(x, k) <=> x.i.str[k] # None
<1>1. Size[k] \in Nat
  BY DEF AppInfosAssumption
<1>2. StringsSound(x.s[k], Size[k]) /\ x.i.str[k] \in Nat
  BY DEF Sound, StrsSound, States, Info
<1>3. /\ x.s[k].pool.items = [o \in 1 .. Size[k] |-> o] /\ x.s[k].pool.total \in 0 .. Size[k]
      /\ \A e \in x.s[k].map : e.obj \in 1 .. Size[k] /\ e.hits \in Int /\ e.obj > x.s[k].pool.total
  BY <1>2 DEF StringsSound, Strings
<1>4. ASSUME x.i.str[k] # None PROVE StringAlive(x.s[k], x.i.str[k])
  <2>1. x.i.str[k] \in 1 .. Size[k]
    <3>1. x.i.str[k] \in x.s[k].pool.total + 1 .. Size[k]
      BY <1>4 DEF Sound, Named
    <3> QED
      BY <1>1, <1>3, <3>1
  <2>2. Len([o \in 1 .. Size[k] |-> o]) = Size[k]
    BY <1>1
  <2> DEFINE v == x.i.str[k]
  <2>3. Len(x.s[k].pool.items) = Size[k] /\ x.s[k].pool.items[v] = v
    BY <1>3, <2>1, <2>2
  <2>4. v \in InVector(x.s[k].pool)
    BY <2>1, <2>3 DEF InVector
  <2> QED
    BY <2>4 DEF StringAlive
<1> QED
  BY <1>1, <1>2, <1>3, <1>4 DEF HasString

\* A packet may leave everything as it is.
LEMMA FollowsSelf ==
  ASSUME AppInfosAssumption, NEW x, Sound(x),
         NEW kept \in SUBSET Kinds, NEW counted \in SUBSET Kinds
  PROVE  Follows(x, x, kept, counted)
<1>1. StayLent(x.s, x.s)
  BY SoundParts DEF StayLent
<1>2. ASSUME NEW k \in counted PROVE HitsFollow(x, x, k)
  <2>1. \A e \in x.s[k].map : e.hits \in Int
    BY SoundParts
  <2>2. \A e \in x.s[k].map : e.hits + Uses(x.i, k, e.obj) <= e.hits + Uses(x.i, k, e.obj)
    BY <2>1 DEF Uses
  <2> QED
    BY <2>2 DEF HitsFollow
<1> QED
  BY <1>1, <1>2 DEF Follows

\* Two changes of a packet, one after the other.
LEMMA FollowsThrough ==
  ASSUME AppInfosAssumption, NEW x, Sound(x), NEW y, NEW z,
         NEW kept \in SUBSET Kinds, NEW counted \in SUBSET Kinds,
         Follows(x, y, kept, counted), Follows(y, z, kept, counted)
  PROVE  Follows(x, z, kept, counted)
<1>1. Sound(y) /\ Sound(z)
  BY DEF Follows
<1>2. StayLent(x.s, z.s)
  <2> SUFFICES ASSUME NEW k \in Kinds
               PROVE  /\ z.s[k].pool.total <= x.s[k].pool.total
                      /\ \A o \in x.s[k].pool.total + 1 .. Size[k] : z.s[k].name[o] = x.s[k].name[o]
    BY DEF StayLent
  <2>1. /\ x.s[k].pool.total \in 0 .. Size[k] /\ y.s[k].pool.total \in 0 .. Size[k]
        /\ z.s[k].pool.total \in 0 .. Size[k] /\ Size[k] \in Nat
    BY <1>1, SoundParts
  <2>2. /\ y.s[k].pool.total <= x.s[k].pool.total
        /\ \A o \in x.s[k].pool.total + 1 .. Size[k] : y.s[k].name[o] = x.s[k].name[o]
        /\ z.s[k].pool.total <= y.s[k].pool.total
        /\ \A o \in y.s[k].pool.total + 1 .. Size[k] : z.s[k].name[o] = y.s[k].name[o]
    BY DEF Follows, StayLent
  <2>3. \A o \in x.s[k].pool.total + 1 .. Size[k] : o \in y.s[k].pool.total + 1 .. Size[k]
    BY <2>1, <2>2
  <2> QED
    BY <2>1, <2>2, <2>3
<1>3. \A k \in kept : x.i.str[k] # None => z.i.str[k] = x.i.str[k]
  BY DEF Follows
<1>4. ASSUME NEW k \in counted PROVE HitsFollow(x, z, k)
  <2>1. HitsFollow(x, y, k) /\ HitsFollow(y, z, k) /\ k \in Kinds
    BY DEF Follows
  <2>2. /\ \A e \in x.s[k].map : e.hits \in Int
        /\ \A e \in y.s[k].map : e.hits \in Int
        /\ \A e \in z.s[k].map : e.hits \in Int /\ e.obj \in Int
        /\ x.s[k].pool.total \in Int /\ y.s[k].pool.total \in Int
        /\ y.s[k].pool.total <= x.s[k].pool.total
    <3>1. y.s[k].pool.total <= x.s[k].pool.total
      BY <2>1 DEF Follows, StayLent
    <3>2. /\ \A e \in x.s[k].map : e.hits \in Int
          /\ x.s[k].pool.total \in 0 .. Size[k] /\ Size[k] \in Nat
      BY <2>1, SoundParts
    <3>3. /\ \A e \in y.s[k].map : e.hits \in Int
          /\ y.s[k].pool.total \in 0 .. Size[k]
      BY <1>1, <2>1, SoundParts
    <3>4. /\ \A e \in z.s[k].map : e.hits \in Int /\ e.obj \in 1 .. Size[k]
      BY <1>1, <2>1, SoundParts
    <3> QED
      BY <3>1, <3>2, <3>3, <3>4
  <2>3. \A j \in {x.i, y.i, z.i}, o \in Int : Uses(j, k, o) \in Int
    BY DEF Uses
  <2> SUFFICES ASSUME NEW e \in z.s[k].map
               PROVE  \/ \E d \in x.s[k].map :
                           d.obj = e.obj /\ d.hits + Uses(z.i, k, e.obj) <= e.hits + Uses(x.i, k, e.obj)
                      \/ e.obj <= x.s[k].pool.total /\ Uses(z.i, k, e.obj) <= e.hits
    BY DEF HitsFollow
  <2>4. Uses(x.i, k, e.obj) \in Int /\ Uses(y.i, k, e.obj) \in Int /\ Uses(z.i, k, e.obj) \in Int
        /\ e.hits \in Int /\ e.obj \in Int
    BY <2>2, <2>3
  <2>5. CASE e.obj <= y.s[k].pool.total /\ Uses(z.i, k, e.obj) <= e.hits
    BY <2>2, <2>4, <2>5
  <2>6. CASE \E d \in y.s[k].map : d.obj = e.obj /\ d.hits + Uses(z.i, k, e.obj) <= e.hits + Uses(y.i, k, e.obj)
    <3>1. PICK d \in y.s[k].map : d.obj = e.obj /\ d.hits + Uses(z.i, k, e.obj) <= e.hits + Uses(y.i, k, e.obj)
      BY <2>6
    <3>2. \/ \E c \in x.s[k].map : c.obj = d.obj /\ c.hits + Uses(y.i, k, d.obj) <= d.hits + Uses(x.i, k, d.obj)
          \/ d.obj <= x.s[k].pool.total /\ Uses(y.i, k, d.obj) <= d.hits
      BY <2>1 DEF HitsFollow
    <3>3. d.hits \in Int
      BY <2>2
    <3>4. CASE d.obj <= x.s[k].pool.total /\ Uses(y.i, k, d.obj) <= d.hits
      BY <2>4, <3>1, <3>3, <3>4
    <3>5. CASE \E c \in x.s[k].map : c.obj = d.obj /\ c.hits + Uses(y.i, k, d.obj) <= d.hits + Uses(x.i, k, d.obj)
      <4>1. PICK c \in x.s[k].map : c.obj = e.obj /\ c.hits + Uses(y.i, k, e.obj) <= d.hits + Uses(x.i, k, e.obj)
        BY <3>1, <3>5
      <4>2. c.hits \in Int
        BY <2>2
      <4>3. c.hits + Uses(z.i, k, e.obj) <= e.hits + Uses(x.i, k, e.obj)
        BY <2>4, <3>1, <3>3, <4>1, <4>2
      <4> QED
        BY <4>1, <4>3
    <3> QED
      BY <3>2, <3>4, <3>5
  <2> QED
    BY <2>1, <2>5, <2>6 DEF HitsFollow
<1> QED
  BY <1>1, <1>2, <1>3, <1>4 DEF Follows

\* attach_host and the like: an info that has none of the kind gets a string,
\* or one that has gets another.
LEMMA AttachNewFollows ==
  ASSUME AppInfosAssumption, NEW x, Sound(x), NEW k \in Kinds, NEW n \in Names, NEW count \in BOOLEAN,
         NEW y \in AttachNew(x, k, n, count),
         NEW kept \in SUBSET Kinds, NEW counted \in SUBSET Kinds,
         k \in kept => x.i.str[k] = None, k \in counted => count
  PROVE  Follows(x, y, kept, counted)
<1> DEFINE s == x.s[k]
           size == Size[k]
<1>1. PICK r \in Attached(s, n, count) :
        y = [i |-> IF r.obj = None THEN x.i
                   ELSE [x.i EXCEPT !.str = Put(@, k, r.obj), !.said = Put(@, k, n)],
             s |-> [x.s EXCEPT ![k] = r.strs]]
  BY DEF AttachNew
<1>2. /\ size \in Nat /\ StringsSound(s, size) /\ 0 \notin Names /\ s.pool.total \in 0 .. size
      /\ \A e \in s.map : e.obj \in 1 .. size /\ e.hits \in Int
  BY SoundParts DEF AppInfosAssumption
<1> HIDE DEF s, size
<1>3. /\ StringsSound(r.strs, size)
      /\ r.strs.pool.total <= s.pool.total
      /\ \A o \in s.pool.total + 1 .. size : r.strs.name[o] = s.name[o]
      /\ r.obj # None => r.obj \in r.strs.pool.total + 1 .. size /\ r.strs.name[r.obj] = n
      /\ \A e \in r.strs.map :
           \/ \E d \in s.map : d.obj = e.obj /\ e.hits = d.hits + (IF count /\ e.obj = r.obj THEN 1 ELSE 0)
           \/ e.obj = r.obj /\ e.obj <= s.pool.total /\ e.hits = 1
  BY <1>2, AttachedSound
<1>4. /\ x \in States /\ x.s \in [Kinds -> AllStrings] /\ x.i \in Info
      /\ \A j \in Kinds : StringsSound(x.s[j], Size[j])
      /\ Named(x.i, x.s)
  BY DEF Sound, StrsSound, States
<1>5. y.s = [x.s EXCEPT ![k] = r.strs] /\ y.s[k] = r.strs /\ \A j \in Kinds : j # k => y.s[j] = x.s[j]
  BY <1>1, <1>4
<1>6. r.strs \in AllStrings
  <2>1. r.strs \in Strings(1 .. Size[k])
    BY <1>3 DEF StringsSound, size
  <2> QED
    BY <2>1 DEF AllStrings
<1>7. StrsSound(y.s)
  <2>1. y.s \in [Kinds -> AllStrings]
    BY <1>4, <1>5, <1>6
  <2>2. \A j \in Kinds : StringsSound(y.s[j], Size[j])
    BY <1>3, <1>4, <1>5 DEF size
  <2> QED
    BY <2>1, <2>2 DEF StrsSound
<1>8. /\ r.obj = None => y.i = x.i
      /\ r.obj # None => /\ y.i = [x.i EXCEPT !.str = Put(@, k, r.obj), !.said = Put(@, k, n)]
                         /\ r.obj \in Nat
  <2>1. r.strs.pool.total \in 0 .. size
    BY <1>3 DEF StringsSound
  <2>2. r.obj # None => r.obj \in Nat
    BY <1>2, <1>3, <2>1
  <2> QED
    BY <1>1, <2>2
<1>9. ASSUME r.obj # None
      PROVE  /\ y.i \in Info
             /\ \A j \in Kinds : /\ y.i.str[j] = IF j = k THEN r.obj ELSE x.i.str[j]
                                 /\ y.i.said[j] = IF j = k THEN n ELSE x.i.said[j]
  <2>1. /\ x.i = [str |-> x.i.str, said |-> x.i.said, banned |-> x.i.banned, release |-> x.i.release]
        /\ x.i.str \in [Kinds -> Nat] /\ x.i.said \in [Kinds -> Names \cup {None}]
        /\ x.i.banned \in BOOLEAN /\ x.i.release \in BOOLEAN
    BY <1>4 DEF Info
  <2>2. /\ y.i.str = Put(x.i.str, k, r.obj) /\ y.i.said = Put(x.i.said, k, n)
        /\ y.i.banned = x.i.banned /\ y.i.release = x.i.release
        /\ y.i = [str |-> y.i.str, said |-> y.i.said, banned |-> y.i.banned, release |-> y.i.release]
    BY <1>8, <1>9, <2>1
  <2>3. y.i.str \in [Kinds -> Nat] /\ y.i.said \in [Kinds -> Names \cup {None}]
    BY <1>8, <1>9, <2>1, <2>2 DEF Put
  <2>4. \A j \in Kinds : /\ y.i.str[j] = IF j = k THEN r.obj ELSE x.i.str[j]
                         /\ y.i.said[j] = IF j = k THEN n ELSE x.i.said[j]
    BY <2>2 DEF Put
  <2> QED
    BY <2>1, <2>2, <2>3, <2>4 DEF Info
<1>10. y.i \in Info /\ y \in States
  <2>1. y.i \in Info
    BY <1>4, <1>8, <1>9
  <2>2. y = [i |-> y.i, s |-> y.s] /\ y.s \in [Kinds -> AllStrings]
    BY <1>1, <1>7 DEF StrsSound
  <2> QED
    BY <2>1, <2>2 DEF States
<1>11. StayLent(x.s, y.s)
  <2> SUFFICES ASSUME NEW j \in Kinds
               PROVE  /\ y.s[j].pool.total <= x.s[j].pool.total
                      /\ \A o \in x.s[j].pool.total + 1 .. Size[j] : y.s[j].name[o] = x.s[j].name[o]
    BY DEF StayLent
  <2>1. x.s[j].pool.total \in 0 .. Size[j] /\ Size[j] \in Nat
    BY SoundParts
  <2>2. CASE j = k
    BY <1>3, <1>5, <2>2 DEF s, size
  <2>3. CASE j # k
    BY <1>5, <2>1, <2>3
  <2> QED
    BY <2>2, <2>3
<1>12. Named(y.i, y.s)
  <2> SUFFICES ASSUME NEW j \in Kinds, y.i.str[j] # None
               PROVE  /\ y.i.str[j] \in y.s[j].pool.total + 1 .. Size[j]
                      /\ y.s[j].name[y.i.str[j]] = y.i.said[j]
    BY DEF Named
  <2>1. CASE r.obj # None /\ j = k
    BY <1>3, <1>5, <1>9, <2>1 DEF size
  <2>2. CASE ~(r.obj # None /\ j = k)
    <3>1. y.i.str[j] = x.i.str[j] /\ y.i.said[j] = x.i.said[j]
      BY <1>8, <1>9, <2>2
    <3>2. x.i.str[j] \in x.s[j].pool.total + 1 .. Size[j] /\ x.s[j].name[x.i.str[j]] = x.i.said[j]
      BY <1>4, <3>1 DEF Named
    <3>3. /\ y.s[j].pool.total <= x.s[j].pool.total
          /\ y.s[j].name[x.i.str[j]] = x.s[j].name[x.i.str[j]]
      BY <1>11, <3>2 DEF StayLent
    <3>4. y.s[j].pool.total \in 0 .. Size[j] /\ x.s[j].pool.total \in 0 .. Size[j] /\ Size[j] \in Nat
      <4>1. x.s[j].pool.total \in 0 .. Size[j] /\ Size[j] \in Nat
        BY SoundParts
      <4>2. y.s[j].pool.total \in 0 .. Size[j]
        BY <1>7 DEF StrsSound, StringsSound
      <4> QED
        BY <4>1, <4>2
    <3> QED
      BY <3>1, <3>2, <3>3, <3>4
  <2> QED
    BY <2>1, <2>2
<1>13. ASSUME NEW j \in kept, x.i.str[j] # None PROVE y.i.str[j] = x.i.str[j]
  BY <1>8, <1>9, <1>13
<1>14. ASSUME NEW j \in counted PROVE HitsFollow(x, y, j)
  <2> SUFFICES ASSUME NEW e \in y.s[j].map
               PROVE  \/ \E d \in x.s[j].map :
                           d.obj = e.obj /\ d.hits + Uses(y.i, j, e.obj) <= e.hits + Uses(x.i, j, e.obj)
                      \/ e.obj <= x.s[j].pool.total /\ Uses(y.i, j, e.obj) <= e.hits
    BY DEF HitsFollow
  <2>1. CASE j # k
    <3>1. e \in x.s[j].map /\ y.i.str[j] = x.i.str[j]
      BY <1>5, <1>8, <1>9, <2>1
    <3>2. e.hits \in Int
      BY <3>1, SoundParts
    <3>3. e.hits + Uses(y.i, j, e.obj) <= e.hits + Uses(x.i, j, e.obj)
      BY <3>1, <3>2 DEF Uses
    <3> QED
      BY <3>1, <3>3
  <2>2. CASE j = k
    <3>1. count /\ e \in r.strs.map
      BY <1>5, <1>14, <2>2
    <3>2. CASE e.obj = r.obj /\ e.obj <= s.pool.total /\ e.hits = 1
      BY <2>2, <3>2 DEF Uses, s
    <3>3. CASE \E d \in s.map : d.obj = e.obj /\ e.hits = d.hits + (IF count /\ e.obj = r.obj THEN 1 ELSE 0)
      <4>1. PICK d \in s.map : d.obj = e.obj /\ e.hits = d.hits + (IF e.obj = r.obj THEN 1 ELSE 0)
        BY <3>1, <3>3
      <4>2. d.hits \in Int /\ e.obj \in 1 .. size
        BY <1>2, <4>1
      <4>3. CASE e.obj = r.obj
        BY <2>2, <4>1, <4>2, <4>3 DEF Uses, s
      <4>4. CASE e.obj # r.obj
        <5>1. Uses(y.i, k, e.obj) <= Uses(x.i, k, e.obj)
          BY <1>8, <1>9, <4>4 DEF Uses
        <5>2. Uses(y.i, k, e.obj) \in Int /\ Uses(x.i, k, e.obj) \in Int
          BY DEF Uses
        <5>3. d.hits + Uses(y.i, k, e.obj) <= e.hits + Uses(x.i, k, e.obj)
          BY <4>1, <4>2, <4>4, <5>1, <5>2
        <5> QED
          BY <2>2, <4>1, <5>3 DEF s
      <4> QED
        BY <4>3, <4>4
    <3> QED
      BY <1>3, <3>1, <3>2, <3>3
  <2> QED
    BY <2>1, <2>2
<1> QED
  BY <1>7, <1>10, <1>11, <1>12, <1>13, <1>14 DEF Follows, Sound

\* The same when only an info without is given one.
LEMMA AttachFollows ==
  ASSUME AppInfosAssumption, NEW x, Sound(x), NEW k \in Kinds, NEW n \in Names, NEW y \in Attach(x, k, n),
         NEW kept \in SUBSET Kinds, NEW counted \in SUBSET Kinds
  PROVE  Follows(x, y, kept, counted)
<1>1. CASE HasString(x, k)
  BY <1>1, FollowsSelf DEF Attach
<1>2. CASE ~HasString(x, k)
  <2>1. x.i.str[k] = None
    BY <1>2, SoundParts
  <2>2. y \in AttachNew(x, k, n, TRUE)
    BY <1>2 DEF Attach
  <2> QED
    BY <2>1, <2>2, AttachNewFollows
<1> QED
  BY <1>1, <1>2

-----------------------------------------------------------------------------
(***************************************************************************)
(* What goes back to the pools, whoever has it: the pools keep their type  *)
(* only.                                                                   *)
(***************************************************************************)

StringsFit(s, n) == s \in Strings(1 .. n) /\ Fits(s.pool, 1 .. n \cup {None})

FitStrs(s) == s \in [Kinds -> AllStrings] /\ \A k \in Kinds : StringsFit(s[k], Size[k])

\* The parts of strings that are of their type.
LEMMA StringsParts ==
  ASSUME NEW n, NEW s, StringsFit(s, n)
  PROVE  /\ s = [pool |-> s.pool, name |-> s.name, map |-> s.map]
         /\ s.pool \in Pools(1 .. n \cup {None}) /\ s.name \in [1 .. n -> Names \cup {None}]
         /\ s.map \subseteq [obj : 1 .. n, key : Names, hits : Int]
         /\ Fits(s.pool, 1 .. n \cup {None})
BY DEF StringsFit, Strings

\* Sound strings are of their type.
LEMMA SoundFit ==
  ASSUME AppInfosAssumption, NEW s, StrsSound(s)
  PROVE  FitStrs(s)
<1> SUFFICES ASSUME NEW k \in Kinds PROVE StringsFit(s[k], Size[k])
  BY DEF FitStrs, StrsSound
<1>1. /\ s[k] \in Strings(1 .. Size[k]) /\ s[k].pool.items = [o \in 1 .. Size[k] |-> o]
      /\ s[k].pool.total \in 0 .. Size[k] /\ Size[k] \in Nat
  BY DEF StrsSound, StringsSound, AppInfosAssumption
<1>2. Len([o \in 1 .. Size[k] |-> o]) = Size[k]
  BY <1>1
<1>3. s[k].pool \in Pools(1 .. Size[k] \cup {None})
  BY <1>1 DEF Strings
<1> QED
  BY <1>1, <1>2, <1>3 DEF StringsFit, Fits

\* A pointer that can be locked is one to an object, or was given to the pool
\* by another cache.
LEMMA AliveObject ==
  ASSUME NEW n, NEW s, StringsFit(s, n), NEW o, StringAlive(s, o)
  PROVE  o \in 1 .. n \cup {None}
<1>1. /\ s.pool.items \in Seq(1 .. n \cup {None})
      /\ s.map \subseteq [obj : 1 .. n, key : Names, hits : Int]
  BY StringsParts DEF Pools
<1>2. CASE o \in Mapped(s)
  BY <1>1, <1>2 DEF Mapped
<1>3. CASE o \in InVector(s.pool)
  <2>1. PICK i \in 1 .. Len(s.pool.items) : o = s.pool.items[i]
    BY <1>3 DEF InVector
  <2> QED
    BY <1>1, <2>1, ElementOfSeq
<1> QED
  BY <1>2, <1>3 DEF StringAlive

\* release of an object, or of another cache's.
LEMMA StringReleasedFits ==
  ASSUME NEW n, NEW s, StringsFit(s, n), NEW o \in 1 .. n \cup {None}
  PROVE  StringsFit(StringReleased(s, o), n)
<1> DEFINE S == 1 .. n \cup {None}
           q == Released(s.pool, o)
<1>1. Fits(s.pool, S)
  BY StringsParts
<1>2. Fits(q, S)
  <2> HIDE DEF S
  <2>1. CASE CanRelease(s.pool)
    <3>1. o \in S
      BY DEF S
    <3> QED
      BY <1>1, <2>1, <3>1, ReleasedPool
  <2>2. CASE ~CanRelease(s.pool)
    BY <1>1, <2>2 DEF Released
  <2> QED
    BY <2>1, <2>2
<1> HIDE DEF q
<1>3. StringReleased(s, o) = [pool |-> q, name |-> s.name, map |-> s.map]
  <2>1. s = [pool |-> s.pool, name |-> s.name, map |-> s.map]
    BY StringsParts
  <2>2. [s EXCEPT !.pool = q] = [pool |-> q, name |-> s.name, map |-> s.map]
    BY <2>1
  <2>3. StringReleased(s, o) = [s EXCEPT !.pool = q]
    BY DEF StringReleased, q
  <2> QED
    BY <2>2, <2>3
<1>4. /\ s.name \in [1 .. n -> Names \cup {None}]
      /\ s.map \subseteq [obj : 1 .. n, key : Names, hits : Int]
  BY StringsParts
<1>5. q \in Pools(S)
  BY <1>2 DEF Fits
<1> QED
  BY <1>2, <1>3, <1>4, <1>5 DEF StringsFit, Strings

\* release_http_info and the like, to whichever caches.
LEMMA StringsGoBack ==
  ASSUME AppInfosAssumption, NEW x, x.i \in Info, FitStrs(x.s), NEW cacheOf
  PROVE  /\ ReleaseStringsInto(x, cacheOf).i \in Info
         /\ ReleaseStringsInto(x, cacheOf).i.banned = x.i.banned
         /\ \A k \in Kinds : ReleaseStringsInto(x, cacheOf).i.str[k] = None
         /\ FitStrs(ReleaseStringsInto(x, cacheOf).s)
         /\ \A k \in Kinds : ReleaseStringsInto(x, cacheOf).s[k].map = x.s[k].map
<1> DEFINE own(k) == IF HasString(x, k) /\ cacheOf[k] = k
                     THEN StringReleased(x.s[k], x.i.str[k]) ELSE x.s[k]
           given(k) == \E j \in Kinds : j # k /\ cacheOf[j] = k /\ HasString(x, j)
           t == [k \in Kinds |-> IF given(k) THEN StringReleased(own(k), Foreign) ELSE own(k)]
           y == [x.i EXCEPT !.str = [k \in Kinds |-> None], !.said = [k \in Kinds |-> None]]
<1>1. ReleaseStringsInto(x, cacheOf).i = y /\ ReleaseStringsInto(x, cacheOf).s = t
  BY DEF ReleaseStringsInto
<1>2. y \in Info /\ y.banned = x.i.banned /\ \A k \in Kinds : y.str[k] = None
  <2>1. /\ x.i = [str |-> x.i.str, said |-> x.i.said, banned |-> x.i.banned, release |-> x.i.release]
        /\ x.i.banned \in BOOLEAN /\ x.i.release \in BOOLEAN
    BY DEF Info
  <2>2. y = [str |-> [k \in Kinds |-> None], said |-> [k \in Kinds |-> None],
             banned |-> x.i.banned, release |-> x.i.release]
    <3> DEFINE none == [k \in Kinds |-> None]
    <3> HIDE DEF none
    <3>1. [x.i EXCEPT !.str = none] =
            [str |-> none, said |-> x.i.said, banned |-> x.i.banned, release |-> x.i.release]
      BY <2>1
    <3>2. [x.i EXCEPT !.str = none, !.said = none] =
            [[str |-> none, said |-> x.i.said, banned |-> x.i.banned, release |-> x.i.release]
              EXCEPT !.said = none]
      BY <3>1
    <3>3. [x.i EXCEPT !.str = none, !.said = none] =
            [str |-> none, said |-> none, banned |-> x.i.banned, release |-> x.i.release]
      BY <3>2
    <3> QED
      BY <3>3 DEF none
  <2> HIDE DEF y
  <2> QED
    BY <2>1, <2>2 DEF Info, None
<1>3. ASSUME NEW k \in Kinds PROVE StringsFit(t[k], Size[k]) /\ t[k].map = x.s[k].map
  <2>1. StringsFit(x.s[k], Size[k])
    BY DEF FitStrs
  <2>2. \A s, o : StringsFit(s, Size[k]) => StringReleased(s, o).map = s.map
    BY StringsParts DEF StringReleased
  <2>3. StringsFit(own(k), Size[k]) /\ own(k).map = x.s[k].map
    <3>1. CASE HasString(x, k) /\ cacheOf[k] = k
      <4>1. x.i.str[k] \in 1 .. Size[k] \cup {None}
        BY <2>1, <3>1, AliveObject DEF HasString
      <4> QED
        BY <2>1, <2>2, <3>1, <4>1, StringReleasedFits
    <3>2. CASE ~(HasString(x, k) /\ cacheOf[k] = k)
      BY <2>1, <3>2
    <3> QED
      BY <3>1, <3>2
  <2> HIDE DEF own, given
  <2>4. Foreign \in 1 .. Size[k] \cup {None}
    BY DEF Foreign, None
  <2>5. StringsFit(StringReleased(own(k), Foreign), Size[k])
    BY <2>3, <2>4, StringReleasedFits
  <2>6. StringReleased(own(k), Foreign).map = own(k).map
    BY <2>2, <2>3
  <2>7. t[k] = IF given(k) THEN StringReleased(own(k), Foreign) ELSE own(k)
    OBVIOUS
  <2> HIDE DEF t
  <2> QED
    BY <2>3, <2>5, <2>6, <2>7
<1>4. FitStrs(t)
  <2>1. t = [k \in Kinds |-> t[k]]
    OBVIOUS
  <2> HIDE DEF t
  <2>2. \A k \in Kinds : t[k] \in AllStrings
    BY <1>3 DEF StringsFit, AllStrings
  <2> QED
    BY <1>3, <2>1, <2>2 DEF FitStrs
<1> HIDE DEF y, t
<1> QED
  BY <1>1, <1>2, <1>3, <1>4

-----------------------------------------------------------------------------
(***************************************************************************)
(* The infos and strings of a protocol that lets strings go in releaseCache *)
(* only.                                                                   *)
(***************************************************************************)

\* The info each flow has.  Its weak pointer may be dead: release writes over
\* the slot of an info that is lent.
HadInfo == [f \in Flows |-> IF HasInfo(f) THEN flow[f] ELSE None]

\* Flows have infos of their own; infos have strings with the names their flow
\* said.
OwnInfos ==
  /\ Lends(infos, 1 .. InfoSize, HadInfo, Flows, None)
  /\ info \in [1 .. InfoSize -> Info]
  /\ flow \in [Flows -> 0 .. InfoSize]
  /\ crashed \in BOOLEAN

SoundState ==
  /\ OwnInfos
  /\ StrsSound(strs)
  /\ \A i \in Live : Named(info[i], strs)

\* After releaseCache with flows that had infos: the next info is the null
\* pointer, and no flow gets one any more.
Cleared ==
  /\ Fits(infos, 0 .. InfoSize) /\ info \in [1 .. InfoSize -> Info]
  /\ FitStrs(strs) /\ flow \in [Flows -> 0 .. InfoSize] /\ crashed \in BOOLEAN
  /\ CanAcquire(infos) /\ Top(infos) = Null
  /\ \A f \in Flows : flow[f] = None
  /\ \A k \in Kinds : strs[k].map = {}

SoundInv == SoundState \/ Cleared

Users(k, o) == {i \in Live : info[i].str[k] = o}

\* Each hit that is counted is there for a user.
Counts(kinds) == \A k \in kinds : \A e \in strs[k].map : Cardinality(Users(k, e.obj)) <= e.hits

\* The infos in use are numbers of objects, each of one flow.
LEMMA LiveInfos ==
  ASSUME OwnInfos
  PROVE  /\ \A f \in Flows : HasInfo(f) => flow[f] \in 1 .. InfoSize /\ flow[f] \in Live
         /\ \A f, g \in Flows : HasInfo(f) /\ HasInfo(g) /\ flow[f] = flow[g] => f = g
         /\ Live \subseteq 1 .. InfoSize
<1>1. \A f \in Flows : HasInfo(f) => flow[f] # None /\ flow[f] \in 1 .. InfoSize
  BY DEF OwnInfos, HasInfo, None
<1>2. \A f \in Flows : HasInfo(f) => HadInfo[f] = flow[f]
  BY DEF HadInfo
<1>3. \A f, g \in Flows : HadInfo[f] # None /\ HadInfo[f] = HadInfo[g] => f = g
  BY DEF OwnInfos, Lends
<1> QED
  BY <1>1, <1>2, <1>3 DEF Live

\* Objects that stay lent keep infos named.
LEMMA NamedStays ==
  ASSUME AppInfosAssumption, NEW j \in Info, NEW s, NEW t, StrsSound(s), StrsSound(t),
         StayLent(s, t), Named(j, s)
  PROVE  Named(j, t)
<1> SUFFICES ASSUME NEW k \in Kinds, j.str[k] # None
             PROVE  j.str[k] \in t[k].pool.total + 1 .. Size[k] /\ t[k].name[j.str[k]] = j.said[k]
  BY DEF Named
<1>1. j.str[k] \in s[k].pool.total + 1 .. Size[k] /\ s[k].name[j.str[k]] = j.said[k]
  BY DEF Named
<1>2. t[k].pool.total <= s[k].pool.total /\ t[k].name[j.str[k]] = s[k].name[j.str[k]]
  BY <1>1 DEF StayLent
<1>3. s[k].pool.total \in 0 .. Size[k] /\ t[k].pool.total \in 0 .. Size[k] /\ Size[k] \in Nat
  BY DEF StrsSound, StringsSound, AppInfosAssumption
<1> QED
  BY <1>1, <1>2, <1>3

\* The beginning of processFlow: the flow has an info now that no other flow
\* has.
LEMMA GotInfo ==
  ASSUME AppInfosAssumption, OwnInfos, NEW f \in Flows, GetInfo(f)
  PROVE  /\ InfoOf(f) \in 1 .. InfoSize
         /\ Lends(infos, 1 .. InfoSize, HadInfo, Flows, None)'
         /\ flow' \in [Flows -> 0 .. InfoSize]
         /\ \A g \in Flows : g # f => flow'[g] = flow[g] /\ (HasInfo(g)' <=> HasInfo(g))
                                      /\ (HasInfo(g) => flow[g] # InfoOf(f))
         /\ flow'[f] = InfoOf(f) /\ HasInfo(f)'
         /\ Live' = Live \cup {InfoOf(f)}
         /\ HasInfo(f) <=> InfoOf(f) \in Live
         /\ InfoState(f) = IF InfoOf(f) \in Live THEN info[InfoOf(f)] ELSE ResetInfo
<1> DEFINE c == InfoOf(f)
<1>1. Lends(infos, 1 .. InfoSize, HadInfo, Flows, None) /\ None \notin 1 .. InfoSize
      /\ flow \in [Flows -> 0 .. InfoSize]
  BY DEF OwnInfos, None
<1>2. flow' = [flow EXCEPT ![f] = c]
  BY DEF GetInfo
<1>3. InVector(infos') = InVector(infos)
  BY DEF GetInfo, Acquired, InVector
<1>4. c \in 1 .. InfoSize /\ c \in InVector(infos)
      /\ Lends(infos', 1 .. InfoSize, [HadInfo EXCEPT ![f] = c], Flows, None)
  <2>1. CASE HasInfo(f)
    <3>1. c = flow[f] /\ infos' = infos /\ c = HadInfo[f]
      BY <2>1 DEF InfoOf, GetInfo, HadInfo
    <3>2. [HadInfo EXCEPT ![f] = c] = HadInfo
      BY <3>1 DEF HadInfo
    <3> QED
      BY <1>1, <2>1, <3>1, <3>2, LiveInfos DEF HasInfo
  <2>2. CASE ~HasInfo(f)
    <3>1. c = Top(infos) /\ infos' = Acquired(infos) /\ CanAcquire(infos)
      BY <2>2 DEF InfoOf, GetInfo, CanGetInfo
    <3>2. /\ Lends(Acquired(infos), 1 .. InfoSize, [HadInfo EXCEPT ![f] = Top(infos)], Flows, None)
          /\ Top(infos) \in 1 .. InfoSize
      BY <1>1, <3>1, AcquiredNumber
    <3>3. infos.total \in 1 .. Len(infos.items)
      BY <1>1, <3>1, LenProperties DEF Lends, Fits, Pools, CanAcquire
    <3> QED
      BY <3>1, <3>2, <3>3 DEF Top, InVector
  <2> QED
    BY <2>1, <2>2
<1>5. \A g \in Flows : g # f => flow'[g] = flow[g] /\ (HasInfo(g)' <=> HasInfo(g))
  BY <1>1, <1>2, <1>3 DEF HasInfo
<1>6. flow'[f] = c /\ HasInfo(f)' /\ flow' \in [Flows -> 0 .. InfoSize]
  BY <1>1, <1>2, <1>3, <1>4 DEF HasInfo
<1>7. HadInfo' = [HadInfo EXCEPT ![f] = c]
  BY <1>5, <1>6 DEF HadInfo
<1>8. Lends(infos, 1 .. InfoSize, HadInfo, Flows, None)'
  BY <1>4, <1>7
<1>9. \A g \in Flows : g # f /\ HasInfo(g) => flow[g] # c
  <2> SUFFICES ASSUME NEW g \in Flows, g # f, HasInfo(g) PROVE flow[g] # c
    OBVIOUS
  <2>1. /\ \A a, b \in Flows : [HadInfo EXCEPT ![f] = c][a] # None
             /\ [HadInfo EXCEPT ![f] = c][a] = [HadInfo EXCEPT ![f] = c][b] => a = b
    BY <1>4 DEF Lends
  <2>2. [HadInfo EXCEPT ![f] = c][g] = flow[g] /\ [HadInfo EXCEPT ![f] = c][f] = c
    BY DEF HadInfo
  <2> HIDE DEF c
  <2> QED
    BY <1>1, <1>4, <2>1, <2>2
<1>10. Live' = Live \cup {c}
  <2>1. CASE HasInfo(f)
    <3>1. flow'[f] = flow[f]
      BY <1>6, <2>1 DEF InfoOf
    <3> QED
      BY <1>5, <1>6, <2>1, <3>1 DEF Live
  <2>2. CASE ~HasInfo(f)
    <3> HIDE DEF c
    <3> QED
      BY <1>5, <1>6, <2>2 DEF Live
  <2> QED
    BY <2>1, <2>2
<1>11. HasInfo(f) <=> c \in Live
  <2>1. HasInfo(f) => c \in Live
    BY DEF InfoOf, Live
  <2>2. ~HasInfo(f) => c \notin Live
    BY <1>9 DEF Live
  <2> QED
    BY <2>1, <2>2
<1>12. InfoState(f) = IF c \in Live THEN info[c] ELSE ResetInfo
  BY <1>11 DEF InfoState, InfoOf
<1> QED
  BY <1>4, <1>5, <1>6, <1>8, <1>9, <1>10, <1>11, <1>12

\* What processFlow begins with is sound.
LEMMA BeforeSound ==
  ASSUME AppInfosAssumption, SoundState, NEW f \in Flows, GetInfo(f)
  PROVE  Sound(Before(f))
<1>1. /\ Before(f).i = InfoState(f) /\ Before(f).s = strs
      /\ Before(f) = [i |-> InfoState(f), s |-> strs]
  BY DEF Before
<1>2. StrsSound(strs) /\ strs \in [Kinds -> AllStrings]
  BY DEF SoundState, StrsSound
<1>3. InfoState(f) \in Info /\ Named(InfoState(f), strs)
  <2>1. CASE HasInfo(f)
    <3>1. flow[f] \in Live /\ flow[f] \in 1 .. InfoSize
      BY <2>1, LiveInfos DEF SoundState
    <3> QED
      BY <2>1, <3>1 DEF InfoState, SoundState, OwnInfos
  <2>2. CASE ~HasInfo(f)
    <3>1. ResetInfo \in Info /\ Named(ResetInfo, strs)
      BY DEF ResetInfo, Info, Named, None
    <3> QED
      BY <2>2, <3>1 DEF InfoState
  <2> QED
    BY <2>1, <2>2
<1> QED
  BY <1>1, <1>2, <1>3 DEF Sound, States

\* What a packet may make of each state it begins with.
AllFollow(f, states, kept, counted) == \A y \in states : Follows(Before(f), y, kept, counted)

\* A packet in general.
LEMMA PacketSound ==
  ASSUME AppInfosAssumption, SoundState, NEW f \in Flows, GetInfo(f),
         NEW states, Processed(f, states),
         NEW kept \in SUBSET Kinds, NEW counted \in SUBSET Kinds, AllFollow(f, states, kept, counted)
  PROVE  SoundState' /\ (Counts(counted) => Counts(counted)')
<1> DEFINE c == InfoOf(f)
<1>1. PICK y \in states : info' = [info EXCEPT ![c] = y.i] /\ strs' = y.s
  BY DEF Processed
<1>2. /\ c \in 1 .. InfoSize /\ Live' = Live \cup {c} /\ Live \subseteq 1 .. InfoSize
      /\ Lends(infos, 1 .. InfoSize, HadInfo, Flows, None)'
      /\ flow' \in [Flows -> 0 .. InfoSize]
      /\ InfoState(f) = IF c \in Live THEN info[c] ELSE ResetInfo
  BY GotInfo, LiveInfos DEF SoundState, OwnInfos
<1>3. info \in [1 .. InfoSize -> Info] /\ StrsSound(strs) /\ \A i \in Live : Named(info[i], strs)
  BY DEF SoundState, OwnInfos
<1>4. /\ Sound(y) /\ StayLent(strs, y.s)
      /\ \A k \in counted : HitsFollow(Before(f), y, k)
  BY DEF AllFollow, Follows, Before
<1>5. y.i \in Info /\ StrsSound(y.s) /\ Named(y.i, y.s)
  BY <1>4 DEF Sound, States
<1> HIDE DEF c
<1>6. info' \in [1 .. InfoSize -> Info] /\ info'[c] = y.i /\ \A i \in Live : i # c => info'[i] = info[i]
  BY <1>1, <1>2, <1>3, <1>5
<1>7. \A i \in Live : Named(info[i], y.s)
  BY <1>2, <1>3, <1>4, <1>5, NamedStays
<1>8. \A i \in Live' : Named(info'[i], strs')
  BY <1>1, <1>2, <1>5, <1>6, <1>7
<1>9. SoundState'
  <2>1. crashed' \in BOOLEAN
    BY DEF Processed, SoundState, OwnInfos
  <2> QED
    BY <1>1, <1>2, <1>5, <1>6, <1>8, <2>1 DEF SoundState, OwnInfos
<1>10. ASSUME Counts(counted) PROVE Counts(counted)'
  <2> SUFFICES ASSUME NEW k \in counted, NEW e \in y.s[k].map
               PROVE  Cardinality(Users(k, e.obj)') <= e.hits
    BY <1>1 DEF Counts
  <2> DEFINE x == Before(f)
             o == e.obj
  <2>1. x.i = InfoState(f) /\ x.s = strs /\ k \in Kinds
    BY DEF Before
  <2>2. o \in 1 .. Size[k] /\ e.hits \in Int
    BY <1>4, <2>1, SoundParts
  <2>3. \/ \E d \in strs[k].map : d.obj = o /\ d.hits + Uses(y.i, k, o) <= e.hits + Uses(x.i, k, o)
        \/ o <= strs[k].pool.total /\ Uses(y.i, k, o) <= e.hits
    BY <1>4, <2>1 DEF HitsFollow
  <2> HIDE DEF x, o
  <2> DEFINE others == Users(k, o) \ {c}
  <2>4. IsFiniteSet(Users(k, o)) /\ IsFiniteSet(others) /\ Cardinality(others) \in Nat
        /\ Cardinality(Users(k, o)) \in Nat
    <3>1. InfoSize \in Int /\ Users(k, o) \subseteq 1 .. InfoSize
      <4>1. Live \subseteq 1 .. InfoSize /\ InfoSize \in Int
        BY <1>2 DEF AppInfosAssumption
      <4> QED
        BY <4>1 DEF Users
    <3>2. IsFiniteSet(1 .. InfoSize)
      BY <3>1, FS_Interval
    <3>3. IsFiniteSet(Users(k, o))
      BY <3>1, <3>2, FS_Subset
    <3> HIDE DEF others
    <3>4. others \subseteq Users(k, o)
      BY DEF others
    <3>5. IsFiniteSet(others)
      BY <3>3, <3>4, FS_Subset
    <3> QED
      BY <3>3, <3>5, FS_CardinalityType
  <2>5. Users(k, o)' = IF y.i.str[k] = o THEN others \cup {c} ELSE others
    <3>1. Users(k, o)' = {i \in Live \cup {c} : info'[i].str[k] = o}
      BY <1>2 DEF Users
    <3>2. \A i \in Live \cup {c} :
            info'[i].str[k] = o <=> IF i = c THEN y.i.str[k] = o ELSE info[i].str[k] = o
      BY <1>6
    <3> QED
      BY <3>1, <3>2 DEF Users
  <2>6. Cardinality(Users(k, o)') = Cardinality(others) + Uses(y.i, k, o)
    <3>1. c \notin others
      OBVIOUS
    <3> HIDE DEF others
    <3>2. Cardinality(others \cup {c}) = Cardinality(others) + 1
      BY <2>4, <3>1, FS_AddElement
    <3> QED
      BY <2>4, <2>5, <3>2 DEF Uses
  <2>7. Cardinality(Users(k, o)) = Cardinality(others) + Uses(x.i, k, o)
    <3>1. c \in Users(k, o) <=> Uses(x.i, k, o) = 1
      <4>1. CASE c \in Live
        BY <1>2, <2>1, <4>1 DEF Users, Uses
      <4>2. CASE c \notin Live
        BY <1>2, <2>1, <2>2, <4>2 DEF Users, Uses, ResetInfo, None, o
      <4> QED
        BY <4>1, <4>2
    <3>2. Cardinality(others) = IF c \in Users(k, o) THEN Cardinality(Users(k, o)) - 1 ELSE Cardinality(Users(k, o))
      BY <2>4, FS_RemoveElement
    <3>3. Uses(x.i, k, o) \in {0, 1}
      BY DEF Uses
    <3> HIDE DEF others
    <3> QED
      BY <2>4, <3>1, <3>2, <3>3
  <2>8. Uses(x.i, k, o) \in Int /\ Uses(y.i, k, o) \in Int /\ e.hits \in Int
    BY <2>2 DEF Uses
  <2>9. CASE \E d \in strs[k].map : d.obj = o /\ d.hits + Uses(y.i, k, o) <= e.hits + Uses(x.i, k, o)
    <3>1. PICK d \in strs[k].map : d.obj = o /\ d.hits + Uses(y.i, k, o) <= e.hits + Uses(x.i, k, o)
      BY <2>9
    <3>2. d.hits \in Int
      BY <2>1, <3>1, BeforeSound, SoundParts DEF x
    <3>3. Cardinality(Users(k, o)) <= d.hits
      BY <1>10, <3>1 DEF Counts
    <3> HIDE DEF others
    <3> QED
      BY <2>4, <2>6, <2>7, <2>8, <3>1, <3>2, <3>3 DEF o
  <2>10. CASE o <= strs[k].pool.total /\ Uses(y.i, k, o) <= e.hits
    <3>1. strs[k].pool.total \in 0 .. Size[k] /\ Size[k] \in Nat
      BY <1>3, <2>1 DEF StrsSound, StringsSound, AppInfosAssumption
    <3>2. \A i \in Live : info[i].str[k] # o
      <4> SUFFICES ASSUME NEW i \in Live, info[i].str[k] = o PROVE FALSE
        OBVIOUS
      <4>1. o # None
        BY <2>2 DEF None, o
      <4>2. o \in strs[k].pool.total + 1 .. Size[k]
        BY <1>3, <2>1, <4>1 DEF Named
      <4> QED
        BY <2>10, <3>1, <4>2
    <3>3. others = {}
      BY <3>2 DEF Users
    <3>4. Cardinality(others) = 0
      BY <3>3, FS_EmptySet
    <3> HIDE DEF others
    <3> QED
      BY <2>6, <2>8, <2>10, <3>4 DEF o
  <2> QED
    BY <2>3, <2>9, <2>10
<1> QED
  BY <1>9, <1>10

\* A string of a live info can be locked.
LEMMA LiveStrings ==
  ASSUME AppInfosAssumption, SoundState, NEW i \in Live, NEW k \in Kinds
  PROVE  StringOf(i, k) = info[i].str[k]
<1> DEFINE x == [i |-> info[i], s |-> strs]
<1>1. info[i] \in Info
  BY LiveInfos DEF SoundState, OwnInfos
<1>2. Sound(x)
  BY <1>1 DEF Sound, SoundState, States, StrsSound
<1>3. x.i = info[i] /\ x.s = strs
  OBVIOUS
<1> HIDE DEF x
<1>4. HasString(x, k) <=> x.i.str[k] # None
  BY <1>2, SoundParts
<1> QED
  BY <1>3, <1>4 DEF HasString, StringOf

\* The same for all of them, to be used in the next state.
LEMMA LiveStringsAll ==
  SoundState /\ AppInfosAssumption => \A j \in Live, l \in Kinds : StringOf(j, l) = info[j].str[l]
BY LiveStrings

\* A packet leaves the flows their strings of the kinds kept.
LEMMA PacketKeeps ==
  ASSUME AppInfosAssumption, SoundState, NEW f \in Flows, GetInfo(f),
         NEW states, Processed(f, states),
         NEW kept \in SUBSET Kinds, AllFollow(f, states, kept, {})
  PROVE  KeepsFirst(kept)
<1> SUFFICES ASSUME NEW g \in Flows, NEW k \in kept,
                    HasInfo(g), flow'[g] = flow[g], StringOf(flow[g], k) # None
             PROVE  /\ info'[flow[g]].str[k] = StringOf(flow[g], k)
                    /\ StringAlive(strs'[k], info'[flow[g]].str[k])
  BY DEF KeepsFirst
<1> DEFINE c == InfoOf(f)
           i == flow[g]
<1>1. PICK y \in states : info' = [info EXCEPT ![c] = y.i] /\ strs' = y.s
  BY DEF Processed
<1>2. /\ k \in Kinds /\ i \in Live /\ i \in 1 .. InfoSize /\ c \in 1 .. InfoSize
      /\ info \in [1 .. InfoSize -> Info]
      /\ g # f => i # c
      /\ Live' = Live \cup {c}
      /\ InfoState(f) = IF c \in Live THEN info[c] ELSE ResetInfo
  BY LiveInfos, GotInfo DEF SoundState, OwnInfos
<1>3. StringOf(i, k) = info[i].str[k] /\ info[i].str[k] # None
  BY <1>2, LiveStrings
<1>4. info'[i].str[k] = info[i].str[k]
  <2>1. CASE i # c
    BY <1>1, <1>2, <2>1
  <2>2. CASE i = c
    <3>1. Follows(Before(f), y, kept, {}) /\ Before(f).i = info[c]
      BY <1>2, <2>2 DEF AllFollow, Before
    <3>2. y.i.str[k] = info[c].str[k]
      BY <1>3, <2>2, <3>1 DEF Follows
    <3> QED
      BY <1>1, <1>2, <2>2, <3>2
  <2> QED
    BY <2>1, <2>2
<1>5. StringAlive(strs'[k], info'[i].str[k])
  <2>1. SoundState'
    BY PacketSound
  <2>2. i \in Live'
    BY <1>2
  <2>3. StringOf(i, k)' = info'[i].str[k]
    <3>1. (SoundState /\ AppInfosAssumption => \A j \in Live, l \in Kinds : StringOf(j, l) = info[j].str[l])'
      BY LiveStringsAll, PTL
    <3> QED
      BY <1>2, <2>1, <2>2, <3>1
  <2> QED
    BY <1>3, <1>4, <2>3 DEF StringOf
<1> QED
  BY <1>3, <1>4, <1>5

\* A pool of which somebody lost what it had lends a little less.
LEMMA LessHeld ==
  ASSUME NEW p, NEW S, NEW held, NEW Ids_, NEW none, Lends(p, S, held, Ids_, none),
         NEW less, less = [a \in Ids_ |-> less[a]], \A a \in Ids_ : less[a] \in {held[a], none}
  PROVE  Lends(p, S, less, Ids_, none)
<1>1. less \in [Ids_ -> S \cup {none}]
  BY DEF Lends
<1> QED
  BY <1>1 DEF Lends

\* release of an object brings none into the vector that was not there.
LEMMA ReleasedVector ==
  ASSUME NEW p, NEW S, Fits(p, S), NEW o \in S, o \in InVector(p)
  PROVE  InVector(Released(p, o)) \subseteq InVector(p)
<1>1. CASE ~CanRelease(p)
  BY <1>1 DEF Released
<1>2. CASE CanRelease(p)
  <2>1. LET q == Released(p, o)
        IN /\ Len(q.items) = Len(p.items)
           /\ \A i \in 1 .. Len(p.items) :
                q.items[i] = IF i = p.total + 1 THEN o ELSE p.items[i]
    BY <1>2, ReleasedPool
  <2> QED
    BY <2>1 DEF InVector
<1> QED
  BY <1>1, <1>2

\* Nobody new uses a string: no more uses than before, nor than its hits.
LEMMA FewerUsers ==
  ASSUME AppInfosAssumption, SoundState, NEW k \in Kinds, NEW e \in strs[k].map,
         Cardinality(Users(k, e.obj)) <= e.hits, NEW T \in SUBSET Users(k, e.obj)
  PROVE  Cardinality(T) <= e.hits
<1>1. e.hits \in Int
  BY DEF SoundState, StrsSound, StringsSound, Strings
<1>2. Live \subseteq 1 .. InfoSize /\ InfoSize \in Int
  BY LiveInfos DEF AppInfosAssumption, SoundState
<1>3. Users(k, e.obj) \subseteq 1 .. InfoSize
  BY <1>2 DEF Users
<1>4. IsFiniteSet(1 .. InfoSize)
  BY <1>2, FS_Interval
<1>5. IsFiniteSet(Users(k, e.obj))
  BY <1>3, <1>4, FS_Subset
<1>6. IsFiniteSet(T) /\ Cardinality(T) <= Cardinality(Users(k, e.obj))
  BY <1>5, FS_Subset
<1>7. Cardinality(T) \in Nat /\ Cardinality(Users(k, e.obj)) \in Nat
  BY <1>5, <1>6, FS_CardinalityType
<1> QED
  BY <1>1, <1>6, <1>7

\* CacheManager::releaseFlow.  Flows whose infos it writes over have none then.
LEMMA EndFlowOwn ==
  ASSUME AppInfosAssumption, OwnInfos, NEW f \in Flows, EndFlow(f)
  PROVE  OwnInfos' /\ Live' \subseteq Live
<1>1. /\ HasInfo(f) /\ infos' = Released(infos, flow[f]) /\ flow' = [flow EXCEPT ![f] = None]
      /\ strs' = strs /\ info' = info
  BY DEF EndFlow
<1>2. /\ Lends(infos, 1 .. InfoSize, HadInfo, Flows, None)
      /\ flow \in [Flows -> 0 .. InfoSize] /\ InfoSize \in Nat
      /\ flow[f] \in 1 .. InfoSize /\ HadInfo[f] = flow[f] /\ flow[f] # None
      /\ flow[f] \in InVector(infos)
  BY <1>1, LiveInfos DEF OwnInfos, HadInfo, HasInfo, AppInfosAssumption
<1>3. InVector(infos') \subseteq InVector(infos)
  BY <1>1, <1>2, ReleasedVector DEF Lends
<1>4. flow' \in [Flows -> 0 .. InfoSize] /\ flow'[f] = None /\ \A g \in Flows : g # f => flow'[g] = flow[g]
  BY <1>1, <1>2 DEF None
<1>5. ~HasInfo(f)' /\ \A g \in Flows : HasInfo(g)' => HasInfo(g) /\ flow'[g] = flow[g]
  BY <1>3, <1>4 DEF HasInfo
<1>6. Lends(infos', 1 .. InfoSize, [HadInfo EXCEPT ![f] = None], Flows, None)
  BY <1>1, <1>2, ReleasedNumber
<1>7. Lends(infos, 1 .. InfoSize, HadInfo, Flows, None)'
  <2> DEFINE held == [HadInfo EXCEPT ![f] = None]
             less == HadInfo'
  <2>1. less = [a \in Flows |-> less[a]]
    BY DEF HadInfo
  <2>2. \A a \in Flows : less[a] \in {held[a], None}
    BY <1>5 DEF HadInfo
  <2>3. Lends(infos', 1 .. InfoSize, held, Flows, None)
    BY <1>6
  <2> HIDE DEF less, held
  <2>4. Lends(infos', 1 .. InfoSize, less, Flows, None)
    BY <2>1, <2>2, <2>3, LessHeld
  <2> QED
    BY <2>4 DEF less
<1>8. Live' \subseteq Live
  BY <1>5 DEF Live
<1> QED
  BY <1>1, <1>4, <1>7, <1>8 DEF OwnInfos, EndFlow

\* The strings stay where they are.
LEMMA EndFlowSound ==
  ASSUME AppInfosAssumption, SoundState, NEW f \in Flows, EndFlow(f), NEW kinds \in SUBSET Kinds
  PROVE  SoundState' /\ (Counts(kinds) => Counts(kinds)')
<1>1. strs' = strs /\ info' = info
  BY DEF EndFlow
<1>8. OwnInfos' /\ Live' \subseteq Live
  BY EndFlowOwn DEF SoundState
<1>9. SoundState'
  BY <1>1, <1>8 DEF SoundState
<1>10. ASSUME Counts(kinds) PROVE Counts(kinds)'
  <2> SUFFICES ASSUME NEW k \in kinds, NEW e \in strs[k].map
               PROVE  Cardinality(Users(k, e.obj)') <= e.hits
    BY <1>1 DEF Counts
  <2>1. Users(k, e.obj)' \subseteq Users(k, e.obj)
    BY <1>1, <1>8 DEF Users
  <2>2. k \in Kinds /\ Cardinality(Users(k, e.obj)) <= e.hits
    BY <1>10 DEF Counts
  <2> QED
    BY <2>1, <2>2, FewerUsers
<1> QED
  BY <1>9, <1>10

\* releaseCache goes through the flows that have infos.
LEMMA ReleaseLoop ==
  ASSUME AppInfosAssumption, OwnInfos \/ Cleared, NEW cacheOf, ReleaseCacheInto(cacheOf)
  PROVE  \E n \in Nat : \E walk, m :
           /\ \A i \in 1 .. n : walk[i] \in Flows /\ HasInfo(walk[i])
           /\ m[0] = [info |-> info, s |-> strs, infos |-> infos]
           /\ \A i \in 1 .. n : m[i] = CacheOfReleased(m[i - 1], flow[walk[i]], cacheOf)
           /\ info' = m[n].info
           /\ strs' = [j \in Kinds |-> [m[n].s[j] EXCEPT !.map = {}]]
           /\ infos' = m[n].infos
<1> DEFINE S == {f \in Flows : HasInfo(f)}
           k == Cardinality(S)
           first == [info |-> info, s |-> strs, infos |-> infos]
<1>1. PICK walk \in SetToSeqs(S) :
        LET m[i \in 0 .. Len(walk)] ==
              IF i = 0 THEN [info |-> info, s |-> strs, infos |-> infos]
              ELSE CacheOfReleased(m[i - 1], flow[walk[i]], cacheOf)
        IN /\ info' = m[Len(walk)].info
           /\ strs' = [j \in Kinds |-> [m[Len(walk)].s[j] EXCEPT !.map = {}]]
           /\ infos' = m[Len(walk)].infos
  BY DEF ReleaseCacheInto
<1>3. k \in Nat
  <2>1. CASE Cleared
    <3>1. S = {}
      BY <2>1 DEF Cleared, HasInfo
    <3> QED
      BY <3>1, FS_EmptySet
  <2>2. CASE OwnInfos
    <3> DEFINE place == [f \in S |-> flow[f]]
    <3>1. place \in Injection(S, 1 .. InfoSize)
      BY <2>2, LiveInfos DEF Injection, IsInjective
    <3>2. IsFiniteSet(1 .. InfoSize)
      BY FS_Interval DEF AppInfosAssumption
    <3> HIDE DEF S, place
    <3>3. IsFiniteSet(S)
      BY <3>1, <3>2, FS_Injection
    <3> QED
      BY <3>3, FS_CardinalityType
  <2> QED
    BY <2>1, <2>2
<1>4. /\ walk \in [1 .. k -> S] /\ Len(walk) = k
      /\ \A i \in 1 .. k : walk[i] \in Flows /\ HasInfo(walk[i])
  <2>1. walk \in {g \in [1 .. k -> S] : \A i, j \in 1 .. k : i # j => g[i] # g[j]}
    BY DEF SetToSeqs
  <2> HIDE DEF k
  <2>2. Len(walk) = k
    BY <1>3, <2>1
  <2> QED
    BY <2>1, <2>2
<1> DEFINE Back(x, i) == CacheOfReleased(x, flow[walk[i]], cacheOf)
           Runs(g, n) == g = [i \in 0 .. n |-> IF i = 0 THEN first ELSE Back(g[i - 1], i)]
           m == CHOOSE g : Runs(g, k)
<1>5. /\ info' = m[k].info
      /\ strs' = [j \in Kinds |-> [m[k].s[j] EXCEPT !.map = {}]]
      /\ infos' = m[k].infos
  BY <1>1, <1>4
<1> HIDE DEF k
<1>6. Runs(m, k)
  <2> HIDE DEF first, Back
  <2> DEFINE T == {n \in 0 .. k : \E g : Runs(g, n)}
  <2>1. 0 \in T
    <3>1. Runs([i \in 0 .. 0 |-> first], 0)
      OBVIOUS
    <3> HIDE DEF Runs
    <3> QED
      BY <1>3, <3>1
  <2>2. ASSUME NEW n \in 0 .. k - 1, n \in T PROVE n + 1 \in T
    <3>1. PICK g : Runs(g, n)
      BY <2>2
    <3> DEFINE h == [i \in 0 .. n + 1 |-> IF i = n + 1 THEN Back(g[n], n + 1) ELSE g[i]]
    <3>2. \A i \in 0 .. n + 1 : h[i] = IF i = 0 THEN first ELSE Back(h[i - 1], i)
      <4> SUFFICES ASSUME NEW i \in 0 .. n + 1 PROVE h[i] = IF i = 0 THEN first ELSE Back(h[i - 1], i)
        OBVIOUS
      <4>1. CASE i = n + 1
        <5>1. h[i] = Back(g[n], i) /\ h[i - 1] = g[n] /\ i # 0
          BY <4>1
        <5> QED
          BY <5>1
      <4>2. CASE i # n + 1
        <5>1. i \in 0 .. n /\ h[i] = g[i] /\ (i # 0 => h[i - 1] = g[i - 1])
          BY <4>2
        <5>2. g[i] = IF i = 0 THEN first ELSE Back(g[i - 1], i)
          BY <3>1, <5>1
        <5> QED
          BY <5>1, <5>2
      <4> QED
        BY <4>1, <4>2
    <3>3. h = [i \in 0 .. n + 1 |-> h[i]]
      OBVIOUS
    <3>4. Runs(h, n + 1)
      <4> HIDE DEF h
      <4> QED
        BY <3>2, <3>3
    <3> HIDE DEF h, Runs
    <3> QED
      BY <1>3, <3>4
  <2>3. k \in T
    <3> HIDE DEF T
    <3>1. 0 .. k \subseteq T
      BY <1>3, <2>1, <2>2, IntervalInduction
    <3> QED
      BY <1>3, <3>1
  <2> HIDE DEF Runs
  <2> QED
    BY <2>3
<1>7. m[0] = first /\ \A i \in 1 .. k : m[i] = Back(m[i - 1], i)
  <2> HIDE DEF m, first, Back
  <2> QED
    BY <1>3, <1>6
<1> HIDE DEF m
<1>8. \A i \in 1 .. k : m[i] = CacheOfReleased(m[i - 1], flow[walk[i]], cacheOf)
  BY <1>7
<1>9. m[0] = [info |-> info, s |-> strs, infos |-> infos]
  BY <1>7
<1> HIDE DEF first, Back
<1> QED
  BY <1>3, <1>4, <1>5, <1>8, <1>9

\* What it leaves: cleared maps, and infos that are what they were or have no
\* strings.  The first flow with an info puts the null pointer on the top of
\* the free stack, where it stays.
LEMMA ReleaseCacheLeaves ==
  ASSUME AppInfosAssumption, OwnInfos \/ Cleared, FitStrs(strs), NEW cacheOf, ReleaseCacheInto(cacheOf)
  PROVE  /\ FitStrs(strs')
         /\ \A k \in Kinds : strs'[k].map = {}
         /\ info' \in [1 .. InfoSize -> Info]
         /\ \A i \in 1 .. InfoSize : info'[i] = info[i] \/ \A k \in Kinds : info'[i].str[k] = None
         /\ \A i \in 1 .. InfoSize : info'[i].banned = info[i].banned
         /\ \/ Cleared'
            \/ OwnInfos' /\ ~Cleared /\ strs' = [k \in Kinds |-> [strs[k] EXCEPT !.map = {}]]
<1> DEFINE S == 0 .. InfoSize
           Topped(p) == CanAcquire(p) /\ Top(p) = Null
<1>0. PICK n \in Nat : \E walk, m :
           /\ \A i \in 1 .. n : walk[i] \in Flows /\ HasInfo(walk[i])
           /\ m[0] = [info |-> info, s |-> strs, infos |-> infos]
           /\ \A i \in 1 .. n : m[i] = CacheOfReleased(m[i - 1], flow[walk[i]], cacheOf)
           /\ info' = m[n].info
           /\ strs' = [j \in Kinds |-> [m[n].s[j] EXCEPT !.map = {}]]
           /\ infos' = m[n].infos
  BY ReleaseLoop
<1>1. PICK walk, m :
           /\ \A i \in 1 .. n : walk[i] \in Flows /\ HasInfo(walk[i])
           /\ m[0] = [info |-> info, s |-> strs, infos |-> infos]
           /\ \A i \in 1 .. n : m[i] = CacheOfReleased(m[i - 1], flow[walk[i]], cacheOf)
           /\ info' = m[n].info
           /\ strs' = [j \in Kinds |-> [m[n].s[j] EXCEPT !.map = {}]]
           /\ infos' = m[n].infos
  BY <1>0
<1>2. flow' = [f \in Flows |-> None] /\ crashed' = crashed
  BY DEF ReleaseCacheInto
<1>3. /\ Fits(infos, S) /\ info \in [1 .. InfoSize -> Info] /\ crashed \in BOOLEAN /\ InfoSize \in Nat
      /\ flow \in [Flows -> S]
  <2>1. CASE OwnInfos
    <3>1. 1 .. InfoSize \subseteq S /\ InfoSize \in Nat
      BY DEF AppInfosAssumption
    <3>2. Fits(infos, 1 .. InfoSize)
      BY <2>1 DEF OwnInfos, Lends
    <3> HIDE DEF S
    <3>3. Fits(infos, S)
      <4>1. infos.items \in Seq(S)
        BY <3>1, <3>2, SeqMonotonic DEF Fits, Pools
      <4> QED
        BY <3>2, <4>1 DEF Fits, Pools
    <3> QED
      BY <2>1, <3>1, <3>3 DEF OwnInfos, S
  <2>2. CASE Cleared
    BY <2>2 DEF Cleared, AppInfosAssumption
  <2> QED
    BY <2>1, <2>2
<1> DEFINE Left(x, i) ==
             /\ x.info \in [1 .. InfoSize -> Info]
             /\ \A j \in 1 .. InfoSize : x.info[j] = info[j] \/ \A k \in Kinds : x.info[j].str[k] = None
             /\ \A j \in 1 .. InfoSize : x.info[j].banned = info[j].banned
             /\ FitStrs(x.s)
             /\ Fits(x.infos, S)
             /\ i = 0 => x.infos = infos
             /\ i > 0 => Topped(x.infos)
<1>4. Left(m[0], 0)
  BY <1>1, <1>3
<1>5. ASSUME NEW i \in 0 .. n - 1, Left(m[i], i) PROVE Left(m[i + 1], i + 1)
  <2> DEFINE x == m[i]
             o == flow[walk[i + 1]]
             y == ReleaseStringsInto([i |-> x.info[o], s |-> x.s], cacheOf)
  <2>0. i + 1 \in 1 .. n /\ i + 1 - 1 = i /\ i + 1 > 0
    OBVIOUS
  <2>1. m[i + 1] = CacheOfReleased(x, o, cacheOf)
    BY <1>1, <2>0
  <2>2. o # None /\ o \in S /\ o \in 1 .. InfoSize /\ o \in InVector(infos)
    <3>1. walk[i + 1] \in Flows /\ HasInfo(walk[i + 1])
      BY <1>1, <2>0
    <3> QED
      BY <1>3, <3>1 DEF HasInfo, None
  <2>3. /\ x.info \in [1 .. InfoSize -> Info]
        /\ \A j \in 1 .. InfoSize : x.info[j] = info[j] \/ \A k \in Kinds : x.info[j].str[k] = None
        /\ \A j \in 1 .. InfoSize : x.info[j].banned = info[j].banned
        /\ FitStrs(x.s)
        /\ Fits(x.infos, S)
        /\ i = 0 => x.infos = infos
        /\ i > 0 => Topped(x.infos)
    BY <1>5
  <2> HIDE DEF x, o
  <2>4. CASE o \notin InVector(x.infos)
    <3>1. m[i + 1] = x
      BY <2>1, <2>4 DEF CacheOfReleased
    <3>2. i > 0
      BY <2>2, <2>3, <2>4
    <3> QED
      BY <2>0, <2>3, <3>1, <3>2
  <2>5. CASE o \in InVector(x.infos)
    <3> DEFINE q == Released(x.infos, Null)
    <3>1. m[i + 1] = [info |-> [x.info EXCEPT ![o] = y.i], s |-> y.s, infos |-> q]
      BY <2>1, <2>5 DEF CacheOfReleased
    <3>2. /\ y.i \in Info /\ y.i.banned = x.info[o].banned
          /\ (\A k \in Kinds : y.i.str[k] = None) /\ FitStrs(y.s)
      <4> DEFINE z == [i |-> x.info[o], s |-> x.s]
      <4>1. z.i \in Info /\ FitStrs(z.s)
        BY <2>2, <2>3
      <4> HIDE DEF z
      <4>2. /\ ReleaseStringsInto(z, cacheOf).i \in Info
            /\ ReleaseStringsInto(z, cacheOf).i.banned = z.i.banned
            /\ \A k \in Kinds : ReleaseStringsInto(z, cacheOf).i.str[k] = None
            /\ FitStrs(ReleaseStringsInto(z, cacheOf).s)
        BY <4>1, StringsGoBack
      <4> QED
        BY <4>2 DEF z
    <3> HIDE DEF y
    <3>3. /\ [x.info EXCEPT ![o] = y.i] \in [1 .. InfoSize -> Info]
          /\ \A j \in 1 .. InfoSize : \/ [x.info EXCEPT ![o] = y.i][j] = info[j]
                                      \/ \A k \in Kinds : [x.info EXCEPT ![o] = y.i][j].str[k] = None
          /\ \A j \in 1 .. InfoSize : [x.info EXCEPT ![o] = y.i][j].banned = info[j].banned
      BY <2>2, <2>3, <3>2
    <3>4. Fits(q, S) /\ Topped(q)
      <4>1. Null \in S /\ x.infos.total \in Nat /\ Len(x.infos.items) \in Nat
        BY <1>3, <2>3, LenProperties DEF Null, Fits, Pools
      <4>2. CASE CanRelease(x.infos)
        <5>1. /\ Fits(q, S) /\ q.total = x.infos.total + 1
              /\ \A j \in 1 .. Len(x.infos.items) :
                   q.items[j] = IF j = x.infos.total + 1 THEN Null ELSE x.infos.items[j]
          <6> HIDE DEF S
          <6> QED
            BY <2>3, <4>1, <4>2, ReleasedPool
        <5>2. x.infos.total + 1 \in 1 .. Len(x.infos.items)
          BY <4>1, <4>2 DEF CanRelease
        <5> HIDE DEF q
        <5> QED
          BY <4>1, <5>1, <5>2 DEF CanAcquire, Top
      <4>3. CASE ~CanRelease(x.infos)
        <5>1. q = x.infos
          BY <4>3 DEF Released
        <5>2. i = 0 => FALSE
          <6> SUFFICES ASSUME i = 0 PROVE FALSE
            OBVIOUS
          <6>1. x.infos = infos
            BY <2>3
          <6>2. ~Cleared
            BY <1>1, <2>0, <2>2 DEF Cleared, o, HasInfo
          <6>3. Lends(infos, 1 .. InfoSize, HadInfo, Flows, None)
            BY <6>2 DEF OwnInfos
          <6>4. walk[1] \in Flows /\ HasInfo(walk[1]) /\ HadInfo[walk[1]] = o
            BY <1>1, <2>0 DEF HadInfo, o
          <6>5. \A j \in 1 .. infos.total : infos.items[j] # o
            BY <2>2, <6>3, <6>4 DEF Lends
          <6>6. PICK j \in 1 .. Len(infos.items) : infos.items[j] = o
            BY <2>2 DEF InVector
          <6>7. j \in 1 .. infos.total
            BY <4>1, <4>3, <6>1 DEF CanRelease
          <6> QED
            BY <6>5, <6>6, <6>7
        <5> QED
          BY <2>0, <2>3, <5>1, <5>2
      <4> QED
        BY <4>2, <4>3
    <3> HIDE DEF q, Topped
    <3> QED
      BY <2>0, <3>1, <3>2, <3>3, <3>4
  <2> QED
    BY <2>4, <2>5
<1>6. Left(m[n], n)
  <2> HIDE DEF Left
  <2> DEFINE T == {i \in 0 .. n : Left(m[i], i)}
  <2>1. 0 \in T
    BY <1>4
  <2>2. \A i \in 0 .. n - 1 : i \in T => i + 1 \in T
    BY <1>5
  <2>3. n \in T
    <3> HIDE DEF T
    <3>1. 0 .. n \subseteq T
      BY <2>1, <2>2, IntervalInduction
    <3> QED
      BY <3>1
  <2> QED
    BY <2>3
<1>7. FitStrs(strs') /\ \A k \in Kinds : strs'[k].map = {}
  <2>1. ASSUME NEW k \in Kinds PROVE StringsFit(strs'[k], Size[k]) /\ strs'[k].map = {}
    <3> DEFINE s == m[n].s[k]
    <3>1. StringsFit(s, Size[k])
      BY <1>6 DEF FitStrs
    <3>2. strs'[k] = [s EXCEPT !.map = {}]
      BY <1>1
    <3> HIDE DEF s
    <3>3. /\ s = [pool |-> s.pool, name |-> s.name, map |-> s.map]
          /\ s.pool \in Pools(1 .. Size[k] \cup {None}) /\ s.name \in [1 .. Size[k] -> Names \cup {None}]
          /\ Fits(s.pool, 1 .. Size[k] \cup {None})
      BY <3>1, StringsParts
    <3>4. strs'[k] = [pool |-> s.pool, name |-> s.name, map |-> {}]
      BY <3>2, <3>3
    <3> QED
      BY <3>3, <3>4 DEF StringsFit, Strings
  <2>2. strs' = [k \in Kinds |-> strs'[k]]
    BY <1>1
  <2>3. \A k \in Kinds : strs'[k] \in AllStrings
    BY <2>1 DEF StringsFit, AllStrings
  <2> QED
    BY <2>1, <2>2, <2>3 DEF FitStrs
<1>8. flow' \in [Flows -> 0 .. InfoSize] /\ \A f \in Flows : flow'[f] = None
  BY <1>2, <1>3 DEF None
<1>9. Topped(infos') => Cleared'
  <2>1. Fits(infos', S) /\ info' \in [1 .. InfoSize -> Info] /\ crashed' \in BOOLEAN
    BY <1>1, <1>2, <1>3, <1>6
  <2> QED
    BY <1>7, <1>8, <2>1 DEF Cleared
<1>10. CASE n # 0
  <2>1. Topped(infos')
    <3> HIDE DEF Topped
    <3> QED
      BY <1>1, <1>6, <1>10
  <2> HIDE DEF Topped
  <2> QED
    BY <1>1, <1>6, <1>7, <1>9, <2>1
<1>11. CASE n = 0
  <2>1. infos' = infos /\ info' = info /\ strs' = [k \in Kinds |-> [strs[k] EXCEPT !.map = {}]]
    <3>1. m[n].s = strs /\ m[n].infos = infos /\ m[n].info = info
      BY <1>1, <1>11
    <3>2. strs' = [j \in Kinds |-> [m[n].s[j] EXCEPT !.map = {}]] /\ info' = m[n].info /\ infos' = m[n].infos
      BY <1>1
    <3> QED
      BY <3>1, <3>2
  <2>2. CASE Cleared
    BY <1>3, <1>7, <1>9, <2>1, <2>2 DEF Cleared
  <2>3. CASE ~Cleared
    <3>1. HadInfo' = [f \in Flows |-> None]
      BY <1>8 DEF HadInfo, HasInfo
    <3>2. Lends(infos, 1 .. InfoSize, HadInfo, Flows, None)
      BY <2>3 DEF OwnInfos
    <3> DEFINE less == [f \in Flows |-> None]
    <3>3. less = [f \in Flows |-> less[f]] /\ \A f \in Flows : less[f] \in {HadInfo[f], None}
      OBVIOUS
    <3> HIDE DEF less
    <3>4. Lends(infos, 1 .. InfoSize, less, Flows, None)
      BY <3>2, <3>3, LessHeld
    <3>5. Lends(infos, 1 .. InfoSize, HadInfo, Flows, None)'
      BY <2>1, <3>1, <3>4 DEF less
    <3>6. OwnInfos'
      BY <1>2, <1>3, <1>8, <2>1, <3>5 DEF OwnInfos
    <3> QED
      BY <1>3, <1>7, <2>1, <2>3, <3>6
  <2> QED
    BY <2>2, <2>3
<1> QED
  BY <1>10, <1>11

\* Infos that flows own are of the type of a pool that may have null.
LEMMA InfosFit ==
  ASSUME AppInfosAssumption, OwnInfos
  PROVE  Fits(infos, 0 .. InfoSize)
<1> DEFINE S == 0 .. InfoSize
<1>1. 1 .. InfoSize \subseteq S
  BY DEF AppInfosAssumption
<1>2. Fits(infos, 1 .. InfoSize)
  BY DEF OwnInfos, Lends
<1> HIDE DEF S
<1>3. infos.items \in Seq(S)
  BY <1>1, <1>2, SeqMonotonic DEF Fits, Pools
<1>4. Fits(infos, S)
  BY <1>2, <1>3 DEF Fits, Pools
<1> QED
  BY <1>4 DEF S

\* The maps are cleared, so there is nothing to count.
LEMMA ReleaseCacheSound ==
  ASSUME AppInfosAssumption, SoundInv, NEW cacheOf, ReleaseCacheInto(cacheOf), NEW kinds \in SUBSET Kinds
  PROVE  SoundInv' /\ Counts(kinds)' /\ KeepsFirst(kinds)
<1>1. (OwnInfos \/ Cleared) /\ FitStrs(strs)
  BY SoundFit DEF SoundInv, SoundState, Cleared
<1>2. /\ \A k \in Kinds : strs'[k].map = {}
      /\ FitStrs(strs')
      /\ \/ Cleared'
         \/ OwnInfos' /\ ~Cleared /\ strs' = [k \in Kinds |-> [strs[k] EXCEPT !.map = {}]]
  BY <1>1, ReleaseCacheLeaves
<1>3. \A f \in Flows : flow'[f] = None /\ ~HasInfo(f)'
  BY DEF ReleaseCacheInto, HasInfo
<1>4. ASSUME OwnInfos', ~Cleared, strs' = [k \in Kinds |-> [strs[k] EXCEPT !.map = {}]]
      PROVE  SoundState'
  <2>1. ASSUME NEW k \in Kinds PROVE StringsSound(strs'[k], Size[k])
    <3> DEFINE s == strs[k]
    <3>1. StringsSound(s, Size[k]) /\ StringsFit(s, Size[k]) /\ StringsFit(strs'[k], Size[k])
      BY <1>1, <1>2, <1>4 DEF SoundInv, SoundState, StrsSound, FitStrs
    <3>2. strs'[k] = [s EXCEPT !.map = {}]
      BY <1>4
    <3> HIDE DEF s
    <3>3. s = [pool |-> s.pool, name |-> s.name, map |-> s.map]
      BY <3>1, StringsParts
    <3>4. strs'[k].pool = s.pool /\ strs'[k].map = {}
      BY <3>2, <3>3
    <3> QED
      BY <3>1, <3>4 DEF StringsSound, StringsFit
  <2>2. StrsSound(strs')
    BY <1>2, <2>1 DEF StrsSound, FitStrs
  <2>3. Live' = {}
    BY <1>3 DEF Live
  <2> QED
    BY <1>4, <2>2, <2>3 DEF SoundState
<1>5. Counts(kinds)'
  BY <1>2 DEF Counts
<1>6. KeepsFirst(kinds)
  BY <1>3 DEF KeepsFirst, HasInfo
<1> QED
  BY <1>2, <1>4, <1>5, <1>6 DEF SoundInv

\* New pools and no infos yet.
LEMMA SoundInit ==
  ASSUME AppInfosAssumption, Init, NEW kinds \in SUBSET Kinds
  PROVE  SoundInv /\ Counts(kinds)
<1>1. InfoSize \in Nat /\ Size \in [Kinds -> Nat]
  BY DEF AppInfosAssumption
<1>2. /\ infos = Created(EmptyPool, [i \in 1 .. InfoSize |-> i])
      /\ info = [i \in 1 .. InfoSize |-> ResetInfo]
      /\ flow = [f \in Flows |-> None]
      /\ strs = [k \in Kinds |-> NewStrings(Size[k])]
      /\ crashed = FALSE
  BY DEF Init
<1>3. \A f \in Flows : ~HasInfo(f)
  BY <1>2 DEF HasInfo
<1>4. HadInfo = [f \in Flows |-> None] /\ Live = {}
  BY <1>3 DEF HadInfo, Live
<1>5. Lends(infos, 1 .. InfoSize, HadInfo, Flows, None)
  BY <1>1, <1>2, <1>4, NewPool
<1>6. OwnInfos
  <2>1. ResetInfo \in Info
    BY DEF ResetInfo, Info, None
  <2>2. info \in [1 .. InfoSize -> Info] /\ flow \in [Flows -> 0 .. InfoSize]
    BY <1>1, <1>2, <2>1 DEF None
  <2> QED
    BY <1>2, <1>5, <2>2 DEF OwnInfos
<1>7. ASSUME NEW k \in Kinds PROVE StringsSound(strs[k], Size[k]) /\ strs[k].map = {}
  <2> DEFINE n == Size[k]
             new == [i \in 1 .. n |-> i]
             s == strs[k]
  <2>1. n \in Nat
    BY <1>1
  <2>2. s = [pool |-> Created(EmptyPool, new), name |-> [i \in 1 .. n |-> None], map |-> {}]
    BY <1>2 DEF NewStrings
  <2>3. Len(new) = n /\ new \in Seq(1 .. n \cup {None})
    BY <2>1
  <2>4. Created(EmptyPool, new) = [items |-> <<>> \o new, total |-> 0 + Len(new)]
    BY DEF EmptyPool, Created
  <2>5. <<>> \o new = new
    <3> HIDE DEF new
    <3> QED
      BY <2>3
  <2>6. s.pool = [items |-> new, total |-> n]
    <3>1. 0 + Len(new) = n
      BY <2>1, <2>3
    <3>2. s.pool = Created(EmptyPool, new)
      BY <2>2
    <3> HIDE DEF new, n, s
    <3> QED
      BY <2>4, <2>5, <3>1, <3>2
  <2>7. s.pool \in Pools(1 .. n \cup {None})
    BY <2>1, <2>3, <2>6 DEF Pools
  <2>8. s.name \in [1 .. n -> Names \cup {None}] /\ s.map = {}
    BY <2>2
  <2>9. s \in Strings(1 .. n)
    <3>1. s = [pool |-> s.pool, name |-> s.name, map |-> s.map]
      BY <2>2
    <3> HIDE DEF s
    <3> QED
      BY <2>7, <2>8, <3>1 DEF Strings
  <2>10. s.pool.items = new /\ s.pool.total = n
    BY <2>6
  <2> HIDE DEF s
  <2>11. StringsSound(s, n)
    BY <2>1, <2>8, <2>9, <2>10 DEF StringsSound
  <2> QED
    BY <2>8, <2>11 DEF s
<1>8. StrsSound(strs)
  <2>1. \A k \in Kinds : strs[k] \in AllStrings
    BY <1>7 DEF StringsSound, AllStrings
  <2>2. strs = [k \in Kinds |-> strs[k]]
    BY <1>2
  <2> QED
    BY <1>7, <2>1, <2>2 DEF StrsSound
<1> QED
  BY <1>4, <1>6, <1>7, <1>8 DEF SoundInv, SoundState, Counts

\* What the invariant means for users of the strings.
LEMMA SoundMeans ==
  ASSUME AppInfosAssumption, SoundInv
  PROVE  TypeOK /\ MapSound /\ NamesRight
<1>1. TypeOK
  <2>1. /\ Fits(infos, 0 .. InfoSize) /\ info \in [1 .. InfoSize -> Info]
        /\ flow \in [Flows -> 0 .. InfoSize] /\ FitStrs(strs) /\ crashed \in BOOLEAN
    BY InfosFit, SoundFit DEF SoundInv, SoundState, OwnInfos, Cleared
  <2> QED
    BY <2>1 DEF TypeOK, Fits, FitStrs, StringsFit
<1>2. MapSound
  <2> SUFFICES ASSUME NEW k \in Kinds
               PROVE  /\ \A e \in strs[k].map : e.obj \notin FreeObjects(strs[k].pool)
                      /\ \A d, e \in strs[k].map : d.obj = e.obj \/ d.key = e.key => d = e
    BY DEF MapSound
  <2>1. CASE Cleared
    BY <2>1 DEF Cleared
  <2>2. CASE SoundState
    <3>1. /\ StringsSound(strs[k], Size[k]) /\ strs[k].pool.total \in 0 .. Size[k] /\ Size[k] \in Nat
          /\ strs[k].pool.items = [o \in 1 .. Size[k] |-> o]
      BY <2>2 DEF SoundState, StrsSound, StringsSound, AppInfosAssumption
    <3>2. \A i \in 1 .. strs[k].pool.total : strs[k].pool.items[i] = i /\ i <= strs[k].pool.total
      BY <3>1
    <3>3. \A e \in strs[k].map : e.obj \in 1 .. Size[k] /\ e.obj > strs[k].pool.total
      BY <3>1 DEF StringsSound, Strings
    <3>4. \A e \in strs[k].map : e.obj \notin FreeObjects(strs[k].pool)
      BY <3>1, <3>2, <3>3 DEF FreeObjects
    <3> QED
      BY <3>1, <3>4 DEF StringsSound
  <2> QED
    BY <2>1, <2>2 DEF SoundInv
<1>3. NamesRight
  <2>1. CASE Cleared
    BY <2>1 DEF Cleared, NamesRight, Live, HasInfo
  <2>2. CASE SoundState
    BY <2>2, LiveStrings DEF NamesRight, SoundState, Named
  <2> QED
    BY <2>1, <2>2 DEF SoundInv
<1> QED
  BY <1>1, <1>2, <1>3

\* Hits that are there for users cover the infos that have the string.
LEMMA CountsMean ==
  ASSUME AppInfosAssumption, SoundInv, NEW k \in Kinds, NEW kinds \in SUBSET Kinds, k \in kinds, Counts(kinds)
  PROVE  HitsCover(k)
<1>1. CASE Cleared
  BY <1>1 DEF Cleared, HitsCover
<1>2. CASE SoundState
  <2>1. \A o : {i \in Live : StringOf(i, k) = o} = Users(k, o)
    BY <1>2, LiveStrings DEF Users
  <2> QED
    BY <2>1 DEF HitsCover, Counts
<1> QED
  BY <1>1, <1>2 DEF SoundInv

\* No packet gets through when the infos are gone; it finds the null pointer.
LEMMA ClearedStops ==
  ASSUME Cleared, NEW f \in Flows
  PROVE  ~HasInfo(f) /\ ~CanGetInfo(f)
BY DEF Cleared, HasInfo, CanGetInfo

\* Steps that leave the strings and who has them alone.
LEMMA StringsLeft ==
  ASSUME NEW kinds, strs' = strs, \A i, k : info'[i].str[k] = info[i].str[k]
  PROVE  KeepsFirst(kinds)
BY DEF KeepsFirst, StringOf

\* The null pointer is found: nothing else changes.
LEMMA CrashSound ==
  ASSUME AppInfosAssumption, SoundInv, NEW f \in Flows, Crash(f), NEW kinds \in SUBSET Kinds
  PROVE  SoundInv' /\ (Counts(kinds) => Counts(kinds)') /\ KeepsFirst(kinds)
<1>1. infos' = infos /\ info' = info /\ flow' = flow /\ strs' = strs /\ crashed' \in BOOLEAN
  BY DEF Crash
<1>2. SoundInv'
  BY <1>1 DEF SoundInv, SoundState, OwnInfos, Cleared, Live, HadInfo, HasInfo
<1>3. Counts(kinds) => Counts(kinds)'
  BY <1>1 DEF Counts, Users, Live, HasInfo
<1> QED
  BY <1>1, <1>2, <1>3, StringsLeft

\* A step of another part of the program.
LEMMA NothingSound ==
  ASSUME AppInfosAssumption, SoundInv, UNCHANGED vars, NEW kinds \in SUBSET Kinds
  PROVE  SoundInv' /\ (Counts(kinds) => Counts(kinds)') /\ KeepsFirst(kinds)
<1>1. infos' = infos /\ info' = info /\ flow' = flow /\ strs' = strs /\ crashed' = crashed
  BY DEF vars
<1>2. SoundInv'
  BY <1>1 DEF SoundInv, SoundState, OwnInfos, Cleared, Live, HadInfo, HasInfo
<1>3. Counts(kinds) => Counts(kinds)'
  BY <1>1 DEF Counts, Users, Live, HasInfo
<1> QED
  BY <1>1, <1>2, <1>3, StringsLeft

-----------------------------------------------------------------------------
(***************************************************************************)
(* The steps that the protocols share.                                     *)
(***************************************************************************)

\* What a step keeps: the invariant, the hits of the kinds counted and the
\* strings of the kinds kept.
Kept(kept, counted) ==
  /\ SoundInv'
  /\ Counts(counted) => Counts(counted)'
  /\ KeepsFirst(kept)

\* processFlow, from what its packet may do to an info and the strings.
LEMMA PacketKept ==
  ASSUME AppInfosAssumption, SoundInv, NEW f \in Flows, GetInfo(f),
         NEW states, Processed(f, states),
         NEW kept \in SUBSET Kinds, NEW counted \in SUBSET Kinds,
         Sound(Before(f)) => AllFollow(f, states, kept, counted)
  PROVE  Kept(kept, counted)
<1>1. SoundState
  BY ClearedStops DEF SoundInv, GetInfo
<1>2. AllFollow(f, states, kept, counted)
  BY <1>1, BeforeSound
<1>3. AllFollow(f, states, kept, {})
  BY <1>2 DEF AllFollow, Follows
<1>4. SoundState' /\ (Counts(counted) => Counts(counted)')
  BY <1>1, <1>2, PacketSound
<1>5. KeepsFirst(kept)
  BY <1>1, <1>3, PacketKeeps
<1> QED
  BY <1>4, <1>5 DEF Kept, SoundInv

\* The end of a flow, a crash and releaseCache.
LEMMA OthersKept ==
  ASSUME AppInfosAssumption, SoundInv, NEW kept \in SUBSET Kinds, NEW counted \in SUBSET Kinds,
         \/ \E f \in Flows : EndFlow(f) \/ Crash(f)
         \/ \E cacheOf : ReleaseCacheInto(cacheOf)
         \/ UNCHANGED vars
  PROVE  Kept(kept, counted)
<1>1. ASSUME NEW f \in Flows, EndFlow(f) PROVE Kept(kept, counted)
  <2>1. HasInfo(f) /\ strs' = strs /\ info' = info
    BY <1>1 DEF EndFlow
  <2>2. SoundState
    BY <2>1, ClearedStops DEF SoundInv
  <2>3. SoundState' /\ (Counts(counted) => Counts(counted)')
    BY <1>1, <2>2, EndFlowSound
  <2>4. KeepsFirst(kept)
    BY <2>1, StringsLeft
  <2> QED
    BY <2>3, <2>4 DEF Kept, SoundInv
<1>2. ASSUME NEW f \in Flows, Crash(f) PROVE Kept(kept, counted)
  <2>1. SoundInv' /\ (Counts(counted) => Counts(counted)')
    BY <1>2, CrashSound
  <2>2. KeepsFirst(kept)
    BY <1>2, CrashSound
  <2> QED
    BY <2>1, <2>2 DEF Kept
<1>3. ASSUME NEW cacheOf, ReleaseCacheInto(cacheOf) PROVE Kept(kept, counted)
  <2>1. SoundInv' /\ Counts(counted)'
    BY <1>3, ReleaseCacheSound
  <2>2. KeepsFirst(kept)
    BY <1>3, ReleaseCacheSound
  <2> QED
    BY <2>1, <2>2 DEF Kept
<1>4. ASSUME UNCHANGED vars PROVE Kept(kept, counted)
  <2>1. SoundInv' /\ (Counts(counted) => Counts(counted)')
    BY <1>4, NothingSound
  <2>2. KeepsFirst(kept)
    BY <1>4, NothingSound
  <2> QED
    BY <2>1, <2>2 DEF Kept
<1> QED
  BY <1>1, <1>2, <1>3, <1>4

\* An info that only its marks change of.
LEMMA SameStrings ==
  ASSUME AppInfosAssumption, NEW x, Sound(x), NEW y, y = [i |-> y.i, s |-> x.s], y.i \in Info,
         y.i.str = x.i.str, y.i.said = x.i.said,
         NEW kept \in SUBSET Kinds, NEW counted \in SUBSET Kinds
  PROVE  Follows(x, y, kept, counted)
<1>1. y.s = x.s
  OBVIOUS
<1>2. x \in States /\ StrsSound(x.s) /\ Named(x.i, x.s)
  BY DEF Sound
<1>3. y \in States
  BY <1>2 DEF States
<1>4. Named(y.i, y.s)
  BY <1>1, <1>2 DEF Named
<1>5. Follows(x, x, kept, counted)
  BY FollowsSelf
<1>6. \A k : HitsFollow(x, x, k) => HitsFollow(x, y, k)
  BY <1>1 DEF HitsFollow, Uses
<1> QED
  BY <1>1, <1>2, <1>3, <1>4, <1>5, <1>6 DEF Follows, Sound

-----------------------------------------------------------------------------
(***************************************************************************)
(* SMTP, IMAP and POP                                                      *)
(***************************************************************************)

\* MAIL FROM, LOGIN and USER: a banned name marks the info and is not attached.
LEMMA LoginFollows ==
  ASSUME AppInfosAssumption, NEW x, Sound(x), NEW k \in Kinds, NEW n \in Names, NEW y \in Login(x, k, n),
         NEW kept \in SUBSET Kinds, NEW counted \in SUBSET Kinds
  PROVE  Follows(x, y, kept, counted)
<1>1. CASE n \in Banned
  <2>1. y = [x EXCEPT !.i.banned = TRUE]
    BY <1>1 DEF Login
  <2>2. x = [i |-> x.i, s |-> x.s] /\ x.i \in Info
    BY DEF Sound, States
  <2>3. y = [i |-> [x.i EXCEPT !.banned = TRUE], s |-> x.s]
    BY <2>1, <2>2
  <2>4. /\ [x.i EXCEPT !.banned = TRUE] \in Info
        /\ [x.i EXCEPT !.banned = TRUE].str = x.i.str /\ [x.i EXCEPT !.banned = TRUE].said = x.i.said
    BY <2>2 DEF Info
  <2> QED
    BY <2>3, <2>4, SameStrings
<1>2. CASE n \notin Banned
  BY <1>2, AttachFollows DEF Login
<1> QED
  BY <1>1, <1>2

\* A command of each protocol.
LEMMA CommandFollows ==
  ASSUME AppInfosAssumption, MailProtocolsAssumption,
         NEW x, Sound(x), NEW n \in Names, NEW y \in Command(x, n),
         NEW kept \in SUBSET Kinds, NEW counted \in SUBSET Kinds
  PROVE  Follows(x, y, kept, counted)
<1>1. CASE MailProtocol = "SMTP"
  <2>1. y \in Login(x, "from", n) \/ y \in Attach(x, "to", n)
    BY <1>1 DEF Command, CommandSMTP, Mail, Rcpt
  <2>2. "from" \in Kinds /\ "to" \in Kinds
    BY <1>1 DEF MailProtocolsAssumption
  <2> QED
    BY <2>1, <2>2, LoginFollows, AttachFollows
<1>2. CASE MailProtocol \in {"IMAP", "POP"}
  <2>1. y \in Login(x, "user", n)
    BY <1>2 DEF Command, CommandIMAP, LoginIMAP, CommandPOP, User
  <2>2. "user" \in Kinds
    BY <1>2 DEF MailProtocolsAssumption
  <2> QED
    BY <2>1, <2>2, LoginFollows
<1> QED
  BY <1>1, <1>2 DEF MailProtocolsAssumption

\* A script marks an info; its strings stay.
LEMMA SetBannedMailKept ==
  ASSUME AppInfosAssumption, SoundInv, NEW f \in Flows, NEW value \in BOOLEAN, SetBannedMail(f, value)
  PROVE  Kept(Kinds, {})
<1>1. /\ HasInfo(f) /\ info' = [info EXCEPT ![flow[f]].banned = value]
      /\ infos' = infos /\ flow' = flow /\ strs' = strs /\ crashed' = crashed
  BY DEF SetBannedMail
<1>2. SoundState
  BY <1>1, ClearedStops DEF SoundInv
<1>3. info \in [1 .. InfoSize -> Info]
  BY <1>2 DEF SoundState, OwnInfos
<1>4. ASSUME NEW j \in Info
      PROVE  /\ [j EXCEPT !.banned = value] \in Info
             /\ [j EXCEPT !.banned = value].str = j.str /\ [j EXCEPT !.banned = value].said = j.said
  BY DEF Info
<1>5. /\ info' \in [1 .. InfoSize -> Info]
      /\ \A i \in 1 .. InfoSize : info'[i].str = info[i].str /\ info'[i].said = info[i].said
  BY <1>1, <1>3, <1>4
<1>6. OwnInfos'
  BY <1>1, <1>2, <1>5 DEF SoundState, OwnInfos, HadInfo, HasInfo
<1>7. Live' = Live /\ Live \subseteq 1 .. InfoSize
  BY <1>1, <1>2, LiveInfos DEF Live, HasInfo, SoundState
<1>8. SoundState'
  BY <1>1, <1>2, <1>5, <1>6, <1>7 DEF SoundState, Named
<1>9. KeepsFirst(Kinds)
  <2>1. \A g \in Flows : HasInfo(g) => flow[g] \in 1 .. InfoSize
    BY <1>2, LiveInfos DEF SoundState
  <2> QED
    BY <1>1, <1>5, <2>1 DEF KeepsFirst, StringOf
<1> QED
  BY <1>8, <1>9 DEF Kept, SoundInv, Counts

\* Each step of SMTP, IMAP and POP.
LEMMA MailStep ==
  ASSUME AppInfosAssumption, MailProtocolsAssumption, SoundInv, [NextMail]_vars
  PROVE  Kept(Kinds, {})
<1>1. ASSUME NEW f \in Flows, PacketMail(f) PROVE Kept(Kinds, {})
  <2> DEFINE x == Before(f)
             states == IF x.i.banned THEN {x} ELSE {x} \cup UNION {Command(x, n) : n \in Names}
  <2>1. GetInfo(f) /\ Processed(f, states)
    BY <1>1 DEF PacketMail
  <2>2. Sound(x) => \A y \in states : Follows(x, y, Kinds, {})
    <3> SUFFICES ASSUME Sound(x), NEW y \in states PROVE Follows(x, y, Kinds, {})
      OBVIOUS
    <3>1. y = x \/ \E n \in Names : y \in Command(x, n)
      OBVIOUS
    <3> HIDE DEF x, states
    <3> QED
      BY <3>1, FollowsSelf, CommandFollows
  <2>3. Sound(Before(f)) => AllFollow(f, states, Kinds, {})
    BY <2>2 DEF AllFollow
  <2> HIDE DEF states
  <2> QED
    BY <2>1, <2>3, PacketKept
<1> QED
  BY <1>1, OthersKept, SetBannedMailKept DEF NextMail, ReleaseCacheMail

\* For every number of flows, infos and strings and every names and bans: no
\* sequence of commands, ends of flows, marks of scripts and releaseCache leaves a
\* string of a mail protocol in the map and free, or in two entries, or shows a
\* flow another's user (CacheManager, attach_from, attach_user_name...).
THEOREM MailStringsAlways ==
  AppInfosAssumption /\ MailProtocolsAssumption =>
    (SpecMail => [](TypeOK /\ MapSound /\ NamesRight))
<1> SUFFICES ASSUME AppInfosAssumption, MailProtocolsAssumption
             PROVE  SpecMail => [](TypeOK /\ MapSound /\ NamesRight)
  OBVIOUS
<1>1. Init => SoundInv
  BY SoundInit
<1>2. SoundInv /\ [NextMail]_vars => SoundInv'
  BY MailStep DEF Kept
<1>3. SoundInv => TypeOK /\ MapSound /\ NamesRight
  BY SoundMeans
<1> QED
  BY <1>1, <1>2, <1>3, PTL DEF SpecMail

\* A flow of a mail protocol keeps its names (attach_from, attach_to and
\* attach_user_name are called for an info without): no later command and no end
\* of another flow that shares them takes them away.
THEOREM FirstUserAlways ==
  AppInfosAssumption /\ MailProtocolsAssumption => (SpecMail => FirstUserStays)
<1> SUFFICES ASSUME AppInfosAssumption, MailProtocolsAssumption PROVE SpecMail => FirstUserStays
  OBVIOUS
<1>1. Init => SoundInv
  BY SoundInit
<1>2. SoundInv /\ [NextMail]_vars => SoundInv' /\ [KeepsFirst(Kinds)]_vars
  BY MailStep DEF Kept
<1> QED
  BY <1>1, <1>2, PTL DEF SpecMail, FirstUserStays

-----------------------------------------------------------------------------
(***************************************************************************)
(* DNS, SIP and SSDP                                                       *)
(***************************************************************************)

\* The kinds of strings that a flow keeps, and of those whose hits are counted.
KeptKinds == Kinds \ {"uri", "host"}
CountedKind == IF DatagramProtocol = "DNS" THEN "name" ELSE "host"
CountedKinds == IF DatagramProtocol = "SIP" THEN {} ELSE {CountedKind}

\* A query or an answer: a domain is attached to an info without (attach_dns_to_flow).
LEMMA MessageDNSFollows ==
  ASSUME AppInfosAssumption, Kinds = {"name"}, NEW x, Sound(x), NEW y \in MessageDNS(x)
  PROVE  Follows(x, y, Kinds, Kinds)
<1>1. y = x \/ \E n \in Names : y \in Attach(x, "name", n)
  BY DEF MessageDNS, Query, Answer
<1> QED
  BY <1>1, FollowsSelf, AttachFollows

\* A header of SIP that a message may have or not.
LEMMA OptionalFollows ==
  ASSUME AppInfosAssumption, NEW x, Sound(x), NEW kept \in SUBSET Kinds, NEW counted \in SUBSET Kinds,
         NEW states, \A y \in states : Follows(x, y, kept, counted),
         NEW k \in Kinds, NEW z \in Optional(states, k)
  PROVE  Follows(x, z, kept, counted)
<1>1. CASE z \in states
  BY <1>1
<1>2. ASSUME NEW y \in states, NEW n \in Names, z \in Attach(y, k, n)
      PROVE  Follows(x, z, kept, counted)
  <2>1. Follows(x, y, kept, counted) /\ Sound(y)
    BY DEF Follows
  <2>2. Follows(y, z, kept, counted)
    BY <1>2, <2>1, AttachFollows
  <2> QED
    BY <2>1, <2>2, FollowsThrough
<1> QED
  BY <1>1, <1>2 DEF Optional

\* A SIP request: the URI is replaced, Via, From and To are not.
LEMMA MessageSIPFollows ==
  ASSUME AppInfosAssumption, Kinds = {"uri", "via", "from", "to"},
         NEW x, Sound(x), NEW z \in MessageSIP(x)
  PROVE  Follows(x, z, {"via", "from", "to"}, {})
<1> DEFINE kept == {"via", "from", "to"}
           uri == {x} \cup UNION {UriSIP(x, n) : n \in Names}
           via == Optional(uri, "via")
           from == Optional(via, "from")
<1>1. kept \in SUBSET Kinds /\ {} \in SUBSET Kinds /\ "uri" \notin kept
      /\ "uri" \in Kinds /\ "via" \in Kinds /\ "from" \in Kinds /\ "to" \in Kinds
  OBVIOUS
<1>2. z \in Optional(from, "to")
  BY DEF MessageSIP
<1> HIDE DEF kept
<1>3. \A y \in uri : Follows(x, y, kept, {})
  <2>1. ASSUME NEW n \in Names, NEW y \in UriSIP(x, n) PROVE Follows(x, y, kept, {})
    BY <1>1, <2>1, AttachNewFollows DEF UriSIP
  <2> QED
    BY <1>1, <2>1, FollowsSelf
<1> HIDE DEF uri
<1>4. \A y \in via : Follows(x, y, kept, {})
  BY <1>1, <1>3, OptionalFollows
<1> HIDE DEF via
<1>5. \A y \in from : Follows(x, y, kept, {})
  BY <1>1, <1>4, OptionalFollows
<1> HIDE DEF from
<1>6. Follows(x, z, kept, {})
  BY <1>1, <1>2, <1>5, OptionalFollows
<1> QED
  BY <1>6 DEF kept

\* An SSDP request: the URI is replaced, the host is not.
LEMMA MessageSSDPFollows ==
  ASSUME AppInfosAssumption, Kinds = {"host", "uri"}, NEW x, Sound(x), NEW z \in MessageSSDP(x)
  PROVE  Follows(x, z, {"host"}, {"host"})
<1> DEFINE kinds == {"host"}
<1>1. kinds \in SUBSET Kinds /\ "uri" \notin kinds /\ "uri" \in Kinds /\ "host" \in Kinds
  OBVIOUS
<1> HIDE DEF kinds
<1>2. ASSUME NEW y, y = x \/ \E n \in Names : y \in UriSSDP(x, n) PROVE Follows(x, y, kinds, kinds)
  <2>1. \A n \in Names : y \in UriSSDP(x, n) => Follows(x, y, kinds, kinds)
    BY <1>1, AttachNewFollows DEF UriSSDP
  <2> QED
    BY <1>1, <1>2, <2>1, FollowsSelf
<1>3. ASSUME NEW host \in Names, NEW y, Follows(x, y, kinds, kinds), z \in HostSSDP(y, host)
      PROVE  Follows(x, z, kinds, kinds)
  <2>1. Sound(y)
    BY <1>3 DEF Follows
  <2>2. z = y \/ z \in Attach(y, "host", host)
    BY <1>3 DEF HostSSDP
  <2>3. Follows(y, z, kinds, kinds)
    BY <1>1, <2>1, <2>2, FollowsSelf, AttachFollows
  <2> QED
    BY <1>1, <1>3, <2>1, <2>3, FollowsThrough
<1>4. z = x \/ \E host \in Names \cup {None} : z \in RequestSSDP(x, host)
  BY DEF MessageSSDP
<1>5. ASSUME NEW host \in Names \cup {None}, z \in RequestSSDP(x, host)
      PROVE  \E y : /\ y = x \/ \E n \in Names : y \in UriSSDP(x, n)
                    /\ z = y \/ (host \in Names /\ z \in HostSSDP(y, host))
  BY <1>5 DEF RequestSSDP
<1>6. Follows(x, z, kinds, kinds)
  BY <1>2, <1>3, <1>4, <1>5
<1> QED
  BY <1>6 DEF kinds

\* Each step of DNS, SIP and SSDP.
LEMMA DatagramStep ==
  ASSUME AppInfosAssumption, DatagramProtocolsAssumption, SoundInv, [NextDatagram]_vars
  PROVE  Kept(KeptKinds, CountedKinds)
<1>0. KeptKinds \in SUBSET Kinds /\ CountedKinds \in SUBSET Kinds
  BY DEF DatagramProtocolsAssumption, KeptKinds, CountedKinds, CountedKind
<1>1. ASSUME NEW f \in Flows, PacketDatagram(f) PROVE Kept(KeptKinds, CountedKinds)
  <2> DEFINE x == Before(f)
  <2>1. GetInfo(f) /\ Processed(f, Message(x))
    BY <1>1 DEF PacketDatagram
  <2>2. ASSUME Sound(x), NEW y \in Message(x) PROVE Follows(x, y, KeptKinds, CountedKinds)
    <3> HIDE DEF x
    <3>1. CASE DatagramProtocol = "DNS"
      <4>1. Kinds = {"name"} /\ y \in MessageDNS(x)
        BY <2>2, <3>1 DEF DatagramProtocolsAssumption, Message
      <4>2. Follows(x, y, Kinds, Kinds)
        BY <2>2, <4>1, MessageDNSFollows
      <4> QED
        BY <1>0, <4>2 DEF Follows
    <3>2. CASE DatagramProtocol = "SIP"
      <4>1. Kinds = {"uri", "via", "from", "to"} /\ y \in MessageSIP(x)
        BY <2>2, <3>2 DEF DatagramProtocolsAssumption, Message
      <4>2. Follows(x, y, {"via", "from", "to"}, {})
        BY <2>2, <4>1, MessageSIPFollows
      <4>3. KeptKinds \subseteq {"via", "from", "to"} /\ CountedKinds = {}
        BY <3>2, <4>1 DEF KeptKinds, CountedKinds
      <4> QED
        BY <4>2, <4>3 DEF Follows
    <3>3. CASE DatagramProtocol = "SSDP"
      <4>1. Kinds = {"host", "uri"} /\ y \in MessageSSDP(x)
        BY <2>2, <3>3 DEF DatagramProtocolsAssumption, Message
      <4>2. Follows(x, y, {"host"}, {"host"})
        BY <2>2, <4>1, MessageSSDPFollows
      <4>3. KeptKinds = {} /\ CountedKinds = {"host"}
        BY <3>3, <4>1 DEF KeptKinds, CountedKinds, CountedKind
      <4> QED
        BY <4>2, <4>3 DEF Follows
    <3> QED
      BY <3>1, <3>2, <3>3 DEF DatagramProtocolsAssumption
  <2>3. Sound(Before(f)) => AllFollow(f, Message(x), KeptKinds, CountedKinds)
    BY <2>2 DEF AllFollow
  <2> QED
    BY <1>0, <2>1, <2>3, PacketKept
<1> QED
  BY <1>0, <1>1, OthersKept DEF NextDatagram, ReleaseCacheDNS, ReleaseCacheSIP, ReleaseCacheSSDP

\* The same for DNS, SIP and SSDP, although SIP's releaseCache mixes up its
\* caches (SIPProtocol.cc:130), with a hit of a domain or SSDP host for each flow
\* that has it (attach_dns_to_flow, attach_host).
THEOREM DatagramStringsAlways ==
  AppInfosAssumption /\ DatagramProtocolsAssumption =>
    (SpecDatagram => [](/\ TypeOK /\ MapSound /\ NamesRight
                        /\ DatagramProtocol # "SIP" => HitsCoverNames))
<1> SUFFICES ASSUME AppInfosAssumption, DatagramProtocolsAssumption
             PROVE  SpecDatagram => [](/\ TypeOK /\ MapSound /\ NamesRight
                                       /\ DatagramProtocol # "SIP" => HitsCoverNames)
  OBVIOUS
<1> DEFINE Inv == SoundInv /\ Counts(CountedKinds)
<1>0. CountedKinds \in SUBSET Kinds
  BY DEF DatagramProtocolsAssumption, CountedKinds, CountedKind
<1>1. Init => Inv
  BY <1>0, SoundInit
<1>2. Inv /\ [NextDatagram]_vars => Inv'
  BY DatagramStep DEF Kept
<1>3. Inv => /\ TypeOK /\ MapSound /\ NamesRight
             /\ DatagramProtocol # "SIP" => HitsCoverNames
  <2> SUFFICES ASSUME SoundInv, Counts(CountedKinds)
               PROVE  /\ TypeOK /\ MapSound /\ NamesRight
                      /\ DatagramProtocol # "SIP" => HitsCoverNames
    OBVIOUS
  <2>1. ASSUME DatagramProtocol # "SIP" PROVE HitsCover(CountedKind)
    <3>1. CountedKind \in CountedKinds
      BY <2>1 DEF CountedKinds
    <3>2. CountedKind \in Kinds
      BY <1>0, <3>1
    <3> QED
      BY <1>0, <3>1, <3>2, CountsMean
  <2> QED
    BY <2>1, SoundMeans DEF HitsCoverNames, CountedKind
<1> QED
  BY <1>1, <1>2, <1>3, PTL DEF SpecDatagram

\* A flow keeps its domain, a call the Via, From and To it began with.
THEOREM FirstDatagramAlways ==
  AppInfosAssumption /\ DatagramProtocolsAssumption => (SpecDatagram => FirstStays)
<1> SUFFICES ASSUME AppInfosAssumption, DatagramProtocolsAssumption PROVE SpecDatagram => FirstStays
  OBVIOUS
<1>1. Init => SoundInv
  BY SoundInit
<1>2. SoundInv /\ [NextDatagram]_vars => SoundInv' /\ [KeepsFirst(Kinds \ {"uri", "host"})]_vars
  BY DatagramStep DEF Kept, KeptKinds
<1> QED
  BY <1>1, <1>2, PTL DEF SpecDatagram, FirstStays

-----------------------------------------------------------------------------
(***************************************************************************)
(* SSL                                                                     *)
(***************************************************************************)

\* Where the states of X get in a step.
Reached(X, step) == UNION {step[x] : x \in X}

\* m goes through k steps from the states of base, within G.
Loops(m, k, G, base, step) ==
  /\ m = [i \in 0 .. k |-> m[i]]
  /\ m[0] = base
  /\ \A i \in 1 .. k : m[i] = Reached(m[i - 1], step[i])
  /\ \A i \in 0 .. k : m[i] \in SUBSET G

\* A loop that goes from each state it has reached to several.
LEMMA StatesLoop ==
  ASSUME NEW k \in Nat, NEW G, NEW base \in SUBSET G, NEW step,
         \A i \in 1 .. k : \A x \in G : step[i][x] \in SUBSET G
  PROVE  \E m : Loops(m, k, G, base, step)
<1> DEFINE Sets == [i \in 0 .. k |-> SUBSET G]
           all == [i \in 1 .. k |-> [X \in SUBSET G |-> Reached(X, step[i])]]
<1>1. base \in Sets[0]
  OBVIOUS
<1>2. \A i \in 1 .. k : \A X \in Sets[i - 1] : all[i][X] \in Sets[i]
  <2> SUFFICES ASSUME NEW i \in 1 .. k, NEW X \in Sets[i - 1] PROVE all[i][X] \in Sets[i]
    OBVIOUS
  <2>1. i - 1 \in 0 .. k /\ i \in 0 .. k
    OBVIOUS
  <2>2. Sets[i - 1] = SUBSET G /\ Sets[i] = SUBSET G
    BY <2>1
  <2>3. X \in SUBSET G
    BY <2>2
  <2>4. Reached(X, step[i]) \in SUBSET G
    BY <2>3 DEF Reached
  <2>5. all[i][X] = Reached(X, step[i])
    BY <2>3
  <2> QED
    BY <2>2, <2>4, <2>5
<1> HIDE DEF Sets, all
<1>3. PICK m : Iterates(m, k, Sets, base, all)
  BY <1>1, <1>2, Iteration
<1>4. /\ m = [i \in 0 .. k |-> m[i]] /\ m[0] = base
      /\ \A i \in 0 .. k : m[i] \in SUBSET G
      /\ \A i \in 1 .. k : m[i] = all[i][m[i - 1]]
  BY <1>3 DEF Iterates, Sets
<1>5. \A i \in 1 .. k : m[i] = Reached(m[i - 1], step[i])
  <2> SUFFICES ASSUME NEW i \in 1 .. k PROVE m[i] = Reached(m[i - 1], step[i])
    OBVIOUS
  <2>1. i - 1 \in 0 .. k
    OBVIOUS
  <2> QED
    BY <1>4, <2>1 DEF all
<1> QED
  BY <1>4, <1>5 DEF Loops

\* The info w is v, or v with a string of kind k that n was said for.
Given(v, w, k, n) ==
  \/ w = v
  \/ /\ w.said[k] = n /\ w.banned = v.banned /\ w.release = v.release
     /\ \A j \in Kinds \ {k} : w.str[j] = v.str[j] /\ w.said[j] = v.said[j]

\* attach_host for an info that has no host: it shows the one attached.
LEMMA AttachNewInfo ==
  ASSUME NEW x, x.i \in Info, NEW k \in Kinds, NEW n \in Names, NEW count \in BOOLEAN,
         NEW y \in AttachNew(x, k, n, count)
  PROVE  Given(x.i, y.i, k, n)
<1>1. PICK r : y = [i |-> IF r.obj = None THEN x.i
                          ELSE [x.i EXCEPT !.str = Put(@, k, r.obj), !.said = Put(@, k, n)],
                    s |-> [x.s EXCEPT ![k] = r.strs]]
  BY DEF AttachNew
<1>2. CASE r.obj = None
  <2>1. y.i = x.i
    BY <1>1, <1>2
  <2> QED
    BY <2>1 DEF Given
<1>3. CASE r.obj # None
  <2>1. y.i = [x.i EXCEPT !.str = Put(@, k, r.obj), !.said = Put(@, k, n)]
    BY <1>1, <1>3
  <2>2. x.i = [str |-> x.i.str, said |-> x.i.said, banned |-> x.i.banned, release |-> x.i.release]
    BY DEF Info
  <2>3. /\ y.i.str = Put(x.i.str, k, r.obj) /\ y.i.said = Put(x.i.said, k, n)
        /\ y.i.banned = x.i.banned /\ y.i.release = x.i.release
    BY <2>1, <2>2
  <2> QED
    BY <2>3 DEF Put, Given
<1> QED
  BY <1>2, <1>3 DEF Given

\* The same for Attach, which leaves an info that has a string alone.
LEMMA AttachedName ==
  ASSUME NEW x, x.i \in Info, NEW k \in Kinds, NEW n \in Names, NEW y \in Attach(x, k, n)
  PROVE  Given(x.i, y.i, k, n)
<1>1. y = x \/ y \in AttachNew(x, k, n, TRUE)
  BY DEF Attach
<1>2. ASSUME y \in AttachNew(x, k, n, TRUE) PROVE Given(x.i, y.i, k, n)
  BY <1>2, AttachNewInfo
<1> QED
  BY <1>1, <1>2 DEF Given

\* What a state follows of what a step may do to it: the strings are sound, the
\* name is not banned.
FollowsClean(x, y) ==
  /\ Follows(x, y, Kinds, {})
  /\ y.i.str["host"] # None => y.i.said["host"] \notin Banned

\* The records of a packet.
LEMMA RecordsFollow ==
  ASSUME AppInfosAssumption, SSLProtocolAssumption, NEW f \in Flows, Sound(Before(f)),
         FollowsClean(Before(f), Before(f)),
         NEW names \in Seq(Names), NEW y \in Records(f, names)
  PROVE  FollowsClean(Before(f), y)
<1> DEFINE x0 == Before(f)
           k == Len(names)
           base == {x0}
           Later(X, i) == UNION {Hello(x, names[i]) : x \in X}
           Runs(g) == g = [i \in 0 .. k |-> IF i = 0 THEN base ELSE Later(g[i - 1], i)]
           after == CHOOSE g : Runs(g)
           G == {z \in States : FollowsClean(x0, z)}
           step == [i \in 1 .. k |-> [x \in G |-> Hello(x, names[i])]]
<1>0. k \in Nat /\ \A i \in 1 .. k : names[i] \in Names
  OBVIOUS
<1>1. Records(f, names) = IF Inspects(f) THEN after[k] ELSE {x0}
  BY DEF Records
<1> HIDE DEF k, x0
<1>2. ASSUME NEW x, FollowsClean(x0, x), NEW n \in Names, NEW z \in Hello(x, n)
      PROVE  FollowsClean(x0, z)
  <2>0. "host" \in Kinds /\ Kinds \in SUBSET Kinds /\ {} \in SUBSET Kinds /\ Sound(x0)
    BY DEF SSLProtocolAssumption, x0
  <2>1. CASE n \in Banned \/ HasString(x, "host")
    BY <1>2, <2>1 DEF Hello, Attach
  <2>2. CASE n \notin Banned /\ ~HasString(x, "host")
    <3>1. z \in Attach(x, "host", n)
      BY <1>2, <2>2 DEF Hello, Attach
    <3>2. Sound(x) /\ Follows(x0, x, Kinds, {}) /\ x.i \in Info
      BY <1>2 DEF FollowsClean, Follows, Sound, States
    <3>3. Follows(x, z, Kinds, {})
      BY <2>0, <3>1, <3>2, AttachFollows
    <3>4. Follows(x0, z, Kinds, {})
      BY <2>0, <3>2, <3>3, FollowsThrough
    <3>5. Given(x.i, z.i, "host", n)
      BY <2>0, <3>1, <3>2, AttachedName
    <3> QED
      BY <1>2, <2>2, <3>4, <3>5 DEF FollowsClean, Given
  <2> QED
    BY <2>1, <2>2
<1>3. x0 \in G
  BY DEF Sound, x0
<1>4. \A i \in 1 .. k : \A x \in G : step[i][x] \in SUBSET G
  <2> SUFFICES ASSUME NEW i \in 1 .. k, NEW x \in G, NEW z \in Hello(x, names[i]) PROVE z \in G
    OBVIOUS
  <2>1. FollowsClean(x0, z)
    BY <1>0, <1>2
  <2>2. z \in States
    BY <2>1 DEF FollowsClean, Follows, Sound
  <2> QED
    BY <2>1, <2>2
<1>5. \A i \in 1 .. k : \A X \in SUBSET G : Reached(X, step[i]) = Later(X, i) /\ Later(X, i) \in SUBSET G
  <2> SUFFICES ASSUME NEW i \in 1 .. k, NEW X \in SUBSET G
               PROVE  Reached(X, step[i]) = Later(X, i) /\ Later(X, i) \in SUBSET G
    OBVIOUS
  <2>1. \A x \in G : step[i][x] = Hello(x, names[i]) /\ Hello(x, names[i]) \subseteq G
    BY <1>4
  <2> HIDE DEF G, step
  <2> QED
    BY <2>1 DEF Reached
<1> HIDE DEF step, Later
<1>6. Runs(after)
  <2> HIDE DEF G
  <2>1. base \in SUBSET G
    BY <1>3
  <2> HIDE DEF base
  <2>2. \E m : Loops(m, k, G, base, step)
    BY <1>0, <1>4, <2>1, StatesLoop
  <2>3. PICK m : /\ m = [i \in 0 .. k |-> m[i]] /\ m[0] = base
                 /\ \A i \in 1 .. k : m[i] = Reached(m[i - 1], step[i])
                 /\ \A i \in 0 .. k : m[i] \in SUBSET G
    BY <2>2 DEF Loops
  <2>4. \A i \in 1 .. k : i - 1 \in 0 .. k
    BY <1>0
  <2>5. \A i \in 1 .. k : m[i] = Later(m[i - 1], i)
    BY <1>5, <2>3, <2>4
  <2>6. \A i \in 0 .. k : m[i] = IF i = 0 THEN base ELSE Later(m[i - 1], i)
    BY <1>0, <2>3, <2>5
  <2>7. Runs(m)
    BY <2>3, <2>6
  <2> QED
    BY <2>7
<1>7. after[0] = base /\ \A i \in 1 .. k : after[i] = Later(after[i - 1], i)
  <2> HIDE DEF after, base
  <2> QED
    BY <1>0, <1>6
<1> HIDE DEF after, Runs
<1>8. after[k] \in SUBSET G
  <2> DEFINE T == {i \in 0 .. k : after[i] \in SUBSET G}
  <2>1. 0 \in T
    BY <1>0, <1>3, <1>7
  <2>2. ASSUME NEW i \in 0 .. k - 1, i \in T PROVE i + 1 \in T
    <3>1. i + 1 \in 1 .. k /\ i + 1 - 1 = i /\ i + 1 \in 0 .. k
      BY <1>0
    <3> HIDE DEF G
    <3>2. after[i + 1] = Later(after[i], i + 1) /\ after[i] \in SUBSET G
      BY <1>7, <2>2, <3>1
    <3> QED
      BY <1>5, <3>1, <3>2
  <2> HIDE DEF T
  <2>3. 0 .. k \subseteq T
    BY <1>0, <2>1, <2>2, IntervalInduction
  <2> QED
    BY <1>0, <2>3 DEF T
<1> QED
  BY <1>1, <1>3, <1>8 DEF x0

\* A host is there since one of the first two packets, and is not banned.
HandshakeInv ==
  /\ seen \in [Flows -> 0 .. 3] /\ brought \in [Flows -> 0 .. 3]
  /\ \A f \in Flows : HasInfo(f) /\ info[flow[f]].str["host"] # None =>
       brought[f] \in 1 .. 2 /\ info[flow[f]].said["host"] \notin Banned

\* What a packet begins with: nothing, or a host of a packet before.
LEMMA BeforeClean ==
  ASSUME AppInfosAssumption, SSLProtocolAssumption, SoundState, HandshakeInv, NEW f \in Flows, GetInfo(f)
  PROVE  /\ FollowsClean(Before(f), Before(f))
         /\ HasString(Before(f), "host") <=> Before(f).i.str["host"] # None
         /\ Before(f).i.str["host"] # None => brought[f] \in 1 .. 2
<1>1. Sound(Before(f)) /\ "host" \in Kinds /\ Kinds \in SUBSET Kinds /\ {} \in SUBSET Kinds
  BY BeforeSound DEF SSLProtocolAssumption
<1>2. Before(f).i = InfoState(f)
  BY DEF Before
<1>3. Before(f).i.str["host"] # None =>
        brought[f] \in 1 .. 2 /\ Before(f).i.said["host"] \notin Banned
  BY <1>1, <1>2 DEF InfoState, HandshakeInv, ResetInfo
<1>4. Follows(Before(f), Before(f), Kinds, {})
  BY <1>1, FollowsSelf
<1> QED
  BY <1>1, <1>3, <1>4, SoundParts DEF FollowsClean

\* processFlow: a host that a flow gets now is of its first two packets.
LEMMA PacketSSLStep ==
  ASSUME AppInfosAssumption, SSLProtocolAssumption, SoundInv, HandshakeInv, NEW f \in Flows, PacketSSL(f)
  PROVE  Kept(Kinds, {}) /\ HandshakeInv'
<1>1. PICK names \in SeqOf(Names, MaxRecords) : Processed(f, Records(f, names))
  BY DEF PacketSSL
<1>2. GetInfo(f) /\ Counted(f)
      /\ brought' = IF HasString(Before(f), "host") THEN brought ELSE [brought EXCEPT ![f] = seen'[f]]
  BY DEF PacketSSL
<1>3. SoundState
  BY <1>2, ClearedStops DEF SoundInv, GetInfo
<1>4. names \in Seq(Names)
  BY <1>1 DEF SeqOf
<1>5. Sound(Before(f)) /\ FollowsClean(Before(f), Before(f))
  BY <1>2, <1>3, BeforeSound, BeforeClean
<1>6. \A y \in Records(f, names) : FollowsClean(Before(f), y)
  BY <1>4, <1>5, RecordsFollow
<1>7. AllFollow(f, Records(f, names), Kinds, {})
  BY <1>6 DEF AllFollow, FollowsClean
<1>8. Kept(Kinds, {})
  BY <1>1, <1>2, <1>7, PacketKept
<1>9. PICK y \in Records(f, names) : info' = [info EXCEPT ![InfoOf(f)] = y.i]
  BY <1>1 DEF Processed
<1>10. /\ seen' \in [Flows -> 0 .. 3] /\ seen'[f] \in 1 .. 3
       /\ seen[f] < 2 => seen'[f] \in 1 .. 2
  BY <1>2 DEF Counted, HandshakeInv
<1>11. brought' \in [Flows -> 0 .. 3] /\ \A g \in Flows : g # f => brought'[g] = brought[g]
  BY <1>2, <1>10 DEF HandshakeInv
<1>12. /\ InfoOf(f) \in 1 .. InfoSize /\ flow'[f] = InfoOf(f)
       /\ \A g \in Flows : g # f => flow'[g] = flow[g] /\ (HasInfo(g)' <=> HasInfo(g))
                                    /\ (HasInfo(g) => flow[g] # InfoOf(f))
       /\ info \in [1 .. InfoSize -> Info] /\ \A g \in Flows : HasInfo(g) => flow[g] \in 1 .. InfoSize
  BY <1>2, <1>3, GotInfo, LiveInfos DEF SoundState, OwnInfos
<1>13. ASSUME NEW g \in Flows, g # f, HasInfo(g)', info'[flow'[g]].str["host"] # None
       PROVE  brought'[g] \in 1 .. 2 /\ info'[flow'[g]].said["host"] \notin Banned
  <2>1. HasInfo(g) /\ flow'[g] = flow[g] /\ flow[g] # InfoOf(f) /\ flow[g] \in 1 .. InfoSize
    BY <1>12, <1>13
  <2>2. info'[flow[g]] = info[flow[g]]
    BY <1>9, <1>12, <2>1
  <2> QED
    BY <1>11, <1>13, <2>1, <2>2 DEF HandshakeInv
<1>14. ASSUME info'[flow'[f]].str["host"] # None
       PROVE  brought'[f] \in 1 .. 2 /\ info'[flow'[f]].said["host"] \notin Banned
  <2>1. info'[flow'[f]] = y.i
    BY <1>9, <1>12
  <2>2. FollowsClean(Before(f), y)
    BY <1>6
  <2>3. brought'[f] \in 1 .. 2
    <3>1. CASE HasString(Before(f), "host")
      BY <1>2, <1>3, <3>1, BeforeClean
    <3>2. CASE ~HasString(Before(f), "host")
      <4>1. Before(f).i.str["host"] = None
        BY <1>2, <1>3, <3>2, BeforeClean
      <4>2. y # Before(f)
        BY <1>14, <2>1, <4>1
      <4>3. Inspects(f)
        BY <1>9, <4>2 DEF Records
      <4>4. seen'[f] \in 1 .. 2
        BY <1>10, <4>3 DEF Inspects
      <4> QED
        BY <1>2, <3>2, <4>4 DEF HandshakeInv
    <3> QED
      BY <3>1, <3>2
  <2> QED
    BY <1>14, <2>1, <2>2, <2>3 DEF FollowsClean
<1>15. HandshakeInv'
  BY <1>10, <1>11, <1>13, <1>14 DEF HandshakeInv
<1> QED
  BY <1>8, <1>15

\* Steps after which no flow has an info, a host or a packet number that it did not
\* have.
LEMMA OthersHandshake ==
  ASSUME HandshakeInv, seen' \in [Flows -> 0 .. 3], brought' \in [Flows -> 0 .. 3],
         \A f \in Flows : HasInfo(f)' => /\ HasInfo(f) /\ flow'[f] = flow[f]
                                         /\ info'[flow[f]] = info[flow[f]] /\ brought'[f] = brought[f]
  PROVE  HandshakeInv'
BY DEF HandshakeInv

\* Each step of SSL.
LEMMA SSLStep ==
  ASSUME AppInfosAssumption, SSLProtocolAssumption, SoundInv, HandshakeInv, [NextSSL]_allvars
  PROVE  Kept(Kinds, {}) /\ HandshakeInv'
<1>0. Kinds \in SUBSET Kinds /\ {} \in SUBSET Kinds
  OBVIOUS
<1>1. ASSUME NEW f \in Flows, PacketSSL(f) PROVE Kept(Kinds, {}) /\ HandshakeInv'
  BY <1>1, PacketSSLStep
<1>2. ASSUME NEW f \in Flows, PacketUncovered(f) PROVE Kept(Kinds, {}) /\ HandshakeInv'
  <2>1. UNCHANGED vars /\ brought' = brought
    BY <1>2 DEF PacketUncovered
  <2>2. seen' \in [Flows -> 0 .. 3]
    BY <1>2 DEF PacketUncovered, Counted, HandshakeInv
  <2>3. HandshakeInv'
    BY <2>1, <2>2 DEF vars, HandshakeInv, HasInfo
  <2> QED
    BY <1>0, <2>1, <2>3, OthersKept
<1>3. ASSUME NEW f \in Flows, EndSSLFlow(f) PROVE Kept(Kinds, {}) /\ HandshakeInv'
  <2>1. EndFlow(f) \/ (~HasInfo(f) /\ UNCHANGED vars)
    BY <1>3 DEF EndSSLFlow
  <2>2. Kept(Kinds, {})
    BY <1>0, <2>1, OthersKept
  <2>3. /\ seen' \in [Flows -> 0 .. 3] /\ brought' \in [Flows -> 0 .. 3]
        /\ \A g \in Flows : g # f => brought'[g] = brought[g]
    BY <1>3 DEF EndSSLFlow, HandshakeInv
  <2>4. \A g \in Flows : HasInfo(g)' => g # f /\ HasInfo(g) /\ flow'[g] = flow[g] /\ info'[flow[g]] = info[flow[g]]
    <3>1. CASE EndFlow(f)
      <4>1. HasInfo(f) /\ infos' = Released(infos, flow[f]) /\ flow' = [flow EXCEPT ![f] = None] /\ info' = info
        BY <3>1 DEF EndFlow
      <4>2. SoundState
        BY <4>1, ClearedStops DEF SoundInv
      <4>3. flow[f] \in 1 .. InfoSize /\ flow[f] \in InVector(infos) /\ flow \in [Flows -> 0 .. InfoSize]
        BY <4>1, <4>2, LiveInfos DEF SoundState, OwnInfos, HasInfo
      <4>4. InVector(infos') \subseteq InVector(infos)
        BY <4>1, <4>2, <4>3, ReleasedVector DEF SoundState, OwnInfos, Lends
      <4> QED
        BY <4>1, <4>3, <4>4 DEF HasInfo
    <3>2. CASE ~HasInfo(f) /\ UNCHANGED vars
      BY <3>2 DEF vars, HasInfo
    <3> QED
      BY <2>1, <3>1, <3>2
  <2> QED
    BY <2>2, <2>3, <2>4, OthersHandshake
<1>4. ASSUME NEW f \in Flows, Crash(f), UNCHANGED <<seen, brought>> PROVE Kept(Kinds, {}) /\ HandshakeInv'
  BY <1>0, <1>4, OthersKept DEF Crash, HandshakeInv, HasInfo
<1>5. ASSUME ReleaseCacheSSL, UNCHANGED <<seen, brought>> PROVE Kept(Kinds, {}) /\ HandshakeInv'
  <2>1. \A f \in Flows : flow'[f] = None
    BY <1>5 DEF ReleaseCacheSSL, ReleaseCacheInto
  <2>2. HandshakeInv'
    BY <1>5, <2>1 DEF HandshakeInv, HasInfo
  <2> QED
    BY <1>0, <1>5, <2>2, OthersKept DEF ReleaseCacheSSL
<1>6. ASSUME UNCHANGED allvars PROVE Kept(Kinds, {}) /\ HandshakeInv'
  <2>1. UNCHANGED vars /\ seen' = seen /\ brought' = brought
    BY <1>6 DEF allvars
  <2>2. HandshakeInv'
    BY <2>1 DEF vars, HandshakeInv, HasInfo
  <2> QED
    BY <1>0, <2>1, <2>2, OthersKept
<1> QED
  BY <1>1, <1>2, <1>3, <1>4, <1>5, <1>6 DEF NextSSL

SSLInv == SoundInv /\ HandshakeInv

\* New pools, and no flow has sent a packet.
LEMMA SSLInitInv ==
  ASSUME AppInfosAssumption, SSLInit
  PROVE  SSLInv
<1>1. SoundInv
  BY SoundInit DEF SSLInit
<1>2. HandshakeInv
  BY DEF SSLInit, Init, HandshakeInv, HasInfo
<1> QED
  BY <1>1, <1>2 DEF SSLInv

\* The names that flows show are the server names of their own hellos.
THEOREM SSLStringsAlways ==
  AppInfosAssumption /\ SSLProtocolAssumption => (SpecSSL => [](TypeOK /\ MapSound /\ NamesRight))
<1> SUFFICES ASSUME AppInfosAssumption, SSLProtocolAssumption
             PROVE  SpecSSL => [](TypeOK /\ MapSound /\ NamesRight)
  OBVIOUS
<1>1. SSLInit => SSLInv
  BY SSLInitInv
<1>2. SSLInv /\ [NextSSL]_allvars => SSLInv'
  BY SSLStep DEF Kept, SSLInv
<1>3. SSLInv => TypeOK /\ MapSound /\ NamesRight
  BY SoundMeans DEF SSLInv
<1> QED
  BY <1>1, <1>2, <1>3, PTL DEF SpecSSL

\* A banned server name is never the name of a flow: not from another record of
\* the packet, nor through a string that flows share, nor after releaseCache
\* (handle_client_hello).  The name of a flow came with one of its first two
\* packets, however late the flow got its info.
THEOREM HandshakeAlways ==
  AppInfosAssumption /\ SSLProtocolAssumption => (SpecSSL => [](BannedNotAttached /\ NameFromHandshake))
<1> SUFFICES ASSUME AppInfosAssumption, SSLProtocolAssumption
             PROVE  SpecSSL => [](BannedNotAttached /\ NameFromHandshake)
  OBVIOUS
<1>1. SSLInit => SSLInv
  BY SSLInitInv
<1>2. SSLInv /\ [NextSSL]_allvars => SSLInv'
  BY SSLStep DEF Kept, SSLInv
<1>3. SSLInv => BannedNotAttached /\ NameFromHandshake
  <2> SUFFICES ASSUME SoundInv, HandshakeInv PROVE BannedNotAttached /\ NameFromHandshake
    BY DEF SSLInv
  <2>1. "host" \in Kinds
    BY DEF SSLProtocolAssumption
  <2>2. NameFromHandshake
    BY DEF NameFromHandshake, HandshakeInv, StringOf
  <2>3. NamesRight
    BY SoundMeans
  <2>4. BannedNotAttached
    <3> SUFFICES ASSUME NEW i \in Live, StringOf(i, "host") # None
                 PROVE  strs["host"].name[StringOf(i, "host")] \notin Banned
      BY DEF BannedNotAttached
    <3>1. PICK f \in Flows : HasInfo(f) /\ flow[f] = i
      BY DEF Live
    <3>2. info[i].str["host"] # None
      BY DEF StringOf
    <3>3. info[i].said["host"] \notin Banned
      BY <3>1, <3>2 DEF HandshakeInv
    <3> QED
      BY <2>1, <2>3, <3>3 DEF NamesRight
  <2> QED
    BY <2>2, <2>4
<1> QED
  BY <1>1, <1>2, <1>3, PTL DEF SpecSSL

\* A flow keeps the server name it was first given.
THEOREM FirstServerAlways ==
  AppInfosAssumption /\ SSLProtocolAssumption => (SpecSSL => FirstServerStays)
<1> SUFFICES ASSUME AppInfosAssumption, SSLProtocolAssumption PROVE SpecSSL => FirstServerStays
  OBVIOUS
<1>1. SSLInit => SSLInv
  BY SSLInitInv
<1>2. SSLInv /\ [NextSSL]_allvars => SSLInv' /\ [KeepsFirst(Kinds)]_allvars
  BY SSLStep DEF Kept, SSLInv
<1> QED
  BY <1>1, <1>2, PTL DEF SpecSSL, FirstServerStays

-----------------------------------------------------------------------------
(***************************************************************************)
(* HTTP                                                                    *)
(***************************************************************************)

\* Whatever each field of a header keeps, the header keeps (parse_header).
LEMMA ParseWithin ==
  ASSUME NEW G, NEW states \in SUBSET G, NEW fields \in Seq({"host", "ua"} \X Names),
         \A x \in G, kind \in {"host", "ua"}, n \in Names : Field(x, kind, n) \subseteq G
  PROVE  ParseHeader(states, fields) \subseteq G
<1> DEFINE k == Len(fields)
           Later(X, i) == UNION {Field(x, fields[i][1], fields[i][2]) : x \in X}
           Runs(g) == g = [i \in 0 .. k |-> IF i = 0 THEN states ELSE Later(g[i - 1], i)]
           after == CHOOSE g : Runs(g)
           step == [i \in 1 .. k |-> [x \in G |-> Field(x, fields[i][1], fields[i][2])]]
<1>0. k \in Nat /\ \A i \in 1 .. k : fields[i][1] \in {"host", "ua"} /\ fields[i][2] \in Names
  OBVIOUS
<1>1. ParseHeader(states, fields) = after[k]
  BY DEF ParseHeader
<1> HIDE DEF k
<1>4. \A i \in 1 .. k : \A x \in G : step[i][x] \in SUBSET G
  <2> SUFFICES ASSUME NEW i \in 1 .. k, NEW x \in G
               PROVE  Field(x, fields[i][1], fields[i][2]) \subseteq G
    OBVIOUS
  <2> QED
    BY <1>0
<1>5. \A i \in 1 .. k : \A X \in SUBSET G : Reached(X, step[i]) = Later(X, i) /\ Later(X, i) \in SUBSET G
  <2> SUFFICES ASSUME NEW i \in 1 .. k, NEW X \in SUBSET G
               PROVE  Reached(X, step[i]) = Later(X, i) /\ Later(X, i) \in SUBSET G
    OBVIOUS
  <2> DEFINE F(x) == Field(x, fields[i][1], fields[i][2])
  <2>1. \A x \in G : step[i][x] = F(x) /\ F(x) \subseteq G
    BY <1>4
  <2>2. Later(X, i) = UNION {F(x) : x \in X}
    OBVIOUS
  <2> HIDE DEF step, F, Later
  <2> QED
    BY <2>1, <2>2 DEF Reached
<1> HIDE DEF step, Later
<1>6. Runs(after)
  <2>2. \E m : Loops(m, k, G, states, step)
    BY <1>0, <1>4, StatesLoop
  <2>3. PICK m : /\ m = [i \in 0 .. k |-> m[i]] /\ m[0] = states
                 /\ \A i \in 1 .. k : m[i] = Reached(m[i - 1], step[i])
                 /\ \A i \in 0 .. k : m[i] \in SUBSET G
    BY <2>2 DEF Loops
  <2>4. \A i \in 1 .. k : i - 1 \in 0 .. k
    BY <1>0
  <2>5. \A i \in 1 .. k : m[i] = Later(m[i - 1], i)
    BY <1>5, <2>3, <2>4
  <2>6. \A i \in 0 .. k : m[i] = IF i = 0 THEN states ELSE Later(m[i - 1], i)
    <3> TAKE i \in 0 .. k
    <3>1. CASE i = 0
      BY <2>3, <3>1
    <3>2. CASE i # 0
      <4>1. i \in 1 .. k
        BY <1>0, <3>2
      <4> QED
        BY <2>5, <3>2, <4>1
    <3> QED
      BY <3>1, <3>2
  <2>7. Runs(m)
    BY <2>3, <2>6
  <2> QED
    BY <2>7
<1>7. after[0] = states /\ \A i \in 1 .. k : after[i] = Later(after[i - 1], i)
  <2> HIDE DEF after
  <2> QED
    BY <1>0, <1>6
<1> HIDE DEF after, Runs
<1>8. after[k] \in SUBSET G
  <2> DEFINE T == {i \in 0 .. k : after[i] \in SUBSET G}
  <2>1. 0 \in T
    BY <1>0, <1>7
  <2>2. ASSUME NEW i \in 0 .. k - 1, i \in T PROVE i + 1 \in T
    <3>1. i + 1 \in 1 .. k /\ i + 1 - 1 = i /\ i + 1 \in 0 .. k
      BY <1>0
    <3>2. after[i + 1] = Later(after[i], i + 1) /\ after[i] \in SUBSET G
      BY <1>7, <2>2, <3>1
    <3> QED
      BY <1>5, <3>1, <3>2
  <2> HIDE DEF T
  <2>3. 0 .. k \subseteq T
    BY <1>0, <2>1, <2>2, IntervalInduction
  <2> QED
    BY <1>0, <2>3 DEF T
<1> QED
  BY <1>1, <1>8

\* The hosts and user agents are kept, and counted; URIs are neither.
Fielded == {"host", "ua"}

\* What a state follows of when nothing is banned.
FollowsFree(x, y) == Follows(x, y, Fielded, Fielded) /\ ~y.i.banned

\* A string that is attached where nothing is banned.
LEMMA AttachedFollowsFree ==
  ASSUME AppInfosAssumption, HTTPProtocolAssumption,
         NEW x, Sound(x), NEW y, FollowsFree(x, y), NEW k \in Kinds, NEW n \in Names, NEW count \in BOOLEAN,
         NEW z \in AttachNew(y, k, n, count),
         k \in Fielded => count /\ y.i.str[k] = None
  PROVE  FollowsFree(x, z)
<1>1. Fielded \in SUBSET Kinds
  BY DEF Fielded, HTTPProtocolAssumption
<1>2. Sound(y) /\ Follows(x, y, Fielded, Fielded) /\ y.i \in Info
  BY DEF FollowsFree, Follows, Sound, States
<1>3. Follows(y, z, Fielded, Fielded)
  BY <1>1, <1>2, AttachNewFollows
<1>4. Follows(x, z, Fielded, Fielded)
  BY <1>1, <1>2, <1>3, FollowsThrough
<1>5. Given(y.i, z.i, k, n)
  BY <1>2, AttachNewInfo
<1>6. ~z.i.banned
  BY <1>5 DEF Given, FollowsFree
<1> QED
  BY <1>4, <1>6 DEF FollowsFree

\* Host or User-Agent: the ban manager matches no name.
LEMMA FieldFollowsFree ==
  ASSUME AppInfosAssumption, HTTPProtocolAssumption, Banned = {},
         NEW x, Sound(x), NEW y, FollowsFree(x, y),
         NEW k \in {"host", "ua"}, NEW n \in Names, NEW z \in Field(y, k, n)
  PROVE  FollowsFree(x, z)
<1>1. k \in Kinds /\ k \in Fielded
  BY DEF Fielded, HTTPProtocolAssumption
<1>2. z \in Attach(y, k, n)
  BY DEF Field, HostHTTP, FollowsFree
<1>3. Sound(y)
  BY DEF FollowsFree, Follows
<1>4. CASE HasString(y, k)
  BY <1>2, <1>4 DEF Attach
<1>5. CASE ~HasString(y, k)
  <2>1. y.i.str[k] = None
    BY <1>1, <1>3, <1>5, SoundParts
  <2>2. z \in AttachNew(y, k, n, TRUE)
    BY <1>2, <1>5 DEF Attach
  <2> QED
    BY <1>1, <2>1, <2>2, AttachedFollowsFree
<1> QED
  BY <1>4, <1>5

NoneBanned == \A i \in 1 .. InfoSize : ~info[i].banned

\* processFlow: what a packet makes of the info and the strings follows from them.
LEMMA FreePacket ==
  ASSUME AppInfosAssumption, HTTPProtocolAssumption, Banned = {},
         SoundState, NoneBanned, NEW f \in Flows, PacketHTTP(f)
  PROVE  \E states : Processed(f, states) /\ \A y \in states : FollowsFree(Before(f), y)
<1> DEFINE x == Before(f)
           G == {z \in States : FollowsFree(x, z)}
<1>1. GetInfo(f)
  BY DEF PacketHTTP
<1>2. Sound(x) /\ x.i = InfoState(f) /\ x \in States /\ Fielded \in SUBSET Kinds
  BY <1>1, BeforeSound DEF Before, Sound, Fielded, HTTPProtocolAssumption
<1>3. ~InfoState(f).banned
  <2>1. HasInfo(f) => flow[f] \in 1 .. InfoSize
    BY LiveInfos DEF SoundState
  <2> QED
    BY <2>1 DEF NoneBanned, InfoState, ResetInfo
<1>4. FollowsFree(x, x)
  BY <1>2, <1>3, FollowsSelf DEF FollowsFree
<1>5. PICK fields \in Fields : ResponseHTTP(f, fields) \/ \E uri \in Names : RequestHTTP(f, uri, fields)
  BY <1>3 DEF PacketHTTP, BannedPacket
<1>6. fields \in Seq({"host", "ua"} \X Names)
  BY DEF Fields, SeqOf
<1>7. PICK states : /\ Processed(f, ParseHeader(states, fields))
                    /\ states = {x} \/ \E uri \in Names : states = UriHTTP(x, uri)
  BY <1>5 DEF ResponseHTTP, RequestHTTP
<1> HIDE DEF x
<1>8. ASSUME NEW z, FollowsFree(x, z) PROVE z \in G
  BY <1>8 DEF FollowsFree, Follows, Sound
<1>9. states \in SUBSET G
  <2> SUFFICES ASSUME NEW z \in states PROVE FollowsFree(x, z)
    BY <1>8
  <2>1. z = x \/ \E uri \in Names : z \in UriHTTP(x, uri)
    BY <1>7
  <2>2. "uri" \in Kinds /\ "uri" \notin Fielded
    BY DEF Fielded, HTTPProtocolAssumption
  <2> QED
    BY <1>2, <1>4, <2>1, <2>2, AttachedFollowsFree DEF UriHTTP
<1>10. \A y \in G, kind \in {"host", "ua"}, n \in Names : Field(y, kind, n) \subseteq G
  <2> SUFFICES ASSUME NEW y \in G, NEW kind \in {"host", "ua"}, NEW n \in Names, NEW z \in Field(y, kind, n)
               PROVE  FollowsFree(x, z)
    BY <1>8
  <2> QED
    BY <1>2, FieldFollowsFree
<1> HIDE DEF G
<1>11. ParseHeader(states, fields) \subseteq G
  BY <1>6, <1>9, <1>10, ParseWithin
<1> QED
  BY <1>7, <1>11 DEF x, G

FreeInv == SoundInv /\ Counts(Fielded) /\ NoneBanned

\* Each step of HTTP without bans.
LEMMA FreeStep ==
  ASSUME AppInfosAssumption, HTTPProtocolAssumption, Banned = {}, ~Scripts, FreeInv, [NextHTTP]_vars
  PROVE  FreeInv' /\ KeepsFirst(Fielded)
<1>0. Fielded \in SUBSET Kinds
  BY DEF Fielded, HTTPProtocolAssumption
<1>1. ASSUME NEW f \in Flows, PacketHTTP(f) PROVE Kept(Fielded, Fielded) /\ NoneBanned'
  <2>1. GetInfo(f)
    BY <1>1 DEF PacketHTTP
  <2>2. SoundState
    BY <2>1, ClearedStops DEF FreeInv, SoundInv, GetInfo
  <2>3. PICK states : Processed(f, states) /\ \A y \in states : FollowsFree(Before(f), y)
    BY <1>1, <2>2, FreePacket DEF FreeInv
  <2>4. AllFollow(f, states, Fielded, Fielded)
    BY <2>3 DEF AllFollow, FollowsFree
  <2>5. Kept(Fielded, Fielded)
    BY <1>0, <2>1, <2>3, <2>4, PacketKept DEF FreeInv
  <2>6. PICK y \in states : info' = [info EXCEPT ![InfoOf(f)] = y.i]
    BY <2>3 DEF Processed
  <2>7. ~y.i.banned
    BY <2>3 DEF FollowsFree
  <2>8. info \in [1 .. InfoSize -> Info]
    BY <2>2 DEF SoundState, OwnInfos
  <2> QED
    BY <2>5, <2>6, <2>7, <2>8 DEF NoneBanned, FreeInv
<1>2. ASSUME NEW f \in Flows, EndFlow(f) \/ Crash(f) PROVE Kept(Fielded, Fielded) /\ NoneBanned'
  <2>1. info' = info
    BY <1>2 DEF EndFlow, Crash
  <2> QED
    BY <1>0, <1>2, <2>1, OthersKept DEF FreeInv, NoneBanned
<1>3. ASSUME ReleaseCacheHTTP PROVE Kept(Fielded, Fielded) /\ NoneBanned'
  <2>1. Kept(Fielded, Fielded)
    BY <1>0, <1>3, OthersKept DEF FreeInv, ReleaseCacheHTTP
  <2>2. (OwnInfos \/ Cleared) /\ FitStrs(strs)
    BY SoundFit DEF FreeInv, SoundInv, SoundState, Cleared
  <2> QED
    BY <1>3, <2>1, <2>2, ReleaseCacheLeaves DEF FreeInv, NoneBanned, ReleaseCacheHTTP
<1>4. ASSUME UNCHANGED vars PROVE Kept(Fielded, Fielded) /\ NoneBanned'
  BY <1>0, <1>4, OthersKept DEF FreeInv, NoneBanned, vars
<1>5. Kept(Fielded, Fielded) /\ NoneBanned'
  BY <1>1, <1>2, <1>3, <1>4 DEF NextHTTP, SetBannedHTTP
<1> QED
  BY <1>5 DEF FreeInv, Kept

\* No flow is banned at the beginning.
LEMMA FreeInit ==
  ASSUME AppInfosAssumption, HTTPProtocolAssumption, Init
  PROVE  FreeInv
<1>1. NoneBanned
  BY DEF Init, NoneBanned, ResetInfo
<1>2. Fielded \in SUBSET Kinds
  BY DEF Fielded, HTTPProtocolAssumption
<1> QED
  BY <1>1, <1>2, SoundInit DEF FreeInv

\* The same for HTTP when nothing is banned: whatever hosts, user agents and URIs
\* flows share, and replace, the maps stay sound, each flow shows its own, and the
\* hits of hosts and user agents cover the flows that have them (attach_host,
\* attach_useragent, extract_uri, releaseCache).
THEOREM HTTPStringsAlways ==
  AppInfosAssumption /\ HTTPProtocolAssumption /\ Banned = {} /\ ~Scripts =>
    (SpecHTTP => [](TypeOK /\ MapSound /\ NamesRight /\ HitsCoverFields))
<1> SUFFICES ASSUME AppInfosAssumption, HTTPProtocolAssumption, Banned = {}, ~Scripts
             PROVE  SpecHTTP => [](TypeOK /\ MapSound /\ NamesRight /\ HitsCoverFields)
  OBVIOUS
<1>0. Fielded \in SUBSET Kinds /\ "host" \in Fielded /\ "ua" \in Fielded
  BY DEF Fielded, HTTPProtocolAssumption
<1>1. Init => FreeInv
  BY FreeInit
<1>2. FreeInv /\ [NextHTTP]_vars => FreeInv'
  BY FreeStep
<1>3. FreeInv => TypeOK /\ MapSound /\ NamesRight /\ HitsCoverFields
  <2> SUFFICES ASSUME SoundInv, Counts(Fielded) PROVE TypeOK /\ MapSound /\ NamesRight /\ HitsCoverFields
    BY DEF FreeInv
  <2>1. HitsCover("host") /\ HitsCover("ua")
    BY <1>0, CountsMean
  <2> QED
    BY <2>1, SoundMeans DEF HitsCoverFields
<1> QED
  BY <1>1, <1>2, <1>3, PTL DEF SpecHTTP

\* A flow keeps the first host and user agent of its requests, whatever later
\* requests say.
THEOREM FirstHostAlways ==
  AppInfosAssumption /\ HTTPProtocolAssumption /\ Banned = {} /\ ~Scripts => (SpecHTTP => FirstHostStays)
<1> SUFFICES ASSUME AppInfosAssumption, HTTPProtocolAssumption, Banned = {}, ~Scripts
             PROVE  SpecHTTP => FirstHostStays
  OBVIOUS
<1>1. Init => FreeInv
  BY FreeInit
<1>2. FreeInv /\ [NextHTTP]_vars => FreeInv' /\ [KeepsFirst({"host", "ua"})]_vars
  BY FreeStep DEF Fielded
<1> QED
  BY <1>1, <1>2, PTL DEF SpecHTTP, FirstHostStays

-----------------------------------------------------------------------------
(***************************************************************************)
(* HTTP with bans: a flow that is banned gives its strings back, whoever   *)
(* else has them.  The maps are not sound then; what is left is that the   *)
(* pools have objects of their own only.                                   *)
(***************************************************************************)

OwnStrings(s, n) == s \in Strings(1 .. n) /\ Fits(s.pool, 1 .. n)

WholeStrs(s) == s \in [Kinds -> AllStrings] /\ \A k \in Kinds : OwnStrings(s[k], Size[k])

\* acquire of a pool that has objects of its own.
LEMMA AcquiredFits ==
  ASSUME NEW S, NEW p, Fits(p, S), CanAcquire(p)
  PROVE  Top(p) \in S /\ Fits(Acquired(p), S)
<1>1. /\ p.items \in Seq(S) /\ p.total \in Nat /\ p.total <= Len(p.items) /\ p.total > 0
      /\ p = [items |-> p.items, total |-> p.total] /\ Len(p.items) \in Nat
  BY LenProperties DEF Fits, Pools, CanAcquire
<1>2. Top(p) \in S
  <2>1. p.total \in 1 .. Len(p.items)
    BY <1>1
  <2> QED
    BY <1>1, <2>1, ElementOfSeq DEF Top
<1>3. Acquired(p) = [items |-> p.items, total |-> p.total - 1]
  BY <1>1 DEF Acquired
<1>4. p.total - 1 \in Nat /\ p.total - 1 <= Len(p.items)
  BY <1>1
<1> QED
  BY <1>1, <1>2, <1>3, <1>4 DEF Fits, Pools

\* The strings with each part of its type are of theirs.
LEMMA OwnStringsOf ==
  ASSUME NEW n, NEW p, Fits(p, 1 .. n), NEW name \in [1 .. n -> Names \cup {None}],
         NEW map \in SUBSET [obj : 1 .. n, key : Names, hits : Int]
  PROVE  OwnStrings([pool |-> p, name |-> name, map |-> map], n)
<1> DEFINE s == [pool |-> p, name |-> name, map |-> map]
<1>1. p \in Pools(1 .. n \cup {None})
  <2> DEFINE S == 1 .. n
             T == S \cup {None}
  <2>1. Fits(p, S) /\ S \subseteq T
    OBVIOUS
  <2> HIDE DEF S, T
  <2>2. p.items \in Seq(T)
    BY <2>1, SeqMonotonic DEF Fits, Pools
  <2>3. p \in Pools(T)
    BY <2>1, <2>2 DEF Fits, Pools
  <2> QED
    BY <2>3 DEF S, T
<1>2. s \in Strings(1 .. n) /\ s.pool = p
  BY <1>1 DEF Strings
<1> HIDE DEF s
<1>3. OwnStrings(s, n)
  BY <1>2 DEF OwnStrings
<1> QED
  BY <1>3 DEF s

\* The parts of strings with a pool of its own objects.
LEMMA OwnStringsParts ==
  ASSUME NEW n, NEW s, OwnStrings(s, n)
  PROVE  /\ s = [pool |-> s.pool, name |-> s.name, map |-> s.map]
         /\ Fits(s.pool, 1 .. n) /\ s.name \in [1 .. n -> Names \cup {None}]
         /\ s.map \in SUBSET [obj : 1 .. n, key : Names, hits : Int]
         /\ \A P : [s EXCEPT !.pool = P] = [pool |-> P, name |-> s.name, map |-> s.map]
         /\ \A M : [s EXCEPT !.map = M] = [pool |-> s.pool, name |-> s.name, map |-> M]
<1>1. /\ s = [pool |-> s.pool, name |-> s.name, map |-> s.map]
      /\ Fits(s.pool, 1 .. n) /\ s.name \in [1 .. n -> Names \cup {None}]
      /\ s.map \in SUBSET [obj : 1 .. n, key : Names, hits : Int]
  BY DEF OwnStrings, Strings
<1>2. \A P : [s EXCEPT !.pool = P] = [pool |-> P, name |-> s.name, map |-> s.map]
  BY <1>1
<1>3. \A M : [s EXCEPT !.map = M] = [pool |-> s.pool, name |-> s.name, map |-> M]
  BY <1>1
<1> QED
  BY <1>1, <1>2, <1>3

\* A pool of its own objects is of the type of one that may have null.
LEMMA WholeFit ==
  ASSUME NEW s, WholeStrs(s)
  PROVE  FitStrs(s)
<1> SUFFICES ASSUME NEW k \in Kinds PROVE StringsFit(s[k], Size[k])
  BY DEF FitStrs, WholeStrs
<1> DEFINE S == 1 .. Size[k]
           T == S \cup {None}
           p == s[k].pool
<1>1. s[k] \in Strings(S) /\ Fits(p, S) /\ S \subseteq T
  BY DEF WholeStrs, OwnStrings
<1> HIDE DEF S, T, p
<1>2. p.items \in Seq(T)
  BY <1>1, SeqMonotonic DEF Fits, Pools
<1>3. Fits(p, T)
  BY <1>1, <1>2 DEF Fits, Pools
<1> QED
  BY <1>1, <1>3 DEF StringsFit, S, T, p

\* Sound strings have their own objects in their pools.
LEMMA SoundWhole ==
  ASSUME AppInfosAssumption, NEW s, StrsSound(s)
  PROVE  WholeStrs(s)
<1> SUFFICES ASSUME NEW k \in Kinds PROVE OwnStrings(s[k], Size[k])
  BY DEF WholeStrs, StrsSound
<1>1. /\ s[k] \in Strings(1 .. Size[k]) /\ s[k].pool.items = [o \in 1 .. Size[k] |-> o]
      /\ s[k].pool.total \in 0 .. Size[k] /\ Size[k] \in Nat
  BY DEF StrsSound, StringsSound, AppInfosAssumption
<1>2. Len([o \in 1 .. Size[k] |-> o]) = Size[k] /\ [o \in 1 .. Size[k] |-> o] \in Seq(1 .. Size[k])
  BY <1>1
<1>3. s[k].pool \in Pools(1 .. Size[k])
  BY <1>1, <1>2 DEF Strings, Pools
<1> QED
  BY <1>1, <1>2, <1>3 DEF OwnStrings, Fits

\* A hit more or less, and an entry less.
LEMMA HitOwn ==
  ASSUME NEW n, NEW s, OwnStrings(s, n), NEW e \in s.map, NEW by \in Int
  PROVE  OwnStrings(Hit(s, e, by), n) /\ OwnStrings([s EXCEPT !.map = @ \ {e}], n)
<1> DEFINE Entries == [obj : 1 .. n, key : Names, hits : Int]
           new == [e EXCEPT !.hits = @ + by]
           map == (s.map \ {e}) \cup {new}
           less == s.map \ {e}
<1>1. Fits(s.pool, 1 .. n) /\ s.name \in [1 .. n -> Names \cup {None}] /\ s.map \in SUBSET Entries
      /\ \A M : [s EXCEPT !.map = M] = [pool |-> s.pool, name |-> s.name, map |-> M]
  BY OwnStringsParts
<1>2. new \in Entries
  <2>1. e = [obj |-> e.obj, key |-> e.key, hits |-> e.hits] /\ e.obj \in 1 .. n /\ e.key \in Names /\ e.hits \in Int
    BY <1>1
  <2>2. new = [obj |-> e.obj, key |-> e.key, hits |-> e.hits + by]
    BY <2>1
  <2>3. e.hits + by \in Int
    BY <2>1
  <2> HIDE DEF new
  <2> QED
    BY <2>1, <2>2, <2>3
<1>3. Hit(s, e, by) = [s EXCEPT !.map = map] /\ [s EXCEPT !.map = @ \ {e}] = [s EXCEPT !.map = less]
  <2>1. Hit(s, e, by) = [s EXCEPT !.map = map]
    BY DEF Hit
  <2> QED
    BY <2>1
<1> HIDE DEF new
<1>4. map \in SUBSET Entries /\ less \in SUBSET Entries
  BY <1>1, <1>2
<1> HIDE DEF map, less
<1>5. /\ Hit(s, e, by) = [pool |-> s.pool, name |-> s.name, map |-> map]
      /\ [s EXCEPT !.map = @ \ {e}] = [pool |-> s.pool, name |-> s.name, map |-> less]
  BY <1>1, <1>3
<1> QED
  BY <1>1, <1>4, <1>5, OwnStringsOf

\* A new string.
LEMMA NewStringOwn ==
  ASSUME NEW n \in Nat, NEW s, OwnStrings(s, n), CanAcquire(s.pool), NEW name \in Names, NEW t \in NewString(s, name)
  PROVE  OwnStrings(t, n) /\ Top(s.pool) \in 1 .. n
<1> DEFINE o == Top(s.pool)
           named == [pool |-> Acquired(s.pool), name |-> [s.name EXCEPT ![o] = name], map |-> s.map]
           map == s.map \cup {[obj |-> o, key |-> name, hits |-> 1]}
           entered == [pool |-> Acquired(s.pool), name |-> [s.name EXCEPT ![o] = name], map |-> map]
<1>1. /\ s = [pool |-> s.pool, name |-> s.name, map |-> s.map]
      /\ Fits(s.pool, 1 .. n) /\ s.name \in [1 .. n -> Names \cup {None}]
      /\ s.map \in SUBSET [obj : 1 .. n, key : Names, hits : Int]
  BY OwnStringsParts
<1>2. o \in 1 .. n /\ Fits(Acquired(s.pool), 1 .. n)
  BY <1>1, AcquiredFits
<1>3. [s EXCEPT !.pool = Acquired(@), !.name[o] = name] = named
  <2> DEFINE N == [s.name EXCEPT ![o] = name]
             P == Acquired(s.pool)
  <2>1. [s EXCEPT !.pool = Acquired(@), !.name[o] = name] = [s EXCEPT !.pool = P, !.name = N]
    BY <1>1
  <2> HIDE DEF N, P, o
  <2>2. [s EXCEPT !.pool = P] = [pool |-> P, name |-> s.name, map |-> s.map]
    BY <1>1
  <2>3. [s EXCEPT !.pool = P, !.name = N] = [[pool |-> P, name |-> s.name, map |-> s.map] EXCEPT !.name = N]
    BY <2>2
  <2>4. [s EXCEPT !.pool = P, !.name = N] = [pool |-> P, name |-> N, map |-> s.map]
    BY <2>3
  <2> QED
    BY <2>1, <2>4 DEF N, P
<1>4. [named EXCEPT !.map = @ \cup {[obj |-> o, key |-> name, hits |-> 1]}] = entered
  OBVIOUS
<1>5. t = named \/ t = entered
  <2> HIDE DEF named, entered
  <2> QED
    BY <1>3, <1>4 DEF NewString
<1>6. /\ [s.name EXCEPT ![o] = name] \in [1 .. n -> Names \cup {None}]
      /\ map \in SUBSET [obj : 1 .. n, key : Names, hits : Int]
  BY <1>1, <1>2
<1> HIDE DEF map, o
<1>7. OwnStrings(named, n)
  BY <1>1, <1>2, <1>6, OwnStringsOf
<1>8. OwnStrings(entered, n)
  BY <1>2, <1>6, OwnStringsOf
<1> HIDE DEF named, entered
<1> QED
  BY <1>2, <1>5, <1>7, <1>8 DEF o

\* attach_host and the like, whatever find takes for the name.
LEMMA AttachedOwn ==
  ASSUME NEW n \in Nat, NEW s, OwnStrings(s, n), NEW name \in Names, NEW count \in BOOLEAN,
         NEW r \in Attached(s, name, count)
  PROVE  OwnStrings(r.strs, n) /\ r.obj \in 1 .. n \cup {None}
<1>1. \A e \in s.map : e.obj \in 1 .. n
  BY OwnStringsParts
<1>2. Finds(s, name).hits \subseteq s.map
  BY DEF Finds
<1>3. ASSUME NEW e \in Finds(s, name).hits, r = [strs |-> Hit(s, e, IF count THEN 1 ELSE 0), obj |-> e.obj]
      PROVE  OwnStrings(r.strs, n) /\ r.obj \in 1 .. n \cup {None}
  <2> DEFINE by == IF count THEN 1 ELSE 0
  <2>1. by \in Int /\ e \in s.map
    BY <1>2
  <2>2. r.strs = Hit(s, e, by) /\ r.obj = e.obj
    BY <1>3
  <2> HIDE DEF by
  <2> QED
    BY <1>1, <2>1, <2>2, HitOwn
<1>4. ASSUME CanAcquire(s.pool), NEW t \in NewString(s, name), r = [strs |-> t, obj |-> Top(s.pool)]
      PROVE  OwnStrings(r.strs, n) /\ r.obj \in 1 .. n \cup {None}
  <2>1. OwnStrings(t, n) /\ Top(s.pool) \in 1 .. n
    BY <1>4, NewStringOwn
  <2> QED
    BY <1>4, <2>1
<1>5. ASSUME r = [strs |-> s, obj |-> None] PROVE OwnStrings(r.strs, n) /\ r.obj \in 1 .. n \cup {None}
  BY <1>5
<1>6. \/ \E e \in Finds(s, name).hits : r = [strs |-> Hit(s, e, IF count THEN 1 ELSE 0), obj |-> e.obj]
      \/ CanAcquire(s.pool) /\ \E t \in NewString(s, name) : r = [strs |-> t, obj |-> Top(s.pool)]
      \/ r = [strs |-> s, obj |-> None]
  BY DEF Attached
<1> QED
  BY <1>3, <1>4, <1>5, <1>6

\* A user less.
LEMMA UnhitOwn ==
  ASSUME NEW n, NEW s, OwnStrings(s, n), NEW o, NEW t \in Unhit(s, o)
  PROVE  OwnStrings(t, n)
<1>1. Finds(s, s.name[o]).hits \subseteq s.map
  BY DEF Finds
<1>2. \/ t = s
      \/ \E e \in Finds(s, s.name[o]).hits : t = [s EXCEPT !.map = @ \ {e}] \/ t = Hit(s, e, -1)
  BY DEF Unhit
<1>3. ASSUME NEW e \in s.map PROVE OwnStrings([s EXCEPT !.map = @ \ {e}], n) /\ OwnStrings(Hit(s, e, -1), n)
  <2>1. -1 \in Int
    OBVIOUS
  <2> QED
    BY <2>1, HitOwn
<1> QED
  BY <1>1, <1>2, <1>3

\* release of one of the pool's own objects, free or not.
LEMMA StringReleasedOwn ==
  ASSUME NEW n, NEW s, OwnStrings(s, n), NEW o \in 1 .. n
  PROVE  OwnStrings(StringReleased(s, o), n)
<1> DEFINE S == 1 .. n
           q == Released(s.pool, o)
<1>1. Fits(s.pool, S) /\ s.name \in [S -> Names \cup {None}]
      /\ s.map \in SUBSET [obj : S, key : Names, hits : Int]
      /\ \A P : [s EXCEPT !.pool = P] = [pool |-> P, name |-> s.name, map |-> s.map]
  BY OwnStringsParts
<1>2. Fits(q, S)
  <2> HIDE DEF S
  <2>1. CASE CanRelease(s.pool)
    <3>1. o \in S
      BY DEF S
    <3> QED
      BY <1>1, <2>1, <3>1, ReleasedPool
  <2>2. CASE ~CanRelease(s.pool)
    BY <1>1, <2>2 DEF Released
  <2> QED
    BY <2>1, <2>2
<1>3. StringReleased(s, o) = [s EXCEPT !.pool = q]
  BY DEF StringReleased
<1> HIDE DEF q
<1>4. StringReleased(s, o) = [pool |-> q, name |-> s.name, map |-> s.map]
  BY <1>1, <1>3
<1> QED
  BY <1>1, <1>2, <1>4, OwnStringsOf

\* What a flow that is banned, or not, may have.
Whole(x) == x \in States /\ WholeStrs(x.s)

\* One kind's strings change.
LEMMA WholeWith ==
  ASSUME NEW x, Whole(x), NEW k \in Kinds, NEW t, OwnStrings(t, Size[k]), NEW v \in Info,
         NEW y, y = [i |-> v, s |-> [x.s EXCEPT ![k] = t]]
  PROVE  Whole(y)
<1>1. x.s \in [Kinds -> AllStrings] /\ \A j \in Kinds : OwnStrings(x.s[j], Size[j])
  BY DEF Whole, WholeStrs
<1>2. t \in AllStrings
  BY DEF OwnStrings, AllStrings
<1>3. y.s = [x.s EXCEPT ![k] = t] /\ y.i = v /\ y = [i |-> y.i, s |-> y.s]
  OBVIOUS
<1>4. y.s \in [Kinds -> AllStrings] /\ \A j \in Kinds : y.s[j] = IF j = k THEN t ELSE x.s[j]
  BY <1>1, <1>2, <1>3
<1>5. WholeStrs(y.s)
  BY <1>1, <1>4 DEF WholeStrs
<1> QED
  BY <1>3, <1>4, <1>5 DEF Whole, States

\* attach_host and the like bring no strange object and leave the mark.
LEMMA AttachNewWhole ==
  ASSUME AppInfosAssumption, NEW x, Whole(x), NEW k \in Kinds, NEW n \in Names, NEW count \in BOOLEAN,
         NEW y \in AttachNew(x, k, n, count)
  PROVE  Whole(y) /\ y.i.banned = x.i.banned
<1>1. PICK r \in Attached(x.s[k], n, count) :
        y = [i |-> IF r.obj = None THEN x.i
                   ELSE [x.i EXCEPT !.str = Put(@, k, r.obj), !.said = Put(@, k, n)],
             s |-> [x.s EXCEPT ![k] = r.strs]]
  BY DEF AttachNew
<1>2. OwnStrings(x.s[k], Size[k]) /\ Size[k] \in Nat /\ x.i \in Info
  BY DEF Whole, WholeStrs, States, AppInfosAssumption
<1>3. OwnStrings(r.strs, Size[k]) /\ r.obj \in 1 .. Size[k] \cup {None}
  BY <1>2, AttachedOwn
<1>4. y.i \in Info /\ y.i.banned = x.i.banned
  <2>1. CASE r.obj = None
    <3>1. y.i = x.i
      BY <1>1, <2>1
    <3> QED
      BY <1>2, <3>1
  <2>2. CASE r.obj # None
    <3>1. /\ x.i = [str |-> x.i.str, said |-> x.i.said, banned |-> x.i.banned, release |-> x.i.release]
          /\ x.i.str \in [Kinds -> Nat] /\ x.i.said \in [Kinds -> Names \cup {None}]
          /\ x.i.banned \in BOOLEAN /\ x.i.release \in BOOLEAN
      BY <1>2 DEF Info
    <3>2. y.i = [x.i EXCEPT !.str = Put(@, k, r.obj), !.said = Put(@, k, n)]
      BY <1>1, <2>2
    <3>3. /\ y.i.str = Put(x.i.str, k, r.obj) /\ y.i.said = Put(x.i.said, k, n)
          /\ y.i.banned = x.i.banned /\ y.i.release = x.i.release
          /\ y.i = [str |-> y.i.str, said |-> y.i.said, banned |-> y.i.banned, release |-> y.i.release]
      BY <3>1, <3>2
    <3>4. y.i.str \in [Kinds -> Nat] /\ y.i.said \in [Kinds -> Names \cup {None}]
      BY <1>2, <1>3, <3>1, <3>3 DEF Put, None
    <3> QED
      BY <3>1, <3>3, <3>4 DEF Info
  <2> QED
    BY <2>1, <2>2
<1>5. y = [i |-> y.i, s |-> [x.s EXCEPT ![k] = r.strs]]
  BY <1>1
<1> QED
  BY <1>3, <1>4, <1>5, WholeWith

\* So do the hits that release_http_info_cache takes.
LEMMA UnhittedWhole ==
  ASSUME NEW x, Whole(x), NEW k \in Kinds, NEW y \in Unhitted(x, k)
  PROVE  Whole(y) /\ y.i = x.i
<1>1. CASE y = x
  BY <1>1
<1>2. ASSUME NEW t \in Unhit(x.s[k], x.i.str[k]), y = [x EXCEPT !.s[k] = t] PROVE Whole(y) /\ y.i = x.i
  <2>1. OwnStrings(x.s[k], Size[k]) /\ x.i \in Info /\ x = [i |-> x.i, s |-> x.s]
    BY DEF Whole, WholeStrs, States
  <2>2. OwnStrings(t, Size[k])
    BY <2>1, UnhitOwn
  <2>3. y = [i |-> x.i, s |-> [x.s EXCEPT ![k] = t]]
    BY <1>2, <2>1
  <2> QED
    BY <2>1, <2>2, <2>3, WholeWith
<1> QED
  BY <1>1, <1>2 DEF Unhitted

\* The strings go back, each to its own pool.
LEMMA ReleaseStringsWhole ==
  ASSUME AppInfosAssumption, NEW x, Whole(x)
  PROVE  LET y == ReleaseStrings(x)
         IN Whole(y) /\ y.i.banned = x.i.banned /\ \A k \in Kinds : y.i.str[k] = None
<1> DEFINE y == ReleaseStrings(x)
           own == [k \in Kinds |-> IF HasString(x, k) THEN StringReleased(x.s[k], x.i.str[k]) ELSE x.s[k]]
<1>1. y.s = own /\ y = [i |-> y.i, s |-> y.s]
  BY DEF ReleaseStrings, ReleaseStringsInto, ItsOwn
<1>2. x.i \in Info /\ x.s \in [Kinds -> AllStrings] /\ \A k \in Kinds : OwnStrings(x.s[k], Size[k])
  BY DEF Whole, WholeStrs, States
<1>4. FitStrs(x.s)
  BY WholeFit DEF Whole
<1>5. y.i \in Info /\ y.i.banned = x.i.banned /\ \A k \in Kinds : y.i.str[k] = None
  <2>1. /\ ReleaseStringsInto(x, ItsOwn).i \in Info
        /\ ReleaseStringsInto(x, ItsOwn).i.banned = x.i.banned
        /\ \A k \in Kinds : ReleaseStringsInto(x, ItsOwn).i.str[k] = None
    BY <1>2, <1>4, StringsGoBack
  <2> QED
    BY <2>1 DEF ReleaseStrings
<1>6. ASSUME NEW k \in Kinds PROVE OwnStrings(own[k], Size[k])
  <2>1. CASE HasString(x, k)
    <3>1. x.i.str[k] \in 1 .. Size[k]
      <4>1. /\ x.s[k].pool.items \in Seq(1 .. Size[k])
            /\ x.s[k].map \in SUBSET [obj : 1 .. Size[k], key : Names, hits : Int]
        BY <1>2, OwnStringsParts DEF Fits, Pools
      <4>2. x.i.str[k] \in InVector(x.s[k].pool) \/ x.i.str[k] \in Mapped(x.s[k])
        BY <2>1 DEF HasString, StringAlive
      <4>3. \A i \in 1 .. Len(x.s[k].pool.items) : x.s[k].pool.items[i] \in 1 .. Size[k]
        BY <4>1, ElementOfSeq
      <4> QED
        BY <4>1, <4>2, <4>3 DEF InVector, Mapped
    <3> QED
      BY <1>2, <2>1, <3>1, StringReleasedOwn
  <2>2. CASE ~HasString(x, k)
    BY <1>2, <2>2
  <2> QED
    BY <2>1, <2>2
<1>7. own = [k \in Kinds |-> own[k]]
  OBVIOUS
<1> HIDE DEF y, own
<1>8. \A k \in Kinds : own[k] \in AllStrings
  BY <1>6 DEF OwnStrings, AllStrings
<1>9. Whole(y)
  BY <1>1, <1>5, <1>6, <1>7, <1>8 DEF Whole, WholeStrs, States
<1> QED
  BY <1>5, <1>9 DEF y

\* release_http_info_cache leaves an info without strings.
LEMMA ReleaseInfoCacheWhole ==
  ASSUME AppInfosAssumption, HTTPProtocolAssumption, NEW x, Whole(x), NEW z \in ReleaseInfoCache(x)
  PROVE  Whole(z) /\ z.i.banned = x.i.banned /\ \A k \in Kinds : z.i.str[k] = None
<1>1. "ua" \in Kinds /\ "uri" \in Kinds
  BY DEF HTTPProtocolAssumption
<1>2. PICK y \in Unhitted(x, "ua") : \E w \in Unhitted(y, "uri") : z = ReleaseStrings(w)
  BY DEF ReleaseInfoCache
<1>3. PICK w \in Unhitted(y, "uri") : z = ReleaseStrings(w)
  BY <1>2
<1>4. Whole(y) /\ y.i = x.i
  BY <1>1, UnhittedWhole
<1>5. Whole(w) /\ w.i = x.i
  BY <1>1, <1>4, UnhittedWhole
<1> QED
  BY <1>3, <1>5, ReleaseStringsWhole

\* A flow that is banned has let its strings go.
LetGo(x) == Whole(x) /\ (x.i.banned => \A k \in Kinds : x.i.str[k] = None)

\* A field of the header, which may ban the flow.
LEMMA FieldLetsGo ==
  ASSUME AppInfosAssumption, HTTPProtocolAssumption, NEW x, LetGo(x),
         NEW k \in {"host", "ua"}, NEW n \in Names, NEW z \in Field(x, k, n)
  PROVE  LetGo(z)
<1>1. k \in Kinds /\ Whole(x) /\ x = [i |-> x.i, s |-> x.s] /\ x.i \in Info
  BY DEF HTTPProtocolAssumption, LetGo, Whole, States
<1>2. CASE x.i.banned
  BY <1>2 DEF Field
<1>3. CASE ~x.i.banned /\ z \in Attach(x, k, n)
  <2>1. z = x \/ z \in AttachNew(x, k, n, TRUE)
    BY <1>3 DEF Attach
  <2>2. z \in AttachNew(x, k, n, TRUE) => Whole(z) /\ z.i.banned = x.i.banned
    BY <1>1, AttachNewWhole
  <2> QED
    BY <1>3, <2>1, <2>2 DEF LetGo
<1>4. CASE z \in ReleaseInfoCache([x EXCEPT !.i.banned = TRUE])
  <2> DEFINE y == [x EXCEPT !.i.banned = TRUE]
  <2>1. y = [i |-> [x.i EXCEPT !.banned = TRUE], s |-> x.s]
    <3> DEFINE v == [x.i EXCEPT !.banned = TRUE]
    <3>1. \A w : [x EXCEPT !.i = w] = [i |-> w, s |-> x.s]
      BY <1>1
    <3>2. y = [x EXCEPT !.i = v]
      BY <1>1
    <3> HIDE DEF y, v
    <3>3. y = [i |-> v, s |-> x.s]
      BY <3>1, <3>2
    <3> QED
      BY <3>3 DEF v
  <2>2. [x.i EXCEPT !.banned = TRUE] \in Info
    BY <1>1 DEF Info
  <2>3. y \in States /\ y.s = x.s
    BY <1>1, <2>1, <2>2 DEF Whole, States
  <2> HIDE DEF y
  <2>4. Whole(y)
    BY <1>1, <2>3 DEF Whole
  <2>5. z \in ReleaseInfoCache(y)
    BY <1>4 DEF y
  <2> QED
    BY <2>4, <2>5, ReleaseInfoCacheWhole DEF LetGo
<1> QED
  BY <1>2, <1>3, <1>4 DEF Field, HostHTTP

\* The infos of flows, or the null pointer, and banned infos without strings.
BansInv ==
  /\ (OwnInfos /\ WholeStrs(strs)) \/ Cleared
  /\ \A i \in 1 .. InfoSize : info[i].banned /\ ~info[i].release =>
       \A k \in Kinds : info[i].str[k] = None

\* processFlow: whatever the header says and bans, a banned info has no strings
\* after it.
LEMMA BansPacket ==
  ASSUME AppInfosAssumption, HTTPProtocolAssumption,
         OwnInfos, WholeStrs(strs), NEW f \in Flows, PacketHTTP(f)
  PROVE  \E states : /\ Processed(f, states)
                     /\ \A y \in states : LetGo(y)
<1> DEFINE x == Before(f)
           G == {z \in States : LetGo(z)}
<1>1. GetInfo(f)
  BY DEF PacketHTTP
<1>2. x.i = InfoState(f) /\ x.s = strs /\ x = [i |-> x.i, s |-> x.s]
  BY DEF Before
<1>3. InfoState(f) \in Info
  <2>1. HasInfo(f) => flow[f] \in 1 .. InfoSize
    BY LiveInfos
  <2>2. ResetInfo \in Info
    BY DEF ResetInfo, Info, None
  <2> QED
    BY <2>1, <2>2 DEF InfoState, OwnInfos
<1>4. Whole(x)
  BY <1>2, <1>3 DEF Whole, States, WholeStrs
<1>5. ASSUME NEW fields \in Fields, ResponseHTTP(f, fields) \/ \E uri \in Names : RequestHTTP(f, uri, fields)
      PROVE  \E states : Processed(f, states) /\ \A y \in states : LetGo(y)
  <2>1. fields \in Seq({"host", "ua"} \X Names)
    BY DEF Fields, SeqOf
  <2>2. ~x.i.banned
    BY <1>2, <1>5 DEF ResponseHTTP, RequestHTTP
  <2>3. PICK states : /\ Processed(f, ParseHeader(states, fields))
                      /\ states = {x} \/ \E uri \in Names : states = UriHTTP(x, uri)
    BY <1>5 DEF ResponseHTTP, RequestHTTP
  <2> HIDE DEF x
  <2>4. ASSUME NEW z \in states PROVE LetGo(z)
    <3>1. z = x \/ \E uri \in Names : z \in UriHTTP(x, uri)
      BY <2>3
    <3>2. "uri" \in Kinds
      BY DEF HTTPProtocolAssumption
    <3>3. ASSUME NEW uri \in Names, z \in UriHTTP(x, uri) PROVE Whole(z) /\ z.i.banned = x.i.banned
      BY <1>4, <3>2, <3>3, AttachNewWhole DEF UriHTTP
    <3> QED
      BY <1>4, <2>2, <3>1, <3>3 DEF LetGo
  <2>5. states \in SUBSET G
    BY <2>4 DEF LetGo, Whole
  <2>6. \A y \in G, kind \in {"host", "ua"}, n \in Names : Field(y, kind, n) \subseteq G
    <3> SUFFICES ASSUME NEW y \in G, NEW kind \in {"host", "ua"}, NEW n \in Names, NEW z \in Field(y, kind, n)
                 PROVE  z \in G
      OBVIOUS
    <3>1. LetGo(z)
      BY FieldLetsGo
    <3> QED
      BY <3>1 DEF LetGo, Whole
  <2> HIDE DEF G
  <2>7. ParseHeader(states, fields) \subseteq G
    BY <2>1, <2>5, <2>6, ParseWithin
  <2> QED
    BY <2>3, <2>7 DEF G
<1>6. ASSUME BannedPacket(f)
      PROVE  \E states : Processed(f, states) /\ \A y \in states : LetGo(y)
  <2> DEFINE states == {[z EXCEPT !.i.release = FALSE] : z \in ReleaseInfoCache(x)}
  <2>1. Processed(f, states)
    BY <1>6 DEF BannedPacket
  <2>2. ASSUME NEW z \in ReleaseInfoCache(x) PROVE LetGo([z EXCEPT !.i.release = FALSE])
    <3> DEFINE y == [z EXCEPT !.i.release = FALSE]
               v == [z.i EXCEPT !.release = FALSE]
    <3> HIDE DEF x
    <3>1. Whole(z) /\ \A k \in Kinds : z.i.str[k] = None
      BY <1>4, <2>2, ReleaseInfoCacheWhole
    <3>2. z = [i |-> z.i, s |-> z.s] /\ z.i \in Info /\ z.s \in [Kinds -> AllStrings]
      BY <3>1 DEF Whole, States
    <3>3. v \in Info /\ v.str = z.i.str
      BY <3>2 DEF Info
    <3>4. y = [i |-> v, s |-> z.s]
      <4>1. \A w : [z EXCEPT !.i = w] = [i |-> w, s |-> z.s]
        BY <3>2
      <4>2. y = [z EXCEPT !.i = v]
        BY <3>2
      <4> HIDE DEF y, v
      <4> QED
        BY <4>1, <4>2
    <3> HIDE DEF y, v
    <3>5. Whole(y)
      BY <3>1, <3>2, <3>3, <3>4 DEF Whole, States
    <3>6. LetGo(y)
      BY <3>1, <3>3, <3>4, <3>5 DEF LetGo
    <3> QED
      BY <3>6 DEF y
  <2> QED
    BY <2>1, <2>2
<1> QED
  BY <1>5, <1>6 DEF PacketHTTP

\* Each step of HTTP with bans, by name and from scripts.
LEMMA BansStep ==
  ASSUME AppInfosAssumption, HTTPProtocolAssumption, BansInv, [NextHTTP]_vars
  PROVE  BansInv'
<1>0. Cleared => info \in [1 .. InfoSize -> Info]
  BY DEF Cleared
<1>1. ASSUME NEW f \in Flows, PacketHTTP(f) PROVE BansInv'
  <2>1. GetInfo(f)
    BY <1>1 DEF PacketHTTP
  <2>2. OwnInfos /\ WholeStrs(strs)
    BY <2>1, ClearedStops DEF BansInv, GetInfo
  <2>3. PICK states : Processed(f, states) /\ \A y \in states : LetGo(y)
    BY <1>1, <2>2, BansPacket
  <2>4. PICK y \in states : info' = [info EXCEPT ![InfoOf(f)] = y.i] /\ strs' = y.s /\ crashed' = crashed
    BY <2>3 DEF Processed
  <2>5. y.i \in Info /\ WholeStrs(y.s) /\ (y.i.banned => \A k \in Kinds : y.i.str[k] = None)
    BY <2>3 DEF LetGo, Whole, States
  <2>6. /\ Lends(infos, 1 .. InfoSize, HadInfo, Flows, None)'
        /\ flow' \in [Flows -> 0 .. InfoSize]
        /\ info \in [1 .. InfoSize -> Info] /\ crashed \in BOOLEAN
    BY <2>1, <2>2, GotInfo DEF OwnInfos
  <2>7. info' \in [1 .. InfoSize -> Info] /\ \A i \in 1 .. InfoSize : info'[i] = info[i] \/ info'[i] = y.i
    BY <2>4, <2>5, <2>6
  <2>8. OwnInfos'
    BY <2>4, <2>6, <2>7 DEF OwnInfos
  <2> QED
    BY <2>4, <2>5, <2>7, <2>8 DEF BansInv
<1>2. ASSUME NEW f \in Flows, EndFlow(f) PROVE BansInv'
  <2>1. info' = info /\ strs' = strs /\ HasInfo(f)
    BY <1>2 DEF EndFlow
  <2>2. OwnInfos /\ WholeStrs(strs)
    BY <2>1, ClearedStops DEF BansInv
  <2>3. OwnInfos'
    BY <1>2, <2>2, EndFlowOwn
  <2> QED
    BY <2>1, <2>2, <2>3 DEF BansInv
<1>3. ASSUME NEW f \in Flows, Crash(f) PROVE BansInv'
  BY <1>3 DEF Crash, BansInv, OwnInfos, Cleared, HadInfo, HasInfo
<1>4. ASSUME NEW f \in Flows, NEW value \in BOOLEAN, SetBannedHTTP(f, value) PROVE BansInv'
  <2> DEFINE o == flow[f]
             v == [info[o] EXCEPT !.banned = value, !.release = value]
  <2>1. /\ HasInfo(f) /\ info' = [info EXCEPT ![o].banned = value, ![o].release = value]
        /\ infos' = infos /\ flow' = flow /\ strs' = strs /\ crashed' = crashed
    BY <1>4 DEF SetBannedHTTP
  <2>2. OwnInfos /\ WholeStrs(strs)
    BY <2>1, ClearedStops DEF BansInv
  <2>3. o \in 1 .. InfoSize /\ info \in [1 .. InfoSize -> Info] /\ info[o] \in Info
    BY <2>1, <2>2, LiveInfos DEF OwnInfos
  <2> HIDE DEF o
  <2>4. v \in Info /\ v.banned = value /\ v.release = value
    <3> DEFINE w == [info[o] EXCEPT !.banned = value]
    <3>1. w \in Info /\ w.banned = value
      BY <2>3 DEF Info
    <3>2. v = [w EXCEPT !.release = value]
      BY <2>3 DEF Info
    <3> HIDE DEF v, w
    <3> QED
      BY <3>1, <3>2 DEF Info
  <2>5. info' = [info EXCEPT ![o] = v]
    BY <2>1, <2>3
  <2> HIDE DEF v
  <2>6. info' \in [1 .. InfoSize -> Info] /\ \A i \in 1 .. InfoSize : info'[i] = info[i] \/ info'[i] = v
    BY <2>3, <2>4, <2>5
  <2>7. OwnInfos'
    BY <2>1, <2>2, <2>6 DEF OwnInfos, HadInfo, HasInfo
  <2> QED
    BY <2>1, <2>2, <2>4, <2>6, <2>7 DEF BansInv
<1>5. ASSUME ReleaseCacheHTTP PROVE BansInv'
  <2>1. (OwnInfos \/ Cleared) /\ FitStrs(strs)
    BY WholeFit DEF BansInv, Cleared
  <2>2. /\ \A i \in 1 .. InfoSize : info'[i] = info[i] \/ \A k \in Kinds : info'[i].str[k] = None
        /\ \/ Cleared'
           \/ OwnInfos' /\ ~Cleared /\ strs' = [k \in Kinds |-> [strs[k] EXCEPT !.map = {}]]
    BY <1>5, <2>1, ReleaseCacheLeaves DEF ReleaseCacheHTTP
  <2>3. ASSUME ~Cleared, strs' = [k \in Kinds |-> [strs[k] EXCEPT !.map = {}]] PROVE WholeStrs(strs')
    <3>1. WholeStrs(strs)
      BY <2>3 DEF BansInv
    <3>2. ASSUME NEW k \in Kinds PROVE OwnStrings(strs'[k], Size[k])
      <4> DEFINE s == strs[k]
      <4>1. OwnStrings(s, Size[k]) /\ strs'[k] = [s EXCEPT !.map = {}]
        BY <2>3, <3>1 DEF WholeStrs
      <4> HIDE DEF s
      <4>2. /\ \A M : [s EXCEPT !.map = M] = [pool |-> s.pool, name |-> s.name, map |-> M]
            /\ Fits(s.pool, 1 .. Size[k]) /\ s.name \in [1 .. Size[k] -> Names \cup {None}]
        BY <4>1, OwnStringsParts
      <4>4. strs'[k] = [pool |-> s.pool, name |-> s.name, map |-> {}]
        BY <4>1, <4>2
      <4>3. {} \in SUBSET [obj : 1 .. Size[k], key : Names, hits : Int]
        OBVIOUS
      <4> QED
        BY <4>2, <4>3, <4>4, OwnStringsOf
    <3>3. \A k \in Kinds : strs'[k] \in AllStrings
      BY <3>2 DEF OwnStrings, AllStrings
    <3>4. strs' = [k \in Kinds |-> strs'[k]]
      BY <2>3
    <3> QED
      BY <3>2, <3>3, <3>4 DEF WholeStrs
  <2> QED
    BY <2>2, <2>3 DEF BansInv
<1>6. ASSUME UNCHANGED vars PROVE BansInv'
  BY <1>6 DEF vars, BansInv, OwnInfos, Cleared, HadInfo, HasInfo
<1> QED
  BY <1>1, <1>2, <1>3, <1>4, <1>5, <1>6 DEF NextHTTP

\* test_http.cc:605, "Verify that the flow dont have references in order to save
\* memory": a flow that was banned, by its host or by a script, and was told to let
\* go of its strings, never has one again, in any order of headers, bans, ends of
\* flows and releaseCache (release_http_info_cache, setBanAndRelease).
THEOREM BannedHoldsNothingAlways ==
  AppInfosAssumption /\ HTTPProtocolAssumption => (SpecHTTP => [](TypeOK /\ BannedHoldsNothing))
<1> SUFFICES ASSUME AppInfosAssumption, HTTPProtocolAssumption
             PROVE  SpecHTTP => [](TypeOK /\ BannedHoldsNothing)
  OBVIOUS
<1>1. Init => BansInv
  <2> SUFFICES ASSUME Init PROVE BansInv
    OBVIOUS
  <2>1. \A i \in 1 .. InfoSize : ~info[i].banned
    BY DEF Init, ResetInfo
  <2>2. SoundInv
    <3>1. Kinds \in SUBSET Kinds
      OBVIOUS
    <3> QED
      BY <3>1, SoundInit
  <2>3. ASSUME SoundState PROVE OwnInfos /\ WholeStrs(strs)
    BY <2>3, SoundWhole DEF SoundState
  <2> QED
    BY <2>1, <2>2, <2>3 DEF BansInv, SoundInv
<1>2. BansInv /\ [NextHTTP]_vars => BansInv'
  BY BansStep
<1>3. BansInv => TypeOK /\ BannedHoldsNothing
  <2> SUFFICES ASSUME BansInv PROVE TypeOK /\ BannedHoldsNothing
    OBVIOUS
  <2>1. /\ Fits(infos, 0 .. InfoSize) /\ info \in [1 .. InfoSize -> Info]
        /\ flow \in [Flows -> 0 .. InfoSize] /\ FitStrs(strs) /\ crashed \in BOOLEAN
    BY InfosFit, WholeFit DEF BansInv, OwnInfos, Cleared
  <2>2. TypeOK
    BY <2>1 DEF TypeOK, Fits, FitStrs, StringsFit
  <2>3. Live \subseteq 1 .. InfoSize
    BY LiveInfos DEF BansInv, Cleared, Live, HasInfo
  <2>4. BannedHoldsNothing
    BY <2>3 DEF BannedHoldsNothing, BansInv, StringOf
  <2> QED
    BY <2>2, <2>4
<1> QED
  BY <1>1, <1>2, <1>3, PTL DEF SpecHTTP

=============================================================================
