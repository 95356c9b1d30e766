---------------------------- MODULE SharedLemmas ----------------------------
(***************************************************************************)
(* Lemmas about the operators that the modules with pools and flow tables  *)
(* share: Cache<T> (CacheOps), the time index (FlowTable), and what of the *)
(* community modules they are built from.  The provers have no induction over*)
(* sequences, so each lemma says what every entry of a sequence is.        *)
(***************************************************************************)
EXTENDS CacheOps, FlowTable, SequenceTheorems, FiniteSetTheorems, TLAPS

\* Induction over the naturals up to k, for a set in the place of a formula: a
\* least number outside of S would make a map of 0 .. j into 1 .. j one to one.
LEMMA IntervalInduction ==
  ASSUME NEW k \in Nat, NEW S, 0 \in S, \A n \in 0 .. k - 1 : n \in S => n + 1 \in S
  PROVE  0 .. k \subseteq S
<1> SUFFICES ASSUME NEW j \in 0 .. k, j \notin S PROVE FALSE
  OBVIOUS
<1> DEFINE f == [n \in 0 .. j |-> IF n \in S THEN n + 1 ELSE n]
<1>1. f \in [0 .. j -> 1 .. j]
  <2> SUFFICES ASSUME NEW n \in 0 .. j PROVE (IF n \in S THEN n + 1 ELSE n) \in 1 .. j
    OBVIOUS
  <2>1. n \in S => n # j
    OBVIOUS
  <2>2. n \notin S => n # 0
    OBVIOUS
  <2> QED
    BY <2>1, <2>2
<1>2. /\ IsFiniteSet(0 .. j) /\ Cardinality(0 .. j) = j + 1
      /\ IsFiniteSet(1 .. j) /\ Cardinality(1 .. j) = j
  BY FS_Interval
<1>3. PICK x, y \in 0 .. j : x # y /\ f[x] = f[y]
  <2>1. Cardinality(1 .. j) < Cardinality(0 .. j)
    BY <1>2
  <2> HIDE DEF f
  <2> QED BY <1>1, <1>2, <2>1, FS_PigeonHole
<1>4. (IF x \in S THEN x + 1 ELSE x) = (IF y \in S THEN y + 1 ELSE y)
  BY <1>3
<1>5. \A n \in 0 .. j : n \in S /\ n # j => n + 1 \in S
  OBVIOUS
<1>6. CASE x \in S /\ y \notin S
  BY <1>3, <1>4, <1>5, <1>6
<1>7. CASE x \notin S /\ y \in S
  BY <1>3, <1>4, <1>5, <1>7
<1> QED
  BY <1>3, <1>4, <1>6, <1>7

\* Min of the community modules, which is a CHOOSE, is the least member.
LEMMA MinIsLeast ==
  ASSUME NEW S \in SUBSET Nat, S # {}
  PROVE  Min(S) \in S /\ \A i \in S : Min(S) <= i
<1> DEFINE Above == {n \in Nat : \A i \in S : i >= n}
<1>1. SUFFICES \E n \in S : \A i \in S : n <= i
  BY DEF Min
<1>2. SUFFICES ASSUME ~ \E n \in S : \A i \in S : n <= i PROVE FALSE
  OBVIOUS
<1>3. PICK k \in S : TRUE
  OBVIOUS
<1>4. 0 \in Above
  OBVIOUS
<1>5. \A n \in 0 .. k + 1 - 1 : n \in Above => n + 1 \in Above
  <2> SUFFICES ASSUME NEW n \in 0 .. k, n \in Above PROVE n + 1 \in Above
    OBVIOUS
  <2>1. n \notin S
    BY <1>2
  <2> QED
    BY <2>1
<1>6. k + 1 \in Above
  <2> HIDE DEF Above
  <2>1. 0 .. k + 1 \subseteq Above
    BY <1>4, <1>5, IntervalInduction
  <2> QED
    BY <2>1
<1> QED
  BY <1>6

\* f goes through k steps from base, each from one set of values to the next.
Iterates(f, k, G, base, step) ==
  /\ f = [n \in 0 .. k |-> f[n]]
  /\ f[0] = base
  /\ \A n \in 0 .. k : f[n] \in G[n]
  /\ \A n \in 1 .. k : f[n] = step[n][f[n - 1]]

\* A function that is computed step by step exists, with a type for each step:
\* what a loop over a list leaves.
LEMMA Iteration ==
  ASSUME NEW k \in Nat, NEW G, NEW base \in G[0], NEW step,
         \A n \in 1 .. k : \A x \in G[n - 1] : step[n][x] \in G[n]
  PROVE  \E f : Iterates(f, k, G, base, step)
<1> DEFINE S == {j \in 0 .. k : \E f : Iterates(f, j, G, base, step)}
<1>1. 0 \in S
  <2>1. Iterates([n \in 0 .. 0 |-> base], 0, G, base, step)
    BY DEF Iterates
  <2> QED
    BY <2>1
<1>2. \A j \in 0 .. k - 1 : j \in S => j + 1 \in S
  <2> SUFFICES ASSUME NEW j \in 0 .. k - 1, j \in S PROVE j + 1 \in S
    OBVIOUS
  <2>1. PICK f : Iterates(f, j, G, base, step)
    OBVIOUS
  <2> DEFINE g == [n \in 0 .. j + 1 |-> IF n = j + 1 THEN step[j + 1][f[j]] ELSE f[n]]
  <2>2. f[j] \in G[j] /\ step[j + 1][f[j]] \in G[j + 1]
    <3>1. f[j] \in G[j]
      BY <2>1 DEF Iterates
    <3>2. j + 1 \in 1 .. k /\ j + 1 - 1 = j
      OBVIOUS
    <3> QED
      BY <3>1, <3>2
  <2>3. \A n \in 0 .. j + 1 : g[n] \in G[n]
    BY <2>1, <2>2 DEF Iterates
  <2>4. g[0] = base
    BY <2>1 DEF Iterates
  <2>5. ASSUME NEW n \in 1 .. j + 1 PROVE g[n] = step[n][g[n - 1]]
    <3>1. CASE n = j + 1
      <4>1. g[n] = step[j + 1][f[j]] /\ g[n - 1] = f[j]
        BY <3>1
      <4> QED
        BY <3>1, <4>1
    <3>2. CASE n # j + 1
      <4>1. n \in 1 .. j /\ g[n] = f[n] /\ g[n - 1] = f[n - 1]
        BY <3>2
      <4> QED
        BY <2>1, <4>1 DEF Iterates
    <3> QED BY <3>1, <3>2
  <2>6. g = [n \in 0 .. j + 1 |-> g[n]]
    OBVIOUS
  <2>7. Iterates(g, j + 1, G, base, step)
    <3> HIDE DEF g
    <3> QED
      BY <2>3, <2>4, <2>5, <2>6 DEF Iterates
  <2> QED
    BY <2>7
<1>3. k \in S
  <2> HIDE DEF S
  <2>1. 0 .. k \subseteq S
    BY <1>1, <1>2, IntervalInduction
  <2> QED
    BY <2>1
<1> QED
  BY <1>3

\* What each entry is after InsertAt of the community modules.
LEMMA InsertAtEntries ==
  ASSUME NEW S, NEW s \in Seq(S), NEW i \in 1 .. Len(s) + 1, NEW e \in S
  PROVE  /\ InsertAt(s, i, e) \in Seq(S)
         /\ Len(InsertAt(s, i, e)) = Len(s) + 1
         /\ \A j \in 1 .. Len(s) + 1 :
              InsertAt(s, i, e)[j] = IF j < i THEN s[j] ELSE IF j = i THEN e ELSE s[j - 1]
<1> DEFINE low == SubSeq(s, 1, i - 1)
           high == SubSeq(s, i, Len(s))
<1>1. Len(s) \in Nat /\ \A j \in 1 .. Len(s) : s[j] \in S
  BY LenProperties, ElementOfSeq
<1>2. /\ low \in Seq(S) /\ Len(low) = i - 1
      /\ \A j \in 1 .. i - 1 : low[j] = s[j]
  <2>1. \A j \in 1 .. i - 1 : s[j] \in S
    BY <1>1
  <2>2. 1 \in Int /\ i - 1 \in Int
    BY <1>1
  <2>3. /\ low \in Seq(S)
        /\ Len(low) = IF 1 <= i - 1 THEN i - 1 - 1 + 1 ELSE 0
        /\ \A j \in 1 .. i - 1 - 1 + 1 : low[j] = s[1 + j - 1]
    BY <2>1, <2>2, SubSeqProperties
  <2> QED
    BY <1>1, <2>3
<1>3. /\ high \in Seq(S) /\ Len(high) = Len(s) - i + 1
      /\ \A j \in 1 .. Len(s) - i + 1 : high[j] = s[i + j - 1]
  <2>1. \A j \in i .. Len(s) : s[j] \in S
    BY <1>1
  <2>2. i \in Int /\ Len(s) \in Int
    BY <1>1
  <2>3. /\ high \in Seq(S)
        /\ Len(high) = IF i <= Len(s) THEN Len(s) - i + 1 ELSE 0
        /\ \A j \in 1 .. Len(s) - i + 1 : high[j] = s[i + j - 1]
    BY <2>1, <2>2, SubSeqProperties
  <2> QED
    BY <1>1, <2>3
<1> HIDE DEF low, high
<1>4. /\ low \o <<e>> \in Seq(S) /\ Len(low \o <<e>>) = i
      /\ \A j \in 1 .. i : (low \o <<e>>)[j] = IF j < i THEN s[j] ELSE e
  <2>1. <<e>> \in Seq(S) /\ Len(<<e>>) = 1 /\ <<e>>[1] = e
    OBVIOUS
  <2>2. /\ low \o <<e>> \in Seq(S)
        /\ Len(low \o <<e>>) = Len(low) + Len(<<e>>)
        /\ \A j \in 1 .. Len(low) + Len(<<e>>) :
             (low \o <<e>>)[j] = IF j <= Len(low) THEN low[j] ELSE <<e>>[j - Len(low)]
    BY <1>2, <2>1, ConcatProperties
  <2> HIDE DEF low
  <2> QED
    BY <1>1, <1>2, <2>1, <2>2
<1> DEFINE mid == low \o <<e>>
<1> HIDE DEF mid
<1>5. /\ mid \in Seq(S) /\ Len(mid) = i
      /\ \A j \in 1 .. i : mid[j] = IF j < i THEN s[j] ELSE e
  BY <1>4 DEF mid
<1>6. /\ mid \o high \in Seq(S)
      /\ Len(mid \o high) = Len(s) + 1
      /\ \A j \in 1 .. Len(s) + 1 :
           (mid \o high)[j] = IF j <= i THEN mid[j] ELSE high[j - i]
  <2>1. /\ mid \o high \in Seq(S)
        /\ Len(mid \o high) = Len(mid) + Len(high)
        /\ \A j \in 1 .. Len(mid) + Len(high) :
             (mid \o high)[j] = IF j <= Len(mid) THEN mid[j] ELSE high[j - Len(mid)]
    BY <1>3, <1>5, ConcatProperties
  <2> QED
    BY <1>1, <1>3, <1>5, <2>1
<1>7. ASSUME NEW j \in 1 .. Len(s) + 1
      PROVE  (mid \o high)[j] = IF j < i THEN s[j] ELSE IF j = i THEN e ELSE s[j - 1]
  <2>1. CASE j <= i
    BY <1>1, <1>5, <1>6, <2>1
  <2>2. CASE j > i
    <3>1. j - i \in 1 .. Len(s) - i + 1 /\ i + (j - i) - 1 = j - 1
      BY <1>1, <2>2
    <3>2. high[j - i] = s[j - 1]
      BY <1>3, <3>1
    <3> QED
      BY <1>1, <1>6, <2>2, <3>2
  <2>3. j <= i \/ j > i
    BY <1>1
  <2> QED BY <2>1, <2>2, <2>3
<1>8. InsertAt(s, i, e) = mid \o high
  BY DEF InsertAt, low, high, mid
<1> QED
  BY <1>6, <1>7, <1>8

\* What each entry is after RemoveAt of the community modules.
LEMMA RemoveAtEntries ==
  ASSUME NEW S, NEW s \in Seq(S), NEW i \in 1 .. Len(s)
  PROVE  /\ RemoveAt(s, i) \in Seq(S)
         /\ Len(RemoveAt(s, i)) = Len(s) - 1
         /\ \A j \in 1 .. Len(s) - 1 : RemoveAt(s, i)[j] = IF j < i THEN s[j] ELSE s[j + 1]
<1> DEFINE low == SubSeq(s, 1, i - 1)
           high == SubSeq(s, i + 1, Len(s))
<1>1. Len(s) \in Nat /\ \A j \in 1 .. Len(s) : s[j] \in S
  BY LenProperties, ElementOfSeq
<1>2. /\ low \in Seq(S) /\ Len(low) = i - 1
      /\ \A j \in 1 .. i - 1 : low[j] = s[j]
  <2>1. \A j \in 1 .. i - 1 : s[j] \in S
    BY <1>1
  <2>2. 1 \in Int /\ i - 1 \in Int
    BY <1>1
  <2>3. /\ low \in Seq(S)
        /\ Len(low) = IF 1 <= i - 1 THEN i - 1 - 1 + 1 ELSE 0
        /\ \A j \in 1 .. i - 1 - 1 + 1 : low[j] = s[1 + j - 1]
    BY <2>1, <2>2, SubSeqProperties
  <2> QED
    BY <1>1, <2>3
<1>3. /\ high \in Seq(S) /\ Len(high) = Len(s) - i
      /\ \A j \in 1 .. Len(s) - i : high[j] = s[i + j]
  <2>1. \A j \in i + 1 .. Len(s) : s[j] \in S
    BY <1>1
  <2>2. i + 1 \in Int /\ Len(s) \in Int
    BY <1>1
  <2>3. /\ high \in Seq(S)
        /\ Len(high) = IF i + 1 <= Len(s) THEN Len(s) - (i + 1) + 1 ELSE 0
        /\ \A j \in 1 .. Len(s) - (i + 1) + 1 : high[j] = s[i + 1 + j - 1]
    BY <2>1, <2>2, SubSeqProperties
  <2>4. Len(s) - (i + 1) + 1 = Len(s) - i
    BY <1>1
  <2>5. ASSUME NEW j \in 1 .. Len(s) - i PROVE high[j] = s[i + j]
    <3>1. i + 1 + j - 1 = i + j
      BY <1>1
    <3> HIDE DEF high
    <3> QED
      BY <2>3, <2>4, <3>1
  <2>6. Len(high) = Len(s) - i
    <3> HIDE DEF high
    <3>1. CASE i + 1 <= Len(s)
      BY <2>3, <2>4, <3>1
    <3>2. CASE ~(i + 1 <= Len(s))
      <4>1. Len(s) - i = 0
        BY <1>1, <3>2
      <4> QED
        BY <2>3, <3>2, <4>1
    <3> QED BY <3>1, <3>2
  <2> QED
    BY <2>3, <2>5, <2>6
<1> HIDE DEF low, high
<1>4. /\ low \o high \in Seq(S)
      /\ Len(low \o high) = Len(s) - 1
      /\ \A j \in 1 .. Len(s) - 1 :
           (low \o high)[j] = IF j <= i - 1 THEN low[j] ELSE high[j - (i - 1)]
  <2>1. /\ low \o high \in Seq(S)
        /\ Len(low \o high) = Len(low) + Len(high)
        /\ \A j \in 1 .. Len(low) + Len(high) :
             (low \o high)[j] = IF j <= Len(low) THEN low[j] ELSE high[j - Len(low)]
    BY <1>2, <1>3, ConcatProperties
  <2> QED
    BY <1>1, <1>2, <1>3, <2>1
<1>5. ASSUME NEW j \in 1 .. Len(s) - 1
      PROVE  (low \o high)[j] = IF j < i THEN s[j] ELSE s[j + 1]
  <2>1. CASE j < i
    BY <1>1, <1>2, <1>4, <2>1
  <2>2. CASE ~(j < i)
    <3>1. j - (i - 1) \in 1 .. Len(s) - i /\ i + (j - (i - 1)) = j + 1
      BY <1>1, <2>2
    <3>2. high[j - (i - 1)] = s[j + 1]
      BY <1>3, <3>1
    <3> QED
      BY <1>1, <1>4, <2>2, <3>2
  <2> QED BY <2>1, <2>2
<1>6. RemoveAt(s, i) = low \o high
  BY DEF RemoveAt, low, high
<1> QED
  BY <1>4, <1>5, <1>6

\* The index holds the flows of S, each once.
Indexes(order, S) ==
  /\ order \in Seq(S)
  /\ \A i, j \in 1 .. Len(order) : order[i] = order[j] => i = j
  /\ \A id \in S : \E i \in 1 .. Len(order) : order[i] = id

\* An index of S is as long as S is large: size of the container.
LEMMA IndexCount ==
  ASSUME NEW S, NEW order, Indexes(order, S)
  PROVE  ToSet(order) = S /\ IsFiniteSet(S) /\ Cardinality(S) = Len(order)
<1>1. /\ order \in [1 .. Len(order) -> S] /\ Len(order) \in Nat
      /\ DOMAIN order = 1 .. Len(order)
  BY LenProperties DEF Indexes
<1>2. ToSet(order) = S
  BY <1>1, ElementOfSeq DEF Indexes, ToSet
<1>3. order \in Bijection(1 .. Len(order), S)
  BY <1>1 DEF Indexes, Bijection, Injection, Surjection, IsInjective
<1>4. IsFiniteSet(1 .. Len(order)) /\ Cardinality(1 .. Len(order)) = Len(order)
  <2>1. ASSUME NEW n \in Nat PROVE IsFiniteSet(1 .. n) /\ Cardinality(1 .. n) = n
    BY FS_Interval
  <2> QED
    BY <1>1, <2>1
<1>5. IsFiniteSet(S) /\ Cardinality(S) = Cardinality(1 .. Len(order))
  <2>1. ASSUME NEW T, IsFiniteSet(T), order \in Bijection(T, S)
        PROVE  IsFiniteSet(S) /\ Cardinality(S) = Cardinality(T)
    BY <2>1, FS_Bijection DEF ExistsBijection
  <2> QED
    BY <1>3, <1>4, <2>1
<1> QED
  BY <1>2, <1>4, <1>5

\* erase finds the element it is asked to erase.
LEMMA PlaceOf ==
  ASSUME NEW S, NEW order, Indexes(order, S), NEW id \in S
  PROVE  /\ Place(order, id) \in 1 .. Len(order)
         /\ order[Place(order, id)] = id
<1>1. \E i \in 1 .. Len(order) : order[i] = id
  BY DEF Indexes
<1> QED
  BY <1>1 DEF Place

\* erase of one flow: the others stay, in their order (FlowTable).
LEMMA WithoutIndex ==
  ASSUME NEW S, NEW order, Indexes(order, S), NEW id \in S
  PROVE  LET p == Place(order, id)
             rest == Without(order, id)
         IN /\ Indexes(rest, S \ {id})
            /\ Len(rest) = Len(order) - 1
            /\ \A i \in 1 .. Len(rest) : rest[i] = IF i < p THEN order[i] ELSE order[i + 1]
<1> DEFINE p == Place(order, id)
           rest == Without(order, id)
<1>1. p \in 1 .. Len(order) /\ order[p] = id
  BY PlaceOf
<1>2. order \in Seq(S) /\ Len(order) \in Nat /\ \A i \in 1 .. Len(order) : order[i] \in S
  BY LenProperties, ElementOfSeq DEF Indexes
<1>3. /\ rest \in Seq(S)
      /\ Len(rest) = Len(order) - 1
      /\ \A i \in 1 .. Len(order) - 1 : rest[i] = IF i < p THEN order[i] ELSE order[i + 1]
  BY <1>1, <1>2, RemoveAtEntries DEF Without
<1> HIDE DEF p, rest
<1>4. \A i \in 1 .. Len(order) - 1 :
        \E j \in 1 .. Len(order) : j = (IF i < p THEN i ELSE i + 1) /\ rest[i] = order[j]
  BY <1>1, <1>2, <1>3
<1>5. \A i, j \in 1 .. Len(rest) : rest[i] = rest[j] => i = j
  <2> SUFFICES ASSUME NEW i \in 1 .. Len(rest), NEW j \in 1 .. Len(rest), rest[i] = rest[j]
               PROVE  i = j
    OBVIOUS
  <2>1. PICK k \in 1 .. Len(order) : k = (IF i < p THEN i ELSE i + 1) /\ rest[i] = order[k]
    BY <1>3, <1>4
  <2>2. PICK l \in 1 .. Len(order) : l = (IF j < p THEN j ELSE j + 1) /\ rest[j] = order[l]
    BY <1>3, <1>4
  <2>3. k = l
    BY <2>1, <2>2 DEF Indexes
  <2> QED
    BY <1>1, <1>2, <1>3, <2>1, <2>2, <2>3
<1>6. \A i \in 1 .. Len(rest) : rest[i] \in S \ {id}
  <2> SUFFICES ASSUME NEW i \in 1 .. Len(rest) PROVE rest[i] \in S /\ rest[i] # id
    OBVIOUS
  <2>1. PICK k \in 1 .. Len(order) : k = (IF i < p THEN i ELSE i + 1) /\ rest[i] = order[k]
    BY <1>3, <1>4
  <2>2. k # p
    BY <1>1, <1>2, <1>3, <2>1
  <2> QED
    BY <1>1, <1>2, <2>1, <2>2 DEF Indexes
<1>7. \A a \in S \ {id} : \E i \in 1 .. Len(rest) : rest[i] = a
  <2> SUFFICES ASSUME NEW a \in S, a # id PROVE \E i \in 1 .. Len(rest) : rest[i] = a
    OBVIOUS
  <2>1. PICK k \in 1 .. Len(order) : order[k] = a
    BY DEF Indexes
  <2>2. k # p
    BY <1>1, <2>1
  <2>3. CASE k < p
    <3>1. k \in 1 .. Len(order) - 1 /\ rest[k] = order[k]
      BY <1>1, <1>2, <1>3, <2>3
    <3> QED BY <1>3, <2>1, <3>1
  <2>4. CASE k > p
    <3>1. k - 1 \in 1 .. Len(order) - 1 /\ ~(k - 1 < p) /\ k - 1 + 1 = k
      BY <1>1, <1>2, <2>4
    <3>2. rest[k - 1] = order[k]
      BY <1>3, <3>1
    <3> QED BY <1>3, <2>1, <3>1, <3>2
  <2> QED BY <1>1, <1>2, <2>2, <2>3, <2>4
<1>8. rest \in Seq(S \ {id})
  <2>1. Len(rest) \in Nat /\ rest = [i \in 1 .. Len(rest) |-> rest[i]]
    BY <1>3, LenProperties
  <2> QED
    BY <1>6, <2>1, IsASeq
<1>9. Indexes(rest, S \ {id})
  BY <1>5, <1>7, <1>8 DEF Indexes
<1> QED
  BY <1>3, <1>9 DEF p, rest

\* new is order with id at place i between the others.
PutAt(new, order, i, id) ==
  /\ Len(new) = Len(order) + 1
  /\ \A j \in 1 .. Len(order) + 1 :
       new[j] = IF j < i THEN order[j] ELSE IF j = i THEN id ELSE order[j - 1]

\* The keys before and after place i allow a flow with that time there.
FitsAt(order, time, i, id) ==
  /\ i > 1 => time[order[i - 1]] <= time[id]
  /\ i <= Len(order) => time[id] < time[order[i]]

\* insert puts the flow between two neighbours, and nothing else moves.
LEMMA InsertedEntries ==
  ASSUME NEW T, NEW order \in Seq(T), NEW time, NEW id \in T,
         NEW new \in Inserted(order, time, id)
  PROVE  /\ new \in Seq(T)
         /\ \E i \in 1 .. Len(order) + 1 :
              FitsAt(order, time, i, id) /\ PutAt(new, order, i, id)
<1>1. PICK i \in 1 .. Len(order) + 1 :
        new = InsertAt(order, i, id) /\ FitsAt(order, time, i, id)
  BY DEF Inserted, FitsAt
<1>2. ASSUME NEW s \in Seq(T), NEW k \in 1 .. Len(s) + 1, NEW e \in T
      PROVE  InsertAt(s, k, e) \in Seq(T) /\ PutAt(InsertAt(s, k, e), s, k, e)
  <2>1. /\ InsertAt(s, k, e) \in Seq(T)
        /\ Len(InsertAt(s, k, e)) = Len(s) + 1
        /\ \A j \in 1 .. Len(s) + 1 :
             InsertAt(s, k, e)[j]
               = IF j < k THEN s[j] ELSE IF j = k THEN e ELSE s[j - 1]
    BY InsertAtEntries
  <2> QED
    BY <2>1 DEF PutAt
<1>3. new \in Seq(T) /\ PutAt(new, order, i, id)
  BY <1>1, <1>2
<1> QED
  BY <1>1, <1>3

\* insert of a new flow makes an index of one flow more, sorted or not.
LEMMA InsertedIndex ==
  ASSUME NEW S, NEW order, Indexes(order, S), NEW time, NEW id, id \notin S,
         NEW new \in Inserted(order, time, id)
  PROVE  Indexes(new, S \cup {id})
<1> DEFINE T == S \cup {id}
<1>1. /\ order \in Seq(S) /\ order \in Seq(T) /\ Len(order) \in Nat
      /\ \A j \in 1 .. Len(order) : order[j] \in S
  <2>1. order \in Seq(S)
    BY DEF Indexes
  <2>2. order \in Seq(T)
    BY <2>1, SeqMonotonic
  <2> QED
    BY <2>1, <2>2, LenProperties, ElementOfSeq
<1> HIDE DEF T
<1>2. id \in T
  BY DEF T
<1>put. PICK i \in 1 .. Len(order) + 1 : new \in Seq(T) /\ PutAt(new, order, i, id)
  BY <1>1, <1>2, InsertedEntries
<1>3. /\ new \in Seq(T)
      /\ Len(new) = Len(order) + 1
      /\ \A j \in 1 .. Len(order) + 1 :
           new[j] = IF j < i THEN order[j] ELSE IF j = i THEN id ELSE order[j - 1]
  BY <1>put DEF PutAt
<1>4. \A j \in 1 .. Len(order) + 1 : j # i =>
        \E k \in 1 .. Len(order) : k = (IF j < i THEN j ELSE j - 1) /\ new[j] = order[k]
  BY <1>1, <1>3
<1>5. ASSUME NEW j \in 1 .. Len(new), NEW k \in 1 .. Len(new), new[j] = new[k]
      PROVE  j = k
  <2>1. CASE j = i \/ k = i
    <3>1. new[i] = id
      BY <1>1, <1>3
    <3>2. \A l \in 1 .. Len(order) + 1 : l # i => new[l] # id
      BY <1>1, <1>4
    <3> QED
      BY <1>3, <1>5, <2>1, <3>1, <3>2
  <2>2. CASE j # i /\ k # i
    <3>1. PICK a \in 1 .. Len(order) : a = (IF j < i THEN j ELSE j - 1) /\ new[j] = order[a]
      BY <1>3, <1>4, <2>2
    <3>2. PICK b \in 1 .. Len(order) : b = (IF k < i THEN k ELSE k - 1) /\ new[k] = order[b]
      BY <1>3, <1>4, <2>2
    <3>3. a = b
      BY <1>5, <3>1, <3>2 DEF Indexes
    <3> QED
      BY <1>1, <1>3, <2>2, <3>1, <3>2, <3>3
  <2> QED BY <2>1, <2>2
<1>6. ASSUME NEW a \in T PROVE \E j \in 1 .. Len(new) : new[j] = a
  <2>1. CASE a = id
    BY <1>1, <1>3, <2>1
  <2>2. CASE a \in S
    <3>1. PICK k \in 1 .. Len(order) : order[k] = a
      BY <2>2 DEF Indexes
    <3>2. CASE k < i
      <4>1. k \in 1 .. Len(order) + 1 /\ new[k] = order[k]
        BY <1>1, <1>3, <3>2
      <4> QED
        BY <1>3, <3>1, <4>1
    <3>3. CASE ~(k < i)
      <4>1. k + 1 \in 1 .. Len(order) + 1 /\ ~(k + 1 < i) /\ k + 1 # i /\ k + 1 - 1 = k
        BY <1>1, <3>3
      <4>2. new[k + 1] = order[k]
        BY <1>3, <4>1
      <4> QED
        BY <1>3, <3>1, <4>1, <4>2
    <3> QED BY <3>2, <3>3
  <2> QED BY <2>1, <2>2 DEF T
<1> QED
  BY <1>3, <1>5, <1>6 DEF Indexes, T

\* modify moves a flow within the index and neither doubles nor loses it.
LEMMA ReindexedIndex ==
  ASSUME NEW S, NEW order, Indexes(order, S), NEW time, NEW id \in S,
         NEW new \in Reindexed(order, time, id)
  PROVE  Indexes(new, S)
<1>1. new = order \/ new \in Inserted(Without(order, id), time, id)
  BY DEF Reindexed
<1>2. Indexes(Without(order, id), S \ {id})
  BY WithoutIndex
<1>3. (S \ {id}) \cup {id} = S
  OBVIOUS
<1>4. ASSUME new \in Inserted(Without(order, id), time, id) PROVE Indexes(new, S)
  BY <1>2, <1>3, <1>4, InsertedIndex
<1> QED
  BY <1>1, <1>4


\* Keys of flows that are not in the index do not matter to its order.
LEMMA SortedElsewhere ==
  ASSUME NEW S, NEW order, Indexes(order, S), NEW time, NEW late,
         \A id \in S : late[id] = time[id], Sorted(order, time)
  PROVE  Sorted(order, late)
<1>1. \A i \in 1 .. Len(order) : order[i] \in S
  BY ElementOfSeq DEF Indexes
<1> QED
  BY <1>1 DEF Sorted

\* erase leaves a sorted index sorted.
LEMMA WithoutSorted ==
  ASSUME NEW S, NEW order, Indexes(order, S), NEW time, Sorted(order, time),
         NEW id \in S
  PROVE  Sorted(Without(order, id), time)
<1> DEFINE p == Place(order, id)
           rest == Without(order, id)
<1>1. /\ Len(rest) = Len(order) - 1
      /\ \A i \in 1 .. Len(rest) : rest[i] = IF i < p THEN order[i] ELSE order[i + 1]
      /\ p \in 1 .. Len(order) /\ Len(order) \in Nat
  BY WithoutIndex, PlaceOf, LenProperties DEF Indexes
<1> HIDE DEF p, rest
<1>2. ASSUME NEW i \in 1 .. Len(rest), NEW j \in 1 .. Len(rest), i < j
      PROVE  time[rest[i]] <= time[rest[j]]
  <2>1. PICK k \in 1 .. Len(order) : k = (IF i < p THEN i ELSE i + 1) /\ rest[i] = order[k]
    BY <1>1
  <2>2. PICK l \in 1 .. Len(order) : l = (IF j < p THEN j ELSE j + 1) /\ rest[j] = order[l]
    BY <1>1
  <2>3. k < l
    BY <1>1, <1>2, <2>1, <2>2
  <2> QED
    BY <2>1, <2>2, <2>3 DEF Sorted
<1> QED
  BY <1>2 DEF Sorted, rest

\* insert into a sorted index leaves it sorted.
LEMMA InsertedSorted ==
  ASSUME NEW T, NEW S \in SUBSET T, NEW order, Indexes(order, S),
         NEW time \in [T -> Int], Sorted(order, time),
         NEW id \in T, NEW new \in Inserted(order, time, id)
  PROVE  Sorted(new, time)
<1>1. /\ order \in Seq(T) /\ Len(order) \in Nat
      /\ \A j \in 1 .. Len(order) : order[j] \in T
  <2>1. order \in Seq(S)
    BY DEF Indexes
  <2>2. order \in Seq(T)
    BY <2>1, SeqMonotonic
  <2> QED
    BY <2>2, LenProperties, ElementOfSeq
<1>put. PICK i \in 1 .. Len(order) + 1 :
           FitsAt(order, time, i, id) /\ PutAt(new, order, i, id)
  BY <1>1, InsertedEntries
<1>2. /\ i > 1 => time[order[i - 1]] <= time[id]
      /\ i <= Len(order) => time[id] < time[order[i]]
  BY <1>put DEF FitsAt
<1>3. /\ Len(new) = Len(order) + 1
      /\ \A j \in 1 .. Len(order) + 1 :
           new[j] = IF j < i THEN order[j] ELSE IF j = i THEN id ELSE order[j - 1]
  BY <1>put DEF PutAt
<1>4. \A j \in 1 .. Len(order) : time[order[j]] \in Int
  BY <1>1
<1>5. ASSUME NEW j \in 1 .. Len(order), j < i PROVE time[order[j]] <= time[id]
  <2>1. i - 1 \in 1 .. Len(order) /\ i > 1
    BY <1>1, <1>5
  <2>2. time[order[i - 1]] <= time[id]
    BY <1>2, <2>1
  <2>3. CASE j = i - 1
    BY <2>2, <2>3
  <2>4. CASE j # i - 1
    <3>1. j < i - 1
      BY <1>1, <1>5, <2>4
    <3>2. time[order[j]] <= time[order[i - 1]]
      BY <2>1, <3>1 DEF Sorted
    <3>3. time[order[j]] \in Int /\ time[order[i - 1]] \in Int /\ time[id] \in Int
      BY <1>4, <2>1
    <3> QED
      BY <2>2, <3>2, <3>3
  <2> QED BY <2>3, <2>4
<1>6. ASSUME NEW j \in 1 .. Len(order), i <= j PROVE time[id] <= time[order[j]]
  <2>1. i \in 1 .. Len(order)
    BY <1>1, <1>6
  <2>2. time[id] < time[order[i]]
    BY <1>2, <2>1
  <2>3. time[order[j]] \in Int /\ time[order[i]] \in Int /\ time[id] \in Int
    BY <1>4, <2>1
  <2>4. CASE j = i
    BY <2>2, <2>3, <2>4
  <2>5. CASE j # i
    <3>1. i < j
      BY <1>1, <1>6, <2>5
    <3>2. time[order[i]] <= time[order[j]]
      BY <2>1, <3>1 DEF Sorted
    <3> QED
      BY <2>2, <2>3, <3>2
  <2> QED BY <2>4, <2>5
<1>7. ASSUME NEW j \in 1 .. Len(new), NEW k \in 1 .. Len(new), j < k
      PROVE  time[new[j]] <= time[new[k]]
  <2>1. CASE k < i
    <3>1. new[j] = order[j] /\ new[k] = order[k] /\ j \in 1 .. Len(order) /\ k \in 1 .. Len(order)
      BY <1>1, <1>3, <1>7, <2>1
    <3> QED
      BY <1>7, <3>1 DEF Sorted
  <2>2. CASE k = i
    <3>1. new[j] = order[j] /\ new[k] = id /\ j \in 1 .. Len(order) /\ j < i
      BY <1>1, <1>3, <1>7, <2>2
    <3> QED
      BY <1>5, <3>1
  <2>3. CASE k > i
    <3>1. new[k] = order[k - 1] /\ k - 1 \in 1 .. Len(order) /\ i <= k - 1
      BY <1>1, <1>3, <1>7, <2>3
    <3>2. CASE j < i
      <4>1. new[j] = order[j] /\ j \in 1 .. Len(order) /\ j < k - 1
        BY <1>1, <1>3, <1>7, <2>3, <3>2
      <4> QED
        BY <3>1, <4>1 DEF Sorted
    <3>3. CASE j = i
      <4>1. new[j] = id
        BY <1>1, <1>3, <3>3
      <4> QED
        BY <1>6, <3>1, <4>1
    <3>4. CASE j > i
      <4>1. new[j] = order[j - 1] /\ j - 1 \in 1 .. Len(order) /\ j - 1 < k - 1
        BY <1>1, <1>3, <1>7, <3>4
      <4> QED
        BY <3>1, <4>1 DEF Sorted
    <3> QED BY <1>1, <3>2, <3>3, <3>4
  <2> QED BY <1>1, <2>1, <2>2, <2>3
<1> QED
  BY <1>7 DEF Sorted

\* modify of one key, together with its place, leaves the index sorted.
LEMMA ReindexedSorted ==
  ASSUME NEW T, NEW S \in SUBSET T, NEW order, Indexes(order, S),
         NEW time \in [T -> Int], Sorted(order, time),
         NEW id \in S, NEW late \in [T -> Int],
         \A a \in T : a # id => late[a] = time[a],
         NEW new \in Reindexed(order, late, id)
  PROVE  Sorted(new, late)
<1> DEFINE p == Place(order, id)
<1>1. p \in 1 .. Len(order) /\ order[p] = id
  BY PlaceOf
<1>2. /\ Len(order) \in Nat
      /\ \A j \in 1 .. Len(order) : order[j] \in T
  BY LenProperties, ElementOfSeq DEF Indexes
<1>3. CASE new \in Inserted(Without(order, id), late, id)
  <2>1. Indexes(Without(order, id), S \ {id})
    BY WithoutIndex
  <2>2. Sorted(Without(order, id), time)
    BY WithoutSorted
  <2>3. Sorted(Without(order, id), late)
    BY <2>1, <2>2, SortedElsewhere
  <2> QED
    BY <1>3, <2>1, <2>3, InsertedSorted
<1>4. CASE /\ new = order
           /\ p > 1 => late[order[p - 1]] <= late[id]
           /\ p < Len(order) => late[id] <= late[order[p + 1]]
  <2> HIDE DEF p
  <2>1. \A j \in 1 .. Len(order) : /\ late[order[j]] \in Int
                                   /\ j # p => late[order[j]] = time[order[j]]
    BY <1>1, <1>2 DEF Indexes
  <2>2. \A i, j \in 1 .. Len(order) : i < j => time[order[i]] <= time[order[j]]
    BY DEF Sorted
  <2>3. ASSUME NEW i \in 1 .. Len(order), NEW j \in 1 .. Len(order), i < j
        PROVE  late[order[i]] <= late[order[j]]
    <3>1. CASE i # p /\ j # p
      BY <2>1, <2>2, <2>3, <3>1
    <3>2. CASE i = p
      <4>1. p + 1 \in 1 .. Len(order) /\ late[order[p]] <= late[order[p + 1]]
        BY <1>1, <1>2, <1>4, <2>3, <3>2
      <4>2. j = p + 1 \/ p + 1 < j
        BY <1>1, <1>2, <2>3, <3>2
      <4>3. p + 1 < j => late[order[p + 1]] <= late[order[j]]
        <5> DEFINE q == p + 1
        <5>1. q # p /\ q \in 1 .. Len(order) /\ j # p
          BY <1>1, <2>3, <3>2, <4>1
        <5> HIDE DEF q
        <5>2. late[order[q]] = time[order[q]] /\ late[order[j]] = time[order[j]]
          BY <2>1, <2>3, <5>1
        <5>3. q < j => time[order[q]] <= time[order[j]]
          BY <2>2, <2>3, <5>1
        <5> QED
          BY <5>2, <5>3 DEF q
      <4>4. late[order[p]] \in Int /\ late[order[p + 1]] \in Int /\ late[order[j]] \in Int
        BY <1>1, <2>1, <4>1
      <4> QED
        BY <3>2, <4>1, <4>2, <4>3, <4>4
    <3>3. CASE j = p
      <4>1. p - 1 \in 1 .. Len(order) /\ late[order[p - 1]] <= late[order[p]]
        BY <1>1, <1>2, <1>4, <2>3, <3>3
      <4>2. i = p - 1 \/ i < p - 1
        BY <1>1, <1>2, <2>3, <3>3
      <4>3. i < p - 1 => late[order[i]] <= late[order[p - 1]]
        <5> DEFINE q == p - 1
        <5>1. q # p /\ q \in 1 .. Len(order) /\ i # p
          BY <1>1, <2>3, <3>3, <4>1
        <5> HIDE DEF q
        <5>2. late[order[q]] = time[order[q]] /\ late[order[i]] = time[order[i]]
          BY <2>1, <2>3, <5>1
        <5>3. i < q => time[order[i]] <= time[order[q]]
          BY <2>2, <2>3, <5>1
        <5> QED
          BY <5>2, <5>3 DEF q
      <4>4. late[order[p]] \in Int /\ late[order[p - 1]] \in Int /\ late[order[i]] \in Int
        BY <1>1, <2>1, <4>1
      <4> QED
        BY <3>3, <4>1, <4>2, <4>3, <4>4
    <3> QED BY <3>1, <3>2, <3>3
  <2> QED
    BY <1>4, <2>3 DEF Sorted
<1>5. \/ new \in Inserted(Without(order, id), late, id)
      \/ /\ new = order
         /\ p > 1 => late[order[p - 1]] <= late[id]
         /\ p < Len(order) => late[id] <= late[order[p + 1]]
  BY DEF Reindexed
<1> HIDE DEF p
<1> QED
  BY <1>3, <1>4, <1>5

\* The walk of updateTimers takes the flows at the beginning of the index, all
\* of them old, and ends there or at one that is not old.
LEMMA ExpiredPrefix ==
  ASSUME NEW S, NEW order, Indexes(order, S), NEW time, NEW timeout, NEW now
  PROVE  LET old == Expired(order, time, timeout, now)
         IN /\ old \in Seq(S)
            /\ Len(old) \in 0 .. Len(order)
            /\ \A i \in 1 .. Len(old) :
                 old[i] = order[i] /\ IsOld(time, order[i], timeout, now)
            /\ Len(old) < Len(order) => ~IsOld(time, order[Len(old) + 1], timeout, now)
<1> DEFINE fresh == {i \in 1 .. Len(order) : ~IsOld(time, order[i], timeout, now)}
           last == IF fresh = {} THEN Len(order) ELSE Min(fresh) - 1
<1>1. /\ order \in Seq(S) /\ Len(order) \in Nat
      /\ \A j \in 1 .. Len(order) : order[j] \in S
  BY LenProperties, ElementOfSeq DEF Indexes
<1>2. /\ last \in 0 .. Len(order)
      /\ \A i \in 1 .. last : i \notin fresh
      /\ last < Len(order) => last + 1 \in fresh
  <2>1. CASE fresh = {}
    BY <1>1, <2>1
  <2>2. CASE fresh # {}
    <3>1. fresh \in SUBSET Nat /\ fresh \subseteq 1 .. Len(order)
      BY <1>1
    <3> HIDE DEF fresh
    <3>2. Min(fresh) \in fresh /\ \A i \in fresh : Min(fresh) <= i
      BY <2>2, <3>1, MinIsLeast
    <3>3. last = Min(fresh) - 1 /\ Min(fresh) \in 1 .. Len(order)
      BY <2>2, <3>1, <3>2
    <3>4. last + 1 = Min(fresh) /\ last \in 0 .. Len(order)
      BY <1>1, <3>3
    <3>5. \A i \in 1 .. last : ~(Min(fresh) <= i)
      BY <1>1, <3>3
    <3> QED
      BY <3>2, <3>4, <3>5
  <2> QED BY <2>1, <2>2
<1>3. Expired(order, time, timeout, now) = SubSeq(order, 1, last)
  BY DEF Expired
<1>4. \A i \in 1 .. Len(order) : i \notin fresh => IsOld(time, order[i], timeout, now)
  OBVIOUS
<1>5. \A i \in fresh : ~IsOld(time, order[i], timeout, now)
  OBVIOUS
<1> HIDE DEF last, fresh
<1>6. /\ SubSeq(order, 1, last) \in Seq(S)
      /\ Len(SubSeq(order, 1, last)) = last
      /\ \A i \in 1 .. last : SubSeq(order, 1, last)[i] = order[i]
  <2>1. \A i \in 1 .. last : order[i] \in S
    BY <1>1, <1>2
  <2>2. 1 \in Int /\ last \in Int /\ last \in Nat
    BY <1>1, <1>2
  <2>3. /\ SubSeq(order, 1, last) \in Seq(S)
        /\ Len(SubSeq(order, 1, last)) = IF 1 <= last THEN last - 1 + 1 ELSE 0
        /\ \A i \in 1 .. last - 1 + 1 : SubSeq(order, 1, last)[i] = order[1 + i - 1]
    BY <2>1, <2>2, SubSeqProperties
  <2>4. \A i \in 1 .. last : 1 + i - 1 = i
    BY <2>2
  <2> QED
    BY <2>2, <2>3, <2>4
<1> DEFINE old == Expired(order, time, timeout, now)
<1>7. /\ old \in Seq(S) /\ Len(old) = last
      /\ \A i \in 1 .. last : old[i] = order[i]
  BY <1>3, <1>6
<1> HIDE DEF old
<1>8. /\ Len(old) \in 0 .. Len(order)
      /\ \A i \in 1 .. Len(old) : old[i] = order[i] /\ IsOld(time, order[i], timeout, now)
      /\ Len(old) < Len(order) => ~IsOld(time, order[Len(old) + 1], timeout, now)
  <2>1. \A i \in 1 .. last : i \in 1 .. Len(order) /\ i \notin fresh
    BY <1>1, <1>2
  <2> QED
    BY <1>2, <1>4, <1>5, <1>7, <2>1
<1> QED
  BY <1>7, <1>8 DEF old

\* What is left of an index when its first n flows are erased.
LEMMA SuffixIndex ==
  ASSUME NEW S, NEW order, Indexes(order, S), NEW n \in 0 .. Len(order)
  PROVE  LET rest == SubSeq(order, n + 1, Len(order))
         IN /\ Indexes(rest, S \ {order[i] : i \in 1 .. n})
            /\ Len(rest) = Len(order) - n
            /\ \A i \in 1 .. Len(rest) : rest[i] = order[n + i]
<1> DEFINE len == Len(order)
           rest == SubSeq(order, n + 1, len)
           R == S \ {order[i] : i \in 1 .. n}
<1>1. /\ order \in Seq(S) /\ len \in Nat /\ n \in 0 .. len
      /\ \A j \in 1 .. len : order[j] \in S
  BY LenProperties, ElementOfSeq DEF Indexes
<1>len. \A i, j \in 1 .. len : order[i] = order[j] => i = j
  BY DEF Indexes
<1>on. \A a \in S : \E i \in 1 .. len : order[i] = a
  BY DEF Indexes
<1> HIDE DEF len
<1>2. /\ rest \in Seq(S) /\ Len(rest) = len - n
      /\ \A j \in 1 .. len - n : rest[j] = order[n + j]
  <2>1. \A j \in n + 1 .. len : order[j] \in S
    BY <1>1
  <2>2. n + 1 \in Int /\ len \in Int
    BY <1>1
  <2>3. /\ rest \in Seq(S)
        /\ Len(rest) = IF n + 1 <= len THEN len - (n + 1) + 1 ELSE 0
        /\ \A j \in 1 .. len - (n + 1) + 1 : rest[j] = order[n + 1 + j - 1]
    BY <2>1, <2>2, SubSeqProperties
  <2> HIDE DEF rest
  <2>4. len - (n + 1) + 1 = len - n
    BY <1>1
  <2>5. ASSUME NEW j \in 1 .. len - n PROVE rest[j] = order[n + j]
    <3>1. n + 1 + j - 1 = n + j
      BY <1>1
    <3> QED
      BY <2>3, <2>4, <3>1
  <2>6. Len(rest) = len - n
    <3>1. ~(n + 1 <= len) => len - n = 0
      BY <1>1
    <3> QED
      BY <2>3, <2>4, <3>1
  <2> QED
    BY <2>3, <2>5, <2>6
<1> HIDE DEF rest
<1>3. \A j \in 1 .. len - n : n + j \in 1 .. len /\ ~(n + j \in 1 .. n)
  BY <1>1
<1>4. \A j \in 1 .. len - n : rest[j] \in R
  BY <1>1, <1>2, <1>3, <1>len
<1>5. rest \in Seq(R)
  <2>1. Len(rest) \in Nat /\ rest = [i \in 1 .. Len(rest) |-> rest[i]]
    BY <1>2, LenProperties
  <2> HIDE DEF R
  <2> QED
    BY <1>2, <1>4, <2>1, IsASeq
<1>6. \A i, j \in 1 .. Len(rest) : rest[i] = rest[j] => i = j
  <2> SUFFICES ASSUME NEW i \in 1 .. Len(rest), NEW j \in 1 .. Len(rest), rest[i] = rest[j]
               PROVE  i = j
    OBVIOUS
  <2>1. n + i = n + j
    BY <1>2, <1>3, <1>len
  <2> QED
    BY <1>1, <1>2, <2>1
<1>7. \A a \in R : \E i \in 1 .. Len(rest) : rest[i] = a
  <2> SUFFICES ASSUME NEW a \in R PROVE \E i \in 1 .. Len(rest) : rest[i] = a
    OBVIOUS
  <2>1. PICK k \in 1 .. len : order[k] = a
    BY <1>on
  <2>2. ~(k \in 1 .. n)
    BY <2>1
  <2>3. k - n \in 1 .. len - n /\ n + (k - n) = k
    BY <1>1, <2>2
  <2>4. rest[k - n] = order[k]
    BY <1>2, <2>3
  <2> QED
    BY <1>2, <2>1, <2>3, <2>4
<1> QED
  BY <1>2, <1>5, <1>6, <1>7 DEF Indexes, rest, len

-----------------------------------------------------------------------------
(***************************************************************************)
(* What the calls do to a vector: length, size of the free stack, entries. *)
(***************************************************************************)

\* A pool whose free stack fits its vector.
Fits(p, S) == p \in Pools(S) /\ p.total <= Len(p.items)

\* create on a pool with nothing lent appends free objects to the free stack.
LEMMA CreatedPool ==
  ASSUME NEW S, NEW p, Fits(p, S), NEW new \in Seq(S)
  PROVE  LET q == Created(p, new)
         IN /\ Fits(q, S)
            /\ q.total = p.total + Len(new)
            /\ Len(q.items) = Len(p.items) + Len(new)
            /\ \A i \in 1 .. Len(q.items) :
                 q.items[i] = IF i <= Len(p.items) THEN p.items[i]
                                                   ELSE new[i - Len(p.items)]
<1>1. p.items \in Seq(S) /\ p.total \in Nat /\ p.total <= Len(p.items)
  BY DEF Fits, Pools
<1>2. Len(p.items) \in Nat /\ Len(new) \in Nat
  BY <1>1, LenProperties
<1>3. /\ p.items \o new \in Seq(S)
      /\ Len(p.items \o new) = Len(p.items) + Len(new)
      /\ \A i \in 1 .. Len(p.items) + Len(new) :
           (p.items \o new)[i] = IF i <= Len(p.items) THEN p.items[i]
                                                      ELSE new[i - Len(p.items)]
  BY <1>1, ConcatProperties
<1> QED
  BY <1>1, <1>2, <1>3 DEF Created, Fits, Pools

\* destroy takes free objects only, from the top of the free stack.
LEMMA DestroyedPool ==
  ASSUME NEW S, NEW p, Fits(p, S), NEW n \in Nat
  PROVE  LET q == Destroyed(p, n)
         IN /\ Fits(q, S)
            /\ q.total <= p.total
            /\ Len(q.items) - q.total = Len(p.items) - p.total
            /\ \A i \in 1 .. q.total : q.items[i] = p.items[i]
            /\ \A i \in 1 .. Len(q.items) :
                 \E j \in 1 .. Len(p.items) : q.items[i] = p.items[j]
<1> DEFINE real == IF n > p.total THEN p.total ELSE n
           len == Len(p.items)
           low == SubSeq(p.items, 1, p.total - real)
           high == SubSeq(p.items, p.total + 1, len)
<1>1. p.items \in Seq(S) /\ p.total \in Nat /\ p.total <= len /\ len \in Nat
  BY LenProperties DEF Fits, Pools
<1>2. real \in 0 .. p.total
  BY <1>1
<1>3. \A i \in 1 .. len : p.items[i] \in S
  BY <1>1, ElementOfSeq
<1>4. /\ low \in Seq(S)
      /\ Len(low) = p.total - real
      /\ \A i \in 1 .. p.total - real : low[i] = p.items[i]
  <2>1. \A i \in 1 .. p.total - real : p.items[i] \in S
    BY <1>1, <1>2, <1>3
  <2> HIDE DEF real
  <2> QED
    BY <2>1, <1>1, <1>2, SubSeqProperties
<1>5. /\ high \in Seq(S)
      /\ Len(high) = len - p.total
      /\ \A i \in 1 .. len - p.total : high[i] = p.items[p.total + i]
  <2>1. \A i \in p.total + 1 .. len : p.items[i] \in S
    BY <1>1, <1>3
  <2> HIDE DEF len
  <2>2. p.total + 1 \in Int /\ len \in Int
    BY <1>1
  <2>3. /\ high \in Seq(S)
        /\ Len(high) = IF p.total + 1 <= len THEN len - (p.total + 1) + 1 ELSE 0
        /\ \A i \in 1 .. len - (p.total + 1) + 1 : high[i] = p.items[p.total + 1 + i - 1]
    BY <2>1, <2>2, SubSeqProperties
  <2>4. len - (p.total + 1) + 1 = len - p.total
    BY <1>1
  <2>5. \A i \in 1 .. len - p.total : p.total + 1 + i - 1 = p.total + i
    BY <1>1
  <2> HIDE DEF high
  <2>6. Len(high) = len - p.total
    BY <2>3, <2>4, <1>1
  <2>7. \A i \in 1 .. len - p.total : high[i] = p.items[p.total + i]
    BY <2>3, <2>4, <2>5
  <2> QED
    BY <2>3, <2>6, <2>7
<1>6. /\ low \o high \in Seq(S)
      /\ Len(low \o high) = len - real
      /\ \A i \in 1 .. len - real :
           (low \o high)[i] = IF i <= p.total - real THEN p.items[i]
                                                      ELSE p.items[i + real]
  <2> HIDE DEF real, low, high, len
  <2>1. /\ low \o high \in Seq(S)
        /\ Len(low \o high) = Len(low) + Len(high)
        /\ \A i \in 1 .. Len(low) + Len(high) :
             (low \o high)[i] = IF i <= Len(low) THEN low[i] ELSE high[i - Len(low)]
    BY <1>4, <1>5, ConcatProperties
  <2>2. Len(low) + Len(high) = len - real
    BY <1>1, <1>2, <1>4, <1>5
  <2>3. \A i \in 1 .. len - real : i > p.total - real =>
          /\ i - Len(low) \in 1 .. len - p.total
          /\ p.total + (i - Len(low)) = i + real
    BY <1>1, <1>2, <1>4
  <2>4. \A i \in 1 .. len - real : i <= p.total - real => i \in 1 .. p.total - real
    BY <1>1, <1>2
  <2>5. ASSUME NEW i \in 1 .. len - real
        PROVE  (low \o high)[i] = IF i <= p.total - real THEN p.items[i]
                                                         ELSE p.items[i + real]
    <3>1. CASE i <= p.total - real
      BY <3>1, <2>1, <2>2, <2>4, <1>4
    <3>2. CASE ~(i <= p.total - real)
      <4>1. i > p.total - real
        BY <3>2, <1>1, <1>2
      <4>2. (low \o high)[i] = high[i - Len(low)]
        BY <3>2, <2>1, <2>2, <1>4
      <4>3. high[i - Len(low)] = p.items[p.total + (i - Len(low))]
        BY <4>1, <2>3, <1>5
      <4> QED
        BY <3>2, <4>1, <4>2, <4>3, <2>3
    <3> QED BY <3>1, <3>2
  <2> QED
    BY <2>1, <2>2, <2>5
<1>7. Destroyed(p, n) = [items |-> low \o high, total |-> p.total - real]
  BY DEF Destroyed
<1> HIDE DEF real, low, high, len
<1>8. Fits(Destroyed(p, n), S)
  BY <1>1, <1>2, <1>6, <1>7 DEF Fits, Pools
<1>9. \A i \in 1 .. len - real : \E j \in 1 .. len : (low \o high)[i] = p.items[j]
  <2> TAKE i \in 1 .. len - real
  <2>1. CASE i <= p.total - real
    BY <2>1, <1>1, <1>2, <1>6
  <2>2. CASE ~(i <= p.total - real)
    <3>1. i + real \in 1 .. len
      BY <1>1, <1>2
    <3> QED BY <3>1, <2>2, <1>6
  <2> QED BY <2>1, <2>2
<1>10. /\ Destroyed(p, n).items = low \o high
       /\ Destroyed(p, n).total = p.total - real
  BY <1>7
<1>11. Len(Destroyed(p, n).items) - Destroyed(p, n).total = len - p.total
  BY <1>1, <1>2, <1>6, <1>10
<1>12. \A i \in 1 .. Destroyed(p, n).total : Destroyed(p, n).items[i] = p.items[i]
  BY <1>1, <1>2, <1>6, <1>10
<1>13. \A i \in 1 .. Len(Destroyed(p, n).items) :
         \E j \in 1 .. len : Destroyed(p, n).items[i] = p.items[j]
  BY <1>6, <1>9, <1>10
<1>14. Destroyed(p, n).total <= p.total
  BY <1>1, <1>2, <1>10
<1> QED
  BY <1>8, <1>11, <1>12, <1>13, <1>14 DEF len

\* release writes one slot, just above the free stack.
LEMMA ReleasedPool ==
  ASSUME NEW S, NEW p, Fits(p, S), NEW o \in S, CanRelease(p)
  PROVE  LET q == Released(p, o)
         IN /\ Fits(q, S)
            /\ q.total = p.total + 1
            /\ Len(q.items) = Len(p.items)
            /\ \A i \in 1 .. Len(p.items) :
                 q.items[i] = IF i = p.total + 1 THEN o ELSE p.items[i]
<1>1. p.items \in Seq(S) /\ p.total \in Nat /\ p.total < Len(p.items)
      /\ Len(p.items) \in Nat
  BY LenProperties DEF Fits, Pools, CanRelease
<1>2. p.total + 1 \in 1 .. Len(p.items)
  BY <1>1
<1>3. LET new == [p.items EXCEPT ![p.total + 1] = o]
      IN /\ new \in Seq(S)
         /\ Len(new) = Len(p.items)
         /\ \A j \in 1 .. Len(p.items) :
              new[j] = IF j = p.total + 1 THEN o ELSE p.items[j]
  BY <1>1, <1>2, ExceptSeq
<1> QED
  BY <1>1, <1>2, <1>3 DEF Released, CanRelease, Fits, Pools

-----------------------------------------------------------------------------

\* A pool and what its users hold of it: the free stack has each free object
\* once and none that is held, and no two users hold one object.
Lends(p, S, held, Ids, none) ==
  /\ Fits(p, S)
  /\ \A i, j \in 1 .. p.total : p.items[i] = p.items[j] => i = j
  /\ held \in [Ids -> S \cup {none}]
  /\ \A id \in Ids, i \in 1 .. p.total : held[id] # none => p.items[i] # held[id]
  /\ \A a, b \in Ids : held[a] # none /\ held[a] = held[b] => a = b

\* A pool of n new objects lends none.
LEMMA NewPool ==
  ASSUME NEW n \in Nat, NEW Ids, NEW none
  PROVE  LET p == Created(EmptyPool, [i \in 1 .. n |-> i])
         IN /\ Lends(p, 1 .. n, [id \in Ids |-> none], Ids, none)
            /\ p.total = n
            /\ Len(p.items) = n
<1> DEFINE new == [i \in 1 .. n |-> i]
           p == Created(EmptyPool, new)
<1>1. new \in Seq(1 .. n) /\ Len(new) = n /\ \A i \in 1 .. n : new[i] = i
  OBVIOUS
<1>2. /\ EmptyPool.items = <<>> /\ EmptyPool.total = 0
      /\ p.items = <<>> \o new /\ p.total = 0 + Len(new)
      /\ p = [items |-> <<>> \o new, total |-> 0 + Len(new)]
  BY DEF EmptyPool, Created
<1> HIDE DEF new
<1>3. <<>> \o new = new
  BY <1>1, ConcatEmptySeq
<1>4. /\ p.items = new /\ p.total = n /\ Fits(p, 1 .. n)
  BY <1>1, <1>2, <1>3 DEF Fits, Pools
<1> HIDE DEF p
<1>5. Lends(p, 1 .. n, [id \in Ids |-> none], Ids, none)
  BY <1>1, <1>4 DEF Lends
<1> QED
  BY <1>1, <1>4, <1>5 DEF p, new

\* acquire lends the object on the top of the free stack to the holder.
LEMMA AcquiredLends ==
  ASSUME NEW p, NEW S, NEW held, NEW Ids, NEW none, none \notin S,
         Lends(p, S, held, Ids, none), CanAcquire(p), NEW id \in Ids
  PROVE  LET q == Acquired(p)
         IN /\ Lends(q, S, [held EXCEPT ![id] = Top(p)], Ids, none)
            /\ Top(p) \in S
            /\ q.total = p.total - 1
            /\ q.items = p.items
<1>1. /\ p.items \in Seq(S) /\ p.total \in Nat /\ p.total <= Len(p.items)
      /\ Len(p.items) \in Nat /\ p \in Pools(S) /\ p.total > 0
      /\ \A i \in 1 .. Len(p.items) : p.items[i] \in S
  BY LenProperties, ElementOfSeq DEF Lends, Fits, Pools, CanAcquire
<1>2. Top(p) \in S /\ Top(p) = p.items[p.total] /\ p.total \in 1 .. p.total
  BY <1>1 DEF Top
<1>3. /\ Acquired(p) \in Pools(S)
      /\ Acquired(p).total = p.total - 1 /\ Acquired(p).items = p.items
  BY <1>1 DEF Acquired, Pools
<1>4. Fits(Acquired(p), S)
  BY <1>1, <1>3 DEF Fits
<1> DEFINE lent == [held EXCEPT ![id] = Top(p)]
<1>5. /\ lent \in [Ids -> S \cup {none}]
      /\ lent[id] = Top(p)
      /\ \A a \in Ids : a # id => lent[a] = held[a]
  BY <1>2 DEF Lends
<1>6. \A i \in 1 .. p.total - 1 : i \in 1 .. p.total /\ i # p.total
  BY <1>1
<1>7. \A i \in 1 .. p.total - 1 : p.items[i] # Top(p)
  BY <1>2, <1>6 DEF Lends
<1>8. \A a \in Ids : held[a] # none => held[a] # Top(p)
  BY <1>2 DEF Lends
<1> HIDE DEF lent
<1>9. Lends(Acquired(p), S, lent, Ids, none)
  <2>1. \A i, j \in 1 .. p.total - 1 : p.items[i] = p.items[j] => i = j
    BY <1>6 DEF Lends
  <2>2. \A a \in Ids, i \in 1 .. p.total - 1 : lent[a] # none => p.items[i] # lent[a]
    BY <1>5, <1>6, <1>7 DEF Lends
  <2>3. \A a, b \in Ids : lent[a] # none /\ lent[a] = lent[b] => a = b
    BY <1>2, <1>5, <1>8 DEF Lends
  <2> QED
    BY <1>3, <1>4, <1>5, <2>1, <2>2, <2>3 DEF Lends
<1> QED
  BY <1>2, <1>3, <1>9 DEF lent

\* A holder whose object is gone just forgets it.
LEMMA ForgottenLends ==
  ASSUME NEW p, NEW S, NEW held, NEW Ids, NEW none,
         Lends(p, S, held, Ids, none), NEW id \in Ids
  PROVE  Lends(p, S, [held EXCEPT ![id] = none], Ids, none)
BY DEF Lends

\* release by the holder; if the vector is full the object is lost to the pool.
LEMMA ReleasedLends ==
  ASSUME NEW p, NEW S, NEW held, NEW Ids, NEW none,
         Lends(p, S, held, Ids, none), NEW id \in Ids, held[id] # none
  PROVE  LET q == Released(p, held[id])
         IN /\ Lends(q, S, [held EXCEPT ![id] = none], Ids, none)
            /\ Len(q.items) = Len(p.items)
            /\ q.total = IF CanRelease(p) THEN p.total + 1 ELSE p.total
<1> DEFINE o == held[id]
           q == Released(p, o)
           rest == [held EXCEPT ![id] = none]
<1>1. CASE ~CanRelease(p)
  BY <1>1, ForgottenLends DEF Released
<1>2. CASE CanRelease(p)
  <2>1. o \in S
    BY DEF Lends
  <2>2. Fits(p, S)
    BY DEF Lends
  <2>3. /\ Fits(q, S)
        /\ q.total = p.total + 1
        /\ Len(q.items) = Len(p.items)
        /\ \A i \in 1 .. Len(p.items) :
             q.items[i] = IF i = p.total + 1 THEN o ELSE p.items[i]
    <3> HIDE DEF o
    <3> QED
      BY <1>2, <2>1, <2>2, ReleasedPool
  <2>4. p.total \in Nat /\ Len(p.items) \in Nat /\ p.total < Len(p.items)
    BY <1>2, <2>2, LenProperties DEF Fits, Pools, CanRelease
  <2>5. \A i \in 1 .. p.total + 1 :
          /\ i = p.total + 1 => q.items[i] = o
          /\ i # p.total + 1 => i \in 1 .. p.total /\ q.items[i] = p.items[i]
    <3> HIDE DEF q, o
    <3>1. \A i \in 1 .. p.total + 1 :
            /\ i \in 1 .. Len(p.items)
            /\ i # p.total + 1 => i \in 1 .. p.total
      BY <2>4
    <3> QED
      BY <2>3, <3>1
  <2>6. /\ rest \in [Ids -> S \cup {none}]
        /\ \A a \in Ids : rest[a] = IF a = id THEN none ELSE held[a]
    BY DEF Lends
  <2>7. /\ \A i, j \in 1 .. p.total : p.items[i] = p.items[j] => i = j
        /\ \A a \in Ids, i \in 1 .. p.total : held[a] # none => p.items[i] # held[a]
        /\ \A a, b \in Ids : held[a] # none /\ held[a] = held[b] => a = b
        /\ \A i \in 1 .. p.total : p.items[i] # o
        /\ \A a \in Ids : a # id => held[a] # o
    BY DEF Lends
  <2> HIDE DEF q, rest, o
  <2>8. \A i, j \in 1 .. q.total : q.items[i] = q.items[j] => i = j
    BY <2>3, <2>5, <2>7
  <2>9. \A a \in Ids, i \in 1 .. q.total : rest[a] # none => q.items[i] # rest[a]
    BY <2>3, <2>5, <2>6, <2>7
  <2>10. \A a, b \in Ids : rest[a] # none /\ rest[a] = rest[b] => a = b
    BY <2>6, <2>7
  <2>11. Lends(q, S, rest, Ids, none)
    BY <2>3, <2>6, <2>8, <2>9, <2>10 DEF Lends
  <2> QED
    BY <1>2, <2>3, <2>11 DEF q, rest, o
<1> QED
  BY <1>1, <1>2

\* The same for objects that are known by their numbers.
LEMMA AcquiredNumber ==
  ASSUME NEW p, NEW n, NEW held, NEW Ids, NEW none, none \notin 1 .. n,
         Lends(p, 1 .. n, held, Ids, none), CanAcquire(p), NEW id \in Ids
  PROVE  LET q == Acquired(p)
         IN /\ Lends(q, 1 .. n, [held EXCEPT ![id] = Top(p)], Ids, none)
            /\ Top(p) \in 1 .. n
            /\ q.total = p.total - 1
            /\ q.items = p.items
<1> DEFINE S == 1 .. n
<1>1. none \notin S /\ Lends(p, S, held, Ids, none)
  OBVIOUS
<1> HIDE DEF S
<1>2. LET q == Acquired(p)
      IN /\ Lends(q, S, [held EXCEPT ![id] = Top(p)], Ids, none)
         /\ Top(p) \in S
         /\ q.total = p.total - 1
         /\ q.items = p.items
  BY <1>1, AcquiredLends
<1> QED
  BY <1>2 DEF S

\* release, of an object that is known by its number.
LEMMA ReleasedNumber ==
  ASSUME NEW p, NEW n, NEW held, NEW Ids, NEW none,
         Lends(p, 1 .. n, held, Ids, none), NEW id \in Ids, held[id] # none
  PROVE  LET q == Released(p, held[id])
         IN /\ Lends(q, 1 .. n, [held EXCEPT ![id] = none], Ids, none)
            /\ Len(q.items) = Len(p.items)
            /\ q.total = IF CanRelease(p) THEN p.total + 1 ELSE p.total
BY ReleasedLends

=============================================================================
