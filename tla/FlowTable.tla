----------------------------- MODULE FlowTable -----------------------------
(***************************************************************************)
(* The time index of FlowManager's flow table, as operators on its state.  *)
(*                                                                         *)
(* The table is a boost multi_index container with two indexes: a hashed   *)
(* one by flow identifier, unique, and an ordered one by the time of the   *)
(* last packet.  The ordered index is a balanced tree; order is the        *)
(* sequence in which it is traversed and time gives each flow's key.  The  *)
(* key is a field of the flow, so code that holds the flow can change it   *)
(* behind the container's back, and order need not be sorted.              *)
(***************************************************************************)
EXTENDS Integers, SequencesExt

\* Where inserting id may put it.  The search goes right of the flows whose
\* key is not greater and left of the others, and ends between two flows it
\* compared with; in an unsorted tree several places qualify, and which one is
\* taken depends on the tree's shape.
Inserted(order, time, id) ==
  {InsertAt(order, i, id) : i \in
     {j \in 1 .. Len(order) + 1 :
        /\ j > 1 => time[order[j - 1]] <= time[id]
        /\ j <= Len(order) => time[id] < time[order[j]]}}

\* Where a flow is, and the index after erase has taken it out.
Place(order, id) == CHOOSE i \in 1 .. Len(order) : order[i] = id
Without(order, id) == RemoveAt(order, Place(order, id))

\* modify: the flow stays in place if its new key fits between its neighbours,
\* and is taken out and inserted again if not.
Reindexed(order, time, id) ==
  LET p == Place(order, id)
      fits == /\ p > 1 => time[order[p - 1]] <= time[id]
              /\ p < Len(order) => time[id] <= time[order[p + 1]]
  IN IF fits THEN {order} ELSE Inserted(Without(order, id), time, id)

IsOld(time, id, timeout, now) == time[id] + timeout <= now

ExpiredSooner(order, time, timeout, now) ==
  LET fresh == {i \in 1 .. Len(order) : ~IsOld(time, order[i], timeout, now + 1)}
      last == IF fresh = {} THEN Len(order) ELSE Min(fresh) - 1
  IN SubSeq(order, 1, last)

\* The flows updateTimers(now) removes: it walks the index from its beginning
\* and stops at the first flow that is not old.
Expired(order, time, timeout, now) ==
  LET fresh == {i \in 1 .. Len(order) : ~IsOld(time, order[i], timeout, now)}
      last == IF fresh = {} THEN Len(order) ELSE Min(fresh) - 1
  IN SubSeq(order, 1, last)

Sorted(order, time) ==
  \A i, j \in 1 .. Len(order) : i < j => time[order[i]] <= time[order[j]]

=============================================================================
