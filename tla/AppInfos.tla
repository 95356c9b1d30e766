------------------------------ MODULE AppInfos ------------------------------
(***************************************************************************)
(* What the application protocols have in common: a pool of infos, one for *)
(* each flow they inspect, and the strings the infos share.  A protocol's  *)
(* own module EXTENDS this one and adds what it does with a packet.        *)
(***************************************************************************)
EXTENDS CacheOps, FiniteSets, SequencesExt

CONSTANTS
  Flows,        \* flows with a packet for this protocol
  InfoSize,     \* objects in the info cache
  Kinds,        \* the kinds of strings the protocol keeps
  Size,         \* Size[k]: objects in the string cache of kind k
  Names,        \* strings on the wire
  Banned,       \* names that the ban manager matches
  MaxHits       \* bound: hits of a string

AppInfosAssumption ==
  /\ InfoSize \in Nat
  /\ Size \in [Kinds -> Nat]
  /\ 0 \notin Names
  /\ Banned \subseteq Names
  /\ MaxHits \in Nat

-----------------------------------------------------------------------------
(***************************************************************************)
(* The strings that flows share.  A protocol keeps for each kind of string *)
(* (host, uri, user name...) a pool of StringCache objects and a map from  *)
(* the string to its object and the number of its hits.  An info has its   *)
(* strings by weak pointers; the map and the pool keep the objects alive.  *)
(*                                                                         *)
(* The key of an entry is a string_ref: it points into the object's own    *)
(* buffer, so the key changes, or dangles, when the object gets another    *)
(* name while the entry is in the map.  key records the name the entry was *)
(* made for, and an entry whose object has another name by now is stale.   *)
(***************************************************************************)

None == 0

Strings(Objects) == [
  pool : Pools(Objects \cup {None}),              \* None: another cache's object
  name : [Objects -> Names \cup {None}],          \* StringCache::value_
  map  : SUBSET [obj : Objects, key : Names, hits : Int]]

NewStrings(n) == [pool |-> Created(EmptyPool, [i \in 1 .. n |-> i]),
                  name |-> [i \in 1 .. n |-> None],
                  map  |-> {}]

Mapped(s) == {e.obj : e \in s.map}

\* A weak pointer to o can be locked.
StringAlive(s, o) == o \in InVector(s.pool) \cup Mapped(s)

IsStale(s, e) == s.name[e.obj] # e.key

\* What find(n) may return.  A search that reads a stale key may take it for n,
\* and may be led past the entry of n.
Finds(s, n) ==
  LET stale == {e \in s.map : IsStale(s, e)}
      match == {e \in s.map : e.key = n}
  IN [hits |-> match \cup stale, misses |-> match = {} \/ stale # {}]

Hit(s, e, by) == [s EXCEPT !.map = (@ \ {e}) \cup {[e EXCEPT !.hits = @ + by]}]

\* Mutant: a new string takes an object without acquiring it.
NewStringNotAcquired(s, n) ==
  LET o == Top(s.pool)
  IN {[s EXCEPT !.name[o] = n, !.map = @ \cup {[obj |-> o, key |-> n, hits |-> 1]}]}

\* A string for n that is not in the map: an object of the pool gets the name
\* and an entry.  insert does nothing when it takes a stale key for n.
NewString(s, n) ==
  LET o == Top(s.pool)
      named == [s EXCEPT !.pool = Acquired(@), !.name[o] = n]
      entered == [named EXCEPT !.map = @ \cup {[obj |-> o, key |-> n, hits |-> 1]}]
  IN IF \E e \in s.map : IsStale(named, e) THEN {named, entered} ELSE {entered}

\* attach_host and the like: the strings after n is asked for, each with the
\* object to attach, or None.  count says whether a hit is counted.
Attached(s, n, count) ==
  LET found == Finds(s, n)
  IN {[strs |-> Hit(s, e, IF count THEN 1 ELSE 0), obj |-> e.obj] : e \in found.hits}
     \cup (IF ~found.misses THEN {}
           ELSE IF CanAcquire(s.pool)
           THEN {[strs |-> t, obj |-> Top(s.pool)] : t \in NewString(s, n)}
           ELSE {[strs |-> s, obj |-> None]})

\* One user of object o less in the map: its entry goes with the last.
Unhit(s, o) ==
  LET found == Finds(s, s.name[o])
  IN {IF e.hits <= 1 THEN [s EXCEPT !.map = @ \ {e}] ELSE Hit(s, e, -1) : e \in found.hits}
     \cup (IF found.misses THEN {s} ELSE {})

\* The object itself goes back to its pool, whoever else has it.
StringReleased(s, o) == [s EXCEPT !.pool = Released(@, o)]

-----------------------------------------------------------------------------
Null == 0

VARIABLES
  infos,        \* the info cache, whose slots may hold the null pointer
  info,         \* what each info object says
  flow,         \* the weak pointer of each flow to its info, or None
  strs,         \* the strings of each kind
  crashed       \* the program dereferenced a null pointer

vars == <<infos, info, flow, strs, crashed>>

\* str: the weak pointers to strings.  said: history, the name on the wire
\* that each was attached for.
Info == [str : [Kinds -> Nat], said : [Kinds -> Names \cup {None}],
         banned : BOOLEAN, release : BOOLEAN]

ResetInfo == [str |-> [k \in Kinds |-> None], said |-> [k \in Kinds |-> None],
              banned |-> FALSE, release |-> FALSE]

TypeOK ==
  /\ infos \in Pools(0 .. InfoSize)
  /\ infos.total <= Len(infos.items)
  /\ info \in [1 .. InfoSize -> Info]
  /\ flow \in [Flows -> 0 .. InfoSize]
  /\ \A k \in Kinds : strs[k] \in Strings(1 .. Size[k])
  /\ crashed \in BOOLEAN

\* createHTTPInfos and the like, before the first packet.
Init ==
  /\ infos = Created(EmptyPool, [i \in 1 .. InfoSize |-> i])
  /\ info = [i \in 1 .. InfoSize |-> ResetInfo]
  /\ flow = [f \in Flows |-> None]
  /\ strs = [k \in Kinds |-> NewStrings(Size[k])]
  /\ crashed = FALSE

HasInfo(f) == flow[f] # None /\ flow[f] \in InVector(infos)

\* The beginning of processFlow: the info of the flow, or a new one, which has
\* been reset.  No packet gets further in a flow that gets none.
CanGetInfo(f) == HasInfo(f) \/ (CanAcquire(infos) /\ Top(infos) # Null)
InfoOf(f) == IF HasInfo(f) THEN flow[f] ELSE Top(infos)
InfoState(f) == IF HasInfo(f) THEN info[flow[f]] ELSE ResetInfo

GetInfo(f) ==
  /\ CanGetInfo(f)
  /\ infos' = IF HasInfo(f) THEN infos ELSE Acquired(infos)
  /\ flow' = [flow EXCEPT ![f] = InfoOf(f)]

\* acquire resets the object it hands out, and finds the null pointer.
Crash(f) ==
  /\ ~crashed
  /\ ~HasInfo(f) /\ CanAcquire(infos) /\ Top(infos) = Null
  /\ crashed' = TRUE
  /\ UNCHANGED <<infos, info, flow, strs>>

-----------------------------------------------------------------------------
(***************************************************************************)
(* What processFlow does to an info and the strings, as operators from a   *)
(* state x = [i |-> the info, s |-> the strings] to the states after it.   *)
(***************************************************************************)

HasString(x, k) == x.i.str[k] # None /\ StringAlive(x.s[k], x.i.str[k])

\* The pointers of an info with the one of kind k set to v.
Put(pointers, k, v) == [j \in Kinds |-> IF j = k THEN v ELSE pointers[j]]

\* The string n is attached, in place of another if there is one.
AttachNew(x, k, n, count) ==
  {[i |-> IF r.obj = None THEN x.i
          ELSE [x.i EXCEPT !.str = Put(@, k, r.obj), !.said = Put(@, k, n)],
    s |-> [x.s EXCEPT ![k] = r.strs]] : r \in Attached(x.s[k], n, count)}

AttachReplacing(x, k, n) == AttachNew(x, k, n, TRUE)

\* The string n is attached to an info that has none of its kind.
Attach(x, k, n) == IF HasString(x, k) THEN {x} ELSE AttachNew(x, k, n, TRUE)

\* The packet of flow f changes its info and the strings to one of states,
\* within the bound.
Processed(f, states) ==
  /\ \E x \in states :
       /\ info' = [info EXCEPT ![InfoOf(f)] = x.i]
       /\ strs' = x.s
       /\ \A k \in Kinds : \A e \in x.s[k].map : e.hits <= MaxHits
  /\ UNCHANGED crashed

Before(f) == [i |-> InfoState(f), s |-> strs]

-----------------------------------------------------------------------------

\* The object of another cache.  Nothing is acquired any more from the cache it
\* is given to: the null pointer that stands for its info is found first.
Foreign == 0

\* All strings of an info go back, those of kind k to the cache of cacheOf[k]
\* and its own cache's before another's; the pointers are reset.
ReleaseStringsInto(x, cacheOf) ==
  LET own(k) == IF HasString(x, k) /\ cacheOf[k] = k
                THEN StringReleased(x.s[k], x.i.str[k]) ELSE x.s[k]
      given(k) == \E j \in Kinds : j # k /\ cacheOf[j] = k /\ HasString(x, j)
  IN [i |-> [x.i EXCEPT !.str = [k \in Kinds |-> None], !.said = [k \in Kinds |-> None]],
      s |-> [k \in Kinds |-> IF given(k) THEN StringReleased(own(k), Foreign) ELSE own(k)]]

ItsOwn == [k \in Kinds |-> k]

ReleaseStrings(x) == ReleaseStringsInto(x, ItsOwn)

\* Mutant: the strings of the info go back too, although others have them.
EndFlowStrings(f) ==
  /\ ~crashed
  /\ HasInfo(f)
  /\ infos' = Released(infos, flow[f])
  /\ flow' = [flow EXCEPT ![f] = None]
  /\ strs' = ReleaseStrings([i |-> info[flow[f]], s |-> strs]).s
  /\ UNCHANGED <<info, crashed>>

\* CacheManager::releaseFlow: the info goes back as it is, its strings stay
\* where they are.
EndFlow(f) ==
  /\ ~crashed
  /\ HasInfo(f)
  /\ infos' = Released(infos, flow[f])
  /\ flow' = [flow EXCEPT ![f] = None]
  /\ UNCHANGED <<info, strs, crashed>>

\* What releaseCache does for a flow with info o, which may be gone by now.
CacheOfReleased(m, o, cacheOf) ==
  IF o \notin InVector(m.infos) THEN m
  ELSE LET x == ReleaseStringsInto([i |-> m.info[o], s |-> m.s], cacheOf)
       IN [info |-> [m.info EXCEPT ![o] = x.i], s |-> x.s, infos |-> Released(m.infos, Null)]

\* releaseCache, at any time from the user's shell or script: for each flow of
\* the table, its strings go back to their pools; the pointer to its info is
\* reset, and what is given back to the info cache is that pointer.  It may take
\* the place of the info of a flow to come, which then has none.  Then the maps
\* are cleared.
ReleaseCacheInto(cacheOf) ==
  /\ ~crashed
  /\ \E walk \in SetToSeqs({f \in Flows : HasInfo(f)}) :
       LET m[i \in 0 .. Len(walk)] ==
             IF i = 0 THEN [info |-> info, s |-> strs, infos |-> infos]
             ELSE CacheOfReleased(m[i - 1], flow[walk[i]], cacheOf)
       IN /\ info' = m[Len(walk)].info
          /\ strs' = [k \in Kinds |-> [m[Len(walk)].s[k] EXCEPT !.map = {}]]
          /\ infos' = m[Len(walk)].infos
  /\ flow' = [f \in Flows |-> None]
  /\ UNCHANGED crashed

-----------------------------------------------------------------------------
(***************************************************************************)
(* Safety                                                                  *)
(***************************************************************************)

\* The infos in use and the strings they have.
Live == {flow[f] : f \in {g \in Flows : HasInfo(g)}}
StringOf(i, k) == IF info[i].str[k] # None /\ StringAlive(strs[k], info[i].str[k])
                  THEN info[i].str[k] ELSE None

\* A string in the map belongs to one entry and is not free to be handed out:
\* the same pointer is in the map, in the pool and in many infos.
MapSound ==
  \A k \in Kinds :
    /\ \A e \in strs[k].map : e.obj \notin FreeObjects(strs[k].pool)
    /\ \A d, e \in strs[k].map : d.obj = e.obj \/ d.key = e.key => d = e

\* python_wrapper.cc:586 and the like, "Gets the HTTP Host of the flow":
\* the name that an info shows is the one its own flow said, however many
\* flows share and release it.
NamesRight ==
  \A i \in Live, k \in Kinds :
    StringOf(i, k) # None => strs[k].name[StringOf(i, k)] = info[i].said[k]

\* The hits of a string are at least the infos that have it now.
HitsCover(k) ==
  \A e \in strs[k].map : Cardinality({i \in Live : StringOf(i, k) = e.obj}) <= e.hits

\* A flow keeps the string it was first given: what other flows attach, and
\* what ends, does not take it away.
KeepsFirst(kinds) ==
  \A f \in Flows, k \in kinds :
    HasInfo(f) /\ flow'[f] = flow[f] /\ StringOf(flow[f], k) # None =>
      /\ info'[flow[f]].str[k] = StringOf(flow[f], k)
      /\ StringAlive(strs'[k], info'[flow[f]].str[k])

\* No sequence of packets and commands leads to a null pointer.
NeverCrashed == ~crashed

=============================================================================
