------------------------------ MODULE LRUCache ------------------------------
(***************************************************************************)
(* The index of the host-offload backend: kv_cache/lru_cache.h.            *)
(*                                                                         *)
(* A cache is a record.  lru_list_ and evict_candidate_list_ are sequences *)
(* of keys, head first (head of lru = most recently used, head of cand =   *)
(* oldest candidate).  The order of pinned_list_ is never read, so it is   *)
(* the set of keys whose pin count is positive.  A key absent from map_    *)
(* has the value Absent.  evictable is the counter evictable_host_blocks_. *)
(***************************************************************************)
EXTENDS Naturals, Sequences, FiniteSets, SequencesExt

CONSTANTS Keys,        \* block hashes
          Values,      \* block ids the cache can hold
          Resident,    \* the values with a host block (IsHostResidentValue)
          Absent,      \* marks a key that is not in map_
          Capacity     \* capacity_

\* A finite key set, a marker that is no value, and any size_t capacity.
ASSUME LRUAssumption ==
  /\ IsFiniteSet(Keys)
  /\ Resident \subseteq Values
  /\ Absent \notin Values
  /\ Capacity \in Nat

Caches == [lru : Seq(Keys), cand : Seq(Keys), pins : [Keys -> Nat],
           val : [Keys -> Values \cup {Absent}], evictable : Nat]

\* A freshly constructed or cleared cache.
EmptyCache == [lru |-> <<>>, cand |-> <<>>, pins |-> [k \in Keys |-> 0],
               val |-> [k \in Keys |-> Absent], evictable |-> 0]

-----------------------------------------------------------------------------
(* Queries *)

Present(c, k) == c.val[k] # Absent
PinnedKeys(c) == {k \in Keys : c.pins[k] > 0}
IsCandidate(c, k) == k \in ToSet(c.cand)

\* Contains, Peek: a candidate is invisible.
Active(c, k) == Present(c, k) /\ ~IsCandidate(c, k)

active_size(c) == Len(c.lru) + Cardinality(PinnedKeys(c))

available_space(c) ==
  LET pinned == Cardinality(PinnedKeys(c))
  IN IF Capacity > pinned THEN Capacity - pinned ELSE 0

\* Candidates first (oldest first), then the active list from its LRU end.
GetEvictableKeys(c, count) ==
  LET order == c.cand \o Reverse(c.lru)
  IN SubSeq(order, 1, IF count < Len(order) THEN count ELSE Len(order))

-----------------------------------------------------------------------------
(* The counter hooks, applied when an unpinned node's value comes or goes. *)

One(v) == IF v \in Resident THEN 1 ELSE 0
OnUnpinnedNodeAdded(n, v) == n + One(v)
OnUnpinnedNodeRemoved(n, v) == IF n > 0 THEN n - One(v) ELSE n

\* The counter after an existing node's value is replaced.
Recount(c, k, v) ==
  IF c.pins[k] = 0
  THEN OnUnpinnedNodeAdded(OnUnpinnedNodeRemoved(c.evictable, c.val[k]), v)
  ELSE c.evictable

-----------------------------------------------------------------------------
(* Operations: each maps a cache to the cache it leaves. *)

\* list::erase / splice of the node of k out of a list, if it is there.
Unlink(s, k) ==
  IF k \in ToSet(s) THEN RemoveAt(s, CHOOSE i \in DOMAIN s : s[i] = k) ELSE s

\* Promote: an unpinned node moves to the MRU end, a candidate rejoins the
\* active list whatever the capacity; a pinned node only moves in its list.
Promote(c, k) ==
  IF c.pins[k] > 0 THEN c
  ELSE [c EXCEPT !.lru = <<k>> \o Unlink(c.lru, k), !.cand = Unlink(c.cand, k)]

PromoteBack(c, k) ==
  IF c.pins[k] > 0 THEN c
  ELSE [c EXCEPT !.lru = Append(Unlink(c.lru, k), k), !.cand = Unlink(c.cand, k)]

\* Demote the LRU entry to the candidate list; its value stays in the map
\* and in the counter.
Evict(c) ==
  IF c.lru = <<>> THEN c
  ELSE [c EXCEPT !.lru = Front(c.lru), !.cand = Append(c.cand, Last(c.lru))]

SetValue(c, k, v) ==
  [c EXCEPT !.val[k] = v, !.evictable = Recount(c, k, v)]

\* Whether Put of a new key finds room: below capacity, or something to evict.
PutAdmits(c) == active_size(c) < Capacity \/ c.lru # <<>>

MakeRoom(c) == IF active_size(c) >= Capacity THEN Evict(c) ELSE c

Put(c, k, v) ==
  IF Present(c, k) THEN Promote(SetValue(c, k, v), k)
  ELSE IF ~PutAdmits(c) THEN c
  ELSE LET d == MakeRoom(c)
       IN [d EXCEPT !.lru = <<k>> \o d.lru, !.val[k] = v,
                    !.evictable = OnUnpinnedNodeAdded(d.evictable, v)]

\* The key Put demotes to make room, as a set of at most one key.
PutEvicts(c, k) ==
  IF ~Present(c, k) /\ active_size(c) >= Capacity /\ c.lru # <<>>
  THEN {Last(c.lru)} ELSE {}

PutBack(c, k, v) ==
  IF Present(c, k) THEN PromoteBack(SetValue(c, k, v), k)
  ELSE LET d == MakeRoom(c)
       IN [d EXCEPT !.lru = Append(d.lru, k), !.val[k] = v,
                    !.evictable = OnUnpinnedNodeAdded(d.evictable, v)]

UpdateValue(c, k, v) == IF Active(c, k) THEN SetValue(c, k, v) ELSE c

Get(c, k) == IF Present(c, k) THEN Promote(c, k) ELSE c

\* GetAndPin and Pin: finds candidates too, and takes them off the list.
Pin(c, k) ==
  IF ~Present(c, k) THEN c
  ELSE IF c.pins[k] > 0 THEN [c EXCEPT !.pins[k] = @ + 1]
  ELSE [c EXCEPT !.pins[k] = 1,
                 !.lru = Unlink(c.lru, k), !.cand = Unlink(c.cand, k),
                 !.evictable = OnUnpinnedNodeRemoved(c.evictable, c.val[k])]

\* Clamped at zero; the last unpin returns the node to the MRU end.
Unpin(c, k) ==
  IF ~Present(c, k) \/ c.pins[k] = 0 THEN c
  ELSE IF c.pins[k] > 1 THEN [c EXCEPT !.pins[k] = @ - 1]
  ELSE [c EXCEPT !.pins[k] = 0, !.lru = <<k>> \o c.lru,
                 !.evictable = OnUnpinnedNodeAdded(c.evictable, c.val[k])]

\* Mutant of Erase: the counter keeps counting the erased entry.
Erase_NoRecount(c, k) ==
  IF ~Present(c, k) \/ c.pins[k] > 0 THEN c
  ELSE [c EXCEPT !.val[k] = Absent,
                 !.lru = Unlink(c.lru, k), !.cand = Unlink(c.cand, k)]

\* Mutant of Erase: a pinned entry is erased too.
Erase_IgnoresPins(c, k) ==
  IF ~Present(c, k) THEN c
  ELSE [c EXCEPT !.val[k] = Absent, !.pins[k] = 0,
                 !.lru = Unlink(c.lru, k), !.cand = Unlink(c.cand, k)]

Erase(c, k) ==
  IF ~Present(c, k) \/ c.pins[k] > 0 THEN c
  ELSE [c EXCEPT !.val[k] = Absent,
                 !.lru = Unlink(c.lru, k), !.cand = Unlink(c.cand, k),
                 !.evictable = OnUnpinnedNodeRemoved(c.evictable, c.val[k])]

-----------------------------------------------------------------------------
(* What the operations keep. *)

\* An unpinned entry of the map is in exactly one of the two lists, once; a
\* pinned or absent key is in neither; only entries of the map have pins.
Partitioned(c) ==
  /\ IsInjective(c.lru)
  /\ IsInjective(c.cand)
  /\ ToSet(c.lru) \cap ToSet(c.cand) = {}
  /\ ToSet(c.lru) \cup ToSet(c.cand) = {k \in Keys : c.pins[k] = 0 /\ Present(c, k)}
  /\ \A k \in Keys : c.pins[k] > 0 => Present(c, k)

\* The unpinned entries, candidates included, that hold a host block.
EvictableSet(c) == {k \in Keys : c.pins[k] = 0 /\ c.val[k] \in Resident}
=============================================================================
