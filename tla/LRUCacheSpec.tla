---------------------------- MODULE LRUCacheSpec ----------------------------
(***************************************************************************)
(* The cache of LRUCache as a state machine, one step per public mutator,  *)
(* in any order: what every caller of kv_cache/lru_cache.h can rely on.    *)
(***************************************************************************)
EXTENDS LRUCache

VARIABLE cache

CONSTANT MaxPins   \* bound on a key's pin count

ASSUME MaxPinsAssumption == MaxPins \in Nat

CacheInit == cache = EmptyCache

DoPut(k, v) == cache' = Put(cache, k, v)
DoPutBack(k, v) == cache' = PutBack(cache, k, v)
DoUpdateValue(k, v) == cache' = UpdateValue(cache, k, v)
DoGet(k) == cache' = Get(cache, k)
DoPin(k) == cache.pins[k] < MaxPins /\ cache' = Pin(cache, k)
DoUnpin(k) == cache' = Unpin(cache, k)
DoErase(k) == cache' = Erase(cache, k)
DoEvict == cache' = Evict(cache)
ClearCache == cache' = EmptyCache

CacheNext ==
  \/ \E k \in Keys, v \in Values : DoPut(k, v)
  \/ \E k \in Keys, v \in Values : DoPutBack(k, v)
  \/ \E k \in Keys, v \in Values : DoUpdateValue(k, v)
  \/ \E k \in Keys : DoGet(k)
  \/ \E k \in Keys : DoPin(k)
  \/ \E k \in Keys : DoUnpin(k)
  \/ \E k \in Keys : DoErase(k)
  \/ DoEvict
  \/ ClearCache

CacheSpec == CacheInit /\ [][CacheNext]_cache

-----------------------------------------------------------------------------
(* Properties *)

\* The cache is a record of the declared shape.
CacheTypeOK == cache \in Caches

\* The location tag of a node agrees with the list that holds it: an unpinned
\* entry of the map is in exactly one of lru_list_ and evict_candidate_list_,
\* once; a pinned or absent key is in neither; only map entries have pins.
ListsPartition == Partitioned(cache)

\* NumEvictableHostBlocks counts exactly the unpinned entries, candidates
\* included, that hold a host block; so the DCHECK against underflow in
\* OnUnpinnedNodeRemoved never fires.
EvictableExact == cache.evictable = Cardinality(EvictableSet(cache))

\* Pinned items are protected: no operation but ClearCache removes a pinned entry,
\* demotes it, or loses its pins, and one call drops at most one pin.
PinProtects ==
  [][\A k \in Keys :
       cache.pins[k] > 0 /\ cache' # EmptyCache =>
         /\ cache'.pins[k] >= cache.pins[k] - 1
         /\ cache'.val[k] # Absent
         /\ k \notin ToSet(cache'.cand)]_cache
=============================================================================
