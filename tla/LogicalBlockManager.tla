------------------------ MODULE LogicalBlockManager ------------------------
(***************************************************************************)
(* The pool of host block ids behind RaidenController::AllocateBlockIds:   *)
(* kv_cache/logical_block_manager.cc.  blocks_ is the two sets allocated   *)
(* and locked and the function last (last_access_counter); a call that     *)
(* returns an error changes nothing and is not a step.  owner is a history *)
(* variable: the entity a block was last handed to, None once deallocated. *)
(***************************************************************************)
EXTENDS Integers, FiniteSets, Sequences, SequencesExt

CONSTANTS TotalBlocks,   \* total_blocks_
          Entities,      \* the callers that blocks are handed to
          None,
          MaxAccess,     \* bound on access_counter_
          MaxIds         \* bound on the length of a call's block_ids

ASSUME PoolAssumption ==
  /\ TotalBlocks \in Nat
  /\ MaxAccess \in Nat
  /\ MaxIds \in Nat
  /\ None \notin Entities

VARIABLES allocated, locked, last, access_counter, num_free, owner

poolVars == <<allocated, locked, last, access_counter, num_free, owner>>

PoolBlocks == 0 .. TotalBlocks - 1

\* The argument lists of the calls that take block ids; ids may repeat.
IdLists == UNION {[1 .. n -> PoolBlocks] : n \in 0 .. MaxIds}

PoolInit ==
  /\ allocated = {}
  /\ locked = {}
  /\ last = [b \in PoolBlocks |-> 0]
  /\ access_counter = 0
  /\ num_free = TotalBlocks
  /\ owner = [b \in PoolBlocks |-> None]

-----------------------------------------------------------------------------
free == PoolBlocks \ allocated

\* Mutant of evictable: overlooks the lock.
evictable_IgnoresLock == allocated

\* The blocks Allocate may take away from whoever holds them.
evictable == allocated \ locked

\* F is a prefix of S scanned by id, lowest first.
Lowest(F, S) == \A x \in F, y \in S \ F : x < y

\* E is a prefix of S sorted by last access, ties by id.
LeastRecent(E, S) ==
  \A x \in E, y \in S \ E : last[x] < last[y] \/ (last[x] = last[y] /\ x < y)

Touch(S) ==
  /\ access_counter < MaxAccess
  /\ access_counter' = access_counter + 1
  /\ last' = [b \in PoolBlocks |-> IF b \in S THEN access_counter + 1 ELSE last[b]]

\* Marks the blocks S allocated for e.
Assign(S, e, lock) ==
  /\ allocated' = allocated \cup S
  /\ locked' = IF lock THEN locked \cup S ELSE locked \ S
  /\ owner' = [b \in PoolBlocks |-> IF b \in S THEN e ELSE owner[b]]
  /\ Touch(S)

\* Free blocks first; only then the least recently used unlocked ones.
Allocate(n, lock, e) ==
  /\ n \in 1 .. TotalBlocks
  /\ \E F \in SUBSET free, E \in SUBSET evictable :
       /\ Lowest(F, free)
       /\ LeastRecent(E, evictable)
       /\ Cardinality(F) + Cardinality(E) = n
       /\ E # {} => F = free
       /\ Assign(F \cup E, e, lock)
       /\ num_free' = num_free - Cardinality(F)

\* Mutant of AllocateTarget: overlooks that the id may be in use.
AllocateTarget_Unvalidated(ids, e) ==
  /\ IsInjective(ids)
  /\ Assign(ToSet(ids), e, TRUE)
  /\ num_free' = num_free - Len(ids)

\* Exactly these blocks, all free and distinct, or nothing.
AllocateTarget(ids, e) ==
  /\ ToSet(ids) \cap allocated = {}
  /\ IsInjective(ids)
  /\ Assign(ToSet(ids), e, TRUE)
  /\ num_free' = num_free - Len(ids)

Unlock(ids) ==
  /\ ToSet(ids) \subseteq allocated
  /\ locked' = locked \ ToSet(ids)
  /\ UNCHANGED <<allocated, last, access_counter, num_free, owner>>

\* A repeated id is returned once.
Deallocate(ids) ==
  /\ ToSet(ids) \subseteq allocated
  /\ allocated' = allocated \ ToSet(ids)
  /\ locked' = locked \ ToSet(ids)
  /\ num_free' = num_free + Cardinality(ToSet(ids))
  /\ owner' = [b \in PoolBlocks |-> IF b \in ToSet(ids) THEN None ELSE owner[b]]
  /\ UNCHANGED <<last, access_counter>>

AccessBlock(b) ==
  /\ b \in allocated
  /\ Touch({b})
  /\ UNCHANGED <<allocated, locked, num_free, owner>>

PoolNext ==
  \/ \E n \in 1 .. TotalBlocks, lock \in BOOLEAN, e \in Entities :
       Allocate(n, lock, e)
  \/ \E ids \in IdLists, e \in Entities : AllocateTarget(ids, e)
  \/ \E ids \in IdLists : Unlock(ids)
  \/ \E ids \in IdLists : Deallocate(ids)
  \/ \E b \in PoolBlocks : AccessBlock(b)

PoolSpec == PoolInit /\ [][PoolNext]_poolVars

-----------------------------------------------------------------------------
(* Properties *)

\* The cached free count never leaves 0 .. total_blocks_, and only blocks of
\* the pool are allocated, locked, stamped or owned.
PoolTypeOK ==
  /\ allocated \subseteq PoolBlocks
  /\ locked \subseteq PoolBlocks
  /\ last \in [PoolBlocks -> Nat]
  /\ access_counter \in Nat
  /\ num_free \in 0 .. TotalBlocks
  /\ owner \in [PoolBlocks -> Entities \cup {None}]

\* num_free_blocks(), which KVCacheStore::AllocateBlockIds and the sweep read
\* instead of scanning, counts exactly the unallocated blocks.
NumFreeExact == num_free = Cardinality(free)

\* A lock never outlives the allocation it protects, and a block has an owner
\* exactly while it is allocated.
LockedAllocated ==
  /\ locked \subseteq allocated
  /\ \A b \in PoolBlocks : b \in allocated <=> owner[b] # None

\* A locked block passes to another entity only by being deallocated first:
\* neither Allocate's LRU eviction nor AllocateTarget takes it away.
LockedKeepsOwner ==
  [][\A b \in locked : owner'[b] \in {owner[b], None}]_poolVars
=============================================================================
