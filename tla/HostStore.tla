----------------------------- MODULE HostStore -----------------------------
(***************************************************************************)
(* One store of kv_cache/kv_cache_store.cc over its host backend           *)
(* (host_offload_backend.cc): the index, the pool of host blocks, the      *)
(* metadata table that survives a crash, the pins, and the operations in   *)
(* flight, each cut where the code drops the locks.                        *)
(*                                                                         *)
(* Device blocks are not told apart, so HOST and HOST_AND_HBM are both "a  *)
(* host block" and HBM-only is the value HBM.  mem is the content of host  *)
(* memory: the hash whose data a block holds, or Garbage while and after a *)
(* write into it did not complete.  The metadata table is the sequence of  *)
(* its valid entries in seq order.  app[h] counts the pins the application *)
(* holds by the contract of kv_cache_store.h (a history variable).         *)
(***************************************************************************)
EXTENDS Naturals, Sequences, FiniteSets, SequencesExt

CONSTANTS Hashes, HBM, Absent, Garbage,
          NumBlocks,         \* host blocks, and capacity of the index
          Kinds,             \* kinds of operation this instance exercises
          MaxBatch,          \* bound: hashes per call
          MaxOps,            \* bound: operations in flight
          MaxAppPins,        \* bound: application pins per hash
          MaxCrashes,        \* bound: engine crashes
          MaxWriteThrough,   \* max_in_flight_blocks
          HasRegistry,       \* a global registry is configured
          Secondary,         \* a second storage tier is configured
          EarlyPeers         \* peers may reach the store before recovery

VARIABLES cache, manifest,   \* index and metadata table
          allocated, mem,    \* host block pool and memory
          saving, loading,   \* pending in save_tracker_ or sweep_tracker_; in load_tracker_
          ops, wt,           \* operations in flight; wt_state_->in_flight_blocks
          app, phase, crashes

index == <<cache, manifest>>
pool == <<allocated, mem>>
trackers == <<saving, loading>>
life == <<phase, crashes>>
vars == <<cache, manifest, allocated, mem, saving, loading, ops, wt, app, phase, crashes>>

HostBlocks == 0 .. NumBlocks - 1

C == INSTANCE LRUCache WITH Keys <- Hashes, Values <- HostBlocks \cup {HBM},
                            Resident <- HostBlocks, Capacity <- NumBlocks

\* The hash lists of a call: no hash twice.
Batches == {hs \in UNION {[1 .. n -> Hashes] : n \in 1 .. MaxBatch} : IsInjective(hs)}

Prefix(s, n) == SubSeq(s, 1, n)

-----------------------------------------------------------------------------
(* The backend: operators on the pair x of index and metadata table.       *)

Index == [c |-> cache, m |-> manifest]

SetIndex(x) == cache' = x.c /\ manifest' = x.m

ClearMetadataEntry(m, v) == SelectSeq(m, LAMBDA e : e.block # v)

SetMetadataEntry(m, h, v) ==
  IF v \in HostBlocks
  THEN Append(ClearMetadataEntry(m, v), [block |-> v, hash |-> h])
  ELSE m

\* Put of a hash that is not active: the table entry of a candidate it
\* replaces goes first.
PutNew(x, h, v) ==
  [c |-> C!Put(x.c, h, v),
   m |-> SetMetadataEntry(ClearMetadataEntry(x.m, x.c.val[h]), h, v)]

InsertBestEffortUpdate(x, hs, vs) ==
  FoldLeftDomain(
    LAMBDA y, i :
      IF C!Active(y.c, hs[i])
      THEN [c |-> C!UpdateValue(y.c, hs[i], vs[i]),
            m |-> SetMetadataEntry(y.m, hs[i], vs[i])]
      ELSE PutNew(y, hs[i], vs[i]),
    x, hs)

PinAll(x, hs) == [x EXCEPT !.c = FoldLeft(C!Pin, x.c, hs)]
UnpinAll(x, hs) == [x EXCEPT !.c = FoldLeft(C!Unpin, x.c, hs)]

\* Last hash first, so that the first ends nearest the MRU end.
Release(c, hs) == FoldLeft(C!Unpin, c, Reverse(hs))

EraseAll(x, hs) ==
  FoldLeft(LAMBDA y, h : [c |-> C!Erase(y.c, h),
                          m |-> ClearMetadataEntry(y.m, y.c.val[h])], x, hs)

\* Device entries for hs, all pinned, or a refusal.  The device id with which
\* an existing HBM entry is overwritten is abstracted away.
InsertAndPin(x, hs) ==
  LET existing == SelectSeq(hs, LAMBDA h : C!Active(x.c, h))
      new      == SelectSeq(hs, LAMBDA h : ~C!Active(x.c, h))
      pinned   == PinAll(x, existing)
      put      == FoldLeft(LAMBDA y, h : PutNew(y, h, HBM), pinned, Reverse(new))
  IN IF C!available_space(pinned.c) < Len(new)
     THEN [ok |-> FALSE, x |-> UnpinAll(pinned, existing)]
     ELSE IF \A h \in ToSet(new) : C!Present(put.c, h)
     THEN [ok |-> TRUE, x |-> PinAll(put, new)]
     ELSE [ok |-> FALSE, x |-> EraseAll(UnpinAll(put, existing), new)]

\* All of the batch as new entries, or none of it.
InsertAdmitStrict(x, hs, vs) ==
  LET put == FoldLeftDomain(LAMBDA y, i : PutNew(y, hs[i], vs[i]), x, hs)
  IN IF /\ \A h \in ToSet(hs) : ~C!Present(x.c, h)
        /\ Len(hs) <= C!available_space(x.c)
     THEN IF \A h \in ToSet(hs) : C!Active(put.c, h)
          THEN [ok |-> TRUE, x |-> put]
          ELSE [ok |-> FALSE, x |-> EraseAll(put, hs)]
     ELSE [ok |-> FALSE, x |-> x]

\* Mutant of Delete: does not look at the pin count.
Delete_IgnoresPins(x, hs) ==
  FoldLeft(LAMBDA y, h :
             IF y.c.val[h] \notin HostBlocks THEN y
             ELSE [c |-> C!Erase(y.c, h), m |-> ClearMetadataEntry(y.m, y.c.val[h]),
                   ids |-> Append(y.ids, y.c.val[h])],
           [c |-> x.c, m |-> x.m, ids |-> <<>>], hs)

\* Mutant of Delete: forgets the metadata table.
Delete_KeepsTable(x, hs) ==
  FoldLeft(LAMBDA y, h :
             IF y.c.pins[h] > 0 \/ y.c.val[h] \notin HostBlocks THEN y
             ELSE [c |-> C!Erase(y.c, h), m |-> y.m, ids |-> Append(y.ids, y.c.val[h])],
           [c |-> x.c, m |-> x.m, ids |-> <<>>], hs)

\* Delete with EvictHostResident: unpinned host-resident entries only; ids
\* collects their blocks.
Delete(x, hs) ==
  FoldLeft(LAMBDA y, h :
             IF y.c.pins[h] > 0 \/ y.c.val[h] \notin HostBlocks THEN y
             ELSE [c |-> C!Erase(y.c, h), m |-> ClearMetadataEntry(y.m, y.c.val[h]),
                   ids |-> Append(y.ids, y.c.val[h])],
           [c |-> x.c, m |-> x.m, ids |-> <<>>], hs)

-----------------------------------------------------------------------------
(* Operations in flight: kind and pc, the hashes of the call, the hashes   *)
(* selected so far (victims, local hits), and the host blocks held.        *)

Op(kind, pc, hs, sel, ids) ==
  [kind |-> kind, pc |-> pc, hs |-> hs, sel |-> sel, ids |-> ids]

Start(o) == Cardinality(ops) < MaxOps /\ o \notin ops /\ ops' = ops \cup {o}
Become(o, p) == ops' = (ops \ {o}) \cup {p}
End(o) == ops' = ops \ {o}
At(o, pc) == o \in ops /\ o.pc = pc
Serves(kind) == kind \in Kinds /\ phase = "serving"

FreeCount == NumBlocks - Cardinality(allocated)

\* The application's pins: one more, or one less, on every hash of hs.
Grant(hs) == app' = [h \in Hashes |-> app[h] + (IF h \in ToSet(hs) THEN 1 ELSE 0)]
Spend(hs) == app' = [h \in Hashes |-> app[h] - (IF h \in ToSet(hs) THEN 1 ELSE 0)]
Holds(hs) == \A h \in ToSet(hs) : app[h] > 0
MayPin(hs) == \A h \in ToSet(hs) : app[h] < MaxAppPins

\* Memory once hs has landed in ids.
Landed(hs, ids) ==
  [b \in HostBlocks |->
     IF b \in ToSet(ids) THEN hs[CHOOSE i \in DOMAIN ids : ids[i] = b] ELSE mem[b]]
-----------------------------------------------------------------------------
(* Insert, Lookup, Release. *)

Insert(hs) ==
  LET r == InsertAndPin(Index, hs)
  IN /\ Serves("insert") /\ MayPin(hs) /\ r.ok
     /\ SetIndex(r.x) /\ Grant(hs)
     /\ UNCHANGED <<pool, trackers, ops, wt, life>>

InsertRefused(hs) ==
  LET r == InsertAndPin(Index, hs)
  IN /\ Serves("insert") /\ MayPin(hs) /\ ~r.ok
     /\ SetIndex(r.x)
     /\ UNCHANGED <<pool, trackers, ops, wt, app, life>>

\* The length of the longest prefix of hs whose hashes satisfy Hit.
PrefixLen(hs, Hit(_)) ==
  CHOOSE n \in 0 .. Len(hs) : /\ \A i \in 1 .. n : Hit(hs[i])
                              /\ n < Len(hs) => ~Hit(hs[n + 1])

\* Lookup with pin_found and without the registry: the active prefix, cut to
\* the capacity and the rest released.
LookupLocal(hs) ==
  LET hits == Prefix(hs, PrefixLen(hs, LAMBDA h : C!Active(cache, h)))
      kept == Prefix(hits, IF Len(hits) > NumBlocks THEN NumBlocks ELSE Len(hits))
  IN /\ Serves("lookup") /\ MayPin(hs) /\ C!Active(cache, Head(hs))
     /\ cache' = Release(PinAll(Index, hits).c, SubSeq(hits, Len(kept) + 1, Len(hits)))
     /\ Grant(kept)
     /\ UNCHANGED <<manifest, pool, trackers, ops, wt, life>>

\* Global lookup, phase 1: pin the local hits, then ask the registry unlocked.
LookupBegin(hs, interleaved) ==
  LET first == Prefix(hs, PrefixLen(hs, LAMBDA h : C!Active(cache, h)))
      hits  == IF interleaved THEN SelectSeq(hs, LAMBDA h : C!Active(cache, h)) ELSE first
  IN /\ Serves("global") /\ MayPin(hs)
     /\ Start(Op("lookup", "query", hs, hits, <<>>)) /\ hits # <<>>
     /\ SetIndex(PinAll(Index, hits))
     /\ UNCHANGED <<pool, trackers, wt, app, life>>

\* Mutant of LookupEnd: the hits past the prefix keep their pins.
LookupEnd_KeepsPins(o, r) ==
  LET hit(h)    == h \in ToSet(o.sel)
      misses(n) == Len(SelectSeq(Prefix(o.hs, n), LAMBDA h : ~hit(h)))
      n == CHOOSE k \in 0 .. Len(o.hs) : /\ misses(k) <= r
                                         /\ k < Len(o.hs) => misses(k + 1) > r
      kept == SelectSeq(Prefix(o.hs, n), hit)
  IN /\ At(o, "query") /\ r <= Len(o.hs) - Len(o.sel)
     /\ SetIndex(Index) /\ Grant(kept)
     /\ End(o)
     /\ UNCHANGED <<pool, trackers, wt, life>>

\* Phases 3 and 4: the registry resolved the first r misses; keep the prefix
\* with at most r misses and unpin the hits past it.
LookupEnd(o, r) ==
  LET hit(h)    == h \in ToSet(o.sel)
      misses(n) == Len(SelectSeq(Prefix(o.hs, n), LAMBDA h : ~hit(h)))
      n == CHOOSE k \in 0 .. Len(o.hs) : /\ misses(k) <= r
                                         /\ k < Len(o.hs) => misses(k + 1) > r
      tail == SelectSeq(SubSeq(o.hs, n + 1, Len(o.hs)), hit)
      kept == SelectSeq(Prefix(o.hs, n), hit)
  IN /\ At(o, "query") /\ r <= Len(o.hs) - Len(o.sel)
     /\ SetIndex(UnpinAll(Index, tail)) /\ Grant(kept)
     /\ End(o)
     /\ UNCHANGED <<pool, trackers, wt, life>>

\* The application drops pins it holds.
ReleaseCall(hs) ==
  /\ phase = "serving" /\ Holds(hs)
  /\ cache' = Release(cache, hs) /\ Spend(hs)
  /\ UNCHANGED <<manifest, pool, trackers, ops, wt, life>>

-----------------------------------------------------------------------------
(* AllocateBlockIds: select victims, evict them (index first, then pool),  *)
(* then allocate.  The locks are dropped between the steps.                *)

\* Selecting victims when the pool is short; refused if too few keys.
AllocSelect(o) ==
  LET short == Len(o.hs) - FreeCount
      victims == C!GetEvictableKeys(cache, short)
  IN /\ At(o, "select")
     /\ short > 0 => Len(victims) = short
     /\ Become(o, IF short <= 0 THEN [o EXCEPT !.pc = "grab"]
                  ELSE [o EXCEPT !.pc = "delete", !.sel = victims])
     /\ UNCHANGED <<index, pool, trackers, wt, app, life>>

\* What follows an eviction: allocation, or the end of a sweep step.
AfterEvict(o) ==
  IF o.kind = "sweep" THEN End(o)
  ELSE Become(o, [o EXCEPT !.pc = "grab", !.sel = <<>>, !.ids = <<>>])

\* KVCacheStore::Evict: the victims leave the index, their blocks are held.
EvictDelete(o) ==
  LET d == Delete(Index, o.sel)
  IN /\ At(o, "delete")
     /\ SetIndex(d)
     /\ IF d.ids = <<>> THEN AfterEvict(o)
        ELSE Become(o, [o EXCEPT !.pc = "free", !.ids = d.ids])
     /\ UNCHANGED <<pool, trackers, wt, app, life>>

EvictFree(o) ==
  /\ At(o, "free")
  /\ allocated' = allocated \ ToSet(o.ids)
  /\ AfterEvict(o)
  /\ UNCHANGED <<index, mem, trackers, wt, app, life>>

\* RaidenController::AllocateBlockIds: the lowest free ids; the transfer
\* starts overwriting them.
Grab(o) ==
  LET ids == Prefix(SetToSortSeq(HostBlocks \ allocated, <), Len(o.hs))
  IN /\ At(o, "grab") /\ Len(o.hs) <= FreeCount
     /\ allocated' = allocated \cup ToSet(ids)
     /\ mem' = [b \in HostBlocks |-> IF b \in ToSet(ids) THEN Garbage ELSE mem[b]]
     /\ Become(o, [o EXCEPT !.pc = "transfer", !.ids = ids])
     /\ UNCHANGED <<index, trackers, wt, app, life>>

\* No blocks: the call fails and what it reserved is undone.
AllocRefused(o) ==
  /\ \/ /\ At(o, "select") /\ Len(o.hs) > FreeCount
        /\ Len(C!GetEvictableKeys(cache, Len(o.hs) - FreeCount)) < Len(o.hs) - FreeCount
     \/ At(o, "grab") /\ Len(o.hs) > FreeCount
  /\ End(o)
  /\ saving' = IF o.kind = "save" THEN saving \ ToSet(o.hs) ELSE saving
  /\ loading' = IF o.kind \in {"recall", "fetch"} THEN loading \ ToSet(o.hs) ELSE loading
  /\ IF o.kind = "save" THEN Grant(o.hs) ELSE UNCHANGED app
  /\ UNCHANGED <<index, pool, wt, life>>

-----------------------------------------------------------------------------
(* Save: device to host, consuming the caller's pin on success. *)

SaveLocal(hs) ==
  /\ Serves("save") /\ Holds(hs)
  /\ \A h \in ToSet(hs) : cache.val[h] = HBM /\ C!Active(cache, h) /\ cache.pins[h] > 0
  /\ ToSet(hs) \cap saving = {}
  /\ saving' = saving \cup ToSet(hs) /\ Spend(hs)
  /\ Start(Op("save", "select", hs, <<>>, <<>>))
  /\ UNCHANGED <<index, pool, loading, wt, life>>

SaveLand(o) ==
  /\ At(o, "transfer") /\ o.kind = "save"
  /\ mem' = Landed(o.hs, o.ids)
  /\ SetIndex(InsertBestEffortUpdate(Index, o.hs, o.ids))
  /\ saving' = saving \ ToSet(o.hs)
  /\ Become(o, [o EXCEPT !.pc = "publish", !.ids = <<>>])
  /\ UNCHANGED <<allocated, loading, wt, app, life>>

\* Mutant of SaveFail: releases the pin it should leave with the caller.
SaveFail_Releases(o) ==
  /\ At(o, "transfer") /\ o.kind = "save"
  /\ allocated' = allocated \ ToSet(o.ids)
  /\ saving' = saving \ ToSet(o.hs)
  /\ cache' = Release(cache, o.hs)
  /\ Grant(o.hs) /\ End(o)
  /\ UNCHANGED <<manifest, mem, loading, wt, life>>

\* The transfer failed.  With a second tier the completion also releases the
\* pins, without it they stay with the caller.
SaveFail(o) ==
  /\ At(o, "transfer") /\ o.kind = "save"
  /\ allocated' = allocated \ ToSet(o.ids)
  /\ saving' = saving \ ToSet(o.hs)
  /\ cache' = IF Secondary THEN Release(cache, o.hs) ELSE cache
  /\ Grant(o.hs) /\ End(o)
  /\ UNCHANGED <<manifest, mem, loading, wt, life>>

\* Write-through to the registry keeps the pins until it answers; over the
\* bound, or without a registry, they are released at once.
Publish(o) ==
  /\ At(o, "publish")
  /\ IF HasRegistry /\ wt + Len(o.hs) <= MaxWriteThrough
     THEN /\ wt' = wt + Len(o.hs)
          /\ Become(o, [o EXCEPT !.pc = "register"])
          /\ UNCHANGED cache
     ELSE /\ cache' = Release(cache, o.hs)
          /\ End(o)
          /\ UNCHANGED wt
  /\ UNCHANGED <<manifest, pool, trackers, app, life>>

WriteThroughDone(o) ==
  /\ At(o, "register")
  /\ wt' = wt - Len(o.hs)
  /\ cache' = Release(cache, o.hs)
  /\ End(o)
  /\ UNCHANGED <<manifest, pool, trackers, app, life>>

-----------------------------------------------------------------------------
(* Load: host to device, consuming the caller's pin on success. *)

\* Of the two forms of Load, one gives the slices of the lookup that pinned the
\* blocks along, the other none.
LoadLocal(hs) ==
  /\ Serves("load") /\ Holds(hs)
  /\ \A h \in ToSet(hs) : /\ C!Active(cache, h) /\ cache.pins[h] > 0
                          /\ cache.val[h] \in HostBlocks
  /\ ToSet(hs) \cap loading = {}
  /\ loading' = loading \cup ToSet(hs) /\ Spend(hs)
  /\ \E slices \in {<<>>, [i \in DOMAIN hs |-> cache.val[hs[i]]]} :
       Start(Op("load", "peek", hs, <<>>, slices))
  /\ UNCHANGED <<index, pool, saving, wt, life>>

\* Mutant of LoadPeek: drops the pin when the transfer starts, not when it ends.
LoadPeek_Unpins(o) ==
  /\ At(o, "peek")
  /\ \A h \in ToSet(o.hs) : C!Active(cache, h) /\ cache.val[h] \in HostBlocks
  /\ cache' = Release(cache, o.hs)
  /\ Become(o, [o EXCEPT !.pc = "transfer",
                         !.ids = [i \in DOMAIN o.hs |-> cache.val[o.hs[i]]]])
  /\ UNCHANGED <<manifest, pool, trackers, wt, app, life>>

\* LoadLocalHostBlocks takes the blocks of the slices, or re-reads the entries
\* under the backend's own lock.
LoadPeek(o) ==
  /\ At(o, "peek")
  /\ IF o.ids # <<>>
     THEN Become(o, [o EXCEPT !.pc = "transfer"]) /\ UNCHANGED <<loading, app>>
     ELSE IF \A h \in ToSet(o.hs) : C!Active(cache, h) /\ cache.val[h] \in HostBlocks
     THEN /\ Become(o, [o EXCEPT !.pc = "transfer",
                                 !.ids = [i \in DOMAIN o.hs |-> cache.val[o.hs[i]]]])
          /\ UNCHANGED <<loading, app>>
     ELSE End(o) /\ loading' = loading \ ToSet(o.hs) /\ Grant(o.hs)
  /\ UNCHANGED <<index, pool, saving, wt, life>>

\* The completion reads the entries under the lock ...
LoadRead(o) ==
  /\ At(o, "transfer") /\ o.kind = "load"
  /\ LET sel == SelectSeq(o.hs, LAMBDA h : C!Active(cache, h))
     IN Become(o, [o EXCEPT !.pc = "update", !.sel = sel,
                            !.ids = [i \in DOMAIN sel |-> cache.val[sel[i]]]])
  /\ UNCHANGED <<index, pool, trackers, wt, app, life>>

\* ... then, under new critical sections, writes them back and unpins.
LoadLand(o) ==
  /\ At(o, "update")
  /\ LET x == InsertBestEffortUpdate(Index, o.sel, o.ids)
     IN cache' = Release(x.c, o.sel) /\ manifest' = x.m
  /\ loading' = loading \ ToSet(o.hs)
  /\ End(o)
  /\ UNCHANGED <<pool, saving, wt, app, life>>

LoadFail(o) ==
  /\ At(o, "transfer") /\ o.kind = "load"
  /\ loading' = loading \ ToSet(o.hs)
  /\ Grant(o.hs) /\ End(o)
  /\ UNCHANGED <<index, pool, saving, wt, life>>

-----------------------------------------------------------------------------
(* ReadRemote: recall from the second tier and fetch from a peer, both     *)
(* through staging blocks and without pins.                                *)

ReadRemote(hs, kind) ==
  /\ Serves(kind) /\ kind \in {"recall", "fetch"}
  /\ ToSet(hs) \cap loading = {}
  /\ loading' = loading \cup ToSet(hs)
  /\ Start(Op(kind, IF kind = "recall" THEN "select" ELSE "grab", hs, <<>>, <<>>))
  /\ UNCHANGED <<index, pool, saving, wt, app, life>>

\* Each block the index admits stays, the others go back.
RecallLand(o) ==
  LET admit(y, i) ==
        LET r == InsertAdmitStrict(y.x, <<o.hs[i]>>, <<o.ids[i]>>)
        IN [x |-> r.x, back |-> IF r.ok THEN y.back ELSE y.back \cup {o.ids[i]}]
      all == FoldLeftDomain(admit, [x |-> Index, back |-> {}], o.hs)
  IN /\ At(o, "transfer") /\ o.kind = "recall"
     /\ mem' = Landed(o.hs, o.ids)
     /\ SetIndex(all.x)
     /\ allocated' = allocated \ all.back
     /\ loading' = loading \ ToSet(o.hs)
     /\ End(o)
     /\ UNCHANGED <<saving, wt, app, life>>

\* A failed recall or landing, or the end of a peer fetch either way: the
\* blocks go back.
StagingReturned(o) ==
  /\ At(o, "transfer") /\ o.kind \in {"recall", "fetch", "landing"}
  /\ allocated' = allocated \ ToSet(o.ids)
  /\ loading' = IF o.kind = "landing" THEN loading ELSE loading \ ToSet(o.hs)
  /\ End(o)
  /\ UNCHANGED <<index, mem, saving, wt, app, life>>

-----------------------------------------------------------------------------
(* What peers do: write into this store, and read from it. *)

PeersReach(kind) ==
  kind \in Kinds /\ (phase = "serving" \/ (phase = "starting" /\ EarlyPeers))

\* A remote write accepted: nothing of the batch is host resident.
LandingBegin(hs) ==
  /\ PeersReach("landing")
  /\ \A h \in ToSet(hs) : cache.val[h] \notin HostBlocks
  /\ Start(Op("landing", "grab", hs, <<>>, <<>>))
  /\ UNCHANGED <<index, pool, trackers, wt, app, life>>

\* The pull finished in time: commit all of it or return the blocks.
LandingEnd(o) ==
  LET r == InsertAdmitStrict(Index, o.hs, o.ids)
      resident == \E h \in ToSet(o.hs) : cache.val[h] \in HostBlocks
  IN /\ At(o, "transfer") /\ o.kind = "landing"
     /\ mem' = Landed(o.hs, o.ids)
     /\ IF resident \/ ~r.ok
        THEN allocated' = allocated \ ToSet(o.ids) /\ UNCHANGED index
        ELSE SetIndex(r.x) /\ UNCHANGED allocated
     /\ End(o)
     /\ UNCHANGED <<trackers, wt, app, life>>

\* Fetch and the read hooks: pin the matched prefix; unless it is the whole
\* batch and on host, release it again and refuse.  (Without a hit a refusal
\* changes nothing and is no step.)
ReadBegin(hs) ==
  LET hits == Prefix(hs, PrefixLen(hs, LAMBDA h : C!Active(cache, h)))
      x    == PinAll(Index, hits)
  IN /\ PeersReach("read") /\ C!Active(cache, Head(hs))
     /\ IF hits = hs /\ \A h \in ToSet(hs) : cache.val[h] \in HostBlocks
        THEN /\ Start(Op("read", "reading", hs, <<>>, [i \in DOMAIN hs |-> cache.val[hs[i]]]))
             /\ cache' = x.c
        ELSE cache' = Release(x.c, hits) /\ UNCHANGED ops
     /\ UNCHANGED <<manifest, pool, trackers, wt, app, life>>

ReadEnd(o) ==
  /\ At(o, "reading")
  /\ cache' = Release(cache, o.hs)
  /\ End(o)
  /\ UNCHANGED <<manifest, pool, trackers, wt, app, life>>

-----------------------------------------------------------------------------
(* Offers to a peer: SaveRemote by the application or by the evict sweep,  *)
(* which is its own caller.  The offer holds an internal pin besides the   *)
(* caller's until the peer's verdict.                                      *)

\* What SaveRemote checks under the store's lock.
Offerable(c, hs) ==
  /\ \A h \in ToSet(hs) : C!Active(c, h) /\ c.val[h] \in HostBlocks /\ c.pins[h] > 0
  /\ ToSet(hs) \cap saving = {}

SaveRemote(hs) ==
  /\ Serves("remote") /\ Holds(hs) /\ Offerable(cache, hs)
  /\ saving' = saving \cup ToSet(hs) /\ Spend(hs)
  /\ SetIndex(PinAll(Index, hs))
  /\ Start(Op("remote", "offer", hs, <<>>, <<>>))
  /\ UNCHANGED <<pool, loading, wt, life>>

\* The sweep thread, one batch at a time: pick the coldest keys ...
SweepSelect(n) ==
  LET batch == C!GetEvictableKeys(cache, n)
  IN /\ Serves("sweep") /\ batch # <<>>
     /\ \A o \in ops : o.kind # "sweep"
     /\ Start(Op("sweep", "target", batch, batch, <<>>))
     /\ UNCHANGED <<index, pool, trackers, wt, app, life>>

\* ... and, unlocked since, offer them to the next target: the sweep's own
\* pin, then SaveRemote's.
SweepOffer(o) ==
  LET pinned == PinAll(Index, o.hs)
  IN /\ At(o, "target") /\ \A h \in ToSet(o.hs) : C!Present(cache, h)
     /\ Offerable(pinned.c, o.hs)
     /\ SetIndex(PinAll(pinned, o.hs))
     /\ saving' = saving \cup ToSet(o.hs)
     /\ Become(o, [o EXCEPT !.pc = "offer"])
     /\ UNCHANGED <<pool, loading, wt, app, life>>

\* The keys cannot be pinned any more: the episode ends.
SweepAbandon(o) ==
  LET n == PrefixLen(o.hs, LAMBDA h : C!Present(cache, h))
  IN /\ At(o, "target") /\ n < Len(o.hs)
     /\ SetIndex(UnpinAll(PinAll(Index, Prefix(o.hs, n)), Prefix(o.hs, n)))
     /\ End(o)
     /\ UNCHANGED <<pool, trackers, wt, app, life>>

\* SaveRemote finds the batch not offerable: the target is dropped and the
\* batch goes to the next one.
SweepRefused(o) ==
  LET pinned == PinAll(Index, o.hs)
  IN /\ At(o, "target") /\ \A h \in ToSet(o.hs) : C!Present(cache, h)
     /\ ~Offerable(pinned.c, o.hs)
     /\ cache' = Release(pinned.c, o.hs)
     /\ UNCHANGED <<manifest, pool, trackers, ops, wt, app, life>>

\* The target refused the offer or was not reached: no verdict, both pins
\* go, and the batch is offered to the next target.
SweepDeclined(o) ==
  /\ At(o, "offer") /\ o.kind = "sweep"
  /\ cache' = Release(Release(cache, o.hs), o.hs)
  /\ saving' = saving \ ToSet(o.hs)
  /\ Become(o, [o EXCEPT !.pc = "target"])
  /\ UNCHANGED <<manifest, pool, loading, wt, app, life>>

\* No target is left: the batch is dropped here.
SweepDrop(o) ==
  /\ At(o, "target")
  /\ Become(o, [o EXCEPT !.pc = "delete"])
  /\ UNCHANGED <<index, pool, trackers, wt, app, life>>

\* The peer took the batch, or held all of it: both pins are released, then
\* the verdict is published.
OfferStored(o) ==
  /\ At(o, "offer")
  /\ cache' = Release(Release(cache, o.hs), o.hs)
  /\ saving' = saving \ ToSet(o.hs)
  /\ IF o.kind = "sweep" THEN Become(o, [o EXCEPT !.pc = "delete"]) ELSE End(o)
  /\ UNCHANGED <<manifest, pool, loading, wt, app, life>>

\* The offer failed; the peer holds the hashes of existing.  The internal pin
\* goes, the caller's stays.
OfferFailed(o, existing) ==
  /\ At(o, "offer") /\ existing # ToSet(o.hs)
  /\ cache' = Release(cache, o.hs)
  /\ saving' = saving \ ToSet(o.hs)
  /\ IF o.kind = "sweep"
     THEN /\ Become(o, [o EXCEPT !.pc = "failed",
                                 !.sel = SelectSeq(o.hs, LAMBDA h : h \in existing)])
          /\ UNCHANGED app
     ELSE End(o) /\ Grant(o.hs)
  /\ UNCHANGED <<manifest, pool, loading, wt, life>>

\* The sweep drops its pin and evicts what the peer holds.
SweepFailed(o) ==
  /\ At(o, "failed")
  /\ cache' = Release(cache, o.hs)
  /\ Become(o, [o EXCEPT !.pc = "delete"])
  /\ UNCHANGED <<manifest, pool, trackers, wt, app, life>>

-----------------------------------------------------------------------------
(* Crash of the engine; the metadata table and host memory survive. *)

Crash ==
  /\ crashes < MaxCrashes
  /\ crashes' = crashes + 1
  /\ phase' = "starting"
  /\ cache' = C!EmptyCache /\ allocated' = {}
  /\ saving' = {} /\ loading' = {} /\ ops' = {} /\ wt' = 0
  /\ app' = [h \in Hashes |-> 0]
  /\ UNCHANGED <<manifest, mem>>

\* The newest entry of each hash.
Newest(m) ==
  SelectSeq(m, LAMBDA e : \A i \in DOMAIN m, j \in DOMAIN m :
                            m[i] = e /\ m[j].hash = e.hash => j <= i)

\* Create's last step: rebuild the index from the table, claiming exactly its
\* blocks, or reformat the table if that fails.
Recover ==
  LET entries == Newest(manifest)
      blocks  == {entries[i].block : i \in DOMAIN entries}
      empty   == \A h \in Hashes : ~C!Present(cache, h)
  IN /\ phase = "starting"
     /\ phase' = "serving"
     /\ IF empty /\ blocks \cap allocated = {}
        THEN /\ cache' = FoldLeft(LAMBDA c, e : C!Put(c, e.hash, e.block), cache, entries)
             /\ manifest' = entries
             /\ allocated' = allocated \cup blocks
        ELSE manifest' = <<>> /\ UNCHANGED <<cache, allocated>>
     /\ UNCHANGED <<mem, trackers, ops, wt, app, crashes>>

-----------------------------------------------------------------------------
Init ==
  /\ cache = C!EmptyCache /\ manifest = <<>>
  /\ allocated = {} /\ mem = [b \in HostBlocks |-> Garbage]
  /\ saving = {} /\ loading = {} /\ ops = {} /\ wt = 0
  /\ app = [h \in Hashes |-> 0]
  /\ phase = "serving" /\ crashes = 0

ClientNext ==
  \E hs \in Batches :
    \/ Insert(hs)
    \/ InsertRefused(hs)
    \/ LookupLocal(hs)
    \/ \E interleaved \in BOOLEAN : LookupBegin(hs, interleaved)
    \/ ReleaseCall(hs)
    \/ SaveLocal(hs)
    \/ SaveRemote(hs)
    \/ LoadLocal(hs)
    \/ \E kind \in {"recall", "fetch"} : ReadRemote(hs, kind)
    \/ LandingBegin(hs)
    \/ ReadBegin(hs)

OpNext ==
  \E o \in ops :
    \/ \E r \in 0 .. MaxBatch : LookupEnd(o, r)
    \/ AllocSelect(o)
    \/ EvictDelete(o)
    \/ EvictFree(o)
    \/ Grab(o)
    \/ AllocRefused(o)
    \/ SaveLand(o)
    \/ SaveFail(o)
    \/ Publish(o)
    \/ WriteThroughDone(o)
    \/ LoadPeek(o)
    \/ LoadRead(o)
    \/ LoadLand(o)
    \/ LoadFail(o)
    \/ RecallLand(o)
    \/ StagingReturned(o)
    \/ LandingEnd(o)
    \/ ReadEnd(o)
    \/ SweepOffer(o)
    \/ SweepAbandon(o)
    \/ SweepRefused(o)
    \/ SweepDeclined(o)
    \/ SweepDrop(o)
    \/ OfferStored(o)
    \/ \E existing \in SUBSET ToSet(o.hs) : OfferFailed(o, existing)
    \/ SweepFailed(o)

Next ==
  \/ ClientNext
  \/ OpNext
  \/ \E n \in 1 .. MaxBatch : SweepSelect(n)
  \/ Crash
  \/ Recover

Spec == Init /\ [][Next]_vars

-----------------------------------------------------------------------------
(* Properties *)

\* Every variable keeps its type, and the write-through counter its bound.
TypeOK ==
  /\ cache \in C!Caches
  /\ allocated \subseteq HostBlocks
  /\ mem \in [HostBlocks -> Hashes \cup {Garbage}]
  /\ saving \subseteq Hashes /\ loading \subseteq Hashes
  /\ wt \in 0 .. MaxWriteThrough
  /\ app \in [Hashes -> 0 .. MaxAppPins + MaxOps]
  /\ \A i \in DOMAIN manifest : manifest[i].block \in HostBlocks /\ manifest[i].hash \in Hashes

\* The operations that own their blocks: landing places and blocks on the way
\* back to the pool, not the blocks a load or a peer's read only reads.
OwnsIds(o) == o.pc \in {"free", "transfer"} /\ o.kind # "load"

\* No host block has two owners: an entry of the index, or an operation that
\* is filling it or giving it back; and every owner's block is allocated, so
\* the pool cannot hand it out again.
BlocksOwnedOnce ==
  /\ \A h \in Hashes : cache.val[h] \in HostBlocks =>
       /\ cache.val[h] \in allocated
       /\ \A g \in Hashes \ {h} : cache.val[g] # cache.val[h]
       /\ \A o \in ops : OwnsIds(o) => cache.val[h] \notin ToSet(o.ids)
  /\ \A o \in ops : OwnsIds(o) =>
       /\ ToSet(o.ids) \subseteq allocated
       /\ \A p \in ops \ {o} : OwnsIds(p) => ToSet(o.ids) \cap ToSet(p.ids) = {}

\* The operations in flight that carry a caller's pin on h, and the offers,
\* which carry a second one.
CarriesPin(o, h) ==
  \/ o.kind \in {"save", "load", "read", "remote"} /\ h \in ToSet(o.hs)
  \/ o.pc \in {"offer", "failed"} /\ h \in ToSet(o.hs)
  \/ o.kind = "lookup" /\ h \in ToSet(o.sel)

\* Every pin is granted by one call and consumed by one: the index's count
\* for a hash is what the application holds by the contract plus one for each
\* operation in flight that carries a pin on it.  The write-through counter is
\* the number of blocks pinned by registrations in flight, so the bound it
\* enforces is on real pins.
PinsBalanced ==
  /\ \A h \in Hashes :
       cache.pins[h] = app[h] + Cardinality({o \in ops : CarriesPin(o, h)})
                             + Cardinality({o \in ops : o.pc = "offer" /\ h \in ToSet(o.hs)})
  /\ wt = FoldLeft(LAMBDA n, o : n + Len(o.hs), 0, SetToSeq({o \in ops : o.pc = "register"}))

\* Every block the index names holds the data of its hash: what a lookup hit
\* is trusted for, after any interleaving, crash and recovery.
IndexSound ==
  \A h \in Hashes : cache.val[h] \in HostBlocks => mem[cache.val[h]] = h

\* With peers, lookups and crashes: the index is sound, and every pin has its
\* holder; a global lookup, which pins its hits, asks the registry without the
\* lock and then keeps a prefix, gives back each pin past the prefix once.
HitsHeld == IndexSound /\ PinsBalanced

\* A load or a peer's read in flight keeps reading the data it was started
\* for: its source blocks are neither reused nor overwritten until it ends.
ReadersSeeData ==
  \A o \in ops : o.pc = "reading" \/ (o.kind = "load" /\ o.pc = "transfer") =>
    \A i \in DOMAIN o.hs : mem[o.ids[i]] = o.hs[i] /\ o.ids[i] \in allocated

\* The metadata table mirrors the host-resident part of the index, so that a
\* crash at any point recovers exactly the blocks that were usable; and a valid
\* entry says that its block holds the data of its hash, also between a crash
\* and the recovery that trusts it.
TableSound ==
  /\ phase = "serving" =>
       {<<e.hash, e.block>> : e \in ToSet(manifest)}
         = {<<h, cache.val[h]>> : h \in {g \in Hashes : cache.val[g] \in HostBlocks}}
  /\ \A e \in ToSet(manifest) : mem[e.block] = e.hash

-----------------------------------------------------------------------------
(* What the documentation says and the code does not keep. *)

\* "The store reclaims space itself, when an operation needs a host block": an
\* allocated block has an owner that will give it back, so it can be reclaimed.
\* A demoted candidate is a lookup miss; inserting it anew overwrites its
\* value, and its block stays allocated with nobody to free it.
NoBlockStranded ==
  \A b \in allocated :
    \/ \E h \in Hashes : cache.val[h] = b
    \/ \E o \in ops : OwnsIds(o) /\ b \in ToSet(o.ids)

-----------------------------------------------------------------------------
\* For TLC: the hashes are interchangeable, no definition chooses between them.
Symmetry == Permutations(Hashes)

=============================================================================
