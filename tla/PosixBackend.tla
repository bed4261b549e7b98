----------------------------- MODULE PosixBackend -----------------------------
(***************************************************************************)
(* Secondary storage: backends/storage/posix_backend.cc.  Every worker of  *)
(* a topology keeps its own shard file of each block.  A write goes to a   *)
(* temporary file that is renamed into place; a read holds the file it     *)
(* opened.  The coordinator answers lookups by probing every shard file,   *)
(* behind a cache of keys it once saw (an LRU cache with a time to live).  *)
(* Files may also be removed by others, and a writer's process may die.    *)
(***************************************************************************)
EXTENDS Naturals, Integers, Sequences, FiniteSets, SequencesExt, FiniteSetsExt

CONSTANTS Sites,        \* deployments: topology, calls, faults
          BadHashes,    \* hashes MapKey rejects (empty or too long)
          SliceSizes,   \* bytes of the slices of one block
          MaxIov,       \* UIO_MAXIOV
          MaxEntries,   \* metadata_cache_max_entries
          NoKey         \* what MapKey gives for a key it rejects

VARIABLES site,         \* the deployment that runs
          files,        \* path -> the write whose file it names, 0 if none
          inode,        \* write -> the bytes its file holds
          temps,        \* writes whose temporary file is in the directory
          wr, rd, lk,   \* the calls of WriteAsync, ReadAsync and Lookup
          known,        \* the keys of the metadata cache, most recent first
          expired,      \* those of them past their time to live
          ever,         \* history: paths published at some time
          left          \* faults, removals and Delete calls still to come

posixVars == <<site, files, inode, temps, wr, rd, lk, known, expired, ever, left>>

-----------------------------------------------------------------------------
(* Keys *)

Undeclared == -1
Axes == {"pp", "pcp", "tp"}
Width(topo, a) == IF topo[a] = Undeclared THEN 1 ELSE topo[a]
Shards(topo) == Width(topo, "pp") * Width(topo, "pcp") * Width(topo, "tp")

\* The directory of a shard: one segment for each declared axis.
FormatTopologyDir(topo, rank) ==
  [a \in {x \in Axes : topo[x] # Undeclared} |-> <<topo[a], rank[a]>>]

\* A rank exactly on the declared axes, inside their size.
ValidateWorkerParallelism(topo, rank) ==
  \A a \in Axes :
    IF topo[a] = Undeclared THEN rank[a] = Undeclared ELSE rank[a] \in 0..(topo[a] - 1)

MapKey(hash, topo, rank) ==
  IF hash \in BadHashes \/ ~ValidateWorkerParallelism(topo, rank) THEN NoKey
  ELSE <<hash, FormatTopologyDir(topo, rank)>>

\* The ranks of the k-th shard, pp outermost and tp innermost.
ShardRank(topo, k) ==
  LET at == [pp |-> k \div (Width(topo, "pcp") * Width(topo, "tp")),
             pcp |-> (k \div Width(topo, "tp")) % Width(topo, "pcp"),
             tp |-> k % Width(topo, "tp")]
  IN [a \in Axes |-> IF topo[a] = Undeclared THEN Undeclared ELSE at[a]]

\* The coordinator's keys of a block, <<>> when its hash has none.
MapShardKeys(topo, hash) ==
  IF hash \in BadHashes THEN <<>>
  ELSE [k \in 1..Shards(topo) |-> MapKey(hash, topo, ShardRank(topo, k - 1))]

\* The ranks of the workers of a topology.
WorkerRanks(topo) ==
  LET own(a) == IF topo[a] = Undeclared THEN {Undeclared} ELSE 0..(topo[a] - 1)
  IN [pp : own("pp"), pcp : own("pcp"), tp : own("tp")]

\* Workers write and read blocks whose hash has a key, under their own rank;
\* the writes are numbered from 1.
ASSUME SitesAssumption ==
  \A s \in Sites :
    /\ 0 \notin DOMAIN s.writes /\ s.before \subseteq DOMAIN s.writes
    /\ \A w \in DOMAIN s.writes :
         s.writes[w] \in [hash : s.hashes \ BadHashes, rank : WorkerRanks(s.topo)]
    /\ \A r \in DOMAIN s.reads :
         s.reads[r] \in [hash : s.hashes \ BadHashes, rank : WorkerRanks(s.topo)]

Paths == UNION {{MapKey(h, s.topo, r) : h \in s.hashes \ BadHashes, r \in WorkerRanks(s.topo)}
                : s \in Sites}

-----------------------------------------------------------------------------
(* Bytes *)

Size == FoldLeft(LAMBDA a, b : a + b, 0, SliceSizes)
ASSUME SizeAssumption == Size \in Nat

End(i) == FoldLeft(LAMBDA a, b : a + b, 0, SubSeq(SliceSizes, 1, i))

\* The bytes the next call moves at most: the rest of the slice the position
\* is in, and the slices of the batch behind it.
BatchEnd(pos) ==
  LET at == CHOOSE i \in DOMAIN SliceSizes : End(i - 1) <= pos /\ pos < End(i)
  IN End(Min({at + MaxIov - 1, Len(SliceSizes)}))

\* The buffer's bytes after the first n, up to the m-th.
ByteRun(n, m) == [i \in 1..(m - n) |-> n + i]
Whole == ByteRun(0, Size)

-----------------------------------------------------------------------------
PathOf(call) == MapKey(call.hash, site.topo, call.rank)

\* The writes of site.before published their files earlier, one per path.
PosixInit ==
  /\ site \in Sites
  /\ files = [p \in Paths |-> IF \E w \in site.before : PathOf(site.writes[w]) = p
                              THEN CHOOSE w \in site.before : PathOf(site.writes[w]) = p ELSE 0]
  /\ inode = [w \in DOMAIN site.writes |-> IF w \in site.before THEN Whole ELSE <<>>]
  /\ temps = {}
  /\ wr = [w \in DOMAIN site.writes |->
            IF w \in site.before THEN [pc |-> "ok", pos |-> Size] ELSE [pc |-> "idle", pos |-> 0]]
  /\ rd = [r \in DOMAIN site.reads |-> [pc |-> "idle", file |-> 0, got |-> <<>>]]
  /\ lk = [l \in DOMAIN site.lookups |-> [pc |-> "idle"]]
  /\ known = <<>> /\ expired = {}
  /\ ever = {PathOf(site.writes[w]) : w \in site.before}
  /\ left = site.left

Budget(what) == left[what] > 0 /\ left' = [left EXCEPT ![what] = @ - 1]

\* Lookups under way, told that the path is there / is not there now.
Tell(field, p) ==
  [l \in DOMAIN lk |-> IF lk[l].pc \in {"idle", "done"} THEN lk[l]
                       ELSE [lk[l] EXCEPT ![field] = @ \cup {p}]]

-----------------------------------------------------------------------------
(* WriteAsync, on a thread of the pool *)

\* The temporary file is created under a name of its own, in the directory.
OpenTemp(w) ==
  /\ wr[w].pc = "idle"
  /\ wr' = [wr EXCEPT ![w].pc = "write"]
  /\ temps' = temps \cup {w}
  /\ UNCHANGED <<site, files, inode, rd, lk, known, expired, ever, left>>

\* Refused before there is a file: misaligned direct I/O, no directory.
RefuseWrite(w) ==
  /\ wr[w].pc = "idle"
  /\ Budget("faults")
  /\ wr' = [wr EXCEPT ![w].pc = "failed"]
  /\ UNCHANGED <<site, files, inode, temps, rd, lk, known, expired, ever>>

\* Mutant: a short pwritev is taken for the whole batch.
PWrite_Fast(w) ==
  /\ wr[w].pc = "write" /\ wr[w].pos < Size
  /\ \E n \in 1..Size :
       /\ wr[w].pos + n <= BatchEnd(wr[w].pos)
       /\ inode' = [inode EXCEPT ![w] = @ \o ByteRun(wr[w].pos, wr[w].pos + n)]
       /\ wr' = [wr EXCEPT ![w].pos = BatchEnd(@)]
  /\ UNCHANGED <<site, files, temps, rd, lk, known, expired, ever, left>>

\* pwritev takes some bytes of the batch; the rest is drained by later calls.
PWrite(w) ==
  /\ wr[w].pc = "write" /\ wr[w].pos < Size
  /\ \E n \in 1..Size :
       /\ wr[w].pos + n <= BatchEnd(wr[w].pos)
       /\ inode' = [inode EXCEPT ![w] = @ \o ByteRun(wr[w].pos, wr[w].pos + n)]
       /\ wr' = [wr EXCEPT ![w].pos = @ + n]
  /\ UNCHANGED <<site, files, temps, rd, lk, known, expired, ever, left>>

\* pwritev, close or rename fails: the temporary file is removed.
FailWrite(w) ==
  /\ wr[w].pc = "write"
  /\ Budget("faults")
  /\ wr' = [wr EXCEPT ![w].pc = "failed"]
  /\ temps' = temps \ {w}
  /\ UNCHANGED <<site, files, inode, rd, lk, known, expired, ever>>

\* close and rename: the path names the complete file from here on.
Publish(w) ==
  /\ wr[w].pc = "write" /\ wr[w].pos = Size
  /\ LET p == PathOf(site.writes[w])
     IN /\ files' = [files EXCEPT ![p] = w]
        /\ lk' = Tell("there", p)
        /\ ever' = ever \cup {p}
  /\ temps' = temps \ {w}
  /\ wr' = [wr EXCEPT ![w].pc = "ok"]
  /\ UNCHANGED <<site, inode, rd, known, expired, left>>

\* The writer's process dies; its temporary file stays behind.
CrashWriter(w) ==
  /\ wr[w].pc = "write"
  /\ Budget("faults")
  /\ wr' = [wr EXCEPT ![w].pc = "crashed"]
  /\ UNCHANGED <<site, files, inode, temps, rd, lk, known, expired, ever>>

\* Something outside the system deletes a published file.
RemoveFile(p) ==
  /\ files[p] # 0
  /\ Budget("removals")
  /\ files' = [files EXCEPT ![p] = 0]
  /\ lk' = Tell("missed", p)
  /\ UNCHANGED <<site, inode, temps, wr, rd, known, expired, ever>>

-----------------------------------------------------------------------------
(* ReadAsync *)

OpenRead(r) ==
  /\ rd[r].pc = "idle"
  /\ LET f == files[PathOf(site.reads[r])]
     IN rd' = [rd EXCEPT ![r].pc = IF f = 0 THEN "not_found" ELSE "read", ![r].file = f]
  /\ UNCHANGED <<site, files, inode, temps, wr, lk, known, expired, ever, left>>

\* preadv from the opened file: some bytes of the batch, or the end of it.
PRead(r) ==
  LET pos == Len(rd[r].got)
      data == inode[rd[r].file]
  IN /\ rd[r].pc = "read" /\ pos < Size
     /\ \/ /\ pos = Len(data)
           /\ rd' = [rd EXCEPT ![r].pc = "data_loss"]
        \/ \E n \in 1..Size :
             /\ pos + n <= BatchEnd(pos) /\ pos + n <= Len(data)
             /\ rd' = [rd EXCEPT ![r].got = @ \o SubSeq(data, pos + 1, pos + n)]
     /\ UNCHANGED <<site, files, inode, temps, wr, lk, known, expired, ever, left>>

EndRead(r) ==
  /\ rd[r].pc = "read" /\ Len(rd[r].got) = Size
  /\ rd' = [rd EXCEPT ![r].pc = "ok"]
  /\ UNCHANGED <<site, files, inode, temps, wr, lk, known, expired, ever, left>>

\* open or preadv fails.
FailRead(r) ==
  /\ rd[r].pc \in {"idle", "read"}
  /\ Budget("faults")
  /\ rd' = [rd EXCEPT ![r].pc = "failed"]
  /\ UNCHANGED <<site, files, inode, temps, wr, lk, known, expired, ever>>

-----------------------------------------------------------------------------
(* The coordinator: Lookup and Delete *)

\* The blocks a lookup maps: kPrefix stops at the first unmappable hash.
Mapped(call) ==
  LET bad == {i \in DOMAIN call.hashes : call.hashes[i] \in BadHashes}
      n == IF call.mode = "subset" \/ bad = {} THEN Len(call.hashes) ELSE Min(bad) - 1
  IN [i \in 1..n |-> MapShardKeys(site.topo, call.hashes[i])]

\* CachedFresh: every key found is promoted; an expired one is erased, the
\* others are hits and as new again.
Touched(keys, hits) ==
  Reverse(SelectSeq(keys, LAMBDA k : k \in hits))
    \o SelectSeq(known, LAMBDA k : k \notin ToSet(keys))

\* The mapping and the cache phase.
StartLookup(l) ==
  LET call == site.lookups[l]
      keys == FlattenSeq(Mapped(call))
      hits == IF ~site.cached THEN {} ELSE ToSet(keys) \cap (ToSet(known) \ expired)
  IN /\ lk[l].pc = "idle"
     /\ known' = Touched(keys, hits)
     /\ expired' = expired \ ToSet(keys)
     /\ lk' = [lk EXCEPT ![l] =
          [pc |-> "probe", blocks |-> Mapped(call), present |-> hits, hits |-> hits,
           todo |-> SelectSeq(keys, LAMBDA k : k \notin hits), asked |-> {}, found |-> {},
           confirmed |-> <<>>, result |-> <<>>,
           there |-> {p \in Paths : files[p] # 0}, missed |-> {p \in Paths : files[p] = 0}]]
     /\ UNCHANGED <<site, files, inode, temps, wr, rd, ever, left>>

\* The keys of the chunk being probed.
Chunk(l) == SubSeq(lk[l].todo, 1, Min({site.lookups[l].batch, Len(lk[l].todo)}))

\* Exists on a thread of the pool; an error counts as absent.
Exists(l, k) ==
  /\ lk[l].pc = "probe"
  /\ k \in ToSet(Chunk(l)) \ lk[l].asked
  /\ \/ /\ lk' = [lk EXCEPT ![l].asked = @ \cup {k},
                            ![l].found = IF files[k] # 0 THEN @ \cup {k} ELSE @]
        /\ UNCHANGED left
     \/ /\ Budget("faults")
        /\ lk' = [lk EXCEPT ![l].asked = @ \cup {k}, ![l].missed = @ \cup {k}]
  /\ UNCHANGED <<site, files, inode, temps, wr, rd, known, expired, ever>>

\* Mutant: the chunk with an absent key is dropped, its hits too.
TakeChunk_DropsHits(l) ==
  LET c == ToSet(Chunk(l))
      absent == c \ lk[l].found
      stop == site.lookups[l].mode = "prefix" /\ absent # {}
  IN /\ lk[l].pc = "probe" /\ c # {} /\ lk[l].asked = c
     /\ lk' = [lk EXCEPT
          ![l].present = IF stop THEN @ ELSE @ \cup lk[l].found,
          ![l].confirmed = @ \o SelectSeq(Chunk(l), LAMBDA k : k \in lk[l].found),
          ![l].todo = IF stop THEN <<>> ELSE SubSeq(@, Len(Chunk(l)) + 1, Len(@)),
          ![l].asked = {}, ![l].found = {}]
     /\ UNCHANGED <<site, files, inode, temps, wr, rd, known, expired, ever, left>>

\* The last answer of a chunk wakes the lookup; kPrefix stops after a chunk
\* with an absent key.
TakeChunk(l) ==
  LET c == ToSet(Chunk(l))
      absent == c \ lk[l].found
      stop == site.lookups[l].mode = "prefix" /\ absent # {}
  IN /\ lk[l].pc = "probe" /\ c # {} /\ lk[l].asked = c
     /\ lk' = [lk EXCEPT
          ![l].present = @ \cup lk[l].found,
          ![l].confirmed = @ \o SelectSeq(Chunk(l), LAMBDA k : k \in lk[l].found),
          ![l].todo = IF stop THEN <<>> ELSE SubSeq(@, Len(Chunk(l)) + 1, Len(@)),
          ![l].asked = {}, ![l].found = {}]
     /\ UNCHANGED <<site, files, inode, temps, wr, rd, known, expired, ever, left>>

\* CacheInsert: each key becomes the most recent one, and an entry that Put
\* pushes out is erased.
CacheInsert(keys) ==
  LET all == Reverse(keys) \o SelectSeq(known, LAMBDA k : k \notin ToSet(keys))
  IN SubSeq(all, 1, Min({Len(all), MaxEntries}))

\* The insertion and merge phases.
EndLookup(l) ==
  LET call == site.lookups[l]
      blocks == lk[l].blocks
      full == {i \in DOMAIN blocks : blocks[i] # <<>> /\ ToSet(blocks[i]) \subseteq lk[l].present}
      returned == IF call.mode = "subset" THEN full
                  ELSE {i \in full : 1..i \subseteq full}
  IN /\ lk[l].pc = "probe" /\ lk[l].todo = <<>>
     /\ known' = IF site.cached THEN CacheInsert(lk[l].confirmed) ELSE known
     /\ expired' = (expired \ ToSet(lk[l].confirmed)) \cap ToSet(known')
     /\ lk' = [lk EXCEPT ![l].pc = "done", ![l].result = SetToSortSeq(returned, <)]
     /\ UNCHANGED <<site, files, inode, temps, wr, rd, ever, left>>

\* Delete of one block, as after a recall that failed: only the coordinator's
\* cache forgets its shards.
Delete(h) ==
  /\ site.cached
  /\ Budget("deletes")
  /\ known' = SelectSeq(known, LAMBDA k : k \notin ToSet(MapShardKeys(site.topo, h)))
  /\ expired' = expired \cap ToSet(known')
  /\ UNCHANGED <<site, files, inode, temps, wr, rd, lk, ever>>

\* The time to live of an entry runs out.
Expire(k) ==
  /\ k \in ToSet(known) \ expired
  /\ Budget("expiries")
  /\ expired' = expired \cup {k}
  /\ UNCHANGED <<site, files, inode, temps, wr, rd, lk, known, ever>>

-----------------------------------------------------------------------------
PosixProgress ==
  \/ \E w \in DOMAIN wr : OpenTemp(w) \/ PWrite(w) \/ Publish(w)
  \/ \E r \in DOMAIN rd : OpenRead(r) \/ PRead(r) \/ EndRead(r)
  \/ \E l \in DOMAIN lk : \/ StartLookup(l) \/ TakeChunk(l) \/ EndLookup(l)
                          \/ \E k \in Paths : Exists(l, k)

PosixNext ==
  \/ PosixProgress
  \/ \E w \in DOMAIN wr : RefuseWrite(w) \/ FailWrite(w) \/ CrashWriter(w)
  \/ \E r \in DOMAIN rd : FailRead(r)
  \/ \E p \in Paths : RemoveFile(p) \/ Expire(p)
  \/ \E h \in site.hashes : Delete(h)

PosixSpec == PosixInit /\ [][PosixNext]_posixVars

-----------------------------------------------------------------------------
(* Properties *)

\* A path never names a partial file ("sees either no file or a complete
\* one"), so no read of a published file ends early and a read that succeeds
\* has every byte of its own worker's block in its place; a temporary file
\* outlives its write only when the writer's process died.
FilesWhole ==
  /\ \A p \in Paths : files[p] # 0 => inode[files[p]] = Whole
  /\ \A r \in DOMAIN rd : /\ rd[r].pc # "data_loss"
                          /\ rd[r].pc = "ok" => /\ rd[r].got = Whole
                                                /\ site.writes[rd[r].file] = site.reads[r]
  /\ \A w \in temps : wr[w].pc \in {"write", "crashed"}

\* The metadata cache names only files that were once published, and never
\* holds more than max_entries keys, candidates included.
CacheSound ==
  /\ ToSet(known) \subseteq ever
  /\ Len(known) <= MaxEntries

\* The files the workers of the deployment write for a block.
WorkerFiles(h) == {MapKey(h, site.topo, r) : r \in WorkerRanks(site.topo)}

\* A lookup under way is right about every block: it returns a block only if
\* the file of every worker was there at some moment of the lookup or is a
\* cached confirmation, and the first block it leaves out (every block, for
\* kSubset) has no key, or a file that was missing or could not be probed.
LookupTrue ==
  \A l \in DOMAIN lk : lk[l].pc = "done" =>
    LET call == site.lookups[l]
        n == Len(lk[l].result)
        omitted == IF call.mode = "subset" THEN DOMAIN call.hashes \ ToSet(lk[l].result)
                   ELSE {n + 1} \cap DOMAIN call.hashes
    IN /\ call.mode = "prefix" => lk[l].result = [i \in 1..n |-> i]
       /\ \A i \in ToSet(lk[l].result) :
            WorkerFiles(call.hashes[i]) \subseteq lk[l].there \cup lk[l].hits
       /\ \A i \in omitted : \/ call.hashes[i] \in BadHashes
                             \/ WorkerFiles(call.hashes[i]) \cap lk[l].missed # {}

\* What lookups answer, and the cache they answer from.
LookupsSound == CacheSound /\ LookupTrue

\* Every call is answered.
PosixOver ==
  /\ \A w \in DOMAIN wr : wr[w].pc \in {"ok", "failed", "crashed"}
  /\ \A r \in DOMAIN rd : rd[r].pc \in {"ok", "failed", "not_found", "data_loss"}
  /\ \A l \in DOMAIN lk : lk[l].pc = "done"

=============================================================================
