----------------------------- MODULE Structures -----------------------------
(***************************************************************************)
(* What the stores and managers are built on, each part by itself: the LRU *)
(* index, the pool of block ids, the metadata segment that outlives the    *)
(* process, the files of the second tier, and in the cache manager the     *)
(* caller's mapped pool, the device copies and the chunked transfers.  The *)
(* initial state chooses a part, and only that part moves; the others stay *)
(* in one of their initial states.  The constants are small instances.     *)
(***************************************************************************)
EXTENDS LRUCacheSpec, LogicalBlockManager, KVCacheMetadata, PosixBackend,
        ExternalMapping, DeviceCopy, CopyPipeline

CONSTANT Parts          \* the parts that run

VARIABLE part           \* the one that runs

-----------------------------------------------------------------------------
(* PosixBackend: two writes of one shard file and a reader; lookups while  *)
(* files are published, removed, cached and forgotten; prefix and subset   *)
(* lookups with a hash that has no key.                                    *)
Ranks(pp, pcp, tp) == [pp |-> pp, pcp |-> pcp, tp |-> tp]
TwoWorkers == Ranks(-1, -1, 2)
Shard(h, t) == [hash |-> h, rank |-> Ranks(-1, -1, t)]
Stage(h, s) == [hash |-> h, rank |-> Ranks(s, -1, 0)]
Ask(hs, mode, batch) == [hashes |-> hs, mode |-> mode, batch |-> batch]

SmallSites == {
  [topo |-> TwoWorkers, hashes |-> {"a"}, cached |-> TRUE, before |-> {2},
   left |-> [faults |-> 1, removals |-> 1, deletes |-> 0, expiries |-> 0],
   writes |-> <<Shard("a", 0), Shard("a", 0), Shard("a", 1)>>, reads |-> <<Shard("a", 0)>>,
   lookups |-> <<>>],
  [topo |-> TwoWorkers, hashes |-> {"a"}, cached |-> TRUE, before |-> {1},
   left |-> [faults |-> 0, removals |-> 1, deletes |-> 1, expiries |-> 1],
   writes |-> <<Shard("a", 0), Shard("a", 1)>>, reads |-> <<>>,
   lookups |-> <<Ask(<<"a">>, "prefix", 2), Ask(<<"a">>, "prefix", 1)>>],
  [topo |-> Ranks(2, -1, 1), hashes |-> {"a", "b"}, cached |-> TRUE, before |-> 1..3,
   left |-> [faults |-> 1, removals |-> 0, deletes |-> 0, expiries |-> 0],
   writes |-> <<Stage("a", 0), Stage("a", 1), Stage("b", 0), Stage("b", 1)>>, reads |-> <<>>,
   lookups |-> <<Ask(<<"a", "", "b">>, "subset", 3), Ask(<<"a", "b", "">>, "prefix", 3)>>] }
TwoSlices == <<2, 1>>

(* ExternalMapping: a pool unmapped while copies of two layers, or two     *)
(* copies, are under way; mapped again under other addresses.  In the      *)
(* first three only the first object of a layer may be refused, in the     *)
(* fourth any.                                                             *)
MapCall(b, n, p) ==
  [kind |-> "map", base |-> b, size |-> n, page |-> p, range |-> [base |-> b, size |-> n, page |-> p]]
Unmap == [kind |-> "unmap"]
Moves(bases, blocks, p, r, n) ==
  [bases |-> bases, blocks |-> blocks, page |-> p, rank |-> r, ranks |-> n]

TwoLayers ==
  [layers |-> <<4, 4>>, slice |-> 1, faults |-> 2, breaks |-> {1},
   callers |-> <<MapCall(2, 8, 2), Unmap, Unmap>>,
   copies |-> <<Moves(<<2, 6>>, <<0, 1>>, 2, 0, 1)>>]
TwoCopies ==
  [layers |-> <<4>>, slice |-> 1, faults |-> 2, breaks |-> {1},
   callers |-> <<MapCall(2, 8, 2), Unmap, Unmap>>,
   copies |-> <<Moves(<<2>>, <<0>>, 2, 0, 1), Moves(<<6>>, <<1>>, 2, 0, 1)>>]
Remapped ==
  [layers |-> <<2, 2>>, slice |-> 1, faults |-> 0, breaks |-> {1},
   callers |-> <<MapCall(2, 8, 1), MapCall(2, 8, 3), Unmap, MapCall(4, 8, 1)>>,
   copies |-> <<Moves(<<6>>, <<1>>, 1, 1, 2), Moves(<<8>>, <<1>>, 1, 1, 2),
                Moves(<<2, 4>>, <<1, 1>>, 1, 0, 1)>>]
SmallPools == {TwoLayers, TwoCopies, Remapped}
RefusedLate == {[TwoLayers EXCEPT !.breaks = {1, 2}]}

(* DeviceCopy: queued copies with runs that merge and a shutdown; staging  *)
(* slots with fewer host buffers than layers; direct calls and refusals;   *)
(* lists the code takes though one is empty or an entry is negative.       *)
Lay(n, b) == [size |-> n * b, block |-> b]
Copy(via, dir, lists, layer, shard, host, span) ==
  [via |-> via, dir |-> dir, src |-> lists[1], dst |-> lists[2], sizes |-> lists[3],
   layer |-> layer, shard |-> shard, host |-> host, slot |-> span]
WholeLayer == <<<<>>, <<>>, <<>>>>

SmallDevices == {
  [layers |-> <<Lay(4, 1), Lay(4, 2)>>, staging |-> 2, blocks |-> 4, nodes |-> <<0, 1>>,
   slots |-> 0, major |-> 0, trouble |-> 1, ends |-> TRUE,
   calls |-> <<Copy("async", "d2h", <<<<0, 1, 2>>, <<1, 2, 0>>, <<1, 1, 1>>>>, 2, All, All, All),
               Copy("async", "h2d", <<<<3, 2>>, <<0, 1>>, <<1, 2>>>>, 1, 1, All, All)>>],
  [layers |-> <<Lay(2, 1), Lay(2, 1)>>, staging |-> 1, blocks |-> 4, nodes |-> <<0, 0>>,
   slots |-> 2, major |-> 2, trouble |-> 0, ends |-> FALSE,
   calls |-> <<Copy("async", "d2h", WholeLayer, All, All, All, All),
               Copy("sync", "d2h", WholeLayer, 2, All, 1, 1),
               Copy("sync", "h2d", <<<<0>>, <<1>>, <<2>>>>, 2, 1, 1, 0)>>],
  [layers |-> <<Lay(2, 1), Lay(2, 1)>>, staging |-> 2, blocks |-> 2, nodes |-> <<1, 0>>,
   slots |-> 0, major |-> 0, trouble |-> 1, ends |-> FALSE,
   calls |-> <<Copy("direct", "h2d", <<<<0, 1>>, <<1, 0>>, <<1, 1>>>>, All, 1, All, All),
               Copy("direct", "d2h", <<<<1>>, <<0>>, <<1>>>>, All, All, All, All),
               Copy("sync", "d2h", <<<<1>>, <<1>>, <<1>>>>, All, 2, All, All),
               Copy("sync", "h2d", <<<<1>>, <<1>>, <<-1>>>>, All, 2, All, All)>>],
  [layers |-> <<Lay(2, 1)>>, staging |-> 1, blocks |-> 2, nodes |-> <<0>>,
   slots |-> 0, major |-> 0, trouble |-> 0, ends |-> FALSE,
   calls |-> <<Copy("async", "d2h", <<<<0, 1>>, <<>>, <<1, 1>>>>, All, All, All, All),
               Copy("async", "d2h", <<<<0, 1>>, <<1, 0>>, <<1, 1>>>>, All, All, All, All)>>],
  [layers |-> <<Lay(2, 1)>>, staging |-> 1, blocks |-> 2, nodes |-> <<0>>,
   slots |-> 0, major |-> 0, trouble |-> 0, ends |-> FALSE,
   calls |-> <<Copy("sync", "h2d", <<<<1>>, <<0>>, <<>>>>, All, All, All, All),
               Copy("direct", "h2d", <<<<-1>>, <<0>>, <<1>>>>, All, All, All, All),
               Copy("sync", "h2d", <<<<0, 1>>, <<1>>, <<1, 1>>>>, All, All, All, All)>>] }

(* CopyPipeline: every call with up to three chunks and two faults, and    *)
(* the calls that are refused.                                             *)
Transfers(kinds, sizes, backends, staged, f) ==
  {[kind |-> k, lists |-> l, backends |-> b, staged |-> staged, faults |-> f] :
     k \in kinds, l \in sizes, b \in backends}
SmallJobs ==
  Transfers({"H2dWrite", "H2dRead", "D2hWrite", "D2hWriteToBackend", "H2dReadFromBackend"},
            {<<n, n>> : n \in 0..3}, {1}, TRUE, 2)
  \cup Transfers({"H2dWrite", "D2hWriteToBackend"}, {<<n, 1>> : n \in 0..2}, {0, 1}, FALSE, 0)

-----------------------------------------------------------------------------
Init ==
  /\ part \in Parts
  /\ CacheInit /\ PoolInit /\ SegInit
  /\ PosixInit /\ (part = "files" \/ site = CHOOSE s \in Sites : TRUE)
  /\ MapInit /\ (part = "mapping" \/ pool = CHOOSE s \in PoolSites : TRUE)
  /\ CopyInit /\ (part = "copies" \/ dev = CHOOSE s \in CopySites : TRUE)
  /\ PipeInit /\ (part = "pipeline" \/ job = CHOOSE j \in PipeJobs : TRUE)

vars == <<part, cache, poolVars, segVars, posixVars, mapVars, copyVars, pipeVars>>

Next ==
  \/ /\ part = "cache" /\ CacheNext
     /\ UNCHANGED <<part, poolVars, segVars, posixVars, mapVars, copyVars, pipeVars>>
  \/ /\ part = "pool" /\ PoolNext
     /\ UNCHANGED <<part, cache, segVars, posixVars, mapVars, copyVars, pipeVars>>
  \/ /\ part = "segment" /\ SegNext
     /\ UNCHANGED <<part, cache, poolVars, posixVars, mapVars, copyVars, pipeVars>>
  \/ /\ part = "files" /\ PosixNext
     /\ UNCHANGED <<part, cache, poolVars, segVars, mapVars, copyVars, pipeVars>>
  \/ /\ part = "mapping" /\ MapNext
     /\ UNCHANGED <<part, cache, poolVars, segVars, posixVars, copyVars, pipeVars>>
  \/ /\ part = "copies" /\ CopyNext
     /\ UNCHANGED <<part, cache, poolVars, segVars, posixVars, mapVars, pipeVars>>
  \/ /\ part = "pipeline" /\ PipeNext
     /\ UNCHANGED <<part, cache, poolVars, segVars, posixVars, mapVars, copyVars>>

(* The thread pools and the DMA engine finish what they began, and a       *)
(* caller's thread that can go on goes on.                                 *)
Fairness ==
  /\ WF_posixVars(part = "files" /\ PosixProgress)
  /\ WF_mapVars(part = "mapping" /\ MapNext)
  /\ WF_copyVars(part = "copies" /\ CopyNext)
  /\ WF_pipeVars(part = "pipeline" /\ PipeNext)

Spec == Init /\ [][Next]_vars /\ Fairness

-----------------------------------------------------------------------------
(* Properties; the others are in the modules of the parts. *)

\* Every read, write and lookup of the second tier is answered; every map, unmap
\* and copy of the caller's pool returns; every device copy and every chunked
\* transfer is answered, and no DMA or chunk is left running.
CallsEnd ==
  <>(\/ part \in {"cache", "pool", "segment"}
     \/ part = "files" /\ PosixOver
     \/ part = "mapping" /\ MapOver
     \/ part = "copies" /\ CopyOver
     \/ part = "pipeline" /\ PipeOver)

=============================================================================
