--------------------------- MODULE ExternalMapping ---------------------------
(***************************************************************************)
(* The caller's shared-memory pool: MapSharedMemory, UnmapSharedMemory and *)
(* CopyExternalObjectBlocks of KVCacheManagerBase.  The pool is registered *)
(* with the device's DMA engine while it is mapped.  A copy holds a lease  *)
(* while it submits one DMA per layer, then leaves its future behind; an   *)
(* unmap waits for the leases and for the futures.  Each action under      *)
(* external_mapping_mu_ is one step.                                       *)
(***************************************************************************)
EXTENDS Naturals, Sequences, FiniteSets, FiniteSetsExt

CONSTANTS PoolSites     \* device geometry, the threads' calls, faults

VARIABLES pool,         \* the site that runs
          mapPhase,     \* external_mapping_phase_
          mapped,       \* external_mapped_address_, _size_ and external_page_nbytes_
          registered,   \* the range the DMA engine has registered
          pending,      \* pending_external_copies_
          inflight,     \* in_flight_external_copies_: the copies whose futures it holds
          watermark,    \* external_copy_gc_watermark_
          deferred,     \* deferred_external_copy_error_ holds an error
          caller,       \* map and unmap calls
          copy,         \* calls of CopyExternalObjectBlocks
          dma,          \* copy -> layer -> object -> state of its DMA
          failed,       \* history: a future committed since the pool was mapped failed
          faults        \* faults still to come

mapVars == <<pool, mapPhase, mapped, registered, pending, inflight, watermark,
             deferred, caller, copy, dma, failed, faults>>

\* Sizes, addresses and block ids are natural numbers, the device has a layer,
\* and the calls are finitely many.
ASSUME MapAssumption ==
  \A s \in PoolSites :
    /\ s.layers \in Seq(Nat) /\ s.layers # <<>>
    /\ \A c \in DOMAIN s.callers :
         s.callers[c].kind = "map" => s.callers[c].range \in [base : Nat, size : Nat, page : Nat]
    /\ IsFiniteSet(DOMAIN s.copies)
    /\ \A c \in DOMAIN s.copies :
         /\ s.copies[c].bases \in Seq(Nat) /\ s.copies[c].blocks \in Seq(Nat)
         /\ {s.copies[c].page, s.copies[c].rank, s.copies[c].ranks} \subseteq Nat

NoRange == [base |-> 0, size |-> 0, page |-> 0]

\* kMinExternalCopyGcWatermark, lowered so that a sweep happens.
MinWatermark == 1

Layers == DOMAIN pool.layers

-----------------------------------------------------------------------------
(* Checks *)

\* MapSharedMemory: whole system pages (of 2 bytes here), and a block page of
\* whole slices that divides every layer.
MapAccepts(call) ==
  /\ call.size > 0 /\ call.base > 0
  /\ call.base % 2 = 0 /\ call.size % 2 = 0
  /\ call.page > 0
  /\ pool.slice > 0 => call.page % pool.slice = 0
  /\ \A l \in Layers : pool.layers[l] % call.page = 0

\* CopyExternalObjectBlocks, before the lease: what depends on the request and
\* the device only.
RequestAccepts(call) ==
  /\ call.blocks # <<>> /\ Len(call.blocks) = Len(call.bases)
  /\ call.page > 0
  /\ call.rank < call.ranks
  /\ \A i \in DOMAIN call.bases : call.bases[i] # 0
  /\ \A l \in Layers : pool.layers[l] = pool.layers[1]

\* The bytes of one object that take part: the layers of the call's rank.
RankBytes(call) == Len(pool.layers) * call.page
ObjectStart(call, i) == call.bases[i] + call.rank * RankBytes(call)

\* Under the lease: the page the pool was mapped with, block ids in range and
\* different.
PagesAccept(call) ==
  /\ call.page = mapped.page
  /\ pool.layers[1] > 0 /\ pool.layers[1] % call.page = 0
  /\ \A i \in DOMAIN call.blocks : call.blocks[i] < pool.layers[1] \div call.page
  /\ IsInjective(call.blocks)

\* ValidateExternalRangeLocked of every object, under one lock.
RangesAccept(call) ==
  /\ mapPhase = "mapped"
  /\ \A i \in DOMAIN call.bases :
       /\ ObjectStart(call, i) >= mapped.base
       /\ ObjectStart(call, i) + RankBytes(call) <= mapped.base + mapped.size

-----------------------------------------------------------------------------
MapInit ==
  /\ pool \in PoolSites
  /\ mapPhase = "unmapped" /\ mapped = NoRange /\ registered = NoRange
  /\ pending = 0 /\ inflight = {} /\ watermark = MinWatermark /\ deferred = FALSE
  /\ caller = [c \in DOMAIN pool.callers |-> [pc |-> "idle", await |-> {}, error |-> FALSE]]
  /\ copy = [c \in DOMAIN pool.copies |-> [pc |-> "idle", layer |-> 1, object |-> 1]]
  /\ dma = [c \in DOMAIN pool.copies |->
            [l \in DOMAIN pool.layers |-> [i \in DOMAIN pool.copies[c].bases |-> "none"]]]
  /\ failed = FALSE
  /\ faults = pool.faults

Fault == faults > 0 /\ faults' = faults - 1

Objects(c) == DOMAIN pool.copies[c].bases

\* The layers whose DMAs a copy's future covers: the ones submitted whole.
Submitted(c) == 1..(copy[c].layer - 1)
Ready(c) == \A l \in Submitted(c), i \in Objects(c) : dma[c][l][i] # "running"
Failed(c) == \E l \in Submitted(c), i \in Objects(c) : dma[c][l][i] = "error"

-----------------------------------------------------------------------------
(* MapSharedMemory *)

\* Reserves the mapping, or refuses.
BeginMap(c) ==
  LET call == pool.callers[c]
  IN /\ caller[c].pc = "idle" /\ call.kind = "map"
     /\ IF MapAccepts(call) /\ mapPhase = "unmapped"
        THEN /\ mapPhase' = "mapping"
             /\ caller' = [caller EXCEPT ![c].pc = "map"]
        ELSE /\ caller' = [caller EXCEPT ![c].pc = "refused"]
             /\ UNCHANGED mapPhase
     /\ UNCHANGED <<pool, mapped, registered, pending, inflight, watermark, deferred,
                    copy, dma, failed, faults>>

\* DmaMap outside the lock; a failure gives the reservation back.
DmaMap(c) ==
  /\ caller[c].pc = "map"
  /\ \/ /\ registered' = pool.callers[c].range
        /\ caller' = [caller EXCEPT ![c].pc = "map_done"]
        /\ UNCHANGED <<mapPhase, faults>>
     \/ /\ Fault
        /\ mapPhase' = "unmapped"
        /\ caller' = [caller EXCEPT ![c].pc = "refused"]
        /\ UNCHANGED registered
  /\ UNCHANGED <<pool, mapped, pending, inflight, watermark, deferred, copy, dma, failed>>

EndMap(c) ==
  /\ caller[c].pc = "map_done"
  /\ mapped' = pool.callers[c].range
  /\ mapPhase' = "mapped"
  /\ caller' = [caller EXCEPT ![c].pc = "ok"]
  /\ failed' = FALSE
  /\ UNCHANGED <<pool, registered, pending, inflight, watermark, deferred, copy, dma, faults>>

-----------------------------------------------------------------------------
(* UnmapSharedMemory *)

BeginUnmap(c) ==
  /\ caller[c].pc = "idle" /\ pool.callers[c].kind = "unmap"
  /\ IF mapPhase = "mapped"
     THEN /\ mapPhase' = "unmapping"
          /\ caller' = [caller EXCEPT ![c].pc = "leases"]
     ELSE /\ caller' = [caller EXCEPT ![c].pc = "refused"]
          /\ UNCHANGED mapPhase
  /\ UNCHANGED <<pool, mapped, registered, pending, inflight, watermark, deferred, copy,
                 dma, failed, faults>>

\* Mutant: does not wait for the submissions that hold a lease.
TakeCopies_NoAwait(c) ==
  /\ caller[c].pc = "leases"
  /\ caller' = [caller EXCEPT ![c] = [pc |-> "copies", await |-> inflight, error |-> deferred]]
  /\ inflight' = {} /\ watermark' = MinWatermark /\ deferred' = FALSE
  /\ UNCHANGED <<pool, mapPhase, mapped, registered, pending, copy, dma, failed, faults>>

\* The leases are back: takes the futures and the deferred error.
TakeCopies(c) ==
  /\ caller[c].pc = "leases" /\ pending = 0
  /\ caller' = [caller EXCEPT ![c] = [pc |-> "copies", await |-> inflight, error |-> deferred]]
  /\ inflight' = {} /\ watermark' = MinWatermark /\ deferred' = FALSE
  /\ UNCHANGED <<pool, mapPhase, mapped, registered, pending, copy, dma, failed, faults>>

\* Awaits every future, keeping the first error, then calls DmaUnmap.
DmaUnmap(c) ==
  /\ caller[c].pc = "copies" /\ \A f \in caller[c].await : Ready(f)
  /\ LET error == caller[c].error \/ \E f \in caller[c].await : Failed(f)
     IN \/ /\ registered' = NoRange
           /\ caller' = [caller EXCEPT ![c].pc = "unmap_done", ![c].error = error]
           /\ UNCHANGED faults
        \/ /\ Fault
           /\ caller' = [caller EXCEPT ![c].pc = "unmap_failed", ![c].error = error]
           /\ UNCHANGED registered
  /\ UNCHANGED <<pool, mapPhase, mapped, pending, inflight, watermark, deferred, copy, dma, failed>>

\* DmaUnmap failed: still mapped, and the copies' error is kept for later.
KeepMapping(c) ==
  /\ caller[c].pc = "unmap_failed"
  /\ deferred' = (deferred \/ caller[c].error)
  /\ mapPhase' = "mapped"
  /\ caller' = [caller EXCEPT ![c].pc = "refused"]
  /\ UNCHANGED <<pool, mapped, registered, pending, inflight, watermark, copy, dma, failed, faults>>

EndUnmap(c) ==
  /\ caller[c].pc = "unmap_done"
  /\ mapped' = NoRange /\ deferred' = FALSE /\ mapPhase' = "unmapped"
  /\ caller' = [caller EXCEPT ![c].pc = IF caller[c].error THEN "copy_error" ELSE "ok",
                              ![c].error = failed]
  /\ UNCHANGED <<pool, registered, pending, inflight, watermark, copy, dma, failed, faults>>

-----------------------------------------------------------------------------
(* CopyExternalObjectBlocks *)

\* AcquireExternalCopyLease, after the checks of the request.
AcquireExternalCopyLease(c) ==
  /\ copy[c].pc = "idle"
  /\ IF RequestAccepts(pool.copies[c]) /\ mapPhase = "mapped"
     THEN /\ pending' = pending + 1
          /\ copy' = [copy EXCEPT ![c].pc = "check"]
     ELSE /\ copy' = [copy EXCEPT ![c].pc = "refused"]
          /\ UNCHANGED pending
  /\ UNCHANGED <<pool, mapPhase, mapped, registered, inflight, watermark, deferred, caller, dma,
                 failed, faults>>

\* The checks under the lease; the lease goes back when one fails.
CheckRanges(c) ==
  /\ copy[c].pc = "check"
  /\ IF PagesAccept(pool.copies[c]) /\ RangesAccept(pool.copies[c])
     THEN /\ copy' = [copy EXCEPT ![c].pc = "issue"]
          /\ UNCHANGED pending
     ELSE /\ copy' = [copy EXCEPT ![c].pc = "refused"]
          /\ pending' = pending - 1
  /\ UNCHANGED <<pool, mapPhase, mapped, registered, inflight, watermark, deferred, caller, dma,
                 failed, faults>>

\* AddExternalCopyLocked: at the watermark the finished futures are swept, and
\* the first error among them is deferred.
AddExternalCopy(c) ==
  LET sweep == Cardinality(inflight) >= watermark
      kept == IF sweep THEN {f \in inflight : ~Ready(f)} ELSE inflight
  IN /\ inflight' = kept \cup {c}
     /\ watermark' = IF sweep THEN Max({MinWatermark, 2 * Cardinality(kept)}) ELSE watermark
     /\ deferred' = (deferred \/ \E f \in inflight \ kept : Failed(f))

\* IssueH2dShard fails at an object of a layer: the layers before it are handed
\* to the lease, the objects before it in its own layer are in no future.
FailIssue(c) ==
  /\ copy[c].pc = "issue" /\ copy[c].layer <= Len(pool.layers)
  /\ copy[c].object \in pool.breaks
  /\ Fault
  /\ copy' = [copy EXCEPT ![c].pc = "refused"]
  /\ IF copy[c].layer > 1 THEN AddExternalCopy(c) ELSE UNCHANGED <<inflight, watermark, deferred>>
  /\ pending' = pending - 1
  /\ UNCHANGED <<pool, mapPhase, mapped, registered, caller, dma, failed>>

\* IssueH2dShard and IssueD2hShard: one DMA for each object of a layer.
IssueObject(c) ==
  LET last == copy[c].object = Len(pool.copies[c].bases)
  IN /\ copy[c].pc = "issue" /\ copy[c].layer <= Len(pool.layers)
     /\ dma' = [dma EXCEPT ![c][copy[c].layer][copy[c].object] = "running"]
     /\ copy' = [copy EXCEPT ![c].layer = IF last THEN @ + 1 ELSE @,
                             ![c].object = IF last THEN 1 ELSE @ + 1]
     /\ UNCHANGED <<pool, mapPhase, mapped, registered, pending, inflight, watermark, deferred, caller,
                    failed, faults>>

\* Commit: the joined future replaces the lease.
CommitCopy(c) ==
  /\ copy[c].pc = "issue" /\ copy[c].layer > Len(pool.layers)
  /\ copy' = [copy EXCEPT ![c].pc = "ok"]
  /\ AddExternalCopy(c)
  /\ pending' = pending - 1
  /\ UNCHANGED <<pool, mapPhase, mapped, registered, caller, dma, failed, faults>>

\* A DMA ends.
DmaEnds(c, l, i) ==
  /\ dma[c][l][i] = "running"
  /\ \/ /\ dma' = [dma EXCEPT ![c][l][i] = "ok"]
        /\ UNCHANGED <<failed, faults>>
     \/ /\ Fault
        /\ dma' = [dma EXCEPT ![c][l][i] = "error"]
        /\ failed' = TRUE
  /\ UNCHANGED <<pool, mapPhase, mapped, registered, pending, inflight, watermark, deferred, caller, copy>>

-----------------------------------------------------------------------------
MapNext ==
  \/ \E c \in DOMAIN caller : \/ BeginMap(c) \/ DmaMap(c) \/ EndMap(c) \/ BeginUnmap(c)
                              \/ TakeCopies(c) \/ DmaUnmap(c) \/ KeepMapping(c) \/ EndUnmap(c)
  \/ \E c \in DOMAIN copy : \/ AcquireExternalCopyLease(c) \/ CheckRanges(c) \/ FailIssue(c)
                            \/ IssueObject(c) \/ CommitCopy(c)
                            \/ \E l \in Layers, i \in Objects(c) : DmaEnds(c, l, i)

MapSpec == MapInit /\ [][MapNext]_mapVars

-----------------------------------------------------------------------------
(* Properties *)

\* The host and the device bytes a copy moves for a layer.
HostBytes(c, i, l) ==
  LET from == ObjectStart(pool.copies[c], i) + (l - 1) * pool.copies[c].page
  IN from..(from + pool.copies[c].page - 1)
DeviceBytes(c, i) ==
  LET from == pool.copies[c].blocks[i] * pool.copies[c].page
  IN from..(from + pool.copies[c].page - 1)

\* No DMA runs on memory that is not registered ("DmaUnmap would run
\* underneath it"): while an object of a copy is being moved, its host bytes
\* lie in the registered pool and its device bytes in the layer, and no two
\* objects of the copy share a device byte.
DmaInsidePool ==
  \A c \in DOMAIN copy : \A l \in Layers, i \in Objects(c) : dma[c][l][i] = "running" =>
    /\ HostBytes(c, i, l) \subseteq registered.base..(registered.base + registered.size - 1)
    /\ DeviceBytes(c, i) \subseteq 0..(pool.layers[l] - 1)
    /\ \A j \in Objects(c) : i # j => DeviceBytes(c, i) \cap DeviceBytes(c, j) = {}

\* The unmap that ends a mapping returns an error exactly when a DMA of that
\* mapping failed, through sweeps and failed attempts to unmap.
ErrorsReported ==
  \A c \in DOMAIN caller : pool.callers[c].kind = "unmap" =>
    /\ caller[c].pc = "ok" => ~caller[c].error
    /\ caller[c].pc = "copy_error" => caller[c].error

\* What the external mapping promises: every DMA on memory that is there, and
\* every failed DMA reported.
MappingSafe == DmaInsidePool /\ ErrorsReported

\* Every call returns and every DMA ends.
MapOver ==
  /\ \A c \in DOMAIN caller : caller[c].pc \in {"ok", "refused", "copy_error"}
  /\ \A c \in DOMAIN copy : /\ copy[c].pc \in {"ok", "refused"}
                            /\ \A l \in Layers, i \in Objects(c) : dma[c][l][i] # "running"

=============================================================================
