# TPU Sync in TLA+

TLA+ models of TPU Sync: the KV-cache stores and the protocols between them,
the cache manager with its transfers and reshards, and weight synchronisation.
TLC checks properties of small instances; TLAPS proves some of them for all
instances. Paths below are relative to `src/tpu_sync/`.

## 1. The system

TPU Sync moves KV-cache blocks and weights between TPU hosts.

| Part | What it does | State it owns | Who acts on it |
|---|---|---|---|
| LRU index (`kv_cache/lru_cache.h`) | maps a block hash to a block; active list, candidate list, pins | map, two lists, pin counts, evictable counter | backend, under its lock |
| Logical block manager (`kv_cache/logical_block_manager.cc`) | hands out host block ids | allocated and locked flags, access stamps, free count | controller, under its lock |
| Host offload backend, KV cache store (`kv_cache/host_offload_backend.cc`, `kv_cache_store.cc`) | `Lookup/Insert/Release/Save/Load/ReadRemote`, eviction, sweep, offers to peers | index, table, trackers, offers | application, monitor, transfer and gRPC threads |
| Metadata segment (`kv_cache/kv_cache_metadata*.cc`) | table in shared memory that survives a crash of the engine | header, slots | backend; next incarnation of the engine |
| Store service, client (`kv_cache/kv_cache_store_{service,client}.cc`) | `Fetch`, `WriteRemote`, `PollWriteRemote` between stores | write operations, landing blocks, deadlines, one reactor per call | gRPC, transfer and deadline threads |
| Second tier (`kv_cache/backends/storage/`) | saves to and recalls from files | files, cache of known keys | store, workers |
| Cache manager (`kv_cache/kv_cache_manager_base.cc`) | copies between device and host, chunked transfers, the caller's mapped pool | DMAs, promises, leases, futures | callers, DMA threads |
| Transfers (`kv_cache/transfer_*_session.cc`, `kv_cache_manager_with_transfer.cc`) | pushes and pulls of blocks between managers | sessions, staging leases, streams | workers, transport threads, polls, destructors |
| Reshard (`kv_cache/reshard/`, `kv_cache/reshard_*_session.cc`, planners) | moves a request's pools to another layout | offers and claims, attempts, plans, sessions, chains | producers, consumers, coordinator, workers |
| Weight sync (`weight_sync/`, `rpc/raiden_controller.py`) | broadcasts a trainer's weights to samplers | registrations, schedules, trees, host buffers | RPC threads, asyncio tasks, connection workers |

Three disciplines run through all of it. *Pins, leases and claims* keep memory in
place while somebody else moves its bytes. *Ownership* of a block, slot or file
passes along and never splits. *Counters and promises*, mostly without a lock,
turn many completions into one answer that must be true.

`PROJECT.json` lists every component, modelled or not, and every hazard known,
at its line.

## 2. Modules

| Module | Models | State and actions |
|---|---|---|
| `LRUCache`, `LRUCacheSpec` | `lru_cache.h` | a cache is a record `[val, pins, lru, cand, evictable]`, one operator per method; the specification calls the mutators in any order |
| `LogicalBlockManager` | `logical_block_manager.cc` | `allocated`, `locked`, stamps, the cached `num_free`; one action per operation |
| `HostStore` | `kv_cache_store.cc`, `host_offload_backend.cc`, the read and landing sides of the service | the index (operators of `LRUCache`), the table, the pool, memory, and operations in flight, each cut where the code drops a lock |
| `MetadataTable` | what the crash-surviving table promises | abstract specification |
| `KVCacheMetadata` | `kv_cache_metadata.cc`, `kv_cache_metadata_shm.cc`, `RecoverFromLocalManifest` | the segment store by store, with crashes between any two; implements `MetadataTable` |
| `RemoteWrite` | `SaveRemote`, `BeginWriteRemote`, the client stream, `WriteRemote`, completion, deadlines, polls | offers at the source, records at the destination, messages under way, a clock |
| `WriteRemoteReactor` | `WriteRemoteServerReactor` and its gate | one call at the grain of its locks, gRPC by its callback contract |
| `PosixBackend` | `backends/storage/posix_backend.cc` | open files, paths, inodes, lookups with their cache; partial I/O, faults, removals and crashes |
| `ExternalMapping` | `MapSharedMemory`, `UnmapSharedMemory`, `CopyExternalObjectBlocks` | phase, leases, futures, DMAs; one step per critical section |
| `DeviceCopy` | `H2d`, `D2h` and their direct forms | queue, groups by NUMA node, DMAs, bytes moved |
| `CopyPipeline` | `H2dWrite`, `H2dRead`, `D2hWrite`, `D2hWriteToBackend`, `H2dReadFromBackend` with `TransferPipelinedState` | per chunk its stage; the atomics; the promise |
| `TransferSend`, `TransferReceive`, `StagingLayers`, `Transfer` | the two transfer sessions, their staging, the push streams, the managers' polls and destructors | one action per critical section; `Transfer` composes the two sides |
| `ReshardControl`, `RequestBlockRegistry` | reshard service, directory, coordinator; the registry of offered blocks | attempts, claims by generation, clocks |
| `PoolLayout`, `PoolReshardPlan` | byte geometry of pools, declarations, planner, split, the workers' checks | pure operators, checked against a byte-level definition |
| `ReshardSession` | reshard send and receive sessions with their push streams | slots, buffers, device pages |
| `SubPlanChains` | how a chain of sub-plans is reported as one request | registrations, polls, time-outs |
| `ControlPlane` | | runs the five above and `WriteRemoteReactor`, each by itself |
| `Broadcast` | `broadcast_engine.py` | trees, hops in flight, armed counts |
| `WeightController`, `JobEntity`, `PayloadCache` | `raiden_controller.py`, `job_entity.py` | registry, schedule cache, shared futures; hosts of a job; cached payloads |
| `ReshardPlanner`, `Shapes`, `PushSchedule` | `reshard_planner.py`, folding and merging of push schedules | pure operators |
| `Weights` | | runs the weight-sync manager's parts, each by itself |
| `Tiling` | `tiling_utils.cc` | conversions between linear and tiled order |
| `TaskPool` | `numa_thread_pool.{h,cc}`, `ExecuteParallelTasks` | queue, threads, the callers' stack frames |
| `WeightReceive`, `WeightSend`, `BufferPush` | `weight_synchronizer_base.cc`, `raw_buffer_transport.cc` | layers in host buffers with version and layout; batches on connections |
| `WeightEngine` | | runs the parts of the weight-sync engine, each by itself |
| `Structures` | | runs index, pool, segment, files and the cache manager's parts, each by itself |
| `*Proofs` | | theorems, section 4 |

How they fit. `HostStore` uses the operators of `LRUCache`, so what is proved of
them holds of the index inside it; its `manifest` is the table that
`MetadataTable` specifies and `KVCacheMetadata` implements; its offers end with
any verdict `RemoteWrite` can produce. `RemoteWrite` takes the events of a call
one at a time; that the real call delivers them so is what `WriteRemoteReactor`
is about. `Transfer` composes `TransferSend` and `TransferReceive` over one
network. The modules that only run others (`Structures`, `ControlPlane`,
`Weights`, `WeightEngine`) choose one part in the initial state, and only that
part moves: they interleave nothing that the code does not, and hold the small
instances.

### Abstractions

- *HostStore.* Device block ids are not told apart (a value is a host block or
  `HBM`). Memory is, per block, the hash whose data it holds, or `Garbage` from
  the start of a transfer into it until the transfer has succeeded. Registry,
  second tier and peers answer arbitrarily. `app` is a history variable for the
  pins the application holds by the contract of `kv_cache_store.h:74-105`.
  A batch names no hash twice.
- *KVCacheMetadata.* The plain stores of `Set` happen in any order between its two
  atomic stores of `valid`. A slot whose length and hash stem from different calls
  reads as `Torn`.
- *RemoteWrite.* Both sides read one clock; `maxLatency` bounds how long a request
  travels and must not exceed the margin, which is why the code has one. An
  unpinned batch may be reused at any time, and a pull that ends then has read torn
  bytes. A site says which faults happen.
- *PosixBackend.* A file is the sequence of bytes written so far, a byte its
  offset. `pwrite` and `pread` move any positive number of bytes up to the end of
  their batch. Key strings are records of hash and rank.
- *ExternalMapping.* Addresses and sizes are small numbers, a system page is 2
  bytes. `failed` is a history variable: a future of this mapping failed.
- *CopyPipeline.* A chunk is one block.
- *Sessions.* A stream is one of a few per layer, a layer's bytes are its number.
- *Planners, tilings, schedules.* Byte offsets and element numbers, small enough
  that the code's overflow checks never fire (left out).
- *WeightSend, WeightReceive.* A buffer holds a version and a layout, or `Torn`.

A definition called `X_Something` with a comment "Mutant of X" is not part of the
model: it is a plausible mistake in `X` that the property named in
`PROJECT.json` must catch. `map` in `PROJECT.json` gives for every definition the
lines it models.

## 3. Runs

| Run | Module | Instance | Distinct states | Checks |
|---|---|---|---|---|
| `host_local` | `HostStore` | 3 hashes, 2 blocks, 2 operations in flight; insert, save, load, sweep, landing; registry | 247 thousand | `BlocksOwnedOnce` `PinsBalanced` `ReadersSeeData` `TableSound` |
| `host_peers` | `HostStore` | batches of 2, 1 crash; landing, read, recall, fetch, lookups, offer, load | 182 thousand | `HitsHeld` |
| `remote_write` | `RemoteWrite` | 2 hashes offered once with teardown, crash and a busy destination; 1 hash offered twice with lost acks; once with lost polls; streams that break or end cancelled | 551 thousand | `PinCoversPull` `VerdictsTrue` `HoldsBalanced` `OffersSettle` |
| `structures` | `Structures` | seven parts, below | 125 thousand | `EvictableExact` `NumFreeExact` `FilesWhole` `LookupsSound` `MappingSafe` `CopiesTrue` `PromiseTrue` `PinProtects` `LockedKeepsOwner` `ImplementsTable` `RecoversNewest` `CallsEnd` |
| `transfer` | `Transfer` | four deployments of 1 or 2 layers, 1 or 2 slots and streams, at most 1 fault | 292 thousand | `StagingOwned` `ReceiptsTrue` `TeardownQuiet` `TransfersSettle` |
| `control_plane` | `ControlPlane` | five parts | 138 thousand | `AttemptsSound` `PlanSound` `SessionsSound` `ReactorSafe` `AllEnds` |
| `weights` | `Weights` | six parts | 186 thousand | `BroadcastExact` `CachesTrue` `RoutesTrue` `PlansExact` `WeightsEnd` |
| `engine` | `WeightEngine` | five parts | 121 thousand | `TilingExact` `FramesAlive` `WeightsOnDevice` `PushesExact` `EngineEnds` |
| `host_leak` `host_early_peers` `remote_lost_ack` `mapping_refused` | | | | violated, section 5 |

Each property of a passing run has a mutant in `PROJECT.json` under which TLC
finds it violated. What the properties say:

- `BlocksOwnedOnce`: a host block belongs to one index entry or to one operation
  that fills it or gives it back. The danger is the window between deleting a
  victim from the index and freeing its block.
- `PinsBalanced`, `HoldsBalanced`: a pin count is what the application may believe
  it holds plus one per operation that carries a pin; landing blocks go back once,
  never under a running pull.
- `ReadersSeeData`, `TableSound`: loads deliver the data of their hash, and the
  table binds exactly the usable blocks.
- `HitsHeld`: with peers, lookups and a crash, `IndexSound` (every indexed block
  holds the data of its hash) and `PinsBalanced`; a global lookup, which asks the
  registry without the lock, gives each pin past its prefix back once.
- `ImplementsTable`, `RecoversNewest`: whatever the point of a crash, a restart
  finds whole bindings in the order they were made and keeps the newest of each
  hash.
- `PinCoversPull`, `VerdictsTrue`: while a destination may still commit a pull the
  source holds its pin, and a "done" verdict, on which the sweep drops the only
  local copy, is given only for what the destination has held.
- `FilesWhole`, `LookupsSound`: a path names a complete file or none, a successful
  read has its worker's whole block, and a lookup hit was backed by files.
- `MappingSafe`: every DMA runs on registered memory and inside its layer, and the
  unmap that ends a mapping returns an error exactly when a DMA of it failed.
- `CopiesTrue`, `PromiseTrue`: a success is given only when every byte, or every
  chunk through every stage, has moved; an answer is given once. `CopiesTrue` is
  claimed of well-formed calls: their lists have one length (a list given empty
  beside others is not refused), and a direct copy to the device has no negative
  entry and a host buffer for each layer. Malformed calls run beside them.
- `StagingOwned`, `ReceiptsTrue`, `TeardownQuiet`: leased memory stays leased
  while anything uses it, a good verdict is true on either side, and a destructor
  stops the transport only when nothing runs any more.
- `AttemptsSound`, `PlanSound`, `SessionsSound`: an attempt at work keeps its
  offers and its claim; a plan lands what was declared, byte by byte; a reshard
  reported as received is on the device.
- `ReactorSafe`: no interleaving of handler, sender, callbacks and destructor
  breaks gRPC's rules or touches a freed reactor.
- `BroadcastExact`: a sampler relays only what it holds, and receives exactly the
  number of chunks it was armed with.
- `CachesTrue`: a cached schedule describes each unit as it is registered now, and a
  payload names its own transfer. Excepted are a unit that registers after the
  computation has read it and before the schedule is in the cache
  (`raiden_controller.py:1265`: nothing is there to drop, and the insert does not look
  again), a unit that `attach_host` changes, and payloads whose template two threads
  patch at once.
- `RoutesTrue`: a replica is addressed where it registered last, and every shard is
  pushed by its own host. Where a sender does not describe its hosts, endpoints and
  data addresses are paired by position (`raiden_controller.py:1390`); if the two lists
  name the hosts in different orders, only "one endpoint per shard" is claimed.
- `PlansExact`: a plan and its folded form move every element to its place.
- `TilingExact`, `FramesAlive`, `WeightsOnDevice`, `PushesExact`: the optimised
  conversions equal XLA's nested tiling; no thread touches a returned stack frame;
  a user told that weights arrived has exactly them on the device; what a push
  streams is staged, of one version, and lands where the schedule asks.
  The exceptions are in section 5.
- `OffersSettle`, `CallsEnd`, `TransfersSettle`, `AllEnds`, `WeightsEnd`,
  `EngineEnds`: what was begun is answered. `OffersSettle` does not count an offer
  whose stream ended `CANCELLED`. `EngineEnds` does not count a user who waits for
  the completion of a transfer that was drained or forgotten or whose weights were
  unbound: that wait may last for ever.

### Bounds

*Stores.* Two blocks and three hashes are enough for pressure (a batch of two does
not fit beside anything), a victim pinned after its selection, a block taken by a
second operation, demotion and re-insertion. Two operations in flight give every
pairwise race of the kinds that share a run. No run mixes `insert`, `save` or the
sweep with a recall, a fetch or a global lookup, nor a crash with them: those
instances exceed the time we give a run. Index and pool have equal capacity, as
`KVCacheStore::Create` makes them. Every run has `Secondary = FALSE`; the constant
decides one line, see section 5.

*Remote writes.* `hold > margin >= maxLatency >= 1` keeps the order of the real
constants, and the last tick leaves room for the hold and the collection of a
record. Two offers let a retry meet the operation of its predecessor.

*Structures.* 3 keys with capacity 2 and 2 pins; 3 blocks, 2 owners; 2 slots, 2
hashes and one too long, 3 `Set`s per incarnation, 2 crashes; 3 sites of files with
two workers or two stages, replaced, removed and deleted files, slices of 2 and 1
bytes; 3 pools with two layers, two copies, or a second mapping at other addresses,
2 faults; 3 devices with merging runs, staging slots and direct calls; all five
chunked calls with up to 3 chunks and 2 faults. `MinWatermark` is lowered to 1 so
that the sweep of finished copies happens.

*Transfers.* Two layers over one slot make a session wait for itself; two slots
and host buffers at either end cover the other paths; two streams of one layer race.

*Reshard.* One and two stages, a chain of two, a second generation, a restart;
requests whose declarations miss, repeat or shift a span; two ranks of senders,
one sender to two receivers, a receiver armed late; clocks count to 3.

*Weights.* Up to four samplers under one seed, so that samplers relay; two RPC
threads over one schedule key and one registration that changes it; two replicas;
all grids of a few small shapes; all lists of two entries, and of three to one peer.
Tiles that divide a shape and tiles that do not; two loops over two workers; seven
receivers and five senders, with one kind of fault each.

Hashes are interchangeable in `HostStore`, so the symmetry is sound there; no run
with liveness uses one. Deadlock is checked in the `host_*` runs. In the others
bounded clocks, counters or calls run out, and the system really stops.

### Fairness

- `RemoteWrite!FairSpec`: the clock advances and the source's gRPC runtime delivers
  what has arrived or is due. Nothing is assumed of the destination: `OffersSettle`
  rests on the call deadline alone. Its second part carries its own assumption,
  that transfers end and completion threads run; no code bounds a transfer.
- `Structures`: a call that can proceed does, and a DMA or a stage that was issued
  ends. The index, the pool and the segment need none.
- `Transfer`: threads that can run do, copies and streams end, polls come and
  deadlines pass.
- `ControlPlane`: the coordinator's threads, the sessions and their deadline, polls
  and ticks of a manager (strong for the tick, which a poll can disable), and, in a
  call, started threads and gRPC's callbacks. The destructor must go on once begun,
  cancellation need not come.
- `Weights`, `WeightEngine`: an asyncio task or a thread that can run does, a copy
  ends, an RPC is answered or fails.

## 4. Proofs

Checked by TLAPS for every value of the constants. Each rests on an inductive
invariant, which TLC checked on the run's instance first.

| Module | Theorems | Assumptions |
|---|---|---|
| `LRUCacheProofs` | `WellFormedInvariant`, `TypeCorrect`, `ListsPartitionInvariant`, `EvictableExactInvariant`, `PinsProtect` | `LRUAssumption`: `Resident \subseteq Values`, `Absent` is no value, capacity a natural number, `Keys` finite; `MaxPinsAssumption` |
| `StructuresProofs` | of the block pool: `FreeCountExact`, `LocksFollowAllocation`, `PoolTypeCorrect`, `LockedBlocksKept`; of chunked transfers: `PromiseTrueInvariant`, `AnswerFinal` | `PoolAssumption`; `PipeJobsAssumption`: one of the five calls, lists of lengths, any number of faults |
| `RemoteWriteProofs` | `PinCoversPullInvariant`, `HoldsBalancedInvariant`, `VerdictsTrueInvariant`, `VerdictFinal` | `MarginAssumption`: hold, margin, cap and latency are natural numbers, the margin is shorter than the hold and covers the latency |
| `PosixBackendProofs` | `FilesWholeInvariant`, `OpenFileStays` | `SitesAssumption`: workers use hashes that have a key, under their own rank; `SizeAssumption` |
| `ExternalMappingProofs` | `MappingSafeInvariant`, `NeverUnderneath` | `MapAssumption`: sizes, addresses and ids are natural numbers, there is a layer, the calls are finitely many; and, as a hypothesis of the theorems, that only the first object of a layer can be refused |
| `TaskPoolProofs` | `FramesAliveInvariant`, `ReturnedStays` | `TaskPoolAssumption`: finite disjoint sets of workers and callers, a positive step |
| `ReshardControlProofs` | `AttemptsSoundInvariant` | `SitesAssumption`: there is a unit, a request has a sub-plan, sources are units, attempts name a stage and a generation; `TtlPositive`; prompt sites, no forced release and no stage tried twice where the property says so |
| `CacheProofs` | `CachesTrueInvariant` | `CtlAssumption`: finitely many threads, a key, the five kinds of call; `PayAssumption`: there is a transfer, a transfer is a uuid, a request id and `skip_d2h` |

**LRU index.** `WellFormed(cache)`: the record has its type, the active and the
candidate list hold every unpinned entry once and nothing else, and the counter is
the cardinality of the set of unpinned host-resident entries. None of the three is
inductive alone: the counter hooks add or subtract one, which is right only if the
key was or was not in the set, which the lists decide, and taking a key off a list
removes it altogether only if it was there once. One layer of lemmas is about lists,
one about counting, one about steps that change one key, and there is one lemma per
method.

**Block pool.** `PoolInv` joins types, `num_free = Cardinality(free)`,
`locked \subseteq allocated` and "has an owner exactly when allocated".

**Remote writes.** `RWInv`: types; one offer in flight, under the caller's pin and
its own (`Pinned`); an index of genuine data (`Genuine`); and for each offer which
steps, blocks and states go together (`Life`), what can be on its stream (`Stream`),
that its operation ends before the hold does and until then is in flight (`Cover`),
that what may still be committed was read under the pin (`Fresh`), and that what is
reported has been there (`Truth`). `PinCoversPull` alone says nothing of the time
between the request and its acceptance; there `Cover` needs the margin to exceed the
latency, which is where `MarginAssumption` enters. `VerdictFinal`: no late ack,
result, poll, deadline or teardown revises a settled offer.

**Files.** `FilesInv`: a write's file holds exactly the bytes it got through from the
first on (`Written`), a path names the file of a successful write to that path
(`Published`), a reader holds such a file of its own path and has a prefix of the
block (`Held`, `Unread`), and temporary files belong to writes under way or cut off
by a crash. `PathsDiffer` proves that the key of a block under one rank is never the
key of another, so a worker cannot read another's shard. `OpenFileStays`: the file
a reader has open does not change, whoever replaces or removes its path.

**Mapped pool.** `MapInv`: one call at a time changes the mapping, and an unmapping
phase has a caller that is in it (`Phases`); an unmap begins with no lease and no
future left to anyone else (`Leases`); every running DMA belongs to a copy that
still has its lease or whose future somebody awaits, and passed the checks of the
mapping in force (`Copying`); a failed DMA is always remembered in one of the
places that end in a report (`Errors`). The geometry (`HostBytesInside`,
`DeviceBytesInside`, `DeviceBytesApart`) rests on four small facts about whole
pages. `NeverUnderneath`: memory is registered or unregistered only while no DMA
runs. The hypothesis is needed: `mapping_refused` is the counterexample without it.

**Chunked transfers.** `PipeInv`: `completed_chunks` is the number of chunks that were
marked (`Counted`), `has_failed` is set before any chunk skips a stage (`Honest`),
and what the caller's thread has done (`Issued`) and who has answered (`Answered`).
That a success is true needs all four, because the chunk that settles the promise
reads two atomics that others write. `AnswerFinal`: no late chunk revises an answer.

**Task pool.** `TaskPoolInv`: the remaining counter is exactly the helpers queued or
active (`Outstanding`), whoever leaves a loop has seen its end (`Exhausted`), chunks
that run at the same time are disjoint (`Apart`), and `ran` says which are over
(`Ran`). `ReturnedStays`: nothing touches a frame once its loop has returned.

**Reshard control plane.** `IInv`: every attempt has the arms and sends of its
sub-plan, and goes to send only with every destination armed (`Attempts`); a source
sends only what an attempt dispatched to it, once (`Sessions`); rows belong to known
units, a generation told cancelled has none, and who voted is done (`RegistryOk`);
and an attempt that works, with a sub-plan to arm, to dispatch or being read, holds
a claim that has not expired, with its rows, of a generation not told cancelled
(`Claims`). The claim could be lost in four ways. A cancellation is refused while it
stands. A sibling's abandon takes one owner, and gives the claim up only after the
last. Expiry is what promptness excludes. The votes retire it only when all units
voted, and a source of an attempt at work cannot have: where no stage is tried twice
only this attempt could have sent its part (`UnsentNotDone`, `NotAllVoted`). Retries
are left out of the claim properties, because a vote then counts what the failed
attempt sent; `ArmedFirst` is proved with them.

**Weight-sync caches.** Two invariants, because the controller and the encoder share
no variable; the theorem takes the specifications of both, and `weights` runs each by
itself. `CtlInv`: of each unit a job has read so far, the destinations after its first
read and all members after the second, it has what is registered now, or the unit
changed since and the job missed it (`FreshDsts`, `Fresh`); the cache holds, under the job's own key, the
schedule of a job that will not touch it again (`Cached`, `Settled`). Freshness of
the cache alone is not inductive: a schedule enters it long after it was read.
Counting (`Begun`, `Owing`) shows that each call finds a job of its own, so a new
one cannot overwrite a cached schedule. `PayInv`: each payload names, under both its
keys, the transfer of the key; an encoder's object has the fields it has assigned so
far, unless two threads patched it at once; an object being built is nobody else's;
and the keys are those of the remembered calls, which eviction keeps. The two
exceptions are the property's own: `missed`, the units that changed after the
schedule had read them and without its learning of it, and `raced` for a patch of a
shared template.

Many leaves name Zenon: they are set and first-order reasoning that it finishes
sooner than the SMT solver starts.

Only model-checked, and why:

- All liveness and everything about fairness: out of TLAPS's reach.
- `ImplementsTable`, `RecoversNewest`: the table and recovery sort and fold
  (`SetToSortSeq`, `FoldLeft`), which the provers cannot reason about without
  induction over the sequence.
- `BlocksOwnedOnce`, `PinsBalanced`, `ReadersSeeData`, `TableSound`, `HitsHeld`:
  the batches of `HostStore` fold the operators of `LRUCache` over sequences, an
  induction over data. What one such operator does is proved.
- `LookupsSound`, `CopiesTrue`: lookups and the merging of runs select from and
  fold over sequences; the same.
- `TilingExact`, `PlansExact`, `PlanSound`, `PushesExact`: what recursive
  definitions compute, checked over bounded inputs.
- `ReactorSafe`: a finite system without parameters, which TLC exhausts.
- The properties of `Transfer`, `ReshardSession`, `SubPlanChains`, `Broadcast`,
  `JobEntity`, `WeightReceive` and `WeightSend`: not attempted yet.

## 5. Where code and documentation disagree

Each of these has a run, and a finding in `PROJECT.json` with the lines.

1. `host_leak`: a demoted candidate is a lookup miss but still has its host
   block. Inserting it again (`host_offload_backend.cc:568`, also `:483`) overwrites
   the value, and the block stays allocated with no owner.
2. `host_early_peers`: the peer-facing server starts before recovery claims the
   surviving blocks (`kv_cache_store.cc:449`). A peer write accepted in between
   may overwrite a block that the table still binds.
3. `remote_lost_ack`: if the call breaks after acceptance and before the ack,
   the source lets go of the pin at once (`kv_cache_store.cc:2377`) while the
   destination pulls on and may commit. A failed poll does the same.
4. `mapping_refused`: when the device refuses a later object of a layer, the
   objects already issued are in no future (`kv_cache_manager_base.cc:4485`), and an
   unmap does not wait for them.

Met while modelling and followed by the model, with no run of their own:

- With a second tier, a failed local save releases the caller's pin
  (`kv_cache_store.cc:1261`), although `kv_cache_store.h:95-97` says "A FAILED
  operation does not spend the pin". `Secondary` is that line.
- `AllocateBlockIds` (`kv_cache_store.cc:2182`) counts unpinned HBM-only entries as
  victims although they free no block.
- `InsertAndPin` pins existing entries before it checks the space and unpins them
  on refusal (`host_offload_backend.cc:551`). That moves them to the MRU end,
  although `kv_cache_store.h:286` says "without modifying the backend".
- An offer settled by its result or a poll stays in `active_remote_writes_`;
  `~KVCacheStore` (`kv_cache_store.cc:1008`) then releases its hashes once more.
  `HoldsBalanced` counts pins only while the store lives.
- A stream that the destination ends `CANCELLED` (its reactor does so when a write
  fails) is taken for the source's own cancellation: the handler returns
  (`host_offload_backend.cc:983`), and the pin and the pending mark stay until the
  store is destroyed.
- `D2h()` and `BindWeights()` check for active pushes and then act
  (`weight_synchronizer_base.cc:1213`): a push that begins to send after the check
  can send what they overwrite. `raced` marks such pushes in `WeightSend`, and
  `PushesExact` leaves them out; the others are protected.
- A layer that arrives while no weights are bound is reported as tiled although it
  is not (`weight_synchronizer_base.cc:855`), and after a new bind is copied as it
  is; an engine that copies by itself leaves layers in the weights bound before.
  A transfer drained by `SHUTDOWN` counts as completed. `WeightsOnDevice` leaves
  these three out.
- The receiver of a raw buffer push compares the size of one run with its buffer and
  subtracts the total of touching runs in unsigned arithmetic
  (`raw_buffer_transport.cc:541`). A total larger than the buffer wraps; `PushesExact` says
  nothing of the success of such a push. `Word` is 2^30 in place of 2^64.
- The refusals of `WriteRemote` (`kv_cache_store_service.cc:640-740`) call `Finish`
  without setting `finished_`. `GrpcContract` leaves refusals out.
- `PosixBackend`: a lookup may confirm a key that was deleted meanwhile
  (`posix_backend.cc:1133`, `:1211`), and every hit renews the time to live (`:986`).
- A chunked transfer answers an error while copies of other chunks are still in
  flight (`kv_cache_manager_base.cc:1247`, `:1664`). `PromiseTrue` claims quiet
  only after a success.
- A completed claim of a request retires its blocks for all remaining owners,
  although `request_block_registry.h:144-146` speaks of the last.
- A waiter of a shared transfer in `raiden_controller.py` is told success although
  the transfer it joined failed, and its time-out cancels the shared future
  (`job_entity.py:444-470`).

Deliberate in the code: destroying a source store releases its pins while
destinations may still pull. `PinCoversPull` and `VerdictsTrue` are claimed while the
source store lives.

## 6. Not modelled

- Registry contents (it answers arbitrarily), block trackers, the monitor's
  schedule, worker registry, control pipe, node set-up, telemetry, bindings.
- Allocation inside the staging arena, the pacer, byte framing, reconnects.
- In `CopyPipeline`: a call of several chunks on a manager without a push pool, and
  chunks of more than one block. In `DeviceCopy`: a copy whose completion mixes a
  future and events. In `ExternalMapping`: `TrackExternalCopy`.
- In `WeightReceive`: waits for an explicit device-to-host copy, block pushes, layers
  of mixed tiling. In `WeightSend`: a restaging concurrent with `skip_d2h`. In
  `BufferPush`: engines whose local and global shard numbers overlap. In
  `WeightController`: legacy units and registrations that change the topology.
- In `Broadcast`: the legacy mode that sends lists of slices. In `ReshardControl`:
  delivery to senders through a controller (`WorkerDelivery::Mode::kController`).
- In the weights' reshard planner: layouts that are not row-major (`to_physical`); in
  the pools' planner: `nd_slice_math.py`; in the manager, a second report after
  a sweep and two pushes under one uuid.
- The device runtime and the transports' sockets: external, by how the code uses
  them.
