----------------------------- MODULE DeviceCopy -----------------------------
(***************************************************************************)
(* Copies between the device's layers and their host buffers in            *)
(* KVCacheManagerBase: H2d, D2h and their Direct forms.  A call names runs *)
(* of blocks; it is dispatched on the caller's thread, or queued for the   *)
(* background worker.  A dispatch groups the (layer, shard) pairs by the   *)
(* NUMA node of the device, submits every group on the DMA pool, waits for *)
(* the submissions in the order of the nodes, and joins the DMAs' futures. *)
(* Offsets are in blocks in a call and in bytes in a DMA.                  *)
(***************************************************************************)
EXTENDS Integers, Sequences, FiniteSets, SequencesExt, FiniteSetsExt

CONSTANTS CopySites    \* buffers, NUMA nodes, calls, faults

All == -1              \* std::nullopt of an index
Stale == {-1, 1}       \* what a read past the end of a list may find

VARIABLES dev,         \* the site that runs
          queue,       \* task_queue_
          shutdown,    \* shutdown_
          req,         \* call -> where it is, and what its future holds at the end
          group,       \* call -> node -> works still to submit, and whether one failed
          flight,      \* DMAs that run: [call, work, run]
          bad,         \* calls a DMA of which failed
          moved,       \* history: call -> bytes moved, [layer, shard, host, from, to]
          wanted,      \* history: call -> bytes it asks for
          trouble      \* faults still to come

copyVars == <<dev, queue, shutdown, req, group, flight, bad, moved, wanted, trouble>>

Calls == DOMAIN dev.calls

-----------------------------------------------------------------------------
(* Host buffers *)

\* AllocateHostLayers: a buffer for each layer, as wide as its rows; with fewer
\* buffers than layers, buffers that can stage any layer.
Shared == dev.staging < Len(dev.layers)
Widest(field) == Max({dev.layers[l][field] : l \in DOMAIN dev.layers})
AllocateHostLayers ==
  [h \in 1..dev.staging |->
     [size |-> dev.blocks * (IF Shared THEN Widest("block") ELSE dev.layers[h].block),
      device |-> IF Shared THEN Widest("size") ELSE dev.layers[h].size]]
Host(h) == AllocateHostLayers[h]

-----------------------------------------------------------------------------
(* Lists of copies *)

NonNegative(q) == \A s \in {q.src, q.dst, q.sizes} : \A i \in DOMAIN s : s[i] >= 0

\* An empty dst_offsets or sizes passes whatever the length of src_offsets.
ValidateOffsetsAndSizes(q) ==
  /\ \A s \in {q.dst, q.sizes} : s = <<>> \/ Len(s) = Len(q.src)
  /\ NonNegative(q)

\* The lists as the loops over src_offsets read them: a list that is empty is
\* read past its end, which finds d or n.
Read(q, d, n) ==
  [q EXCEPT !.dst = IF @ = <<>> THEN [i \in DOMAIN q.src |-> d] ELSE @,
            !.sizes = IF @ = <<>> THEN [i \in DOMAIN q.src |-> n] ELSE @]

\* Mutant: runs that follow each other in the source only are merged too.
Extends_SourceOnly(run, c) == c.src = run.src + run.size

Extends(run, c) == c.src = run.src + run.size /\ c.dst = run.dst + run.size

\* CoalesceMajorDimCopies: a copy that goes on where the last one ends extends it.
CoalesceMajorDimCopies(q) ==
  FoldLeft(LAMBDA out, c :
             IF out # <<>> /\ Extends(Last(out), c)
             THEN [out EXCEPT ![Len(out)].size = @ + c.size]
             ELSE Append(out, c),
           <<>>,
           [i \in DOMAIN q.src |-> [src |-> q.src[i], dst |-> q.dst[i], size |-> q.sizes[i]]])

\* CheckAllLayersHaveHostBuffers
CheckAllLayersHaveHostBuffers(q) == q.layer = All => dev.staging >= Len(dev.layers)

\* HostSpan: the bytes of a staging slot in a host layer.
SlotBytes(h) == dev.major * dev.layers[h].block
HostSpan(h, slot) == [ok |-> slot \in 0..(dev.slots - 1) /\ (slot + 1) * SlotBytes(h) <= Host(h).size,
                      base |-> slot * SlotBytes(h), size |-> SlotBytes(h)]

\* The host bytes a call works in.
HostArea(q, w) == IF q.slot = All THEN [ok |-> TRUE, base |-> 0, size |-> Host(w.host).size]
                  ELSE HostSpan(w.host, q.slot)

-----------------------------------------------------------------------------
(* Works *)

Selected(want, i) == want = All \/ want = i

\* The (layer, shard) pairs of a call, layer by layer.
Works(q) ==
  LET shards == Len(dev.nodes)
      work(i) == [layer |-> ((i - 1) \div shards) + 1, shard |-> ((i - 1) % shards) + 1]
      with(w) == [layer |-> w.layer, shard |-> w.shard, host |-> IF q.host = All THEN w.layer ELSE q.host]
  IN SelectSeq([i \in 1..(Len(dev.layers) * shards) |-> with(work(i))],
               LAMBDA w : Selected(q.layer, w.layer) /\ Selected(q.shard, w.shard))

\* The works of a call on one NUMA node; H2dDirect has one loop for all.
NodeWorks(q, n) == SelectSeq(Works(q), LAMBDA w : q.via = "direct" \/ dev.nodes[w.shard] = n)
NodesOf(q) == IF q.via = "direct" THEN {0} ELSE {dev.nodes[w.shard] : w \in ToSet(Works(q))}

\* What H2dSyncDispatch checks before it submits anything.
H2dAccepts(q) ==
  /\ ValidateOffsetsAndSizes(q)
  /\ q.layer # All => q.layer \in DOMAIN dev.layers
  /\ q.shard # All => q.shard \in DOMAIN dev.nodes
  /\ q.host # All => q.layer # All
  /\ CheckAllLayersHaveHostBuffers(q)

\* DispatchD2hChunks checks the same; D2hDirect gives it the device for the
\* shard, so that "every device" is a shard out of range.
D2hAccepts(q) == H2dAccepts(q) /\ (q.via = "direct" => q.shard # All)

\* H2dDirect checks the lengths only, of a list that is not empty, and never
\* merges.
DirectAccepts(q) == q.src = <<>> \/ (Len(q.src) = Len(q.dst) /\ Len(q.src) = Len(q.sizes))

Direct(q) == q.via = "direct" /\ q.dir = "h2d"
Accepts(q) == CASE Direct(q) -> DirectAccepts(q)
                [] q.dir = "h2d" -> H2dAccepts(q)
                [] OTHER -> D2hAccepts(q)

\* Calls that read past the end of a vector: of dst_offsets or sizes, or, in
\* H2dDirect, of the host layers when they are fewer than the layers.
Undefined(q) == IF Direct(q) THEN dev.staging < Len(dev.layers)
                ELSE q.src # <<>> /\ <<>> \in {q.dst, q.sizes}

\* The DMAs of one work, in bytes of the host area and of the device layer;
\* without a list the whole layer.
RunsOf(q) == IF Direct(q)
             THEN [i \in DOMAIN q.src |-> [src |-> q.src[i], dst |-> q.dst[i], size |-> q.sizes[i]]]
             ELSE CoalesceMajorDimCopies(q)
Dmas(q, w, runs) ==
  LET b == dev.layers[w.layer].block
  IN IF q.src = <<>> THEN <<[src |-> 0, dst |-> 0, size |-> dev.layers[w.layer].size]>>
     ELSE [i \in DOMAIN runs |-> [src |-> runs[i].src * b, dst |-> runs[i].dst * b, size |-> runs[i].size * b]]

Submissions(q, n) ==
  LET works == NodeWorks(q, n)
      runs == RunsOf(q)
  IN [i \in DOMAIN works |-> [work |-> works[i], dmas |-> Dmas(q, works[i], runs)]]

\* DispatchH2dWork: the host layer exists and every DMA stays inside the host
\* area and inside device_size of the host layer.
H2dFits(q, w, dmas) ==
  /\ w.host \in 1..dev.staging /\ HostArea(q, w).ok
  /\ \A i \in DOMAIN dmas : /\ dmas[i].src + dmas[i].size <= HostArea(q, w).size
                           /\ q.src # <<>> => dmas[i].dst + dmas[i].size <= Host(w.host).device

\* DispatchD2hWork
D2hFits(q, w, dmas) ==
  /\ w.host \in 1..dev.staging /\ HostArea(q, w).ok
  /\ \A i \in DOMAIN dmas : /\ dmas[i].dst + dmas[i].size <= HostArea(q, w).size
                           /\ q.src # <<>> => dmas[i].src + dmas[i].size <= Host(w.host).device

Fits(q, w, dmas) == IF q.dir = "h2d" THEN H2dFits(q, w, dmas) ELSE D2hFits(q, w, dmas)

\* History: the bytes a call asks for, from its lists as they were given.
Wanted(q) ==
  LET shift(h, side) == IF q.slot # All /\ side = q.dir THEN q.slot * dev.major * dev.layers[h].block ELSE 0
      pairs(w) == IF q.src = <<>> THEN {<<k, k>> : k \in 0..(dev.layers[w.layer].size - 1)}
                  ELSE UNION {{<<q.src[i] * dev.layers[w.layer].block + k,
                                 q.dst[i] * dev.layers[w.layer].block + k>> :
                                 k \in 0..(q.sizes[i] * dev.layers[w.layer].block - 1)} :
                              i \in DOMAIN q.src \cap DOMAIN q.dst \cap DOMAIN q.sizes}
  IN UNION {{[layer |-> w.layer, shard |-> w.shard, host |-> w.host,
              from |-> p[1] + shift(w.host, "h2d"), to |-> p[2] + shift(w.host, "d2h")] : p \in pairs(w)}
            : w \in ToSet(Works(q))}

-----------------------------------------------------------------------------
CopyInit ==
  /\ dev \in CopySites
  /\ queue = <<>> /\ shutdown = FALSE
  /\ req = [r \in DOMAIN dev.calls |-> "idle"]
  /\ group = [r \in DOMAIN dev.calls |-> <<>>]
  /\ flight = {} /\ bad = {}
  /\ moved = [r \in DOMAIN dev.calls |-> {}]
  /\ wanted = [r \in DOMAIN dev.calls |-> Wanted(dev.calls[r])]
  /\ trouble = dev.trouble

Trouble == trouble > 0 /\ trouble' = trouble - 1

\* H2dAsyncDispatch and D2hAsyncDispatch: refused, cancelled, or queued.
AsyncDispatch(r) ==
  /\ req[r] = "idle" /\ dev.calls[r].via = "async"
  /\ IF ~CheckAllLayersHaveHostBuffers(dev.calls[r])
     THEN req' = [req EXCEPT ![r] = "refused"] /\ UNCHANGED queue
     ELSE IF shutdown
     THEN req' = [req EXCEPT ![r] = "cancelled"] /\ UNCHANGED queue
     ELSE req' = [req EXCEPT ![r] = "queued"] /\ queue' = Append(queue, r)
  /\ UNCHANGED <<dev, shutdown, group, flight, bad, moved, wanted, trouble>>

\* WorkerLoop takes a task when the one before is dispatched.
Dispatching(r) == req[r] \in {"dispatch", "groups"}
TakeTask ==
  /\ queue # <<>>
  /\ ~\E r \in Calls : dev.calls[r].via = "async" /\ Dispatching(r)
  /\ req' = [req EXCEPT ![Head(queue)] = "dispatch"]
  /\ queue' = Tail(queue)
  /\ UNCHANGED <<dev, shutdown, group, flight, bad, moved, wanted, trouble>>

\* H2dSyncDispatch, DispatchD2hChunks and H2dDirect, up to the submissions.  A
\* read past the end finds any value, or ends the process.
SyncDispatch(r) ==
  LET q == dev.calls[r]
  IN /\ req[r] = "dispatch" \/ (req[r] = "idle" /\ q.via # "async")
     /\ \/ /\ Accepts(q)
           /\ req' = [req EXCEPT ![r] = "groups"]
           /\ \E d, s \in IF Undefined(q) THEN Stale ELSE {0} :
                group' = [group EXCEPT ![r] = [n \in NodesOf(q) |->
                                                 [todo |-> Submissions(Read(q, d, s), n), failed |-> FALSE]]]
           /\ UNCHANGED <<queue, flight>>
        \/ /\ ~Accepts(q)
           /\ req' = [req EXCEPT ![r] = "refused"]
           /\ UNCHANGED <<queue, group, flight>>
        \/ /\ Accepts(q) /\ Undefined(q)
           /\ req' = [c \in Calls |-> "gone"] /\ group' = [c \in Calls |-> <<>>]
           /\ queue' = <<>> /\ flight' = {}
     /\ UNCHANGED <<dev, shutdown, bad, moved, wanted, trouble>>

Running(r, n) == ~group[r][n].failed /\ group[r][n].todo # <<>>

\* DispatchH2dWork and DispatchD2hWork: one work of a group.
DispatchWork(r, n) ==
  LET w == Head(group[r][n].todo).work
      dmas == Head(group[r][n].todo).dmas
      submit(js) == flight \cup {[call |-> r, work |-> w, run |-> dmas[j]] : j \in js}
  IN /\ n \in DOMAIN group[r] /\ Running(r, n)
     /\ \/ /\ ~Fits(dev.calls[r], w, dmas)
           /\ group' = [group EXCEPT ![r][n].failed = TRUE]
           /\ UNCHANGED <<flight, trouble>>
        \/ /\ Fits(dev.calls[r], w, dmas)
           /\ group' = [group EXCEPT ![r][n].todo = Tail(@)]
           /\ flight' = submit(DOMAIN dmas)
           /\ UNCHANGED trouble
        \/ /\ Fits(dev.calls[r], w, dmas) /\ Trouble
           /\ group' = [group EXCEPT ![r][n].failed = TRUE]
           /\ \E k \in DOMAIN dmas : flight' = submit(1..(k - 1))
     /\ UNCHANGED <<dev, queue, shutdown, req, bad, moved, wanted>>

\* The submissions are awaited in the order of the nodes; the first that failed
\* ends the call, while the others and their DMAs go on.
AwaitGroups(r) ==
  LET done(n) == ~group[r][n].failed /\ ~Running(r, n)
      first(n) == \A m \in DOMAIN group[r] : m < n => done(m)
  IN /\ req[r] = "groups"
     /\ \/ /\ \A n \in DOMAIN group[r] : done(n)
           /\ req' = [req EXCEPT ![r] = "wait"]
        \/ /\ \E n \in DOMAIN group[r] : first(n) /\ group[r][n].failed
           /\ req' = [req EXCEPT ![r] = "error"]
     /\ UNCHANGED <<dev, queue, shutdown, group, flight, bad, moved, wanted, trouble>>

\* The bytes a DMA moves.
BytesOf(d) ==
  LET q == dev.calls[d.call]
      m == d.run
      base == HostArea(q, d.work).base
  IN {[layer |-> d.work.layer, shard |-> d.work.shard, host |-> d.work.host,
       from |-> m.src + k + (IF q.dir = "h2d" THEN base ELSE 0),
       to |-> m.dst + k + (IF q.dir = "d2h" THEN base ELSE 0)] : k \in 0..(m.size - 1)}

\* A DMA ends.
DmaEnd(d) ==
  /\ \/ /\ moved' = [moved EXCEPT ![d.call] = @ \cup BytesOf(d)]
        /\ UNCHANGED <<bad, trouble>>
     \/ /\ Trouble
        /\ bad' = bad \cup {d.call}
        /\ UNCHANGED moved
  /\ flight' = flight \ {d}
  /\ UNCHANGED <<dev, queue, shutdown, req, group, wanted>>

\* JoinPjRtCopyFutures and OnReady: every DMA of the call is over.
Settle(r) ==
  /\ req[r] = "wait"
  /\ ~\E d \in flight : d.call = r
  /\ req' = [req EXCEPT ![r] = IF r \in bad THEN "error" ELSE "ok"]
  /\ UNCHANGED <<dev, queue, shutdown, group, flight, bad, moved, wanted, trouble>>

\* ~KVCacheManagerBase: no task is taken any more, the queued ones are cancelled.
Shutdown ==
  /\ ~shutdown /\ dev.ends
  /\ shutdown' = TRUE
  /\ req' = [r \in Calls |-> IF r \in ToSet(queue) THEN "cancelled" ELSE req[r]]
  /\ queue' = <<>>
  /\ UNCHANGED <<dev, group, flight, bad, moved, wanted, trouble>>

CopyNext ==
  \/ \E r \in Calls : \/ AsyncDispatch(r) \/ SyncDispatch(r) \/ AwaitGroups(r) \/ Settle(r)
                      \/ \E n \in DOMAIN group[r] : DispatchWork(r, n)
  \/ TakeTask
  \/ \E d \in flight : DmaEnd(d)
  \/ Shutdown

-----------------------------------------------------------------------------
(* Properties *)

\* What the code leaves to its callers: lists of one length (a list that is
\* given empty is not refused), and for H2dDirect no negative entry and a host
\* buffer for each layer.
WellFormed(q) == ~Undefined(q) /\ (Direct(q) => NonNegative(q))

\* A well-formed call that reports success has moved every byte of its list,
\* for every layer and shard it selects, to where the list says; it moves no
\* other byte and none outside a buffer, whatever malformed calls run beside
\* it.  A call that was refused or cancelled, of any form, moves none.
CopiesTrue ==
  \A r \in Calls :
    /\ WellFormed(dev.calls[r]) =>
         /\ moved[r] \subseteq wanted[r]
         /\ req[r] = "ok" => moved[r] = wanted[r]
         /\ \A m \in moved[r] :
              LET h == IF dev.calls[r].dir = "h2d" THEN m.from ELSE m.to
                  d == IF dev.calls[r].dir = "h2d" THEN m.to ELSE m.from
              IN h \in 0..(Host(m.host).size - 1) /\ d \in 0..(dev.layers[m.layer].size - 1)
    /\ req[r] \in {"refused", "cancelled"} => moved[r] = {} /\ ~\E d \in flight : d.call = r

\* Every call is answered, or gone with its process, and every DMA ends.
CopyOver == /\ \A r \in Calls : req[r] \in {"ok", "error", "refused", "cancelled", "gone"}
            /\ flight = {}
=============================================================================
