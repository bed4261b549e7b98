------------------------------ MODULE BufferPush ------------------------------
(***************************************************************************)
(* From the push schedule of a sender to the bytes in its peers' memory:   *)
(* which of its shards a schedule is for and which tasks its entries are   *)
(* (weight_sync/weight_synchronizer_base.cc), how the raw transport puts   *)
(* the tasks in batches, writes a batch to a connection and, at the other  *)
(* end, reads it into place (transport/lib/raw_buffer_transport.cc).       *)
(*                                                                         *)
(* A byte of the sender is <<layer, shard, offset>>; a place of a peer is  *)
(* <<peer, layer, shard, offset>>.  An entry is [peers, dshard, layer,     *)
(* src, dst, size, n, ss, ds, outer], outer three lists [n, s, d].         *)
(***************************************************************************)
EXTENDS Integers, Sequences, FiniteSets, SequencesExt, FiniteSetsExt

CONSTANTS
    PushJobs,      \* [engine: [shards, local, global, size, device, room], with room
                   \*  the size of a peer's buffer; keyed: schedules by key, preTiled,
                   \*  skipD2h, parallelism, window, fails]
    MaxIov         \* IOV_MAX

VARIABLES
    job,
    batches,       \* what PushBuffers has formed: [tasks, from, to], with the bytes
                   \* that are written and the places they are read to
    status,        \* per batch, "none", "ok" or "failed"
    placed,        \* the memory of the peers
    result,        \* of PushBuffers: "none", "ok" or "failed"
    wanted         \* what the schedules ask for (history)

bufVars == <<job, batches, status, placed, result, wanted>>

Engine == job.engine
At(s, i, default) == IF i \in DOMAIN s THEN s[i] ELSE default

-----------------------------------------------------------------------------
(* ResolveShardPushSchedules: the key whose schedule shard i follows, or   *)
(* NoKey.  Shards and keys count from 0.                                   *)
NoKey == -1
ScheduleKeys == DOMAIN job.keyed
IsLocal(k) == IF Engine.local = <<>> THEN k \in 0..(Engine.shards - 1)
              ELSE k \in Range(Engine.local)
GlobalShard(i) == At(Engine.global, i + 1, i)
LocalShard(i) == At(Engine.local, i + 1, i)

(* Schedules of a slice of a job, one per shard and none of them under a   *)
(* number of the engine's own, are taken in order.                         *)
SlicedKeys ==
    LET own(i) == GlobalShard(i) = i /\ LocalShard(i) = i
        direct(i) == {LocalShard(i), GlobalShard(i)} \cap ScheduleKeys # {}
        S == 0..(Engine.shards - 1)
        first == {i \in S : ~own(i) \/ direct(i)}
    IN  IF Cardinality(ScheduleKeys) = Engine.shards /\ first = {}
        THEN SetToSortSeq(ScheduleKeys, LAMBDA a, b : a < b) ELSE <<>>

KeyOf(i) ==
    LET useGlobal == Engine.global # <<>> /\ \E k \in ScheduleKeys : ~IsLocal(k)
        g == GlobalShard(i)
        l == LocalShard(i)
    IN  IF ~useGlobal /\ l \in ScheduleKeys THEN l
        ELSE IF g \in ScheduleKeys THEN g
        ELSE At(SlicedKeys, i + 1, NoKey)

ScheduleRefused ==
    Engine.global = <<>> /\ SlicedKeys = <<>> /\ \E k \in ScheduleKeys : ~IsLocal(k)

-----------------------------------------------------------------------------
(* BuildLayerPushTasks: an entry becomes one task per outer index and      *)
(* peer, in the list of its layer.  A relay of tiled buffers sends the     *)
(* whole of the shard.  The layers of a group are pushed together.         *)
Whole(e) == IF job.preTiled
            THEN [e EXCEPT !.n = 1, !.src = 0, !.dst = 0, !.size = Engine.device]
            ELSE [e EXCEPT !.n = Max({1, @})]

Times(s) == FoldLeft(LAMBDA acc, n : acc * n, 1, s)
Outer(e) == Times(e.outer.n)

(* The offset that the outer index k, in row-major order, adds. *)
OuterOffset(e, k, f) ==
    LET below(d) == Times(SubSeq(e.outer.n, d + 1, Len(e.outer.n)))
        add(acc, d) == acc + ((k \div below(d)) % e.outer.n[d]) * e.outer[f][d]
    IN  FoldLeft(add, 0, [d \in DOMAIN e.outer.n |-> d])

(* The step between two runs, and whether the runs are one. *)
Step(e, f) == IF e[f] > 0 THEN e[f] ELSE e.size
Solid(e) == e.n = 1 \/ (Step(e, "ss") = e.size /\ Step(e, "ds") = e.size)

NumLayers == 2

(* What BuildLayerPushTasks refuses (InvalidArgument): a layer that the    *)
(* engine does not have, outer dimensions in a relay of tiled buffers,     *)
(* overlapping source runs, outer lists of different lengths or an outer   *)
(* count of 0, and a range outside the source buffer.                      *)
EntryRefused(entry) ==
    LET e == Whole(entry)
        span == IF Solid(e) THEN e.n * e.size ELSE (e.n - 1) * Step(e, "ss") + e.size
    IN  \/ e.layer \notin 0..(NumLayers - 1)
        \/ job.preTiled /\ e.outer.n # <<>>
        \/ ~Solid(e) /\ Step(e, "ss") < e.size
        \/ Len(e.outer.s) # Len(e.outer.n) \/ Len(e.outer.d) # Len(e.outer.n)
        \/ \E n \in Range(e.outer.n) : n <= 0
        \/ \E k \in 0..(Outer(e) - 1) : e.src + OuterOffset(e, k, "s") + span > Engine.size

TasksOf(i, entry) ==
    LET e == Whole(entry)
        ss == Step(e, "ss")
        ds == Step(e, "ds")
        solid == Solid(e)
        task(k, p) ==
            [peer |-> p, layer |-> e.layer, from |-> i, dshard |-> e.dshard,
             src |-> e.src + OuterOffset(e, k, "s"), dst |-> e.dst + OuterOffset(e, k, "d"),
             size |-> IF solid THEN e.n * e.size ELSE e.size,
             n |-> IF solid THEN 1 ELSE e.n,
             ss |-> IF solid THEN 0 ELSE ss, ds |-> IF solid THEN 0 ELSE ds]
    IN  FlattenSeq([k \in 1..Outer(e) |-> [p \in DOMAIN e.peers |-> task(k - 1, e.peers[p])]])

Tasks ==
    LET ofShard(l, i) ==
            IF KeyOf(i) = NoKey THEN <<>>
            ELSE LET es == SelectSeq(job.keyed[KeyOf(i)], LAMBDA e : e.layer = l)
                 IN  FlattenSeq([k \in DOMAIN es |-> TasksOf(i, es[k])])
        ofLayer(l) == FlattenSeq([i \in 1..Engine.shards |-> ofShard(l, i - 1)])
    IN  FlattenSeq([l \in 1..NumLayers |-> ofLayer(l - 1)])

TasksRefused ==
    \/ job.preTiled /\ ~job.skipD2h
    \/ ScheduleRefused
    \/ \E i \in 0..(Engine.shards - 1) :
           KeyOf(i) # NoKey /\ \E e \in Range(job.keyed[KeyOf(i)]) : EntryRefused(e)

-----------------------------------------------------------------------------
(* PushBuffers: the tasks of a peer, in their order, are cut into batches  *)
(* of even size, at most MaxIov, and these at the coalescing window.       *)
Bytes(t) == t.n * t.size

Peers(tasks) == FoldLeft(LAMBDA acc, t : IF Contains(acc, t.peer) THEN acc ELSE Append(acc, t.peer),
                         <<>>, tasks)

CutEvery(s, size) ==
    [k \in 1..((Len(s) + size - 1) \div size) |->
        SubSeq(s, (k - 1) * size + 1, Min({k * size, Len(s)}))]

Windows(s) ==
    LET add(acc, t) ==
            IF acc # <<>> /\ FoldLeft(LAMBDA n, x : n + Bytes(x), Bytes(t), Last(acc)) <= job.window
            THEN Append(Front(acc), Append(Last(acc), t))
            ELSE Append(acc, <<t>>)
    IN  IF job.window = 0 THEN <<s>> ELSE FoldLeft(add, <<>>, s)

PeerBatches(tasks, p) ==
    LET own == SelectSeq(tasks, LAMBDA t : t.peer = p)
        par == Max({1, job.parallelism})
        cuts == CutEvery(own, Min({Max({1, (Len(own) + par - 1) \div par}), MaxIov}))
    IN  FlattenSeq([k \in DOMAIN cuts |-> Windows(cuts[k])])

PushBatches(tasks) ==
    LET peers == Peers(tasks)
    IN  FlattenSeq([k \in DOMAIN peers |-> PeerBatches(tasks, peers[k])])

-----------------------------------------------------------------------------
(* AppendOrMergeIov: iov segments are [base: a place, len]. *)
Shifted(place, by) == [place EXCEPT ![Len(place)] = @ + by]

AppendOrMergeIov(iovs, base, len) ==
    IF len = 0 THEN iovs
    ELSE IF iovs # <<>> /\ Shifted(Last(iovs).base, Last(iovs).len) = base
    THEN Append(Front(iovs), [Last(iovs) EXCEPT !.len = @ + len])
    ELSE Append(iovs, [base |-> base, len |-> len])

Runs(iovs, base, size, step, n) ==
    IF n = 1 \/ step = size THEN AppendOrMergeIov(iovs, base, n * size)
    ELSE FoldLeft(LAMBDA acc, c : AppendOrMergeIov(acc, Shifted(base, (c - 1) * step), size),
                  iovs, [c \in 1..n |-> c])

Addresses(iovs) ==
    FlattenSeq([k \in DOMAIN iovs |-> [j \in 1..iovs[k].len |-> Shifted(iovs[k].base, j - 1)]])

(* ProcessSocketBufferBatchPush: the metadata (strides are sent only when  *)
(* a task of the batch has several runs) and the bytes, gathered.          *)
Metadata(b) ==
    LET v2 == \E k \in DOMAIN b : b[k].n > 1
    IN  [k \in DOMAIN b |-> [b[k] EXCEPT !.n = IF v2 THEN @ ELSE 1, !.ds = IF v2 THEN @ ELSE 0]]

Gather(b) ==
    LET add(acc, t) == Runs(acc, <<t.layer, t.from, t.src>>, t.size,
                            IF t.ss > 0 THEN t.ss ELSE t.size, t.n)
    IN  Addresses(FoldLeft(add, <<>>, b))

\* As Scatter would be if the destination were laid out with the source's stride.
Scatter_SourceStride(metas) ==
    LET add(acc, m) == Runs(acc, <<m.peer, m.layer, m.dshard, m.dst>>, m.size,
                            IF m.ss > 0 THEN m.ss ELSE m.size, m.n)
    IN  Addresses(FoldLeft(add, <<>>, metas))

(* ProcessPeerRequest of a batched push: where the bytes are read to. *)
Scatter(metas) ==
    LET add(acc, m) == Runs(acc, <<m.peer, m.layer, m.dshard, m.dst>>, m.size,
                            IF m.ds > 0 THEN m.ds ELSE m.size, m.n)
    IN  Addresses(FoldLeft(add, <<>>, metas))

Word == 2^30        \* stands for the 2^64 of size_t, beyond TLC's integers

(* The receiver's check.  Runs that touch are one range: their total is    *)
(* subtracted from the size of the buffer in unsigned arithmetic, and only *)
(* the size of one run is compared with it first.                          *)
Touching(m) == m.n = 1 \/ Step(m, "ds") = m.size

OutOfBounds(m) ==
    IF Touching(m) THEN m.size > Engine.room \/ m.dst > (Engine.room - m.n * m.size) % Word
    ELSE \/ Step(m, "ds") < m.size
         \/ m.dst + (m.n - 1) * Step(m, "ds") + m.size > Engine.room

-----------------------------------------------------------------------------
\* What the entry e of the schedule under a key asks of the shard i: from a
\* byte of the shard to the places where it belongs.
Asked(i, e) ==
    IF job.preTiled
    THEN {<<<<p, e.layer, e.dshard, b>>, <<e.layer, i, b>>>> : p \in Range(e.peers), b \in 0..(Engine.device - 1)}
    ELSE LET step(f) == IF e[f] > 0 THEN e[f] ELSE e.size
             dims == DOMAIN e.outer.n
             coords == {c \in [dims -> 0..3] : \A d \in dims : c[d] < e.outer.n[d]}
             off(c, f) == FoldLeft(LAMBDA acc, d : acc + c[d] * e.outer[f][d], 0, [d \in dims |-> d])
         IN  {<<<<p, e.layer, e.dshard, e.dst + off(c, "d") + r * step("ds") + b>>,
                <<e.layer, i, e.src + off(c, "s") + r * step("ss") + b>>>> :
                 p \in Range(e.peers), c \in coords, r \in 0..(Max({e.n, 1}) - 1), b \in 0..(e.size - 1)}

\* The schedule that is meant for shard i: under its number in the job, or in
\* the engine when the keys are such, or the i-th of a slice.
Meant(i) ==
    LET global == At(Engine.global, i + 1, i)
    IN  IF Engine.global # <<>> /\ ScheduleKeys \cap Range(Engine.global) # {} THEN global
        ELSE IF i \in ScheduleKeys THEN i
        ELSE LET below == {k \in ScheduleKeys : Cardinality({j \in ScheduleKeys : j < k}) = i}
             IN  IF Engine.global = <<>> /\ Cardinality(ScheduleKeys) = Engine.shards /\ below # {} THEN Max(below) ELSE NoKey

Wanted ==
    UNION {UNION {Asked(i, e) : e \in Range(job.keyed[Meant(i)])} :
              i \in {i \in 0..(Engine.shards - 1) : Meant(i) \in ScheduleKeys}}

-----------------------------------------------------------------------------
Places == (1..2) \X (0..1) \X (0..1) \X (0..(Engine.room - 1))
Nothing == <<>>

BufInit ==
    /\ job \in PushJobs
    /\ batches = <<>> /\ status = <<>> /\ result = "none" /\ wanted = {}
    /\ placed = [x \in Places |-> Nothing]

(* PushWeightsReshardedLocal hands the tasks to PushBuffers. *)
PushBuffers ==
    /\ result = "none" /\ batches = <<>>
    /\ IF TasksRefused THEN result' = "failed" /\ UNCHANGED <<batches, status>>
       ELSE LET formed == PushBatches(Tasks) IN
            /\ batches' = [k \in DOMAIN formed |->
                   [tasks |-> formed[k], from |-> Gather(formed[k]), to |-> Scatter(Metadata(formed[k]))]]
            /\ status' = [k \in DOMAIN formed |-> "none"]
            /\ result' = IF formed = <<>> THEN "ok" ELSE "none"
    /\ wanted' = IF TasksRefused THEN {} ELSE Wanted
    /\ UNCHANGED <<job, placed>>

(* One batch is sent; a connection that breaks leaves part of it behind.   *)
(* Without parallelism the batches follow each other and stop at an error. *)
PushBatch(k) ==
    LET b == batches[k]
        refused == \E m \in Range(Metadata(b.tasks)) : OutOfBounds(m)
        put(n) == [x \in Places |->
                     LET at == {i \in 1..n : b.to[i] = x}
                     IN  IF at = {} THEN placed[x] ELSE b.from[Max(at)]]
    IN  /\ status[k] = "none"
        /\ job.parallelism <= 1 => \A i \in 1..(k - 1) : status[i] = "ok"
        /\ \/ ~refused /\ placed' = put(Len(b.from)) /\ status' = [status EXCEPT ![k] = "ok"]
           \/ /\ job.fails \/ refused
              /\ \E n \in {0, Len(b.from) \div 2} : placed' = put(IF refused THEN 0 ELSE n)
              /\ status' = [status EXCEPT ![k] = "failed"]
        /\ UNCHANGED <<job, batches, result, wanted>>

PushBuffersEnd ==
    /\ result = "none" /\ batches # <<>>
    /\ \/ \A k \in DOMAIN status : status[k] # "none"
       \/ job.parallelism <= 1 /\ \E k \in DOMAIN status : status[k] = "failed"
    /\ result' = IF \E k \in DOMAIN status : status[k] = "failed" THEN "failed" ELSE "ok"
    /\ UNCHANGED <<job, batches, status, placed, wanted>>

BufNext == PushBuffers \/ PushBuffersEnd \/ \E k \in DOMAIN batches : PushBatch(k)

-----------------------------------------------------------------------------
\* The receiver's check of a range of touching runs that are together larger
\* than the buffer, and none of them alone: the difference wraps around and the
\* range passes.
Wraps == \E k \in DOMAIN batches : \E m \in Range(Metadata(batches[k].tasks)) :
             Touching(m) /\ m.size <= Engine.room /\ m.n * m.size > Engine.room

\* A push that succeeds has put every byte its schedules ask for where they ask
\* for it, so one that asks for a byte outside a buffer fails, and at every
\* moment, failed or not, nothing else is in the peers' buffers; every batch
\* goes to one peer and fits the receiver's limit.  The success of a push is
\* said nothing about when the receiver's check of a range wraps around.
PushLands ==
    /\ \A x \in Places : placed[x] # Nothing => <<x, placed[x]>> \in wanted
    /\ (result = "ok" /\ ~Wraps) => \A w \in wanted : w[1] \in Places /\ placed[w[1]] = w[2]
    /\ \A k \in DOMAIN batches : LET b == batches[k].tasks
                                 IN  Len(b) \in 1..MaxIov /\ \A t \in Range(b) : t.peer = b[1].peer
=============================================================================
