------------------------------ MODULE Broadcast ------------------------------
(***************************************************************************)
(* The pipelined tree broadcast that pushes one set of weights from the    *)
(* trainer's hosts to every sampler (weight_sync/manager/                  *)
(* broadcast_engine.py).  The planner hands over, for every equivalence    *)
(* class of destinations and every layer, which chunks each trainer host   *)
(* pushes; the engine merges the layers into pipeline stages, builds one   *)
(* broadcast tree per stage and class, tells every receiver how many       *)
(* chunks to expect over the whole transfer, and schedules the hops of all *)
(* trees over the workers.                                                 *)
(*                                                                         *)
(* The engine is one asyncio task: what happens between two awaits is one  *)
(* step here.  A hop in flight is a task of its own: it arms its receivers *)
(* and then starts its senders, and either RPC may fail.                   *)
(***************************************************************************)
EXTENDS Integers, Sequences, FiniteSets, SequencesExt, FiniteSetsExt

\* The transfer plans: [seed, stages, srcs, layers, classes], where a class is
\* [dsts, chunks] and chunks[u][l][i] lists the destination shard of every chunk
\* that shard i of trainer host u pushes for layer l.
CONSTANT TransferPlans

VARIABLES
    plan,      \* the CachedTransferSchedule being executed
    tree,      \* the hops of every stage group, built before the first is sent
    queue,     \* ready_queue: per worker, the hops it may send
    flight,    \* transfers_in_progress: [hop -> "arm" | "send" | "ok" | "bad"]
    armed,     \* per receiver, the chunk count of the last StartTransfer to it
    chunks,    \* per receiver, the chunks that arrived under the transfer's uuid
    holds,     \* per receiver, the stages whose data it holds
    status     \* "ready" | "running" | "done" | "failed"

bcastVars == <<plan, tree, queue, flight, armed, chunks, holds, status>>

-----------------------------------------------------------------------------
(* Coalescing the planner's groups into pipeline stages.                   *)

Classes(p) == DOMAIN p.classes

DstsOf(p, cls) == FlattenSeq([i \in DOMAIN cls |-> p.classes[cls[i]].dsts])

\* _groups_need_multi_hop: some class has more destinations than seeds.
NeedMultiHop(p) == \E c \in Classes(p) : Len(p.classes[c].dsts) > p.seed

\* _coalesce_pipeline_groups_cached: a plan that needs no relay runs in one stage.
TargetStages(p) == IF NeedMultiHop(p) THEN p.stages ELSE 1

\* A class's run of layer groups, cut into at most TargetStages(p) stages.
StagesOf(p) ==
    LET n == Len(p.layers)
        size == IF n <= TargetStages(p) THEN 1
                ELSE (n + TargetStages(p) - 1) \div TargetStages(p)
    IN  [k \in 1 .. (n + size - 1) \div size |->
            SubSeq(p.layers, (k - 1) * size + 1, Min({k * size, n}))]

\* _coalesce_pipeline_groups.  A stage group is [slot, cls, layers]: the classes
\* of a one-hop plan share one group (eq_class_groups), otherwise there is one
\* group per class and stage.
Coalesce(p) ==
    LET stages == StagesOf(p)
        slot(k) == IF Len(p.layers) = 1 THEN p.layers[1] ELSE k - 1
    IN  IF TargetStages(p) = 1 /\ Len(p.classes) > 1 /\ ~NeedMultiHop(p)
        THEN <<[slot |-> 0, cls |-> [c \in Classes(p) |-> c], layers |-> p.layers]>>
        ELSE FlattenSeq([c \in Classes(p) |->
                [k \in DOMAIN stages |->
                    [slot |-> slot(k), cls |-> <<c>>, layers |-> stages[k]]]])

-----------------------------------------------------------------------------
(* The broadcast tree of one stage group.                                  *)

Trainer(p) == p.srcs[1]

\* How many new destinations the trainer seeds in a round.
SeedWidth(p, g, left) == IF Len(g.cls) > 1 THEN left ELSE Min({p.seed, left})

\* One round after another: every populated receiver, newest first, sends to one
\* new destination, then the trainer seeds some more.  "sent" counts the hops each
\* sender already has in this tree; a hop is [group, sender, receivers, order].
RECURSIVE Grow(_, _, _, _, _)
Grow(p, g, dsts, populated, sent) ==
    IF Len(dsts) = 0 THEN {}
    ELSE LET relays == Min({Len(populated), Len(dsts)})
             width == SeedWidth(p, g, Len(dsts) - relays)
             parent(i) == populated[Len(populated) + 1 - i]
             relay(i) == [group |-> g, sender |-> parent(i),
                          receivers |-> <<dsts[i]>>, order |-> sent[parent(i)]]
             seeds == SubSeq(dsts, relays + 1, relays + width)
             seed == [group |-> g, sender |-> Trainer(p), receivers |-> seeds,
                      order |-> sent[Trainer(p)]]
             new == SubSeq(dsts, 1, relays + width)
         IN  {relay(i) : i \in 1 .. relays}
               \cup (IF width > 0 THEN {seed} ELSE {})
               \cup Grow(p, g, SubSeq(dsts, relays + width + 1, Len(dsts)),
                         populated \o new,
                         [u \in DOMAIN sent |->
                            sent[u] + (IF u = Trainer(p)
                                       THEN (IF width > 0 THEN 1 ELSE 0)
                                       ELSE Cardinality({i \in 1 .. relays : parent(i) = u}))])

Workers(p) == Range(p.srcs) \cup Range(DstsOf(p, [c \in Classes(p) |-> c]))

Tree(p, i) ==
    LET g == Coalesce(p)[i] IN
    {[h EXCEPT !.group = i] :
        h \in Grow(p, g, DstsOf(p, g.cls), <<>>, [u \in Workers(p) |-> 0])}

Hops(p) == UNION {Tree(p, i) : i \in DOMAIN Coalesce(p)}

IsSeed(h) == h.sender = Trainer(plan)

\* The hops a completed hop makes ready: those its receivers send in that tree.
Children(h) == {k \in tree : k.group = h.group /\ k.sender \in Range(h.receivers)}

-----------------------------------------------------------------------------
(* What a receiver is told to expect, and what the hops push.              *)

ClassOf(p, d) == CHOOSE c \in Classes(p) : d \in Range(p.classes[c].dsts)

\* The planner's canonical relay plan: the destination shards that hold data of a
\* layer once every trainer host has pushed its part.
RelayShards(p, c, l) ==
    UNION {UNION {Range(p.classes[c].chunks[u][l][i]) :
                    i \in DOMAIN p.classes[c].chunks[u][l]} : u \in Range(p.srcs)}

\* Chunks(p, c, u, l) as a set: chunk k of source shard i goes to shard to.
ChunkSet(p, c, u, l) ==
    LET by == p.classes[c].chunks[u][l] IN
    UNION {{[shard |-> i, nth |-> k, to |-> by[i][k]] : k \in DOMAIN by[i]} : i \in DOMAIN by}

\* seed_total_blocks: the chunks for each destination shard, over the trainer's
\* hosts and the stage's layers.
SeedBlocks(p, c, layers) ==
    MapThenSumSet(LAMBDA s :
        MapThenSumSet(LAMBDA l :
            MapThenSumSet(LAMBDA u : Cardinality({x \in ChunkSet(p, c, u, l) : x.to = s}),
                          Range(p.srcs)),
            Range(layers)),
        UNION {RelayShards(p, c, l) : l \in Range(layers)})

\* relay_total_blocks: a relay pushes each shard of a layer as one chunk.
RelayBlocks(p, c, layers) ==
    MapThenSumSet(LAMBDA l : Cardinality(RelayShards(p, c, l)), Range(layers))

\* receiver_block_counts: over all stages, what the hop that feeds d will push.
ExpectedBlocks(d) ==
    LET feeding == {h \in tree : d \in Range(h.receivers)}
        layers(h) == Coalesce(plan)[h.group].layers
    IN  MapThenSumSet(LAMBDA h :
            IF IsSeed(h) THEN SeedBlocks(plan, ClassOf(plan, d), layers(h))
            ELSE RelayBlocks(plan, ClassOf(plan, d), layers(h)), feeding)

\* build_stage_trainer_push_schedules: what trainer host u pushes to d in hop h,
\* the schedule of each of its shards one after another.
TrainerPush(u, h, d) ==
    LET by(l) == plan.classes[ClassOf(plan, d)].chunks[u][l] IN
    MapThenSumSet(LAMBDA l :
        MapThenSumSet(LAMBDA i : Len(by(l)[i]), DOMAIN by(l)),
        Range(Coalesce(plan)[h.group].layers))

\* The relay schedule: per layer, every shard of the receiver that has blocks.
RelayPush(h, d) ==
    Cardinality(UNION {{<<l, s>> : s \in RelayShards(plan, ClassOf(plan, d), l)} :
                            l \in Range(Coalesce(plan)[h.group].layers)})

-----------------------------------------------------------------------------
(* Scheduling.                                                             *)

\* A mutated limit that forgets that one trainer hop may serve several classes.
MaxActive_OneClass(u) == IF u = Trainer(plan) THEN plan.seed ELSE 1

\* max_active: the trainer feeds its seeds of every class at once, a relay one peer.
MaxActive(u) ==
    IF u = Trainer(plan)
    THEN plan.seed * Cardinality({plan.classes[c].dsts : c \in Classes(plan)})
    ELSE 1

ActivePushes(u, hops) ==
    MapThenSumSet(LAMBDA h : Len(h.receivers), {h \in hops : h.sender = u})

\* The heap's order: (child_order, stage_idx, group_idx).
Slot(h) == Coalesce(plan)[h.group].slot
Before(a, b) ==
    \/ a.order < b.order
    \/ a.order = b.order /\ Slot(a) < Slot(b)
    \/ a.order = b.order /\ Slot(a) = Slot(b) /\ a.group < b.group

\* The hops of u dispatched now: from the head of its queue while the next one fits.
RECURSIVE Fitting(_, _, _)
Fitting(u, waiting, sending) ==
    IF waiting = {} THEN {}
    ELSE LET head == CHOOSE h \in waiting : \A k \in waiting \ {h} : Before(h, k)
         IN  IF ActivePushes(u, sending) + Len(head.receivers) > MaxActive(u) THEN {}
             ELSE {head} \cup Fitting(u, waiting \ {head}, sending \cup {head})

\* One pass of the scheduling loop over the queues q, with the hops f in flight.
Schedule(q, f) ==
    LET out == UNION {Fitting(u, q[u], DOMAIN f) : u \in DOMAIN q}
    IN  /\ queue' = [u \in DOMAIN q |-> q[u] \ out]
        /\ flight' = [h \in DOMAIN f \cup out |-> IF h \in out THEN "arm" ELSE f[h]]
        /\ status' = IF out = {} /\ f = <<>> /\ \A u \in DOMAIN q : q[u] = {}
                     THEN "done" ELSE "running"

BcastInit ==
    /\ plan \in TransferPlans
    /\ tree = Hops(plan)
    /\ queue = [u \in Workers(plan) |-> {h \in tree : IsSeed(h) /\ h.sender = u}]
    /\ flight = <<>>
    /\ armed = [d \in Workers(plan) |-> 0]
    /\ chunks = [d \in Workers(plan) |-> 0]
    /\ holds = [d \in Workers(plan) |-> {}]
    /\ status = "ready"

\* The trees are built and the first hops dispatched; nothing is awaited before.
Start ==
    /\ status = "ready"
    /\ Schedule(queue, flight)
    /\ UNCHANGED <<plan, tree, armed, chunks, holds>>

\* The receivers of the hop have accepted their StartTransfer, each with its
\* expected count over the whole transfer; or one of them refused.
ArmReceivers(h) ==
    /\ status = "running" /\ flight[h] = "arm"
    /\ armed' = [d \in DOMAIN armed |->
                    IF d \in Range(h.receivers) THEN ExpectedBlocks(d) ELSE armed[d]]
    /\ flight' = [flight EXCEPT ![h] = "send"]
    /\ UNCHANGED <<plan, tree, queue, chunks, holds, status>>

\* The senders report their pushes complete: every trainer host for a seed hop,
\* the relay for any other.
SendersDone(h) ==
    /\ status = "running" /\ flight[h] = "send"
    /\ chunks' = [d \in DOMAIN chunks |->
            IF d \notin Range(h.receivers) THEN chunks[d]
            ELSE chunks[d] + (IF IsSeed(h)
                              THEN MapThenSumSet(LAMBDA u : TrainerPush(u, h, d), Range(plan.srcs))
                              ELSE RelayPush(h, d))]
    /\ holds' = [d \in DOMAIN holds |->
                    IF d \in Range(h.receivers) THEN holds[d] \cup {h.group} ELSE holds[d]]
    /\ flight' = [flight EXCEPT ![h] = "ok"]
    /\ UNCHANGED <<plan, tree, queue, armed, status>>

\* Arming a receiver or starting a sender raises.
HopFails(h) ==
    /\ status = "running" /\ flight[h] \in {"arm", "send"}
    /\ flight' = [flight EXCEPT ![h] = "bad"]
    /\ UNCHANGED <<plan, tree, queue, armed, chunks, holds, status>>

Finished == {h \in DOMAIN flight : flight[h] \in {"ok", "bad"}}

\* A mutated wake-up: the relays of a tree are queued with the hop that feeds their
\* sender, not behind it.
WakeUp_NoWait ==
    /\ status = "running" /\ Finished # {}
    /\ \A h \in Finished : flight[h] = "ok"
    /\ LET q == [u \in DOMAIN queue |-> queue[u] \cup
                    {k \in tree : /\ k.sender = u /\ k \notin DOMAIN flight /\ ~IsSeed(k)
                                  /\ k.group \notin holds[k.receivers[1]]
                                  /\ \E h \in Finished : h.group = k.group}]
       IN  Schedule(q, [h \in DOMAIN flight \ Finished |-> flight[h]])
    /\ UNCHANGED <<plan, tree, armed, chunks, holds>>

\* asyncio.wait returns: the hops that completed make their children ready and the
\* scheduling loop runs again.
WakeUp ==
    /\ status = "running" /\ Finished # {}
    /\ \A h \in Finished : flight[h] = "ok"
    /\ LET q == [u \in DOMAIN queue |-> queue[u] \cup
                    {k \in UNION {Children(h) : h \in Finished} : k.sender = u}]
       IN  Schedule(q, [h \in DOMAIN flight \ Finished |-> flight[h]])
    /\ UNCHANGED <<plan, tree, armed, chunks, holds>>

\* A failed hop is raised to the caller and the hops still running are cancelled.
Abort ==
    /\ status = "running" /\ \E h \in Finished : flight[h] = "bad"
    /\ flight' = <<>>
    /\ status' = "failed"
    /\ UNCHANGED <<plan, tree, queue, armed, chunks, holds>>

BcastProgress ==
    \/ Start \/ WakeUp \/ Abort
    \/ \E h \in DOMAIN flight : ArmReceivers(h) \/ SendersDone(h)

BcastNext == BcastProgress \/ \E h \in DOMAIN flight : HopFails(h)

BcastEnded == status \in {"done", "failed"} /\ UNCHANGED bcastVars

BcastSpec == BcastInit /\ [][BcastNext \/ BcastEnded]_bcastVars /\ WF_bcastVars(BcastProgress)

-----------------------------------------------------------------------------
\* A sampler relays a stage only once it holds that stage's data: a child hop is
\* never in flight before the hop that feeds its sender has completed.  The count
\* a receiver is armed with, which its worker waits for before it reports the
\* weights complete, is what the trainer and the relays push to it: no chunk
\* arrives before the receiver is armed, none beyond the count, and when the
\* pipeline has succeeded every destination has exactly its count and every stage.
BroadcastExact ==
    /\ \A h \in DOMAIN flight : IsSeed(h) \/ h.group \in holds[h.sender]
    /\ \A d \in DOMAIN chunks : chunks[d] <= armed[d]
    /\ status = "done" =>
         \A c \in Classes(plan) : \A d \in Range(plan.classes[c].dsts) :
            /\ chunks[d] = armed[d]
            /\ holds[d] = {g \in DOMAIN Coalesce(plan) :
                             c \in Range(Coalesce(plan)[g].cls)}

\* The pipeline always returns: the scheduling loop never spins with hops queued
\* that no worker's limit lets it send.
PipelineEnds == <>(status \in {"done", "failed"})
=============================================================================
