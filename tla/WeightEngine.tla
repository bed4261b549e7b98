----------------------------- MODULE WeightEngine -----------------------------
(***************************************************************************)
(* The parts of the weight-sync engine of a worker, checked in one run:    *)
(* the initial state chooses a part, and only that part moves.  The        *)
(* constants are the small instances of each.                              *)
(***************************************************************************)
EXTENDS Tiling, TaskPool, WeightReceive, WeightSend, BufferPush

VARIABLE part

vars == <<part, tilVars, poolVars, recvVars, sendVars, bufVars>>

-----------------------------------------------------------------------------
(* Tiling: tiles of one and two dimensions, packed and nested ones, over   *)
(* shapes that they divide and shapes that they do not, in row-major and   *)
(* column-major layouts; room is what the buffer has beyond the need.      *)
RowMajor(n) == [i \in 1..n |-> n + 1 - i]
ColMajor(n) == <<n - 1, n>> \o [i \in 1..(n - 2) |-> n - 1 - i]

Case(s, l, t, item, room) ==
    [shape |-> s, layout |-> l, tiles |-> t, item |-> item, room |-> room]

MCTileCases ==
    {Case(<<n>>, <<1>>, t, i, m) : n \in {1, 5, 8, 9}, i \in {1, 2}, m \in {-1, 0, 2},
        t \in {<<<<4>>>>, <<<<4>>, <<2>>>>, <<<<4>>, <<3>>>>, <<<<2>>, <<2, 1>>>>,
               <<<<2>>, <<4, 1>>>>, <<<<8>>, <<2>>, <<2, 1>>>>, <<<<8>>, <<2>>, <<4, 1>>>>,
               <<<<2, 4>>>>, <<<<2, 4>>, <<2, 1>>>>}}
    \cup
    {Case(s, l, t, i, m) : i \in {1, 2}, m \in {0, 1}, l \in {RowMajor(2), ColMajor(2)},
        s \in {<<h, w>> : h \in {1, 2, 4, 5}, w \in {2, 3, 4, 6}},
        t \in {<<<<2, 2>>>>, <<<<4, 2>>, <<2, 1>>>>, <<<<4, 2>>, <<4, 1>>>>, <<<<1, 2>>>>,
               <<<<3>>>>, <<<<2, 4>>, <<3, 1>>>>}}
    \cup
    {Case(s, l, t, 2, 0) : s \in {<<2, 3, 3>>, <<3, 1, 3>>, <<2, 2, 4>>},
        l \in {RowMajor(3), ColMajor(3), <<1, 2, 3>>},
        t \in {<<<<2, 2>>>>, <<<<2, 2>>, <<2, 1>>>>, <<<<2, 2, 2>>>>, <<<<1, 4>>>>}}

(* TaskPool: two loops at a time, in even and uneven chunks, over two      *)
(* workers.                                                                *)
MCLoops == {<<[total |-> 3, helpers |-> 1, step |-> 2], [total |-> 2, helpers |-> 1, step |-> 1]>>}

(* WeightReceive: an engine that copies to the device itself, one with     *)
(* hooks and one whose user copies, in the tiling modes that occur, with   *)
(* one kind of fault each.                                                 *)
Setup(auto, hooks, mode, skip, fault, chunks, count, n) ==
    [auto |-> auto, hooks |-> hooks, mode |-> mode, skip |-> skip, fault |-> fault,
     chunks |-> chunks, count |-> count, arms |-> n]

Two == {<<0, 1>>, <<1, 1>>}
Three == Two \cup {<<1, 2>>}

MCSetups == {
    Setup(TRUE, FALSE, "deferred", FALSE, "rebind", Two, 1, 1),
    Setup(FALSE, FALSE, "on_arrival", FALSE, "rebind", Two, 1, 1),
    Setup(TRUE, FALSE, "on_arrival", FALSE, "drain", Three, 1, 2),
    Setup(FALSE, FALSE, "on_arrival", FALSE, "forget", Two, 2, 1),
    Setup(FALSE, FALSE, "deferred", TRUE, "none", Three, 1, 2),
    Setup(FALSE, TRUE, "on_arrival", FALSE, "drain", Three, 1, 2),
    Setup(FALSE, FALSE, "pre_tiled", FALSE, "rebind", Three, 1, 1),
    Setup(FALSE, TRUE, "pre_tiled", FALSE, "none", Two, 1, 2)}

(* WeightSend: two pushes, of one transfer or of two, that stage, that     *)
(* rely on the user's D2h() or that relay.                                 *)
Req(uuid, skip, relay) == [uuid |-> uuid, skipD2h |-> skip, relay |-> relay]
Plan(a, b, lay, fault, d2h, binds) ==
    [push |-> <<a, b>>, lay |-> lay, fault |-> fault, d2h |-> d2h, binds |-> binds]

MCPlans == {
    Plan(Req(1, FALSE, FALSE), Req(1, FALSE, FALSE), "raw", "copy", 1, 0),
    Plan(Req(1, FALSE, FALSE), Req(2, FALSE, FALSE), "logical", "stream", 0, 1),
    Plan(Req(1, TRUE, FALSE), Req(1, TRUE, FALSE), "raw", "unbind", 2, 0),
    Plan(Req(1, TRUE, FALSE), Req(2, TRUE, FALSE), "logical", "schedule", 1, 1),
    Plan(Req(1, TRUE, TRUE), Req(1, TRUE, TRUE), "raw", "copy", 0, 0)}

(* BufferPush: entries with runs, nested outer dimensions and several      *)
(* peers; engines that number their shards locally, by the job, or are a   *)
(* slice of it; relays of tiled shards.                                    *)
Entry(l, peers, dshard, at, size, runs, outer) ==
    [peers |-> peers, dshard |-> dshard, layer |-> l, src |-> at[1], dst |-> at[2],
     size |-> size, n |-> runs[1], ss |-> runs[2], ds |-> runs[3], outer |-> outer]

EngineOf(n, global) ==
    [shards |-> n, local |-> <<>>, global |-> global, size |-> 16, device |-> 10, room |-> 16]

Flat == [n |-> <<>>, s |-> <<>>, d |-> <<>>]
Nest == [n |-> <<2, 2>>, s |-> <<8, 1>>, d |-> <<4, 8>>]

MCSchedules == {
    <<Entry(0, <<1>>, 0, <<0, 0>>, 2, <<1, 0, 0>>, Flat),
      Entry(0, <<2>>, 0, <<4, 2>>, 2, <<2, 2, 2>>, Flat),
      Entry(0, <<1, 2>>, 1, <<2, 4>>, 2, <<3, 4, 3>>, Flat),
      Entry(1, <<1>>, 0, <<0, 2>>, 1, <<2, 2, 3>>, Flat)>>,
    <<Entry(0, <<1, 2>>, 0, <<0, 1>>, 1, <<2, 4, 2>>, Nest)>>,
    <<Entry(0, <<1>>, 0, <<4, 0>>, 2, <<2, 0, 0>>, Flat),
      Entry(0, <<1>>, 0, <<0, 4>>, 4, <<1, 4, 4>>, Flat),
      Entry(0, <<1>>, 0, <<8, 8>>, 1, <<4, 2, 1>>, Flat)>>}

Job(engine, keys, s, pre, par, window, fails) ==
    [engine |-> engine, preTiled |-> pre, skipD2h |-> TRUE, parallelism |-> par, window |-> window, fails |-> fails,
     keyed |-> [k \in keys |-> IF k % 2 = 0 THEN s
                               ELSE [i \in DOMAIN s |-> [s[i] EXCEPT !.dshard = 1]]]]

(* Schedules that do not fit: what the sender refuses, and what a peer     *)
(* whose buffers are smaller than the sender's refuses, or accepts in the  *)
(* last case, where the runs touch and their total wraps around.           *)
Refused == {
    Entry(2, <<1>>, 0, <<0, 0>>, 2, <<1, 0, 0>>, Flat),
    Entry(0, <<1>>, 0, <<0, 0>>, 4, <<2, 2, 4>>, Flat),
    Entry(0, <<1>>, 0, <<0, 0>>, 1, <<1, 0, 0>>, [Nest EXCEPT !.d = <<4>>]),
    Entry(0, <<1>>, 0, <<0, 0>>, 1, <<1, 0, 0>>, [Nest EXCEPT !.n = <<2, 0>>]),
    Entry(0, <<1>>, 0, <<8, 0>>, 1, <<1, 0, 0>>, Nest),
    Entry(0, <<1>>, 0, <<15, 0>>, 2, <<0, 0, 0>>, Flat)}
Outside == {
    Entry(0, <<1>>, 0, <<0, 3>>, 2, <<0, 0, 0>>, Flat),
    Entry(0, <<1>>, 0, <<0, 0>>, 5, <<1, 0, 0>>, Flat),
    Entry(0, <<1>>, 0, <<0, 0>>, 2, <<2, 4, 1>>, Flat),
    Entry(0, <<1>>, 0, <<0, 0>>, 1, <<2, 2, 4>>, Flat),
    Entry(0, <<1>>, 0, <<0, 0>>, 2, <<3, 4, 2>>, Flat)}

Fits == Entry(0, <<1>>, 0, <<0, 0>>, 1, <<1, 0, 0>>, Flat)
Small == [EngineOf(1, <<>>) EXCEPT !.room = 4]

Misfits ==
    {Job(EngineOf(1, <<>>), {0}, <<Fits, e>>, FALSE, 2, 0, FALSE) : e \in Refused}
    \cup {Job(Small, {0}, <<Fits, e>>, FALSE, 2, 0, FALSE) : e \in Outside}
    \cup {Job(EngineOf(1, <<>>), {0}, <<[Fits EXCEPT !.outer = Nest]>>, TRUE, 2, 0, FALSE),
          [Job(EngineOf(1, <<>>), {0}, <<Fits>>, TRUE, 2, 0, FALSE) EXCEPT !.skipD2h = FALSE]}

MCJobs ==
    {Job(EngineOf(1, <<>>), keys, s, FALSE, par, window, TRUE) :
        keys \in {{0}, {6}}, s \in MCSchedules, par \in {0, 2}, window \in {0, 5}}
    \cup
    {Job(EngineOf(2, g), keys, <<Entry(0, <<1>>, 0, <<0, 0>>, 2, <<1, 0, 0>>, Flat),
                                Entry(0, <<1, 2>>, 0, <<4, 2>>, 2, <<2, 3, 2>>, Flat)>>,
         FALSE, 2, window, FALSE) :
        g \in {<<>>, <<2, 3>>}, keys \in {{0, 1}, {2, 3}, {1}, {3}, {0, 1, 2, 3}}, window \in {0, 5}}
    \cup
    {Job(EngineOf(1, <<>>), {0}, <<Entry(0, <<1, 2>>, 0, <<0, 0>>, 8, <<1, 0, 0>>, Flat),
                                   Entry(1, <<1, 2>>, 1, <<0, 0>>, 8, <<1, 0, 0>>, Flat)>>,
         TRUE, par, window, TRUE) : par \in {1, 2}, window \in {0, 12}}
    \cup Misfits

-----------------------------------------------------------------------------
(* The states of the parts that do not move. *)
NoTiling == tensor = <<>> /\ tiledBuf = <<>> /\ linearBuf = <<>> /\ inPlaceBuf = <<>>

NoPool == /\ loop = <<>> /\ tasks = <<>> /\ frame = <<>> /\ ran = [c \in Callers |-> <<>>] /\ halted = TRUE
          /\ thread = [t \in PoolThreads |-> AtRest]

NoReceive == /\ setup = <<>> /\ xfer = 0 /\ unsent = {} /\ host = <<>> /\ device = <<>> /\ prog = <<>>
             /\ pend = <<>> /\ ready = <<>> /\ signal = <<>> /\ task = <<>> /\ completed = {}
             /\ actor = <<>> /\ h2d = <<>> /\ hookLock = Free /\ arms = 0 /\ user = "idle"
             /\ bound = "yes" /\ untiled = {} /\ stopped = "no"

NoSend == /\ plan = [push |-> <<>>] /\ hostBuf = <<>> /\ version = 0 /\ bound_ = FALSE /\ copying = <<>>
          /\ explicit = <<>> /\ callDone = <<>> /\ calls = 0 /\ staged = <<>> /\ latest = "raw"
          /\ opLock = Unlocked /\ restaging = 0 /\ relayReady = <<>> /\ leaders = {} /\ d2hState = <<>>
          /\ active = 0 /\ push = <<>>

NoBuffers == /\ job = [engine |-> [room |-> 0]] /\ batches = <<>> /\ status = <<>> /\ placed = <<>>
             /\ result = "none" /\ wanted = {}

Init ==
    /\ part \in {"tile", "pool", "recv", "send", "buf"}
    /\ IF part = "tile" THEN TilInit ELSE NoTiling
    /\ IF part = "pool" THEN PoolInit ELSE NoPool
    /\ IF part = "recv" THEN RecvInit ELSE NoReceive
    /\ IF part = "send" THEN SendInit ELSE NoSend
    /\ IF part = "buf" THEN BufInit ELSE NoBuffers

Next ==
    \/ part = "tile" /\ TilNext /\ UNCHANGED <<part, poolVars, recvVars, sendVars, bufVars>>
    \/ part = "pool" /\ PoolNext /\ UNCHANGED <<part, tilVars, recvVars, sendVars, bufVars>>
    \/ part = "recv" /\ RecvNext /\ UNCHANGED <<part, tilVars, poolVars, sendVars, bufVars>>
    \/ part = "send" /\ SendNext /\ UNCHANGED <<part, tilVars, poolVars, recvVars, bufVars>>
    \/ part = "buf" /\ BufNext /\ UNCHANGED <<part, tilVars, poolVars, recvVars, sendVars>>

(* A thread that can run runs, a copy and a connection end. *)
Progress ==
    \/ part = "pool" /\ PoolProgress /\ UNCHANGED <<part, tilVars, recvVars, sendVars, bufVars>>
    \/ part = "recv" /\ RecvProgress /\ UNCHANGED <<part, tilVars, poolVars, sendVars, bufVars>>
    \/ part = "send" /\ SendProgress /\ UNCHANGED <<part, tilVars, poolVars, recvVars, bufVars>>

Spec == Init /\ [][Next]_vars /\ WF_vars(Progress)

-----------------------------------------------------------------------------
(* Properties; the others are in the modules of the parts. *)

\* What a push streams is staged and of one version, and lands where its
\* schedules ask for it.
PushesExact == StreamsStaged /\ PushLands

\* A loop, a user's wait or a push is under way.
Begun == LoopRuns \/ UserWaits \/ PushRuns

\* What was begun ends.  A loop on the pool returns, whatever the workers are
\* busy with and also when the pool is stopped meanwhile; a waiting user of
\* the receiver is answered (but see UserWaits); a push returns, a follower by
\* the outcome of its leader and a waiting push by the D2h() it waits for.
EngineEnds == Begun ~> ~Begun
=============================================================================
