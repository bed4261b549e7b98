------------------------------- MODULE Weights -------------------------------
(***************************************************************************)
(* The parts of the weight-sync manager, checked in one run: the initial   *)
(* state chooses a part, and only that part moves.  The constants are the  *)
(* small instances of each.                                                *)
(***************************************************************************)
EXTENDS Broadcast, WeightController, PayloadCache, JobEntity, ReshardPlanner, PushSchedule

CONSTANTS s1, d1   \* a source unit and a destination unit

VARIABLE part

vars == <<part, bcastVars, ctlVars, payVars, entVars, plnVars, pushVars>>

-----------------------------------------------------------------------------
(* Broadcast: three or four samplers under one seed, so that samplers      *)
(* relay; two classes under two seeds (one hop); two classes of two.       *)
Dense(srcs, layers) ==
    [u \in srcs |-> [l \in layers |-> [i \in 1 .. 2 |->
        IF i = 1 THEN <<0>> ELSE IF l = 1 THEN <<0, 1>> ELSE <<1>>]]]

Class(dsts, srcs, n) == [dsts |-> dsts, chunks |-> Dense(srcs, 1..n)]

MCPlans == {
    [seed |-> 1, stages |-> 4, srcs |-> <<"t1", "t2">>, layers |-> <<1, 2, 3>>,
     classes |-> <<Class(<<"a", "b", "c">>, {"t1", "t2"}, 3)>>],
    [seed |-> 1, stages |-> 2, srcs |-> <<"t1">>, layers |-> <<1, 2, 3>>,
     classes |-> <<Class(<<"a", "b", "c", "d">>, {"t1"}, 3)>>],
    [seed |-> 2, stages |-> 4, srcs |-> <<"t1">>, layers |-> <<1, 2>>,
     classes |-> <<Class(<<"a", "b">>, {"t1"}, 2), Class(<<"c">>, {"t1"}, 2)>>],
    [seed |-> 1, stages |-> 1, srcs |-> <<"t1">>, layers |-> <<1>>,
     classes |-> <<Class(<<"a", "b">>, {"t1"}, 1), Class(<<"c", "d">>, {"t1"}, 1)>>]}

(* WeightController: one key; a registration changes shards and endpoints. *)
MCKeys == {[srcs |-> {s1}, dsts |-> {d1}]}

MCRegs == {[topo |-> 1, shards |-> 1, eps |-> 1], [topo |-> 1, shards |-> 2, eps |-> 2]}

(* PayloadCache: calls that share a uuid, a request id, or neither.        *)
MCTransfers == {[uuid |-> 1, req |-> 1, skip |-> FALSE], [uuid |-> 1, req |-> 2, skip |-> FALSE],
                [uuid |-> 1, req |-> 2, skip |-> TRUE], [uuid |-> 2, req |-> 1, skip |-> FALSE]}

(* JobEntity: two replicas that may share an endpoint.                     *)
MCShardLists == {<<1>>, <<2, 3>>}
MCEpSets == {{1}, {1, 2}}
MCAttachments == {[shards |-> <<4>>, eps |-> {}], [shards |-> <<>>, eps |-> {2}]}

(* ReshardPlanner: row-major variables of two and three dimensions, even   *)
(* and uneven, over grids that cross, with replicated sources and          *)
(* destinations that declare their shards.                                 *)
Unit(r, n, d) == [rep |-> r, n |-> n, declared |-> d]
U(h, n) == [i \in 1..h |-> Unit(i - 1, n, <<>>)]

RowMajor(shape) == [i \in DOMAIN shape |-> Len(shape) + 1 - i]

Planned(shape, item, src, dst, t) ==
    [shape |-> shape, item |-> item, tiled |-> t,
     smesh |-> src[1], srcs |-> src[2], slayout |-> RowMajor(shape),
     dmesh |-> dst[1], dsts |-> dst[2], dlayout |-> RowMajor(shape)]

MCCases ==
    {Planned(sh, 1, src, dst, t) :
        sh \in {<<4, 4>>, <<3, 5>>, <<2, 6>>}, t \in BOOLEAN,
        src \in {<<<<2, 2>>, U(2, 2)>>, <<<<1, 1>>, U(2, 2)>>, <<<<1, 2>>, U(2, 1)>>,
                 <<<<4, 1>>, U(1, 4)>>},
        dst \in {<<<<2, 2>>, U(2, 2)>>, <<<<1, 1>>, U(2, 2)>>, <<<<1, 2>>, U(1, 2)>>,
                 <<<<4, 1>>, U(1, 4)>>}}
    \cup
    {Planned(sh, 2, src, dst, t) :
        sh \in {<<2, 4, 4>>, <<3, 2, 4>>}, t \in BOOLEAN,
        src \in {<<<<2, 1, 2>>, U(2, 2)>>, <<<<1, 2, 1>>, U(2, 1)>>},
        dst \in {<<<<2, 1, 2>>, <<Unit(0, 2, <<0, 1>>), Unit(1, 2, <<2, 3>>),
                                  Unit(2, 2, <<0, 1>>)>>>>,
                 <<<<1, 2, 1>>, U(2, 1)>>}}

(* PushSchedule: lists of two entries to two peers, and of three entries,  *)
(* at offsets that continue, repeat or cross each other; senders of one to three hosts *)
(* with as many control endpoints as data addresses, fewer or more, listed *)
(* in the same order of hosts or in opposite ones.                         *)
Entry(p, at, n) ==
    [peer |-> p, shard |-> 0, src |-> at[1], dst |-> at[2], size |-> 1, sblk |-> 0,
     dblk |-> 0, sstep |-> n[2], dstep |-> n[2], n |-> n[1], layer |-> 0]

MCEntries ==
    {Entry(p, at, n) : p \in {1, 2}, at \in {<<0, 0>>, <<2, 2>>, <<4, 4>>, <<2, 4>>},
                       n \in {<<1, 0>>, <<2, 1>>, <<2, 3>>}}
MCLists == [1..2 -> MCEntries] \cup [1..3 -> {e \in MCEntries : e.peer = 1}]

Sender(shape, n, described, turned) ==
    LET ctrl(h) == [i \in 1..shape[h][1] |-> <<h, i>>]
        data(h) == FlattenSeq([i \in 1..shape[h][2] |-> [k \in 1..n |-> <<h, 10 + i>>]])
        byHost == [h \in DOMAIN shape |-> data(h)]
    IN  [ctrl |-> FlattenSeq([h \in DOMAIN shape |-> ctrl(h)]),
         data |-> FlattenSeq(IF turned THEN Reverse(byHost) ELSE byHost),
         hosts |-> IF described
                   THEN [h \in DOMAIN shape |-> [ctrl |-> ctrl(h), shards |-> data(h)]]
                   ELSE <<>>]

MCSenders ==
    {Sender(s, n, d, t) : n \in {1, 2}, d \in BOOLEAN, t \in BOOLEAN,
        s \in UNION {[1..k -> {<<1, 1>>, <<1, 2>>, <<2, 2>>}] : k \in 1..3}
              \cup {<<<<2, 1>>, <<2, 1>>>>, <<<<2, 1>>>>}}

-----------------------------------------------------------------------------
Init ==
    /\ part \in {"bcast", "ctl", "pay", "ent", "plan", "push"}
    /\ CtlInit /\ PayInit /\ EntInit
    /\ IF part = "bcast" THEN BcastInit
       ELSE /\ plan = [classes |-> <<>>] /\ tree = {} /\ queue = <<>> /\ flight = <<>>
            /\ armed = <<>> /\ chunks = <<>> /\ holds = <<>> /\ status = "failed"
    /\ IF part = "plan" THEN PlnInit ELSE spec = <<>> /\ schedule = <<>>
    /\ IF part = "push" THEN PushInit
       ELSE work = [kind |-> "none"] /\ encoded = [done |-> FALSE, out |-> <<>>]

Next ==
    \/ /\ part = "bcast" /\ BcastNext
       /\ UNCHANGED <<part, ctlVars, payVars, entVars, plnVars, pushVars>>
    \/ /\ part = "ctl" /\ CtlNext
       /\ UNCHANGED <<part, bcastVars, payVars, entVars, plnVars, pushVars>>
    \/ /\ part = "pay" /\ PayNext
       /\ UNCHANGED <<part, bcastVars, ctlVars, entVars, plnVars, pushVars>>
    \/ /\ part = "ent" /\ EntNext
       /\ UNCHANGED <<part, bcastVars, ctlVars, payVars, plnVars, pushVars>>
    \/ /\ part = "plan" /\ PlnNext
       /\ UNCHANGED <<part, bcastVars, ctlVars, payVars, entVars, pushVars>>
    \/ /\ part = "push" /\ PushNext
       /\ UNCHANGED <<part, bcastVars, ctlVars, payVars, entVars, plnVars>>

(* An asyncio task that can run runs, and a worker answers or fails.       *)
Fairness ==
    /\ WF_bcastVars(part = "bcast" /\ BcastProgress)
    /\ WF_ctlVars(part = "ctl" /\ CtlProgress)

Spec == Init /\ [][Next]_vars /\ Fairness

-----------------------------------------------------------------------------
(* Properties; the others are in the modules of the parts. *)

\* Every replica's weights go to its own host: the routes of a job after any
\* registrations and removals, and the host that pushes a shard.
RoutesTrue == HostsRouted /\ ShardsOwned

\* The plan moves every element to its place, and the ways of writing it down
\* move the same bytes.
PlansExact == PlanExact /\ SchedulesSameBytes

\* The broadcast pipeline returns, and every RPC thread is answered.
WeightsEnd == PipelineEnds /\ ThreadsAnswered

=============================================================================
