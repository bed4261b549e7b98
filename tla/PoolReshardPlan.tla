--------------------------- MODULE PoolReshardPlan ---------------------------
(* From the byte spans that producers declare to the bytes that land at the   *)
(* consumers: the registry's check of a declaration                           *)
(* (request_block_registry.cc), the planner (pool_reshard_planner.cc), the    *)
(* coordinator's split into sub-transfers and its requests to the workers     *)
(* (reshard_coordinator.cc, core/transfer_program_reshard.cc), and what the   *)
(* workers check and resolve (core/utils.h, reshard_send_session.cc,          *)
(* reshard_receive_session.cc, transfer_plan.cc).                             *)
(* A span: [sb, so, db, do, size, ss, ds, count, to]; sb is the ordinal of    *)
(* the source block, to the destination (0: every one).  An offer of a unit   *)
(* for a tag: [tag, v, ids, spans, bytes], where v = 1 means that do counts   *)
(* from the request's start (dst_space_version).  A request: src (units       *)
(* [rank, par, pools, offers]), dst (manifests), tags, ids, counts, skips,    *)
(* offs and totals (of a window), par (0: none asked), windows.               *)
EXTENDS PoolLayout

CONSTANT Requests

VARIABLES request, result

vars == <<request, result>>

Total(s) == FoldLeft(LAMBDA a, x : a + x, 0, s)
Indices(s) == [i \in DOMAIN s |-> i]
PoolsTagged(pools, tag) == SelectSeq(Indices(pools), LAMBDA i : pools[i].tag = tag)
Tags(pools) == {pools[i].tag : i \in DOMAIN pools}
Distinct(s) == Cardinality(ToSet(s)) = Len(s)
Refused == [ok |-> FALSE]

SpanBytes(spans) == Total([i \in DOMAIN spans |-> spans[i].size * spans[i].count])

(* Register: is the offer a declaration over the unit's pools? *)
OfferValid(pools, o) ==
  LET live == {LiveBytes(LiveSegments(pools[i])) : i \in ToSet(PoolsTagged(pools, o.tag))}
  IN /\ Cardinality(live) = 1 /\ Distinct(o.ids)
     /\ \A k \in DOMAIN o.spans :
          LET s == o.spans[k]
          IN /\ s.size > 0 /\ s.count > 0 /\ s.sb \in DOMAIN o.ids
             /\ s.so + (s.count - 1) * s.ss + s.size <= Max(live)
     /\ o.bytes = SpanBytes(o.spans)

(* The manifests of the units of q pair up by tag. *)
ManifestsMatch(q) ==
  /\ \A d \in DOMAIN q.dst : q.dst[d] = q.dst[1]
  /\ \A u, v \in DOMAIN q.src :
       \A tag \in Tags(q.src[u].pools) \cap Tags(q.src[v].pools) :
         LET geometry(w) == [k \in DOMAIN PoolsTagged(q.src[w].pools, tag) |->
                               q.src[w].pools[PoolsTagged(q.src[w].pools, tag)[k]]]
         IN geometry(u) = geometry(v)
  /\ \A u \in DOMAIN q.src : \A tag \in Tags(q.src[u].pools) \cap Tags(q.dst[1]) :
       LET mine == PoolsTagged(q.src[u].pools, tag)
           theirs == PoolsTagged(q.dst[1], tag)
       IN /\ Len(mine) = Len(theirs)
          /\ \A k \in DOMAIN mine :
               q.src[u].pools[mine[k]].dtype = q.dst[1][theirs[k]].dtype

Counts(q) == IF q.counts = <<>> THEN <<Len(q.ids)>> ELSE q.counts
GroupIds(q, g) ==
  LET before == Total(SubSeq(Counts(q), 1, g - 1))
  IN SubSeq(q.ids, before + 1, before + Counts(q)[g])
SkipOf(q, g) == IF q.skips = <<>> THEN 0 ELSE q.skips[g]
Window(q, g) == IF q.totals = <<>> THEN [off |-> 0, total |-> 0]
                ELSE [off |-> q.offs[g], total |-> q.totals[g]]
Parallelism(q) == IF q.par > 0 THEN q.par ELSE q.src[1].par

(* The checks of BuildPoolReshardPlan on the units, and on the other fields. *)
UnitsValid(q) ==
  /\ q.dst # <<>> /\ q.ids # <<>>
  /\ \A u \in DOMAIN q.src : q.src[u].pools # <<>>
  /\ \A d \in DOMAIN q.dst : q.dst[d] # <<>>

RequestValid(q) ==
  /\ q.tags # <<>> /\ Distinct(q.tags)
  /\ Len(Counts(q)) = Len(q.tags)
  /\ Total(Counts(q)) = Len(q.ids) /\ \A g \in DOMAIN Counts(q) : Counts(q)[g] > 0
  /\ \A g \in DOMAIN q.tags :
       /\ q.tags[g] \in Tags(q.dst[1])
       /\ LET w == Window(q, g)
          IN (w.total = 0 => w.off = 0) /\ (w.total > 0 => w.off + Counts(q)[g] <= w.total)
  /\ Cardinality({q.src[u].par : u \in DOMAIN q.src}) = 1 /\ q.src[1].par > 0
  /\ {q.src[u].rank : u \in DOMAIN q.src} = 0..Len(q.src) - 1
  /\ Parallelism(q) <= q.src[1].par

(* The per-tag precheck: pools, live maps, and the clip [skip, end) of the    *)
(* tag's destination bytes (end 0: none).                                     *)
Precheck(q, g) ==
  LET tag == q.tags[g]
      sel == PoolsTagged(q.dst[1], tag)
      has == {u \in DOMAIN q.src : tag \in Tags(q.src[u].pools)}
      ref == q.src[Min(has)].pools
      ssegs == {LiveSegments(ref[i]) : i \in ToSet(PoolsTagged(ref, tag))}
      dsegs == {LiveSegments(q.dst[1][i]) : i \in ToSet(sel)}
      s == CHOOSE x \in ssegs : TRUE
      d == CHOOSE x \in dsegs : TRUE
      w == Window(q, g)
      skip == SkipOf(q, g) + w.off * LiveBytes(d)
      identity(x) == Len(x) = 1 /\ x[1].phys = 0
  IN IF \/ has = {} \/ ~Distinct(GroupIds(q, g))
        \/ Cardinality(ssegs) # 1 \/ Cardinality(dsegs) # 1 \/ <<>> \in ssegs \cup dsegs
        \/ SkipOf(q, g) % LiveBytes(d) # 0
     THEN Refused
     ELSE [ok |-> TRUE, sel |-> sel, ssegs |-> s, dsegs |-> d,
           srcLive |-> LiveBytes(s), dstLive |-> LiveBytes(d),
           identity |-> identity(s) /\ identity(d), skip |-> skip,
           end |-> IF w.total > 0 /\ w.off + Counts(q)[g] < w.total
                   THEN skip + Counts(q)[g] * LiveBytes(d) ELSE 0]

(* The declarations for tag g, in the order of the request's units; a unit    *)
(* must register the tag.                                                     *)
Declared(q, g) ==
  FlattenSeq([u \in DOMAIN q.src |->
    LET mine == SelectSeq(q.src[u].offers, LAMBDA o : o.tag = q.tags[g] /\ o.spans # <<>>)
    IN [k \in DOMAIN mine |-> [unit |-> u, offer |-> mine[k]]]])

(* RebaseStridedGlobalSpan *)
RebaseStridedGlobalSpan(s, skip, end, live) ==
  LET extent == (s.count - 1) * s.ds + s.size
  IN IF s.ss <= 0 \/ s.ds <= 0 \/ (s.do % live) + extent > live THEN Refused
     ELSE IF s.do < skip \/ (end > 0 /\ s.do >= end)
     THEN [ok |-> TRUE, out |-> <<>>, clipped |-> s.size * s.count, end |-> s.do + extent]
     ELSE [ok |-> TRUE, clipped |-> 0, end |-> s.do + extent,
           out |-> <<[s EXCEPT !.db = (s.do - skip) \div live, !.do = s.do % live]>>]

(* SplitPlainGlobalSpan: the pages' parts of what the clip leaves. *)
SplitPlainGlobalSpan(s, skip, end, live) ==
  LET last == s.do + s.size
      head == Max({0, skip - s.do})
      tail == IF end > 0 THEN Max({0, last - end}) ELSE 0
      pieces[left \in 0..s.size] ==
        IF left = 0 THEN <<>>
        ELSE LET at == s.size - head - tail - left
                 to == s.do + head - skip + at
                 n == Min({left, live - (to % live)})
             IN <<[s EXCEPT !.so = @ + head + at, !.db = to \div live,
                            !.do = to % live, !.size = n]>> \o pieces[left - n]
  IN IF last <= skip \/ (end > 0 /\ s.do >= end)
     THEN [ok |-> TRUE, out |-> <<>>, clipped |-> s.size, end |-> last]
     ELSE [ok |-> TRUE, out |-> pieces[s.size - head - tail],
           clipped |-> head + tail, end |-> last]

(* SplitGlobalSpaceSpans: declarations in destination pages, and the bytes    *)
(* the clip took.                                                             *)
SplitSpan(s, v, pre) ==
  IF v = 0 THEN [ok |-> TRUE, out |-> <<s>>, clipped |-> 0, end |-> 0]
  ELSE IF s.db # 0 THEN Refused
  ELSE IF s.count > 1 THEN RebaseStridedGlobalSpan(s, pre.skip, pre.end, pre.dstLive)
  ELSE IF s.ss # 0 \/ s.ds # 0 THEN Refused
  ELSE SplitPlainGlobalSpan(s, pre.skip, pre.end, pre.dstLive)

Rejoin(declared, pre, parts, all) ==
  LET extent == Max({0} \cup {x.end : x \in ToSet(all)})
  IN IF \/ \E x \in ToSet(all) : ~x.ok
        \/ (pre.skip > 0 \/ pre.end > 0) /\ \E k \in DOMAIN declared : declared[k].offer.v = 0
     THEN Refused
     ELSE IF (pre.skip > 0 /\ pre.skip >= extent) \/ (pre.end > 0 /\ pre.end > extent)
     THEN Refused
     ELSE [ok |-> TRUE, clipped |-> Total([i \in DOMAIN all |-> all[i].clipped]),
           declared |-> [k \in DOMAIN declared |->
             [declared[k] EXCEPT !.offer.spans =
                FlattenSeq([j \in DOMAIN parts[k] |-> parts[k][j].out])]]]

SplitGlobalSpaceSpans(declared, pre) ==
  LET rejoin(parts) == Rejoin(declared, pre, parts, FlattenSeq(parts))
  IN rejoin([k \in DOMAIN declared |->
              LET o == declared[k].offer
              IN [j \in DOMAIN o.spans |-> SplitSpan(o.spans[j], o.v, pre)]])

Targets(s, q) == IF s.to = 0 THEN Indices(q.dst) ELSE <<s.to>>

(* The spans of declarations, each with the unit and the offer it is of. *)
Spans(declared) ==
  FlattenSeq([k \in DOMAIN declared |->
    [j \in DOMAIN declared[k].offer.spans |->
       [unit |-> declared[k].unit, ids |-> declared[k].offer.ids,
        s |-> declared[k].offer.spans[j]]]])

(* The sorted intervals of one destination block start at zero and abut. *)
CoversFromZero(runs) ==
  LET r == Sorted(runs)
  IN \A k \in DOMAIN r : r[k][1] = IF k = 1 THEN 0 ELSE r[k - 1][2]
CoveredTo(runs) == Max({runs[k][2] : k \in DOMAIN runs})

(* ValidateSpanCoverage: every destination's blocks are covered exactly once, *)
(* fully but for the last, to the same extents, and every declared byte is    *)
(* accounted for.                                                             *)
ValidateSpanCoverage(q, g, pre, declared, clipped) ==
  LET spans == Spans(declared)
      runs(d, b) ==
        FlattenSeq([i \in DOMAIN spans |->
          LET s == spans[i].s
          IN IF s.db # b \/ s.to \notin {0, d} THEN <<>>
             ELSE [c \in 1..s.count |-> <<s.do + (c - 1) * s.ds,
                                         s.do + (c - 1) * s.ds + s.size>>]])
      n == Counts(q)[g]
      fits(s) == /\ s.to <= Len(q.dst) /\ s.db < n
                 /\ s.so + (s.count - 1) * s.ss + s.size <= pre.srcLive
                 /\ s.do + (s.count - 1) * s.ds + s.size <= pre.dstLive
      exact(d, b) == /\ runs(d, b) # <<>> /\ CoversFromZero(runs(d, b))
                     /\ b < n - 1 => CoveredTo(runs(d, b)) = pre.dstLive
      offered == Total([k \in DOMAIN declared |-> declared[k].offer.bytes])
      covered == SpanBytes([i \in DOMAIN spans |-> spans[i].s])
  IN IF /\ \A i \in DOMAIN spans : fits(spans[i].s)
        /\ \A d \in DOMAIN q.dst, b \in 0..n - 1 :
             exact(d, b) /\ CoveredTo(runs(d, b)) = CoveredTo(runs(1, b))
        /\ offered = covered + clipped
     THEN [ok |-> TRUE, extents |-> [b \in 1..n |-> CoveredTo(runs(1, b - 1))]]
     ELSE Refused

(* EmitSpanSchedule: the entries of each unit for group g, in the order of    *)
(* their destination bytes; a strided span between identity maps is one.      *)
EmitSpanSchedule(q, g, pre, declared) ==
  LET all == Spans(declared)
      order == SortSeq(Indices(all), LAMBDA i, j :
                 LET a == all[i].s  b == all[j].s
                 IN \/ a.db < b.db
                    \/ a.db = b.db /\ (a.do < b.do \/ (a.do = b.do /\ i < j)))
      chunks(s) ==
        IF s.count > 1 /\ pre.identity
        THEN <<[so |-> s.so, do |-> s.do, size |-> s.size, ss |-> s.ss, ds |-> s.ds,
                count |-> s.count]>>
        ELSE FlattenSeq([c \in 1..s.count |->
               LET t == TranslateLiveCopy(pre.ssegs, pre.dsegs, s.so + (c - 1) * s.ss,
                                          s.do + (c - 1) * s.ds, s.size)
               IN [i \in DOMAIN t |-> [so |-> t[i].so, do |-> t[i].do, size |-> t[i].size,
                                       ss |-> 0, ds |-> 0, count |-> 1]]])
      entries(x) ==
        FlattenSeq([i \in DOMAIN chunks(x.s) |->
          [t \in DOMAIN Targets(x.s, q) |->
             [peer |-> Targets(x.s, q)[t], sb |-> x.ids[x.s.sb],
              db |-> GroupIds(q, g)[x.s.db + 1], c |-> chunks(x.s)[i], group |-> g]]])
  IN [u \in DOMAIN q.src |->
        FlattenSeq([k \in DOMAIN order |->
          IF all[order[k]].unit = u THEN entries(all[order[k]]) ELSE <<>>])]

Pairs(entries, d) == {<<e.sb, e.db>> : e \in {x \in ToSet(entries) : x.peer = d}}

(* The pushes a sender's pairs make at destination d: one for each stream     *)
(* that has a pair.                                                           *)
PushesExpected(entries, d, par) == Min({par, Cardinality(Pairs(entries, d))})

(* Per-tag planning: the group of tag g and the entries it adds to each       *)
(* unit's schedule.                                                           *)
BlocksFit(q, g, pre, raw) ==
  \A k \in DOMAIN pre.sel :
    /\ \A b \in ToSet(GroupIds(q, g)) : b < q.dst[1][pre.sel[k]].blocks
    /\ \A i \in DOMAIN raw :
         LET pools == q.src[raw[i].unit].pools
         IN \A b \in ToSet(raw[i].offer.ids) :
              b < pools[PoolsTagged(pools, q.tags[g])[k]].blocks

Group(q, g, pre, cover, emit) ==
  LET pushes == [d \in DOMAIN q.dst |->
                   Total([u \in DOMAIN q.src |-> PushesExpected(emit[u], d, Parallelism(q))])]
  IN IF ~cover.ok THEN Refused
     ELSE IF \E d \in DOMAIN q.dst : pushes[d] <= 0 THEN Refused
     ELSE [ok |-> TRUE, emit |-> emit,
           group |-> [pools |-> pre.sel, ids |-> GroupIds(q, g), pushes |-> pushes,
                      extents |-> cover.extents, rank |-> IF g = 1 THEN 0 ELSE 1]]

PlanGroup(q, g, pre) ==
  LET split(raw, s) ==
        IF \/ raw = <<>>
           \/ \E k \in DOMAIN raw : q.tags[g] \notin Tags(q.src[raw[k].unit].pools)
           \/ ~s.ok \/ ~BlocksFit(q, g, pre, raw)
        THEN Refused
        ELSE Group(q, g, pre, ValidateSpanCoverage(q, g, pre, s.declared, s.clipped),
                   EmitSpanSchedule(q, g, pre, s.declared))
      from(raw) == split(raw, SplitGlobalSpaceSpans(raw, pre))
  IN from(Declared(q, g))

(* BuildPoolReshardPlan, with the offers LookupAndClaim returns.  Pools are   *)
(* named by their index in the destination's table; remap gives a sender its  *)
(* own index of each.                                                         *)
Remap(q, u, pre) ==
  LET mine == {g \in DOMAIN q.tags : q.tags[g] \in Tags(q.src[u].pools)}
  IN [i \in UNION {ToSet(pre[g].sel) : g \in mine} |->
        LET tag == q.dst[1][i].tag
            theirs == PoolsTagged(q.dst[1], tag)
        IN PoolsTagged(q.src[u].pools, tag)[CHOOSE k \in DOMAIN theirs : theirs[k] = i]]

Assemble(q, pre, plans) ==
  LET sched == [u \in DOMAIN q.src |->
                  FlattenSeq([g \in DOMAIN q.tags |-> plans[g].emit[u]])]
  IN IF \E g \in DOMAIN q.tags : ~plans[g].ok THEN Refused
     ELSE [ok |-> TRUE, par |-> Parallelism(q), sched |-> sched,
           remap |-> [u \in DOMAIN q.src |-> Remap(q, u, pre)],
           groups |-> [g \in DOMAIN q.tags |-> plans[g].group],
           senders |-> {u \in DOMAIN q.src : sched[u] # <<>>},
           rank |-> [u \in DOMAIN q.src |-> q.src[u].rank]]

BuildPoolReshardPlan(q) ==
  LET from(pre) == IF \E g \in DOMAIN q.tags : ~pre[g].ok THEN Refused
                   ELSE Assemble(q, pre, [g \in DOMAIN q.tags |-> PlanGroup(q, g, pre[g])])
  IN IF ~UnitsValid(q) \/ ~ManifestsMatch(q) \/ ~RequestValid(q) THEN Refused
     ELSE from([g \in DOMAIN q.tags |-> Precheck(q, g)])

(* PlanSubTransfers: for each sub-transfer the slice [g, off, count, total]   *)
(* of each tag in it; <<>> when the request is one transfer.  Windowed tags   *)
(* end together, and share no block with another tag.                         *)
PlanSubTransfers(q) ==
  LET counts == Counts(q)
      n == [g \in DOMAIN q.tags |->
              IF q.windows[g] > 0 /\ counts[g] > q.windows[g]
              THEN (counts[g] + q.windows[g] - 1) \div q.windows[g] ELSE 1]
      longest == Max({n[g] : g \in DOMAIN n})
      shared == \E g, h \in DOMAIN n : /\ g # h /\ n[g] > 1
                                       /\ ToSet(GroupIds(q, g)) \cap ToSet(GroupIds(q, h)) # {}
      slice(g, w) == IF n[g] = 1 THEN [g |-> g, off |-> 0, count |-> counts[g], total |-> 0]
                     ELSE [g |-> g, off |-> w * q.windows[g], total |-> counts[g],
                           count |-> Min({q.windows[g], counts[g] - w * q.windows[g]})]
  IN IF q.windows = <<>> \/ Len(counts) # Len(q.tags) \/ Total(counts) # Len(q.ids) THEN <<>>
     ELSE IF shared \/ longest = 1 THEN <<>>
     ELSE [i \in 1..longest |->
             LET in == SelectSeq(Indices(q.tags), LAMBDA g : i > longest - n[g])
             IN [k \in DOMAIN in |-> slice(in[k], i - 1 - (longest - n[in[k]]))]]

(* RunSubPlan: the request the planner gets for one sub-transfer. *)
SubRequest(q, slices) ==
  LET of(F(_)) == [k \in DOMAIN slices |-> F(slices[k])]
  IN [q EXCEPT !.tags = of(LAMBDA s : q.tags[s.g]),
               !.ids = FlattenSeq(of(LAMBDA s :
                         SubSeq(GroupIds(q, s.g), s.off + 1, s.off + s.count))),
               !.counts = of(LAMBDA s : s.count),
               !.skips = IF q.skips = <<>> THEN <<>> ELSE of(LAMBDA s : q.skips[s.g]),
               !.offs = of(LAMBDA s : s.off), !.totals = of(LAMBDA s : s.total)]

Groups(plan, Pools(_), Pushes(_)) ==
  [g \in DOMAIN plan.groups |->
     [pools |-> Pools(plan.groups[g].pools), ids |-> plan.groups[g].ids,
      pushes |-> Pushes(plan.groups[g].pushes), extents |-> plan.groups[g].extents]]

(* BuildStartTransferForTarget for receiver d: every sender's entries for it, *)
(* by the sender's rank.                                                      *)
ReceiverRequest(plan, d) ==
  LET mine(u) == SelectSeq(plan.sched[u], LAMBDA e : e.peer = d)
      senders == {u \in plan.senders : mine(u) # <<>>}
  IN [pools |-> FlattenSeq([g \in DOMAIN plan.groups |-> plan.groups[g].pools]),
      groups |-> Groups(plan, LAMBDA p : p, LAMBDA n : n[d]), wire |-> <<>>, par |-> plan.par,
      sched |-> [r \in {plan.rank[u] : u \in senders} |->
                   mine(CHOOSE u \in senders : plan.rank[u] = r)]]

(* BuildStartTransferForTarget for sender u: pools by its own indices, those  *)
(* it does not register dropped, and their names on the wire.                 *)
SenderRequest(plan, u) ==
  LET map == plan.remap[u]
      local(pools) == LET own == SelectSeq(pools, LAMBDA i : i \in DOMAIN map)
                      IN [k \in DOMAIN own |-> map[own[k]]]
  IN [pools |-> local(FlattenSeq([g \in DOMAIN plan.groups |-> plan.groups[g].pools])),
      groups |-> Groups(plan, local, LAMBDA n : Max(ToSet(n))), par |-> plan.par,
      wire |-> [i \in {map[j] : j \in DOMAIN map} |-> CHOOSE j \in DOMAIN map : map[j] = i],
      sched |-> [r \in {0} |-> plan.sched[u]]]

(* CompileStartTransfer and LowerToStartTransfer: the request as a program,   *)
(* whose steps are the entries rank after rank, and back.                     *)
CompileStartTransfer(r) ==
  LET ranks == SetToSortSeq(DOMAIN r.sched, <)
  IN [of |-> r,
      steps |-> FlattenSeq([k \in DOMAIN ranks |->
                  [i \in DOMAIN r.sched[ranks[k]] |->
                     [rank |-> ranks[k], e |-> r.sched[ranks[k]][i]]]])]

LowerToStartTransfer(program) ==
  LET of(rank) == SelectSeq(program.steps, LAMBDA x : x.rank = rank)
  IN [program.of EXCEPT !.sched =
        [rank \in {program.steps[i].rank : i \in DOMAIN program.steps} |->
           [i \in DOMAIN of(rank) |-> of(rank)[i].e]]]

Entries(r) == UNION {ToSet(r.sched[rank]) : rank \in DOMAIN r.sched}

(* DeriveSenderSourceBlockIds, DeriveArmChipBlockIds *)
SourceIds(r) == {e.sb : e \in Entries(r)}
ChipIds(r) == FlattenSeq([g \in DOMAIN r.groups |-> r.groups[g].ids])

(* ValidateCommonPoolReshardPlan and ValidatePoolBlockBounds, against the     *)
(* worker's own pools.                                                        *)
CommonValid(r, table, ids) ==
  /\ r.pools # <<>> /\ r.groups # <<>> /\ ids # {} /\ Distinct(r.pools)
  /\ \A g \in DOMAIN r.groups : r.groups[g].pushes > 0
  /\ ToSet(r.pools) \subseteq DOMAIN table
  /\ Entries(r) # {}
  /\ \A e \in Entries(r) : /\ e.c.size > 0 /\ e.c.count > 0 /\ e.group \in DOMAIN r.groups
                           /\ e.c.count > 1 => e.c.ss > 0 /\ e.c.ds > 0
  /\ \A i \in ToSet(r.pools), b \in ids : b < table[i].blocks

(* ReshardSendSession::ValidatePlan *)
SenderAccepts(r, table) ==
  /\ CommonValid(r, table, SourceIds(r))
  /\ \A e \in Entries(r) : \A i \in ToSet(r.groups[e.group].pools) :
       SpanFits(e.c.so, e.c.ss, e.c.size, e.c.count, table[i])

(* ReshardReceiveSession::ValidatePlan, ValidateReceiverCoverage *)
ReceiverAccepts(r, table) ==
  LET ids == ToSet(ChipIds(r))
      segs(g) == {LiveSegments(table[i]) : i \in ToSet(r.groups[g].pools)}
      live(g) == LiveBytes(CHOOSE x \in segs(g) : TRUE)
      of(rank, g) == {e \in ToSet(r.sched[rank]) : e.group = g}
      pairs(rank, g) == {<<e.peer, e.sb, e.db>> : e \in of(rank, g)}
      ranges(e) == [c \in 1..e.c.count |->
                      ToLogical(CHOOSE x \in segs(e.group) : TRUE,
                                e.c.do + (c - 1) * e.c.ds, e.c.size)]
      cover(g, b) ==
        FlattenSeq(SetToSeq({FlattenSeq([k \in DOMAIN r.sched[rank] |->
                       LET e == r.sched[rank][k]
                       IN IF e.group = g /\ e.db = b THEN ranges(e) ELSE <<>>])
                     : rank \in DOMAIN r.sched}))
  IN /\ CommonValid(r, table, ids)
     /\ \A g \in DOMAIN r.groups :
          LET w == r.groups[g]
          IN /\ Distinct(w.ids) /\ Cardinality(segs(g)) = 1 /\ live(g) > 0
             /\ Len(w.extents) = Len(w.ids)
             /\ \A k \in DOMAIN w.extents :
                  /\ w.extents[k] \in 1..live(g)
                  /\ k < Len(w.extents) => w.extents[k] = live(g)
             /\ w.pushes = Total([k \in 1..Cardinality(DOMAIN r.sched) |->
                              Min({r.par, Cardinality(pairs(
                                SetToSortSeq(DOMAIN r.sched, <)[k], g))})])
     /\ \A e \in Entries(r) :
          /\ e.db \in ToSet(r.groups[e.group].ids)
          /\ \A i \in ToSet(r.groups[e.group].pools) :
               SpanFits(e.c.do, e.c.ds, e.c.size, e.c.count, table[i])
          /\ \A c \in 1..e.c.count : ranges(e)[c] # <<>>
     /\ \A b \in ids : \E e \in Entries(r) : e.db = b /\ e.c.do = 0
     /\ \A g \in DOMAIN r.groups : \A k \in DOMAIN r.groups[g].ids :
          LET runs == cover(g, r.groups[g].ids[k])
          IN runs # <<>> /\ CoversFromZero(runs) /\ CoveredTo(runs) = r.groups[g].extents[k]

ChunkBytes(chunks, Off(_), Step(_)) ==
  FlattenSeq([k \in DOMAIN chunks |->
    LET c == chunks[k].c
    IN [n \in 1..c.count * c.size |->
          Off(c) + ((n - 1) \div c.size) * Step(c) + ((n - 1) % c.size)]])

(* ResolvePlanBlockChunks, on both sides of the push of one pair of blocks:   *)
(* the bytes the sender reads from its staging of pool i, and those the       *)
(* receiver writes in its staging of the pool named on the wire.              *)
SentBytes(r, i, d, pair) ==
  ChunkBytes(SelectSeq(r.sched[0], LAMBDA e :
               i \in ToSet(r.groups[e.group].pools) /\ e.peer = d /\ <<e.sb, e.db>> = pair),
             LAMBDA c : c.so, LAMBDA c : c.ss)

PlacedBytes_AnySource(r, rank, i, pair) ==
  ChunkBytes(SelectSeq(r.sched[rank], LAMBDA e :
               i \in ToSet(r.groups[e.group].pools) /\ e.db = pair[2]),
             LAMBDA c : c.do, LAMBDA c : c.ds)

PlacedBytes(r, rank, i, pair) ==
  ChunkBytes(SelectSeq(r.sched[rank], LAMBDA e :
               i \in ToSet(r.groups[e.group].pools) /\ <<e.sb, e.db>> = pair),
             LAMBDA c : c.do, LAMBDA c : c.ds)

(* What the pushes of a plan land: <<d, pool, block, byte, u, pool, block,    *)
(* byte>>, from sender u's bytes to receiver d's.  StartPoolPush pushes a     *)
(* pool's group's pairs.                                                      *)
Landed(plan) ==
  UNION {LET s == SenderRequest(plan, x[1])
             r == ReceiverRequest(plan, x[2])
         IN UNION {UNION {
              LET sent == SentBytes(s, i, x[2], pair)
                  placed == PlacedBytes(r, plan.rank[x[1]], s.wire[i], pair)
              IN {<<x[2], s.wire[i], pair[2], IF n \in DOMAIN placed THEN placed[n] ELSE -1,
                    x[1], i, pair[1], sent[n]>> : n \in DOMAIN sent}
              : pair \in {<<e.sb, e.db>> : e \in
                   {z \in ToSet(s.sched[0]) : /\ z.peer = x[2]
                                              /\ i \in ToSet(s.groups[z.group].pools)}}}
              : i \in ToSet(s.pools)}
         : x \in plan.senders \X DOMAIN plan.groups[1].pushes}

Init == request \in Requests /\ result = <<>>

(* The pools the units registered and the offers the registry took. *)
Registered(q) ==
  LET fits(p) == PoolValid(p, p.base + p.blocks * p.stride)
  IN /\ \A u \in DOMAIN q.src :
          /\ \A i \in DOMAIN q.src[u].pools : fits(q.src[u].pools[i])
          /\ \A k \in DOMAIN q.src[u].offers : OfferValid(q.src[u].pools, q.src[u].offers[k])
     /\ \A d \in DOMAIN q.dst : \A i \in DOMAIN q.dst[d] : fits(q.dst[d][i])

(* The whole of a request's planning. *)
Plan ==
  /\ result = <<>> /\ Registered(request)
  /\ LET subs(chain) == IF chain = <<>> THEN <<request>>
                        ELSE [i \in DOMAIN chain |-> SubRequest(request, chain[i])]
         plans(s) == [i \in DOMAIN s |-> BuildPoolReshardPlan(s[i])]
     IN result' = plans(subs(PlanSubTransfers(request)))
  /\ UNCHANGED request

Next == Plan
Spec == Init /\ [][Next]_vars

(* What was declared, byte by byte: live byte s of block sb of unit u is for  *)
(* live byte at of the tag's destination pages, at destination to.            *)
DeclaredBytes(q, g) ==
  LET page == LiveBytes(LiveSegments(q.dst[1][PoolsTagged(q.dst[1], q.tags[g])[1]]))
      spans == Spans(Declared(q, g))
      version(i) == LET d == Declared(q, g)
                    IN d[CHOOSE k \in DOMAIN d : d[k].unit = spans[i].unit].offer.v
  IN UNION {LET s == spans[i].s
            IN {[n |-> <<i, c, b>>, u |-> spans[i].unit, sb |-> spans[i].ids[s.sb], s |-> s.so + c * s.ss + b,
                 at |-> (IF version(i) = 1 THEN -SkipOf(q, g) ELSE s.db * page)
                          + s.do + c * s.ds + b, to |-> d]
                : c \in 0..s.count - 1, b \in 0..s.size - 1, d \in ToSet(Targets(s, q))}
            : i \in DOMAIN spans}

(* The same in the terms of Landed. *)
Reference(q) ==
  UNION {LET dst == PoolsTagged(q.dst[1], q.tags[g])
             dsegs == LiveSegments(q.dst[1][dst[1]])
             page == LiveBytes(dsegs)
             src(u) == PoolsTagged(q.src[u].pools, q.tags[g])
         IN {<<x.to, dst[k], GroupIds(q, g)[(x.at \div page) + 1],
               Locate(dsegs, x.at % page).phys, x.u, src(x.u)[k], x.sb,
               Locate(LiveSegments(q.src[x.u].pools[src(x.u)[1]]), x.s).phys>>
             : x \in {y \in DeclaredBytes(q, g) : y.at >= 0}, k \in DOMAIN dst}
         : g \in DOMAIN q.tags}

(* A request whose declarations give every destination the same, unbroken     *)
(* prefix of its pages, each byte once, down into the last page.              *)
Exact(q) ==
  \A g \in DOMAIN q.tags :
    LET page == LiveBytes(LiveSegments(q.dst[1][PoolsTagged(q.dst[1], q.tags[g])[1]]))
        n == Counts(q)[g]
        bytes == {x \in DeclaredBytes(q, g) : x.at >= 0}
        at(d) == {x \in bytes : x.to = d}
    IN \E m \in (n - 1) * page + 1..n * page : \A d \in DOMAIN q.dst :
         {x.at : x \in at(d)} = 0..m - 1 /\ Cardinality(at(d)) = m

(* Bytes of a block that the copies between device and staging move. *)
Copied(p, b) ==
  LET runs == CopyExtents(p, {b})
  IN UNION {runs[k][1]..runs[k][2] - 1 : k \in DOMAIN runs}

(* A plan is made for every request whose declarations are exact, in one      *)
(* transfer or in windows, in one transfer for no other request, and what its *)
(* pushes land, resolved by the two workers on their own, is what was         *)
(* declared, and lies in the bytes that staging copies.  (Each window checks  *)
(* its own blocks, and lets the last of them be partial.)                     *)
ReshardPlanExact ==
  result # <<>> =>
    LET made == \A i \in DOMAIN result : result[i].ok
    IN /\ Exact(request) => made
       /\ made /\ Len(result) = 1 => Exact(request)
       /\ made => LET landed == UNION {Landed(result[i]) : i \in DOMAIN result}
                  IN /\ landed = Reference(request)
                     /\ \A x \in landed :
                          LET at(p, b, byte) == p.base + b * p.stride + byte \in Copied(p, b)
                          IN /\ at(request.dst[x[1]][x[2]], x[3], x[4])
                             /\ at(request.src[x[5]].pools[x[6]], x[7], x[8])

(* Every worker accepts the part of a plan that is its own, also by way of a  *)
(* transfer program, when its pools have as many blocks and live bytes from   *)
(* their start on.                                                            *)
WorkersAccept ==
  \A i \in DOMAIN result : result[i].ok =>
    /\ \A u \in result[i].senders :
         LET r == SenderRequest(result[i], u)
         IN /\ SenderAccepts(r, request.src[u].pools)
            /\ LowerToStartTransfer(CompileStartTransfer(r)) = r
    /\ \A d \in DOMAIN request.dst :
         LET r == ReceiverRequest(result[i], d)
         IN /\ ReceiverAccepts(r, request.dst[d])
            /\ LowerToStartTransfer(CompileStartTransfer(r)) = r
=============================================================================
