---------------------------- MODULE ReshardPlanner ----------------------------
(***************************************************************************)
(* reshard_planner.py: which source shard pushes which bytes of a variable *)
(* to which shard of a destination.                                        *)
(*                                                                         *)
(* A slice is a sequence of intervals <<lo, hi>>, hi excluded, over the    *)
(* dimensions of the variable in its physical order; a chunk is            *)
(* [src, dst, size, sstep, dstep, n]: n runs of size bytes, at the source  *)
(* offsets src + i * sstep and the destination offsets dst + i * dstep.    *)
(* A case of the planner is one variable with its sharding on both sides:  *)
(*   shape, item                      the variable and its item size       *)
(*   smesh, slayout, srcs             mesh, layout and units of the source *)
(*   dmesh, dlayout, dsts             the same of the destinations         *)
(*   tiled                            skip_tiling is left to the planner   *)
(* and a unit is [rep, n, declared]: its replica id, its number of shards, *)
(* and the global shard indices it declares, or <<>>.                      *)
(***************************************************************************)
EXTENDS Integers, Sequences, FiniteSets, SequencesExt, FiniteSetsExt, Shapes

CONSTANTS
    PlanCases,   \* the cases
    TileRows,    \* the tile of a device buffer (8 by 128 in the code)
    TileCols

VARIABLES
    spec,        \* the case being planned
    schedule     \* the plan of every class, <<>> before it is made

plnVars == <<spec, schedule>>

-----------------------------------------------------------------------------
Shape(slice) == [d \in DOMAIN slice |-> slice[d][2] - slice[d][1]]

(* compute_nd_shard_slices: the grid in row-major order; the last shard of *)
(* a dimension takes the remainder.                                        *)
ShardSlices(shape, mesh) ==
    [g \in 1..Product(mesh) |->
        LET c == Coords(g - 1, mesh)
        IN  [d \in DOMAIN shape |->
               LET tile == shape[d] \div mesh[d]
               IN  << c[d] * tile,
                      IF c[d] < mesh[d] - 1 THEN (c[d] + 1) * tile ELSE shape[d] >>]]

(* get_global_indices: the global slice that local shard j of a unit       *)
(* holds.  The first mesh axis of the size of the number of hosts is       *)
(* indexed by the unit's replica id, the others in row-major order.        *)
GlobalIndex(u, j, mesh, layout, hosts) ==
    LET axes == {d \in DOMAIN mesh : mesh[d] = hosts}
        hostAxis == IF axes = {} THEN 0 ELSE Min(axes)
        later(d) == {x \in DOMAIN mesh : x > d /\ x # hostAxis}
        size(S) == FoldFunctionOnSet(LAMBDA a, b : a * b, 1, mesh, S)
        full == [d \in DOMAIN mesh |->
                   IF d = hostAxis THEN u.rep ELSE (j \div size(later(d))) % mesh[d]]
    IN  IF Len(u.declared) = u.n THEN u.declared[j + 1]
        ELSE IF \A d \in DOMAIN mesh : mesh[d] = 1 THEN 0
        ELSE Linear(ToPhysical(full, layout), ToPhysical(mesh, layout))

(* intersect_nd_slices: <<>> stands for None.                              *)
Intersect(s, t) ==
    LET both == [d \in DOMAIN s |-> << Max({s[d][1], t[d][1]}), Min({s[d][2], t[d][2]}) >>]
    IN  IF \E d \in DOMAIN both : both[d][1] >= both[d][2] THEN <<>> ELSE both

(* The strides of a shard's row-major buffer.                              *)
Strides(slice) == [d \in DOMAIN slice |-> Stride(Shape(slice), d)]

OffsetIn(slice, point) ==
    FoldFunctionOnSet(+, 0, [d \in DOMAIN slice |-> (point[d] - slice[d][1]) * Strides(slice)[d]],
                      DOMAIN slice)

(* The dimensions that one of the shards holds beyond the intersection.    *)
Partial_Either(src, dst, int) ==
    {d \in DOMAIN int : Shape(int)[d] # Shape(src)[d] /\ Shape(int)[d] # Shape(dst)[d]}

Partial(src, dst, int) ==
    {d \in DOMAIN int : Shape(int)[d] # Shape(src)[d] \/ Shape(int)[d] # Shape(dst)[d]}

(* generate_strided_copy_chunks: the inner dimensions that both shards     *)
(* hold whole are merged into a run; the next one gives the strides; the   *)
(* outer ones are enumerated.                                              *)
StridedChunks(src, dst, int, item) ==
    LET shape == Shape(int)
        partial == Partial(src, dst, int)
        split == IF partial = {} \/ Len(int) = 1 THEN 0 ELSE Max(partial)
        run == IF split = 0 THEN Product(shape) ELSE Product(SubSeq(shape, Max({2, split}), Len(shape)))
        step == IF split = 0 THEN 0 ELSE Max({1, split - 1})
        outer == SubSeq(shape, 1, step - 1)
        start(i) == [d \in DOMAIN int |->
                       int[d][1] + (IF d < step THEN Coords(i, outer)[d] ELSE 0)]
    IN  {[src |-> OffsetIn(src, start(i)) * item, dst |-> OffsetIn(dst, start(i)) * item,
          size |-> run * item,
          sstep |-> IF step = 0 THEN 0 ELSE Strides(src)[step] * item,
          dstep |-> IF step = 0 THEN 0 ELSE Strides(dst)[step] * item,
          n |-> IF step = 0 THEN 1 ELSE shape[step]] :
         i \in 0..(Product(outer) - 1)}

(* is_nd_slice_tile_aligned.                                               *)
TileAligned(src, dst, int) ==
    LET r == Len(int) - 1  c == Len(int)
        whole(d, tile) ==
            \A x \in {int[d][1] - src[d][1], int[d][1] - dst[d][1],
                      Shape(int)[d], Shape(src)[d], Shape(dst)[d]} : x % tile = 0
    IN  Len(int) >= 2 /\ whole(r, TileRows) /\ whole(c, TileCols)

(* generate_strided_copy_chunks_tile_aware: the runs are whole rows of     *)
(* tiles of the intersection, in buffers that hold tiles one after the     *)
(* other.                                                                  *)
TileChunks(src, dst, int, item) ==
    LET r == Len(int) - 1  c == Len(int)
        width(s) == Shape(s)[c]
        size == width(int) * TileRows * item
        step(s) == width(s) * TileRows * item
        count == Shape(int)[r] \div TileRows
        plane(s) == Shape(s)[r] * width(s)
        offset(s) == (int[r][1] - s[r][1]) * width(s) * item
                     + (int[c][1] - s[c][1]) * TileRows * item
        outer == SubSeq(Shape(int), 1, r - 1)
        outerAt(s, i) == FoldFunctionOnSet(+, 0,
            [d \in 1..(r - 1) |->
               (int[d][1] - s[d][1] + Coords(i, outer)[d])
               * Stride(SubSeq(Shape(s), 1, r - 1), d) * plane(s) * item], 1..(r - 1))
        dense == size = step(src) /\ size = step(dst)
        slab == size * count
    IN  IF r = 1 /\ dense
        THEN {[src |-> offset(src), dst |-> offset(dst), size |-> slab,
               sstep |-> 0, dstep |-> 0, n |-> 1]}
        ELSE IF r = 2 /\ (count = 1 \/ dense)
        THEN IF slab = plane(src) * item /\ slab = plane(dst) * item
             THEN {[src |-> offset(src) + outerAt(src, 0), dst |-> offset(dst) + outerAt(dst, 0),
                    size |-> slab * outer[1], sstep |-> 0, dstep |-> 0, n |-> 1]}
             ELSE {[src |-> offset(src) + outerAt(src, 0), dst |-> offset(dst) + outerAt(dst, 0),
                    size |-> slab, sstep |-> plane(src) * item, dstep |-> plane(dst) * item,
                    n |-> outer[1]]}
        ELSE {[src |-> offset(src) + outerAt(src, i), dst |-> offset(dst) + outerAt(dst, i),
               size |-> size, sstep |-> step(src), dstep |-> step(dst), n |-> count] :
              i \in 0..(Product(outer) - 1)}

-----------------------------------------------------------------------------
(* compute_transfer_schedule_from_metadata for one variable.               *)
Hosts(units) == Cardinality({u.rep : u \in Range(units)})

SrcSlices(c) == ShardSlices(ToPhysical(c.shape, c.slayout), ToPhysical(c.smesh, c.slayout))
DstSlices(c) == ShardSlices(ToPhysical(c.shape, c.dlayout), ToPhysical(c.dmesh, c.dlayout))

SrcIndex(c, u, j) == GlobalIndex(c.srcs[u], j, c.smesh, c.slayout, Hosts(c.srcs))
DstIndex(c, u, j) == GlobalIndex(c.dsts[u], j, c.dmesh, c.dlayout, Hosts(c.dsts))

(* The shards of a unit that hold a slice of the grid, with the slice.     *)
SrcShards(c, u) == {j \in 0..(c.srcs[u].n - 1) : SrcIndex(c, u, j) < Len(SrcSlices(c))}
DstShards(c, u) == {j \in 0..(c.dsts[u].n - 1) : DstIndex(c, u, j) < Len(DstSlices(c))}
SrcSlice(c, u, j) == SrcSlices(c)[SrcIndex(c, u, j) + 1]
DstSlice(c, u, j) == DstSlices(c)[DstIndex(c, u, j) + 1]

(* src_slice_holders: the shards with the same slice and signature, ranked *)
(* in the order of units and shards.                                       *)
Holders(c, u, j) ==
    UNION {{<<v, i>> : i \in {i \in SrcShards(c, v) : SrcSlice(c, v, i) = SrcSlice(c, u, j)}} :
           v \in {v \in DOMAIN c.srcs : c.srcs[v].declared = c.srcs[u].declared}}

Rank(c, u, j) ==
    Cardinality({h \in Holders(c, u, j) : h[1] < u \/ (h[1] = u /\ h[2] < j)})

(* The equivalence classes of destinations: units whose shards hold the    *)
(* same slices share a plan, made for the first of them.                   *)
ClassKey(c, u) == [j \in DstShards(c, u) |-> DstSlice(c, u, j)]
EqClasses(c) ==
    LET first == {u \in DOMAIN c.dsts : \A v \in 1..(u - 1) : ClassKey(c, v) # ClassKey(c, u)}
    IN  SetToSortSeq(first, <)

(* Of replicated source shards, the one whose rank the destination's index *)
(* selects pushes.                                                         *)
Serves(c, u, j, class, l) ==
    LET n == Cardinality(Holders(c, u, j))
        rep == c.dsts[EqClasses(c)[class]]
    IN  n > 1 => ((class - 1) * rep.n + l) % n = Rank(c, u, j)

(* skip_tiling, where the caller leaves it to the planner: buffers stay    *)
(* tiled when every two slices that meet are aligned.                      *)
SkipTiling(c) ==
    /\ c.tiled
    /\ Len(c.shape) >= 2
    /\ \A i \in DOMAIN SrcSlices(c), k \in DOMAIN DstSlices(c) :
          LET int == Intersect(SrcSlices(c)[i], DstSlices(c)[k])
          IN  int # <<>> => TileAligned(SrcSlices(c)[i], DstSlices(c)[k], int)

CopyChunks(c, s, d, tiled) ==
    LET int == Intersect(s, d)
    IN  IF int = <<>> THEN {}
        ELSE IF tiled /\ TileAligned(s, d, int) THEN TileChunks(s, d, int, c.item)
        ELSE StridedChunks(s, d, int, c.item)

(* The pushes of a class: from shard j of source unit u to shard l.        *)
Pushes(c, class, tiled) ==
    LET dst == EqClasses(c)[class]
        pairs == UNION {{<<u, j, l>> : j \in SrcShards(c, u), l \in DstShards(c, dst)} :
                        u \in DOMAIN c.srcs}
    IN  UNION {{[unit |-> t[1], shard |-> t[2], to |-> t[3], chunk |-> k] :
                  k \in CopyChunks(c, SrcSlice(c, t[1], t[2]), DstSlice(c, dst, t[3]), tiled)} :
               t \in {t \in pairs : Serves(c, t[1], t[2], class, t[3])}}

(* The relay plan: the range of bytes that a destination shard relays, the *)
(* hull of what arrives there.                                             *)
RelayRange(pushes) ==
    << Min({p.chunk.dst : p \in pushes}),
       Max({p.chunk.dst + (p.chunk.n - 1) * p.chunk.dstep + p.chunk.size : p \in pushes}) >>

PlnInit == spec \in PlanCases /\ schedule = <<>>

ComputeSchedule ==
    /\ schedule = <<>>
    /\ schedule' = [k \in DOMAIN EqClasses(spec) |->
          LET tiled == SkipTiling(spec)
              pushes == Pushes(spec, k, tiled)
          IN  [pushes |-> pushes, dst |-> EqClasses(spec)[k], tiled |-> tiled,
               relay |-> [l \in {p.to : p \in pushes} |->
                            RelayRange({p \in pushes : p.to = l})]]]
    /\ UNCHANGED spec

PlnNext == ComputeSchedule

-----------------------------------------------------------------------------
(* Where a shard keeps the element at a physical point: row by row, or     *)
(* tile by tile when the buffers stay tiled.                               *)
Place(slice, point, tiled) ==
    LET rank == Len(slice)
        width == Shape(slice)[rank]
        row == point[rank - 1] - slice[rank - 1][1]
        col == point[rank] - slice[rank][1]
    IN  IF ~tiled THEN OffsetIn(slice, point)
        ELSE OffsetIn(SubSeq(slice, 1, rank - 2), point) * Shape(slice)[rank - 1] * width
             + (row \div TileRows) * width * TileRows
             + (col \div TileCols) * TileRows * TileCols
             + (row % TileRows) * TileCols + (col % TileCols)

(* The logical points of the variable, and those that a slice holds.       *)
Points(c) == {Coords(i, c.shape) : i \in 0..(Product(c.shape) - 1)}

Holds(slice, point) == \A d \in DOMAIN slice : slice[d][1] <= point[d] /\ point[d] < slice[d][2]

(* The chunk k moves byte a of the source to byte b of the destination.    *)
Moves(k, a, b) ==
    \E i \in 0..(k.n - 1) :
        LET at == a - k.src - i * k.sstep
        IN  at \in 0..(k.size - 1) /\ b = k.dst + i * k.dstep + at

(* A destination that applies the pushes of its class receives every       *)
(* element of its shards, once, from the place where the pushing shard     *)
(* keeps that element: whatever the meshes, the replication of the source, *)
(* the remainders of uneven shards and the tiling of the buffers.  What it *)
(* relays of a shard is the whole shard.                                   *)
(* (compute_transfer_schedule_from_metadata and its chunk generators.)     *)
PlanExact ==
    \A k \in DOMAIN schedule : \A l \in DstShards(spec, schedule[k].dst) :
        LET slice == DstSlice(spec, schedule[k].dst, l)
            mine == {p \in schedule[k].pushes : p.to = l}
            at(s, point) == Place(s, point, schedule[k].tiled) * spec.item
        IN  /\ FoldSet(LAMBDA p, a : a + p.chunk.n * p.chunk.size, 0, mine)
                   = Product(Shape(slice)) * spec.item
            /\ mine # {} => schedule[k].relay[l] = <<0, Product(Shape(slice)) * spec.item>>
            /\ \A point \in Points(spec) :
                  LET there == ToPhysical(point, spec.dlayout)
                      here == ToPhysical(point, spec.slayout)
                  IN  Holds(slice, there) =>
                        \E p \in mine :
                           LET from == SrcSlice(spec, p.unit, p.shard)
                           IN  /\ Holds(from, here)
                               /\ Moves(p.chunk, at(from, here), at(slice, there))
=============================================================================
