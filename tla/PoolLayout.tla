----------------------------- MODULE PoolLayout -----------------------------
(* Byte geometry of a KV-cache pool (kv_cache/pool_layout.cc): a block of a   *)
(* pool has live bytes, in strided regions, and padding.  Live bytes are      *)
(* numbered in physical order (their logical offset).  Numbers are small, so  *)
(* the checks against int64 overflow never fire and are left out.             *)
EXTENDS Integers, Sequences, SequencesExt, FiniteSets, FiniteSetsExt

(* A region: [off, stride, unit, n, per]; n strides of per units of unit      *)
(* bytes.  A pool: [tag, base, stride, blocks, regions, dtype].               *)
Packed(r) == r.unit * r.per
RegionEnd(r) == IF r.n = 0 THEN r.off ELSE r.off + (r.n - 1) * r.stride + Packed(r)

(* RegionSpec::Validate *)
RegionValid(r, slot) ==
  /\ slot > 0 /\ r.off >= 0 /\ r.stride >= 0 /\ r.unit >= 0 /\ r.n >= 0 /\ r.per > 0
  /\ r.n > 0 => r.unit > 0 /\ r.stride >= Packed(r)
  /\ r.n > 1 => r.stride > 0
  /\ Max({r.off + Packed(r), RegionEnd(r)}) <= slot

(* PoolSpec::Validate, with the storage's size. *)
PoolValid(p, storage) ==
  /\ p.stride > 0 /\ p.blocks > 0 /\ p.base >= 0 /\ p.regions # <<>>
  /\ \A i \in DOMAIN p.regions : RegionValid(p.regions[i], p.stride)
  /\ p.base + (p.blocks - 1) * p.stride
       + Max({RegionEnd(p.regions[i]) : i \in DOMAIN p.regions}) <= storage

(* The runs of one region: units that abut are one run. *)
Runs(r) ==
  IF r.n = 0 THEN <<>>
  ELSE IF r.stride = Packed(r) THEN <<<<r.off, r.off + r.n * Packed(r)>>>>
  ELSE [u \in 1..r.n |-> <<r.off + (u - 1) * r.stride,
                           r.off + (u - 1) * r.stride + Packed(r)>>]

Sorted(runs) == SortSeq(runs, LAMBDA a, b : a[1] < b[1] \/ (a[1] = b[1] /\ a[2] < b[2]))

(* Sorted runs, with those that touch or overlap joined. *)
MergeRuns(runs) ==
  FoldLeft(LAMBDA acc, r :
             IF acc # <<>> /\ r[1] <= Last(acc)[2]
             THEN Front(acc) \o <<<<Last(acc)[1], Max({Last(acc)[2], r[2]})>>>>
             ELSE Append(acc, r), <<>>, Sorted(runs))

(* ComputePoolBlockCopyExtents: the storage extents of some blocks. *)
CopyExtents(p, ids) ==
  LET of(id) == FlattenSeq([i \in DOMAIN p.regions |->
                  [k \in DOMAIN Runs(p.regions[i]) |->
                     LET run == Runs(p.regions[i])[k]
                         at == p.base + id * p.stride
                     IN <<at + run[1], at + run[2]>>]])
  IN MergeRuns(FlattenSeq(SetToSeq({of(id) : id \in ids})))

(* ExpandPoolLiveSegments: the live segments of a block in logical order;     *)
(* <<>> when the regions are refused.                                         *)
LiveSegments(p) ==
  LET runs == Sorted(FlattenSeq([i \in DOMAIN p.regions |-> Runs(p.regions[i])]))
      phys == MergeRuns(runs)
      size(k) == phys[k][2] - phys[k][1]
      fits == \A i \in DOMAIN p.regions :
                /\ p.regions[i].n > 0 =>
                     Packed(p.regions[i]) > 0 /\ p.regions[i].stride >= Packed(p.regions[i])
                /\ RegionEnd(p.regions[i]) <= p.stride
      apart == \A k \in 1..Len(runs) - 1 : runs[k][2] <= runs[k + 1][1]
  IN IF ~fits \/ ~apart THEN <<>>
     ELSE [k \in DOMAIN phys |->
             [log |-> FoldLeft(LAMBDA s, j : s + size(j), 0,
                                             [j \in 1..k - 1 |-> j]),
              phys |-> phys[k][1], size |-> size(k)]]

LiveBytes(segs) == FoldLeft(LAMBDA s, g : s + g.size, 0, segs)

(* PhysicalLiveRangeToLogical; <<>> when the range crosses padding. *)
ToLogical(segs, off, size) ==
  LET home == {k \in DOMAIN segs : /\ segs[k].phys <= off
                                   /\ off + size <= segs[k].phys + segs[k].size}
  IN IF home = {} THEN <<>>
     ELSE LET g == segs[Min(home)]
              at == g.log + off - g.phys
          IN <<at, at + size>>

Locate(segs, at) ==
  LET g == CHOOSE x \in ToSet(segs) : x.log <= at /\ at < x.log + x.size
  IN [phys |-> g.phys + at - g.log, left |-> g.log + g.size - at]

(* TranslateLiveCopy: a copy between logical ranges as physical chunks, cut   *)
(* wherever either side's live segment ends.                                  *)
TranslateLiveCopy(src, dst, so, do, size) ==
  LET chunks[left \in 0..size] ==
        IF left = 0 THEN <<>>
        ELSE LET at == size - left
                 s == Locate(src, so + at)
                 d == Locate(dst, do + at)
                 n == Min({left, s.left, d.left})
             IN <<[so |-> s.phys, do |-> d.phys, size |-> n]>> \o chunks[left - n]
  IN chunks[size]

(* RegionsCoverRange: the walk from one covering unit's end to the next. *)
CoveredBy(r, at) ==
  LET u == IF r.n > 1 THEN (at - r.off) \div r.stride ELSE 0
      start == r.off + u * r.stride
  IN IF /\ r.n > 0 /\ at >= r.off /\ Packed(r) > 0 /\ u < r.n
        /\ start <= at /\ at < start + Packed(r)
     THEN start + Packed(r) ELSE at

RegionsCoverRange(regions, from, to) ==
  LET walk[left \in 0..to - from] ==
        LET at == to - left
            next == Max({at} \cup {Min({CoveredBy(regions[i], at), to}) :
                                     i \in DOMAIN regions})
        IN left = 0 \/ (next > at /\ walk[to - next])
  IN walk[to - from]

(* StridedSpanFitsBlock, StridedSpanFitsRegions *)
SpanFits(off, stride, size, count, p) ==
  /\ off >= 0 /\ stride >= 0 /\ size > 0 /\ count > 0
  /\ off + size <= p.stride
  /\ count > 1 => stride <= (p.stride - off - size) \div (count - 1)
  /\ \A c \in 0..count - 1 :
       RegionsCoverRange(p.regions, off + c * stride, off + c * stride + size)
=============================================================================
