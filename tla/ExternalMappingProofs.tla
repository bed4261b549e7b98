----------------------- MODULE ExternalMappingProofs -----------------------
(***************************************************************************)
(* Proofs about ExternalMapping for every device geometry, every set of    *)
(* concurrent map, unmap and copy calls and any number of faults, provided *)
(* that only the first object of a layer can be refused: what was issued   *)
(* of a layer before a later refusal is in no future (FailIssue), and the  *)
(* run mapping_refused shows where that leads.                             *)
(*                                                                         *)
(* MappingSafe is not inductive.  A DMA stays inside the pool because one  *)
(* call at a time changes the mapping (Phases), because an unmap begins    *)
(* with no lease and no future left to anyone else (Leases), and because   *)
(* each running DMA belongs to a copy that still has its lease or whose    *)
(* future somebody holds (Copying).  An error is reported because it is    *)
(* always kept in exactly these places (Errors).                           *)
(***************************************************************************)
EXTENDS ExternalMapping, FiniteSetTheorems, TLAPS

Callers == DOMAIN pool.callers
Copies == DOMAIN pool.copies

\* The states of a call that has the mapping reserved.
Mapping == {"map", "map_done"}
Taken == {"copies", "unmap_failed", "unmap_done"}
Unmapping == {"leases"} \cup Taken
CallerCalls == [pc : Mapping \cup Unmapping \cup {"idle", "refused", "ok", "copy_error"},
                await : SUBSET Copies, error : BOOLEAN]
CopyCalls == [pc : {"idle", "check", "issue", "refused", "ok"}, layer : Nat, object : Nat]
DmaStates == {"none", "running", "ok", "error"}
Ranges == [base : Nat, size : Nat, page : Nat]

MapType ==
  /\ pool \in PoolSites
  /\ mapPhase \in {"unmapped", "mapping", "mapped", "unmapping"}
  /\ mapped \in Ranges
  /\ caller \in [Callers -> CallerCalls]
  /\ copy \in [Copies -> CopyCalls]
  /\ inflight \subseteq Copies
  /\ deferred \in BOOLEAN /\ failed \in BOOLEAN
  /\ DOMAIN dma = Copies
  /\ \A c \in Copies : dma[c] \in [Layers -> [Objects(c) -> DmaStates]]

\* One call at a time has the mapping reserved, the phase says what for, and
\* what is mapped is registered until the unmap that takes it away.
Phases ==
  /\ \A d \in Callers : caller[d].pc \in Mapping => mapPhase = "mapping" /\ pool.callers[d].kind = "map"
  /\ \A d \in Callers : caller[d].pc \in Unmapping => mapPhase = "unmapping"
  /\ mapPhase = "unmapping" => \E d \in Callers : caller[d].pc \in Unmapping
  /\ \A d, e \in Callers : caller[d].pc \in Mapping \cup Unmapping /\ caller[e].pc \in Mapping \cup Unmapping
                             => d = e
  /\ \A d \in Callers : caller[d].pc = "map_done" => registered = pool.callers[d].range
  /\ mapPhase = "mapped" => registered = mapped
  /\ \A d \in Callers : caller[d].pc \in Unmapping \ {"unmap_done"} => registered = mapped

\* The copies that hold a lease.
Holders == {c \in Copies : copy[c].pc \in {"check", "issue"}}

\* Leases are counted.  Without a mapping, and once an unmap has taken the
\* futures, there is no lease, no future and no deferred error.
Leases ==
  /\ pending = Cardinality(Holders)
  /\ mapPhase \in {"unmapped", "mapping"} \/ (\E d \in Callers : caller[d].pc \in Taken)
       => Holders = {} /\ inflight = {} /\ ~deferred

\* What the checks under the lease have established.
Admitted(c) ==
  LET call == pool.copies[c]
  IN /\ RequestAccepts(call) /\ PagesAccept(call)
     /\ \A i \in Objects(c) : /\ ObjectStart(call, i) >= mapped.base
                              /\ ObjectStart(call, i) + RankBytes(call) <= mapped.base + mapped.size

\* Somebody waits for the DMAs of a copy before the pool goes.
Awaited(c) ==
  \/ copy[c].pc = "issue"
  \/ c \in inflight
  \/ \E d \in Callers : caller[d].pc = "copies" /\ c \in caller[d].await

\* A DMA of a copy is running.
Running(c) == \E l \in Layers, i \in Objects(c) : dma[c][l][i] = "running"

\* The DMAs of a copy are those it has issued so far, and the ones that run
\* are awaited.
Copying(c) ==
  /\ copy[c].layer \in 1..(Len(pool.layers) + 1)
  /\ copy[c].pc \in {"idle", "check"} =>
       /\ copy[c].layer = 1 /\ copy[c].object = 1
       /\ \A l \in Layers, i \in Objects(c) : dma[c][l][i] = "none"
  /\ copy[c].pc = "check" => RequestAccepts(pool.copies[c])
  /\ copy[c].pc = "issue" =>
       /\ Admitted(c) /\ copy[c].object \in Objects(c)
       /\ \A l \in Layers, i \in Objects(c) :
            dma[c][l][i] # "none" => l < copy[c].layer \/ (l = copy[c].layer /\ i < copy[c].object)
  /\ copy[c].pc \in {"refused", "ok"} =>
       \A l \in Layers, i \in Objects(c) : dma[c][l][i] # "none" => l < copy[c].layer
  /\ Running(c) => Awaited(c) /\ Admitted(c) /\ mapPhase \in {"mapped", "unmapping"}

\* A DMA of a copy has failed.
Broken(c) == \E l \in Layers, i \in Objects(c) : dma[c][l][i] = "error"

\* Where an error of this mapping is kept.
ErrorKept ==
  \/ deferred
  \/ \E f \in inflight : Failed(f)
  \/ \E c \in Copies : copy[c].pc = "issue" /\ Broken(c)
  \/ \E d \in Callers : caller[d].pc \in Taken /\ caller[d].error
  \/ \E d \in Callers : caller[d].pc = "copies" /\ \E f \in caller[d].await : Failed(f)

\* An error is kept exactly when there was one.
Errors == mapPhase \in {"mapped", "unmapping"} => (failed <=> ErrorKept)

MapInv ==
  /\ MapType /\ Phases /\ Leases /\ Errors /\ ErrorsReported
  /\ \A c \in Copies : Copying(c)

-----------------------------------------------------------------------------
(* Lemmas *)

\* The site never changes, nor what is read from it.
LEMMA SiteKept ==
  ASSUME pool' = pool
  PROVE  /\ Callers' = Callers /\ Copies' = Copies /\ Layers' = Layers
         /\ \A c : Objects(c)' = Objects(c)
BY ZenonT(30) DEF Callers, Copies, Layers, Objects

\* One call of map or unmap changes.
LEMMA CallerChange ==
  ASSUME caller \in [Callers -> CallerCalls], NEW d \in Callers, NEW r \in CallerCalls,
         caller' = [caller EXCEPT ![d] = r]
  PROVE  /\ caller' \in [Callers -> CallerCalls] /\ caller'[d] = r
         /\ \A e \in Callers \ {d} : caller'[e] = caller[e]
BY ZenonT(30)

\* One copy changes.
LEMMA CopyChange ==
  ASSUME copy \in [Copies -> CopyCalls], NEW c \in Copies, NEW r \in CopyCalls,
         copy' = [copy EXCEPT ![c] = r]
  PROVE  /\ copy' \in [Copies -> CopyCalls] /\ copy'[c] = r
         /\ \A e \in Copies \ {c} : copy'[e] = copy[e]
BY ZenonT(30)

\* One DMA changes.
DmaBecomes(c, l, i, v) == dma' = [dma EXCEPT ![c][l][i] = v]

\* The others stay.
LEMMA DmaChange ==
  ASSUME MapType, pool' = pool, NEW c \in Copies, NEW l \in Layers, NEW i \in Objects(c), NEW v \in DmaStates,
         DmaBecomes(c, l, i, v)
  PROVE  /\ DOMAIN dma' = Copies
         /\ \A e \in Copies : dma'[e] \in [Layers -> [Objects(e) -> DmaStates]]
         /\ \A e \in Copies \ {c} : dma'[e] = dma[e]
         /\ dma'[c][l][i] = v
         /\ \A m \in Layers, j \in Objects(c) : m # l \/ j # i => dma'[c][m][j] = dma[c][m][j]
<1>1. DOMAIN dma = Copies /\ \A e \in Copies : dma[e] \in [Layers -> [Objects(e) -> DmaStates]]
  BY ZenonT(30) DEF MapType
<1> DEFINE x == [dma[c] EXCEPT ![l][i] = v]
<1>2. /\ x \in [Layers -> [Objects(c) -> DmaStates]] /\ x[l][i] = v
      /\ \A m \in Layers, j \in Objects(c) : m # l \/ j # i => x[m][j] = dma[c][m][j]
  BY <1>1, ZenonT(30)
<1>3. DOMAIN dma' = Copies /\ dma'[c] = x /\ \A e \in Copies \ {c} : dma'[e] = dma[e]
  BY <1>1, ZenonT(30) DEF DmaBecomes
<1> HIDE DEF x
<1> QED
  BY <1>1, <1>2, <1>3, ZenonT(30)

\* What is read from a copy that does not change.
LEMMA SameCopy ==
  ASSUME pool' = pool, NEW c \in Copies, copy'[c] = copy[c], dma'[c] = dma[c]
  PROVE  /\ Running(c)' <=> Running(c)
         /\ Broken(c)' <=> Broken(c)
         /\ Failed(c)' <=> Failed(c)
         /\ Ready(c)' <=> Ready(c)
<1>1. Layers' = Layers /\ Objects(c)' = Objects(c)
  BY SiteKept, ZenonT(30)
<1> QED
  BY <1>1, ZenonT(30) DEF Running, Broken, Failed, Ready, Submitted

\* What a copy was admitted for stays as long as the mapping does.
LEMMA SameMapping ==
  ASSUME pool' = pool, NEW c \in Copies, mapped' = mapped
  PROVE  Admitted(c)' <=> Admitted(c)
BY ZenonT(30) DEF Admitted, RequestAccepts, PagesAccept, RankBytes, ObjectStart, Objects, Layers

\* A copy that does not change keeps its part of the invariant, if what it
\* rests on stays.
LEMMA CopyingKept ==
  ASSUME pool' = pool, NEW c \in Copies, Copying(c), copy'[c] = copy[c], dma'[c] = dma[c],
         copy[c].pc = "issue" \/ Running(c) => mapped' = mapped,
         Running(c) => Awaited(c)' /\ mapPhase' \in {"mapped", "unmapping"}
  PROVE  Copying(c)'
<1>1. Layers' = Layers /\ Objects(c)' = Objects(c) /\ (Running(c)' <=> Running(c))
  BY SiteKept, SameCopy, ZenonT(30)
<1>2. RequestAccepts(pool.copies[c])' <=> RequestAccepts(pool.copies[c])
  BY ZenonT(30) DEF RequestAccepts, Layers
<1>3. copy[c].pc = "issue" \/ Running(c) => (Admitted(c)' <=> Admitted(c))
  BY SameMapping, ZenonT(30)
<1> QED
  BY <1>1, <1>2, <1>3 DEF Copying

\* The invariant after a step of a map or unmap call.
LEMMA CallerStep ==
  ASSUME MapInv, pool' = pool, copy' = copy, dma' = dma,
         caller' \in [Callers -> CallerCalls],
         mapPhase' \in {"unmapped", "mapping", "mapped", "unmapping"}, mapped' \in Ranges,
         inflight' \subseteq Copies, deferred' \in BOOLEAN, failed' \in BOOLEAN,
         Phases', Leases', Errors', ErrorsReported',
         \A c \in Copies : copy[c].pc = "issue" \/ Running(c) => mapped' = mapped,
         \A c \in Copies : Running(c) => Awaited(c)' /\ mapPhase' \in {"mapped", "unmapping"}
  PROVE  MapInv'
<1>1. MapType'
  BY SiteKept, ZenonT(30) DEF MapInv, MapType, CallerCalls, CopyCalls
<1>2. \A c \in Copies : Copying(c)'
  BY CopyingKept, ZenonT(30) DEF MapInv
<1> QED
  BY <1>1, <1>2, SiteKept, ZenonT(30) DEF MapInv

\* The invariant after a step of a copy.
LEMMA CopyStep ==
  ASSUME MapInv, pool' = pool, NEW c \in Copies,
         caller' = caller, mapPhase' = mapPhase, mapped' = mapped, registered' = registered,
         copy' \in [Copies -> CopyCalls], \A e \in Copies \ {c} : copy'[e] = copy[e],
         DOMAIN dma' = Copies, \A e \in Copies : dma'[e] \in [Layers -> [Objects(e) -> DmaStates]],
         \A e \in Copies \ {c} : dma'[e] = dma[e],
         inflight' \subseteq Copies, deferred' \in BOOLEAN, failed' \in BOOLEAN,
         Leases', Errors', Copying(c)',
         \A e \in Copies \ {c} : Running(e) /\ e \in inflight /\ copy[e].pc # "issue" => e \in inflight'
  PROVE  MapInv'
<1>1. MapType'
  BY SiteKept, ZenonT(30) DEF MapInv, MapType, CallerCalls, CopyCalls
<1>2. ASSUME NEW e \in Copies \ {c} PROVE Copying(e)'
  <2>1. Copying(e)
    BY ZenonT(30) DEF MapInv
  <2>2. Running(e) => Awaited(e)' /\ mapPhase' \in {"mapped", "unmapping"}
    BY <2>1, SiteKept, ZenonT(30) DEF Copying, Awaited
  <2> QED
    BY <2>1, <2>2, CopyingKept, ZenonT(30)
<1>3. Phases' /\ ErrorsReported'
  BY SiteKept, ZenonT(30) DEF MapInv, Phases, ErrorsReported
<1> QED
  BY <1>1, <1>2, <1>3, SiteKept, ZenonT(30) DEF MapInv

\* Without a mapping, and once an unmap has taken the futures, no copy is being
\* issued; without a mapping none is running either.
LEMMA Idle ==
  ASSUME MapInv
  PROVE  /\ mapPhase \in {"unmapped", "mapping"} => \A c \in Copies : copy[c].pc # "issue" /\ ~Running(c)
         /\ (\E d \in Callers : caller[d].pc \in Taken) => \A c \in Copies : copy[c].pc # "issue"
BY ZenonT(30) DEF MapInv, Leases, Holders, Copying

\* Copies that do not change leave the leases as they are.
LEMMA SameHolders ==
  ASSUME pool' = pool, copy' = copy
  PROVE  Holders' = Holders
BY SiteKept, ZenonT(30) DEF Holders

\* The errors kept, in a step of a map or unmap call that leaves the other
\* calls and the futures alone.
LEMMA SameErrors ==
  ASSUME MapInv, pool' = pool, copy' = copy, dma' = dma, inflight' = inflight, deferred' = deferred,
         NEW d \in Callers, \A e \in Callers \ {d} : caller'[e] = caller[e],
         caller[d].pc \notin Taken, caller'[d].pc \notin Taken
  PROVE  ErrorKept' <=> ErrorKept
<1>1. \A f \in Copies : (Failed(f)' <=> Failed(f)) /\ (Broken(f)' <=> Broken(f))
  BY SameCopy, ZenonT(30)
<1>2. inflight \subseteq Copies /\ \A e \in Callers : caller[e].await \subseteq Copies
  BY ZenonT(30) DEF MapInv, MapType, CallerCalls
<1> QED
  BY <1>1, <1>2, SiteKept, ZenonT(30) DEF ErrorKept, Taken

\* A map or unmap call that is refused at once.
LEMMA RefusedStep ==
  ASSUME MapInv, NEW d \in Callers, caller[d].pc = "idle",
         caller' = [caller EXCEPT ![d].pc = "refused"],
         pool' = pool, copy' = copy, dma' = dma, mapped' = mapped, registered' = registered,
         mapPhase' = mapPhase, pending' = pending, inflight' = inflight, deferred' = deferred, failed' = failed
  PROVE  MapInv'
<1>2. /\ MapType /\ Phases /\ Leases /\ Errors /\ ErrorsReported
      /\ caller \in [Callers -> CallerCalls] /\ caller[d] \in CallerCalls
  BY ZenonT(30) DEF MapInv, MapType
<1>3. Callers' = Callers /\ Copies' = Copies /\ Holders' = Holders
  BY SiteKept, SameHolders, ZenonT(30)
<1> DEFINE r == [caller[d] EXCEPT !.pc = "refused"]
<1>4. r \in CallerCalls /\ r.pc = "refused"
  BY <1>2, ZenonT(30) DEF CallerCalls
<1>5. caller' = [caller EXCEPT ![d] = r]
  BY ZenonT(30)
<1> HIDE DEF r
<1>6. caller' \in [Callers -> CallerCalls] /\ caller'[d] = r /\ \A e \in Callers \ {d} : caller'[e] = caller[e]
  BY <1>2, <1>4, <1>5, CallerChange, ZenonT(30)
<1>7. Phases'
  BY <1>2, <1>3, <1>4, <1>6, ZenonT(30) DEF Phases, Mapping, Unmapping, Taken
<1>8. Leases'
  BY <1>2, <1>3, <1>4, <1>6, ZenonT(30) DEF Leases, Taken
<1>9. Errors'
  BY <1>2, <1>4, <1>6, SameErrors, ZenonT(30) DEF Errors, Taken
<1>10. ErrorsReported'
  BY <1>2, <1>3, <1>4, <1>6, ZenonT(30) DEF ErrorsReported
<1>11. ASSUME NEW c \in Copies, Running(c) PROVE Awaited(c)' /\ mapPhase' \in {"mapped", "unmapping"}
  <2>1. Awaited(c) /\ mapPhase \in {"mapped", "unmapping"}
    BY <1>11, ZenonT(30) DEF MapInv, Copying
  <2> QED
    BY <1>3, <1>4, <1>6, <2>1, ZenonT(30) DEF Awaited
<1> QED
  BY <1>2, <1>6, <1>7, <1>8, <1>9, <1>10, <1>11, CallerStep, ZenonT(30) DEF MapType

-----------------------------------------------------------------------------
(* MapSharedMemory *)

\* The map call reserves the mapping, or is refused.
LEMMA BeginMapStep ==
  ASSUME MapInv, NEW d \in Callers, BeginMap(d)
  PROVE  MapInv'
<1>1. /\ pool' = pool /\ copy' = copy /\ dma' = dma /\ mapped' = mapped /\ registered' = registered
      /\ pending' = pending /\ inflight' = inflight /\ deferred' = deferred /\ failed' = failed
      /\ caller[d].pc = "idle" /\ pool.callers[d].kind = "map"
  BY ZenonT(30) DEF BeginMap
<1>2. /\ MapType /\ Phases /\ Leases /\ Errors /\ ErrorsReported
      /\ caller \in [Callers -> CallerCalls] /\ mapped \in Ranges /\ inflight \subseteq Copies
      /\ deferred \in BOOLEAN /\ failed \in BOOLEAN /\ caller[d] \in CallerCalls
  BY ZenonT(30) DEF MapInv, MapType
<1>3. Callers' = Callers /\ Copies' = Copies /\ Holders' = Holders
  BY <1>1, SiteKept, SameHolders, ZenonT(30)
<1>4. CASE MapAccepts(pool.callers[d]) /\ mapPhase = "unmapped"
  <2> DEFINE r == [caller[d] EXCEPT !.pc = "map"]
  <2>1. r \in CallerCalls /\ r.pc = "map"
    BY <1>2, ZenonT(30) DEF CallerCalls, Mapping
  <2>2. caller' = [caller EXCEPT ![d] = r] /\ mapPhase' = "mapping"
    BY <1>4, ZenonT(30) DEF BeginMap
  <2> HIDE DEF r
  <2>3. caller' \in [Callers -> CallerCalls] /\ caller'[d] = r /\ \A e \in Callers \ {d} : caller'[e] = caller[e]
    BY <1>2, <2>1, <2>2, CallerChange, ZenonT(30)
  <2>4. Phases'
    BY <1>1, <1>2, <1>3, <1>4, <2>1, <2>2, <2>3 DEF Phases, Mapping, Unmapping, Taken
  <2>5. Leases'
    BY <1>1, <1>2, <1>3, <1>4, <2>2, ZenonT(30) DEF Leases
  <2>6. Errors' /\ ErrorsReported'
    BY <1>1, <1>2, <1>3, <2>1, <2>2, <2>3, ZenonT(30) DEF Errors, ErrorsReported
  <2>7. \A c \in Copies : copy[c].pc # "issue" /\ ~Running(c)
    BY <1>4, Idle, ZenonT(30)
  <2> QED
    BY <1>1, <1>2, <2>2, <2>3, <2>4, <2>5, <2>6, <2>7, CallerStep, ZenonT(30)
<1>5. CASE ~(MapAccepts(pool.callers[d]) /\ mapPhase = "unmapped")
  BY <1>1, <1>2, <1>5, RefusedStep, ZenonT(30) DEF BeginMap
<1> QED
  BY <1>4, <1>5, ZenonT(30)

\* DmaMap, which may fail.
LEMMA DmaMapStep ==
  ASSUME MapInv, NEW d \in Callers, DmaMap(d)
  PROVE  MapInv'
<1>1. /\ pool' = pool /\ copy' = copy /\ dma' = dma /\ mapped' = mapped
      /\ pending' = pending /\ inflight' = inflight /\ deferred' = deferred /\ failed' = failed
      /\ caller[d].pc = "map"
  BY ZenonT(30) DEF DmaMap
<1>2. /\ MapType /\ Phases /\ Leases /\ Errors /\ ErrorsReported
      /\ caller \in [Callers -> CallerCalls] /\ mapped \in Ranges /\ inflight \subseteq Copies
      /\ mapPhase \in {"unmapped", "mapping", "mapped", "unmapping"}
      /\ deferred \in BOOLEAN /\ failed \in BOOLEAN /\ caller[d] \in CallerCalls
  BY ZenonT(30) DEF MapInv, MapType
<1>3. Callers' = Callers /\ Copies' = Copies /\ Holders' = Holders
  BY <1>1, SiteKept, SameHolders, ZenonT(30)
<1>4. mapPhase = "mapping"
  BY <1>1, <1>2, ZenonT(30) DEF Phases, Mapping
<1>5. \A c \in Copies : copy[c].pc # "issue" /\ ~Running(c)
  BY <1>4, Idle, ZenonT(30)
<1>6. CASE registered' = pool.callers[d].range /\ caller' = [caller EXCEPT ![d].pc = "map_done"] /\ mapPhase' = mapPhase
  <2> DEFINE r == [caller[d] EXCEPT !.pc = "map_done"]
  <2>1. r \in CallerCalls /\ r.pc = "map_done"
    BY <1>2, ZenonT(30) DEF CallerCalls, Mapping
  <2>2. caller' = [caller EXCEPT ![d] = r]
    BY <1>6, ZenonT(30)
  <2> HIDE DEF r
  <2>3. caller' \in [Callers -> CallerCalls] /\ caller'[d] = r /\ \A e \in Callers \ {d} : caller'[e] = caller[e]
    BY <1>2, <2>1, <2>2, CallerChange, ZenonT(30)
  <2>4. Phases'
    BY <1>1, <1>2, <1>3, <1>4, <1>6, <2>1, <2>3 DEF Phases, Mapping, Unmapping, Taken
  <2>5. Leases'
    BY <1>1, <1>2, <1>3, <1>4, ZenonT(30) DEF Leases
  <2>6. Errors' /\ ErrorsReported'
    BY <1>1, <1>2, <1>3, <1>4, <1>6, <2>1, <2>3, ZenonT(30) DEF Errors, ErrorsReported
  <2> QED
    BY <1>1, <1>2, <1>4, <1>5, <1>6, <2>3, <2>4, <2>5, <2>6, CallerStep, ZenonT(30)
<1>7. CASE mapPhase' = "unmapped" /\ caller' = [caller EXCEPT ![d].pc = "refused"] /\ registered' = registered
  <2> DEFINE r == [caller[d] EXCEPT !.pc = "refused"]
  <2>1. r \in CallerCalls /\ r.pc = "refused"
    BY <1>2, ZenonT(30) DEF CallerCalls
  <2>2. caller' = [caller EXCEPT ![d] = r]
    BY <1>7, ZenonT(30)
  <2> HIDE DEF r
  <2>3. caller' \in [Callers -> CallerCalls] /\ caller'[d] = r /\ \A e \in Callers \ {d} : caller'[e] = caller[e]
    BY <1>2, <2>1, <2>2, CallerChange, ZenonT(30)
  <2>4. Phases'
    BY <1>1, <1>2, <1>3, <1>4, <1>7, <2>1, <2>3 DEF Phases, Mapping, Unmapping, Taken
  <2>5. Leases'
    BY <1>1, <1>2, <1>3, <1>4, ZenonT(30) DEF Leases
  <2>6. Errors' /\ ErrorsReported'
    BY <1>1, <1>2, <1>3, <1>7, <2>1, <2>3, ZenonT(30) DEF Errors, ErrorsReported
  <2> QED
    BY <1>1, <1>2, <1>5, <1>7, <2>3, <2>4, <2>5, <2>6, CallerStep, ZenonT(30)
<1> QED
  BY <1>6, <1>7, ZenonT(30) DEF DmaMap

\* The pool is mapped: no error yet.
LEMMA EndMapStep ==
  ASSUME MapInv, NEW d \in Callers, EndMap(d)
  PROVE  MapInv'
<1>1. /\ pool' = pool /\ copy' = copy /\ dma' = dma /\ registered' = registered
      /\ pending' = pending /\ inflight' = inflight /\ deferred' = deferred /\ failed' = FALSE
      /\ caller[d].pc = "map_done" /\ mapped' = pool.callers[d].range /\ mapPhase' = "mapped"
  BY ZenonT(30) DEF EndMap
<1>2. /\ MapType /\ Phases /\ Leases /\ Errors /\ ErrorsReported
      /\ caller \in [Callers -> CallerCalls] /\ mapped \in Ranges /\ inflight \subseteq Copies
      /\ mapPhase \in {"unmapped", "mapping", "mapped", "unmapping"}
      /\ deferred \in BOOLEAN /\ failed \in BOOLEAN /\ caller[d] \in CallerCalls
  BY ZenonT(30) DEF MapInv, MapType
<1>3. Callers' = Callers /\ Copies' = Copies /\ Holders' = Holders
  BY <1>1, SiteKept, SameHolders, ZenonT(30)
<1>4. mapPhase = "mapping" /\ registered = pool.callers[d].range /\ pool.callers[d].kind = "map"
  BY <1>1, <1>2, ZenonT(30) DEF Phases, Mapping
<1>5. \A c \in Copies : copy[c].pc # "issue" /\ ~Running(c)
  BY <1>4, Idle, ZenonT(30)
<1>6. mapped' \in Ranges
  BY <1>1, <1>2, <1>4, MapAssumption, ZenonT(30) DEF MapType, Ranges, Callers
<1> DEFINE r == [caller[d] EXCEPT !.pc = "ok"]
<1>7. r \in CallerCalls /\ r.pc = "ok"
  BY <1>2, ZenonT(30) DEF CallerCalls
<1>8. caller' = [caller EXCEPT ![d] = r]
  BY ZenonT(30) DEF EndMap
<1> HIDE DEF r
<1>9. caller' \in [Callers -> CallerCalls] /\ caller'[d] = r /\ \A e \in Callers \ {d} : caller'[e] = caller[e]
  BY <1>2, <1>7, <1>8, CallerChange, ZenonT(30)
<1>10. \A e \in Callers : caller'[e].pc \notin Mapping \cup Unmapping
  BY <1>1, <1>2, <1>7, <1>9, ZenonT(30) DEF Phases, Mapping, Unmapping, Taken
<1>11. Phases'
  BY <1>1, <1>3, <1>4, <1>10, ZenonT(30) DEF Phases, Mapping, Unmapping, Taken
<1>12. Leases'
  BY <1>1, <1>2, <1>3, <1>4, <1>10, ZenonT(30) DEF Leases, Unmapping
<1>13. ~ErrorKept'
  BY <1>1, <1>2, <1>3, <1>4, <1>5, <1>10, ZenonT(30) DEF Leases, ErrorKept, Unmapping, Taken
<1>14. Errors' /\ ErrorsReported'
  BY <1>1, <1>2, <1>3, <1>4, <1>9, <1>13, ZenonT(30) DEF Errors, ErrorsReported
<1> QED
  BY <1>1, <1>2, <1>5, <1>6, <1>9, <1>11, <1>12, <1>14, CallerStep, ZenonT(30)

-----------------------------------------------------------------------------
(* UnmapSharedMemory *)

\* The unmap reserves the mapping, or is refused.
LEMMA BeginUnmapStep ==
  ASSUME MapInv, NEW d \in Callers, BeginUnmap(d)
  PROVE  MapInv'
<1>1. /\ pool' = pool /\ copy' = copy /\ dma' = dma /\ mapped' = mapped /\ registered' = registered
      /\ pending' = pending /\ inflight' = inflight /\ deferred' = deferred /\ failed' = failed
      /\ caller[d].pc = "idle"
  BY ZenonT(30) DEF BeginUnmap
<1>2. /\ MapType /\ Phases /\ Leases /\ Errors /\ ErrorsReported
      /\ caller \in [Callers -> CallerCalls] /\ mapped \in Ranges /\ inflight \subseteq Copies
      /\ mapPhase \in {"unmapped", "mapping", "mapped", "unmapping"}
      /\ deferred \in BOOLEAN /\ failed \in BOOLEAN /\ caller[d] \in CallerCalls
  BY ZenonT(30) DEF MapInv, MapType
<1>3. Callers' = Callers /\ Copies' = Copies /\ Holders' = Holders
  BY <1>1, SiteKept, SameHolders, ZenonT(30)
<1>4. CASE mapPhase = "mapped"
  <2> DEFINE r == [caller[d] EXCEPT !.pc = "leases"]
  <2>1. r \in CallerCalls /\ r.pc = "leases"
    BY <1>2, ZenonT(30) DEF CallerCalls, Unmapping
  <2>2. caller' = [caller EXCEPT ![d] = r] /\ mapPhase' = "unmapping"
    BY <1>4, ZenonT(30) DEF BeginUnmap
  <2> HIDE DEF r
  <2>3. caller' \in [Callers -> CallerCalls] /\ caller'[d] = r /\ \A e \in Callers \ {d} : caller'[e] = caller[e]
    BY <1>2, <2>1, <2>2, CallerChange, ZenonT(30)
  <2>4. \A e \in Callers : caller[e].pc \notin Mapping \cup Unmapping
    BY <1>2, <1>4, ZenonT(30) DEF Phases
  <2>5. Phases'
    BY <1>1, <1>2, <1>3, <1>4, <2>1, <2>2, <2>3, <2>4 DEF Phases, Mapping, Unmapping, Taken
  <2>6. Leases'
    BY <1>1, <1>2, <1>3, <2>1, <2>2, <2>3, <2>4, ZenonT(30) DEF Leases, Unmapping, Taken
  <2>7. ErrorKept' <=> ErrorKept
    BY <1>1, <2>1, <2>3, SameErrors, ZenonT(30) DEF Taken
  <2>8. Errors' /\ ErrorsReported'
    BY <1>1, <1>2, <1>3, <1>4, <2>1, <2>2, <2>3, <2>7, ZenonT(30) DEF Errors, ErrorsReported
  <2>9. ASSUME NEW c \in Copies, Running(c) PROVE Awaited(c)' /\ mapPhase' \in {"mapped", "unmapping"}
    <3>1. Awaited(c)
      BY <2>9, ZenonT(30) DEF MapInv, Copying
    <3> QED
      BY <1>1, <1>3, <2>1, <2>2, <2>3, <3>1, ZenonT(30) DEF Awaited
  <2> QED
    BY <1>1, <1>2, <2>2, <2>3, <2>5, <2>6, <2>8, <2>9, CallerStep, ZenonT(30)
<1>5. CASE mapPhase # "mapped"
  BY <1>1, <1>5, RefusedStep, ZenonT(30) DEF BeginUnmap
<1> QED
  BY <1>4, <1>5, ZenonT(30)

\* With no lease left, the unmap takes the futures and the deferred error.
LEMMA TakeCopiesStep ==
  ASSUME MapInv, NEW d \in Callers, TakeCopies(d)
  PROVE  MapInv'
<1>1. /\ pool' = pool /\ copy' = copy /\ dma' = dma /\ mapped' = mapped /\ registered' = registered
      /\ mapPhase' = mapPhase /\ pending' = pending /\ inflight' = {} /\ deferred' = FALSE /\ failed' = failed
      /\ caller[d].pc = "leases" /\ pending = 0
  BY ZenonT(30) DEF TakeCopies
<1>2. /\ MapType /\ Phases /\ Leases /\ Errors /\ ErrorsReported
      /\ caller \in [Callers -> CallerCalls] /\ mapped \in Ranges /\ inflight \subseteq Copies
      /\ mapPhase \in {"unmapped", "mapping", "mapped", "unmapping"}
      /\ deferred \in BOOLEAN /\ failed \in BOOLEAN /\ caller[d] \in CallerCalls
  BY ZenonT(30) DEF MapInv, MapType
<1>3. Callers' = Callers /\ Copies' = Copies /\ Holders' = Holders
  BY <1>1, SiteKept, SameHolders, ZenonT(30)
<1>4. mapPhase = "unmapping" /\ \A e \in Callers \ {d} : caller[e].pc \notin Mapping \cup Unmapping
  BY <1>1, <1>2, ZenonT(30) DEF Phases, Unmapping
<1>5. Holders = {}
  <2>1. IsFiniteSet(Copies)
    BY <1>2, MapAssumption, ZenonT(30) DEF MapType, Copies
  <2>2. Holders \subseteq Copies
    BY ZenonT(30) DEF Holders
  <2>3. IsFiniteSet(Holders)
    BY <2>1, <2>2, FS_Subset, ZenonT(30)
  <2>4. Cardinality(Holders) = 0
    BY <1>1, <1>2, ZenonT(30) DEF Leases
  <2> QED
    BY <2>3, <2>4, FS_EmptySet, ZenonT(30)
<1> DEFINE r == [pc |-> "copies", await |-> inflight, error |-> deferred]
<1>6. r \in CallerCalls /\ r.pc = "copies" /\ r.await = inflight /\ r.error = deferred
  BY <1>2, ZenonT(30) DEF CallerCalls, Unmapping, Taken
<1>7. caller' = [caller EXCEPT ![d] = r]
  BY ZenonT(30) DEF TakeCopies
<1> HIDE DEF r
<1>8. caller' \in [Callers -> CallerCalls] /\ caller'[d] = r /\ \A e \in Callers \ {d} : caller'[e] = caller[e]
  BY <1>2, <1>6, <1>7, CallerChange, ZenonT(30)
<1>9. Phases'
  BY <1>1, <1>2, <1>3, <1>4, <1>6, <1>8 DEF Phases, Mapping, Unmapping, Taken
<1>10. Leases'
  BY <1>1, <1>2, <1>3, <1>5, ZenonT(30) DEF Leases
<1>11. ErrorKept' <=> ErrorKept
  <2>1. \A f \in Copies : (Failed(f)' <=> Failed(f)) /\ (Broken(f)' <=> Broken(f))
    BY <1>1, SameCopy, ZenonT(30)
  <2>2. \A e \in Callers \ {d} : caller[e].pc \notin Taken /\ caller'[e].pc \notin Taken
    BY <1>4, <1>8, ZenonT(30) DEF Unmapping
  <2>3. caller[d].pc \notin Taken /\ caller'[d].pc = "copies" /\ caller'[d].await = inflight
        /\ caller'[d].error = deferred
    BY <1>1, <1>6, <1>8, ZenonT(30) DEF Taken
  <2>4. \A c \in Copies : copy[c].pc # "issue"
    BY <1>5, ZenonT(30) DEF Holders
  <2>5. ErrorKept <=> deferred \/ \E f \in inflight : Failed(f)
    BY <2>2, <2>3, <2>4, ZenonT(30) DEF ErrorKept, Taken
  <2>6. ErrorKept' <=> caller'[d].error \/ \E f \in inflight : Failed(f)'
    BY <1>1, <1>3, <2>2, <2>3, <2>4, ZenonT(30) DEF ErrorKept, Taken
  <2> QED
    BY <1>2, <2>1, <2>3, <2>5, <2>6, ZenonT(30)
<1>12. Errors' /\ ErrorsReported'
  BY <1>1, <1>2, <1>3, <1>6, <1>8, <1>11, ZenonT(30) DEF Errors, ErrorsReported
<1>13. ASSUME NEW c \in Copies, Running(c) PROVE Awaited(c)' /\ mapPhase' \in {"mapped", "unmapping"}
  <2>1. Awaited(c)
    BY <1>13, ZenonT(30) DEF MapInv, Copying
  <2>2. c \in inflight
    BY <1>1, <1>4, <1>5, <2>1, ZenonT(30) DEF Awaited, Holders, Unmapping, Taken
  <2> QED
    BY <1>1, <1>3, <1>4, <1>6, <1>8, <2>2, ZenonT(30) DEF Awaited
<1> QED
  BY <1>1, <1>2, <1>8, <1>9, <1>10, <1>12, <1>13, CallerStep, ZenonT(30)

\* Once the unmap has taken the futures and finds them all ready, nothing runs.
LEMMA NothingRuns ==
  ASSUME MapInv, NEW d \in Callers, caller[d].pc = "copies", \A f \in caller[d].await : Ready(f)
  PROVE  \A c \in Copies : ~Running(c) /\ copy[c].pc # "issue"
<1>1. MapType /\ Phases /\ Leases
  BY ZenonT(30) DEF MapInv
<1>2. mapPhase = "unmapping" /\ \A e \in Callers \ {d} : caller[e].pc \notin Mapping \cup Unmapping
  BY <1>1, ZenonT(30) DEF Phases, Unmapping, Taken
<1>3. Holders = {} /\ inflight = {}
  BY <1>1, ZenonT(30) DEF Leases, Taken
<1>4. ASSUME NEW c \in Copies PROVE ~Running(c) /\ copy[c].pc # "issue"
  <2>1. copy[c].pc \notin {"check", "issue"}
    BY <1>3, ZenonT(30) DEF Holders
  <2>2. SUFFICES ASSUME Running(c) PROVE FALSE
    BY <2>1, ZenonT(30)
  <2>3. Copying(c) /\ copy[c] \in CopyCalls
    BY <1>1, ZenonT(30) DEF MapInv, MapType
  <2>4. PICK l \in Layers, i \in Objects(c) : dma[c][l][i] = "running"
    BY <2>2, ZenonT(30) DEF Running
  <2>5. copy[c].pc \in {"refused", "ok"}
    BY <2>1, <2>3, <2>4, ZenonT(30) DEF Copying, CopyCalls
  <2>6. l < copy[c].layer
    BY <2>3, <2>4, <2>5, ZenonT(30) DEF Copying
  <2>7. c \in caller[d].await
    BY <1>2, <1>3, <2>1, <2>2, <2>3, ZenonT(30) DEF Copying, Awaited, Unmapping, Taken
  <2>8. l \in Submitted(c)
    <3>1. Layers = 1..Len(pool.layers) /\ Len(pool.layers) \in Nat
      BY <1>1, MapAssumption DEF MapType, Layers
    <3> QED
      BY <2>3, <2>6, <3>1 DEF Submitted, CopyCalls
  <2> QED
    BY <2>4, <2>7, <2>8, ZenonT(30) DEF Ready
<1> QED
  BY <1>4, ZenonT(30)

\* All futures are ready, so nothing runs when the range is taken from the
\* device.
LEMMA DmaUnmapStep ==
  ASSUME MapInv, NEW d \in Callers, DmaUnmap(d)
  PROVE  MapInv'
<1> DEFINE error == caller[d].error \/ \E f \in caller[d].await : Failed(f)
<1>1. /\ pool' = pool /\ copy' = copy /\ dma' = dma /\ mapped' = mapped
      /\ mapPhase' = mapPhase /\ pending' = pending /\ inflight' = inflight /\ deferred' = deferred
      /\ failed' = failed
      /\ caller[d].pc = "copies" /\ \A f \in caller[d].await : Ready(f)
  BY ZenonT(30) DEF DmaUnmap
<1>2. /\ MapType /\ Phases /\ Leases /\ Errors /\ ErrorsReported
      /\ caller \in [Callers -> CallerCalls] /\ mapped \in Ranges /\ inflight \subseteq Copies
      /\ mapPhase \in {"unmapped", "mapping", "mapped", "unmapping"}
      /\ deferred \in BOOLEAN /\ failed \in BOOLEAN /\ caller[d] \in CallerCalls
  BY ZenonT(30) DEF MapInv, MapType
<1>3. Callers' = Callers /\ Copies' = Copies /\ Holders' = Holders
  BY <1>1, SiteKept, SameHolders, ZenonT(30)
<1>4. /\ mapPhase = "unmapping" /\ \A e \in Callers \ {d} : caller[e].pc \notin Mapping \cup Unmapping
      /\ registered = mapped
  BY <1>1, <1>2, ZenonT(30) DEF Phases, Unmapping, Taken
<1>5. Holders = {} /\ inflight = {} /\ ~deferred
  BY <1>1, <1>2, ZenonT(30) DEF Leases, Taken
<1>6. \A c \in Copies : ~Running(c) /\ copy[c].pc # "issue"
  BY <1>1, NothingRuns, ZenonT(30)
<1>7. \A f \in Copies : (Failed(f)' <=> Failed(f)) /\ (Broken(f)' <=> Broken(f))
  BY <1>1, SameCopy, ZenonT(30)
<1>8. ASSUME NEW p \in {"unmap_done", "unmap_failed"}, p # "unmap_done" => registered' = registered,
             caller' = [caller EXCEPT ![d].pc = p, ![d].error = error]
      PROVE  MapInv'
  <2> DEFINE r == [caller[d] EXCEPT !.pc = p, !.error = error]
  <2>1. r \in CallerCalls /\ r.pc = p /\ r.error = error
    BY <1>2, <1>8, ZenonT(30) DEF CallerCalls, Unmapping, Taken
  <2>2. caller' = [caller EXCEPT ![d] = r]
    BY <1>8, ZenonT(30)
  <2> HIDE DEF r, error
  <2>3. caller' \in [Callers -> CallerCalls] /\ caller'[d] = r /\ \A e \in Callers \ {d} : caller'[e] = caller[e]
    BY <1>2, <2>1, <2>2, CallerChange, ZenonT(30)
  <2>4. Phases'
    BY <1>1, <1>2, <1>3, <1>4, <1>8, <2>1, <2>3 DEF Phases, Mapping, Unmapping, Taken
  <2>5. Leases'
    BY <1>1, <1>2, <1>3, <1>5, ZenonT(30) DEF Leases
  <2>6. ErrorKept' <=> ErrorKept
    <3>1. \A e \in Callers \ {d} : caller[e].pc \notin Taken /\ caller'[e].pc \notin Taken
      BY <1>4, <2>3, ZenonT(30) DEF Unmapping
    <3>2. ErrorKept <=> error
      BY <1>1, <1>5, <1>6, <3>1, ZenonT(30) DEF ErrorKept, Taken, error
    <3>3. ErrorKept' <=> caller'[d].error
      BY <1>1, <1>3, <1>5, <1>6, <1>8, <2>1, <2>3, <3>1, ZenonT(30) DEF ErrorKept, Taken
    <3> QED
      BY <2>1, <2>3, <3>2, <3>3, ZenonT(30)
  <2>7. Errors' /\ ErrorsReported'
    BY <1>1, <1>2, <1>3, <1>8, <2>1, <2>3, <2>6, ZenonT(30) DEF Errors, ErrorsReported
  <2> QED
    BY <1>1, <1>2, <1>6, <2>3, <2>4, <2>5, <2>7, CallerStep, ZenonT(30)
<1> QED
  BY <1>8, ZenonT(30) DEF DmaUnmap

\* The device kept the range: still mapped, with the copies' error deferred.
LEMMA KeepMappingStep ==
  ASSUME MapInv, NEW d \in Callers, KeepMapping(d)
  PROVE  MapInv'
<1>1. /\ pool' = pool /\ copy' = copy /\ dma' = dma /\ mapped' = mapped /\ registered' = registered
      /\ pending' = pending /\ inflight' = inflight /\ failed' = failed
      /\ mapPhase' = "mapped" /\ deferred' = (deferred \/ caller[d].error)
      /\ caller[d].pc = "unmap_failed"
  BY ZenonT(30) DEF KeepMapping
<1>2. /\ MapType /\ Phases /\ Leases /\ Errors /\ ErrorsReported
      /\ caller \in [Callers -> CallerCalls] /\ mapped \in Ranges /\ inflight \subseteq Copies
      /\ mapPhase \in {"unmapped", "mapping", "mapped", "unmapping"}
      /\ deferred \in BOOLEAN /\ failed \in BOOLEAN /\ caller[d] \in CallerCalls
  BY ZenonT(30) DEF MapInv, MapType
<1>3. Callers' = Callers /\ Copies' = Copies /\ Holders' = Holders
  BY <1>1, SiteKept, SameHolders, ZenonT(30)
<1>4. /\ mapPhase = "unmapping" /\ \A e \in Callers \ {d} : caller[e].pc \notin Mapping \cup Unmapping
      /\ registered = mapped
  BY <1>1, <1>2, ZenonT(30) DEF Phases, Unmapping, Taken
<1>5. Holders = {} /\ inflight = {} /\ ~deferred
  BY <1>1, <1>2, ZenonT(30) DEF Leases, Taken
<1>6. \A c \in Copies : copy[c].pc # "issue" /\ ~Running(c)
  <2>1. ASSUME NEW c \in Copies PROVE copy[c].pc # "issue" /\ ~Awaited(c)
    BY <1>1, <1>4, <1>5, ZenonT(30) DEF Awaited, Holders, Unmapping, Taken
  <2> QED
    BY <2>1, ZenonT(30) DEF MapInv, Copying
<1> DEFINE r == [caller[d] EXCEPT !.pc = "refused"]
<1>7. r \in CallerCalls /\ r.pc = "refused"
  BY <1>2, ZenonT(30) DEF CallerCalls
<1>8. caller' = [caller EXCEPT ![d] = r]
  BY ZenonT(30) DEF KeepMapping
<1> HIDE DEF r
<1>9. caller' \in [Callers -> CallerCalls] /\ caller'[d] = r /\ \A e \in Callers \ {d} : caller'[e] = caller[e]
  BY <1>2, <1>7, <1>8, CallerChange, ZenonT(30)
<1>10. \A e \in Callers : caller'[e].pc \notin Mapping \cup Unmapping
  BY <1>4, <1>7, <1>9, ZenonT(30) DEF Mapping, Unmapping, Taken
<1>11. Phases'
  BY <1>1, <1>3, <1>4, <1>10, ZenonT(30) DEF Phases, Mapping, Unmapping, Taken
<1>12. Leases'
  BY <1>1, <1>2, <1>3, <1>10, ZenonT(30) DEF Leases, Unmapping
<1>13. ErrorKept' <=> ErrorKept
  <2>1. ErrorKept <=> caller[d].error
    BY <1>1, <1>4, <1>5, <1>6, ZenonT(30) DEF ErrorKept, Unmapping, Taken
  <2>2. ErrorKept' <=> deferred'
    BY <1>1, <1>3, <1>5, <1>6, <1>10, ZenonT(30) DEF ErrorKept, Unmapping, Taken
  <2> QED
    BY <1>1, <1>5, <2>1, <2>2, ZenonT(30)
<1>14. Errors' /\ ErrorsReported'
  BY <1>1, <1>2, <1>3, <1>4, <1>7, <1>9, <1>13, ZenonT(30) DEF Errors, ErrorsReported
<1>15. deferred' \in BOOLEAN
  BY <1>1, ZenonT(30)
<1> QED
  BY <1>1, <1>2, <1>6, <1>9, <1>11, <1>12, <1>14, <1>15, CallerStep, ZenonT(30)

\* The pool is unmapped, and the caller is told of the errors of its copies.
LEMMA EndUnmapStep ==
  ASSUME MapInv, NEW d \in Callers, EndUnmap(d)
  PROVE  MapInv'
<1>1. /\ pool' = pool /\ copy' = copy /\ dma' = dma /\ mapped' = NoRange /\ registered' = registered
      /\ pending' = pending /\ inflight' = inflight /\ failed' = failed
      /\ mapPhase' = "unmapped" /\ deferred' = FALSE
      /\ caller[d].pc = "unmap_done"
  BY ZenonT(30) DEF EndUnmap
<1>2. /\ MapType /\ Phases /\ Leases /\ Errors /\ ErrorsReported
      /\ caller \in [Callers -> CallerCalls] /\ mapped \in Ranges /\ inflight \subseteq Copies
      /\ mapPhase \in {"unmapped", "mapping", "mapped", "unmapping"}
      /\ deferred \in BOOLEAN /\ failed \in BOOLEAN /\ caller[d] \in CallerCalls
  BY ZenonT(30) DEF MapInv, MapType
<1>3. Callers' = Callers /\ Copies' = Copies /\ Holders' = Holders
  BY <1>1, SiteKept, SameHolders, ZenonT(30)
<1>4. mapPhase = "unmapping" /\ \A e \in Callers \ {d} : caller[e].pc \notin Mapping \cup Unmapping
  BY <1>1, <1>2, ZenonT(30) DEF Phases, Unmapping, Taken
<1>5. Holders = {} /\ inflight = {} /\ ~deferred
  BY <1>1, <1>2, ZenonT(30) DEF Leases, Taken
<1>6. \A c \in Copies : copy[c].pc # "issue" /\ ~Running(c)
  <2>1. ASSUME NEW c \in Copies PROVE copy[c].pc # "issue" /\ ~Awaited(c)
    BY <1>1, <1>4, <1>5, ZenonT(30) DEF Awaited, Holders, Unmapping, Taken
  <2> QED
    BY <2>1, ZenonT(30) DEF MapInv, Copying
<1>7. failed = caller[d].error
  <2>1. ErrorKept <=> caller[d].error
    BY <1>1, <1>4, <1>5, <1>6, ZenonT(30) DEF ErrorKept, Unmapping, Taken
  <2>2. caller[d].error \in BOOLEAN
    BY <1>2, ZenonT(30) DEF CallerCalls
  <2>3. failed <=> ErrorKept
    BY <1>2, <1>4, ZenonT(30) DEF Errors
  <2> QED
    BY <1>2, <2>1, <2>2, <2>3, ZenonT(30)
<1> DEFINE p == IF caller[d].error THEN "copy_error" ELSE "ok"
           r == [caller[d] EXCEPT !.pc = p, !.error = failed]
<1>8. /\ r \in CallerCalls /\ r.pc \in {"ok", "copy_error"} /\ r.error = failed
      /\ r.pc = "ok" => ~r.error
      /\ r.pc = "copy_error" => r.error
  BY <1>2, <1>7, ZenonT(30) DEF CallerCalls
<1>9. caller' = [caller EXCEPT ![d] = r]
  BY ZenonT(30) DEF EndUnmap
<1> HIDE DEF r
<1>10. caller' \in [Callers -> CallerCalls] /\ caller'[d] = r /\ \A e \in Callers \ {d} : caller'[e] = caller[e]
  BY <1>2, <1>8, <1>9, CallerChange, ZenonT(30)
<1>11. \A e \in Callers : caller'[e].pc \notin Mapping \cup Unmapping
  BY <1>4, <1>8, <1>10, ZenonT(30) DEF Mapping, Unmapping, Taken
<1>12. Phases'
  BY <1>1, <1>3, <1>11, ZenonT(30) DEF Phases, Mapping, Unmapping, Taken
<1>13. Leases'
  BY <1>1, <1>2, <1>3, <1>5, ZenonT(30) DEF Leases
<1>14. Errors'
  BY <1>1, ZenonT(30) DEF Errors
<1>15. ErrorsReported'
  BY <1>1, <1>2, <1>3, <1>8, <1>10, ZenonT(30) DEF ErrorsReported
<1>16. mapped' \in Ranges
  BY <1>1, ZenonT(30) DEF NoRange, Ranges
<1> QED
  BY <1>1, <1>2, <1>6, <1>10, <1>12, <1>13, <1>14, <1>15, <1>16, CallerStep, ZenonT(30)

-----------------------------------------------------------------------------
(* CopyExternalObjectBlocks *)

\* Layers and objects are numbered from one.
LEMMA Numbers ==
  ASSUME MapType
  PROVE  /\ Layers = 1..Len(pool.layers) /\ Len(pool.layers) \in Nat
         /\ \A c \in Copies : /\ pool.copies[c].bases \in Seq(Nat) /\ Objects(c) = 1..Len(pool.copies[c].bases)
                              /\ Len(pool.copies[c].bases) \in Nat
BY MapAssumption DEF MapType, Layers, Copies, Objects

\* The leases are finitely many.
LEMMA HoldersFinite == MapType => IsFiniteSet(Holders) /\ Cardinality(Holders) \in Nat
<1> SUFFICES ASSUME MapType PROVE IsFiniteSet(Holders) /\ Cardinality(Holders) \in Nat
  BY ZenonT(30)
<1>1. IsFiniteSet(Copies)
  BY MapAssumption, ZenonT(30) DEF MapType, Copies
<1>2. Holders \subseteq Copies
  BY ZenonT(30) DEF Holders
<1>3. IsFiniteSet(Holders)
  BY <1>1, <1>2, FS_Subset, ZenonT(30)
<1> QED
  BY <1>3, FS_CardinalityType, ZenonT(30)

\* A copy takes a lease.
LEMMA LeaseTaken ==
  ASSUME MapType, Phases, Leases, NEW c \in Copies,
         pool' = pool, caller' = caller, mapPhase' = mapPhase, mapPhase = "mapped",
         \A e \in Copies \ {c} : copy'[e] = copy[e],
         copy[c].pc = "idle", copy'[c].pc = "check", pending' = pending + 1
  PROVE  Leases'
<1>1. Callers' = Callers /\ Copies' = Copies
  BY SiteKept, ZenonT(30)
<1>2. Holders' = Holders \cup {c} /\ c \notin Holders
  BY <1>1, ZenonT(30) DEF Holders
<1>3. Cardinality(Holders') = Cardinality(Holders) + 1
  BY <1>2, HoldersFinite, FS_AddElement, ZenonT(30)
<1>4. \A d \in Callers : caller[d].pc \notin Taken
  BY ZenonT(30) DEF Phases, Unmapping
<1> QED
  BY <1>1, <1>3, <1>4, ZenonT(30) DEF Leases

\* A copy gives its lease back.
LEMMA LeaseReturned ==
  ASSUME MapType, Leases, NEW c \in Copies,
         pool' = pool, caller' = caller, mapPhase' = mapPhase,
         \A e \in Copies \ {c} : copy'[e] = copy[e],
         copy[c].pc \in {"check", "issue"}, copy'[c].pc \in {"refused", "ok"}, pending' = pending - 1
  PROVE  Leases'
<1>1. Callers' = Callers /\ Copies' = Copies
  BY SiteKept, ZenonT(30)
<1>2. Holders' = Holders \ {c} /\ c \in Holders
  BY <1>1, ZenonT(30) DEF Holders
<1>3. Cardinality(Holders') = Cardinality(Holders) - 1
  BY <1>2, HoldersFinite, FS_RemoveElement, ZenonT(30)
<1> QED
  BY <1>1, <1>2, <1>3, ZenonT(30) DEF Leases

\* A copy keeps its lease, or has none before and after.
LEMMA LeaseKept ==
  ASSUME MapType, Leases, NEW c \in Copies,
         pool' = pool, caller' = caller, mapPhase' = mapPhase,
         \A e \in Copies \ {c} : copy'[e] = copy[e],
         copy[c].pc \in {"check", "issue"} <=> copy'[c].pc \in {"check", "issue"}, pending' = pending,
         inflight' = inflight, deferred' = deferred
  PROVE  Leases'
<1>1. Callers' = Callers /\ Copies' = Copies
  BY SiteKept, ZenonT(30)
<1>2. Holders' = Holders
  BY <1>1, ZenonT(30) DEF Holders
<1> QED
  BY <1>1, <1>2, ZenonT(30) DEF Leases

\* What a future knows of is an error of its copy; and of a layer that was
\* submitted whole, it knows all.
LEMMA FailedBroken ==
  ASSUME MapType, pool' = pool, NEW c \in Copies
  PROVE  /\ copy[c].layer \in 1..(Len(pool.layers) + 1) /\ Failed(c) => Broken(c)
         /\ copy'[c].layer \in 1..(Len(pool.layers) + 1) /\ Failed(c)' => Broken(c)'
<1>1. Layers = 1..Len(pool.layers) /\ Len(pool.layers) \in Nat
  BY Numbers, ZenonT(30)
<1>2. copy[c].layer \in 1..(Len(pool.layers) + 1) => Submitted(c) \subseteq Layers
  BY <1>1 DEF Submitted
<1>3. copy'[c].layer \in 1..(Len(pool.layers) + 1) => Submitted(c)' \subseteq Layers
  BY <1>1 DEF Submitted
<1>4. Layers' = Layers
  BY SiteKept, ZenonT(30)
<1> QED
  BY <1>2, <1>3, <1>4, ZenonT(30) DEF Failed, Broken

\* A copy without a failed DMA changes.
LEMMA QuietErrors ==
  ASSUME MapType, pool' = pool, NEW c \in Copies, caller' = caller, dma' = dma,
         \A e \in Copies \ {c} : copy'[e] = copy[e],
         ~Broken(c), copy[c].layer \in 1..(Len(pool.layers) + 1), copy'[c].layer \in 1..(Len(pool.layers) + 1),
         inflight' = inflight, deferred' = deferred
  PROVE  ErrorKept' <=> ErrorKept
<1>1. \A f \in Copies \ {c} : (Failed(f)' <=> Failed(f)) /\ (Broken(f)' <=> Broken(f))
  BY SameCopy, ZenonT(30)
<1>2. ~Failed(c) /\ ~Failed(c)' /\ ~Broken(c) /\ ~Broken(c)'
  BY FailedBroken, SiteKept, ZenonT(30) DEF Broken
<1>3. inflight \subseteq Copies /\ \A e \in Callers : caller[e].await \subseteq Copies
  BY ZenonT(30) DEF MapType, CallerCalls
<1>4. \A f \in Copies : (Failed(f)' <=> Failed(f)) /\ (Broken(f)' <=> Broken(f))
  BY <1>1, <1>2, ZenonT(30)
<1>5. \A f \in Copies : copy'[f].pc = "issue" /\ Broken(f) <=> copy[f].pc = "issue" /\ Broken(f)
  BY <1>2, ZenonT(30)
<1> QED
  BY <1>3, <1>4, <1>5, SiteKept, ZenonT(30) DEF ErrorKept

\* A copy that is not being issued yet has no DMA.
LEMMA NotIssued ==
  ASSUME MapType, NEW c \in Copies, Copying(c), copy[c].pc \in {"idle", "check"}
  PROVE  /\ copy[c].layer = 1 /\ copy[c].object = 1 /\ ~Broken(c) /\ ~Running(c)
         /\ 1 \in 1..(Len(pool.layers) + 1)
<1>1. Len(pool.layers) \in Nat
  BY Numbers, ZenonT(30)
<1> QED
  BY <1>1, ZenonT(30) DEF Copying, Broken, Running

-----------------------------------------------------------------------------
(* The steps of the copies. *)


\* The copy gets a lease, or is refused.
LEMMA AcquireStep ==
  ASSUME MapInv, NEW c \in Copies, AcquireExternalCopyLease(c)
  PROVE  MapInv'
<1>1. /\ pool' = pool /\ caller' = caller /\ mapPhase' = mapPhase /\ mapped' = mapped /\ registered' = registered
      /\ dma' = dma /\ inflight' = inflight /\ deferred' = deferred /\ failed' = failed
      /\ copy[c].pc = "idle"
  BY ZenonT(30) DEF AcquireExternalCopyLease
<1>2. /\ MapType /\ Phases /\ Leases /\ Errors /\ Copying(c)
      /\ copy \in [Copies -> CopyCalls] /\ copy[c] \in CopyCalls /\ inflight \subseteq Copies
      /\ mapPhase \in {"unmapped", "mapping", "mapped", "unmapping"}
      /\ deferred \in BOOLEAN /\ failed \in BOOLEAN
      /\ DOMAIN dma = Copies /\ \A e \in Copies : dma[e] \in [Layers -> [Objects(e) -> DmaStates]]
  BY ZenonT(30) DEF MapInv, MapType
<1>3. Callers' = Callers /\ Copies' = Copies /\ Layers' = Layers /\ Objects(c)' = Objects(c)
  BY <1>1, SiteKept, ZenonT(30)
<1>4. Layers = 1..Len(pool.layers) /\ Len(pool.layers) \in Nat /\ Objects(c) = 1..Len(pool.copies[c].bases)
      /\ Len(pool.copies[c].bases) \in Nat
  BY <1>2, Numbers, ZenonT(30)
<1>5. copy[c].layer = 1 /\ copy[c].object = 1 /\ ~Broken(c) /\ ~Running(c) /\ 1 \in 1..(Len(pool.layers) + 1)
  BY <1>1, <1>2, NotIssued, ZenonT(30)
<1>6. CASE RequestAccepts(pool.copies[c]) /\ mapPhase = "mapped"
  <2> DEFINE r == [copy[c] EXCEPT !.pc = "check"]
  <2>1. r \in CopyCalls /\ r.pc = "check" /\ r.layer = 1 /\ r.object = 1
    BY <1>2, <1>5, ZenonT(30) DEF CopyCalls
  <2>2. copy' = [copy EXCEPT ![c] = r] /\ pending' = pending + 1
    BY <1>6, ZenonT(30) DEF AcquireExternalCopyLease
  <2> HIDE DEF r
  <2>3. copy' \in [Copies -> CopyCalls] /\ copy'[c] = r /\ \A e \in Copies \ {c} : copy'[e] = copy[e]
    BY <1>2, <2>1, <2>2, CopyChange, ZenonT(30)
  <2>4. Leases'
    BY <1>1, <1>2, <1>6, <2>1, <2>2, <2>3, LeaseTaken, ZenonT(30)
  <2>5. ErrorKept' <=> ErrorKept
    BY <1>1, <1>2, <1>5, <2>1, <2>3, QuietErrors, ZenonT(30)
  <2>6. Errors'
    BY <1>1, <1>2, <2>5, ZenonT(30) DEF Errors
  <2>7. RequestAccepts(pool.copies[c])'
    BY <1>1, <1>3, <1>6, ZenonT(30) DEF RequestAccepts
  <2>8. Copying(c)'
    BY <1>1, <1>2, <1>3, <1>5, <2>1, <2>3, <2>7, ZenonT(30) DEF Copying, Running
  <2> QED
    BY <1>1, <1>2, <2>3, <2>4, <2>6, <2>8, CopyStep, ZenonT(30)
<1>7. CASE ~(RequestAccepts(pool.copies[c]) /\ mapPhase = "mapped")
  <2> DEFINE r == [copy[c] EXCEPT !.pc = "refused"]
  <2>1. r \in CopyCalls /\ r.pc = "refused" /\ r.layer = 1 /\ r.object = 1
    BY <1>2, <1>5, ZenonT(30) DEF CopyCalls
  <2>2. copy' = [copy EXCEPT ![c] = r] /\ pending' = pending
    BY <1>7, ZenonT(30) DEF AcquireExternalCopyLease
  <2> HIDE DEF r
  <2>3. copy' \in [Copies -> CopyCalls] /\ copy'[c] = r /\ \A e \in Copies \ {c} : copy'[e] = copy[e]
    BY <1>2, <2>1, <2>2, CopyChange, ZenonT(30)
  <2>4. Leases'
    BY <1>1, <1>2, <2>1, <2>2, <2>3, LeaseKept, ZenonT(30)
  <2>5. ErrorKept' <=> ErrorKept
    BY <1>1, <1>2, <1>5, <2>1, <2>3, QuietErrors, ZenonT(30)
  <2>6. Errors'
    BY <1>1, <1>2, <2>5, ZenonT(30) DEF Errors
  <2>7. Copying(c)'
    BY <1>1, <1>2, <1>3, <1>5, <2>1, <2>3, ZenonT(30) DEF Copying, Running
  <2> QED
    BY <1>1, <1>2, <2>3, <2>4, <2>6, <2>7, CopyStep, ZenonT(30)
<1> QED
  BY <1>6, <1>7, ZenonT(30)

\* The checks under the lease.
LEMMA CheckRangesStep ==
  ASSUME MapInv, NEW c \in Copies, CheckRanges(c)
  PROVE  MapInv'
<1>1. /\ pool' = pool /\ caller' = caller /\ mapPhase' = mapPhase /\ mapped' = mapped /\ registered' = registered
      /\ dma' = dma /\ inflight' = inflight /\ deferred' = deferred /\ failed' = failed
      /\ copy[c].pc = "check"
  BY ZenonT(30) DEF CheckRanges
<1>2. /\ MapType /\ Phases /\ Leases /\ Errors /\ Copying(c)
      /\ copy \in [Copies -> CopyCalls] /\ copy[c] \in CopyCalls /\ inflight \subseteq Copies
      /\ mapPhase \in {"unmapped", "mapping", "mapped", "unmapping"}
      /\ deferred \in BOOLEAN /\ failed \in BOOLEAN
      /\ DOMAIN dma = Copies /\ \A e \in Copies : dma[e] \in [Layers -> [Objects(e) -> DmaStates]]
  BY ZenonT(30) DEF MapInv, MapType
<1>3. Callers' = Callers /\ Copies' = Copies /\ Layers' = Layers /\ Objects(c)' = Objects(c)
  BY <1>1, SiteKept, ZenonT(30)
<1>4. Layers = 1..Len(pool.layers) /\ Len(pool.layers) \in Nat /\ Objects(c) = 1..Len(pool.copies[c].bases)
      /\ Len(pool.copies[c].bases) \in Nat
  BY <1>2, Numbers, ZenonT(30)
<1>5. copy[c].layer = 1 /\ copy[c].object = 1 /\ ~Broken(c) /\ ~Running(c) /\ 1 \in 1..(Len(pool.layers) + 1)
  BY <1>1, <1>2, NotIssued, ZenonT(30)
<1>6. CASE PagesAccept(pool.copies[c]) /\ RangesAccept(pool.copies[c])
  <2> DEFINE r == [copy[c] EXCEPT !.pc = "issue"]
  <2>1. r \in CopyCalls /\ r.pc = "issue" /\ r.layer = 1 /\ r.object = 1
    BY <1>2, <1>5, ZenonT(30) DEF CopyCalls
  <2>2. copy' = [copy EXCEPT ![c] = r] /\ pending' = pending
    BY <1>6, ZenonT(30) DEF CheckRanges
  <2> HIDE DEF r
  <2>3. copy' \in [Copies -> CopyCalls] /\ copy'[c] = r /\ \A e \in Copies \ {c} : copy'[e] = copy[e]
    BY <1>2, <2>1, <2>2, CopyChange, ZenonT(30)
  <2>4. Leases'
    BY <1>1, <1>2, <2>1, <2>2, <2>3, LeaseKept, ZenonT(30)
  <2>5. ErrorKept' <=> ErrorKept
    BY <1>1, <1>2, <1>5, <2>1, <2>3, QuietErrors, ZenonT(30)
  <2>6. Errors'
    BY <1>1, <1>2, <2>5, ZenonT(30) DEF Errors
  <2>7. RequestAccepts(pool.copies[c])
    BY <1>1, <1>2, ZenonT(30) DEF Copying
  <2>8. Admitted(c)
    BY <1>6, <2>7, ZenonT(30) DEF Admitted, RangesAccept, Objects
  <2>9. Admitted(c)'
    BY <1>1, <2>8, SameMapping, ZenonT(30)
  <2>10. 1 \in Objects(c)
    <3>1. pool.copies[c].blocks \in Seq(Nat) /\ pool.copies[c].blocks # <<>>
          /\ Len(pool.copies[c].blocks) = Len(pool.copies[c].bases)
      BY <1>2, <2>7, MapAssumption, ZenonT(30) DEF MapType, RequestAccepts, Copies
    <3> QED
      BY <1>4, <3>1
  <2>11. Copying(c)'
    BY <1>1, <1>2, <1>3, <1>5, <2>1, <2>3, <2>9, <2>10, ZenonT(30) DEF Copying, Running
  <2> QED
    BY <1>1, <1>2, <2>3, <2>4, <2>6, <2>11, CopyStep, ZenonT(30)
<1>7. CASE ~(PagesAccept(pool.copies[c]) /\ RangesAccept(pool.copies[c]))
  <2> DEFINE r == [copy[c] EXCEPT !.pc = "refused"]
  <2>1. r \in CopyCalls /\ r.pc = "refused" /\ r.layer = 1 /\ r.object = 1
    BY <1>2, <1>5, ZenonT(30) DEF CopyCalls
  <2>2. copy' = [copy EXCEPT ![c] = r] /\ pending' = pending - 1
    BY <1>7, ZenonT(30) DEF CheckRanges
  <2> HIDE DEF r
  <2>3. copy' \in [Copies -> CopyCalls] /\ copy'[c] = r /\ \A e \in Copies \ {c} : copy'[e] = copy[e]
    BY <1>2, <2>1, <2>2, CopyChange, ZenonT(30)
  <2>4. Leases'
    BY <1>1, <1>2, <2>1, <2>2, <2>3, LeaseReturned, ZenonT(30)
  <2>5. ErrorKept' <=> ErrorKept
    BY <1>1, <1>2, <1>5, <2>1, <2>3, QuietErrors, ZenonT(30)
  <2>6. Errors'
    BY <1>1, <1>2, <2>5, ZenonT(30) DEF Errors
  <2>7. Copying(c)'
    BY <1>1, <1>2, <1>3, <1>5, <2>1, <2>3, ZenonT(30) DEF Copying, Running
  <2> QED
    BY <1>1, <1>2, <2>3, <2>4, <2>6, <2>7, CopyStep, ZenonT(30)
<1> QED
  BY <1>6, <1>7, ZenonT(30)

\* A copy that is done issuing hands its future over: the futures swept out are
\* ready, and their errors deferred.
LEMMA HandedOver ==
  ASSUME MapInv, pool' = pool, NEW c \in Copies, caller' = caller, dma' = dma,
         \A e \in Copies \ {c} : copy'[e] = copy[e],
         copy[c].pc = "issue", copy'[c].pc \in {"refused", "ok"}, copy'[c].layer = copy[c].layer,
         Broken(c) => Failed(c), AddExternalCopy(c)
  PROVE  /\ inflight' \subseteq Copies /\ deferred' \in BOOLEAN /\ c \in inflight'
         /\ ErrorKept' <=> ErrorKept
         /\ \A e \in Copies \ {c} : Running(e) /\ e \in inflight /\ copy[e].pc # "issue" => e \in inflight'
<1> DEFINE sweep == Cardinality(inflight) >= watermark
           kept == IF sweep THEN {f \in inflight : ~Ready(f)} ELSE inflight
<1>1. MapType /\ inflight \subseteq Copies /\ \A e \in Callers : caller[e].await \subseteq Copies
  BY ZenonT(30) DEF MapInv, MapType, CallerCalls
<1>2. /\ kept \subseteq inflight /\ \A f \in inflight \ kept : Ready(f)
      /\ inflight' = kept \cup {c} /\ deferred' = (deferred \/ \E f \in inflight \ kept : Failed(f))
  BY ZenonT(30) DEF AddExternalCopy
<1> HIDE DEF kept, sweep
<1>3. inflight' \subseteq Copies /\ deferred' \in BOOLEAN /\ c \in inflight'
  BY <1>1, <1>2, ZenonT(30)
<1>4. Failed(c)' <=> Failed(c)
  BY SiteKept, ZenonT(30) DEF Failed, Submitted
<1>5. \A f \in Copies : Failed(f)' <=> Failed(f)
  BY <1>4, SameCopy, ZenonT(30)
<1>6. \A f \in Copies \ {c} : Broken(f)' <=> Broken(f)
  BY SameCopy, ZenonT(30)
<1>7. Failed(c) <=> Broken(c)
  <2>1. copy[c].layer \in 1..(Len(pool.layers) + 1)
    BY ZenonT(30) DEF MapInv, Copying
  <2> QED
    BY <1>1, <2>1, FailedBroken, ZenonT(30)
<1>8. Callers' = Callers /\ Copies' = Copies
  BY SiteKept, ZenonT(30)
<1>9. (\E f \in inflight' : Failed(f)') <=> (\E f \in kept : Failed(f)) \/ Failed(c)
  BY <1>1, <1>2, <1>5, ZenonT(30)
<1>10. (\E f \in inflight : Failed(f)) <=> (\E f \in kept : Failed(f)) \/ \E f \in inflight \ kept : Failed(f)
  BY <1>2, ZenonT(30)
<1>11. (\E e \in Copies : copy[e].pc = "issue" /\ Broken(e))
         <=> (\E e \in Copies : copy'[e].pc = "issue" /\ Broken(e)') \/ Failed(c)
  BY <1>6, <1>7, ZenonT(30)
<1>12. (\E d \in Callers : caller[d].pc = "copies" /\ \E f \in caller[d].await : Failed(f))
         <=> (\E d \in Callers : caller'[d].pc = "copies" /\ \E f \in caller'[d].await : Failed(f)')
  BY <1>1, <1>5, ZenonT(30)
<1>13. ErrorKept' <=> ErrorKept
  <2>1. deferred' <=> deferred \/ \E f \in inflight \ kept : Failed(f)
    BY <1>2, Zenon
  <2>2. ErrorKept' <=> \/ deferred'
                       \/ \E f \in inflight' : Failed(f)'
                       \/ \E e \in Copies : copy'[e].pc = "issue" /\ Broken(e)'
                       \/ \E d \in Callers : caller[d].pc \in Taken /\ caller[d].error
                       \/ \E d \in Callers : caller'[d].pc = "copies" /\ \E f \in caller'[d].await : Failed(f)'
    BY <1>8, ZenonT(30) DEF ErrorKept
  <2> QED
    BY <1>9, <1>10, <1>11, <1>12, <2>1, <2>2, Zenon DEF ErrorKept
<1>14. ASSUME NEW e \in Copies, Running(e), copy[e].pc # "issue" PROVE ~Ready(e)
  <2>1. Copying(e) /\ copy[e] \in CopyCalls
    BY <1>1, ZenonT(30) DEF MapInv, MapType
  <2>2. PICK l \in Layers, i \in Objects(e) : dma[e][l][i] = "running"
    BY <1>14, ZenonT(30) DEF Running
  <2>3. copy[e].pc \in {"refused", "ok"}
    BY <1>14, <2>1, <2>2, ZenonT(30) DEF Copying, CopyCalls
  <2>4. l < copy[e].layer
    BY <2>1, <2>2, <2>3, ZenonT(30) DEF Copying
  <2>5. l \in Submitted(e)
    BY <1>1, <2>1, <2>4, Numbers DEF Submitted, CopyCalls
  <2> QED
    BY <2>2, <2>5, ZenonT(30) DEF Ready
<1> QED
  BY <1>2, <1>3, <1>13, <1>14, ZenonT(30)

\* A copy is refused while it issues the first object of a layer: with what it
\* has submitted before, its future is handed over.
LEMMA FailIssueStep ==
  ASSUME MapInv, NEW c \in Copies, FailIssue(c), \A s \in PoolSites : s.breaks \subseteq {1}
  PROVE  MapInv'
<1>1. /\ pool' = pool /\ caller' = caller /\ mapPhase' = mapPhase /\ mapped' = mapped /\ registered' = registered
      /\ dma' = dma /\ failed' = failed /\ copy[c].pc = "issue" /\ pending' = pending - 1
      /\ copy' = [copy EXCEPT ![c].pc = "refused"] /\ copy[c].object \in pool.breaks
  BY ZenonT(30) DEF FailIssue
<1>2. /\ MapType /\ Phases /\ Leases /\ Errors /\ Copying(c)
      /\ copy \in [Copies -> CopyCalls] /\ copy[c] \in CopyCalls /\ inflight \subseteq Copies
      /\ mapPhase \in {"unmapped", "mapping", "mapped", "unmapping"}
      /\ deferred \in BOOLEAN /\ failed \in BOOLEAN
      /\ DOMAIN dma = Copies /\ \A e \in Copies : dma[e] \in [Layers -> [Objects(e) -> DmaStates]]
  BY ZenonT(30) DEF MapInv, MapType
<1>3. Callers' = Callers /\ Copies' = Copies /\ Layers' = Layers /\ Objects(c)' = Objects(c)
  BY <1>1, SiteKept, ZenonT(30)
<1>4. Layers = 1..Len(pool.layers) /\ Len(pool.layers) \in Nat /\ Objects(c) = 1..Len(pool.copies[c].bases)
      /\ Len(pool.copies[c].bases) \in Nat
  BY <1>2, Numbers, ZenonT(30)
<1>5. copy[c].object = 1
  BY <1>1, <1>2, ZenonT(30) DEF MapType
<1>6. copy[c].layer \in 1..(Len(pool.layers) + 1) /\ Admitted(c)
  BY <1>1, <1>2, ZenonT(30) DEF Copying
<1>7. \A l \in Layers, j \in Objects(c) : dma[c][l][j] # "none" => l < copy[c].layer
  BY <1>1, <1>2, <1>4, <1>5 DEF Copying
<1> DEFINE r == [copy[c] EXCEPT !.pc = "refused"]
<1>8. r \in CopyCalls /\ r.pc = "refused" /\ r.layer = copy[c].layer
  BY <1>2, ZenonT(30) DEF CopyCalls
<1>9. copy' = [copy EXCEPT ![c] = r]
  BY <1>1, ZenonT(30)
<1> HIDE DEF r
<1>10. copy' \in [Copies -> CopyCalls] /\ copy'[c] = r /\ \A e \in Copies \ {c} : copy'[e] = copy[e]
  BY <1>2, <1>8, <1>9, CopyChange, ZenonT(30)
<1>11. Leases'
  BY <1>1, <1>2, <1>8, <1>10, LeaseReturned, ZenonT(30)
<1>12. Running(c)' <=> Running(c)
  BY <1>1, <1>3, ZenonT(30) DEF Running
<1>13. Admitted(c)'
  BY <1>1, <1>6, SameMapping, ZenonT(30)
<1>14. CASE copy[c].layer > 1
  <2>1. AddExternalCopy(c)
    BY <1>14, ZenonT(30) DEF FailIssue
  <2>2. Broken(c) => Failed(c)
    <3>1. ASSUME NEW l \in Layers, NEW j \in Objects(c), dma[c][l][j] = "error" PROVE l \in Submitted(c)
      BY <1>4, <1>6, <1>7, <3>1 DEF Submitted
    <3> QED
      BY <3>1, ZenonT(30) DEF Broken, Failed
  <2>3. /\ inflight' \subseteq Copies /\ deferred' \in BOOLEAN /\ c \in inflight'
        /\ ErrorKept' <=> ErrorKept
        /\ \A e \in Copies \ {c} : Running(e) /\ e \in inflight /\ copy[e].pc # "issue" => e \in inflight'
    BY <1>1, <1>8, <1>10, <2>1, <2>2, HandedOver, ZenonT(30)
  <2>4. Errors'
    BY <1>1, <1>2, <2>3, ZenonT(30) DEF Errors
  <2>5. Copying(c)'
    <3>1. Awaited(c)'
      BY <2>3, ZenonT(30) DEF Awaited
    <3>2. Running(c) => mapPhase' \in {"mapped", "unmapping"}
      BY <1>1, <1>2, ZenonT(30) DEF Copying
    <3> QED
      BY <1>1, <1>3, <1>6, <1>7, <1>8, <1>10, <1>12, <1>13, <3>1, <3>2, ZenonT(30) DEF Copying
  <2> QED
    BY <1>1, <1>2, <1>10, <1>11, <2>3, <2>4, <2>5, CopyStep, ZenonT(30)
<1>15. CASE ~(copy[c].layer > 1)
  <2>1. inflight' = inflight /\ deferred' = deferred
    BY <1>15, ZenonT(30) DEF FailIssue
  <2>2. \A l \in Layers, j \in Objects(c) : dma[c][l][j] = "none"
    BY <1>4, <1>6, <1>7, <1>15
  <2>3. ~Broken(c) /\ ~Running(c)
    BY <2>2, ZenonT(30) DEF Broken, Running
  <2>4. ErrorKept' <=> ErrorKept
    BY <1>1, <1>2, <1>6, <1>8, <1>10, <2>1, <2>3, QuietErrors, ZenonT(30)
  <2>5. Errors'
    BY <1>1, <1>2, <2>4, ZenonT(30) DEF Errors
  <2>6. Copying(c)'
    BY <1>1, <1>3, <1>6, <1>7, <1>8, <1>10, <1>12, <2>3, ZenonT(30) DEF Copying
  <2> QED
    BY <1>1, <1>2, <1>10, <1>11, <2>1, <2>5, <2>6, CopyStep, ZenonT(30)
<1> QED
  BY <1>14, <1>15, ZenonT(30)

\* Every layer is submitted: the future is handed over.
LEMMA CommitCopyStep ==
  ASSUME MapInv, NEW c \in Copies, CommitCopy(c)
  PROVE  MapInv'
<1>1. /\ pool' = pool /\ caller' = caller /\ mapPhase' = mapPhase /\ mapped' = mapped /\ registered' = registered
      /\ dma' = dma /\ failed' = failed /\ copy[c].pc = "issue" /\ pending' = pending - 1
      /\ copy' = [copy EXCEPT ![c].pc = "ok"] /\ copy[c].layer > Len(pool.layers) /\ AddExternalCopy(c)
  BY ZenonT(30) DEF CommitCopy
<1>2. /\ MapType /\ Phases /\ Leases /\ Errors /\ Copying(c)
      /\ copy \in [Copies -> CopyCalls] /\ copy[c] \in CopyCalls /\ inflight \subseteq Copies
      /\ mapPhase \in {"unmapped", "mapping", "mapped", "unmapping"}
      /\ deferred \in BOOLEAN /\ failed \in BOOLEAN
      /\ DOMAIN dma = Copies /\ \A e \in Copies : dma[e] \in [Layers -> [Objects(e) -> DmaStates]]
  BY ZenonT(30) DEF MapInv, MapType
<1>3. Callers' = Callers /\ Copies' = Copies /\ Layers' = Layers /\ Objects(c)' = Objects(c)
  BY <1>1, SiteKept, ZenonT(30)
<1>4. Layers = 1..Len(pool.layers) /\ Len(pool.layers) \in Nat /\ Objects(c) = 1..Len(pool.copies[c].bases)
      /\ Len(pool.copies[c].bases) \in Nat
  BY <1>2, Numbers, ZenonT(30)
<1>6. copy[c].layer \in 1..(Len(pool.layers) + 1) /\ Admitted(c)
  BY <1>1, <1>2, ZenonT(30) DEF Copying
<1>7. \A l \in Layers : l < copy[c].layer /\ l \in Submitted(c)
  BY <1>1, <1>4, <1>6 DEF Submitted
<1> DEFINE r == [copy[c] EXCEPT !.pc = "ok"]
<1>8. r \in CopyCalls /\ r.pc = "ok" /\ r.layer = copy[c].layer
  BY <1>2, ZenonT(30) DEF CopyCalls
<1>9. copy' = [copy EXCEPT ![c] = r]
  BY <1>1, ZenonT(30)
<1> HIDE DEF r
<1>10. copy' \in [Copies -> CopyCalls] /\ copy'[c] = r /\ \A e \in Copies \ {c} : copy'[e] = copy[e]
  BY <1>2, <1>8, <1>9, CopyChange, ZenonT(30)
<1>11. Leases'
  BY <1>1, <1>2, <1>8, <1>10, LeaseReturned, ZenonT(30)
<1>12. Running(c)' <=> Running(c)
  BY <1>1, <1>3, ZenonT(30) DEF Running
<1>13. Admitted(c)'
  BY <1>1, <1>6, SameMapping, ZenonT(30)
<1>14. Broken(c) => Failed(c)
  BY <1>7, ZenonT(30) DEF Broken, Failed
<1>15. /\ inflight' \subseteq Copies /\ deferred' \in BOOLEAN /\ c \in inflight'
       /\ ErrorKept' <=> ErrorKept
       /\ \A e \in Copies \ {c} : Running(e) /\ e \in inflight /\ copy[e].pc # "issue" => e \in inflight'
  BY <1>1, <1>8, <1>10, <1>14, HandedOver, ZenonT(30)
<1>16. Errors'
  BY <1>1, <1>2, <1>15, ZenonT(30) DEF Errors
<1>17. Copying(c)'
  <2>1. Awaited(c)'
    BY <1>15, ZenonT(30) DEF Awaited
  <2>2. Running(c) => mapPhase' \in {"mapped", "unmapping"}
    BY <1>1, <1>2, ZenonT(30) DEF Copying
  <2> QED
    BY <1>1, <1>3, <1>6, <1>7, <1>8, <1>10, <1>12, <1>13, <2>1, <2>2, ZenonT(30) DEF Copying
<1> QED
  BY <1>1, <1>2, <1>10, <1>11, <1>15, <1>16, <1>17, CopyStep, ZenonT(30)

\* The errors kept, in a step of a copy that is being issued before and after.
LEMMA IssuingErrors ==
  ASSUME MapType, pool' = pool, NEW c \in Copies, caller' = caller,
         \A e \in Copies \ {c} : copy'[e] = copy[e] /\ dma'[e] = dma[e],
         copy[c].pc = "issue", copy'[c].pc = "issue",
         copy[c].layer \in 1..(Len(pool.layers) + 1), copy'[c].layer \in 1..(Len(pool.layers) + 1),
         Broken(c)' <=> Broken(c), inflight' = inflight, deferred' = deferred
  PROVE  ErrorKept' <=> ErrorKept
<1>1. \A f \in Copies \ {c} : (Failed(f)' <=> Failed(f)) /\ (Broken(f)' <=> Broken(f))
  BY SameCopy, ZenonT(30)
<1>2. (Failed(c) => Broken(c)) /\ (Failed(c)' => Broken(c)')
  BY FailedBroken, ZenonT(30)
<1>3. inflight \subseteq Copies /\ \A e \in Callers : caller[e].await \subseteq Copies
  BY ZenonT(30) DEF MapType, CallerCalls
<1>4. Callers' = Callers /\ Copies' = Copies
  BY SiteKept, ZenonT(30)
<1>5. CASE Broken(c)
  BY <1>4, <1>5, ZenonT(30) DEF ErrorKept
<1>6. CASE ~Broken(c)
  <2>1. \A f \in Copies : (Failed(f)' <=> Failed(f)) /\ (Broken(f)' <=> Broken(f))
    BY <1>1, <1>2, <1>6, ZenonT(30)
  <2>2. \A f \in Copies : copy'[f].pc = "issue" <=> copy[f].pc = "issue"
    BY ZenonT(30)
  <2> QED
    BY <1>3, <1>4, <2>1, <2>2, ZenonT(30) DEF ErrorKept
<1> QED
  BY <1>5, <1>6, ZenonT(30)

\* A call that moves to another object, perhaps of another layer.
Advance(q, a, b) == [q EXCEPT !.layer = a, !.object = b]

\* It stays a call in the same phase.
LEMMA Advanced ==
  ASSUME NEW q \in CopyCalls, NEW a \in Nat, NEW b \in Nat
  PROVE  /\ Advance(q, a, b) \in CopyCalls /\ Advance(q, a, b).pc = q.pc
         /\ Advance(q, a, b).layer = a /\ Advance(q, a, b).object = b
BY ZenonT(30) DEF CopyCalls, Advance

\* One more DMA is submitted.
LEMMA IssueObjectStep ==
  ASSUME MapInv, NEW c \in Copies, IssueObject(c)
  PROVE  MapInv'
<1> DEFINE l == copy[c].layer
           i == copy[c].object
           last == i = Len(pool.copies[c].bases)
<1>1. /\ pool' = pool /\ caller' = caller /\ mapPhase' = mapPhase /\ mapped' = mapped /\ registered' = registered
      /\ inflight' = inflight /\ deferred' = deferred /\ failed' = failed /\ pending' = pending
      /\ copy[c].pc = "issue" /\ l <= Len(pool.layers)
      /\ DmaBecomes(c, l, i, "running")
  BY ZenonT(30) DEF IssueObject, DmaBecomes
<1>2. /\ MapType /\ Phases /\ Leases /\ Errors /\ Copying(c)
      /\ copy \in [Copies -> CopyCalls] /\ copy[c] \in CopyCalls /\ inflight \subseteq Copies
      /\ mapPhase \in {"unmapped", "mapping", "mapped", "unmapping"}
      /\ deferred \in BOOLEAN /\ failed \in BOOLEAN
      /\ DOMAIN dma = Copies /\ \A e \in Copies : dma[e] \in [Layers -> [Objects(e) -> DmaStates]]
  BY ZenonT(30) DEF MapInv, MapType
<1>3. Callers' = Callers /\ Copies' = Copies /\ Layers' = Layers /\ Objects(c)' = Objects(c)
  BY <1>1, SiteKept, ZenonT(30)
<1>4. Layers = 1..Len(pool.layers) /\ Len(pool.layers) \in Nat /\ Objects(c) = 1..Len(pool.copies[c].bases)
      /\ Len(pool.copies[c].bases) \in Nat
  BY <1>2, Numbers, ZenonT(30)
<1>5. l \in Layers /\ l \in 1..(Len(pool.layers) + 1) /\ i \in Objects(c) /\ Admitted(c)
  BY <1>1, <1>2, <1>4 DEF Copying
<1>6. /\ dma[c][l][i] = "none"
      /\ \A m \in Layers, j \in Objects(c) : dma[c][m][j] # "none" => m < l \/ (m = l /\ j < i)
  BY <1>1, <1>2, <1>4, <1>5 DEF Copying
<1>7. /\ DOMAIN dma' = Copies
      /\ \A e \in Copies : dma'[e] \in [Layers -> [Objects(e) -> DmaStates]]
      /\ \A e \in Copies \ {c} : dma'[e] = dma[e]
      /\ dma'[c][l][i] = "running"
      /\ \A m \in Layers, j \in Objects(c) : m # l \/ j # i => dma'[c][m][j] = dma[c][m][j]
  <2> HIDE DEF l, i
  <2> QED
    BY <1>1, <1>2, <1>5, DmaChange, ZenonT(30) DEF DmaStates
<1> DEFINE r == [copy[c] EXCEPT !.layer = IF last THEN @ + 1 ELSE @, !.object = IF last THEN 1 ELSE @ + 1]
<1>8. /\ r \in CopyCalls /\ r.pc = "issue"
      /\ r.layer = IF last THEN l + 1 ELSE l
      /\ r.object = IF last THEN 1 ELSE i + 1
  <2>1. copy[c] \in CopyCalls /\ copy[c].pc = "issue" /\ l \in Nat /\ i \in Nat
    BY <1>1, <1>2, ZenonT(30) DEF CopyCalls
  <2>2. CASE last
    <3>1. r = Advance(copy[c], l + 1, 1)
      BY <2>2, ZenonT(30) DEF Advance
    <3>2. l + 1 \in Nat /\ 1 \in Nat
      BY <2>1
    <3> HIDE DEF r, l, i
    <3>3. r \in CopyCalls /\ r.pc = copy[c].pc /\ r.layer = l + 1 /\ r.object = 1
      BY <2>1, <3>1, <3>2, Advanced
    <3> QED
      BY <2>1, <2>2, <3>3, ZenonT(30)
  <2>3. CASE ~last
    <3>1. r = Advance(copy[c], l, i + 1)
      BY <2>3, ZenonT(30) DEF Advance
    <3>2. i + 1 \in Nat
      BY <2>1
    <3> HIDE DEF r, l, i
    <3>3. r \in CopyCalls /\ r.pc = copy[c].pc /\ r.layer = l /\ r.object = i + 1
      BY <2>1, <3>1, <3>2, Advanced
    <3> QED
      BY <2>1, <2>3, <3>3, ZenonT(30)
  <2> QED
    BY <2>2, <2>3, ZenonT(30)
<1>9. copy' = [copy EXCEPT ![c] = r]
  BY ZenonT(30) DEF IssueObject
<1>10. r.layer \in 1..(Len(pool.layers) + 1) /\ r.object \in Objects(c)
  BY <1>1, <1>4, <1>5, <1>8
<1>11. \A m \in Layers, j \in Objects(c) : m < l \/ (m = l /\ j < i) \/ (m = l /\ j = i)
                                           => m < r.layer \/ (m = r.layer /\ j < r.object)
  BY <1>4, <1>5, <1>8
<1> HIDE DEF r, l, i
<1>12. copy' \in [Copies -> CopyCalls] /\ copy'[c] = r /\ \A e \in Copies \ {c} : copy'[e] = copy[e]
  BY <1>2, <1>8, <1>9, CopyChange, ZenonT(30)
<1>13. Leases'
  BY <1>1, <1>2, <1>8, <1>12, LeaseKept, ZenonT(30)
<1>14. Broken(c)' <=> Broken(c)
  <2>1. \A m \in Layers, j \in Objects(c) : dma'[c][m][j] = "error" <=> dma[c][m][j] = "error"
    BY <1>6, <1>7, ZenonT(30)
  <2> QED
    BY <1>3, <2>1, ZenonT(30) DEF Broken
<1>15. ErrorKept' <=> ErrorKept
  BY <1>1, <1>2, <1>5, <1>7, <1>8, <1>10, <1>12, <1>14, IssuingErrors, ZenonT(30) DEF l
<1>16. Errors'
  BY <1>1, <1>2, <1>15, ZenonT(30) DEF Errors
<1>17. Copying(c)'
  <2>1. Awaited(c)'
    BY <1>8, <1>12, ZenonT(30) DEF Awaited
  <2>2. Admitted(c)'
    BY <1>1, <1>5, SameMapping, ZenonT(30)
  <2>3. mapPhase' \in {"mapped", "unmapping"}
    BY <1>1, <1>2, ZenonT(30) DEF Leases, Holders
  <2>4. \A m \in Layers, j \in Objects(c) : dma'[c][m][j] # "none" => m < r.layer \/ (m = r.layer /\ j < r.object)
    BY <1>6, <1>7, <1>11, ZenonT(30)
  <2> QED
    BY <1>1, <1>3, <1>8, <1>10, <1>12, <2>1, <2>2, <2>3, <2>4, ZenonT(30) DEF Copying
<1> QED
  BY <1>1, <1>2, <1>7, <1>12, <1>13, <1>16, <1>17, CopyStep, ZenonT(30)

\* A DMA ends; when it fails, somebody still has its future.
LEMMA DmaEndsStep ==
  ASSUME MapInv, NEW c \in Copies, NEW l \in Layers, NEW i \in Objects(c), DmaEnds(c, l, i)
  PROVE  MapInv'
<1>1. /\ pool' = pool /\ caller' = caller /\ mapPhase' = mapPhase /\ mapped' = mapped /\ registered' = registered
      /\ inflight' = inflight /\ deferred' = deferred /\ pending' = pending /\ copy' = copy
      /\ dma[c][l][i] = "running"
  BY ZenonT(30) DEF DmaEnds
<1>2. /\ MapType /\ Phases /\ Leases /\ Errors /\ Copying(c)
      /\ copy \in [Copies -> CopyCalls] /\ copy[c] \in CopyCalls /\ inflight \subseteq Copies
      /\ mapPhase \in {"unmapped", "mapping", "mapped", "unmapping"}
      /\ deferred \in BOOLEAN /\ failed \in BOOLEAN
      /\ DOMAIN dma = Copies /\ \A e \in Copies : dma[e] \in [Layers -> [Objects(e) -> DmaStates]]
  BY ZenonT(30) DEF MapInv, MapType
<1>3. Callers' = Callers /\ Copies' = Copies /\ Layers' = Layers /\ Objects(c)' = Objects(c)
  BY <1>1, SiteKept, ZenonT(30)
<1>4. Layers = 1..Len(pool.layers) /\ Len(pool.layers) \in Nat /\ Objects(c) = 1..Len(pool.copies[c].bases)
      /\ Len(pool.copies[c].bases) \in Nat
  BY <1>2, Numbers, ZenonT(30)
<1>5. PICK v \in {"ok", "error"} :
        /\ DmaBecomes(c, l, i, v)
        /\ v = "ok" => failed' = failed
        /\ v = "error" => failed' = TRUE
  BY ZenonT(30) DEF DmaEnds, DmaBecomes
<1>6. /\ DOMAIN dma' = Copies
      /\ \A e \in Copies : dma'[e] \in [Layers -> [Objects(e) -> DmaStates]]
      /\ \A e \in Copies \ {c} : dma'[e] = dma[e]
      /\ dma'[c][l][i] = v
      /\ \A m \in Layers, j \in Objects(c) : m # l \/ j # i => dma'[c][m][j] = dma[c][m][j]
  BY <1>1, <1>2, <1>5, DmaChange DEF DmaStates
<1>7. Running(c) /\ Awaited(c) /\ Admitted(c) /\ mapPhase \in {"mapped", "unmapping"}
      /\ copy[c].pc \in {"issue", "refused", "ok"}
  BY <1>1, <1>2, ZenonT(30) DEF Copying, Running, CopyCalls
<1>8. Leases'
  BY <1>1, <1>2, LeaseKept, ZenonT(30)
<1>9. failed' \in BOOLEAN
  BY <1>2, <1>5, ZenonT(30)
<1>10. Errors'
  <2>1. CASE v = "ok"
    <3>1. \A m \in Layers, j \in Objects(c) : dma'[c][m][j] = "error" <=> dma[c][m][j] = "error"
      BY <1>1, <1>6, <2>1, ZenonT(30)
    <3>2. Broken(c)' <=> Broken(c)
      BY <1>3, <3>1, ZenonT(30) DEF Broken
    <3>3. Submitted(c) \subseteq Layers /\ Submitted(c)' = Submitted(c)
      <4>1. copy[c].layer \in 1..(Len(pool.layers) + 1)
        BY <1>2, ZenonT(30) DEF Copying
      <4> QED
        BY <1>1, <1>4, <4>1 DEF Submitted
    <3>4. Failed(c)' <=> Failed(c)
      BY <1>3, <3>1, <3>3, ZenonT(30) DEF Failed
    <3>5. \A f \in Copies : (Failed(f)' <=> Failed(f)) /\ (Broken(f)' <=> Broken(f))
      BY <1>1, <1>6, <3>2, <3>4, SameCopy, ZenonT(30)
    <3>6. inflight \subseteq Copies /\ \A e \in Callers : caller[e].await \subseteq Copies
      BY <1>2, ZenonT(30) DEF MapType, CallerCalls
    <3>7. ErrorKept' <=> ErrorKept
      BY <1>1, <1>3, <3>5, <3>6, ZenonT(30) DEF ErrorKept
    <3> QED
      BY <1>1, <1>2, <1>5, <2>1, <3>7 DEF Errors
  <2>2. CASE v = "error"
    <3>1. Broken(c)'
      BY <1>3, <1>6, <2>2, ZenonT(30) DEF Broken
    <3>2. copy[c].pc # "issue" => Failed(c)'
      <4>1. SUFFICES ASSUME copy[c].pc # "issue" PROVE Failed(c)'
        BY ZenonT(30)
      <4>2. l < copy[c].layer
        BY <1>1, <1>2, <1>7, <4>1, ZenonT(30) DEF Copying
      <4>3. l \in Submitted(c)'
        BY <1>1, <1>2, <1>4, <4>2 DEF Submitted, CopyCalls
      <4> QED
        BY <1>3, <1>6, <2>2, <4>3, ZenonT(30) DEF Failed
    <3>3. ErrorKept'
      BY <1>1, <1>3, <1>7, <3>1, <3>2, ZenonT(30) DEF ErrorKept, Awaited
    <3> QED
      BY <1>5, <2>2, <3>3, ZenonT(30) DEF Errors
  <2> QED
    BY <2>1, <2>2, ZenonT(30)
<1>11. Copying(c)'
  <2>1. Awaited(c)'
    BY <1>1, <1>3, <1>7, ZenonT(30) DEF Awaited
  <2>2. Admitted(c)'
    BY <1>1, <1>7, SameMapping, ZenonT(30)
  <2>3. \A m \in Layers, j \in Objects(c) : dma'[c][m][j] # "none" => dma[c][m][j] # "none"
    BY <1>1, <1>6, ZenonT(30)
  <2> QED
    BY <1>1, <1>2, <1>3, <1>7, <2>1, <2>2, <2>3, ZenonT(30) DEF Copying
<1> QED
  BY <1>1, <1>2, <1>6, <1>8, <1>9, <1>10, <1>11, CopyStep, ZenonT(30)

-----------------------------------------------------------------------------
(* The invariant *)

\* Nothing is mapped, and nobody runs, at the start.
LEMMA MapInvInit == MapInit => MapInv
<1> SUFFICES ASSUME MapInit PROVE MapInv
  BY ZenonT(30)
<1>1. /\ pool \in PoolSites /\ mapPhase = "unmapped" /\ mapped = NoRange /\ registered = NoRange
      /\ pending = 0 /\ inflight = {} /\ deferred = FALSE /\ failed = FALSE
      /\ caller = [c \in Callers |-> [pc |-> "idle", await |-> {}, error |-> FALSE]]
      /\ copy = [c \in Copies |-> [pc |-> "idle", layer |-> 1, object |-> 1]]
      /\ dma = [c \in Copies |-> [l \in Layers |-> [i \in Objects(c) |-> "none"]]]
  BY ZenonT(30) DEF MapInit, Callers, Copies, Layers, Objects
<1>2. Len(pool.layers) \in Nat
  BY <1>1, MapAssumption
<1>3. \A d \in Callers : caller[d].pc = "idle"
  BY <1>1, ZenonT(30)
<1>4. \A c \in Copies : copy[c].pc = "idle" /\ copy[c].layer = 1 /\ copy[c].object = 1
  BY <1>1, ZenonT(30)
<1>5. \A c \in Copies : \A l \in Layers, i \in Objects(c) : dma[c][l][i] = "none"
  BY <1>1, ZenonT(30)
<1>6. MapType
  <2>1. caller \in [Callers -> CallerCalls]
    BY <1>1, ZenonT(30) DEF CallerCalls
  <2>2. copy \in [Copies -> CopyCalls]
    BY <1>1, ZenonT(30) DEF CopyCalls
  <2>3. DOMAIN dma = Copies /\ \A c \in Copies : dma[c] \in [Layers -> [Objects(c) -> DmaStates]]
    BY <1>1, ZenonT(30) DEF DmaStates
  <2>4. mapped \in Ranges
    BY <1>1, ZenonT(30) DEF NoRange, Ranges
  <2> QED
    BY <1>1, <2>1, <2>2, <2>3, <2>4, ZenonT(30) DEF MapType
<1>7. Phases
  BY <1>1, <1>3, ZenonT(30) DEF Phases, Mapping, Unmapping, Taken
<1>8. Leases
  <2>1. Holders = {}
    BY <1>4, ZenonT(30) DEF Holders
  <2> QED
    BY <1>1, <2>1, FS_EmptySet, ZenonT(30) DEF Leases
<1>9. Errors
  BY <1>1, ZenonT(30) DEF Errors
<1>10. ErrorsReported
  BY <1>1, <1>3, ZenonT(30) DEF ErrorsReported
<1>11. \A c \in Copies : Copying(c)
  BY <1>2, <1>4, <1>5 DEF Copying, Running
<1> QED
  BY <1>6, <1>7, <1>8, <1>9, <1>10, <1>11, ZenonT(30) DEF MapInv

\* Every step keeps the invariant, where a submission fails at the first object
\* of its layer only.
LEMMA MapInvStep ==
  ASSUME \A s \in PoolSites : s.breaks \subseteq {1}
  PROVE  MapInv /\ [MapNext]_mapVars => MapInv'
<1> SUFFICES ASSUME MapInv, [MapNext]_mapVars PROVE MapInv'
  BY ZenonT(30)
<1>1. DOMAIN caller = Callers /\ DOMAIN copy = Copies
  BY ZenonT(30) DEF MapInv, MapType
<1>2. ASSUME NEW d \in Callers, BeginMap(d) PROVE MapInv'
  BY <1>2, BeginMapStep, ZenonT(30)
<1>3. ASSUME NEW d \in Callers, DmaMap(d) PROVE MapInv'
  BY <1>3, DmaMapStep, ZenonT(30)
<1>4. ASSUME NEW d \in Callers, EndMap(d) PROVE MapInv'
  BY <1>4, EndMapStep, ZenonT(30)
<1>5. ASSUME NEW d \in Callers, BeginUnmap(d) PROVE MapInv'
  BY <1>5, BeginUnmapStep, ZenonT(30)
<1>6. ASSUME NEW d \in Callers, TakeCopies(d) PROVE MapInv'
  BY <1>6, TakeCopiesStep, ZenonT(30)
<1>7. ASSUME NEW d \in Callers, DmaUnmap(d) PROVE MapInv'
  BY <1>7, DmaUnmapStep, ZenonT(30)
<1>8. ASSUME NEW d \in Callers, KeepMapping(d) PROVE MapInv'
  BY <1>8, KeepMappingStep, ZenonT(30)
<1>9. ASSUME NEW d \in Callers, EndUnmap(d) PROVE MapInv'
  BY <1>9, EndUnmapStep, ZenonT(30)
<1>10. ASSUME NEW c \in Copies, AcquireExternalCopyLease(c) PROVE MapInv'
  BY <1>10, AcquireStep, ZenonT(30)
<1>11. ASSUME NEW c \in Copies, CheckRanges(c) PROVE MapInv'
  BY <1>11, CheckRangesStep, ZenonT(30)
<1>12. ASSUME NEW c \in Copies, FailIssue(c) PROVE MapInv'
  BY <1>12, FailIssueStep, ZenonT(30)
<1>13. ASSUME NEW c \in Copies, IssueObject(c) PROVE MapInv'
  BY <1>13, IssueObjectStep, ZenonT(30)
<1>14. ASSUME NEW c \in Copies, CommitCopy(c) PROVE MapInv'
  BY <1>14, CommitCopyStep, ZenonT(30)
<1>15. ASSUME NEW c \in Copies, NEW l \in Layers, NEW i \in Objects(c), DmaEnds(c, l, i) PROVE MapInv'
  BY <1>15, DmaEndsStep, ZenonT(30)
<1>16. CASE UNCHANGED mapVars
  <2>1. /\ pool' = pool /\ mapPhase' = mapPhase /\ mapped' = mapped /\ registered' = registered
        /\ pending' = pending /\ inflight' = inflight /\ deferred' = deferred
        /\ caller' = caller /\ copy' = copy /\ dma' = dma /\ failed' = failed
    BY <1>16, ZenonT(30) DEF mapVars
  <2>2. /\ MapType /\ Phases /\ Leases /\ Errors /\ ErrorsReported /\ \A c \in Copies : Copying(c)
        /\ caller \in [Callers -> CallerCalls] /\ mapped \in Ranges /\ inflight \subseteq Copies
        /\ mapPhase \in {"unmapped", "mapping", "mapped", "unmapping"}
        /\ deferred \in BOOLEAN /\ failed \in BOOLEAN
    BY ZenonT(30) DEF MapInv, MapType
  <2>3. Phases' /\ ErrorsReported'
    BY <2>1, <2>2, ZenonT(30) DEF Phases, ErrorsReported, Callers
  <2>4. Leases'
    BY <2>1, <2>2, SameHolders, SiteKept, ZenonT(30) DEF Leases
  <2>5. Errors'
    <3>1. \A f \in Copies : (Failed(f)' <=> Failed(f)) /\ (Broken(f)' <=> Broken(f))
      BY <2>1, SameCopy, ZenonT(30)
    <3>2. inflight \subseteq Copies /\ \A e \in Callers : caller[e].await \subseteq Copies
      BY <2>2, ZenonT(30) DEF CallerCalls
    <3>3. ErrorKept' <=> ErrorKept
      BY <2>1, <3>1, <3>2, SiteKept, ZenonT(30) DEF ErrorKept
    <3> QED
      BY <2>1, <2>2, <3>3, ZenonT(30) DEF Errors
  <2>6. \A c \in Copies : Running(c) => Awaited(c)' /\ mapPhase' \in {"mapped", "unmapping"}
    BY <2>1, <2>2, SiteKept, ZenonT(30) DEF Copying, Awaited
  <2> QED
    BY <2>1, <2>2, <2>3, <2>4, <2>5, <2>6, CallerStep, ZenonT(30)
<1> QED
  BY <1>1, <1>2, <1>3, <1>4, <1>5, <1>6, <1>7, <1>8, <1>9, <1>10, <1>11, <1>12, <1>13, <1>14, <1>15, <1>16, ZenonT(30)
     DEF MapNext

\* The invariant holds in every reachable state.
LEMMA MapInvAlways ==
  ASSUME \A s \in PoolSites : s.breaks \subseteq {1}
  PROVE  MapSpec => []MapInv
<1>1. MapInv /\ [MapNext]_mapVars => MapInv'
  BY MapInvStep, ZenonT(30)
<1> QED
  BY MapInvInit, <1>1, PTL DEF MapSpec

-----------------------------------------------------------------------------
(* What it implies *)

\* A larger number of pages is more bytes.
LEMMA MorePages ==
  ASSUME NEW a \in Nat, NEW b \in Nat, NEW p \in Nat, a <= b
  PROVE  a * p \in Nat /\ b * p \in Nat /\ a * p <= b * p
<1>1. PICK k \in Nat : b = a + k
  <2>1. b - a \in Nat /\ b = a + (b - a)
    OBVIOUS
  <2> QED
    BY <2>1, ZenonT(30)
<1>2. b * p = a * p + k * p
  BY <1>1
<1>3. a * p \in Nat /\ k * p \in Nat
  BY <1>1
<1> QED
  BY <1>2, <1>3

\* One page more.
LEMMA OnePage ==
  ASSUME NEW a \in Nat, NEW p \in Nat
  PROVE  a * p \in Nat /\ (a + 1) * p = a * p + p
OBVIOUS

\* A layer of whole pages.
LEMMA WholePages ==
  ASSUME NEW a \in Nat, NEW p \in Nat, p > 0, a % p = 0
  PROVE  a \div p \in Nat /\ a = (a \div p) * p
OBVIOUS

\* An element of a sequence of numbers.
LEMMA NumberAt ==
  ASSUME NEW s \in Seq(Nat), NEW k \in 1..Len(s)
  PROVE  s[k] \in Nat /\ k \in DOMAIN s
OBVIOUS

\* While a DMA runs, the pool it was admitted for is the one registered.
LEMMA RunsRegistered ==
  ASSUME MapInv, NEW c \in Copies, Running(c)
  PROVE  Admitted(c) /\ registered = mapped /\ mapPhase \in {"mapped", "unmapping"}
<1>1. Phases /\ Leases /\ Copying(c)
  BY ZenonT(30) DEF MapInv
<1>2. Awaited(c) /\ Admitted(c) /\ mapPhase \in {"mapped", "unmapping"}
  BY <1>1, ZenonT(30) DEF Copying
<1>3. CASE mapPhase = "mapped"
  BY <1>1, <1>2, <1>3, ZenonT(30) DEF Phases
<1>4. CASE mapPhase = "unmapping"
  <2>1. PICK d \in Callers : caller[d].pc \in Unmapping
    BY <1>1, <1>4, ZenonT(30) DEF Phases
  <2>2. caller[d].pc # "unmap_done"
    <3>1. SUFFICES ASSUME caller[d].pc = "unmap_done" PROVE FALSE
      BY ZenonT(30)
    <3>2. Holders = {} /\ inflight = {}
      BY <1>1, <3>1, ZenonT(30) DEF Leases, Taken
    <3>3. PICK e \in Callers : caller[e].pc = "copies"
      BY <1>2, <3>2, ZenonT(30) DEF Awaited, Holders
    <3>4. e = d
      BY <1>1, <3>1, <3>3, ZenonT(30) DEF Phases, Unmapping, Taken
    <3> QED
      BY <3>1, <3>3, <3>4, ZenonT(30)
  <2> QED
    BY <1>1, <1>2, <2>1, <2>2, ZenonT(30) DEF Phases
<1> QED
  BY <1>2, <1>3, <1>4, ZenonT(30)

\* The host bytes of a layer lie in the range its object was admitted for.
LEMMA HostBytesInside ==
  ASSUME MapInv, NEW c \in Copies, NEW l \in Layers, NEW i \in Objects(c), Running(c)
  PROVE  HostBytes(c, i, l) \subseteq registered.base..(registered.base + registered.size - 1)
<1> DEFINE call == pool.copies[c]
           p == call.page
           n == Len(pool.layers)
           from == ObjectStart(call, i)
<1>1. /\ MapType /\ Layers = 1..n /\ n \in Nat /\ mapped \in Ranges
      /\ call.bases \in Seq(Nat) /\ i \in 1..Len(call.bases)
  BY Numbers, ZenonT(30) DEF MapInv, MapType
<1>2. call.page \in Nat /\ call.rank \in Nat
  BY <1>1, MapAssumption, ZenonT(30) DEF MapType, Copies
<1>3. Admitted(c) /\ registered = mapped
  BY RunsRegistered, ZenonT(30)
<1>4. RankBytes(call) = n * p /\ n * p \in Nat
  BY <1>1, <1>2 DEF RankBytes
<1>5. from \in Nat
  <2>1. call.rank * RankBytes(call) \in Nat
    BY <1>2, <1>4
  <2>2. call.bases[i] \in Nat
    BY <1>1, NumberAt, ZenonT(30)
  <2> QED
    BY <2>1, <2>2 DEF ObjectStart
<1>6. from >= mapped.base /\ from + n * p <= mapped.base + mapped.size
  BY <1>3, <1>4, ZenonT(30) DEF Admitted
<1>7. (l - 1) * p \in Nat /\ (l - 1) * p + p <= n * p
  <2>1. l \in Nat /\ l <= n /\ l - 1 \in Nat
    BY <1>1
  <2>2. l * p <= n * p
    BY <1>1, <1>2, <2>1, MorePages, ZenonT(30)
  <2>3. (l - 1) * p \in Nat /\ (l - 1) * p + p = l * p
    BY <1>2, <2>1
  <2> QED
    BY <2>2, <2>3, ZenonT(30)
<1>8. mapped.base \in Nat /\ mapped.size \in Nat
  BY <1>1, ZenonT(30) DEF Ranges
<1>9. HostBytes(c, i, l) = (from + (l - 1) * p)..(from + (l - 1) * p + p - 1)
  BY ZenonT(30) DEF HostBytes
<1> DEFINE q == (l - 1) * p
           w == n * p
<1>10. q \in Nat /\ w \in Nat /\ q + p <= w /\ p \in Nat
  BY <1>2, <1>4, <1>7, ZenonT(30)
<1>11. HostBytes(c, i, l) = (from + q)..(from + q + p - 1)
  BY <1>9, ZenonT(30)
<1>12. from >= mapped.base /\ from + w <= mapped.base + mapped.size
  BY <1>6, ZenonT(30)
<1> HIDE DEF q, w, p, from
<1>13. (from + q)..(from + q + p - 1) \subseteq mapped.base..(mapped.base + mapped.size - 1)
  BY <1>5, <1>8, <1>10, <1>12
<1> QED
  BY <1>3, <1>11, <1>13, ZenonT(30)

\* The device bytes of an object lie in the layer.
LEMMA DeviceBytesInside ==
  ASSUME MapInv, NEW c \in Copies, NEW l \in Layers, NEW i \in Objects(c), Running(c)
  PROVE  DeviceBytes(c, i) \subseteq 0..(pool.layers[l] - 1)
<1> DEFINE call == pool.copies[c]
           p == call.page
           b == call.blocks[i]
           n == pool.layers[1] \div p
<1>1. MapType /\ pool \in PoolSites
  BY ZenonT(30) DEF MapInv, MapType
<1>2. p \in Nat /\ call.blocks \in Seq(Nat) /\ pool.layers \in Seq(Nat) /\ pool.layers # <<>>
  BY <1>1, MapAssumption, ZenonT(30) DEF Copies
<1>3. Admitted(c)
  BY RunsRegistered, ZenonT(30)
<1>4. /\ p > 0 /\ Len(call.blocks) = Len(call.bases) /\ pool.layers[l] = pool.layers[1]
      /\ pool.layers[1] % p = 0
      /\ \A j \in DOMAIN call.blocks : call.blocks[j] < n
  BY <1>3, ZenonT(30) DEF Admitted, RequestAccepts, PagesAccept
<1>5. b \in Nat /\ b < n
  <2>1. i \in 1..Len(call.blocks)
    BY <1>1, <1>4, Numbers, ZenonT(30)
  <2>2. b \in Nat /\ i \in DOMAIN call.blocks
    BY <1>2, <2>1, NumberAt, ZenonT(30)
  <2> QED
    BY <1>4, <2>2, ZenonT(30)
<1>6. pool.layers[1] \in Nat
  BY <1>2
<1>7. n \in Nat /\ pool.layers[1] = n * p
  BY <1>2, <1>4, <1>6, WholePages, ZenonT(30)
<1>8. b * p \in Nat /\ b * p + p <= n * p /\ n * p \in Nat
  <2>1. b + 1 \in Nat /\ b + 1 <= n
    BY <1>5, <1>7
  <2>2. (b + 1) * p <= n * p /\ n * p \in Nat
    BY <1>2, <1>7, <2>1, MorePages, ZenonT(30)
  <2>3. b * p \in Nat /\ (b + 1) * p = b * p + p
    BY <1>2, <1>5, OnePage, ZenonT(30)
  <2> QED
    BY <2>2, <2>3, ZenonT(30)
<1>9. DeviceBytes(c, i) = (b * p)..(b * p + p - 1)
  BY ZenonT(30) DEF DeviceBytes
<1> DEFINE q == b * p
           w == n * p
<1>10. q \in Nat /\ w \in Nat /\ q + p <= w /\ p \in Nat /\ pool.layers[l] = w
  BY <1>2, <1>4, <1>7, <1>8, ZenonT(30)
<1>11. DeviceBytes(c, i) = q..(q + p - 1)
  BY <1>9, ZenonT(30)
<1> HIDE DEF q, w, p, b, n
<1>12. q..(q + p - 1) \subseteq 0..(w - 1)
  BY <1>10
<1> QED
  BY <1>10, <1>11, <1>12, ZenonT(30)

\* Different blocks share no device byte.
LEMMA DeviceBytesApart ==
  ASSUME MapInv, NEW c \in Copies, NEW i \in Objects(c), NEW j \in Objects(c), i # j, Running(c)
  PROVE  DeviceBytes(c, i) \cap DeviceBytes(c, j) = {}
<1> DEFINE call == pool.copies[c]
           p == call.page
           Block(k) == call.blocks[k]
<1>1. MapType /\ pool \in PoolSites
  BY ZenonT(30) DEF MapInv, MapType
<1>2. p \in Nat /\ call.blocks \in Seq(Nat)
  BY <1>1, MapAssumption, ZenonT(30) DEF Copies
<1>3. Len(call.blocks) = Len(call.bases) /\ IsInjective(call.blocks)
  BY RunsRegistered, ZenonT(30) DEF Admitted, RequestAccepts, PagesAccept
<1>4. i \in DOMAIN call.blocks /\ j \in DOMAIN call.blocks /\ Block(i) \in Nat /\ Block(j) \in Nat
  <2>1. i \in 1..Len(call.blocks) /\ j \in 1..Len(call.blocks)
    BY <1>1, <1>3, Numbers, ZenonT(30)
  <2> QED
    BY <1>2, <2>1, NumberAt, ZenonT(30)
<1>5. Block(i) # Block(j)
  BY <1>3, <1>4, ZenonT(30) DEF IsInjective
<1>6. \A k \in Objects(c) : DeviceBytes(c, k) = (Block(k) * p)..(Block(k) * p + p - 1)
  BY ZenonT(30) DEF DeviceBytes
<1>7. ASSUME NEW a \in Nat, NEW b \in Nat, a < b
      PROVE  (a * p)..(a * p + p - 1) \cap (b * p)..(b * p + p - 1) = {}
  <2>1. a + 1 \in Nat /\ a + 1 <= b
    BY <1>7
  <2>2. (a + 1) * p <= b * p /\ b * p \in Nat
    BY <1>2, <2>1, MorePages, ZenonT(30)
  <2>3. a * p \in Nat /\ (a + 1) * p = a * p + p
    BY <1>2, OnePage, ZenonT(30)
  <2> DEFINE q == a * p
             w == b * p
  <2>4. q \in Nat /\ w \in Nat /\ q + p <= w /\ p \in Nat
    BY <1>2, <2>2, <2>3, ZenonT(30)
  <2> HIDE DEF q, w, p
  <2>5. q..(q + p - 1) \cap w..(w + p - 1) = {}
    BY <2>4
  <2> QED
    BY <2>5, ZenonT(30) DEF q, w
<1>8. CASE Block(i) < Block(j)
  BY <1>4, <1>6, <1>7, <1>8, ZenonT(30)
<1>9. CASE Block(j) < Block(i)
  BY <1>4, <1>6, <1>7, <1>9, ZenonT(30)
<1> QED
  BY <1>4, <1>5, <1>8, <1>9

\* Hence the bytes of every DMA that runs are registered, in the layer, and its
\* own.
LEMMA InvImpliesInside == MapInv => DmaInsidePool
<1> SUFFICES ASSUME MapInv, NEW c \in DOMAIN copy, NEW l \in Layers, NEW i \in Objects(c), dma[c][l][i] = "running"
             PROVE  /\ HostBytes(c, i, l) \subseteq registered.base..(registered.base + registered.size - 1)
                    /\ DeviceBytes(c, i) \subseteq 0..(pool.layers[l] - 1)
                    /\ \A j \in Objects(c) : i # j => DeviceBytes(c, i) \cap DeviceBytes(c, j) = {}
  BY ZenonT(30) DEF DmaInsidePool
<1>1. c \in Copies
  BY ZenonT(30) DEF MapInv, MapType
<1>2. Running(c)
  BY ZenonT(30) DEF Running
<1> QED
  BY <1>1, <1>2, HostBytesInside, DeviceBytesInside, DeviceBytesApart, ZenonT(30)

-----------------------------------------------------------------------------
(* Theorems *)

\* Whatever the sizes, the number of layers, of copies and of map and unmap
\* calls, and whichever of them fail: no DMA runs outside the registered pool or
\* its layer, no two objects of a copy share a device byte, and the unmap that
\* ends a mapping reports an error exactly when a DMA of the mapping failed.
\* The hypothesis is what the run mapping_refused shows is needed: a submission
\* that fails does so before it has submitted anything of its layer.
THEOREM MappingSafeInvariant ==
  ASSUME \A s \in PoolSites : s.breaks \subseteq {1}
  PROVE  MapSpec => []MappingSafe
<1>1. MapInv => MappingSafe
  BY InvImpliesInside, ZenonT(30) DEF MapInv, MappingSafe
<1>2. MapSpec => []MapInv
  BY MapInvAlways, ZenonT(30)
<1> QED
  BY <1>1, <1>2, PTL

\* DmaMap and DmaUnmap are never called while a DMA of a copy runs
\* ("DmaUnmap would run underneath it").
THEOREM NeverUnderneath ==
  ASSUME \A s \in PoolSites : s.breaks \subseteq {1}
  PROVE  MapSpec => [][registered' # registered => \A c \in Copies : ~Running(c)]_mapVars
<1>1. MapInv /\ [MapNext]_mapVars => [registered' # registered => \A c \in Copies : ~Running(c)]_mapVars
  <2> SUFFICES ASSUME MapInv, MapNext, registered' # registered PROVE \A c \in Copies : ~Running(c)
    BY ZenonT(30)
  <2>1. DOMAIN caller = Callers
    BY ZenonT(30) DEF MapInv, MapType
  <2>2. PICK d \in Callers : DmaMap(d) \/ DmaUnmap(d)
    BY <2>1, ZenonT(30) DEF MapNext, BeginMap, EndMap, BeginUnmap, TakeCopies, KeepMapping, EndUnmap,
                AcquireExternalCopyLease, CheckRanges, FailIssue, IssueObject, CommitCopy, DmaEnds
  <2>3. CASE DmaMap(d)
    <3>1. mapPhase = "mapping"
      BY <2>3, ZenonT(30) DEF DmaMap, MapInv, Phases, Mapping
    <3> QED
      BY <3>1, Idle, ZenonT(30)
  <2>4. CASE DmaUnmap(d)
    <3>1. caller[d].pc = "copies" /\ \A f \in caller[d].await : Ready(f)
      BY <2>4, ZenonT(30) DEF DmaUnmap
    <3> QED
      BY <3>1, NothingRuns, ZenonT(30)
  <2> QED
    BY <2>2, <2>3, <2>4, ZenonT(30)
<1>2. MapSpec => []MapInv
  BY MapInvAlways, ZenonT(30)
<1> QED
  BY <1>1, <1>2, PTL DEF MapSpec

=============================================================================
