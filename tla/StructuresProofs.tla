-------------------------- MODULE StructuresProofs --------------------------
(***************************************************************************)
(* Proofs about two of the parts that Structures runs.                     *)
(*                                                                         *)
(* LogicalBlockManager, for every pool size and set of entities.  The      *)
(* inductive invariant is PoolInv: the types, the exact free count, and    *)
(* that locks and owners follow the allocation.                            *)
(*                                                                         *)
(* CopyPipeline, for every set of calls, whatever their chunks and faults. *)
(* PromiseTrue is not inductive: that a success is true rests on the count *)
(* of completed chunks (Counted), on has_failed being set before any chunk *)
(* skips a stage (Honest), and on what the caller's thread has done so far *)
(* (Issued, Answered).                                                     *)
(***************************************************************************)
EXTENDS LogicalBlockManager, CopyPipeline, FiniteSetTheorems, TLAPS

(* ---------------------------- LogicalBlockManager ------------------------- *)

\* The types without the upper bound on num_free, which follows from the
\* exactness of the count.
PoolInv ==
  /\ allocated \subseteq PoolBlocks
  /\ last \in [PoolBlocks -> Nat]
  /\ access_counter \in Nat
  /\ owner \in [PoolBlocks -> Entities \cup {None}]
  /\ num_free = Cardinality(PoolBlocks \ allocated)
  /\ locked \subseteq allocated
  /\ \A b \in PoolBlocks : b \in allocated <=> owner[b] # None

\* The pool is finite and has TotalBlocks blocks.
LEMMA BlocksFinite ==
  IsFiniteSet(PoolBlocks) /\ Cardinality(PoolBlocks) = TotalBlocks
<1>1. TotalBlocks \in Nat
  BY PoolAssumption, ZenonT(30)
<1>2. /\ IsFiniteSet(0 .. TotalBlocks - 1)
      /\ Cardinality(0 .. TotalBlocks - 1)
           = IF 0 > TotalBlocks - 1 THEN 0 ELSE TotalBlocks - 1 - 0 + 1
  BY <1>1, FS_Interval
<1> QED
  BY <1>1, <1>2 DEF PoolBlocks

\* Taking the free blocks F, and any allocated ones, leaves Card(F) fewer.
LEMMA TakeLemma ==
  ASSUME NEW A \in SUBSET PoolBlocks, NEW F \in SUBSET (PoolBlocks \ A), NEW E \in SUBSET A
  PROVE  Cardinality(PoolBlocks \ (A \cup (F \cup E)))
           = Cardinality(PoolBlocks \ A) - Cardinality(F)
<1>1. IsFiniteSet(PoolBlocks \ A)
  BY BlocksFinite, FS_Difference, ZenonT(30)
<1>2. Cardinality((PoolBlocks \ A) \ F)
        = Cardinality(PoolBlocks \ A) - Cardinality((PoolBlocks \ A) \cap F)
  BY <1>1, FS_Difference, ZenonT(30)
<1>3. /\ (PoolBlocks \ A) \cap F = F
      /\ (PoolBlocks \ A) \ F = PoolBlocks \ (A \cup (F \cup E))
  BY ZenonT(30)
<1> QED
  BY <1>2, <1>3, ZenonT(30)

\* Returning the allocated blocks D adds Card(D).
LEMMA ReturnLemma ==
  ASSUME NEW A \in SUBSET PoolBlocks, NEW D \in SUBSET A
  PROVE  Cardinality(PoolBlocks \ (A \ D)) = Cardinality(PoolBlocks \ A) + Cardinality(D)
<1>1. IsFiniteSet(PoolBlocks \ A) /\ IsFiniteSet(D)
  BY BlocksFinite, FS_Difference, FS_Subset, ZenonT(30)
<1>2. Cardinality((PoolBlocks \ A) \cup D)
        = Cardinality(PoolBlocks \ A) + Cardinality(D) - Cardinality((PoolBlocks \ A) \cap D)
  BY <1>1, FS_Union, ZenonT(30)
<1>3. /\ (PoolBlocks \ A) \cap D = {}
      /\ (PoolBlocks \ A) \cup D = PoolBlocks \ (A \ D)
  BY ZenonT(30)
<1>4. Cardinality({}) = 0
  BY FS_EmptySet, ZenonT(30)
<1>5. Cardinality(PoolBlocks \ A) \in Nat /\ Cardinality(D) \in Nat
  BY <1>1, FS_CardinalityType, ZenonT(30)
<1>6. Cardinality((PoolBlocks \ A) \cup D)
        = Cardinality(PoolBlocks \ A) + Cardinality(D) - Cardinality({})
  BY <1>2, <1>3, SMTT(30)
<1>7. Cardinality((PoolBlocks \ A) \cup D) = Cardinality(PoolBlocks \ A) + Cardinality(D)
  BY <1>4, <1>5, <1>6, SMTT(30)
<1> QED
  BY <1>3, <1>7, ZenonT(30)

\* A list without repetition names as many blocks as it is long.
LEMMA InjectiveLen ==
  ASSUME NEW ids \in Seq(PoolBlocks), IsInjective(ids)
  PROVE  ToSet(ids) \in SUBSET PoolBlocks /\ Cardinality(ToSet(ids)) = Len(ids)
<1>1. Len(ids) \in Nat /\ ids \in [1 .. Len(ids) -> PoolBlocks] /\ DOMAIN ids = 1 .. Len(ids)
  OBVIOUS
<1>2. ids \in Surjection(1 .. Len(ids), ToSet(ids))
  BY <1>1, ZenonT(30) DEF ToSet, Surjection
<1>3. ids \in Injection(1 .. Len(ids), ToSet(ids))
  BY <1>1, <1>2, ZenonT(30) DEF ToSet, Surjection, Injection, IsInjective
<1>4. IsFiniteSet(1 .. Len(ids)) /\ Cardinality(1 .. Len(ids)) = Len(ids)
  <2>1. /\ IsFiniteSet(1 .. Len(ids))
        /\ Cardinality(1 .. Len(ids)) = IF 1 > Len(ids) THEN 0 ELSE Len(ids) - 1 + 1
    BY <1>1, FS_Interval
  <2> QED
    BY <1>1, <2>1
<1>5. Cardinality(ToSet(ids)) = Cardinality(1 .. Len(ids))
  BY <1>2, <1>3, <1>4, FS_Surjection, ZenonT(30)
<1>6. ToSet(ids) \subseteq PoolBlocks
  BY <1>1, ZenonT(30) DEF ToSet
<1> QED
  BY <1>4, <1>5, <1>6, ZenonT(30)

\* Every argument list is a sequence of blocks.
LEMMA IdListsType ==
  ASSUME NEW ids \in IdLists
  PROVE  ids \in Seq(PoolBlocks) /\ ToSet(ids) \in SUBSET PoolBlocks
<1>1. PICK n \in 0 .. MaxIds : ids \in [1 .. n -> PoolBlocks]
  BY ZenonT(30) DEF IdLists
<1>2. n \in Nat
  BY <1>1, PoolAssumption
<1> QED
  BY <1>1, <1>2 DEF ToSet

\* The constructor establishes the invariant.
LEMMA InitPoolInv == PoolInit => PoolInv
<1> SUFFICES ASSUME PoolInit PROVE PoolInv
  BY ZenonT(30)
<1>1. PoolBlocks \ {} = PoolBlocks
  BY ZenonT(30)
<1> QED
  BY <1>1, BlocksFinite, ZenonT(30) DEF PoolInit, PoolInv

\* Assign keeps everything but the count, which its callers settle.
LEMMA AssignLemma ==
  ASSUME PoolInv, NEW S \in SUBSET PoolBlocks, NEW e \in Entities, NEW lock \in BOOLEAN,
         Assign(S, e, lock), num_free' = Cardinality(PoolBlocks \ (allocated \cup S))
  PROVE  PoolInv'
<1>1. /\ last' \in [PoolBlocks -> Nat]
      /\ access_counter' \in Nat
      /\ owner' \in [PoolBlocks -> Entities \cup {None}]
  BY DEF PoolInv, Assign, Touch
<1>2. allocated' \subseteq PoolBlocks /\ locked' \subseteq allocated'
  BY ZenonT(30) DEF PoolInv, Assign
<1>3. num_free' = Cardinality(PoolBlocks \ allocated')
  BY ZenonT(30) DEF Assign
<1>4. ASSUME NEW b \in PoolBlocks PROVE b \in allocated' <=> owner'[b] # None
  BY <1>4, PoolAssumption, ZenonT(30) DEF PoolInv, Assign
<1> QED
  BY <1>1, <1>2, <1>3, <1>4, ZenonT(30) DEF PoolInv

\* Every call preserves the invariant.
LEMMA NextPoolInv == PoolInv /\ [PoolNext]_poolVars => PoolInv'
<1> SUFFICES ASSUME PoolInv, [PoolNext]_poolVars PROVE PoolInv'
  BY ZenonT(30)
<1>1. ASSUME NEW n \in 1 .. TotalBlocks, NEW lock \in BOOLEAN, NEW e \in Entities,
             Allocate(n, lock, e)
      PROVE  PoolInv'
  <2>1. PICK F \in SUBSET free, E \in SUBSET evictable :
          Assign(F \cup E, e, lock) /\ num_free' = num_free - Cardinality(F)
    BY <1>1, ZenonT(30) DEF Allocate
  <2>2. F \in SUBSET (PoolBlocks \ allocated) /\ E \in SUBSET allocated
    BY <2>1, ZenonT(30) DEF free, evictable
  <2>3. F \cup E \in SUBSET PoolBlocks
    BY <2>2, ZenonT(30) DEF PoolInv
  <2>4. num_free' = Cardinality(PoolBlocks \ (allocated \cup (F \cup E)))
    BY <2>1, <2>2, TakeLemma, ZenonT(30) DEF PoolInv
  <2> QED
    BY <2>1, <2>3, <2>4, AssignLemma, ZenonT(30)
<1>2. ASSUME NEW ids \in IdLists, NEW e \in Entities, AllocateTarget(ids, e)
      PROVE  PoolInv'
  <2> DEFINE S == ToSet(ids)
  <2>1. S \in SUBSET PoolBlocks /\ Cardinality(S) = Len(ids)
    BY <1>2, IdListsType, InjectiveLen, ZenonT(30) DEF AllocateTarget
  <2>2. S \in SUBSET (PoolBlocks \ allocated)
    BY <1>2, <2>1, ZenonT(30) DEF AllocateTarget
  <2>3. Assign(S, e, TRUE) /\ num_free' = num_free - Len(ids)
    BY <1>2, ZenonT(30) DEF AllocateTarget
  <2> HIDE DEF S
  <2>4. Cardinality(PoolBlocks \ (allocated \cup (S \cup {})))
          = Cardinality(PoolBlocks \ allocated) - Cardinality(S)
    BY <2>2, TakeLemma, ZenonT(30) DEF PoolInv
  <2>5. S \cup {} = S
    BY ZenonT(30)
  <2>6. num_free' = Cardinality(PoolBlocks \ (allocated \cup S))
    BY <2>1, <2>3, <2>4, <2>5, ZenonT(30) DEF PoolInv
  <2> QED
    BY <2>1, <2>3, <2>6, AssignLemma, ZenonT(30)
<1>3. ASSUME NEW ids \in IdLists, Unlock(ids) PROVE PoolInv'
  BY <1>3, ZenonT(30) DEF Unlock, PoolInv
<1>4. ASSUME NEW ids \in IdLists, Deallocate(ids) PROVE PoolInv'
  <2> DEFINE D == ToSet(ids)
  <2>1. D \in SUBSET allocated
    BY <1>4, ZenonT(30) DEF Deallocate
  <2>2. /\ allocated' = allocated \ D /\ locked' = locked \ D
        /\ num_free' = num_free + Cardinality(D)
        /\ owner' = [b \in PoolBlocks |-> IF b \in D THEN None ELSE owner[b]]
        /\ last' = last /\ access_counter' = access_counter
    BY <1>4, ZenonT(30) DEF Deallocate
  <2> HIDE DEF D
  <2>3. num_free' = Cardinality(PoolBlocks \ (allocated \ D))
    BY <2>1, <2>2, ReturnLemma, ZenonT(30) DEF PoolInv
  <2>4. ASSUME NEW b \in PoolBlocks PROVE b \in allocated' <=> owner'[b] # None
    BY <2>2, <2>4, ZenonT(30) DEF PoolInv
  <2> QED
    BY <2>2, <2>3, <2>4, ZenonT(30) DEF PoolInv
<1>5. ASSUME NEW b \in PoolBlocks, AccessBlock(b) PROVE PoolInv'
  BY <1>5 DEF AccessBlock, Touch, PoolInv
<1>6. CASE UNCHANGED poolVars
  BY <1>6, ZenonT(30) DEF poolVars, PoolInv
<1> QED
  BY <1>1, <1>2, <1>3, <1>4, <1>5, <1>6, ZenonT(30) DEF PoolNext

\* PoolInv is an invariant of every history of calls.
THEOREM PoolInvariant == PoolSpec => []PoolInv
  BY InitPoolInv, NextPoolInv, PTL DEF PoolSpec

\* The count read by num_free_blocks() is the number of unallocated blocks,
\* in every history of Allocate, AllocateTarget, Unlock, Deallocate and
\* AccessBlock calls, whatever the size of the pool.
THEOREM FreeCountExact == PoolSpec => []NumFreeExact
<1>1. PoolInv => NumFreeExact
  BY ZenonT(30) DEF PoolInv, NumFreeExact, free
<1> QED
  BY <1>1, PoolInvariant, PTL

\* A lock never outlives its allocation, and owners follow allocation.
THEOREM LocksFollowAllocation == PoolSpec => []LockedAllocated
<1>1. PoolInv => LockedAllocated
  BY ZenonT(30) DEF PoolInv, LockedAllocated
<1> QED
  BY <1>1, PoolInvariant, PTL

\* The manager's fields keep their types; in particular num_free_ stays in
\* 0 .. total_blocks_.
THEOREM PoolTypeCorrect == PoolSpec => []PoolTypeOK
<1>1. PoolInv => PoolTypeOK
  <2> SUFFICES ASSUME PoolInv PROVE PoolTypeOK
    BY ZenonT(30)
  <2>1. /\ Cardinality(PoolBlocks \ allocated) \in Nat
        /\ Cardinality(PoolBlocks \ allocated) <= Cardinality(PoolBlocks)
    <3>1. IsFiniteSet(PoolBlocks) /\ PoolBlocks \ allocated \in SUBSET PoolBlocks
      BY BlocksFinite, ZenonT(30)
    <3> QED
      BY <3>1, FS_Subset, FS_CardinalityType, ZenonT(30)
  <2>2. num_free \in 0 .. TotalBlocks
    BY <2>1, BlocksFinite, PoolAssumption DEF PoolInv
  <2> QED
    BY <2>2, ZenonT(30) DEF PoolInv, PoolTypeOK
<1> QED
  BY <1>1, PoolInvariant, PTL

\* No call hands a locked block to another entity: Allocate evicts only
\* unlocked blocks and AllocateTarget accepts only free ones.
THEOREM LockedBlocksKept == PoolSpec => LockedKeepsOwner
<1> DEFINE Kept == \A b \in locked : owner'[b] \in {owner[b], None}
<1>1. PoolInv /\ [PoolNext]_poolVars => Kept
  <2> SUFFICES ASSUME PoolInv, [PoolNext]_poolVars, NEW b \in locked
               PROVE  owner'[b] \in {owner[b], None}
    BY ZenonT(30)
  <2>0. b \in allocated /\ b \in PoolBlocks
    BY ZenonT(30) DEF PoolInv
  <2>1. ASSUME NEW n \in 1 .. TotalBlocks, NEW lock \in BOOLEAN, NEW e \in Entities,
               Allocate(n, lock, e)
        PROVE  owner'[b] = owner[b]
    <3>1. PICK F \in SUBSET free, E \in SUBSET evictable : Assign(F \cup E, e, lock)
      BY <2>1, ZenonT(30) DEF Allocate
    <3>2. b \notin F \cup E
      BY <2>0, <3>1, ZenonT(30) DEF free, evictable
    <3> QED
      BY <2>0, <3>1, <3>2, ZenonT(30) DEF Assign
  <2>2. ASSUME NEW ids \in IdLists, NEW e \in Entities, AllocateTarget(ids, e)
        PROVE  owner'[b] = owner[b]
    BY <2>0, <2>2, ZenonT(30) DEF AllocateTarget, Assign
  <2>3. ASSUME NEW ids \in IdLists, Unlock(ids) PROVE owner'[b] = owner[b]
    BY <2>3, ZenonT(30) DEF Unlock
  <2>4. ASSUME NEW ids \in IdLists, Deallocate(ids)
        PROVE  owner'[b] \in {owner[b], None}
    BY <2>0, <2>4, ZenonT(30) DEF Deallocate
  <2>5. ASSUME NEW x \in PoolBlocks, AccessBlock(x) PROVE owner'[b] = owner[b]
    BY <2>5, ZenonT(30) DEF AccessBlock
  <2>6. CASE UNCHANGED poolVars
    BY <2>6, ZenonT(30) DEF poolVars
  <2> QED
    BY <2>1, <2>2, <2>3, <2>4, <2>5, <2>6, ZenonT(30) DEF PoolNext
<1>2. PoolInv /\ [PoolNext]_poolVars => [Kept]_poolVars
  BY <1>1, ZenonT(30)
<1> QED
  BY <1>2, PoolInvariant, PTL DEF PoolSpec, LockedKeepsOwner

(* ------------------------------- CopyPipeline ----------------------------- *)

Steps == {"none", "ready", "run", "error", "error_cas", "mark", "last", "done"}

PipeType ==
  /\ job \in PipeJobs
  /\ call \in {"idle", "issue", "attached", "returned"}
  /\ at \in [Chunks -> Steps]
  /\ stage \in [Chunks -> Nat]
  /\ completed \in Nat
  /\ hasFailed \in BOOLEAN /\ fulfilled \in BOOLEAN
  /\ promise \in {<<>>, <<"ok">>, <<"error">>, <<"refused">>}
  /\ mishaps \in 0..job.faults

\* The chunks that MarkChunkComplete has counted.
Marked == {c \in Chunks : at[c] \in {"last", "done"}}

\* completed_chunks is the number of marked chunks, and only the chunk that
\* made it complete settles the promise.
Counted ==
  /\ call = "attached" /\ ~Inline => completed = Cardinality(Marked)
  /\ \A c \in Chunks : at[c] = "last" => completed = Count

\* Unless an error has been recorded, a chunk that is through its stages has
\* passed all of them; and where there is an error there was a fault.
Honest ==
  /\ \A c \in Chunks : at[c] = "run" => stage[c] < Stages
  /\ \A c \in Chunks : at[c] = "ready" => stage[c] < Stages
  /\ \A c \in Chunks : at[c] \in {"mark", "last", "done"} /\ call = "attached" /\ ~hasFailed /\ promise # <<"error">>
                          => stage[c] = Stages
  /\ \A c \in Chunks : at[c] = "error_cas" => hasFailed
  /\ hasFailed \/ promise = <<"error">> \/ (\E c \in Chunks : at[c] = "error") => mishaps < job.faults

\* What the caller's thread has done.
Issued ==
  /\ call = "idle" => \A c \in Chunks : at[c] = "none"
  /\ call = "issue" => \A c \in Chunks : at[c] \in {"none", "run"}
  /\ call = "attached" => \A c \in Chunks : at[c] # "none"
  /\ call = "returned" => \A c \in Chunks : at[c] \in {"none", "run", "done"}
  /\ \A c \in Chunks : at[c] = "none" => stage[c] = 0
  /\ call # "attached" => ~hasFailed /\ ~fulfilled /\ completed = 0
  /\ Inline => ~hasFailed /\ ~fulfilled /\ \A c \in Chunks : at[c] \notin {"error_cas", "last"}

\* Who has answered.
Answered ==
  /\ call \in {"idle", "issue"} => promise = <<>>
  /\ call = "returned" => \/ promise = <<"ok">> /\ Count = 0
                          \/ promise = <<"error">>
                          \/ promise = <<"refused">> /\ \A c \in Chunks : at[c] = "none"
  /\ call = "attached" => promise # <<"refused">>
  /\ call = "attached" /\ ~Inline => (fulfilled <=> promise # <<>>)
  /\ call = "attached" /\ Inline => (promise # <<>> <=> at[1] = "done")
  /\ call = "attached" /\ ~Inline /\ promise = <<"ok">> => completed = Count /\ ~hasFailed

PipeInv == PipeType /\ Counted /\ Honest /\ Issued /\ Answered

-----------------------------------------------------------------------------
(* Lemmas *)

\* The parameters of the call: finitely many chunks, and at least one stage.
LEMMA CallLemma ==
  ASSUME job \in PipeJobs
  PROVE  /\ Count \in Nat /\ Stages \in Nat /\ Stages > 0 /\ job.faults \in Nat
         /\ Inline \in BOOLEAN /\ (Inline => Count = 1)
         /\ Chunks = 1..Count /\ IsFiniteSet(Chunks) /\ Cardinality(Chunks) = Count
<1>1. Count \in Nat /\ job.faults \in Nat
  BY PipeJobsAssumption DEF Count
<1>2. Kind \in {H2dWrite, H2dRead, D2hWrite, D2hWriteToBackend, H2dReadFromBackend}
  <2>1. job.kind \in {"H2dWrite", "H2dRead", "D2hWrite", "D2hWriteToBackend", "H2dReadFromBackend"}
    BY PipeJobsAssumption, ZenonT(30)
  <2> QED
    BY <2>1, ZenonT(30) DEF Kind, KindOf
<1>3. Stages \in Nat /\ Stages > 0 /\ Kind.inline \in BOOLEAN
  <2>1. Len(H2dWrite.stages) = 1 /\ Len(H2dRead.stages) = 2 /\ Len(D2hWrite.stages) = 2
    BY ZenonT(30) DEF H2dWrite, H2dRead, D2hWrite
  <2>2. Len(D2hWriteToBackend.stages) = 2 /\ Len(H2dReadFromBackend.stages) = 2
    BY ZenonT(30) DEF D2hWriteToBackend, H2dReadFromBackend
  <2>3. /\ H2dWrite.inline \in BOOLEAN /\ H2dRead.inline \in BOOLEAN /\ D2hWrite.inline \in BOOLEAN
        /\ D2hWriteToBackend.inline \in BOOLEAN /\ H2dReadFromBackend.inline \in BOOLEAN
    BY ZenonT(30) DEF H2dWrite, H2dRead, D2hWrite, D2hWriteToBackend, H2dReadFromBackend
  <2>4. Kind.inline \in BOOLEAN
    BY <1>2, <2>3, ZenonT(30)
  <2>5. Len(Kind.stages) \in {1, 2}
    BY <1>2, <2>1, <2>2, ZenonT(30)
  <2>6. \A n \in {1, 2} : n \in Nat /\ n > 0
    OBVIOUS
  <2> QED
    BY <2>4, <2>5, <2>6, ZenonT(30) DEF Stages
<1>4. IsFiniteSet(1..Count) /\ Cardinality(1..Count) = Count
  <2>1. /\ IsFiniteSet(1..Count)
        /\ Cardinality(1..Count) = IF 1 > Count THEN 0 ELSE Count - 1 + 1
    BY <1>1, FS_Interval
  <2> QED
    BY <1>1, <2>1
<1> QED
  BY <1>1, <1>3, <1>4, ZenonT(30) DEF Inline, Chunks

\* Every step leaves the call as it is, and with it all that is read from it.
LEMMA CallFixed ==
  ASSUME job' = job
  PROVE  /\ Count' = Count /\ Chunks' = Chunks /\ Stages' = Stages
         /\ Kind' = Kind /\ Inline' = Inline
BY ZenonT(30) DEF Count, Chunks, Stages, Kind, Inline

\* When as many chunks are marked as there are, all are.
LEMMA AllMarked ==
  ASSUME job \in PipeJobs
  PROVE  /\ IsFiniteSet(Marked) /\ Cardinality(Marked) \in Nat
         /\ Cardinality(Marked) = Count => Marked = Chunks
<1>1. Marked \subseteq Chunks
  BY ZenonT(30) DEF Marked
<1>2. IsFiniteSet(Marked) /\ (Cardinality(Chunks) = Cardinality(Marked) => Chunks = Marked)
  BY <1>1, CallLemma, FS_Subset, ZenonT(30)
<1> QED
  BY <1>2, CallLemma, FS_CardinalityType, ZenonT(30)

\* A step that marks no chunk leaves their number alone.
LEMMA SameMarked ==
  ASSUME Chunks' = Chunks, \A c \in Chunks : at[c] \in {"last", "done"} <=> at'[c] \in {"last", "done"}
  PROVE  Marked' = Marked
BY ZenonT(30) DEF Marked

\* The answers differ, and the first one given is the only one.
LEMMA Answers ==
  /\ <<>> # <<"ok">> /\ <<>> # <<"error">> /\ <<>> # <<"refused">>
  /\ <<"ok">> # <<"error">> /\ <<"ok">> # <<"refused">> /\ <<"error">> # <<"refused">>
  /\ Append(<<>>, "ok") = <<"ok">> /\ Append(<<>>, "error") = <<"error">>
OBVIOUS

\* While a chunk is not marked the count is not full, and success is not told.
LEMMA Unfinished ==
  ASSUME PipeInv, call = "attached", ~Inline, NEW c \in Chunks, at[c] \notin {"last", "done"}
  PROVE  completed # Count /\ promise # <<"ok">> /\ \A d \in Chunks : at[d] # "last"
<1>1. Marked # Chunks /\ job \in PipeJobs
  BY ZenonT(30) DEF Marked, PipeInv, PipeType
<1>2. completed # Count
  BY <1>1, AllMarked, ZenonT(30) DEF PipeInv, Counted
<1> QED
  BY <1>2, ZenonT(30) DEF PipeInv, Counted, Answered

-----------------------------------------------------------------------------
(* The invariant is inductive. *)

\* No chunk has started and nothing is answered at the start.
LEMMA PipeInvInit == PipeInit => PipeInv
<1> SUFFICES ASSUME PipeInit PROVE PipeInv
  BY ZenonT(30)
<1>1. job \in PipeJobs /\ Chunks = 1..job.lists[1]
  BY ZenonT(30) DEF PipeInit, Chunks, Count
<1>2. PipeType
  <2>1. mishaps \in 0..job.faults
    BY <1>1, CallLemma DEF PipeInit
  <2>2. at \in [Chunks -> Steps] /\ stage \in [Chunks -> Nat]
    BY <1>1, ZenonT(30) DEF PipeInit, Steps
  <2> QED
    BY <1>1, <2>1, <2>2, ZenonT(30) DEF PipeInit, PipeType
<1>3. Counted /\ Issued
  BY <1>1, ZenonT(30) DEF PipeInit, Counted, Issued
<1>4. Honest /\ Answered
  BY <1>1, Answers, ZenonT(30) DEF PipeInit, Honest, Answered
<1> QED
  BY <1>2, <1>3, <1>4, ZenonT(30) DEF PipeInv

\* Every step preserves the invariant.
LEMMA PipeInvStep == PipeInv /\ [PipeNext]_pipeVars => PipeInv'
<1> SUFFICES ASSUME PipeInv, [PipeNext]_pipeVars PROVE PipeInv'
  BY ZenonT(30)
<1>1. job' = job /\ job \in PipeJobs
  BY ZenonT(30) DEF PipeInv, PipeType, PipeNext, pipeVars, Call, Attach, Submit, Begin, StageOk, StageFails,
     InlineEnd, SetErrorFlag, SetError, MarkChunkComplete, SettlePromise
<1>2. /\ Count' = Count /\ Chunks' = Chunks /\ Stages' = Stages
      /\ Kind' = Kind /\ Inline' = Inline
  BY <1>1, CallFixed, ZenonT(30)
<1>3. /\ Count \in Nat /\ Stages \in Nat /\ Stages > 0 /\ job.faults \in Nat
      /\ Inline \in BOOLEAN /\ (Inline => Count = 1) /\ Chunks = 1..Count
  BY <1>1, CallLemma, ZenonT(30)
<1> USE <1>1, <1>2, <1>3, Answers
<1>5. ASSUME Call PROVE PipeInv'
  <2>1. PipeType'
    BY <1>5, ZenonT(30) DEF Call, PipeInv, PipeType, Steps, Issued
  <2>2. Marked' = {} /\ Cardinality(Marked') = 0
    BY <1>5, FS_EmptySet, ZenonT(30) DEF Call, Marked, PipeInv, PipeType, Issued
  <2>3. Counted'
    BY <1>5, <2>2, ZenonT(30) DEF Call, PipeInv, PipeType, Steps, Counted, Issued
  <2>4. Issued'
    BY <1>5, ZenonT(30) DEF Call, PipeInv, PipeType, Steps, Issued
  <2>5. CASE Refused \/ Count = 0
    <3>1. Honest'
      BY <1>5, <2>5, ZenonT(30) DEF Call, PipeInv, PipeType, Honest, Issued
    <3>2. Answered'
      BY <1>5, <2>5, ZenonT(30) DEF Call, PipeInv, PipeType, Issued, Answered
    <3> QED
      BY <2>1, <2>3, <2>4, <3>1, <3>2, ZenonT(30) DEF PipeInv
  <2>6. CASE ~(Refused \/ Count = 0)
    <3>1. Honest'
      BY <1>5, <2>6, ZenonT(30) DEF Call, PipeInv, PipeType, Honest, Issued, Answered
    <3>2. Answered'
      BY <1>5, <2>6 DEF Call, PipeInv, PipeType, Issued, Answered
    <3> QED
      BY <2>1, <2>3, <2>4, <3>1, <3>2, ZenonT(30) DEF PipeInv
  <2> QED
    BY <2>5, <2>6, ZenonT(30)
<1>6. ASSUME Attach PROVE PipeInv'
  <2>1. PipeType'
    BY <1>6, ZenonT(30) DEF Attach, PipeInv, PipeType, Steps, Issued
  <2>2. Marked' = {} /\ Cardinality(Marked') = 0
    BY <1>6, FS_EmptySet, ZenonT(30) DEF Attach, Marked, PipeInv, PipeType, Issued
  <2>3. Counted'
    BY <1>6, <2>2, ZenonT(30) DEF Attach, PipeInv, PipeType, Steps, Counted, Issued
  <2>4. Honest'
    BY <1>6, ZenonT(30) DEF Attach, PipeInv, PipeType, Steps, Honest, Issued, Answered
  <2>5. Issued'
    BY <1>6, ZenonT(30) DEF Attach, PipeInv, PipeType, Steps, Issued
  <2>6. Answered'
    BY <1>6 DEF Attach, PipeInv, PipeType, Steps, Issued, Answered
  <2> QED
    BY <2>1, <2>3, <2>4, <2>5, <2>6, ZenonT(30) DEF PipeInv
<1>7. ASSUME NEW c \in Chunks, Submit(c) PROVE PipeInv'
  <2>1. PipeType'
    BY <1>7 DEF Submit, Mishap, PipeInv, PipeType, Steps, Issued
  <2>2. Counted'
    BY <1>7, ZenonT(30) DEF Submit, Mishap, PipeInv, PipeType, Steps, Counted
  <2>3. Honest'
    <3>1. CASE UNCHANGED call
      BY <1>7, <3>1, ZenonT(30) DEF Submit, PipeInv, PipeType, Honest, Issued
    <3>2. CASE ~UNCHANGED call
      <4>1. mishaps' < job.faults /\ call' = "returned" /\ UNCHANGED at
        BY <1>7, <3>2 DEF Submit, Mishap, PipeInv, PipeType
      <4> QED
        BY <1>7, <4>1, ZenonT(30) DEF Submit, PipeInv, PipeType, Honest
    <3> QED
      BY <3>1, <3>2, ZenonT(30)
  <2>4. Issued'
    BY <1>7, ZenonT(30) DEF Submit, Mishap, PipeInv, PipeType, Steps, Issued
  <2>5. Answered'
    BY <1>7, ZenonT(30) DEF Submit, Mishap, PipeInv, PipeType, Steps, Issued, Answered
  <2> QED
    BY <2>1, <2>2, <2>3, <2>4, <2>5, ZenonT(30) DEF PipeInv
<1>8. ASSUME NEW c \in Chunks, Begin(c) PROVE PipeInv'
  <2>1. PipeType'
    BY <1>8, ZenonT(30) DEF Begin, PipeInv, PipeType, Steps, Issued
  <2>2. Marked' = Marked
    BY <1>8, SameMarked, ZenonT(30) DEF Begin, PipeInv, PipeType
  <2>3. Counted'
    BY <1>8, <2>2, ZenonT(30) DEF Begin, PipeInv, PipeType, Steps, Counted
  <2>4. Honest'
    BY <1>8, ZenonT(30) DEF Begin, PipeInv, PipeType, Steps, Honest, Issued, Answered
  <2>5. Issued'
    BY <1>8, ZenonT(30) DEF Begin, PipeInv, PipeType, Steps, Issued
  <2>6. Answered'
    BY <1>8 DEF Begin, PipeInv, PipeType, Steps, Issued, Answered
  <2> QED
    BY <2>1, <2>3, <2>4, <2>5, <2>6, ZenonT(30) DEF PipeInv
<1>9. ASSUME NEW c \in Chunks, StageOk(c) PROVE PipeInv'
  <2>1. PipeType'
    BY <1>9 DEF StageOk, PipeInv, PipeType, Steps, Issued
  <2>2. Counted'
    <3>1. CASE call = "attached"
      <4>1. Marked' = Marked
        BY <1>9, <3>1, SameMarked, ZenonT(30) DEF StageOk, PipeInv, PipeType
      <4> QED
        BY <1>9, <3>1, <4>1, ZenonT(30) DEF StageOk, PipeInv, PipeType, Counted
    <3>2. CASE call = "returned"
      BY <1>9, <3>2, ZenonT(30) DEF StageOk, PipeInv, PipeType, Counted
    <3> QED
      BY <1>9, <3>1, <3>2, ZenonT(30) DEF StageOk
  <2>3. Honest'
    <3>1. CASE call = "attached"
      BY <1>9, <3>1 DEF StageOk, PipeInv, PipeType, Honest
    <3>2. CASE call = "returned"
      BY <1>9, <3>2, ZenonT(30) DEF StageOk, PipeInv, PipeType, Honest
    <3> QED
      BY <1>9, <3>1, <3>2, ZenonT(30) DEF StageOk
  <2>4. Issued'
    BY <1>9, ZenonT(30) DEF StageOk, PipeInv, PipeType, Steps, Issued
  <2>5. Answered'
    BY <1>9 DEF StageOk, PipeInv, PipeType, Steps, Issued, Answered
  <2> QED
    BY <2>1, <2>2, <2>3, <2>4, <2>5, ZenonT(30) DEF PipeInv
<1>10. ASSUME NEW c \in Chunks, StageFails(c) PROVE PipeInv'
  <2>1. call = "attached"
    BY <1>10, ZenonT(30) DEF StageFails, Mishap, PipeInv, PipeType, Steps, Issued
  <2>2. PipeType'
    BY <1>10, <2>1 DEF StageFails, Mishap, PipeInv, PipeType, Steps, Issued
  <2>3. Marked' = Marked
    BY <1>10, SameMarked, ZenonT(30) DEF StageFails, PipeInv, PipeType
  <2>4. Counted'
    BY <1>10, <2>1, <2>3, ZenonT(30) DEF StageFails, Mishap, PipeInv, PipeType, Steps, Counted
  <2>5. Honest'
    <3>1. mishaps' < job.faults
      BY <1>10 DEF StageFails, Mishap, PipeInv, PipeType
    <3> QED
      BY <1>10, <2>1, <3>1, ZenonT(30) DEF StageFails, PipeInv, PipeType, Honest
  <2>6. Issued'
    BY <1>10, <2>1, ZenonT(30) DEF StageFails, Mishap, PipeInv, PipeType, Steps, Issued
  <2>7. Answered'
    BY <1>10, <2>1 DEF StageFails, Mishap, PipeInv, PipeType, Steps, Issued, Answered
  <2> QED
    BY <2>2, <2>4, <2>5, <2>6, <2>7, ZenonT(30) DEF PipeInv
<1>11. ASSUME NEW c \in Chunks, InlineEnd(c) PROVE PipeInv'
  <2>1. PipeType'
    BY <1>11, ZenonT(30) DEF InlineEnd, PipeInv, PipeType, Steps, Issued
  <2>2. Counted'
    BY <1>11, ZenonT(30) DEF InlineEnd, PipeInv, PipeType, Steps, Counted
  <2>3. Honest'
    BY <1>11 DEF InlineEnd, PipeInv, PipeType, Steps, Honest, Issued, Answered
  <2>4. Issued'
    BY <1>11, ZenonT(30) DEF InlineEnd, PipeInv, PipeType, Steps, Issued
  <2>5. Answered'
    BY <1>11 DEF InlineEnd, PipeInv, PipeType, Steps, Issued, Answered
  <2> QED
    BY <2>1, <2>2, <2>3, <2>4, <2>5, ZenonT(30) DEF PipeInv
<1>12. ASSUME NEW c \in Chunks, SetErrorFlag(c) PROVE PipeInv'
  <2>1. call = "attached" /\ ~Inline
    BY <1>12, ZenonT(30) DEF SetErrorFlag, PipeInv, PipeType, Steps, Issued
  <2>2. PipeType'
    BY <1>12, <2>1, ZenonT(30) DEF SetErrorFlag, PipeInv, PipeType, Steps, Issued
  <2>3. Marked' = Marked
    BY <1>12, SameMarked, ZenonT(30) DEF SetErrorFlag, PipeInv, PipeType
  <2>4. Counted'
    BY <1>12, <2>1, <2>3, ZenonT(30) DEF SetErrorFlag, PipeInv, PipeType, Steps, Counted
  <2>5. Honest'
    BY <1>12, <2>1, ZenonT(30) DEF SetErrorFlag, PipeInv, PipeType, Steps, Honest, Issued, Answered
  <2>6. Issued'
    BY <1>12, <2>1, ZenonT(30) DEF SetErrorFlag, PipeInv, PipeType, Steps, Issued
  <2>7. Answered'
    <3>1. promise # <<"ok">>
      BY <1>12, <2>1, Unfinished, ZenonT(30) DEF SetErrorFlag
    <3> QED
      BY <1>12, <2>1, <3>1, ZenonT(30) DEF SetErrorFlag, PipeInv, PipeType, Answered
  <2> QED
    BY <2>2, <2>4, <2>5, <2>6, <2>7, ZenonT(30) DEF PipeInv
<1>13. ASSUME NEW c \in Chunks, SetError(c) PROVE PipeInv'
  <2>1. call = "attached" /\ ~Inline
    BY <1>13, ZenonT(30) DEF SetError, PipeInv, PipeType, Steps, Issued
  <2>2. fulfilled \/ promise = <<>>
    BY <1>13, <2>1, ZenonT(30) DEF SetError, PipeInv, PipeType, Steps, Issued, Answered
  <2>3. promise' \in {promise, <<"ok">>, <<"error">>}
    <3>1. CASE fulfilled
      BY <1>13, <3>1, ZenonT(30) DEF SetError
    <3>2. CASE ~fulfilled
      BY <1>13, <2>2, <3>2, ZenonT(30) DEF SetError
    <3> QED
      BY <3>1, <3>2, ZenonT(30)
  <2>4. PipeType'
    BY <1>13, <2>1, <2>3, ZenonT(30) DEF SetError, PipeInv, PipeType, Steps, Issued
  <2>5. Marked' = Marked
    BY <1>13, SameMarked, ZenonT(30) DEF SetError, PipeInv, PipeType
  <2>6. Counted'
    BY <1>13, <2>1, <2>5, ZenonT(30) DEF SetError, PipeInv, PipeType, Steps, Counted
  <2>7. Honest'
    BY <1>13, <2>1, ZenonT(30) DEF SetError, PipeInv, PipeType, Steps, Honest, Issued, Answered
  <2>8. Issued'
    BY <1>13, <2>1, ZenonT(30) DEF SetError, PipeInv, PipeType, Steps, Issued
  <2>9. Answered'
    <3>1. promise # <<"ok">>
      BY <1>13, <2>1, Unfinished, ZenonT(30) DEF SetError
    <3>2. promise' = <<"error">>
      BY <1>13, <2>1, <2>2, <3>1, ZenonT(30) DEF SetError, PipeInv, PipeType, Answered
    <3> QED
      BY <1>13, <2>1, <3>2, ZenonT(30) DEF SetError, PipeInv, PipeType, Answered
  <2> QED
    BY <2>4, <2>6, <2>7, <2>8, <2>9, ZenonT(30) DEF PipeInv
<1>14. ASSUME NEW c \in Chunks, MarkChunkComplete(c) PROVE PipeInv'
  <2>1. call = "attached" /\ ~Inline
    BY <1>14, ZenonT(30) DEF MarkChunkComplete, PipeInv, PipeType, Steps, Issued
  <2>2. PipeType'
    BY <1>14, <2>1 DEF MarkChunkComplete, PipeInv, PipeType, Steps, Issued
  <2>3. Counted'
    <3>1. c \notin Marked /\ Marked' = Marked \cup {c}
      BY <1>14, ZenonT(30) DEF MarkChunkComplete, Marked, PipeInv, PipeType
    <3>2. Cardinality(Marked') = Cardinality(Marked) + 1
      BY <3>1, AllMarked, FS_AddElement, ZenonT(30)
    <3>3. \A d \in Chunks : at[d] # "last"
      BY <1>14, <2>1, Unfinished, ZenonT(30) DEF MarkChunkComplete
    <3> QED
      BY <1>14, <2>1, <3>2, <3>3, ZenonT(30) DEF MarkChunkComplete, PipeInv, PipeType, Counted
  <2>4. Honest'
    BY <1>14, <2>1, ZenonT(30) DEF MarkChunkComplete, PipeInv, PipeType, Steps, Honest, Issued, Answered
  <2>5. Issued'
    BY <1>14, <2>1, ZenonT(30) DEF MarkChunkComplete, PipeInv, PipeType, Steps, Issued
  <2>6. Answered'
    <3>1. promise # <<"ok">>
      BY <1>14, <2>1, Unfinished, ZenonT(30) DEF MarkChunkComplete
    <3> QED
      BY <1>14, <2>1, <3>1, ZenonT(30) DEF MarkChunkComplete, PipeInv, PipeType, Answered
  <2> QED
    BY <2>2, <2>3, <2>4, <2>5, <2>6, ZenonT(30) DEF PipeInv
<1>15. ASSUME NEW c \in Chunks, SettlePromise(c) PROVE PipeInv'
  <2>1. call = "attached" /\ ~Inline
    BY <1>15, ZenonT(30) DEF SettlePromise, PipeInv, PipeType, Steps, Issued
  <2>2. fulfilled \/ promise = <<>>
    BY <1>15, <2>1, ZenonT(30) DEF SettlePromise, PipeInv, PipeType, Steps, Issued, Answered
  <2>3. promise' \in {promise, <<"ok">>, <<"error">>}
    <3>1. CASE fulfilled
      BY <1>15, <3>1, ZenonT(30) DEF SettlePromise
    <3>2. CASE ~fulfilled
      BY <1>15, <2>2, <3>2, ZenonT(30) DEF SettlePromise
    <3> QED
      BY <3>1, <3>2, ZenonT(30)
  <2>4. PipeType'
    BY <1>15, <2>1, <2>3, ZenonT(30) DEF SettlePromise, PipeInv, PipeType, Steps, Issued
  <2>5. Marked' = Marked
    BY <1>15, SameMarked, ZenonT(30) DEF SettlePromise, PipeInv, PipeType
  <2>6. Counted'
    BY <1>15, <2>1, <2>5, ZenonT(30) DEF SettlePromise, PipeInv, PipeType, Steps, Counted
  <2>7. Honest'
    <3>1. promise' = <<"error">> => hasFailed \/ promise = <<"error">>
      BY <1>15, <2>2, ZenonT(30) DEF SettlePromise
    <3>2. promise = <<"error">> => promise' = <<"error">>
      BY <1>15, <2>2, ZenonT(30) DEF SettlePromise
    <3> QED
      BY <1>15, <2>1, <3>1, <3>2, ZenonT(30) DEF SettlePromise, PipeInv, PipeType, Honest
  <2>8. Issued'
    BY <1>15, <2>1, ZenonT(30) DEF SettlePromise, PipeInv, PipeType, Steps, Issued
  <2>9. Answered'
    <3>1. completed = Count
      BY <1>15, ZenonT(30) DEF SettlePromise, PipeInv, Counted
    <3>2. promise' # <<>> /\ promise' # <<"refused">>
      BY <1>15, <2>1, <2>2, ZenonT(30) DEF SettlePromise, PipeInv, PipeType, Answered
    <3>3. promise' = <<"ok">> => ~hasFailed
      BY <1>15, <2>1, <2>2, ZenonT(30) DEF SettlePromise, PipeInv, PipeType, Answered
    <3> QED
      BY <1>15, <2>1, <3>1, <3>2, <3>3, ZenonT(30) DEF SettlePromise, PipeInv, PipeType, Answered
  <2> QED
    BY <2>4, <2>6, <2>7, <2>8, <2>9, ZenonT(30) DEF PipeInv
<1>16. ASSUME UNCHANGED pipeVars PROVE PipeInv'
  BY <1>16, ZenonT(30) DEF pipeVars, PipeInv, PipeType, Counted, Marked, Honest, Issued, Answered
<1> QED
  BY <1>5, <1>6, <1>7, <1>8, <1>9, <1>10, <1>11, <1>12, <1>13, <1>14, <1>15, <1>16, ZenonT(30) DEF PipeNext

-----------------------------------------------------------------------------
(* What follows for every behaviour. *)

\* The inductive invariant holds throughout.
LEMMA PipeInvAlways == PipeSpec => []PipeInv
BY PipeInvInit, PipeInvStep, PTL DEF PipeSpec

\* TransferPipelinedState answers once and truthfully, for any number of
\* chunks and any interleaving of their ends: success only when every chunk
\* has passed every stage, an error only after a fault, a refusal only when
\* nothing was moved.
THEOREM PromiseTrueInvariant == PipeSpec => []PromiseTrue
<1>1. PipeInv => PromiseTrue
  <2> SUFFICES ASSUME PipeInv PROVE PromiseTrue
    BY ZenonT(30)
  <2>1. job \in PipeJobs
    BY ZenonT(30) DEF PipeInv, PipeType
  <2>2. Len(promise) <= 1
    <3>1. CASE promise = <<>>
      BY <3>1
    <3>2. CASE promise = <<"ok">>
      BY <3>2
    <3>3. CASE promise = <<"error">>
      BY <3>3
    <3>4. CASE promise = <<"refused">>
      BY <3>4
    <3> QED
      BY <3>1, <3>2, <3>3, <3>4, ZenonT(30) DEF PipeInv, PipeType
  <2>3. ASSUME promise = <<"ok">>, NEW c \in Chunks
        PROVE  stage[c] = Stages /\ at[c] \notin {"ready", "run"}
    <3>1. call = "attached"
      BY <2>1, <2>3, Answers, CallLemma DEF PipeInv, PipeType, Answered
    <3>2. CASE Inline
      <4>1. c = 1 /\ at[c] = "done"
        BY <2>1, <2>3, <3>1, <3>2, Answers, CallLemma DEF PipeInv, Answered
      <4> QED
        BY <2>3, <3>1, <3>2, <4>1, Answers, ZenonT(30) DEF PipeInv, Honest, Issued
    <3>3. CASE ~Inline
      <4>1. at[c] \in {"last", "done"}
        BY <2>3, <3>1, <3>3, Unfinished, ZenonT(30)
      <4>2. ~hasFailed
        BY <2>3, <3>1, <3>3, ZenonT(30) DEF PipeInv, Answered
      <4> QED
        BY <2>3, <3>1, <4>1, <4>2, Answers, ZenonT(30) DEF PipeInv, Honest
    <3> QED
      BY <3>2, <3>3, ZenonT(30)
  <2>4. promise = <<"error">> => mishaps < job.faults
    BY ZenonT(30) DEF PipeInv, Honest
  <2>5. promise = <<"refused">> => \A c \in Chunks : at[c] = "none"
    BY Answers, ZenonT(30) DEF PipeInv, PipeType, Answered
  <2> QED
    BY <2>2, <2>3, <2>4, <2>5, ZenonT(30) DEF PromiseTrue
<1> QED
  BY <1>1, PipeInvAlways, PTL

\* An answer is final: no later error, completion or return of the caller
\* replaces it.
THEOREM AnswerFinal == PipeSpec => [][promise # <<>> => promise' = promise]_pipeVars
<1>1. PipeInv /\ [PipeNext]_pipeVars => [promise # <<>> => promise' = promise]_pipeVars
  <2> SUFFICES ASSUME PipeInv, PipeNext, promise # <<>> PROVE promise' = promise
    BY ZenonT(30) DEF pipeVars
  <2>1. job \in PipeJobs
    BY ZenonT(30) DEF PipeInv, PipeType
  <2>2. ASSUME Call PROVE promise' = promise
    BY <2>2, ZenonT(30) DEF Call, PipeInv, Answered
  <2>3. ASSUME NEW c \in Chunks, Submit(c) PROVE promise' = promise
    BY <2>3, ZenonT(30) DEF Submit, PipeInv, Answered
  <2>4. ASSUME NEW c \in Chunks, InlineEnd(c) PROVE promise' = promise
    <3>1. c = 1
      BY <2>1, <2>4, CallLemma DEF InlineEnd
    <3>2. call = "attached"
      BY <2>4, ZenonT(30) DEF InlineEnd, PipeInv, PipeType, Issued
    <3> QED
      BY <2>4, <3>1, <3>2, ZenonT(30) DEF InlineEnd, PipeInv, Answered
  <2>5. ASSUME NEW c \in Chunks, SetError(c) \/ SettlePromise(c) PROVE promise' = promise
    <3>1. call = "attached" /\ ~Inline
      BY <2>5, ZenonT(30) DEF SetError, SettlePromise, PipeInv, PipeType, Issued
    <3>2. fulfilled
      BY <3>1, ZenonT(30) DEF PipeInv, Answered
    <3> QED
      BY <2>5, <3>2, ZenonT(30) DEF SetError, SettlePromise
  <2> QED
    BY <2>2, <2>3, <2>4, <2>5, ZenonT(30)
       DEF PipeNext, Attach, Begin, StageOk, StageFails, SetErrorFlag, MarkChunkComplete
<1> QED
  BY <1>1, PipeInvAlways, PTL DEF PipeSpec
=============================================================================
