--------------------------- MODULE TaskPoolProofs ---------------------------
(***************************************************************************)
(* Proofs about TaskPool for every number of workers and callers and every *)
(* loop.  That no helper outlives the frame it refers to rests on the      *)
(* remaining counter being exactly the helpers that are queued or active   *)
(* (Outstanding); that every index runs once, on the chunks handed out     *)
(* being disjoint (Apart) and on ran saying which of them are over (Ran).  *)
(***************************************************************************)
EXTENDS TaskPool, FiniteSetTheorems, TLAPS

Active == {"loop", "run", "looped"}

Thread == [at: Active \cup {"idle", "wait", "returned", "exited"},
           of: Callers \cup {0}, in: Nat, helps: BOOLEAN]
Frame == [alive: BOOLEAN, next: Nat, remaining: Nat]

TaskPoolType ==
    /\ loop \in PoolLoops
    /\ tasks \in Seq(Callers)
    /\ frame \in [Callers -> Frame]
    /\ thread \in [PoolThreads -> Thread]
    /\ \A t \in PoolThreads : thread[t].at \in Active => thread[t].of \in Callers
    /\ \A t \in PoolThreads : thread[t].helps => thread[t].at \in Active
    /\ \A t \in PoolThreads : ~thread[t].helps /\ thread[t].at \in Active =>
           t \in Callers /\ thread[t].of = t
    /\ \A t \in PoolThreads : thread[t].at \in {"wait", "returned"} => t \in Callers

\* The places of a caller in the queue, and the threads that help it.
Where(s, c) == {k \in 1..Len(s) : s[k] = c}
Helping(c) == {t \in PoolThreads : thread[t].helps /\ thread[t].of = c}

\* remaining counts the helpers that are queued or active, and a frame that is
\* not alive has none.
Outstanding ==
    \A c \in Callers :
        /\ frame[c].remaining = Cardinality(Where(tasks, c)) + Cardinality(Helping(c))
        /\ frame[c].alive <=> thread[c].at \notin {"idle", "returned"}
        /\ ~frame[c].alive => frame[c].remaining = 0

\* A caller that waits, helps or has returned has seen the end of its loop, and
\* so has whoever leaves the loop; an idle caller has not begun.
Exhausted ==
    /\ \A c \in Callers : thread[c].at \in {"wait", "returned"} \/ thread[c].helps =>
           frame[c].next >= loop[c].total
    /\ \A t \in PoolThreads : thread[t].at = "looped" =>
           frame[thread[t].of].next >= loop[thread[t].of].total
    /\ \A c \in Callers : thread[c].at = "idle" => frame[c].next = 0

\* Chunks of one loop that run at the same time are apart, below the counter.
Apart ==
    \A t \in PoolThreads : thread[t].at = "run" =>
        /\ thread[t].in + loop[thread[t].of].step <= frame[thread[t].of].next
        /\ \A u \in PoolThreads \ {t} :
               thread[u].at = "run" /\ thread[u].of = thread[t].of =>
                   \/ thread[t].in + loop[thread[t].of].step <= thread[u].in
                   \/ thread[u].in + loop[thread[t].of].step <= thread[t].in

\* Thread t is running index i of c's loop.
Runs(t, c, i) ==
    /\ thread[t].at = "run" /\ thread[t].of = c
    /\ thread[t].in <= i /\ i < thread[t].in + loop[c].step

\* An index has run, once, when it is below the counter and nobody runs it.
Ran ==
    /\ DOMAIN ran = Callers
    /\ \A c \in Callers :
        /\ DOMAIN ran[c] = 0..(loop[c].total - 1)
        /\ \A i \in 0..(loop[c].total - 1) :
               ran[c][i] = IF i < frame[c].next /\ ~(\E t \in PoolThreads : Runs(t, c, i))
                           THEN 1 ELSE 0

TaskPoolInv == TaskPoolType /\ Outstanding /\ Exhausted /\ Apart /\ Ran

-----------------------------------------------------------------------------
(* Lemmas about the queue and the helpers. *)

\* The places of a caller in a queue are finitely many.
LEMMA WhereFinite ==
    ASSUME NEW s \in Seq(Callers), NEW c
    PROVE  IsFiniteSet(Where(s, c)) /\ Cardinality(Where(s, c)) \in Nat
<1>1. Len(s) \in Nat
    OBVIOUS
<1>2. IsFiniteSet(1..Len(s))
    BY <1>1, FS_Interval
<1>3. Where(s, c) \in SUBSET (1..Len(s))
    BY DEF Where
<1>4. IsFiniteSet(Where(s, c))
    BY <1>2, <1>3, FS_Subset
<1> QED
    BY <1>4, FS_CardinalityType

\* Taking the front of the queue takes one place from its caller.
LEMMA WhereTail ==
    ASSUME NEW s \in Seq(Callers), s # <<>>, NEW c
    PROVE  /\ Cardinality(Where(Tail(s), c)) =
                  Cardinality(Where(s, c)) - (IF Head(s) = c THEN 1 ELSE 0)
           /\ Head(s) = c => Cardinality(Where(s, c)) > 0
<1> DEFINE S == Where(s, c) \ {1}
           T == Where(Tail(s), c)
           f == [k \in T |-> k + 1]
<1>1. /\ Len(s) \in Nat /\ Len(s) > 0 /\ Tail(s) \in Seq(Callers) /\ Len(Tail(s)) = Len(s) - 1
      /\ \A k \in 1..Len(Tail(s)) : Tail(s)[k] = s[k + 1]
      /\ Head(s) = s[1]
    OBVIOUS
<1>2. T \subseteq Nat /\ S \subseteq Nat
    BY <1>1 DEF Where
<1>3. \A k \in T : k + 1 \in S
    BY <1>1 DEF Where
<1>4. \A k \in S : k - 1 \in T /\ (k - 1) + 1 = k
    BY <1>1 DEF Where
<1>5. f \in Injection(T, S)
    BY <1>2, <1>3 DEF Injection, IsInjective
<1>6. f \in Surjection(T, S)
    BY <1>3, <1>4 DEF Surjection
<1>7. ExistsBijection(T, S)
    BY <1>5, <1>6 DEF ExistsBijection, Bijection
<1>8. IsFiniteSet(T) /\ IsFiniteSet(Where(s, c)) /\ Cardinality(Where(s, c)) \in Nat
      /\ Cardinality(T) \in Nat
    BY <1>1, WhereFinite
<1>9. Cardinality(S) = Cardinality(T)
    BY <1>7, <1>8, FS_Bijection
<1>10. Cardinality(S) = IF 1 \in Where(s, c) THEN Cardinality(Where(s, c)) - 1
                                             ELSE Cardinality(Where(s, c))
    BY <1>8, FS_RemoveElement
<1>11. 1 \in Where(s, c) <=> Head(s) = c
    BY <1>1 DEF Where
<1> HIDE DEF S, T, f
<1>12. CASE Head(s) = c
    BY <1>8, <1>9, <1>10, <1>11, <1>12 DEF T
<1>13. CASE Head(s) # c
    BY <1>8, <1>9, <1>10, <1>11, <1>13 DEF T
<1> QED
    BY <1>12, <1>13

\* Queueing n helpers of d adds n places to d, none to the others.
LEMMA WhereAppend ==
    ASSUME NEW s \in Seq(Callers), NEW n \in Nat, NEW d \in Callers, NEW c
    PROVE  /\ s \o [i \in 1..n |-> d] \in Seq(Callers)
           /\ Cardinality(Where(s \o [i \in 1..n |-> d], c)) =
                  Cardinality(Where(s, c)) + (IF c = d THEN n ELSE 0)
<1> DEFINE r == s \o [i \in 1..n |-> d]
           A == (Len(s) + 1)..(Len(s) + n)
<1>1. /\ Len(s) \in Nat /\ [i \in 1..n |-> d] \in Seq(Callers) /\ Len([i \in 1..n |-> d]) = n
    OBVIOUS
<1>2. /\ r \in Seq(Callers) /\ Len(r) = Len(s) + n
      /\ \A k \in 1..Len(s) : r[k] = s[k]
      /\ \A k \in A : r[k] = d
    BY <1>1
<1>3. IsFiniteSet(Where(s, c)) /\ Cardinality(Where(s, c)) \in Nat
    BY WhereFinite
<1>4. CASE c # d
    <2>1. Where(r, c) = Where(s, c)
        BY <1>1, <1>2, <1>4 DEF Where
    <2> QED
        BY <1>2, <1>3, <1>4, <2>1
<1>5. CASE c = d
    <2>1. Where(r, c) = Where(s, c) \cup A /\ Where(s, c) \cap A = {}
        BY <1>1, <1>2, <1>5 DEF Where
    <2>2. IsFiniteSet(A) /\ Cardinality(A) = n
        <3>1. Len(s) + 1 \in Int /\ Len(s) + n \in Int
            BY <1>1
        <3>2. /\ IsFiniteSet(A)
              /\ Cardinality(A) = IF Len(s) + 1 > Len(s) + n THEN 0 ELSE (Len(s) + n) - (Len(s) + 1) + 1
            BY <3>1, FS_Interval
        <3> QED
            BY <1>1, <3>2
    <2>3. Cardinality(Where(r, c)) = Cardinality(Where(s, c)) + Cardinality(A) - Cardinality({})
        BY <1>3, <2>1, <2>2, FS_Union
    <2> QED
        BY <1>2, <1>3, <1>5, <2>2, <2>3, FS_EmptySet
<1> QED
    BY <1>4, <1>5

\* The helpers of a caller are finitely many.
LEMMA HelpingFinite ==
    ASSUME NEW c
    PROVE  /\ IsFiniteSet(Helping(c)) /\ Cardinality(Helping(c)) \in Nat
           /\ Cardinality(Helping(c)) = 0 => Helping(c) = {}
<1>1. IsFiniteSet(PoolThreads)
    BY TaskPoolAssumption, FS_Union DEF PoolThreads
<1>2. Helping(c) \in SUBSET PoolThreads
    BY DEF Helping
<1>3. IsFiniteSet(Helping(c))
    BY <1>1, <1>2, FS_Subset
<1> QED
    BY <1>3, FS_CardinalityType, FS_EmptySet

\* A thread that becomes or ceases to be a helper of c, and no other.
LEMMA HelpingStep ==
    ASSUME NEW c, NEW t \in PoolThreads,
           \A u \in PoolThreads \ {t} : thread'[u] = thread[u]
    PROVE  Cardinality(Helping(c)') =
               Cardinality(Helping(c) \ {t})
                 + (IF thread'[t].helps /\ thread'[t].of = c THEN 1 ELSE 0)
<1>1. IsFiniteSet(Helping(c) \ {t}) /\ Cardinality(Helping(c) \ {t}) \in Nat
    BY HelpingFinite, FS_RemoveElement, FS_CardinalityType
<1>2. CASE thread'[t].helps /\ thread'[t].of = c
    <2>1. Helping(c)' = (Helping(c) \ {t}) \cup {t} /\ t \notin Helping(c) \ {t}
        BY <1>2 DEF Helping
    <2>2. Cardinality(Helping(c)') = Cardinality(Helping(c) \ {t}) + 1
        BY <1>1, <2>1, FS_AddElement
    <2> QED
        BY <1>2, <2>2
<1>3. CASE ~(thread'[t].helps /\ thread'[t].of = c)
    <2>1. Helping(c)' = Helping(c) \ {t}
        BY <1>3 DEF Helping
    <2> QED
        BY <1>1, <1>3, <2>1
<1> QED
    BY <1>2, <1>3

\* A step in which nobody becomes or ceases to be a helper.
LEMMA HelpingSame ==
    ASSUME NEW c,
           \A u \in PoolThreads : /\ thread'[u].helps = thread[u].helps
                                  /\ thread[u].helps => thread'[u].of = thread[u].of
    PROVE  Helping(c)' = Helping(c)
BY DEF Helping

\* A step that starts and ends no chunk and moves no counter.
LEMMA RunSame ==
    ASSUME Apart, Ran, loop' = loop, ran' = ran,
           \A c \in Callers : frame'[c].next = frame[c].next,
           \A u \in PoolThreads : thread[u].at = "run" => thread[u].of \in Callers,
           \A u \in PoolThreads : /\ thread'[u].at = "run" <=> thread[u].at = "run"
                                  /\ thread[u].at = "run" => thread'[u] = thread[u]
    PROVE  Apart' /\ Ran'
<1>1. \A u \in PoolThreads : \A c, i : Runs(u, c, i)' <=> Runs(u, c, i)
    BY DEF Runs
<1>2. Apart'
    BY DEF Apart
<1>3. Ran'
    BY <1>1 DEF Ran
<1> QED
    BY <1>2, <1>3

\* A step that changes one thread.
LEMMA ThreadChange ==
    ASSUME thread \in [PoolThreads -> Thread], NEW t \in PoolThreads, NEW r \in Thread,
           thread' = [thread EXCEPT ![t] = r]
    PROVE  /\ thread' \in [PoolThreads -> Thread] /\ thread'[t] = r
           /\ \A u \in PoolThreads \ {t} : thread'[u] = thread[u]
OBVIOUS

\* The same for one frame.
LEMMA FrameChange ==
    ASSUME frame \in [Callers -> Frame], NEW c \in Callers, NEW r \in Frame,
           frame' = [frame EXCEPT ![c] = r]
    PROVE  /\ frame' \in [Callers -> Frame] /\ frame'[c] = r
           /\ \A d \in Callers \ {c} : frame'[d] = frame[d]
OBVIOUS

-----------------------------------------------------------------------------
(* The invariant is inductive. *)

\* The loop of a caller.
LEMMA LoopType ==
    ASSUME loop \in PoolLoops, NEW c \in Callers
    PROVE  loop[c].total \in Nat /\ loop[c].helpers \in Nat /\ loop[c].step \in Nat /\ loop[c].step > 0
BY TaskPoolAssumption

\* No frame is alive and nothing is queued at the start.
LEMMA TaskPoolInit == PoolInit => TaskPoolInv
<1> SUFFICES ASSUME PoolInit PROVE TaskPoolInv
    OBVIOUS
<1>1. loop \in PoolLoops /\ \A c \in Callers : loop[c].total \in Nat
    BY LoopType DEF PoolInit
<1>2. \A t \in PoolThreads : thread[t].at = "idle" /\ ~thread[t].helps /\ thread[t].of = 0
    BY DEF PoolInit, AtRest
<1>3. TaskPoolType
    <2>1. AtRest \in Thread
        BY DEF AtRest, Thread
    <2>2. thread \in [PoolThreads -> Thread]
        BY <2>1 DEF PoolInit
    <2>3. frame \in [Callers -> Frame] /\ tasks \in Seq(Callers)
        BY DEF PoolInit, Frame
    <2> QED
        BY <1>1, <1>2, <2>2, <2>3 DEF TaskPoolType, Active
<1>4. Outstanding
    <2> SUFFICES ASSUME NEW c \in Callers
                 PROVE  Cardinality(Where(tasks, c)) = 0 /\ Cardinality(Helping(c)) = 0
        BY <1>2 DEF Outstanding, PoolInit, PoolThreads
    <2>1. Where(tasks, c) = {}
        BY DEF PoolInit, Where
    <2>2. Helping(c) = {}
        BY <1>2 DEF Helping
    <2> QED
        BY <2>1, <2>2, FS_EmptySet
<1>5. Exhausted /\ Apart
    BY <1>2 DEF PoolInit, Exhausted, Apart, PoolThreads
<1>6. Ran
    BY <1>1, <1>2 DEF PoolInit, Ran, Runs
<1> QED
    BY <1>3, <1>4, <1>5, <1>6 DEF TaskPoolInv

\* What every step leaves alone, and the ranges of what it reads.
LEMMA PoolFixed ==
    ASSUME TaskPoolInv, [PoolNext]_poolVars
    PROVE  /\ loop' = loop /\ loop \in PoolLoops
           /\ Callers \subseteq PoolThreads /\ PoolWorkers \subseteq PoolThreads
           /\ \A w \in PoolWorkers : w \notin Callers
           /\ \A c \in Callers : loop[c].total \in Nat /\ loop[c].helpers \in Nat
                                 /\ loop[c].step \in Nat /\ loop[c].step > 0
<1>1. loop' = loop
    BY DEF PoolNext, PoolProgress, poolVars, ExecuteParallelTasks, FetchChunk, RunChunk, WorkerLoop,
           ExecuteOneTask, Take, LoopEnd, Return, StopPool, WorkerExit
<1> QED
    BY <1>1, LoopType, TaskPoolAssumption DEF TaskPoolInv, TaskPoolType, PoolThreads

\* Every step preserves the invariant.
LEMMA TaskPoolStep == TaskPoolInv /\ [PoolNext]_poolVars => TaskPoolInv'
<1> SUFFICES ASSUME TaskPoolInv, [PoolNext]_poolVars PROVE TaskPoolInv'
    OBVIOUS
<1>0. /\ loop' = loop
      /\ Callers \subseteq PoolThreads /\ PoolWorkers \subseteq PoolThreads
      /\ \A w \in PoolWorkers : w \notin Callers
      /\ \A c \in Callers : loop[c].total \in Nat /\ loop[c].helpers \in Nat
                            /\ loop[c].step \in Nat /\ loop[c].step > 0
    BY PoolFixed
<1> USE <1>0
<1>1. TaskPoolType /\ Outstanding /\ Exhausted /\ Apart /\ Ran
    BY DEF TaskPoolInv
<1>t. /\ tasks \in Seq(Callers) /\ loop \in PoolLoops
      /\ frame \in [Callers -> Frame] /\ thread \in [PoolThreads -> Thread]
    BY <1>1 DEF TaskPoolType
<1>2. \A u \in PoolThreads : thread[u].at = "run" => thread[u].of \in Callers
    BY <1>1 DEF TaskPoolType, Active
<1>3. ASSUME NEW c \in Callers, ExecuteParallelTasks(c) PROVE TaskPoolInv'
  <2>1. /\ thread' \in [PoolThreads -> Thread] /\ thread[c].at = "idle" /\ ~thread[c].helps
        /\ thread'[c].at = "loop" /\ thread'[c].of = c /\ ~thread'[c].helps
        /\ \A u \in PoolThreads \ {c} : thread'[u] = thread[u]
    <3> DEFINE r == [AtRest EXCEPT !.at = "loop", !.of = c]
    <3>1. r \in Thread /\ r.at = "loop" /\ r.of = c /\ ~r.helps
      BY DEF AtRest, Thread, Active
    <3>2. thread' = [thread EXCEPT ![c] = r] /\ thread[c].at = "idle"
      BY <1>3 DEF ExecuteParallelTasks
    <3> HIDE DEF r
    <3>3. ~thread[c].helps
      BY <1>1, <3>2 DEF TaskPoolType, Active
    <3> QED
      BY <1>t, <3>1, <3>2, <3>3, ThreadChange
  <2>2. /\ frame' \in [Callers -> Frame]
        /\ frame'[c].alive /\ frame'[c].next = 0 /\ frame'[c].remaining = loop[c].helpers
        /\ \A d \in Callers \ {c} : frame'[d] = frame[d]
        /\ ran' = ran
    BY <1>1, <1>3 DEF ExecuteParallelTasks, TaskPoolType, Frame
  <2>3. frame[c].next = 0 /\ frame[c].remaining = 0 /\ ~frame[c].alive
    BY <1>1, <2>1 DEF Exhausted, Outstanding
  <2>4. /\ tasks' \in Seq(Callers)
        /\ \A d : Cardinality(Where(tasks', d)) = Cardinality(Where(tasks, d)) + (IF d = c THEN loop[c].helpers ELSE 0)
    <3>1. tasks' = tasks \o [i \in 1..loop[c].helpers |-> c]
      BY <1>3 DEF ExecuteParallelTasks
    <3> DEFINE n == loop[c].helpers
    <3>2. n \in Nat
      OBVIOUS
    <3> HIDE DEF n
    <3>3. \A d : /\ tasks \o [i \in 1..n |-> c] \in Seq(Callers)
                 /\ Cardinality(Where(tasks \o [i \in 1..n |-> c], d)) =
                        Cardinality(Where(tasks, d)) + (IF d = c THEN n ELSE 0)
      BY <1>t, <3>2, WhereAppend
    <3> QED
      BY <3>1, <3>3 DEF n
  <2>5. TaskPoolType'
    <3>1. /\ \A u \in PoolThreads : thread'[u].at \in Active => thread'[u].of \in Callers
          /\ \A u \in PoolThreads : thread'[u].helps => thread'[u].at \in Active
      BY <1>1, <2>1 DEF TaskPoolType, Active
    <3>2. /\ \A u \in PoolThreads : ~thread'[u].helps /\ thread'[u].at \in Active => u \in Callers /\ thread'[u].of = u
          /\ \A u \in PoolThreads : thread'[u].at \in {"wait", "returned"} => u \in Callers
      BY <1>1, <2>1 DEF TaskPoolType, Active
    <3> QED
      BY <1>t, <2>1, <2>2, <2>4, <3>1, <3>2 DEF TaskPoolType
  <2>6. Outstanding'
    <3>1. \A d : Helping(d)' = Helping(d)
      BY <2>1 DEF Helping
    <3>2. \A d \in Callers : Cardinality(Where(tasks, d)) \in Nat /\ Cardinality(Helping(d)) \in Nat
      BY <1>1, WhereFinite, HelpingFinite DEF TaskPoolType
    <3>3. \A d \in Callers : frame'[d].remaining = Cardinality(Where(tasks', d)) + Cardinality(Helping(d)')
      <4> SUFFICES ASSUME NEW d \in Callers
                   PROVE  frame'[d].remaining = Cardinality(Where(tasks', d)) + Cardinality(Helping(d)')
        OBVIOUS
      <4>1. frame[d].remaining = Cardinality(Where(tasks, d)) + Cardinality(Helping(d))
        BY <1>1 DEF Outstanding
      <4>2. Cardinality(Helping(d)') = Cardinality(Helping(d))
        BY <3>1
      <4> QED
        BY <2>2, <2>3, <2>4, <3>2, <4>1, <4>2
    <3>4. \A d \in Callers : (frame'[d].alive <=> thread'[d].at \notin {"idle", "returned"})
                             /\ (~frame'[d].alive => frame'[d].remaining = 0)
      BY <1>1, <2>1, <2>2 DEF Outstanding
    <3> QED
      BY <3>3, <3>4 DEF Outstanding, Where
  <2>7. Exhausted'
    <3>1. \A t \in PoolThreads : thread[t].at = "looped" => thread[t].of # c \/ frame'[c].next >= loop[c].total
      BY <1>1, <2>1, <2>2, <2>3 DEF Exhausted
    <3>2. \A t \in PoolThreads : thread[t].at = "looped" => thread[t].of \in Callers
      BY <1>1 DEF TaskPoolType, Active
    <3>3. \A t \in PoolThreads : thread'[t].at = "looped" => frame'[thread'[t].of].next >= loop[thread'[t].of].total
      BY <1>1, <2>1, <2>2, <3>1, <3>2 DEF Exhausted
    <3>4. \A d \in Callers : /\ thread'[d].at \in {"wait", "returned"} \/ thread'[d].helps => frame'[d].next >= loop[d].total
                             /\ thread'[d].at = "idle" => frame'[d].next = 0
      BY <1>1, <2>1, <2>2 DEF Exhausted
    <3> QED
      BY <3>3, <3>4 DEF Exhausted
  <2>8. Apart' /\ Ran'
    BY <1>1, <1>2, <2>1, <2>2, <2>3, RunSame
  <2> QED
    BY <2>5, <2>6, <2>7, <2>8 DEF TaskPoolInv
<1>4. ASSUME NEW t \in PoolThreads, FetchChunk(t) PROVE TaskPoolInv'
  <2> DEFINE c == thread[t].of
  <2>1. c \in Callers /\ thread[t].at = "loop" /\ thread[t] \in Thread /\ frame[c] \in Frame
    BY <1>1, <1>4 DEF FetchChunk, TaskPoolType, Active
  <2>2. /\ thread' \in [PoolThreads -> Thread]
        /\ thread'[t].at = (IF frame[c].next < loop[c].total THEN "run" ELSE "looped")
        /\ thread'[t].of = c /\ thread'[t].in = frame[c].next /\ thread'[t].helps = thread[t].helps
        /\ \A u \in PoolThreads \ {t} : thread'[u] = thread[u]
    <3> DEFINE r == [thread[t] EXCEPT !.at = IF frame[c].next < loop[c].total THEN "run" ELSE "looped",
                                      !.in = frame[c].next]
    <3>1. /\ r.at = (IF frame[c].next < loop[c].total THEN "run" ELSE "looped")
          /\ r.of = c /\ r.in = frame[c].next /\ r.helps = thread[t].helps
      BY <2>1 DEF Thread
    <3>2. r \in Thread
      BY <2>1 DEF Thread, Frame, Active
    <3>3. thread' = [thread EXCEPT ![t] = r]
      BY <1>4 DEF FetchChunk
    <3> HIDE DEF r
    <3> QED
      BY <1>t, <3>1, <3>2, <3>3, ThreadChange
  <2>3. /\ frame' \in [Callers -> Frame]
        /\ frame'[c].alive = frame[c].alive /\ frame'[c].remaining = frame[c].remaining
        /\ frame[c].next \in Nat /\ frame'[c].next = frame[c].next + loop[c].step
        /\ \A d \in Callers \ {c} : frame'[d] = frame[d]
        /\ ran' = ran /\ tasks' = tasks
    <3> DEFINE r == [frame[c] EXCEPT !.next = @ + loop[c].step]
    <3>1. r \in Frame /\ r.alive = frame[c].alive /\ r.remaining = frame[c].remaining
          /\ frame[c].next \in Nat /\ r.next = frame[c].next + loop[c].step
      BY <2>1 DEF Frame
    <3>2. frame' = [frame EXCEPT ![c] = r] /\ ran' = ran /\ tasks' = tasks
      BY <1>4 DEF FetchChunk
    <3> HIDE DEF r
    <3> QED
      BY <1>t, <2>1, <3>1, <3>2, FrameChange
  <2> HIDE DEF c
  <2>4. TaskPoolType'
    <3>1. /\ \A u \in PoolThreads : thread'[u].at \in Active => thread'[u].of \in Callers
          /\ \A u \in PoolThreads : thread'[u].helps => thread'[u].at \in Active
      BY <1>1, <2>1, <2>2 DEF TaskPoolType, Active, c
    <3>2. /\ \A u \in PoolThreads : ~thread'[u].helps /\ thread'[u].at \in Active => u \in Callers /\ thread'[u].of = u
          /\ \A u \in PoolThreads : thread'[u].at \in {"wait", "returned"} => u \in Callers
      BY <1>1, <2>1, <2>2 DEF TaskPoolType, Active, c
    <3> QED
      BY <1>t, <2>2, <2>3, <3>1, <3>2 DEF TaskPoolType
  <2>5. Outstanding'
    <3>1. \A d : Helping(d)' = Helping(d)
      BY <1>1, <2>2, HelpingSame DEF TaskPoolType, c
    <3>2. \A d \in Callers : thread'[d].at \in {"idle", "returned"} <=> thread[d].at \in {"idle", "returned"}
      BY <2>1, <2>2
    <3>3. \A d \in Callers : frame'[d].alive = frame[d].alive /\ frame'[d].remaining = frame[d].remaining
      BY <2>3
    <3>4. \A d \in Callers : Cardinality(Helping(d)') = Cardinality(Helping(d))
      BY <3>1
    <3>5. \A d \in Callers : /\ frame'[d].remaining = Cardinality(Where(tasks', d)) + Cardinality(Helping(d)')
                             /\ frame'[d].alive <=> thread'[d].at \notin {"idle", "returned"}
                             /\ ~frame'[d].alive => frame'[d].remaining = 0
      BY <1>1, <2>3, <3>2, <3>3, <3>4 DEF Outstanding
    <3> QED
      BY <3>5 DEF Outstanding, Where
  <2>6. Exhausted'
    <3>1. \A d \in Callers : /\ frame'[d].next \in Nat /\ frame[d].next \in Nat /\ frame'[d].next >= frame[d].next
      <4>1. \A d \in Callers : frame[d].next \in Nat
        BY <1>t DEF Frame
      <4> QED
        BY <2>3, <4>1
    <3>2. \A d \in Callers : thread'[d].at = "idle" => frame'[d].next = 0
      <4>1. thread[c].at # "idle"
        <5>1. CASE thread[t].helps
          <6>1. t \in Helping(c)
            BY <5>1 DEF Helping, c
          <6>2. frame[c].remaining # 0
            BY <1>1, <1>t, <2>1, <6>1, HelpingFinite, WhereFinite DEF Outstanding
          <6> QED
            BY <1>1, <2>1, <6>2 DEF Outstanding
        <5>2. CASE ~thread[t].helps
          BY <1>1, <2>1, <5>2 DEF TaskPoolType, Active, c
        <5> QED
          BY <5>1, <5>2
      <4> QED
        BY <1>1, <2>1, <2>2, <2>3, <4>1 DEF Exhausted
    <3>3. \A d \in Callers : thread'[d].at \in {"wait", "returned"} \/ thread'[d].helps => frame'[d].next >= loop[d].total
      BY <1>1, <2>1, <2>2, <3>1 DEF Exhausted
    <3>4. \A u \in PoolThreads : thread'[u].at = "looped" => frame'[thread'[u].of].next >= loop[thread'[u].of].total
      <4>1. \A u \in PoolThreads : thread[u].at = "looped" => thread[u].of \in Callers
        BY <1>1 DEF TaskPoolType, Active
      <4>2. CASE frame[c].next < loop[c].total
        BY <1>1, <2>1, <2>2, <3>1, <4>1, <4>2 DEF Exhausted
      <4>3. CASE ~(frame[c].next < loop[c].total)
        BY <1>1, <2>1, <2>2, <3>1, <4>1, <4>3 DEF Exhausted
      <4> QED
        BY <4>2, <4>3
    <3> QED
      BY <3>2, <3>3, <3>4 DEF Exhausted
  <2>7. Apart'
    <3>1. \A u \in PoolThreads : thread[u].in \in Nat
      BY <1>t DEF Thread
    <3>2. \A u \in PoolThreads : thread[u].at = "run" =>
              thread[u].in + loop[thread[u].of].step <= frame[thread[u].of].next
      BY <1>1 DEF Apart
    <3>3. \A d \in Callers : frame[d].next \in Nat /\ frame'[d].next \in Nat /\ frame'[d].next >= frame[d].next
      <4>1. \A d \in Callers : frame[d].next \in Nat
        BY <1>t DEF Frame
      <4> QED
        BY <2>3, <4>1
    <3>4. \A u \in PoolThreads : thread'[u].at = "run" =>
              /\ thread'[u].of \in Callers /\ thread'[u].in \in Nat
              /\ thread'[u].in + loop[thread'[u].of].step <= frame'[thread'[u].of].next
      <4>1. ASSUME NEW u \in PoolThreads, u # t, thread[u].at = "run"
            PROVE  /\ thread[u].of \in Callers /\ thread[u].in \in Nat
                   /\ thread[u].in + loop[thread[u].of].step <= frame'[thread[u].of].next
        BY <1>2, <3>1, <3>2, <3>3, <4>1
      <4> QED
        BY <2>1, <2>2, <2>3, <4>1
    <3>5. ASSUME NEW u \in PoolThreads, NEW v \in PoolThreads \ {u},
                 thread'[u].at = "run", thread'[v].at = "run", thread'[v].of = thread'[u].of
          PROVE  \/ thread'[u].in + loop[thread'[u].of].step <= thread'[v].in
                 \/ thread'[v].in + loop[thread'[u].of].step <= thread'[u].in
      <4>1. CASE u # t /\ v # t
        BY <1>1, <2>2, <3>5, <4>1 DEF Apart
      <4>2. CASE u = t
        BY <2>1, <2>2, <2>3, <3>2, <3>5, <4>2
      <4>3. CASE v = t
        BY <2>1, <2>2, <2>3, <3>2, <3>5, <4>3
      <4> QED
        BY <4>1, <4>2, <4>3
    <3> QED
      BY <3>4, <3>5 DEF Apart
  <2>8. Ran'
    <3> SUFFICES ASSUME NEW d \in Callers, NEW i \in 0..(loop[d].total - 1)
                 PROVE  ran[d][i] = IF i < frame'[d].next /\ ~(\E u \in PoolThreads : Runs(u, d, i)')
                                    THEN 1 ELSE 0
      BY <1>1, <2>3 DEF Ran
    <3>1. ran[d][i] = IF i < frame[d].next /\ ~(\E u \in PoolThreads : Runs(u, d, i)) THEN 1 ELSE 0
      BY <1>1 DEF Ran
    <3>2. \A u \in PoolThreads \ {t} : Runs(u, d, i)' <=> Runs(u, d, i)
      BY <2>2 DEF Runs
    <3>3. ~Runs(t, d, i)
      BY <2>1 DEF Runs
    <3>4. CASE d # c
      BY <2>2, <2>3, <3>1, <3>2, <3>3, <3>4 DEF Runs
    <3>5. CASE d = c /\ i < frame[c].next
      <4>1. ~Runs(t, d, i)'
        BY <2>2, <2>3, <3>5 DEF Runs
      <4>2. i < frame'[c].next
        BY <2>3, <3>5
      <4> QED
        BY <3>1, <3>2, <3>3, <3>5, <4>1, <4>2
    <3>6. CASE d = c /\ ~(i < frame[c].next)
      <4>1. i < frame'[c].next => Runs(t, d, i)'
        BY <2>1, <2>2, <2>3, <3>6 DEF Runs
      <4> QED
        BY <3>1, <3>6, <4>1
    <3> QED
      BY <3>4, <3>5, <3>6
  <2> QED
    BY <2>4, <2>5, <2>6, <2>7, <2>8 DEF TaskPoolInv
<1>5. ASSUME NEW t \in PoolThreads, RunChunk(t) PROVE TaskPoolInv'
  <2> DEFINE c == thread[t].of
             b == thread[t].in
  <2>1. c \in Callers /\ thread[t].at = "run" /\ b \in Nat /\ thread[t] \in Thread
    BY <1>1, <1>5 DEF RunChunk, TaskPoolType, Active, Thread
  <2>2. /\ thread' \in [PoolThreads -> Thread]
        /\ thread'[t].at = "loop"
        /\ thread'[t].of = c /\ thread'[t].helps = thread[t].helps
        /\ \A u \in PoolThreads \ {t} : thread'[u] = thread[u]
        /\ frame' = frame /\ tasks' = tasks
    <3> DEFINE r == [thread[t] EXCEPT !.at = "loop"]
    <3>1. r \in Thread /\ r.at = "loop" /\ r.of = c /\ r.helps = thread[t].helps
      BY <2>1 DEF Thread, Active
    <3>2. thread' = [thread EXCEPT ![t] = r] /\ frame' = frame /\ tasks' = tasks
      BY <1>5 DEF RunChunk
    <3> HIDE DEF r
    <3> QED
      BY <1>t, <3>1, <3>2, ThreadChange
  <2> HIDE DEF c, b
  <2>3. TaskPoolType'
    BY <1>1, <2>1, <2>2 DEF TaskPoolType, Active, c
  <2>4. Outstanding'
    <3>1. \A d : Helping(d)' = Helping(d)
      BY <1>1, <2>2, HelpingSame DEF TaskPoolType, c
    <3>2. \A d \in Callers : thread'[d].at \in {"idle", "returned"} <=> thread[d].at \in {"idle", "returned"}
      BY <2>1, <2>2
    <3> QED
      BY <1>1, <2>2, <3>1, <3>2 DEF Outstanding, Where
  <2>5. Exhausted'
    BY <1>1, <2>1, <2>2 DEF Exhausted
  <2>6. Apart'
    BY <1>1, <2>1, <2>2 DEF Apart
  <2>7. Ran'
    <3>1. /\ DOMAIN ran' = Callers
          /\ \A d \in Callers : DOMAIN ran'[d] = 0..(loop[d].total - 1)
          /\ \A d \in Callers \ {c} : ran'[d] = ran[d]
          /\ \A i \in 0..(loop[c].total - 1) :
                 ran'[c][i] = IF i \in b..(b + loop[c].step - 1) THEN ran[c][i] + 1 ELSE ran[c][i]
      BY <1>1, <1>5, <2>1 DEF RunChunk, Ran, c, b
    <3> SUFFICES ASSUME NEW d \in Callers, NEW i \in 0..(loop[d].total - 1)
                 PROVE  ran'[d][i] = IF i < frame[d].next /\ ~(\E u \in PoolThreads : Runs(u, d, i)')
                                     THEN 1 ELSE 0
      BY <2>2, <3>1 DEF Ran
    <3>2. ran[d][i] = IF i < frame[d].next /\ ~(\E u \in PoolThreads : Runs(u, d, i)) THEN 1 ELSE 0
      BY <1>1 DEF Ran
    <3>3. \A u \in PoolThreads \ {t} : Runs(u, d, i)' <=> Runs(u, d, i)
      BY <2>2 DEF Runs
    <3>4. ~Runs(t, d, i)'
      BY <2>2 DEF Runs
    <3>5. Runs(t, d, i) <=> d = c /\ i \in b..(b + loop[c].step - 1)
      BY <2>1 DEF Runs, c, b
    <3>6. CASE Runs(t, d, i)
      <4>1. i < frame[d].next
        <5>1. b + loop[c].step <= frame[c].next /\ frame[c].next \in Nat
          BY <1>1, <1>t, <2>1 DEF Apart, Frame, c, b
        <5> QED
          BY <2>1, <3>5, <3>6, <5>1
      <4>2. \A u \in PoolThreads \ {t} : ~Runs(u, d, i)
        <5>1. \A u \in PoolThreads : thread[u].in \in Nat
          BY <1>t DEF Thread
        <5>2. \A u \in PoolThreads \ {t} : thread[u].at = "run" /\ thread[u].of = c =>
                  b + loop[c].step <= thread[u].in \/ thread[u].in + loop[c].step <= b
          BY <1>1, <2>1 DEF Apart, c, b
        <5> QED
          BY <2>1, <3>5, <3>6, <5>1, <5>2 DEF Runs
      <4>3. ran[d][i] = 0
        BY <3>2, <3>6
      <4> QED
        BY <3>1, <3>3, <3>4, <3>5, <3>6, <4>1, <4>2, <4>3
    <3>7. CASE ~Runs(t, d, i)
      <4>1. ran'[d][i] = ran[d][i]
        BY <3>1, <3>5, <3>7
      <4> QED
        BY <3>2, <3>3, <3>4, <3>7, <4>1
    <3> QED
      BY <3>6, <3>7
  <2> QED
    BY <2>3, <2>4, <2>5, <2>6, <2>7 DEF TaskPoolInv
<1>6. ASSUME NEW t \in PoolThreads, Take(t),
             (thread[t].at = "idle" /\ t \in PoolWorkers) \/ (thread[t].at = "wait" /\ t \in Callers)
      PROVE  TaskPoolInv'
  <2> DEFINE c == Head(tasks)
  <2>1. c \in Callers /\ tasks # <<>> /\ tasks \in Seq(Callers) /\ tasks' = Tail(tasks)
        /\ tasks' \in Seq(Callers)
    BY <1>1, <1>6 DEF Take, TaskPoolType
  <2>2. /\ thread' \in [PoolThreads -> Thread] /\ ~thread[t].helps
        /\ thread'[t].at = (IF frame[c].next < loop[c].total THEN "loop" ELSE "looped")
        /\ thread'[t].of = c /\ thread'[t].helps
        /\ \A u \in PoolThreads \ {t} : thread'[u] = thread[u]
        /\ frame' = frame /\ ran' = ran
    <3> DEFINE r == [at |-> IF frame[c].next < loop[c].total THEN "loop" ELSE "looped",
                     of |-> c, in |-> 0, helps |-> TRUE]
    <3>1. /\ r \in Thread /\ r.of = c /\ r.helps
          /\ r.at = (IF frame[c].next < loop[c].total THEN "loop" ELSE "looped")
      BY <2>1 DEF Thread, Active
    <3>2. thread' = [thread EXCEPT ![t] = r] /\ frame' = frame /\ ran' = ran
      BY <1>6 DEF Take
    <3> HIDE DEF r
    <3>3. ~thread[t].helps
      BY <1>1, <1>6 DEF TaskPoolType, Active
    <3> QED
      BY <1>t, <3>1, <3>2, <3>3, ThreadChange
  <2> HIDE DEF c
  <2>3. TaskPoolType'
    BY <1>1, <2>1, <2>2 DEF TaskPoolType, Active
  <2>4. Outstanding'
    <3>1. \A d : Cardinality(Where(tasks', d)) = Cardinality(Where(tasks, d)) - (IF c = d THEN 1 ELSE 0)
      BY <2>1, WhereTail DEF c
    <3>2. \A d : Cardinality(Helping(d)') = Cardinality(Helping(d)) + (IF c = d THEN 1 ELSE 0)
      <4>1. \A d : Helping(d) \ {t} = Helping(d)
        BY <2>2 DEF Helping
      <4> QED
        BY <2>2, <4>1, HelpingStep
    <3>3. \A d : Cardinality(Where(tasks, d)) \in Nat /\ Cardinality(Helping(d)) \in Nat
      BY <2>1, WhereFinite, HelpingFinite
    <3>4. \A d \in Callers : frame[d].remaining = Cardinality(Where(tasks', d)) + Cardinality(Helping(d)')
      BY <1>1, <3>1, <3>2, <3>3 DEF Outstanding
    <3>5. \A d \in Callers : thread'[d].at \in {"idle", "returned"} <=> thread[d].at \in {"idle", "returned"}
      BY <1>6, <2>2
    <3> QED
      BY <1>1, <2>2, <3>4, <3>5 DEF Outstanding, Where
  <2>5. Exhausted'
    <3>1. frame[c].next \in Nat
      BY <1>1, <2>1 DEF TaskPoolType, Frame
    <3>2. t \in Callers => frame[t].next >= loop[t].total
      BY <1>1, <1>6 DEF Exhausted
    <3>3. thread'[t].at = "looped" => frame[c].next >= loop[c].total
      BY <2>1, <2>2, <3>1
    <3>4. thread'[t].at \notin {"idle", "wait", "returned"}
      BY <2>2
    <3>5. \A u \in PoolThreads : thread'[u].at = "looped" => frame[thread'[u].of].next >= loop[thread'[u].of].total
      BY <1>1, <2>2, <3>3 DEF Exhausted
    <3>6. \A d \in Callers : /\ thread'[d].at \in {"wait", "returned"} \/ thread'[d].helps => frame[d].next >= loop[d].total
                             /\ thread'[d].at = "idle" => frame[d].next = 0
      BY <1>1, <2>2, <3>2, <3>4 DEF Exhausted
    <3> QED
      BY <2>2, <3>5, <3>6 DEF Exhausted
  <2>6. Apart' /\ Ran'
    BY <1>1, <1>2, <1>6, <2>2, RunSame
  <2> QED
    BY <2>3, <2>4, <2>5, <2>6 DEF TaskPoolInv
<1>7. ASSUME NEW t \in PoolThreads, LoopEnd(t) PROVE TaskPoolInv'
  <2> DEFINE c == thread[t].of
  <2>1. c \in Callers /\ thread[t].at = "looped" /\ thread[t] \in Thread /\ frame[c] \in Frame
    BY <1>1, <1>7 DEF LoopEnd, TaskPoolType, Active
  <2>2. /\ thread' \in [PoolThreads -> Thread]
        /\ thread'[t].at = (IF t \in Callers THEN "wait" ELSE "idle")
        /\ ~thread'[t].helps
        /\ \A u \in PoolThreads \ {t} : thread'[u] = thread[u]
        /\ ran' = ran /\ tasks' = tasks
    <3> DEFINE r == IF t \in Callers THEN [AtRest EXCEPT !.at = "wait", !.of = t] ELSE AtRest
    <3>1. r \in Thread /\ r.at = (IF t \in Callers THEN "wait" ELSE "idle") /\ ~r.helps
      BY DEF Thread, AtRest, Active
    <3>2. thread' = [thread EXCEPT ![t] = r] /\ ran' = ran /\ tasks' = tasks
      BY <1>7 DEF LoopEnd
    <3> HIDE DEF r
    <3> QED
      BY <1>t, <3>1, <3>2, ThreadChange
  <2>3. thread[t].helps => t \in Helping(c) /\ frame[c].remaining > 0 /\ frame[c].remaining \in Nat
    <3>1. SUFFICES ASSUME thread[t].helps PROVE t \in Helping(c) /\ frame[c].remaining > 0 /\ frame[c].remaining \in Nat
      OBVIOUS
    <3>2. t \in Helping(c)
      BY <3>1 DEF Helping
    <3>3. Cardinality(Helping(c)) \in Nat /\ Cardinality(Helping(c)) # 0
      BY <3>2, HelpingFinite
    <3> QED
      BY <1>1, <2>1, <3>2, <3>3, WhereFinite DEF Outstanding, TaskPoolType, Frame
  <2>4. /\ frame' \in [Callers -> Frame]
        /\ frame'[c].remaining = frame[c].remaining - (IF thread[t].helps THEN 1 ELSE 0)
        /\ \A d \in Callers : frame'[d].alive = frame[d].alive /\ frame'[d].next = frame[d].next
        /\ \A d \in Callers \ {c} : frame'[d] = frame[d]
    <3>1. CASE thread[t].helps
      <4> DEFINE r == [frame[c] EXCEPT !.remaining = @ - 1]
      <4>1. /\ r \in Frame /\ r.remaining = frame[c].remaining - 1
            /\ r.alive = frame[c].alive /\ r.next = frame[c].next
        BY <2>1, <2>3, <3>1 DEF Frame
      <4>2. frame' = [frame EXCEPT ![c] = r]
        BY <1>7, <3>1 DEF LoopEnd
      <4> HIDE DEF r
      <4>3. /\ frame' \in [Callers -> Frame] /\ frame'[c] = r
            /\ \A d \in Callers \ {c} : frame'[d] = frame[d]
        BY <1>t, <2>1, <4>1, <4>2, FrameChange
      <4> QED
        BY <2>1, <3>1, <4>1, <4>3
    <3>2. CASE ~thread[t].helps
      <4>1. frame' = frame
        BY <1>7, <3>2 DEF LoopEnd
      <4> QED
        BY <1>t, <2>1, <3>2, <4>1 DEF Frame
    <3> QED
      BY <3>1, <3>2
  <2> HIDE DEF c
  <2>5. TaskPoolType'
    BY <1>1, <2>1, <2>2, <2>4 DEF TaskPoolType, Active
  <2>6. Outstanding'
    <3>1. \A d : Cardinality(Helping(d)') = Cardinality(Helping(d)) - (IF thread[t].helps /\ c = d THEN 1 ELSE 0)
      <4>1. \A d : Cardinality(Helping(d)') = Cardinality(Helping(d) \ {t}) + 0
        BY <2>2, HelpingStep
      <4>2. \A d : t \in Helping(d) <=> thread[t].helps /\ c = d
        BY DEF Helping, c
      <4>3. \A d : IsFiniteSet(Helping(d)) /\ Cardinality(Helping(d)) \in Nat
        BY HelpingFinite
      <4>4. \A d : Cardinality(Helping(d) \ {t}) =
                     IF t \in Helping(d) THEN Cardinality(Helping(d)) - 1 ELSE Cardinality(Helping(d))
        BY <4>3, FS_RemoveElement
      <4>5. SUFFICES ASSUME NEW d
                     PROVE  Cardinality(Helping(d)') = Cardinality(Helping(d)) - (IF thread[t].helps /\ c = d THEN 1 ELSE 0)
        OBVIOUS
      <4>6. CASE t \in Helping(d)
        <5>1. Cardinality(Helping(d)') = Cardinality(Helping(d)) - 1 + 0
          BY <4>1, <4>4, <4>6
        <5> QED
          BY <4>2, <4>3, <4>6, <5>1
      <4>7. CASE t \notin Helping(d)
        BY <4>1, <4>2, <4>3, <4>4, <4>7
      <4> QED
        BY <4>6, <4>7
    <3>2. \A d : Cardinality(Where(tasks, d)) \in Nat /\ Cardinality(Helping(d)) \in Nat
      BY <1>1, WhereFinite, HelpingFinite DEF TaskPoolType
    <3>3. \A d \in Callers : frame'[d].remaining = Cardinality(Where(tasks, d)) + Cardinality(Helping(d)')
      BY <1>1, <2>1, <2>4, <3>1, <3>2 DEF Outstanding
    <3>4. \A d \in Callers : /\ thread'[d].at \in {"idle", "returned"} <=> thread[d].at \in {"idle", "returned"}
      BY <2>1, <2>2
    <3>5. \A d \in Callers : ~frame[d].alive => frame'[d].remaining = 0
      BY <1>1, <2>1, <2>3, <2>4 DEF Outstanding
    <3> QED
      BY <1>1, <2>2, <2>4, <3>3, <3>4, <3>5 DEF Outstanding, Where
  <2>7. Exhausted'
    <3>1. \A u \in PoolThreads : thread[u].at = "looped" => thread[u].of \in Callers
      BY <1>1 DEF TaskPoolType, Active
    <3>2. t \in Callers => frame[t].next >= loop[t].total
      <4>1. CASE thread[t].helps
        BY <1>1, <4>1 DEF Exhausted
      <4>2. CASE ~thread[t].helps
        BY <1>1, <2>1, <4>2 DEF Exhausted, TaskPoolType, Active
      <4> QED
        BY <4>1, <4>2
    <3>3. \A u \in PoolThreads : thread'[u].at = "looped" => frame'[thread'[u].of].next >= loop[thread'[u].of].total
      BY <1>1, <2>2, <2>4, <3>1 DEF Exhausted
    <3>4. \A d \in Callers : /\ thread'[d].at \in {"wait", "returned"} \/ thread'[d].helps => frame'[d].next >= loop[d].total
                             /\ thread'[d].at = "idle" => frame'[d].next = 0
      BY <1>1, <2>2, <2>4, <3>2 DEF Exhausted
    <3> QED
      BY <3>3, <3>4 DEF Exhausted
  <2>8. Apart' /\ Ran'
    BY <1>1, <1>2, <2>1, <2>2, <2>4, RunSame
  <2> QED
    BY <2>5, <2>6, <2>7, <2>8 DEF TaskPoolInv
<1>8. ASSUME NEW c \in Callers, Return(c) PROVE TaskPoolInv'
  <2>1. /\ thread' \in [PoolThreads -> Thread] /\ thread[c].at = "wait"
        /\ thread'[c].at = "returned" /\ thread'[c].of = thread[c].of /\ thread'[c].helps = thread[c].helps
        /\ \A u \in PoolThreads \ {c} : thread'[u] = thread[u]
    <3> DEFINE r == [thread[c] EXCEPT !.at = "returned"]
    <3>1. r \in Thread /\ r.at = "returned" /\ r.of = thread[c].of /\ r.helps = thread[c].helps
      BY <1>t DEF Thread
    <3>2. thread' = [thread EXCEPT ![c] = r] /\ thread[c].at = "wait"
      BY <1>8 DEF Return
    <3> HIDE DEF r
    <3> QED
      BY <1>t, <3>1, <3>2, ThreadChange
  <2>2. /\ frame' \in [Callers -> Frame]
        /\ ~frame'[c].alive /\ frame'[c].next = frame[c].next /\ frame'[c].remaining = 0
        /\ frame[c].remaining = 0
        /\ \A d \in Callers \ {c} : frame'[d] = frame[d]
        /\ ran' = ran /\ tasks' = tasks
    <3> DEFINE r == [frame[c] EXCEPT !.alive = FALSE]
    <3>1. frame[c].remaining = 0
      BY <1>8 DEF Return
    <3>2. r \in Frame /\ ~r.alive /\ r.next = frame[c].next /\ r.remaining = 0
      BY <1>t, <3>1 DEF Frame
    <3>3. frame' = [frame EXCEPT ![c] = r] /\ ran' = ran /\ tasks' = tasks
      BY <1>8 DEF Return
    <3> HIDE DEF r
    <3> QED
      BY <1>t, <3>1, <3>2, <3>3, FrameChange
  <2>3. TaskPoolType'
    BY <1>1, <2>1, <2>2 DEF TaskPoolType, Active
  <2>4. Outstanding'
    <3>1. \A d : Helping(d)' = Helping(d)
      BY <2>1, HelpingSame
    <3>2. \A d \in Callers : Cardinality(Helping(d)') = Cardinality(Helping(d))
      BY <3>1
    <3>3. \A d \in Callers : /\ frame'[d].remaining = Cardinality(Where(tasks', d)) + Cardinality(Helping(d)')
                             /\ frame'[d].alive <=> thread'[d].at \notin {"idle", "returned"}
                             /\ ~frame'[d].alive => frame'[d].remaining = 0
      BY <1>1, <2>1, <2>2, <3>2 DEF Outstanding
    <3> QED
      BY <3>3 DEF Outstanding, Where
  <2>5. Exhausted'
    <3>1. \A u \in PoolThreads : thread[u].at = "looped" => thread[u].of \in Callers
      BY <1>1 DEF TaskPoolType, Active
    <3>2. \A d \in Callers : frame'[d].next = frame[d].next
      BY <2>2
    <3>3. \A u \in PoolThreads : thread'[u].at = "looped" => frame'[thread'[u].of].next >= loop[thread'[u].of].total
      BY <1>1, <2>1, <3>1, <3>2 DEF Exhausted
    <3>4. \A d \in Callers : /\ thread'[d].at \in {"wait", "returned"} \/ thread'[d].helps => frame'[d].next >= loop[d].total
                             /\ thread'[d].at = "idle" => frame'[d].next = 0
      BY <1>1, <2>1, <3>2 DEF Exhausted
    <3> QED
      BY <3>3, <3>4 DEF Exhausted
  <2>6. Apart' /\ Ran'
    BY <1>1, <1>2, <2>1, <2>2, RunSame
  <2> QED
    BY <2>3, <2>4, <2>5, <2>6 DEF TaskPoolInv
<1>9. ASSUME NEW w \in PoolWorkers, WorkerExit(w) PROVE TaskPoolInv'
  <2>1. /\ thread' \in [PoolThreads -> Thread] /\ thread[w].at = "idle"
        /\ thread'[w].at = "exited" /\ thread'[w].of = thread[w].of /\ thread'[w].helps = thread[w].helps
        /\ \A u \in PoolThreads \ {w} : thread'[u] = thread[u]
        /\ frame' = frame /\ ran' = ran /\ tasks' = tasks
    BY <1>1, <1>9 DEF WorkerExit, TaskPoolType, Thread
  <2>2. TaskPoolType'
    BY <1>1, <2>1 DEF TaskPoolType, Active
  <2>3. Outstanding'
    <3>1. \A d : Helping(d)' = Helping(d)
      BY <2>1, HelpingSame
    <3>2. \A d \in Callers : thread'[d] = thread[d]
      BY <2>1
    <3> QED
      BY <1>1, <2>1, <3>1, <3>2 DEF Outstanding, Where
  <2>4. Exhausted'
    BY <1>1, <2>1 DEF Exhausted, TaskPoolType, Active
  <2>5. Apart' /\ Ran'
    BY <1>1, <1>2, <2>1, RunSame
  <2> QED
    BY <2>2, <2>3, <2>4, <2>5 DEF TaskPoolInv
<1>10. ASSUME StopPool \/ UNCHANGED poolVars PROVE TaskPoolInv'
  <2>1. tasks' = tasks /\ frame' = frame /\ thread' = thread /\ ran' = ran
    BY <1>10 DEF StopPool, poolVars
  <2>2. TaskPoolType'
    BY <1>1, <1>t, <2>1 DEF TaskPoolType
  <2>3. Outstanding'
    <3>1. \A d : Helping(d)' = Helping(d)
      BY <2>1 DEF Helping
    <3> QED
      BY <1>1, <2>1, <3>1 DEF Outstanding, Where
  <2>4. Exhausted'
    BY <1>1, <2>1 DEF Exhausted
  <2>5. Apart' /\ Ran'
    BY <1>1, <1>2, <2>1, RunSame
  <2> QED
    BY <2>2, <2>3, <2>4, <2>5 DEF TaskPoolInv
<1>11. ASSUME NEW w \in PoolWorkers, WorkerLoop(w) PROVE TaskPoolInv'
  <2>1. Take(w) /\ thread[w].at = "idle" /\ w \in PoolThreads
    BY <1>11 DEF WorkerLoop
  <2>2. (thread[w].at = "idle" /\ w \in PoolWorkers) \/ (thread[w].at = "wait" /\ w \in Callers)
    BY <1>11, <2>1
  <2> QED
    BY <1>6, <2>1, <2>2
<1>12. ASSUME NEW c \in Callers, ExecuteOneTask(c) PROVE TaskPoolInv'
  <2>1. Take(c) /\ thread[c].at = "wait" /\ c \in PoolThreads
    BY <1>12 DEF ExecuteOneTask
  <2> QED
    BY <1>6, <2>1
<1> QED
  BY <1>3, <1>4, <1>5, <1>7, <1>8, <1>9, <1>10, <1>11, <1>12 DEF PoolNext, PoolProgress

\* The invariant holds throughout.
LEMMA TaskPoolAlways == PoolSpec => []TaskPoolInv
BY TaskPoolInit, TaskPoolStep, PTL DEF PoolSpec

\* Nobody touches a frame that is gone, no index runs twice, and all have run
\* when the caller returns: for every pool and every loop.
THEOREM FramesAliveInvariant == PoolSpec => []FramesAlive
<1>1. TaskPoolInv => FramesAlive
  <2> SUFFICES ASSUME TaskPoolInv PROVE FramesAlive
    OBVIOUS
  <2>1. TaskPoolType /\ Outstanding /\ Exhausted /\ Ran
    BY DEF TaskPoolInv
  <2>2. \A c \in Callers : ~frame[c].alive => Where(tasks, c) = {} /\ Helping(c) = {}
    <3> SUFFICES ASSUME NEW c \in Callers, ~frame[c].alive PROVE Where(tasks, c) = {} /\ Helping(c) = {}
      OBVIOUS
    <3>1. Cardinality(Where(tasks, c)) \in Nat /\ Cardinality(Helping(c)) \in Nat
      BY <2>1, WhereFinite, HelpingFinite DEF TaskPoolType
    <3>2. Cardinality(Where(tasks, c)) = 0 /\ Cardinality(Helping(c)) = 0
      BY <2>1, <3>1 DEF Outstanding
    <3> QED
      BY <2>1, <3>2, WhereFinite, HelpingFinite, FS_EmptySet DEF TaskPoolType
  <2>3. \A k \in 1..Len(tasks) : frame[tasks[k]].alive
    BY <2>1, <2>2 DEF Where, TaskPoolType
  <2>4. \A t \in PoolThreads : thread[t].at \in Active => frame[thread[t].of].alive
    BY <2>1, <2>2 DEF Outstanding, Helping, TaskPoolType, Active
  <2>5. \A c \in Callers : \A i \in DOMAIN ran[c] :
           IF thread[c].at = "returned" THEN ran[c][i] = 1 ELSE ran[c][i] <= 1
    <3> SUFFICES ASSUME NEW c \in Callers, NEW i \in 0..(loop[c].total - 1)
                 PROVE  IF thread[c].at = "returned" THEN ran[c][i] = 1 ELSE ran[c][i] <= 1
      BY <2>1 DEF Ran
    <3>1. ran[c][i] = IF i < frame[c].next /\ ~(\E t \in PoolThreads : Runs(t, c, i)) THEN 1 ELSE 0
      BY <2>1 DEF Ran
    <3>2. thread[c].at = "returned" => ~frame[c].alive /\ i < frame[c].next
      BY <2>1, LoopType DEF Outstanding, Exhausted, TaskPoolType, Frame
    <3>3. \A t \in PoolThreads : Runs(t, c, i) => frame[c].alive
      BY <2>4 DEF Runs, Active
    <3>4. CASE thread[c].at = "returned"
      BY <3>1, <3>2, <3>3, <3>4
    <3>5. CASE thread[c].at # "returned"
      BY <3>1, <3>5
    <3> QED
      BY <3>4, <3>5
  <2> QED
    BY <2>3, <2>4, <2>5 DEF FramesAlive, Active
<1> QED
  BY <1>1, TaskPoolAlways, PTL

\* A loop that has returned is over for good: its counters stay as they are and
\* none of its indices runs again.
THEOREM ReturnedStays ==
    PoolSpec => [][\A c \in Callers : thread[c].at = "returned" =>
                       frame'[c] = frame[c] /\ ran'[c] = ran[c]]_poolVars
<1>1. TaskPoolInv /\ FramesAlive /\ [PoolNext]_poolVars =>
          [\A c \in Callers : thread[c].at = "returned" => frame'[c] = frame[c] /\ ran'[c] = ran[c]]_poolVars
  <2> SUFFICES ASSUME TaskPoolInv, FramesAlive, PoolNext, NEW c \in Callers, thread[c].at = "returned"
               PROVE  frame'[c] = frame[c] /\ ran'[c] = ran[c]
    OBVIOUS
  <2>1. TaskPoolType /\ Outstanding /\ Ran
    BY DEF TaskPoolInv
  <2>2. ~frame[c].alive
    BY <2>1 DEF Outstanding
  <2>3. \A t \in PoolThreads : thread[t].at \in Active => thread[t].of # c /\ thread[t].of \in Callers
    BY <2>1, <2>2 DEF FramesAlive, Active, TaskPoolType
  <2>4. CASE \E t \in PoolThreads : FetchChunk(t) \/ RunChunk(t) \/ LoopEnd(t)
    BY <2>1, <2>3, <2>4 DEF FetchChunk, RunChunk, LoopEnd, Active, TaskPoolType, Ran
  <2>5. CASE \E w \in PoolWorkers : WorkerLoop(w) \/ WorkerExit(w)
    BY <2>5 DEF WorkerLoop, WorkerExit, Take
  <2>6. CASE \E d \in Callers : ExecuteOneTask(d) \/ Return(d)
    BY <2>1, <2>6 DEF ExecuteOneTask, Take, Return, TaskPoolType
  <2>7. CASE StopPool \/ \E d \in Callers : ExecuteParallelTasks(d)
    BY <2>1, <2>7 DEF StopPool, ExecuteParallelTasks, TaskPoolType
  <2> QED
    BY <2>4, <2>5, <2>6, <2>7 DEF PoolNext, PoolProgress
<1> QED
  BY <1>1, TaskPoolAlways, FramesAliveInvariant, PTL DEF PoolSpec
=============================================================================
