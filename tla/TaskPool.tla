------------------------------- MODULE TaskPool -------------------------------
(***************************************************************************)
(* NumaThreadPool (core/numa_thread_pool.{h,cc}) and the parallel loop of  *)
(* the tiling code that runs on it (ExecuteParallelTasks in                *)
(* weight_sync/tiling_utils.cc): a caller queues helpers, takes indices    *)
(* from the same counter as they do, and until its helpers are done runs   *)
(* whatever is queued.  The counters are in the caller's stack frame: they *)
(* must not be touched once the caller has returned.                       *)
(***************************************************************************)
EXTENDS Integers, Sequences, FiniteSets

CONSTANTS
    PoolWorkers, Callers,
    PoolLoops      \* per caller, the [total, helpers, step] of its loop

VARIABLES
    loop,          \* per caller
    tasks,         \* the queue: the callers of the helpers in it
    frame,         \* per caller: [alive, next, remaining]
    thread,        \* per thread: [at, of, in, helps]: of whose loop, in which chunk,
                   \* and whether as a helper
    ran,           \* how often an index of a loop has run
    halted         \* stop of the pool

poolVars == <<loop, tasks, frame, thread, ran, halted>>

PoolThreads == PoolWorkers \cup Callers

ASSUME TaskPoolAssumption ==
    /\ IsFiniteSet(PoolWorkers) /\ IsFiniteSet(Callers) /\ PoolWorkers \cap Callers = {}
    /\ \A l \in PoolLoops : \A c \in Callers :
           l[c].total \in Nat /\ l[c].helpers \in Nat /\ l[c].step \in Nat \ {0}

AtRest == [at |-> "idle", of |-> 0, in |-> 0, helps |-> FALSE]

PoolInit ==
    /\ loop \in PoolLoops
    /\ tasks = <<>> /\ halted = FALSE
    /\ frame = [c \in Callers |-> [alive |-> FALSE, next |-> 0, remaining |-> 0]]
    /\ thread = [t \in PoolThreads |-> AtRest]
    /\ ran = [c \in Callers |-> [i \in 0..(loop[c].total - 1) |-> 0]]

(* ExecuteParallelTasks: the helpers are queued (Schedule). *)
ExecuteParallelTasks(c) ==
    /\ thread[c].at = "idle" /\ ~halted
    /\ frame' = [frame EXCEPT ![c] = [alive |-> TRUE, next |-> 0, remaining |-> loop[c].helpers]]
    /\ tasks' = tasks \o [i \in 1..loop[c].helpers |-> c]
    /\ thread' = [thread EXCEPT ![c] = [AtRest EXCEPT !.at = "loop", !.of = c]]
    /\ UNCHANGED <<loop, ran, halted>>

(* work_loop: fetch_add, then the indices of the chunk. *)
FetchChunk(t) ==
    LET c == thread[t].of
        more == frame[c].next < loop[c].total
    IN  /\ thread[t].at = "loop"
        /\ thread' = [thread EXCEPT ![t] = [@ EXCEPT !.at = IF more THEN "run" ELSE "looped",
                                                     !.in = frame[c].next]]
        /\ frame' = [frame EXCEPT ![c].next = @ + loop[c].step]
        /\ UNCHANGED <<loop, tasks, ran, halted>>

RunChunk(t) ==
    LET c == thread[t].of
        b == thread[t].in
    IN  /\ thread[t].at = "run"
        /\ ran' = [ran EXCEPT ![c] = [i \in DOMAIN @ |-> IF i \in b..(b + loop[c].step - 1) THEN @[i] + 1 ELSE @[i]]]
        /\ thread' = [thread EXCEPT ![t].at = "loop"]
        /\ UNCHANGED <<loop, tasks, frame, halted>>

(* WorkerLoop and ExecuteOneTask take the front of the queue; a helper     *)
(* first looks whether anything is left.                                   *)
Take(t) ==
    LET c == Head(tasks) IN
    /\ tasks # <<>>
    /\ tasks' = Tail(tasks)
    /\ thread' = [thread EXCEPT ![t] = [at |-> IF frame[c].next < loop[c].total THEN "loop" ELSE "looped",
                                        of |-> c, in |-> 0, helps |-> TRUE]]
    /\ UNCHANGED <<loop, frame, ran, halted>>

WorkerLoop(w) == thread[w].at = "idle" /\ Take(w)
ExecuteOneTask(c) == thread[c].at = "wait" /\ ~halted /\ Take(c)

(* A helper counts itself out; the caller, its own loop over, waits. *)
LoopEnd(t) ==
    LET c == thread[t].of IN
    /\ thread[t].at = "looped"
    /\ thread' = [thread EXCEPT ![t] = IF t \in Callers THEN [AtRest EXCEPT !.at = "wait", !.of = t] ELSE AtRest]
    /\ frame' = IF thread[t].helps THEN [frame EXCEPT ![c].remaining = @ - 1] ELSE frame
    /\ UNCHANGED <<loop, tasks, ran, halted>>

\* As the return would be if the caller waited for the indices only.
Return_Early(c) ==
    /\ thread[c].at = "wait" /\ frame[c].next >= loop[c].total
    /\ frame' = [frame EXCEPT ![c].alive = FALSE]
    /\ thread' = [thread EXCEPT ![c].at = "returned"]
    /\ UNCHANGED <<loop, tasks, ran, halted>>

Return(c) ==
    /\ thread[c].at = "wait" /\ frame[c].remaining = 0
    /\ frame' = [frame EXCEPT ![c].alive = FALSE]
    /\ thread' = [thread EXCEPT ![c].at = "returned"]
    /\ UNCHANGED <<loop, tasks, ran, halted>>

(* ~NumaThreadPool, once nobody schedules any more: the workers leave when *)
(* the queue is empty.                                                     *)
StopPool ==
    /\ ~halted /\ \A c \in Callers : thread[c].at # "idle"
    /\ halted' = TRUE
    /\ UNCHANGED <<loop, tasks, frame, thread, ran>>

WorkerExit(w) ==
    /\ thread[w].at = "idle" /\ halted /\ tasks = <<>>
    /\ thread' = [thread EXCEPT ![w].at = "exited"]
    /\ UNCHANGED <<loop, tasks, frame, ran, halted>>

PoolProgress ==
    \/ \E t \in PoolThreads : FetchChunk(t) \/ RunChunk(t) \/ LoopEnd(t)
    \/ \E w \in PoolWorkers : WorkerLoop(w) \/ WorkerExit(w)
    \/ \E c \in Callers : ExecuteOneTask(c) \/ Return(c)

PoolNext == PoolProgress \/ StopPool \/ \E c \in Callers : ExecuteParallelTasks(c)

PoolSpec == PoolInit /\ [][PoolNext]_poolVars

-----------------------------------------------------------------------------
\* Whoever may still touch the counters of a loop finds its frame alive, no
\* index of a loop runs twice, and all of them have run when its caller
\* returns.
FramesAlive ==
    /\ \A k \in 1..Len(tasks) : frame[tasks[k]].alive
    /\ \A t \in PoolThreads : thread[t].at \in {"loop", "run", "looped"} => frame[thread[t].of].alive
    /\ \A c \in Callers : \A i \in DOMAIN ran[c] :
           IF thread[c].at = "returned" THEN ran[c][i] = 1 ELSE ran[c][i] <= 1

\* A loop that has been started has not returned yet.
LoopRuns == \E c \in Callers : thread[c].at \notin {"idle", "returned"}
=============================================================================
