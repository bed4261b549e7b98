-------------------------- MODULE WeightController --------------------------
(***************************************************************************)
(* The Python controller of weight synchronisation: the registry of work   *)
(* units, the cache of transfer schedules, and the futures that the RPC    *)
(* threads share.                                                          *)
(*                                                                         *)
(* Every method holds the controller's lock only around its accesses to    *)
(* the dictionaries, so a transfer is a sequence of locked regions between *)
(* which other RPC threads, and registrations of restarted workers, run.   *)
(* A schedule is an object shared by reference: the job that computed it   *)
(* owns it here (jobs[j].sched), the cache and the other transfers hold    *)
(* the number of that job.                                                 *)
(***************************************************************************)
EXTENDS Naturals, FiniteSets, Sequences, Functions

CONSTANTS
    Threads,        \* threads of the controller's RPC server
    Reqs,           \* request ids
    Keys,           \* plan cache keys, records [srcs, dsts]
    Kinds,          \* of "send", "uncached", "arm", "whole", "warm"
    Registrations,  \* what a worker registers: [topo, shards, eps]; eps 0: none
    MaxCompleted,   \* completed transfers that the controller remembers
    MaxCalls,       \* bound: calls of the RPC threads
    MaxRegs         \* bound: registrations after the first of each unit

ASSUME CtlAssumption ==
    /\ IsFiniteSet(Threads) /\ MaxCalls \in Nat /\ Keys # {}
    /\ Kinds \subseteq {"send", "uncached", "arm", "whole", "warm"}

VARIABLES
    reg,            \* unit -> its registration
    load,           \* source unit -> transfers it was recorded for
    tasks,          \* _active_tasks: request -> the job of its future, or 0
    transfers,      \* _active_transfers: request ids in insertion order
    cache,          \* _plan_cache: key -> the job owning the schedule, or 0
    jobs,           \* the futures and the coroutines they run
    threads,        \* what each RPC thread is doing
    calls,          \* ghost: calls made
    regs            \* ghost: registrations made

ctlVars == <<reg, load, tasks, transfers, cache, jobs, threads, calls, regs>>

Units == UNION {k.srcs \cup k.dsts : k \in Keys}

Jobs == 1..MaxCalls

Members(k) == k.srcs \cup k.dsts

NoSched == [topo |-> <<>>, peers |-> <<>>, eps |-> <<>>, missed |-> {}]

NoJob == [kind |-> "none", req |-> "none", key |-> CHOOSE k \in Keys : TRUE,
          st |-> "none", pc |-> "none",
          plan |-> 0, sched |-> NoSched]

Idle == [pc |-> "idle", kind |-> "none", req |-> "none",
         key |-> CHOOSE k \in Keys : TRUE, job |-> 0]

CtlInit ==
    /\ reg \in [Units -> {CHOOSE g \in Registrations : g.eps # 0}]
    /\ load = [u \in Units |-> 0]
    /\ tasks = [r \in Reqs |-> 0]
    /\ transfers = <<>>
    /\ cache = [k \in Keys |-> 0]
    /\ jobs = [j \in Jobs |-> NoJob]
    /\ threads = [t \in Threads |-> Idle]
    /\ calls = 0
    /\ regs = 0

-----------------------------------------------------------------------------
(* The requests that _prune_completed_transfers_locked evicts: all but the *)
(* last MaxCompleted of those that are done, or have no future (yet).      *)
Evicted(tr, tk, jb) ==
    LET over == SelectSeq(tr, LAMBDA r : tk[r] = 0 \/ jb[tk[r]].st = "done")
    IN  IF Len(over) > MaxCompleted
        THEN Range(SubSeq(over, 1, Len(over) - MaxCompleted)) ELSE {}

Prune(jb) ==
    LET gone == Evicted(transfers, tasks, jb)
    IN  /\ transfers' = SelectSeq(transfers, LAMBDA r : r \notin gone)
        /\ tasks' = [r \in Reqs |-> IF r \in gone THEN 0 ELSE tasks[r]]

(* _active_transfers[req_id] = plan: a present key keeps its place.        *)
Recorded(r) == IF r \in Range(transfers) THEN transfers ELSE Append(transfers, r)

LeastLoaded(srcs) == CHOOSE s \in srcs : \A o \in srcs : load[s] <= load[o]

SetThread(t, rec) == threads' = [threads EXCEPT ![t] = rec]
SetJob(j, rec) == jobs' = [jobs EXCEPT ![j] = rec]

(* The threads are alike: a call is taken by one idle thread.              *)
NextFree(t) ==
    LET free == {x \in Threads : threads[x].pc = "idle"}
    IN  t \in free /\ t = CHOOSE x \in free : TRUE

(* start_transfer, first locked region: a request that has a future gets   *)
(* that future; otherwise old transfers are pruned, a source is selected   *)
(* and the load of the units is recorded.                                  *)
Call(t, r, k, kind) ==
    /\ NextFree(t)
    /\ calls < MaxCalls
    /\ kind # "warm"
    /\ calls' = calls + 1
    /\ LET one == {LeastLoaded(k.srcs)}
           now == [Idle EXCEPT !.kind = kind, !.req = r, !.key = k]
       IN  IF tasks[r] # 0
           THEN /\ SetThread(t, [Idle EXCEPT !.pc = "attach", !.job = tasks[r]])
                /\ UNCHANGED <<load, tasks, transfers>>
           ELSE /\ Prune(jobs)
                /\ load' = [u \in Units |->
                      IF u \in k.dsts \cup (IF kind = "whole" THEN one ELSE k.srcs)
                      THEN load[u] + 1 ELSE load[u]]
                /\ SetThread(t, [now EXCEPT !.pc = "plan"])
    /\ UNCHANGED <<reg, cache, jobs, regs>>

(* Second locked region: the plan is recorded under the request id.        *)
RecordPlan(t) ==
    /\ threads[t].pc = "plan"
    /\ transfers' = Recorded(threads[t].req)
    /\ SetThread(t, [threads[t] EXCEPT !.pc = "publish"])
    /\ UNCHANGED <<reg, load, tasks, cache, jobs, calls, regs>>

(* Third locked region: the future is created and published.               *)
PublishFuture(t) ==
    /\ threads[t].pc = "publish"
    /\ LET th == threads[t]
           j == CHOOSE i \in Jobs : jobs[i].st = "none"
       IN  /\ SetJob(j, [NoJob EXCEPT !.kind = th.kind, !.req = th.req,
                                      !.key = th.key, !.st = "fresh"])
           /\ tasks' = [tasks EXCEPT ![th.req] = j]
           /\ SetThread(t, [Idle EXCEPT !.pc = "attach", !.job = j])
    /\ UNCHANGED <<reg, load, transfers, cache, calls, regs>>

FirstStep(kind) ==
    CASE kind = "send" -> "lookup"
      [] kind = "uncached" -> "readDsts"
      [] kind = "arm" -> "dispatch"
      [] kind = "whole" -> "fetch"

(* The server's handler: the thread that try_start favours runs the        *)
(* future, the others wait for its event.                                  *)
Attach(t) ==
    /\ threads[t].pc = "attach"
    /\ LET th == threads[t] jb == jobs[th.job]
       IN  IF jb.st = "fresh"
           THEN /\ SetJob(th.job, [jb EXCEPT !.st = "started", !.pc = FirstStep(jb.kind)])
                /\ SetThread(t, [th EXCEPT !.pc = "wait"])
           ELSE /\ SetThread(t, [th EXCEPT !.pc = "wait"])
                /\ UNCHANGED jobs
    /\ UNCHANGED <<reg, load, tasks, transfers, cache, calls, regs>>

(* The reply: the owner re-raises the transfer's error, a thread that      *)
(* waited on the event (wait_threadsafe) reports success.                  *)
Reply(t) ==
    /\ threads[t].pc = "wait"
    /\ jobs[threads[t].job].st = "done"
    /\ SetThread(t, Idle)
    /\ UNCHANGED <<reg, load, tasks, transfers, cache, jobs, calls, regs>>

(* warmup_transfer_plan: a cached schedule is returned, otherwise the      *)
(* thread computes one.                                                    *)
Warmup(t, k) ==
    /\ NextFree(t)
    /\ "warm" \in Kinds
    /\ calls < MaxCalls
    /\ calls' = calls + 1
    /\ cache[k] = 0
    /\ LET j == CHOOSE i \in Jobs : jobs[i].st = "none"
       IN  /\ SetJob(j, [NoJob EXCEPT !.kind = "warm", !.key = k, !.st = "started",
                                      !.pc = "readDsts"])
           /\ SetThread(t, [Idle EXCEPT !.pc = "wait", !.job = j])
    /\ UNCHANGED <<reg, load, tasks, transfers, cache, regs>>

-----------------------------------------------------------------------------
(* The coroutine of a transfer.                                            *)
At(j, pc) == jobs[j].st = "started" /\ jobs[j].pc = pc

LookupSchedule(j) ==
    /\ At(j, "lookup")
    /\ LET hit == cache[jobs[j].key]
       IN  SetJob(j, [jobs[j] EXCEPT !.plan = hit,
                        !.pc = IF hit = 0 THEN "readDsts" ELSE "final"])
    /\ UNCHANGED <<reg, load, tasks, transfers, cache, threads, calls, regs>>

(* _compute_transfer_schedule reads the destinations' metadata, and then,  *)
(* under other acquisitions of the lock, the endpoints and the sources.    *)
ReadDsts(j) ==
    /\ At(j, "readDsts")
    /\ LET k == jobs[j].key
       IN  SetJob(j, [jobs[j] EXCEPT !.pc = "readSrcs",
              !.sched = [NoSched EXCEPT
                   !.topo = [u \in k.dsts |-> reg[u].topo],
                   !.peers = [u \in k.dsts |-> reg[u].shards]]])
    /\ UNCHANGED <<reg, load, tasks, transfers, cache, threads, calls, regs>>

ReadSrcs(j) ==
    /\ At(j, "readSrcs")
    /\ LET k == jobs[j].key  old == jobs[j].sched
       IN  SetJob(j, [jobs[j] EXCEPT !.pc = "insert",
              !.sched = [old EXCEPT
                   !.topo = [u \in Members(k) |->
                               IF u \in k.dsts THEN old.topo[u] ELSE reg[u].topo],
                   !.eps = [u \in Members(k) |-> reg[u].eps]]])
    /\ UNCHANGED <<reg, load, tasks, transfers, cache, threads, calls, regs>>

InsertSchedule(j) ==
    /\ At(j, "insert")
    /\ cache' = [cache EXCEPT ![jobs[j].key] = j]
    /\ SetJob(j, [jobs[j] EXCEPT !.plan = j,
            !.pc = IF jobs[j].kind = "warm" THEN "return" ELSE "final"])
    /\ UNCHANGED <<reg, load, tasks, transfers, threads, calls, regs>>

(* The final plan replaces the recorded one, or is recorded again when a   *)
(* registration dropped it meanwhile.                                      *)
FinalPlan(j) ==
    /\ At(j, "final")
    /\ transfers' = Recorded(jobs[j].req)
    /\ SetJob(j, [jobs[j] EXCEPT !.pc = "dispatch"])
    /\ UNCHANGED <<reg, load, tasks, cache, threads, calls, regs>>

EndJob(j, failed) ==
    LET jb == [jobs EXCEPT ![j].st = "done", ![j].pc = "none", ![j].plan = 0, ![j].req = "none"]
    IN  /\ jobs' = jb
        /\ IF jobs[j].kind = "warm" THEN UNCHANGED <<tasks, transfers>> ELSE Prune(jb)

(* A transfer that is not in block chunks reads its plan from              *)
(* _active_transfers: a KeyError when it is no longer there.               *)
FetchPlan(j) ==
    /\ At(j, "fetch")
    /\ IF jobs[j].req \in Range(transfers)
       THEN SetJob(j, [jobs[j] EXCEPT !.pc = "dispatch"]) /\ UNCHANGED <<tasks, transfers>>
       ELSE EndJob(j, TRUE)
    /\ UNCHANGED <<reg, load, cache, threads, calls, regs>>

(* The workers are started and answer, or one of them fails.               *)
DispatchEnds(j) ==
    /\ At(j, "dispatch") \/ At(j, "return")
    /\ \E failed \in BOOLEAN : (failed => At(j, "dispatch")) /\ EndJob(j, failed)
    /\ UNCHANGED <<reg, load, cache, threads, calls, regs>>

-----------------------------------------------------------------------------
(* register_work_unit, one locked region.  A schedule with the unit is     *)
(* dropped when the topology changed, or the shards of a destination did;  *)
(* otherwise its endpoints are patched in place.  A schedule that is still *)
(* computed is not in the cache, and learns of neither.  `missed' is a     *)
(* ghost: the units that changed after the schedule had read them, unknown *)
(* to it.                                                                  *)
Drops_TopologyOnly(u, g, k) == reg[u].topo # g.topo

Drops(u, g, k) == \/ reg[u].topo # g.topo
                  \/ u \in k.dsts /\ reg[u].shards # g.shards

ReadBy(j) == IF At(j, "readSrcs") THEN jobs[j].key.dsts
             ELSE IF At(j, "insert") THEN Members(jobs[j].key) ELSE {}

Register(u, g) ==
    /\ regs < MaxRegs
    /\ g # reg[u]
    /\ regs' = regs + 1
    /\ reg' = [reg EXCEPT ![u] = g]
    /\ LET cleared == {r \in Reqs : tasks[r] # 0 /\ u \in Members(jobs[tasks[r]].key)}
           kept == {k \in Keys : cache[k] # 0 /\ u \in Members(k) /\ ~Drops(u, g, k)}
       IN  /\ tasks' = [r \in Reqs |-> IF r \in cleared THEN 0 ELSE tasks[r]]
           /\ transfers' = SelectSeq(transfers, LAMBDA r : r \notin cleared)
           /\ cache' = [k \in Keys |-> IF u \in Members(k) /\ cache[k] # 0 /\ k \notin kept
                                       THEN 0 ELSE cache[k]]
           /\ jobs' = [j \in Jobs |->
                 IF g.eps # 0 /\ \E k \in kept : cache[k] = j
                 THEN [jobs[j] EXCEPT !.sched.eps[u] = g.eps]
                 ELSE IF u \in ReadBy(j)
                 THEN [jobs[j] EXCEPT !.sched.missed = @ \cup {u}]
                 ELSE jobs[j]]
    /\ UNCHANGED <<load, threads, calls>>

(* attach_host changes the registry (the shards, whose number is part of   *)
(* topo, and the endpoints) and no cached schedule.                        *)
AttachHost(u, g) ==
    /\ regs < MaxRegs
    /\ g.eps # 0 /\ g # reg[u]
    /\ regs' = regs + 1
    /\ reg' = [reg EXCEPT ![u] = g]
    /\ jobs' = [j \in Jobs |->
          IF u \in ReadBy(j) \/ (u \in Members(jobs[j].key) /\ \E k \in Keys : cache[k] = j)
          THEN [jobs[j] EXCEPT !.sched.missed = @ \cup {u}] ELSE jobs[j]]
    /\ UNCHANGED <<load, tasks, transfers, cache, threads, calls>>

ClearPlanCache ==
    /\ \E k \in Keys : cache[k] # 0
    /\ cache' = [k \in Keys |-> 0]
    /\ UNCHANGED <<reg, load, tasks, transfers, jobs, threads, calls, regs>>

-----------------------------------------------------------------------------
CtlProgress ==
    \/ \E t \in Threads :
          RecordPlan(t) \/ PublishFuture(t) \/ Attach(t) \/ Reply(t)
    \/ \E j \in Jobs :
          \/ LookupSchedule(j) \/ ReadDsts(j) \/ ReadSrcs(j) \/ InsertSchedule(j)
          \/ FinalPlan(j) \/ FetchPlan(j) \/ DispatchEnds(j)

CtlNext ==
    \/ CtlProgress
    \/ \E t \in Threads, k \in Keys :
          \/ Warmup(t, k)
          \/ \E r \in Reqs, kind \in Kinds : Call(t, r, k, kind)
    \/ \E u \in Units, g \in Registrations : Register(u, g) \/ AttachHost(u, g)
    \/ ClearPlanCache

CtlSpec == CtlInit /\ [][CtlNext]_ctlVars /\ WF_ctlVars(CtlProgress)

-----------------------------------------------------------------------------
(* A cached schedule describes each of its units as it is registered now:  *)
(* its topology, the shard addresses pushes are built on and the endpoints *)
(* they are sent to.  Excepted are only the units that changed behind the  *)
(* schedule's back: by registering after its computation had read them and *)
(* before it was in the cache (nothing is there to drop or to patch, and   *)
(* the insert does not look again), or by attach_host, at any time.        *)
ScheduleFresh ==
    \A k \in Keys : cache[k] # 0 =>
        LET s == jobs[cache[k]].sched
        IN  \A u \in Members(k) \ s.missed :
                /\ s.topo[u] = reg[u].topo
                /\ u \in k.dsts => s.peers[u] = reg[u].shards
                /\ reg[u].eps # 0 => s.eps[u] = reg[u].eps

(* Every RPC thread gets its answer, whichever thread runs the transfer,   *)
(* and whether it succeeds or fails, is re-registered away or pruned.      *)
ThreadsAnswered ==
    \A t \in Threads : threads[t].pc # "idle" ~> threads[t].pc = "idle"
=============================================================================
