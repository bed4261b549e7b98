----------------------------- MODULE CacheProofs -----------------------------
(***************************************************************************)
(* Proofs about the caches of weight synchronisation, for any number of    *)
(* threads, requests, units, keys and calls: a cached schedule describes   *)
(* its units as they are registered now, and a cached payload names the    *)
(* transfer it is sent for.                                                *)
(***************************************************************************)
EXTENDS PayloadCache, FiniteSetTheorems, TLAPS

-----------------------------------------------------------------------------
(* The controller's invariant.  The operators take the state as arguments. *)

\* The schedule of the job is complete, and the job does not touch it again.
Settled(r) == r.st = "done" \/ (r.st = "started" /\ r.pc \in {"final", "dispatch", "return"})

\* What the first read of a computation took, and what both took, is what is
\* registered, but for the units that changed since and that it missed.
FreshDst(s, u, G) == s.topo[u] = G[u].topo /\ s.peers[u] = G[u].shards
FreshUnit(s, k, u, G) ==
    /\ s.topo[u] = G[u].topo
    /\ u \in k.dsts => s.peers[u] = G[u].shards
    /\ G[u].eps # 0 => s.eps[u] = G[u].eps
FreshDsts(s, k, G) == \A u \in k.dsts \ s.missed : FreshDst(s, u, G)
Fresh(s, k, G) == \A u \in Members(k) \ s.missed : FreshUnit(s, k, u, G)

ShapeOf(s) == s = [topo |-> s.topo, peers |-> s.peers, eps |-> s.eps, missed |-> s.missed]
Shape(r) ==
    /\ r = [kind |-> r.kind, req |-> r.req, key |-> r.key, st |-> r.st, pc |-> r.pc,
            plan |-> r.plan, sched |-> r.sched]
    /\ ShapeOf(r.sched)

\* What a published future transfers; a warm-up starts at once.
Sends == {"send", "uncached", "arm", "whole"}

JobOk(r, G) ==
    /\ Shape(r) /\ r.key \in Keys
    /\ r.st = "fresh" => r.kind \in Sends
    /\ r.st = "started" /\ r.pc = "readSrcs" => FreshDsts(r.sched, r.key, G)
    /\ r.st = "started" /\ r.pc = "insert" => /\ Fresh(r.sched, r.key, G)
                                              /\ DOMAIN r.sched.eps = Members(r.key)

JobsOk(J, G) == DOMAIN J = Jobs /\ \A j \in Jobs : JobOk(J[j], G)

\* The cache: the schedule of a settled job, under the job's own key.
Cached(C, J, G) ==
    /\ DOMAIN C = Keys
    /\ \A k \in Keys : C[k] # 0 =>
          /\ C[k] \in Jobs /\ J[C[k]].key = k /\ Settled(J[C[k]])
          /\ Fresh(J[C[k]].sched, k, G) /\ DOMAIN J[C[k]].sched.eps = Members(k)

\* There is a job for every call: those begun and those a thread is about to
\* begin are no more than the calls made.
Begun(J) == {j \in Jobs : J[j].st # "none"}
Owes(r) == r.pc \in {"plan", "publish"}
Owing(T) == {t \in Threads : Owes(T[t])}
ThreadOk(r) ==
    /\ r = [pc |-> r.pc, kind |-> r.kind, req |-> r.req, key |-> r.key, job |-> r.job]
    /\ r.key \in Keys
    /\ Owes(r) => r.kind \in Sends
ThreadsOk(T) == DOMAIN T = Threads /\ \A t \in Threads : ThreadOk(T[t])
Counted(J, T, n) ==
    n \in Nat /\ n <= MaxCalls /\ Cardinality(Begun(J)) + Cardinality(Owing(T)) <= n

CtlInv ==
    /\ DOMAIN reg = Units /\ JobsOk(jobs, reg) /\ Cached(cache, jobs, reg)
    /\ ThreadsOk(threads) /\ Counted(jobs, threads, calls)

\* The function g is f with r at a.
Changed(g, f, a, r) ==
    DOMAIN g = DOMAIN f /\ g[a] = r /\ \A x \in DOMAIN f \ {a} : g[x] = f[x]

-----------------------------------------------------------------------------
(* Records. *)

\* A function changed at one place.
LEMMA ChangedAt ==
    ASSUME NEW f, NEW a \in DOMAIN f, NEW r, NEW g, g = [f EXCEPT ![a] = r]
    PROVE  Changed(g, f, a, r)
BY ZenonT(30) DEF Changed

\* The records that the steps make, from the one before, or afresh.
Moved(q, r, b) == q = [r EXCEPT !.pc = b]
Started(q, r, b) == q = [r EXCEPT !.st = "started", !.pc = b]
Planned(q, r, c, b) == q = [r EXCEPT !.plan = c, !.pc = b]
Ended(q, r) == q = [r EXCEPT !.st = "done", !.pc = "none", !.plan = 0, !.req = "none"]
Reads(q, r, b, s) == q = [r EXCEPT !.pc = b, !.sched = s]
Patched(q, r, u, e) == q = [r EXCEPT !.sched.eps[u] = e]
Missed(q, r, u) == q = [r EXCEPT !.sched.missed = @ \cup {u}]
Published(q, a, n, k) == q = [NoJob EXCEPT !.kind = a, !.req = n, !.key = k, !.st = "fresh"]
Warms(q, k) == q = [NoJob EXCEPT !.kind = "warm", !.key = k, !.st = "started", !.pc = "readDsts"]
Comes(q, a, d) == q = [Idle EXCEPT !.pc = a, !.job = d]
Plans(q, b, c, k) == q = [[Idle EXCEPT !.kind = b, !.req = c, !.key = k] EXCEPT !.pc = "plan"]

\* Records written out.
JobRec(q, a, n, k, st, b, c, s) ==
    q = [kind |-> a, req |-> n, key |-> k, st |-> st, pc |-> b, plan |-> c, sched |-> s]
ThreadRec(q, a, b, c, k, d) == q = [pc |-> a, kind |-> b, req |-> c, key |-> k, job |-> d]

\* A job written out.
LEMMA JobIs ==
    ASSUME NEW a, NEW n, NEW k, NEW st, NEW b, NEW c, NEW s, ShapeOf(s), NEW q,
           JobRec(q, a, n, k, st, b, c, s)
    PROVE  Shape(q) /\ q.kind = a /\ q.key = k /\ q.st = st /\ q.pc = b /\ q.sched = s
<1>1. q.kind = a /\ q.key = k /\ q.st = st /\ q.pc = b /\ q.sched = s
  BY ZenonT(30) DEF JobRec
<1>2. q = [kind |-> q.kind, req |-> q.req, key |-> q.key, st |-> q.st, pc |-> q.pc,
           plan |-> q.plan, sched |-> q.sched]
  BY ZenonT(30) DEF JobRec
<1> QED
  BY <1>1, <1>2, ZenonT(30) DEF Shape

\* A job that moves to another step.
LEMMA JobMoves ==
    ASSUME NEW r, Shape(r), NEW b, NEW q, Moved(q, r, b)
    PROVE  Shape(q) /\ q.key = r.key /\ q.sched = r.sched /\ q.st = r.st /\ q.pc = b
<1>1. JobRec(q, r.kind, r.req, r.key, r.st, b, r.plan, r.sched)
  BY ZenonT(30) DEF Shape, ShapeOf, Moved, JobRec
<1>2. ShapeOf(r.sched)
  BY ZenonT(30) DEF Shape
<1> QED
  BY <1>1, <1>2, JobIs

\* A job that is run.
LEMMA JobStarts ==
    ASSUME NEW r, Shape(r), NEW b, NEW q, Started(q, r, b)
    PROVE  Shape(q) /\ q.key = r.key /\ q.sched = r.sched /\ q.st = "started" /\ q.pc = b
<1>1. JobRec(q, r.kind, r.req, r.key, "started", b, r.plan, r.sched)
  BY ZenonT(30) DEF Shape, ShapeOf, Started, JobRec
<1>2. ShapeOf(r.sched)
  BY ZenonT(30) DEF Shape
<1> QED
  BY <1>1, <1>2, JobIs

\* A job that takes a plan.
LEMMA JobPlans ==
    ASSUME NEW r, Shape(r), NEW b, NEW c, NEW q, Planned(q, r, c, b)
    PROVE  Shape(q) /\ q.key = r.key /\ q.sched = r.sched /\ q.st = r.st /\ q.pc = b
<1>1. JobRec(q, r.kind, r.req, r.key, r.st, b, c, r.sched)
  BY ZenonT(30) DEF Shape, ShapeOf, Planned, JobRec
<1>2. ShapeOf(r.sched)
  BY ZenonT(30) DEF Shape
<1> QED
  BY <1>1, <1>2, JobIs

\* A job that ends.
LEMMA JobEnds ==
    ASSUME NEW r, Shape(r), NEW q, Ended(q, r)
    PROVE  Shape(q) /\ q.key = r.key /\ q.sched = r.sched /\ q.st = "done"
<1>1. JobRec(q, r.kind, "none", r.key, "done", "none", 0, r.sched)
  BY ZenonT(30) DEF Shape, ShapeOf, Ended, JobRec
<1>2. ShapeOf(r.sched)
  BY ZenonT(30) DEF Shape
<1> QED
  BY <1>1, <1>2, JobIs

\* A job that gets a schedule.
LEMMA JobReads ==
    ASSUME NEW r, Shape(r), NEW b, NEW s, ShapeOf(s), NEW q, Reads(q, r, b, s)
    PROVE  Shape(q) /\ q.key = r.key /\ q.st = r.st /\ q.pc = b /\ q.sched = s
<1>1. JobRec(q, r.kind, r.req, r.key, r.st, b, r.plan, s)
  BY ZenonT(30) DEF Shape, ShapeOf, Reads, JobRec
<1> QED
  BY <1>1, JobIs

\* A schedule whose endpoint of one unit is patched.
LEMMA JobPatched ==
    ASSUME NEW r, Shape(r), NEW u \in DOMAIN r.sched.eps, NEW e, NEW q, Patched(q, r, u, e)
    PROVE  /\ Shape(q) /\ q.key = r.key /\ q.st = r.st /\ q.pc = r.pc
           /\ q.sched.topo = r.sched.topo /\ q.sched.peers = r.sched.peers
           /\ q.sched.missed = r.sched.missed
           /\ DOMAIN q.sched.eps = DOMAIN r.sched.eps /\ q.sched.eps[u] = e
           /\ \A v \in DOMAIN r.sched.eps \ {u} : q.sched.eps[v] = r.sched.eps[v]
<1> DEFINE eps == [r.sched.eps EXCEPT ![u] = e]
           s == [topo |-> r.sched.topo, peers |-> r.sched.peers, eps |-> eps, missed |-> r.sched.missed]
<1>1. JobRec(q, r.kind, r.req, r.key, r.st, r.pc, r.plan, s)
  BY ZenonT(30) DEF Shape, ShapeOf, Patched, JobRec
<1>2. DOMAIN eps = DOMAIN r.sched.eps /\ eps[u] = e /\ \A v \in DOMAIN r.sched.eps \ {u} : eps[v] = r.sched.eps[v]
  BY ZenonT(30)
<1> HIDE DEF eps
<1>3. /\ s.topo = r.sched.topo /\ s.peers = r.sched.peers /\ s.eps = eps
      /\ s.missed = r.sched.missed
  BY ZenonT(30)
<1>5. ShapeOf(s)
  BY ZenonT(30) DEF ShapeOf
<1> HIDE DEF s
<1>4. Shape(q) /\ q.key = r.key /\ q.st = r.st /\ q.pc = r.pc /\ q.sched = s
  BY <1>1, <1>5, JobIs
<1> QED
  BY <1>2, <1>3, <1>4, ZenonT(30)

\* A schedule that is marked.
LEMMA JobMisses ==
    ASSUME NEW r, Shape(r), NEW u, NEW q, Missed(q, r, u)
    PROVE  /\ Shape(q) /\ q.key = r.key /\ q.st = r.st /\ q.pc = r.pc /\ q.kind = r.kind
           /\ q.sched.topo = r.sched.topo /\ q.sched.peers = r.sched.peers
           /\ q.sched.eps = r.sched.eps /\ q.sched.missed = r.sched.missed \cup {u}
<1> DEFINE m == r.sched.missed \cup {u}
           s == [topo |-> r.sched.topo, peers |-> r.sched.peers, eps |-> r.sched.eps, missed |-> m]
<1>1. JobRec(q, r.kind, r.req, r.key, r.st, r.pc, r.plan, s)
  BY ZenonT(30) DEF Shape, ShapeOf, Missed, JobRec
<1>m. m = r.sched.missed \cup {u}
  OBVIOUS
<1> HIDE DEF m
<1>2. /\ s.topo = r.sched.topo /\ s.peers = r.sched.peers /\ s.eps = r.sched.eps
      /\ s.missed = m /\ ShapeOf(s)
  BY ZenonT(30) DEF ShapeOf
<1> HIDE DEF s
<1>3. Shape(q) /\ q.key = r.key /\ q.st = r.st /\ q.pc = r.pc /\ q.kind = r.kind /\ q.sched = s
  BY <1>1, <1>2, JobIs
<1> QED
  BY <1>2, <1>3, <1>m, ZenonT(30)

\* A schedule not computed yet is one.
LEMMA NoSchedShape == ShapeOf(NoSched)
BY ZenonT(30) DEF NoSched, ShapeOf

\* A new job, as PublishFuture and Warmup make them.
LEMMA JobPublished ==
    ASSUME NEW a, NEW k, NEW n, NEW q, Published(q, a, n, k)
    PROVE  Shape(q) /\ q.key = k /\ q.kind = a /\ q.st = "fresh"
<1>1. JobRec(q, a, n, k, "fresh", "none", 0, NoSched)
  BY ZenonT(30) DEF NoJob, Published, JobRec
<1> QED
  BY <1>1, NoSchedShape, JobIs

\* A warm-up starts at once.
LEMMA JobWarms ==
    ASSUME NEW k, NEW q, Warms(q, k)
    PROVE  Shape(q) /\ q.key = k /\ q.st = "started" /\ q.pc = "readDsts"
<1>1. JobRec(q, "warm", "none", k, "started", "readDsts", 0, NoSched)
  BY ZenonT(30) DEF NoJob, Warms, JobRec
<1> QED
  BY <1>1, NoSchedShape, JobIs

\* A thread written out.
LEMMA ThreadIs ==
    ASSUME NEW a, NEW b, NEW c, NEW k \in Keys, NEW d, NEW q,
           a \in {"plan", "publish"} => b \in Sends,
           ThreadRec(q, a, b, c, k, d)
    PROVE  ThreadOk(q) /\ q.pc = a
<1>1. q.pc = a /\ q.key = k /\ q.kind = b
  BY ZenonT(30) DEF ThreadRec
<1>2. q = [pc |-> q.pc, kind |-> q.kind, req |-> q.req, key |-> q.key, job |-> q.job]
  BY ZenonT(30) DEF ThreadRec
<1> QED
  BY <1>1, <1>2, ZenonT(30) DEF ThreadOk, Owes

\* What a thread turns into: it moves on, it comes to a job, it plans a
\* transfer, it is idle.
LEMMA ThreadMoves ==
    ASSUME NEW r, ThreadOk(r), NEW a, a \in {"plan", "publish"} => Owes(r), NEW q, Moved(q, r, a)
    PROVE  ThreadOk(q) /\ q.pc = a
<1>1. ThreadRec(q, a, r.kind, r.req, r.key, r.job)
  BY ZenonT(30) DEF ThreadOk, Moved, ThreadRec
<1>2. r.key \in Keys /\ (Owes(r) => r.kind \in Sends)
  BY ZenonT(30) DEF ThreadOk
<1> QED
  BY <1>1, <1>2, ThreadIs

\* A thread at a job.
LEMMA ThreadComes ==
    ASSUME NEW a, a \notin {"plan", "publish"}, NEW d, NEW q, Comes(q, a, d)
    PROVE  ThreadOk(q) /\ q.pc = a
<1> DEFINE k == CHOOSE x \in Keys : TRUE
<1>1. k \in Keys
  BY CtlAssumption, ZenonT(30)
<1>2. ThreadRec(q, a, "none", "none", k, d)
  BY ZenonT(30) DEF Idle, Comes, ThreadRec
<1> HIDE DEF k
<1> QED
  BY <1>1, <1>2, ThreadIs, ZenonT(30)

\* A thread that plans a transfer.
LEMMA ThreadPlans ==
    ASSUME NEW b \in Sends, NEW c, NEW k \in Keys, NEW q, Plans(q, b, c, k)
    PROVE  ThreadOk(q) /\ q.pc = "plan"
<1>1. ThreadRec(q, "plan", b, c, k, 0)
  BY ZenonT(30) DEF Idle, Plans, ThreadRec
<1> QED
  BY <1>1, ThreadIs, ZenonT(30)

\* A thread that is done.
LEMMA ThreadIdle == ThreadOk(Idle) /\ Idle.pc = "idle"
<1>1. (CHOOSE x \in Keys : TRUE) \in Keys
  BY CtlAssumption, ZenonT(30)
<1> QED
  BY <1>1 DEF Idle, ThreadOk, Owes

-----------------------------------------------------------------------------
(* Counting. *)

\* The jobs and the threads are finitely many.
LEMMA Finite ==
    ASSUME NEW J, NEW T
    PROVE  /\ IsFiniteSet(Jobs) /\ Cardinality(Jobs) = MaxCalls
           /\ IsFiniteSet(Begun(J)) /\ Cardinality(Begun(J)) \in Nat
           /\ IsFiniteSet(Owing(T)) /\ Cardinality(Owing(T)) \in Nat
<1>1. IsFiniteSet(Jobs) /\ Cardinality(Jobs) = MaxCalls
  <2>1. /\ IsFiniteSet(1..MaxCalls)
        /\ Cardinality(1..MaxCalls) = IF 1 > MaxCalls THEN 0 ELSE MaxCalls - 1 + 1
    BY CtlAssumption, FS_Interval
  <2> QED
    BY <2>1, CtlAssumption DEF Jobs
<1>2. IsFiniteSet(Begun(J)) /\ IsFiniteSet(Owing(T))
  BY <1>1, CtlAssumption, FS_Subset, ZenonT(30) DEF Begun, Owing
<1> QED
  BY <1>1, <1>2, FS_CardinalityType, ZenonT(30)

\* Fewer jobs begun than calls allowed: one has not begun.
LEMMA FreeJob ==
    ASSUME NEW J, Cardinality(Begun(J)) < MaxCalls
    PROVE  \E j \in Jobs : J[j].st = "none"
<1> SUFFICES ASSUME \A j \in Jobs : J[j].st # "none" PROVE FALSE
  BY ZenonT(30)
<1>1. Begun(J) = Jobs
  BY ZenonT(30) DEF Begun
<1> QED
  BY <1>1, Finite, CtlAssumption

\* A job begins.
LEMMA BegunMore ==
    ASSUME NEW J, NEW K, NEW j \in Jobs, DOMAIN J = Jobs, NEW r, Changed(K, J, j, r),
           J[j].st = "none", r.st # "none"
    PROVE  Cardinality(Begun(K)) = Cardinality(Begun(J)) + 1
<1>1. Begun(K) = Begun(J) \cup {j}
  BY ZenonT(30) DEF Changed, Begun
<1>2. j \notin Begun(J)
  BY ZenonT(30) DEF Begun
<1> QED
  BY <1>1, <1>2, Finite, FS_AddElement, ZenonT(30)

\* No job begins.
LEMMA BegunSame ==
    ASSUME NEW J, NEW K, \A j \in Jobs : K[j].st = "none" <=> J[j].st = "none"
    PROVE  Begun(K) = Begun(J)
BY ZenonT(30) DEF Begun

\* A thread moves on.
LEMMA OneThread ==
    ASSUME NEW T, ThreadsOk(T), NEW t \in Threads, NEW r, ThreadOk(r), NEW S, Changed(S, T, t, r)
    PROVE  /\ ThreadsOk(S)
           /\ (Owes(T[t]) <=> Owes(r)) => Cardinality(Owing(S)) = Cardinality(Owing(T))
           /\ ~Owes(T[t]) /\ Owes(r) => Cardinality(Owing(S)) = Cardinality(Owing(T)) + 1
           /\ Owes(T[t]) /\ ~Owes(r) => Cardinality(Owing(S)) = Cardinality(Owing(T)) - 1
<1>1. DOMAIN S = Threads /\ S[t] = r /\ \A x \in Threads \ {t} : S[x] = T[x]
  BY ZenonT(30) DEF Changed, ThreadsOk
<1>2. ThreadsOk(S)
  BY <1>1, ZenonT(30) DEF ThreadsOk
<1>3. ASSUME Owes(T[t]) <=> Owes(r) PROVE Owing(S) = Owing(T)
  BY <1>1, <1>3, ZenonT(30) DEF Owing
<1>4. ASSUME ~Owes(T[t]), Owes(r) PROVE Cardinality(Owing(S)) = Cardinality(Owing(T)) + 1
  <2>1. Owing(S) = Owing(T) \cup {t} /\ t \notin Owing(T)
    BY <1>1, <1>4, ZenonT(30) DEF Owing
  <2> QED
    BY <2>1, Finite, FS_AddElement, ZenonT(30)
<1>5. ASSUME Owes(T[t]), ~Owes(r) PROVE Cardinality(Owing(S)) = Cardinality(Owing(T)) - 1
  <2>1. Owing(S) = Owing(T) \ {t} /\ t \in Owing(T)
    BY <1>1, <1>5, ZenonT(30) DEF Owing
  <2> QED
    BY <2>1, Finite, FS_RemoveElement, ZenonT(30)
<1> QED
  BY <1>2, <1>3, <1>4, <1>5, ZenonT(30)

-----------------------------------------------------------------------------
(* Jobs and the cache. *)

\* One job changes, and keeps its schedule if it had settled.
LEMMA OneJob ==
    ASSUME NEW J, NEW C, NEW G, JobsOk(J, G), Cached(C, J, G),
           NEW j \in Jobs, NEW r, JobOk(r, G),
           Settled(J[j]) => Settled(r) /\ r.key = J[j].key /\ r.sched = J[j].sched,
           NEW K, Changed(K, J, j, r)
    PROVE  JobsOk(K, G) /\ Cached(C, K, G)
<1>1. DOMAIN K = Jobs /\ K[j] = r /\ \A i \in Jobs \ {j} : K[i] = J[i]
  BY ZenonT(30) DEF Changed, JobsOk
<1>2. JobsOk(K, G)
  BY <1>1, ZenonT(30) DEF JobsOk
<1>3. ASSUME NEW k \in Keys, C[k] # 0
      PROVE  /\ C[k] \in Jobs /\ K[C[k]].key = k /\ Settled(K[C[k]])
             /\ Fresh(K[C[k]].sched, k, G) /\ DOMAIN K[C[k]].sched.eps = Members(k)
  <2>1. /\ C[k] \in Jobs /\ J[C[k]].key = k /\ Settled(J[C[k]])
        /\ Fresh(J[C[k]].sched, k, G) /\ DOMAIN J[C[k]].sched.eps = Members(k)
    BY <1>3, ZenonT(30) DEF Cached
  <2>2. CASE C[k] = j
    BY <1>1, <2>1, <2>2, ZenonT(30)
  <2>3. CASE C[k] # j
    <3>1. K[C[k]] = J[C[k]]
      BY <1>1, <2>1, <2>3, ZenonT(30)
    <3> QED
      BY <2>1, <3>1, ZenonT(30)
  <2> QED
    BY <2>2, <2>3, ZenonT(30)
<1> QED
  BY <1>2, <1>3, ZenonT(30) DEF Cached

-----------------------------------------------------------------------------
(* The actions of the controller. *)

\* A job moves on, and nothing else that the invariant is about.
LEMMA JobStep ==
    ASSUME CtlInv, NEW j \in Jobs, NEW r, JobOk(r, reg), jobs[j].st # "none", r.st # "none",
           Settled(jobs[j]) => Settled(r) /\ r.key = jobs[j].key /\ r.sched = jobs[j].sched,
           Changed(jobs', jobs, j, r), UNCHANGED <<reg, cache, threads, calls>>
    PROVE  CtlInv'
<1>1. JobsOk(jobs', reg) /\ Cached(cache, jobs', reg)
  BY OneJob, ZenonT(30) DEF CtlInv
<1>2. \A i \in Jobs : jobs'[i].st = "none" <=> jobs[i].st = "none"
  BY ZenonT(30) DEF Changed, CtlInv, JobsOk
<1>3. Begun(jobs') = Begun(jobs)
  BY <1>2, BegunSame, ZenonT(30)
<1> QED
  BY <1>1, <1>3, ZenonT(30) DEF CtlInv, Counted

\* A job begins.
LEMMA JobBegins ==
    ASSUME CtlInv, NEW j \in Jobs, NEW r, JobOk(r, reg), jobs[j].st = "none", r.st # "none",
           Changed(jobs', jobs, j, r)
    PROVE  /\ JobsOk(jobs', reg) /\ Cached(cache, jobs', reg)
           /\ Cardinality(Begun(jobs')) = Cardinality(Begun(jobs)) + 1
<1>1. ~Settled(jobs[j])
  BY ZenonT(30) DEF Settled
<1>2. JobsOk(jobs', reg) /\ Cached(cache, jobs', reg)
  BY <1>1, OneJob, ZenonT(30) DEF CtlInv
<1>3. DOMAIN jobs = Jobs
  BY ZenonT(30) DEF CtlInv, JobsOk
<1> QED
  BY <1>2, <1>3, BegunMore, ZenonT(30)

\* A thread moves on, and the jobs do not.
LEMMA ThreadStep ==
    ASSUME CtlInv, NEW t \in Threads, NEW r, ThreadOk(r), threads' = [threads EXCEPT ![t] = r],
           UNCHANGED <<reg, cache, jobs>>,
           \/ calls' = calls /\ (Owes(r) => Owes(threads[t]))
           \/ calls' = calls + 1 /\ calls < MaxCalls
    PROVE  CtlInv'
<1>1. Changed(threads', threads, t, r)
  BY ChangedAt, ZenonT(30) DEF CtlInv, ThreadsOk
<1>2. /\ ThreadsOk(threads')
      /\ (Owes(threads[t]) <=> Owes(r)) => Cardinality(Owing(threads')) = Cardinality(Owing(threads))
      /\ ~Owes(threads[t]) /\ Owes(r) => Cardinality(Owing(threads')) = Cardinality(Owing(threads)) + 1
      /\ Owes(threads[t]) /\ ~Owes(r) => Cardinality(Owing(threads')) = Cardinality(Owing(threads)) - 1
  BY <1>1, OneThread DEF CtlInv
<1>3. /\ Cardinality(Begun(jobs)) \in Nat /\ Cardinality(Owing(threads)) \in Nat
      /\ Cardinality(Owing(threads')) \in Nat
  BY Finite, ZenonT(30)
<1>4. Counted(jobs, threads', calls')
  BY <1>2, <1>3, CtlAssumption DEF CtlInv, Counted
<1> QED
  BY <1>2, <1>4, ZenonT(30) DEF CtlInv

\* start_transfer, first region: the thread comes to a future, or plans.
LEMMA CallKeeps ==
    ASSUME CtlInv, NEW t \in Threads, NEW r \in Reqs, NEW k \in Keys, NEW kind \in Kinds,
           Call(t, r, k, kind)
    PROVE  CtlInv'
<1>1. kind \in Sends
  BY CtlAssumption, ZenonT(30) DEF Call, Sends
<1>2. CASE tasks[r] # 0
  <2> DEFINE q == [Idle EXCEPT !.pc = "attach", !.job = tasks[r]]
  <2>0. Comes(q, "attach", tasks[r])
    BY ZenonT(30) DEF Comes
  <2>2. threads' = [threads EXCEPT ![t] = q]
    BY <1>2, ZenonT(30) DEF Call, SetThread
  <2> HIDE DEF q
  <2>1. ThreadOk(q)
    BY <2>0, ThreadComes, ZenonT(30)
  <2> QED
    BY <2>1, <2>2, ThreadStep, ZenonT(30) DEF Call
<1>3. CASE tasks[r] = 0
  <2> DEFINE q == [[Idle EXCEPT !.kind = kind, !.req = r, !.key = k] EXCEPT !.pc = "plan"]
  <2>0. Plans(q, kind, r, k)
    BY ZenonT(30) DEF Plans
  <2>2. threads' = [threads EXCEPT ![t] = q]
    BY <1>3, ZenonT(30) DEF Call, SetThread
  <2> HIDE DEF q
  <2>1. ThreadOk(q)
    BY <1>1, <2>0, ThreadPlans, ZenonT(30)
  <2> QED
    BY <2>1, <2>2, ThreadStep, ZenonT(30) DEF Call
<1> QED
  BY <1>2, <1>3, ZenonT(30)

\* The plan is recorded: the thread still owes its future.
LEMMA RecordPlanKeeps ==
    ASSUME CtlInv, NEW t \in Threads, RecordPlan(t)
    PROVE  CtlInv'
<1> DEFINE q == [threads[t] EXCEPT !.pc = "publish"]
<1>1. ThreadOk(threads[t]) /\ Owes(threads[t])
  BY ZenonT(30) DEF CtlInv, ThreadsOk, RecordPlan, Owes
<1>0. Moved(q, threads[t], "publish")
  BY ZenonT(30) DEF Moved
<1>3. threads' = [threads EXCEPT ![t] = q]
  BY ZenonT(30) DEF RecordPlan, SetThread
<1> HIDE DEF q
<1>2. ThreadOk(q)
  BY <1>0, <1>1, ThreadMoves, ZenonT(30)
<1> QED
  BY <1>1, <1>2, <1>3, ThreadStep, ZenonT(30) DEF RecordPlan

\* The future is published: a job begins, and the thread owes none.
LEMMA PublishFutureKeeps ==
    ASSUME CtlInv, NEW t \in Threads, PublishFuture(t)
    PROVE  CtlInv'
<1> DEFINE j == CHOOSE i \in Jobs : jobs[i].st = "none"
           q == [Idle EXCEPT !.pc = "attach", !.job = j]
           th == threads[t]
           r == [NoJob EXCEPT !.kind = th.kind, !.req = th.req, !.key = th.key, !.st = "fresh"]
<1>1. ThreadOk(th) /\ Owes(th) /\ th.key \in Keys /\ th.kind \in Sends
  BY ZenonT(30) DEF CtlInv, ThreadsOk, ThreadOk, PublishFuture, Owes
<1>2. threads' = [threads EXCEPT ![t] = q] /\ jobs' = [jobs EXCEPT ![j] = r]
  BY ZenonT(30) DEF PublishFuture, SetThread, SetJob
<1>a. Comes(q, "attach", j)
  BY ZenonT(30) DEF Comes
<1>b. Published(r, th.kind, th.req, th.key)
  BY ZenonT(30) DEF Published
<1> HIDE DEF q, r, j, th
<1>3. ThreadOk(q) /\ q.pc = "attach"
  BY <1>a, ThreadComes, ZenonT(30)
<1>4. Shape(r) /\ r.key = th.key /\ r.kind = th.kind /\ r.st = "fresh"
  BY <1>b, JobPublished
<1>5. JobOk(r, reg)
  BY <1>1, <1>4, ZenonT(30) DEF JobOk
<1>6. Changed(threads', threads, t, q) /\ ~Owes(q)
  BY <1>2, <1>3, ChangedAt, ZenonT(30) DEF CtlInv, ThreadsOk, Owes
<1>7. ThreadsOk(threads') /\ Cardinality(Owing(threads')) = Cardinality(Owing(threads)) - 1
  BY <1>1, <1>3, <1>6, OneThread DEF CtlInv, th
<1>8. /\ Cardinality(Begun(jobs)) \in Nat /\ Cardinality(Owing(threads)) \in Nat
      /\ Cardinality(Owing(threads')) \in Nat
  BY Finite, ZenonT(30)
<1>9. Cardinality(Begun(jobs)) < MaxCalls
  BY <1>7, <1>8, CtlAssumption DEF CtlInv, Counted
<1>10. j \in Jobs /\ jobs[j].st = "none"
  BY <1>9, FreeJob, ZenonT(30) DEF j
<1>11. Changed(jobs', jobs, j, r)
  BY <1>2, <1>10, ChangedAt, ZenonT(30) DEF CtlInv, JobsOk
<1>12. /\ JobsOk(jobs', reg) /\ Cached(cache, jobs', reg)
       /\ Cardinality(Begun(jobs')) = Cardinality(Begun(jobs)) + 1
  BY <1>4, <1>5, <1>10, <1>11, JobBegins, ZenonT(30)
<1>13. UNCHANGED <<reg, cache, calls>>
  BY ZenonT(30) DEF PublishFuture
<1>14. Counted(jobs', threads', calls')
  BY <1>7, <1>8, <1>12, <1>13 DEF CtlInv, Counted
<1> QED
  BY <1>7, <1>12, <1>13, <1>14, ZenonT(30) DEF CtlInv

\* A warm-up begins a job of its own.
LEMMA WarmupKeeps ==
    ASSUME CtlInv, NEW t \in Threads, NEW k \in Keys, Warmup(t, k)
    PROVE  CtlInv'
<1> DEFINE j == CHOOSE i \in Jobs : jobs[i].st = "none"
           q == [Idle EXCEPT !.pc = "wait", !.job = j]
           r == [NoJob EXCEPT !.kind = "warm", !.key = k, !.st = "started", !.pc = "readDsts"]
<1>1. threads[t].pc = "idle"
  BY ZenonT(30) DEF Warmup, NextFree
<1>2. threads' = [threads EXCEPT ![t] = q] /\ jobs' = [jobs EXCEPT ![j] = r]
  BY ZenonT(30) DEF Warmup, SetThread, SetJob
<1>a. Comes(q, "wait", j)
  BY ZenonT(30) DEF Comes
<1>b. Warms(r, k)
  BY ZenonT(30) DEF Warms
<1> HIDE DEF q, r, j
<1>3. ThreadOk(q) /\ q.pc = "wait"
  BY <1>a, ThreadComes, ZenonT(30)
<1>4. Shape(r) /\ r.key = k /\ r.st = "started" /\ r.pc = "readDsts"
  BY <1>b, JobWarms, ZenonT(30)
<1>5. JobOk(r, reg)
  BY <1>4, ZenonT(30) DEF JobOk
<1>6. Changed(threads', threads, t, q) /\ ~Owes(q) /\ ~Owes(threads[t])
  BY <1>1, <1>2, <1>3, ChangedAt, ZenonT(30) DEF CtlInv, ThreadsOk, Owes
<1>7. ThreadsOk(threads') /\ Cardinality(Owing(threads')) = Cardinality(Owing(threads))
  BY <1>3, <1>6, OneThread, ZenonT(30) DEF CtlInv
<1>8. Cardinality(Begun(jobs)) \in Nat /\ Cardinality(Owing(threads)) \in Nat
  BY Finite, ZenonT(30)
<1>9. UNCHANGED <<reg, cache>> /\ calls < MaxCalls /\ calls' = calls + 1
  BY ZenonT(30) DEF Warmup
<1>10. Cardinality(Begun(jobs)) < MaxCalls
  BY <1>8, <1>9, CtlAssumption DEF CtlInv, Counted
<1>11. j \in Jobs /\ jobs[j].st = "none"
  BY <1>10, FreeJob, ZenonT(30) DEF j
<1>12. Changed(jobs', jobs, j, r)
  BY <1>2, <1>11, ChangedAt, ZenonT(30) DEF CtlInv, JobsOk
<1>13. /\ JobsOk(jobs', reg) /\ Cached(cache, jobs', reg)
       /\ Cardinality(Begun(jobs')) = Cardinality(Begun(jobs)) + 1
  BY <1>4, <1>5, <1>11, <1>12, JobBegins, ZenonT(30)
<1>14. Counted(jobs', threads', calls')
  BY <1>7, <1>8, <1>9, <1>13, CtlAssumption DEF CtlInv, Counted
<1> QED
  BY <1>7, <1>9, <1>13, <1>14, ZenonT(30) DEF CtlInv

\* A thread answers.
LEMMA ReplyKeeps ==
    ASSUME CtlInv, NEW t \in Threads, Reply(t)
    PROVE  CtlInv'
<1>1. ThreadOk(Idle) /\ Idle.pc = "idle"
  BY ThreadIdle, ZenonT(30)
<1>2. ~Owes(Idle)
  BY <1>1, ZenonT(30) DEF Owes
<1> QED
  BY <1>1, <1>2, ThreadStep, ZenonT(30) DEF Reply, SetThread

\* Jobs that are the same at every place.
LEMMA SameJobs ==
    ASSUME NEW J, NEW C, NEW G, JobsOk(J, G), Cached(C, J, G),
           NEW K, DOMAIN K = Jobs, \A i \in Jobs : K[i] = J[i]
    PROVE  JobsOk(K, G) /\ Cached(C, K, G) /\ Begun(K) = Begun(J)
<1>1. JobsOk(K, G)
  BY ZenonT(30) DEF JobsOk
<1>2. Cached(C, K, G)
  BY ZenonT(30) DEF Cached
<1>3. Begun(K) = Begun(J)
  BY ZenonT(30) DEF Begun
<1> QED
  BY <1>1, <1>2, <1>3, ZenonT(30)

\* A function changed outside its domain is the same at every place.
LEMMA ChangedOutside ==
    ASSUME NEW f, NEW a, a \notin DOMAIN f, NEW r, NEW g, g = [f EXCEPT ![a] = r]
    PROVE  DOMAIN g = DOMAIN f /\ \A x \in DOMAIN f : g[x] = f[x]
BY ZenonT(30)

\* The job and the thread of Attach.
LEMMA AttachKeeps ==
    ASSUME CtlInv, NEW t \in Threads, Attach(t)
    PROVE  CtlInv'
<1> DEFINE th == threads[t]
           jb == jobs[th.job]
           q == [th EXCEPT !.pc = "wait"]
           r == [jb EXCEPT !.st = "started", !.pc = FirstStep(jb.kind)]
<1>a. Moved(q, th, "wait")
  BY ZenonT(30) DEF Moved
<1>b. Started(r, jb, FirstStep(jb.kind))
  BY ZenonT(30) DEF Started
<1>c. threads' = [threads EXCEPT ![t] = q] /\ UNCHANGED <<reg, cache, calls>>
  BY ZenonT(30) DEF Attach, SetThread
<1>d. jb.st = "fresh" => jobs' = [jobs EXCEPT ![th.job] = r]
  BY ZenonT(30) DEF Attach, SetJob
<1>e. jb.st # "fresh" => jobs' = jobs
  BY ZenonT(30) DEF Attach
<1> HIDE DEF q, r
<1>1. ThreadOk(th)
  BY ZenonT(30) DEF CtlInv, ThreadsOk
<1>2. ThreadOk(q) /\ q.pc = "wait"
  BY <1>a, <1>1, ThreadMoves, ZenonT(30)
<1>3. ~Owes(q) /\ ~Owes(threads[t])
  BY <1>2, ZenonT(30) DEF Owes, Attach
<1>4. Changed(threads', threads, t, q)
  BY <1>c, ChangedAt, ZenonT(30) DEF CtlInv, ThreadsOk
<1>5. ThreadsOk(threads') /\ Cardinality(Owing(threads')) = Cardinality(Owing(threads))
  BY <1>2, <1>3, <1>4, OneThread, ZenonT(30) DEF CtlInv
<1>6. JobsOk(jobs', reg) /\ Cached(cache, jobs', reg) /\ Begun(jobs') = Begun(jobs)
  <2>1. CASE jb.st # "fresh"
    BY <1>e, <2>1, ZenonT(30) DEF CtlInv
  <2>2. CASE jb.st = "fresh" /\ th.job \in Jobs
    <3>1. Changed(jobs', jobs, th.job, r)
      BY <1>d, <2>2, ChangedAt, ZenonT(30) DEF CtlInv, JobsOk
    <3>2. Shape(jb) /\ jb.key \in Keys /\ jb.kind \in Sends
      BY <2>2, ZenonT(30) DEF CtlInv, JobsOk, JobOk
    <3>3. Shape(r) /\ r.key = jb.key /\ r.st = "started" /\ r.pc = FirstStep(jb.kind)
      BY <1>b, <3>2, JobStarts
    <3>4. FirstStep(jb.kind) \in {"lookup", "readDsts", "dispatch", "fetch"}
      BY <3>2, ZenonT(30) DEF FirstStep, Sends
    <3>5. JobOk(r, reg)
      BY <3>2, <3>3, <3>4, ZenonT(30) DEF JobOk
    <3>6. ~Settled(jobs[th.job])
      BY <2>2, ZenonT(30) DEF Settled
    <3>7. JobsOk(jobs', reg) /\ Cached(cache, jobs', reg)
      BY <2>2, <3>1, <3>5, <3>6, OneJob, ZenonT(30) DEF CtlInv
    <3>8. \A i \in Jobs : jobs'[i].st = "none" <=> jobs[i].st = "none"
      BY <2>2, <3>1, <3>3, ZenonT(30) DEF Changed, CtlInv, JobsOk
    <3> QED
      BY <3>7, <3>8, BegunSame, ZenonT(30)
  <2>3. CASE jb.st = "fresh" /\ th.job \notin Jobs
    <3>1. DOMAIN jobs = Jobs
      BY ZenonT(30) DEF CtlInv, JobsOk
    <3>2. DOMAIN jobs' = Jobs /\ \A i \in Jobs : jobs'[i] = jobs[i]
      BY <1>d, <2>3, <3>1, ChangedOutside, ZenonT(30)
    <3> QED
      BY <3>2, SameJobs, ZenonT(30) DEF CtlInv
  <2> QED
    BY <2>1, <2>2, <2>3, ZenonT(30)
<1>7. Counted(jobs', threads', calls')
  BY <1>c, <1>5, <1>6, ZenonT(30) DEF CtlInv, Counted
<1> QED
  BY <1>c, <1>5, <1>6, <1>7, ZenonT(30) DEF CtlInv

\* A step of a job that only moves it on, from a step before its schedule is
\* read or after it is settled.
LEMMA JobMovesOn ==
    ASSUME CtlInv, NEW j \in Jobs, NEW r, Shape(r), r.key = jobs[j].key, r.sched = jobs[j].sched,
           jobs[j].st = "started", r.st \in {"started", "done"},
           r.st = "started" => r.pc \notin {"readSrcs", "insert"},
           Settled(jobs[j]) => Settled(r),
           Changed(jobs', jobs, j, r), UNCHANGED <<reg, cache, threads, calls>>
    PROVE  CtlInv'
<1>1. jobs[j].key \in Keys
  BY ZenonT(30) DEF CtlInv, JobsOk, JobOk
<1>2. JobOk(r, reg)
  BY <1>1, ZenonT(30) DEF JobOk
<1>3. jobs[j].st # "none" /\ r.st # "none"
  BY ZenonT(30)
<1> QED
  BY <1>2, <1>3, JobStep, ZenonT(30)

\* The cache is read: the job has another schedule, or computes its own.
LEMMA LookupScheduleKeeps ==
    ASSUME CtlInv, NEW j \in Jobs, LookupSchedule(j)
    PROVE  CtlInv'
<1> DEFINE hit == cache[jobs[j].key]
           b == IF hit = 0 THEN "readDsts" ELSE "final"
           r == [jobs[j] EXCEPT !.plan = hit, !.pc = b]
<1>1. jobs' = [jobs EXCEPT ![j] = r] /\ jobs[j].st = "started" /\ jobs[j].pc = "lookup"
  BY ZenonT(30) DEF LookupSchedule, SetJob, At
<1>2. Planned(r, jobs[j], hit, b) /\ b \in {"readDsts", "final"}
  BY ZenonT(30) DEF Planned
<1> HIDE DEF r, b, hit
<1>3. Shape(jobs[j]) /\ DOMAIN jobs = Jobs
  BY ZenonT(30) DEF CtlInv, JobsOk, JobOk
<1>4. Shape(r) /\ r.key = jobs[j].key /\ r.sched = jobs[j].sched /\ r.st = jobs[j].st /\ r.pc = b
  BY <1>2, <1>3, JobPlans
<1>5. Changed(jobs', jobs, j, r)
  BY <1>1, <1>3, ChangedAt, ZenonT(30)
<1>6. UNCHANGED <<reg, cache, threads, calls>>
  BY ZenonT(30) DEF LookupSchedule
<1>7. ~Settled(jobs[j]) /\ r.st \in {"started", "done"} /\ r.pc \notin {"readSrcs", "insert"}
  BY <1>1, <1>2, <1>4, ZenonT(30) DEF Settled
<1> QED
  BY <1>1, <1>4, <1>5, <1>6, <1>7, JobMovesOn, ZenonT(30)

\* The final plan is recorded.
LEMMA FinalPlanKeeps ==
    ASSUME CtlInv, NEW j \in Jobs, FinalPlan(j)
    PROVE  CtlInv'
<1> DEFINE r == [jobs[j] EXCEPT !.pc = "dispatch"]
<1>1. jobs' = [jobs EXCEPT ![j] = r] /\ jobs[j].st = "started"
  BY ZenonT(30) DEF FinalPlan, SetJob, At
<1>2. Moved(r, jobs[j], "dispatch")
  BY ZenonT(30) DEF Moved
<1> HIDE DEF r
<1>3. Shape(jobs[j]) /\ DOMAIN jobs = Jobs
  BY ZenonT(30) DEF CtlInv, JobsOk, JobOk
<1>4. Shape(r) /\ r.key = jobs[j].key /\ r.sched = jobs[j].sched /\ r.st = jobs[j].st /\ r.pc = "dispatch"
  BY <1>2, <1>3, JobMoves
<1>5. Changed(jobs', jobs, j, r)
  BY <1>1, <1>3, ChangedAt, ZenonT(30)
<1>6. UNCHANGED <<reg, cache, threads, calls>>
  BY ZenonT(30) DEF FinalPlan
<1>7. Settled(r) /\ r.st \in {"started", "done"} /\ r.pc \notin {"readSrcs", "insert"}
  BY <1>1, <1>4, ZenonT(30) DEF Settled
<1> QED
  BY <1>1, <1>4, <1>5, <1>6, <1>7, JobMovesOn, ZenonT(30)

\* A job that ends.
LEMMA EndJobKeeps ==
    ASSUME CtlInv, NEW j \in Jobs, NEW f, EndJob(j, f), jobs[j].st = "started",
           UNCHANGED <<reg, cache, threads, calls>>
    PROVE  CtlInv'
<1> DEFINE r == [jobs[j] EXCEPT !.st = "done", !.pc = "none", !.plan = 0, !.req = "none"]
<1>1. jobs' = [jobs EXCEPT ![j].st = "done", ![j].pc = "none", ![j].plan = 0, ![j].req = "none"]
  BY ZenonT(30) DEF EndJob
<1>2. Ended(r, jobs[j])
  BY ZenonT(30) DEF Ended
<1>3. Shape(jobs[j]) /\ DOMAIN jobs = Jobs
  BY ZenonT(30) DEF CtlInv, JobsOk, JobOk
<1>5. Changed(jobs', jobs, j, r)
  BY <1>1, <1>3, ZenonT(30) DEF Changed
<1> HIDE DEF r
<1>4. Shape(r) /\ r.key = jobs[j].key /\ r.sched = jobs[j].sched /\ r.st = "done"
  BY <1>2, <1>3, JobEnds, ZenonT(30)
<1>7. Settled(r) /\ r.st \in {"started", "done"} /\ r.st # "started"
  BY <1>4, ZenonT(30) DEF Settled
<1> QED
  BY <1>4, <1>5, <1>7, JobMovesOn, ZenonT(30)

\* A transfer in one piece finds its plan, or ends.
LEMMA FetchPlanKeeps ==
    ASSUME CtlInv, NEW j \in Jobs, FetchPlan(j)
    PROVE  CtlInv'
<1>1. jobs[j].st = "started" /\ UNCHANGED <<reg, cache, threads, calls>>
  BY ZenonT(30) DEF FetchPlan, At
<1>2. CASE jobs[j].req \in Range(transfers)
  <2> DEFINE r == [jobs[j] EXCEPT !.pc = "dispatch"]
  <2>1. jobs' = [jobs EXCEPT ![j] = r]
    BY <1>2, ZenonT(30) DEF FetchPlan, SetJob
  <2>2. Moved(r, jobs[j], "dispatch")
    BY ZenonT(30) DEF Moved
  <2> HIDE DEF r
  <2>3. Shape(jobs[j]) /\ DOMAIN jobs = Jobs
    BY ZenonT(30) DEF CtlInv, JobsOk, JobOk
  <2>4. Shape(r) /\ r.key = jobs[j].key /\ r.sched = jobs[j].sched /\ r.st = jobs[j].st /\ r.pc = "dispatch"
    BY <2>2, <2>3, JobMoves
  <2>5. Changed(jobs', jobs, j, r)
    BY <2>1, <2>3, ChangedAt, ZenonT(30)
  <2>7. Settled(r) /\ r.st \in {"started", "done"} /\ r.pc \notin {"readSrcs", "insert"}
    BY <1>1, <2>4, ZenonT(30) DEF Settled
  <2> QED
    BY <1>1, <2>4, <2>5, <2>7, JobMovesOn, ZenonT(30)
<1>3. CASE jobs[j].req \notin Range(transfers)
  BY <1>1, <1>3, EndJobKeeps, ZenonT(30) DEF FetchPlan
<1> QED
  BY <1>2, <1>3, ZenonT(30)

\* The workers answer, or fail.
LEMMA DispatchEndsKeeps ==
    ASSUME CtlInv, NEW j \in Jobs, DispatchEnds(j)
    PROVE  CtlInv'
<1>1. PICK f \in BOOLEAN : EndJob(j, f)
  BY ZenonT(30) DEF DispatchEnds
<1>2. jobs[j].st = "started" /\ UNCHANGED <<reg, cache, threads, calls>>
  BY ZenonT(30) DEF DispatchEnds, At
<1> HIDE DEF EndJob
<1> QED
  BY <1>1, <1>2, EndJobKeeps, ZenonT(30)

\* The first read: the destinations are as they are registered now.
LEMMA ReadDstsKeeps ==
    ASSUME CtlInv, NEW j \in Jobs, ReadDsts(j)
    PROVE  CtlInv'
<1> DEFINE k == jobs[j].key
           topo == [u \in k.dsts |-> reg[u].topo]
           peers == [u \in k.dsts |-> reg[u].shards]
           s == [NoSched EXCEPT !.topo = topo, !.peers = peers]
           r == [jobs[j] EXCEPT !.pc = "readSrcs", !.sched = s]
<1>1. /\ jobs' = [jobs EXCEPT ![j] = r] /\ jobs[j].st = "started" /\ jobs[j].pc = "readDsts"
      /\ UNCHANGED <<reg, cache, threads, calls>>
  BY ZenonT(30) DEF ReadDsts, SetJob, At
<1>2. Reads(r, jobs[j], "readSrcs", s)
  BY ZenonT(30) DEF Reads
<1> HIDE DEF r
<1>3. Shape(jobs[j]) /\ k \in Keys /\ DOMAIN jobs = Jobs
  BY ZenonT(30) DEF CtlInv, JobsOk, JobOk
<1>t. \A u \in k.dsts : topo[u] = reg[u].topo /\ peers[u] = reg[u].shards
  BY ZenonT(30)
<1> HIDE DEF topo, peers
<1>s. s = [NoSched EXCEPT !.topo = topo, !.peers = peers]
  BY ZenonT(30)
<1> HIDE DEF s, k
<1>4. s = [topo |-> topo, peers |-> peers, eps |-> NoSched.eps, missed |-> NoSched.missed]
  BY <1>s, NoSchedShape, ZenonT(30) DEF ShapeOf
<1>5. ShapeOf(s)
  BY <1>4, ZenonT(30) DEF ShapeOf
<1>6. FreshDsts(s, k, reg)
  <2>1. s.topo = topo /\ s.peers = peers
    BY <1>4, ZenonT(30)
  <2> QED
    BY <1>t, <2>1, ZenonT(30) DEF FreshDsts, FreshDst
<1>7. Shape(r) /\ r.key = k /\ r.st = "started" /\ r.pc = "readSrcs" /\ r.sched = s
  BY <1>1, <1>2, <1>3, <1>5, JobReads DEF k
<1>8. JobOk(r, reg)
  BY <1>3, <1>6, <1>7, ZenonT(30) DEF JobOk
<1>9. ~Settled(jobs[j]) /\ jobs[j].st # "none" /\ r.st # "none"
  BY <1>1, <1>7, ZenonT(30) DEF Settled
<1>10. Changed(jobs', jobs, j, r)
  BY <1>1, <1>3, ChangedAt, ZenonT(30)
<1> QED
  BY <1>1, <1>8, <1>9, <1>10, JobStep, ZenonT(30)

\* The second read: what the first took is still so, or is marked.
LEMMA ReadSrcsKeeps ==
    ASSUME CtlInv, NEW j \in Jobs, ReadSrcs(j)
    PROVE  CtlInv'
<1> DEFINE k == jobs[j].key
           old == jobs[j].sched
           topo == [u \in Members(k) |-> IF u \in k.dsts THEN old.topo[u] ELSE reg[u].topo]
           eps == [u \in Members(k) |-> reg[u].eps]
           s == [old EXCEPT !.topo = topo, !.eps = eps]
           r == [jobs[j] EXCEPT !.pc = "insert", !.sched = s]
<1>1. /\ jobs' = [jobs EXCEPT ![j] = r] /\ jobs[j].st = "started" /\ jobs[j].pc = "readSrcs"
      /\ UNCHANGED <<reg, cache, threads, calls>>
  BY ZenonT(30) DEF ReadSrcs, SetJob, At
<1>2. Reads(r, jobs[j], "insert", s)
  BY ZenonT(30) DEF Reads
<1> HIDE DEF r
<1>3. Shape(jobs[j]) /\ k \in Keys /\ DOMAIN jobs = Jobs
  BY ZenonT(30) DEF CtlInv, JobsOk, JobOk
<1>4. FreshDsts(old, k, reg)
  BY <1>1, ZenonT(30) DEF CtlInv, JobsOk, JobOk
<1>5. ShapeOf(old)
  BY <1>3, ZenonT(30) DEF Shape
<1>t. DOMAIN eps = Members(k) /\ \A u \in Members(k) : eps[u] = reg[u].eps
  BY ZenonT(30)
<1>u. \A u \in Members(k) : topo[u] = IF u \in k.dsts THEN old.topo[u] ELSE reg[u].topo
  BY ZenonT(30)
<1>s. s = [old EXCEPT !.topo = topo, !.eps = eps]
  BY ZenonT(30)
<1> HIDE DEF s, old, k, topo, eps
<1>6. s = [topo |-> topo, peers |-> old.peers, eps |-> eps, missed |-> old.missed]
  BY <1>5, <1>s, ZenonT(30) DEF ShapeOf
<1>7. s.topo = topo /\ s.peers = old.peers /\ s.eps = eps /\ s.missed = old.missed
  BY <1>6, ZenonT(30)
<1>8. ShapeOf(s)
  BY <1>6, ZenonT(30) DEF ShapeOf
<1>9. Fresh(s, k, reg)
  <2> SUFFICES ASSUME NEW u \in Members(k), u \notin old.missed PROVE FreshUnit(s, k, u, reg)
    BY <1>7, ZenonT(30) DEF Fresh
  <2>1. u \in k.dsts => old.topo[u] = reg[u].topo /\ old.peers[u] = reg[u].shards
    BY <1>4, ZenonT(30) DEF FreshDsts, FreshDst
  <2>2. topo[u] = reg[u].topo
    BY <1>u, <2>1, ZenonT(30)
  <2> QED
    BY <1>t, <1>7, <2>1, <2>2, ZenonT(30) DEF FreshUnit
<1>10. Shape(r) /\ r.key = k /\ r.st = "started" /\ r.pc = "insert" /\ r.sched = s
  BY <1>1, <1>2, <1>3, <1>8, JobReads DEF k
<1>11. JobOk(r, reg)
  BY <1>3, <1>t, <1>7, <1>9, <1>10, ZenonT(30) DEF JobOk
<1>12. ~Settled(jobs[j]) /\ jobs[j].st # "none" /\ r.st # "none"
  BY <1>1, <1>10, ZenonT(30) DEF Settled
<1>13. Changed(jobs', jobs, j, r)
  BY <1>1, <1>3, ChangedAt, ZenonT(30)
<1> QED
  BY <1>1, <1>11, <1>12, <1>13, JobStep, ZenonT(30)

\* The schedule is cached: it is fresh, and its job has settled.
LEMMA InsertScheduleKeeps ==
    ASSUME CtlInv, NEW j \in Jobs, InsertSchedule(j)
    PROVE  CtlInv'
<1> DEFINE k == jobs[j].key
           b == IF jobs[j].kind = "warm" THEN "return" ELSE "final"
           r == [jobs[j] EXCEPT !.plan = j, !.pc = b]
<1>1. /\ jobs' = [jobs EXCEPT ![j] = r] /\ jobs[j].st = "started" /\ jobs[j].pc = "insert"
      /\ UNCHANGED <<reg, threads, calls>> /\ cache' = [cache EXCEPT ![k] = j]
  BY ZenonT(30) DEF InsertSchedule, SetJob, At
<1>2. Planned(r, jobs[j], j, b) /\ b \in {"return", "final"}
  BY ZenonT(30) DEF Planned
<1> HIDE DEF r, b
<1>3. Shape(jobs[j]) /\ k \in Keys /\ DOMAIN jobs = Jobs
  BY ZenonT(30) DEF CtlInv, JobsOk, JobOk
<1>4. Fresh(jobs[j].sched, k, reg) /\ DOMAIN jobs[j].sched.eps = Members(k)
  BY <1>1, ZenonT(30) DEF CtlInv, JobsOk, JobOk
<1>5. Shape(r) /\ r.key = k /\ r.sched = jobs[j].sched /\ r.st = "started" /\ r.pc = b
  BY <1>1, <1>2, <1>3, JobPlans
<1>6. JobOk(r, reg) /\ Settled(r)
  BY <1>2, <1>3, <1>5, ZenonT(30) DEF JobOk, Settled
<1>7. ~Settled(jobs[j]) /\ jobs[j].st # "none" /\ r.st # "none"
  BY <1>1, <1>5, ZenonT(30) DEF Settled
<1>8. Changed(jobs', jobs, j, r)
  BY <1>1, <1>3, ChangedAt, ZenonT(30)
<1>9. JobsOk(jobs', reg) /\ Cached(cache, jobs', reg)
  BY <1>6, <1>7, <1>8, OneJob, ZenonT(30) DEF CtlInv
<1>10. Cached(cache', jobs', reg)
  <2>1. DOMAIN cache = Keys
    BY ZenonT(30) DEF CtlInv, Cached
  <2>2. Changed(cache', cache, k, j)
    BY <1>1, <1>3, <2>1, ChangedAt, ZenonT(30)
  <2>3. jobs'[j] = r
    BY <1>8, ZenonT(30) DEF Changed
  <2>4. ASSUME NEW x \in Keys, cache'[x] # 0
        PROVE  /\ cache'[x] \in Jobs /\ jobs'[cache'[x]].key = x /\ Settled(jobs'[cache'[x]])
               /\ Fresh(jobs'[cache'[x]].sched, x, reg)
               /\ DOMAIN jobs'[cache'[x]].sched.eps = Members(x)
    <3>1. CASE x = k
      <4>1. cache'[x] = j
        BY <2>2, <3>1, ZenonT(30) DEF Changed
      <4> QED
        BY <1>4, <1>5, <1>6, <2>3, <3>1, <4>1, ZenonT(30)
    <3>2. CASE x # k
      <4>1. cache'[x] = cache[x]
        BY <2>1, <2>2, <3>2, ZenonT(30) DEF Changed
      <4> QED
        BY <1>9, <2>4, <4>1, ZenonT(30) DEF Cached
    <3> QED
      BY <3>1, <3>2, ZenonT(30)
  <2>5. DOMAIN cache' = Keys
    BY <2>1, <2>2, ZenonT(30) DEF Changed
  <2> QED
    BY <2>4, <2>5, ZenonT(30) DEF Cached
<1>11. \A i \in Jobs : jobs'[i].st = "none" <=> jobs[i].st = "none"
  BY <1>3, <1>7, <1>8, ZenonT(30) DEF Changed
<1>12. Begun(jobs') = Begun(jobs)
  BY <1>11, BegunSame, ZenonT(30)
<1> QED
  BY <1>1, <1>9, <1>10, <1>12, ZenonT(30) DEF CtlInv, Counted

\* What a schedule that is patched, or kept, says of the units after one of
\* them was registered again.
LEMMA FreshAfter ==
    ASSUME NEW k \in Keys, NEW G, DOMAIN G = Units, NEW u \in Units, NEW g, NEW H, Changed(H, G, u, g)
    PROVE  /\ H[u] = g
           /\ \A v \in Members(k) : v # u => H[v] = G[v]
<1>1. Members(k) \subseteq Units
  BY ZenonT(30) DEF Members, Units
<1> QED
  BY <1>1, ZenonT(30) DEF Changed

\* A schedule of other units.
LEMMA FreshApart ==
    ASSUME NEW k \in Keys, NEW G, DOMAIN G = Units, NEW u \in Units, NEW g, NEW H, Changed(H, G, u, g),
           NEW s
    PROVE  /\ u \notin Members(k) /\ Fresh(s, k, G) => Fresh(s, k, H)
           /\ u \notin k.dsts /\ FreshDsts(s, k, G) => FreshDsts(s, k, H)
<1>1. \A v \in Members(k) : v # u => H[v] = G[v]
  BY FreshAfter
<1>2. u \notin Members(k) /\ Fresh(s, k, G) => Fresh(s, k, H)
  BY <1>1, ZenonT(30) DEF Fresh, FreshUnit
<1>3. \A v \in k.dsts : v \in Members(k)
  BY ZenonT(30) DEF Members
<1>4. u \notin k.dsts /\ FreshDsts(s, k, G) => FreshDsts(s, k, H)
  BY <1>1, <1>3, ZenonT(30) DEF FreshDsts, FreshDst
<1> QED
  BY <1>2, <1>4, ZenonT(30)

\* A schedule that misses the unit.
LEMMA FreshMissed ==
    ASSUME NEW k \in Keys, NEW G, DOMAIN G = Units, NEW u \in Units, NEW g, NEW H, Changed(H, G, u, g),
           NEW s, NEW z, z.topo = s.topo, z.peers = s.peers, z.eps = s.eps,
           z.missed = s.missed \cup {u}
    PROVE  (Fresh(s, k, G) => Fresh(z, k, H)) /\ (FreshDsts(s, k, G) => FreshDsts(z, k, H))
<1>1. \A v \in Members(k) : v # u => H[v] = G[v]
  BY FreshAfter
<1>m. \A v : v \notin z.missed => v \notin s.missed /\ v # u
  BY ZenonT(30)
<1>2. ASSUME Fresh(s, k, G), NEW v \in Members(k), v \notin z.missed PROVE FreshUnit(z, k, v, H)
  <2>1. FreshUnit(s, k, v, G) /\ H[v] = G[v]
    BY <1>1, <1>2, <1>m, ZenonT(30) DEF Fresh
  <2> QED
    BY <2>1, ZenonT(30) DEF FreshUnit
<1>3. \A v \in k.dsts : v \in Members(k)
  BY ZenonT(30) DEF Members
<1>4. ASSUME FreshDsts(s, k, G), NEW v \in k.dsts, v \notin z.missed PROVE FreshDst(z, v, H)
  <2>1. FreshDst(s, v, G) /\ H[v] = G[v]
    BY <1>1, <1>3, <1>4, <1>m, ZenonT(30) DEF FreshDsts
  <2> QED
    BY <2>1, ZenonT(30) DEF FreshDst
<1>5. Fresh(s, k, G) => Fresh(z, k, H)
  BY <1>2, ZenonT(30) DEF Fresh
<1>6. FreshDsts(s, k, G) => FreshDsts(z, k, H)
  BY <1>4, ZenonT(30) DEF FreshDsts
<1> QED
  BY <1>5, <1>6, ZenonT(30)

\* The unit is one that the computation of the job's schedule has read.
HasRead(r, u) == /\ r.st = "started"
                 /\ \/ r.pc = "readSrcs" /\ u \in r.key.dsts
                    \/ r.pc = "insert" /\ u \in Members(r.key)

\* A job that has not read the unit.
LEMMA JobApart ==
    ASSUME NEW G, DOMAIN G = Units, NEW u \in Units, NEW g, NEW H, Changed(H, G, u, g),
           NEW r, JobOk(r, G),
           ~HasRead(r, u)
    PROVE  JobOk(r, H)
<1>1. r.key \in Keys
  BY ZenonT(30) DEF JobOk
<1>2. /\ u \notin Members(r.key) /\ Fresh(r.sched, r.key, G) => Fresh(r.sched, r.key, H)
      /\ u \notin r.key.dsts /\ FreshDsts(r.sched, r.key, G) => FreshDsts(r.sched, r.key, H)
  BY <1>1, FreshApart, ZenonT(30)
<1> QED
  BY <1>2, ZenonT(30) DEF JobOk, HasRead

\* A job whose schedule is marked.
LEMMA JobMarked ==
    ASSUME NEW G, DOMAIN G = Units, NEW u \in Units, NEW g, NEW H, Changed(H, G, u, g),
           NEW r, JobOk(r, G), NEW q, Missed(q, r, u)
    PROVE  /\ JobOk(q, H) /\ q.key = r.key /\ q.st = r.st /\ q.pc = r.pc
           /\ q.sched.eps = r.sched.eps
           /\ Fresh(r.sched, r.key, G) => Fresh(q.sched, r.key, H)
<1>1. Shape(r) /\ r.key \in Keys
  BY ZenonT(30) DEF JobOk
<1>2. /\ Shape(q) /\ q.key = r.key /\ q.st = r.st /\ q.pc = r.pc /\ q.kind = r.kind
      /\ q.sched.topo = r.sched.topo /\ q.sched.peers = r.sched.peers
      /\ q.sched.eps = r.sched.eps /\ q.sched.missed = r.sched.missed \cup {u}
  BY <1>1, JobMisses
<1>3. /\ Fresh(r.sched, r.key, G) => Fresh(q.sched, r.key, H)
      /\ FreshDsts(r.sched, r.key, G) => FreshDsts(q.sched, r.key, H)
  BY <1>1, <1>2, FreshMissed, ZenonT(30)
<1> QED
  BY <1>1, <1>2, <1>3, ZenonT(30) DEF JobOk

\* register_work_unit: a cached schedule of the unit is dropped, or patched into
\* what is registered now; one that is being computed is marked.
LEMMA RegisterKeeps ==
    ASSUME CtlInv, NEW u \in Units, NEW g \in Registrations, Register(u, g)
    PROVE  CtlInv'
<1> DEFINE kept == {k \in Keys : cache[k] # 0 /\ u \in Members(k) /\ ~Drops(u, g, k)}
           IsPatched(j) == g.eps # 0 /\ \E k \in kept : cache[k] = j
           IsMarked(j) == u \in ReadBy(j)
<1>1. Changed(reg', reg, u, g) /\ DOMAIN reg' = Units /\ DOMAIN reg = Units
  <2>1. DOMAIN reg = Units /\ reg' = [reg EXCEPT ![u] = g]
    BY ZenonT(30) DEF CtlInv, Register
  <2>2. Changed(reg', reg, u, g)
    BY <2>1, ChangedAt, ZenonT(30)
  <2> QED
    BY <2>1, <2>2, ZenonT(30) DEF Changed
<1>2. /\ DOMAIN cache' = Keys
      /\ \A k \in Keys : cache'[k] = IF u \in Members(k) /\ cache[k] # 0 /\ k \notin kept
                                     THEN 0 ELSE cache[k]
  BY ZenonT(30) DEF Register
<1>3. /\ DOMAIN jobs' = Jobs
      /\ \A j \in Jobs : jobs'[j] = IF IsPatched(j) THEN [jobs[j] EXCEPT !.sched.eps[u] = g.eps]
                                    ELSE IF IsMarked(j) THEN [jobs[j] EXCEPT !.sched.missed = @ \cup {u}]
                                    ELSE jobs[j]
  BY ZenonT(30) DEF Register
<1>a. \A j \in Jobs : IsPatched(j) => Patched(jobs'[j], jobs[j], u, g.eps)
  BY <1>3, ZenonT(30) DEF Patched
<1>b. \A j \in Jobs : ~IsPatched(j) /\ IsMarked(j) => Missed(jobs'[j], jobs[j], u)
  BY <1>3, ZenonT(30) DEF Missed
<1>c. \A j \in Jobs : ~IsPatched(j) /\ ~IsMarked(j) => jobs'[j] = jobs[j]
  BY <1>3, ZenonT(30)
<1>4. UNCHANGED <<threads, calls>>
  BY ZenonT(30) DEF Register
<1>k. \A k \in kept : k \in Keys /\ cache[k] # 0 /\ u \in Members(k) /\ ~Drops(u, g, k)
  BY ZenonT(30)
<1>l. \A k \in Keys : cache[k] # 0 /\ u \in Members(k) /\ ~Drops(u, g, k) => k \in kept
  BY ZenonT(30)
<1>d. \A j \in Jobs : IsPatched(j) => g.eps # 0 /\ \E k \in kept : cache[k] = j
  BY ZenonT(30)
<1>e. \A j \in Jobs : g.eps # 0 /\ (\E k \in kept : cache[k] = j) => IsPatched(j)
  BY ZenonT(30)
<1>f. \A j \in Jobs : IsMarked(j) <=> HasRead(jobs[j], u)
  BY ZenonT(30) DEF HasRead, ReadBy, At
<1> HIDE DEF kept, IsPatched, IsMarked
<1>5. ASSUME NEW j \in Jobs, IsPatched(j)
      PROVE  /\ JobOk(jobs'[j], reg') /\ jobs'[j].key = jobs[j].key
             /\ jobs'[j].st = jobs[j].st /\ jobs'[j].pc = jobs[j].pc
             /\ jobs'[j].sched.topo = jobs[j].sched.topo /\ jobs'[j].sched.peers = jobs[j].sched.peers
             /\ jobs'[j].sched.missed = jobs[j].sched.missed
             /\ DOMAIN jobs'[j].sched.eps = DOMAIN jobs[j].sched.eps /\ jobs'[j].sched.eps[u] = g.eps
             /\ \A v \in DOMAIN jobs[j].sched.eps \ {u} : jobs'[j].sched.eps[v] = jobs[j].sched.eps[v]
  <2>1. PICK k \in kept : cache[k] = j
    BY <1>5, <1>d, ZenonT(30)
  <2>2. k \in Keys /\ cache[k] # 0 /\ u \in Members(k)
    BY <1>k, ZenonT(30)
  <2>3. jobs[j].key = k /\ Settled(jobs[j]) /\ u \in DOMAIN jobs[j].sched.eps
    BY <2>1, <2>2, ZenonT(30) DEF CtlInv, Cached
  <2>4. JobOk(jobs[j], reg) /\ Shape(jobs[j]) /\ jobs[j].key \in Keys
    BY ZenonT(30) DEF CtlInv, JobsOk, JobOk
  <2>5. Patched(jobs'[j], jobs[j], u, g.eps)
    BY <1>5, <1>a, ZenonT(30)
  <2>6. /\ Shape(jobs'[j]) /\ jobs'[j].key = jobs[j].key
        /\ jobs'[j].st = jobs[j].st /\ jobs'[j].pc = jobs[j].pc
        /\ jobs'[j].sched.topo = jobs[j].sched.topo /\ jobs'[j].sched.peers = jobs[j].sched.peers
        /\ jobs'[j].sched.missed = jobs[j].sched.missed
        /\ DOMAIN jobs'[j].sched.eps = DOMAIN jobs[j].sched.eps /\ jobs'[j].sched.eps[u] = g.eps
        /\ \A v \in DOMAIN jobs[j].sched.eps \ {u} : jobs'[j].sched.eps[v] = jobs[j].sched.eps[v]
    BY <2>3, <2>4, <2>5, JobPatched
  <2>7. JobOk(jobs'[j], reg')
    BY <2>3, <2>4, <2>6, ZenonT(30) DEF JobOk, Settled
  <2> QED
    BY <2>6, <2>7, ZenonT(30)
<1>6. ASSUME NEW j \in Jobs
      PROVE  JobOk(jobs'[j], reg') /\ jobs'[j].key = jobs[j].key
             /\ jobs'[j].st = jobs[j].st /\ jobs'[j].pc = jobs[j].pc
  <2>0. JobOk(jobs[j], reg)
    BY ZenonT(30) DEF CtlInv, JobsOk
  <2>1. CASE IsPatched(j)
    BY <1>5, <2>1, ZenonT(30)
  <2>2. CASE ~IsPatched(j) /\ IsMarked(j)
    <3>1. Missed(jobs'[j], jobs[j], u)
      BY <1>b, <2>2, ZenonT(30)
    <3> QED
      BY <1>1, <2>0, <3>1, JobMarked
  <2>3. CASE ~IsPatched(j) /\ ~IsMarked(j)
    <3>1. jobs'[j] = jobs[j]
      BY <1>c, <2>3, ZenonT(30)
    <3>2. JobOk(jobs[j], reg')
      BY <1>1, <1>f, <2>0, <2>3, JobApart, ZenonT(30)
    <3> QED
      BY <3>1, <3>2, ZenonT(30)
  <2> QED
    BY <2>1, <2>2, <2>3, ZenonT(30)
<1>7. JobsOk(jobs', reg')
  BY <1>3, <1>6, ZenonT(30) DEF JobsOk
<1>8. ASSUME NEW k \in Keys, cache'[k] # 0
      PROVE  /\ cache'[k] \in Jobs /\ jobs'[cache'[k]].key = k /\ Settled(jobs'[cache'[k]])
             /\ Fresh(jobs'[cache'[k]].sched, k, reg')
             /\ DOMAIN jobs'[cache'[k]].sched.eps = Members(k)
  <2> DEFINE j == cache[k]
  <2>1. cache'[k] = j /\ j # 0 /\ (u \notin Members(k) \/ k \in kept)
    BY <1>2, <1>8, ZenonT(30)
  <2>2. /\ j \in Jobs /\ jobs[j].key = k /\ Settled(jobs[j])
        /\ Fresh(jobs[j].sched, k, reg) /\ DOMAIN jobs[j].sched.eps = Members(k)
    BY <2>1, ZenonT(30) DEF CtlInv, Cached
  <2>3. ~IsMarked(j)
    BY <1>f, <2>2, ZenonT(30) DEF Settled, HasRead
  <2>4. Settled(jobs'[j]) /\ jobs'[j].key = k
    BY <1>6, <2>2, ZenonT(30) DEF Settled
  <2>j. j = cache[k]
    BY ZenonT(30)
  <2> HIDE DEF j
  <2>5. CASE u \notin Members(k)
    <3>1. ~IsPatched(j)
      <4> SUFFICES ASSUME IsPatched(j) PROVE FALSE
        BY ZenonT(30)
      <4>1. PICK x \in kept : cache[x] = j
        BY <1>d, <2>2, ZenonT(30)
      <4>2. x \in Keys /\ cache[x] # 0 /\ u \in Members(x)
        BY <1>k, ZenonT(30)
      <4>3. jobs[j].key = x
        BY <4>1, <4>2, ZenonT(30) DEF CtlInv, Cached
      <4> QED
        BY <2>2, <2>5, <4>2, <4>3, ZenonT(30)
    <3>2. jobs'[j] = jobs[j]
      BY <1>c, <2>2, <2>3, <3>1, ZenonT(30)
    <3>3. Fresh(jobs[j].sched, k, reg')
      BY <1>1, <2>2, <2>5, FreshApart, ZenonT(30)
    <3> QED
      BY <2>1, <2>2, <2>4, <3>2, <3>3, ZenonT(30)
  <2>6. CASE u \in Members(k) /\ k \in kept
    <3>1. ~Drops(u, g, k)
      BY <1>k, <2>6, ZenonT(30)
    <3>2. reg[u].topo = g.topo /\ (u \in k.dsts => reg[u].shards = g.shards)
      BY <3>1, ZenonT(30) DEF Drops
    <3>3. reg'[u] = g /\ \A v \in Members(k) : v # u => reg'[v] = reg[v]
      BY <1>1, FreshAfter
    <3>4. CASE g.eps # 0
      <4>1. IsPatched(j)
        BY <1>e, <2>2, <2>6, <2>j, <3>4, ZenonT(30)
      <4>2. /\ jobs'[j].sched.topo = jobs[j].sched.topo /\ jobs'[j].sched.peers = jobs[j].sched.peers
            /\ jobs'[j].sched.missed = jobs[j].sched.missed
            /\ DOMAIN jobs'[j].sched.eps = Members(k) /\ jobs'[j].sched.eps[u] = g.eps
            /\ \A v \in Members(k) \ {u} : jobs'[j].sched.eps[v] = jobs[j].sched.eps[v]
        BY <1>5, <2>2, <4>1, ZenonT(30)
      <4>3. Fresh(jobs'[j].sched, k, reg')
        <5>1. ASSUME NEW v \in Members(k), v \notin jobs[j].sched.missed
              PROVE  /\ jobs[j].sched.topo[v] = reg'[v].topo
                     /\ v \in k.dsts => jobs[j].sched.peers[v] = reg'[v].shards
                     /\ reg'[v].eps # 0 => jobs'[j].sched.eps[v] = reg'[v].eps
          <6>1. /\ jobs[j].sched.topo[v] = reg[v].topo
                /\ v \in k.dsts => jobs[j].sched.peers[v] = reg[v].shards
                /\ reg[v].eps # 0 => jobs[j].sched.eps[v] = reg[v].eps
            BY <2>2, <5>1, ZenonT(30) DEF Fresh, FreshUnit
          <6>2. CASE v = u
            BY <3>2, <3>3, <4>2, <6>1, <6>2, ZenonT(30)
          <6>3. CASE v # u
            BY <3>3, <4>2, <6>1, <6>3, ZenonT(30)
          <6> QED
            BY <6>2, <6>3, ZenonT(30)
        <5> QED
          BY <4>2, <5>1, ZenonT(30) DEF Fresh, FreshUnit
      <4> QED
        BY <2>1, <2>2, <2>4, <4>2, <4>3, ZenonT(30)
    <3>5. CASE g.eps = 0
      <4>1. ~IsPatched(j)
        BY <1>d, <2>2, <3>5, ZenonT(30)
      <4>2. jobs'[j] = jobs[j]
        BY <1>c, <2>2, <2>3, <4>1, ZenonT(30)
      <4>3. Fresh(jobs[j].sched, k, reg')
        <5>1. ASSUME NEW v \in Members(k), v \notin jobs[j].sched.missed
              PROVE  FreshUnit(jobs[j].sched, k, v, reg')
          <6>1. FreshUnit(jobs[j].sched, k, v, reg)
            BY <2>2, <5>1, ZenonT(30) DEF Fresh
          <6>2. CASE v = u
            BY <3>2, <3>3, <3>5, <6>1, <6>2, ZenonT(30) DEF FreshUnit
          <6>3. CASE v # u
            BY <3>3, <6>1, <6>3, ZenonT(30) DEF FreshUnit
          <6> QED
            BY <6>2, <6>3, ZenonT(30)
        <5> QED
          BY <5>1, ZenonT(30) DEF Fresh
      <4> QED
        BY <2>1, <2>2, <2>4, <4>2, <4>3, ZenonT(30)
    <3> QED
      BY <3>4, <3>5, ZenonT(30)
  <2> QED
    BY <2>1, <2>5, <2>6, ZenonT(30)
<1>9. Cached(cache', jobs', reg')
  BY <1>2, <1>8, ZenonT(30) DEF Cached
<1>10. Begun(jobs') = Begun(jobs)
  BY <1>6, BegunSame, ZenonT(30)
<1> QED
  BY <1>1, <1>4, <1>7, <1>9, <1>10, ZenonT(30) DEF CtlInv, Counted

\* attach_host: every schedule of the unit is marked.
LEMMA AttachHostKeeps ==
    ASSUME CtlInv, NEW u \in Units, NEW g \in Registrations, AttachHost(u, g)
    PROVE  CtlInv'
<1> DEFINE IsMarked(j) == u \in ReadBy(j) \/ (u \in Members(jobs[j].key) /\ \E k \in Keys : cache[k] = j)
<1>1. Changed(reg', reg, u, g) /\ DOMAIN reg' = Units /\ DOMAIN reg = Units
  <2>1. DOMAIN reg = Units /\ reg' = [reg EXCEPT ![u] = g]
    BY ZenonT(30) DEF CtlInv, AttachHost
  <2>2. Changed(reg', reg, u, g)
    BY <2>1, ChangedAt, ZenonT(30)
  <2> QED
    BY <2>1, <2>2, ZenonT(30) DEF Changed
<1>2. UNCHANGED <<cache, threads, calls>>
  BY ZenonT(30) DEF AttachHost
<1>3. /\ DOMAIN jobs' = Jobs
      /\ \A j \in Jobs : jobs'[j] = IF IsMarked(j) THEN [jobs[j] EXCEPT !.sched.missed = @ \cup {u}]
                                    ELSE jobs[j]
  BY ZenonT(30) DEF AttachHost
<1>b. \A j \in Jobs : IsMarked(j) => Missed(jobs'[j], jobs[j], u)
  BY <1>3, ZenonT(30) DEF Missed
<1>c. \A j \in Jobs : ~IsMarked(j) => jobs'[j] = jobs[j]
  BY <1>3, ZenonT(30)
<1>d. \A j \in Jobs : HasRead(jobs[j], u) => IsMarked(j)
  BY ZenonT(30) DEF HasRead, ReadBy, At
<1>e. \A k \in Keys : u \in Members(jobs[cache[k]].key) => IsMarked(cache[k])
  BY ZenonT(30)
<1> HIDE DEF IsMarked
<1>4. ASSUME NEW j \in Jobs
      PROVE  /\ JobOk(jobs'[j], reg') /\ jobs'[j].key = jobs[j].key
             /\ jobs'[j].st = jobs[j].st /\ jobs'[j].pc = jobs[j].pc
             /\ jobs'[j].sched.eps = jobs[j].sched.eps
             /\ IsMarked(j) /\ Fresh(jobs[j].sched, jobs[j].key, reg) =>
                  Fresh(jobs'[j].sched, jobs[j].key, reg')
  <2>0. JobOk(jobs[j], reg)
    BY ZenonT(30) DEF CtlInv, JobsOk
  <2>1. CASE IsMarked(j)
    <3>1. Missed(jobs'[j], jobs[j], u)
      BY <1>b, <2>1, ZenonT(30)
    <3> QED
      BY <1>1, <2>0, <3>1, JobMarked
  <2>2. CASE ~IsMarked(j)
    <3>1. jobs'[j] = jobs[j]
      BY <1>c, <2>2, ZenonT(30)
    <3>2. JobOk(jobs[j], reg')
      BY <1>1, <1>d, <2>0, <2>2, JobApart, ZenonT(30)
    <3> QED
      BY <2>2, <3>1, <3>2, ZenonT(30)
  <2> QED
    BY <2>1, <2>2, ZenonT(30)
<1>5. JobsOk(jobs', reg')
  BY <1>3, <1>4, ZenonT(30) DEF JobsOk
<1>6. ASSUME NEW k \in Keys, cache[k] # 0
      PROVE  /\ cache[k] \in Jobs /\ jobs'[cache[k]].key = k /\ Settled(jobs'[cache[k]])
             /\ Fresh(jobs'[cache[k]].sched, k, reg')
             /\ DOMAIN jobs'[cache[k]].sched.eps = Members(k)
  <2> DEFINE j == cache[k]
  <2>1. /\ j \in Jobs /\ jobs[j].key = k /\ Settled(jobs[j])
        /\ Fresh(jobs[j].sched, k, reg) /\ DOMAIN jobs[j].sched.eps = Members(k)
    BY <1>6, ZenonT(30) DEF CtlInv, Cached
  <2>2. u \in Members(k) => IsMarked(j)
    BY <1>e, <2>1, ZenonT(30)
  <2>j. j = cache[k]
    BY ZenonT(30)
  <2> HIDE DEF j
  <2>3. Settled(jobs'[j]) /\ jobs'[j].key = k /\ DOMAIN jobs'[j].sched.eps = Members(k)
    BY <1>4, <2>1, ZenonT(30) DEF Settled
  <2>4. Fresh(jobs'[j].sched, k, reg')
    <3>1. CASE IsMarked(j)
      BY <1>4, <2>1, <3>1, ZenonT(30)
    <3>2. CASE ~IsMarked(j)
      <4>1. jobs'[j] = jobs[j]
        BY <1>c, <2>1, <3>2, ZenonT(30)
      <4>2. Fresh(jobs[j].sched, k, reg')
        BY <1>1, <2>1, <2>2, <3>2, FreshApart, ZenonT(30)
      <4> QED
        BY <4>1, <4>2, ZenonT(30)
    <3> QED
      BY <3>1, <3>2, ZenonT(30)
  <2> QED
    BY <2>1, <2>3, <2>4, <2>j, ZenonT(30)
<1>7. DOMAIN cache = Keys
  BY ZenonT(30) DEF CtlInv, Cached
<1>8. Cached(cache, jobs', reg')
  BY <1>6, <1>7, ZenonT(30) DEF Cached
<1>9. Begun(jobs') = Begun(jobs)
  BY <1>4, BegunSame, ZenonT(30)
<1> QED
  BY <1>1, <1>2, <1>5, <1>8, <1>9, ZenonT(30) DEF CtlInv, Counted

\* The empty cache.
LEMMA ClearPlanCacheKeeps ==
    ASSUME CtlInv, ClearPlanCache
    PROVE  CtlInv'
<1>1. DOMAIN cache' = Keys /\ \A k \in Keys : cache'[k] = 0
  BY ZenonT(30) DEF ClearPlanCache
<1>2. Cached(cache', jobs, reg)
  BY <1>1, ZenonT(30) DEF Cached
<1> QED
  BY <1>2, ZenonT(30) DEF CtlInv, ClearPlanCache

-----------------------------------------------------------------------------
(* The controller. *)

\* The first state.
LEMMA ControllerInit == CtlInit => CtlInv
<1> SUFFICES ASSUME CtlInit PROVE CtlInv
  BY ZenonT(30)
<1>1. DOMAIN reg = Units
  BY ZenonT(30) DEF CtlInit
<1>2. JobRec(NoJob, "none", "none", CHOOSE k \in Keys : TRUE, "none", "none", 0, NoSched)
  BY ZenonT(30) DEF JobRec, NoJob
<1>3. Shape(NoJob) /\ NoJob.key = (CHOOSE k \in Keys : TRUE) /\ NoJob.st = "none"
  BY <1>2, NoSchedShape, JobIs
<1>4. (CHOOSE k \in Keys : TRUE) \in Keys
  BY CtlAssumption, ZenonT(30)
<1>5. JobOk(NoJob, reg)
  BY <1>3, <1>4, ZenonT(30) DEF JobOk
<1>6. DOMAIN jobs = Jobs /\ \A j \in Jobs : jobs[j] = NoJob
  BY ZenonT(30) DEF CtlInit
<1>7. JobsOk(jobs, reg)
  BY <1>5, <1>6, ZenonT(30) DEF JobsOk
<1>8. DOMAIN cache = Keys /\ \A k \in Keys : cache[k] = 0
  BY ZenonT(30) DEF CtlInit
<1>9. Cached(cache, jobs, reg)
  BY <1>8, ZenonT(30) DEF Cached
<1>10. DOMAIN threads = Threads /\ \A t \in Threads : threads[t] = Idle
  BY ZenonT(30) DEF CtlInit
<1>11. ThreadsOk(threads)
  BY <1>10, ThreadIdle, ZenonT(30) DEF ThreadsOk
<1>a. \A t \in Threads : ~Owes(threads[t])
  BY <1>10, ThreadIdle, ZenonT(30) DEF Owes
<1>b. Begun(jobs) = {}
  BY <1>3, <1>6, ZenonT(30) DEF Begun
<1>c. Owing(threads) = {}
  BY <1>a, ZenonT(30) DEF Owing
<1>d. calls = 0
  BY ZenonT(30) DEF CtlInit
<1>13. Cardinality({}) = 0
  BY FS_EmptySet, ZenonT(30)
<1>14. Counted(jobs, threads, calls)
  BY <1>b, <1>c, <1>d, <1>13, CtlAssumption DEF Counted
<1> QED
  BY <1>1, <1>7, <1>9, <1>11, <1>14, ZenonT(30) DEF CtlInv

\* Every step.
LEMMA ControllerKeeps == CtlInv /\ [CtlNext]_ctlVars => CtlInv'
<1> SUFFICES ASSUME CtlInv, [CtlNext]_ctlVars PROVE CtlInv'
  BY ZenonT(30)
<1>1. CASE UNCHANGED ctlVars
  BY <1>1, ZenonT(30) DEF ctlVars, CtlInv
<1>2. ASSUME NEW t \in Threads, RecordPlan(t) \/ PublishFuture(t) \/ Attach(t) \/ Reply(t) PROVE CtlInv'
  BY <1>2, RecordPlanKeeps, PublishFutureKeeps, AttachKeeps, ReplyKeeps, ZenonT(30)
<1>3. ASSUME NEW j \in Jobs,
             \/ LookupSchedule(j) \/ ReadDsts(j) \/ ReadSrcs(j) \/ InsertSchedule(j)
             \/ FinalPlan(j) \/ FetchPlan(j) \/ DispatchEnds(j)
      PROVE  CtlInv'
  BY <1>3, LookupScheduleKeeps, ReadDstsKeeps, ReadSrcsKeeps, InsertScheduleKeeps,
     FinalPlanKeeps, FetchPlanKeeps, DispatchEndsKeeps, ZenonT(30)
<1>4. ASSUME NEW t \in Threads, NEW k \in Keys,
             Warmup(t, k) \/ \E r \in Reqs, kind \in Kinds : Call(t, r, k, kind)
      PROVE  CtlInv'
  BY <1>4, WarmupKeeps, CallKeeps, ZenonT(30)
<1>5. ASSUME NEW u \in Units, NEW g \in Registrations, Register(u, g) \/ AttachHost(u, g) PROVE CtlInv'
  BY <1>5, RegisterKeeps, AttachHostKeeps, ZenonT(30)
<1>6. CASE ClearPlanCache
  BY <1>6, ClearPlanCacheKeeps, ZenonT(30)
<1> QED
  BY <1>1, <1>2, <1>3, <1>4, <1>5, <1>6, ZenonT(30) DEF CtlNext, CtlProgress

\* What the invariant says of the cache.
LEMMA ControllerFresh == CtlInv => ScheduleFresh
BY ZenonT(30) DEF CtlInv, Cached, Fresh, FreshUnit, ScheduleFresh

-----------------------------------------------------------------------------
(* The invariant of the payload cache. *)

Patching == {"uuid", "req", "skip", "bytes"}

\* A payload, or what an encoder made, is of the call, unless two patched it.
Names(x, c) == x.raced \/ (x.bytes.uuid = c.uuid /\ x.bytes.skip = c.skip)

EncoderRec(q, pc, c, o, b, z) == q = [pc |-> pc, call |-> c, obj |-> o, bytes |-> b, raced |-> z]

\* An encoder: the object it holds exists, has what the encoder assigned, or
\* another patched it too, and what it serialized is of its call.
EncoderOk(r, R, n) ==
    /\ EncoderRec(r, r.pc, r.call, r.obj, r.bytes, r.raced)
    /\ r.call \in Transfers /\ r.obj \in 0..n
    /\ r.pc \in Patching \cup {"build", "storeNew"} => r.obj # 0
    /\ r.pc \in {"req", "skip", "bytes"} => r.raced \/ R[r.obj].uuid = r.call.uuid
    /\ r.pc = "bytes" => r.raced \/ R[r.obj].skip = r.call.skip
    /\ r.pc \in {"store", "storeNew", "sent"} => Names(r, r.call)

\* Nobody else holds the object that an encoder is about to build.
Alone(E, m, n) ==
    \A e \in Encoders : E[e].pc = "build" =>
        m # E[e].obj /\ \A x \in Encoders \ {e} : E[x].obj # E[e].obj

EncodersOk(E, R, n) == DOMAIN E = Encoders /\ \A e \in Encoders : EncoderOk(E[e], R, n)

RequestOk(q) == q = [uuid |-> q.uuid, req |-> q.req, skip |-> q.skip]
RequestsOk(R) == DOMAIN R = Objects /\ \A o \in Objects : RequestOk(R[o])

\* The dictionary: payloads of the remembered calls, each of its call.
Remembered(k, P) == \E i \in DOMAIN P : k = CacheKey(P[i]) \/ k = SteadyKey(P[i])
Stored(S, P) ==
    /\ \A k \in DOMAIN S : Remembered(k, P)
    /\ \A c \in Transfers : /\ CacheKey(c) \in DOMAIN S => Names(S[CacheKey(c)], c)
                            /\ SteadyKey(c) \in DOMAIN S => Names(S[SteadyKey(c)], c)

PayInv ==
    /\ Stored(store, prev) /\ prev \in Seq(Transfers)
    /\ RequestsOk(requests) /\ encodes \in 0..MaxEncodes /\ template \in 0..encodes
    /\ EncodersOk(encoders, requests, encodes) /\ Alone(encoders, template, encodes)

\* An encoder written out.
LEMMA EncoderIs ==
    ASSUME NEW pc, NEW c \in Transfers, NEW o, NEW b, NEW z, NEW q, EncoderRec(q, pc, c, o, b, z)
    PROVE  /\ q.pc = pc /\ q.call = c /\ q.obj = o /\ q.bytes = b /\ q.raced = z
           /\ EncoderRec(q, q.pc, q.call, q.obj, q.bytes, q.raced)
<1>1. q.pc = pc /\ q.call = c /\ q.obj = o /\ q.bytes = b /\ q.raced = z
  BY ZenonT(30) DEF EncoderRec
<1> QED
  BY <1>1, ZenonT(30)

\* The free encoder, written out.
LEMMA FreeIs ==
    /\ EncoderRec(Free, "idle", CHOOSE c \in Transfers : TRUE, 0, <<>>, FALSE)
    /\ (CHOOSE c \in Transfers : TRUE) \in Transfers
BY PayAssumption, ZenonT(30) DEF Free, EncoderRec

\* A free encoder is right.
LEMMA FreeOk == ASSUME NEW R, NEW n \in Nat PROVE EncoderOk(Free, R, n) /\ Free.pc = "idle" /\ Free.obj = 0
<1> DEFINE c == CHOOSE x \in Transfers : TRUE
           b == <<>>
           f == FALSE
<1>1. EncoderRec(Free, "idle", c, 0, b, f) /\ c \in Transfers
  BY FreeIs, ZenonT(30)
<1> HIDE DEF c, b, f
<1>2. /\ Free.pc = "idle" /\ Free.call = c /\ Free.obj = 0
      /\ EncoderRec(Free, Free.pc, Free.call, Free.obj, Free.bytes, Free.raced)
  BY <1>1, EncoderIs
<1>3. 0 \in 0..n
  OBVIOUS
<1>4. Free.pc \notin Patching \cup {"build", "storeNew"} /\ Free.pc \notin {"store", "storeNew", "sent"}
  BY <1>2, ZenonT(30) DEF Patching
<1>5. Free.pc \notin {"req", "skip", "bytes"} /\ Free.pc # "bytes"
  BY <1>2, ZenonT(30)
<1>6. Free.call \in Transfers /\ Free.obj \in 0..n
  BY <1>1, <1>2, <1>3, ZenonT(30)
<1> QED
  BY <1>2, <1>4, <1>5, <1>6, ZenonT(30) DEF EncoderOk

-----------------------------------------------------------------------------
(* The dictionary. *)

\* The two keys of a call are keys of no call with another uuid or skip_d2h.
LEMMA KeysApart ==
    ASSUME NEW c, NEW d
    PROVE  /\ CacheKey(c) = CacheKey(d) => c.uuid = d.uuid /\ c.skip = d.skip
           /\ SteadyKey(c) = SteadyKey(d) => c.uuid = d.uuid /\ c.skip = d.skip
           /\ CacheKey(c) # SteadyKey(d)
<1>1. CacheKey(c) = CacheKey(d) => c.uuid = d.uuid /\ c.skip = d.skip
  BY ZenonT(30) DEF CacheKey
<1>2. SteadyKey(c) = SteadyKey(d) => c.uuid = d.uuid /\ c.skip = d.skip
  BY ZenonT(30) DEF SteadyKey
<1>3. CacheKey(c) # SteadyKey(d)
  BY ZenonT(30) DEF CacheKey, SteadyKey
<1> QED
  BY <1>1, <1>2, <1>3, ZenonT(30)

\* A payload put under both keys of its call.
LEMMA PutBoth ==
    ASSUME NEW S, NEW P \in Seq(Transfers), Stored(S, P), NEW c \in Transfers, NEW p, Names(p, c),
           NEW T, T = Put(Put(S, CacheKey(c), p), SteadyKey(c), p), NEW L, L = Append(P, c)
    PROVE  Stored(T, L)
<1> DEFINE a == CacheKey(c)
           b == SteadyKey(c)
<1>1. DOMAIN T = (DOMAIN S \cup {a}) \cup {b}
  BY ZenonT(30) DEF Put
<1>2. T[b] = p /\ T[a] = p /\ \A x \in DOMAIN S : x # a /\ x # b => T[x] = S[x]
  BY ZenonT(30) DEF Put
<1>3. /\ \A i \in DOMAIN P : i \in DOMAIN L /\ L[i] = P[i]
      /\ Len(P) + 1 \in DOMAIN L /\ L[Len(P) + 1] = c
  OBVIOUS
<1>c. a = CacheKey(c) /\ b = SteadyKey(c)
  BY ZenonT(30)
<1> HIDE DEF a, b
<1>4. \A x \in DOMAIN T : Remembered(x, L)
  <2>1. \A x \in DOMAIN S : Remembered(x, P)
    BY ZenonT(30) DEF Stored
  <2>2. \A x : Remembered(x, P) => Remembered(x, L)
    BY <1>3, ZenonT(30) DEF Remembered
  <2>3. Remembered(a, L) /\ Remembered(b, L)
    BY <1>3, <1>c, ZenonT(30) DEF Remembered
  <2> QED
    BY <1>1, <2>1, <2>2, <2>3, ZenonT(30)
<1>5. ASSUME NEW d \in Transfers, CacheKey(d) \in DOMAIN T PROVE Names(T[CacheKey(d)], d)
  <2>1. CASE CacheKey(d) = a
    <3>1. c.uuid = d.uuid /\ c.skip = d.skip
      BY <1>c, <2>1, KeysApart, ZenonT(30)
    <3> QED
      BY <1>2, <2>1, <3>1, ZenonT(30) DEF Names
  <2>2. CASE CacheKey(d) # a
    <3>1. CacheKey(d) # b
      BY <1>c, KeysApart, ZenonT(30)
    <3>2. CacheKey(d) \in DOMAIN S /\ T[CacheKey(d)] = S[CacheKey(d)]
      BY <1>1, <1>2, <1>5, <2>2, <3>1, ZenonT(30)
    <3> QED
      BY <3>2, ZenonT(30) DEF Stored
  <2> QED
    BY <2>1, <2>2, ZenonT(30)
<1>6. ASSUME NEW d \in Transfers, SteadyKey(d) \in DOMAIN T PROVE Names(T[SteadyKey(d)], d)
  <2>1. CASE SteadyKey(d) = b
    <3>1. c.uuid = d.uuid /\ c.skip = d.skip
      BY <1>c, <2>1, KeysApart, ZenonT(30)
    <3> QED
      BY <1>2, <2>1, <3>1, ZenonT(30) DEF Names
  <2>2. CASE SteadyKey(d) # b
    <3>1. SteadyKey(d) # a
      BY <1>c, KeysApart, ZenonT(30)
    <3>2. SteadyKey(d) \in DOMAIN S /\ T[SteadyKey(d)] = S[SteadyKey(d)]
      BY <1>1, <1>2, <1>6, <2>2, <3>1, ZenonT(30)
    <3> QED
      BY <3>2, ZenonT(30) DEF Stored
  <2> QED
    BY <2>1, <2>2, ZenonT(30)
<1> QED
  BY <1>4, <1>5, <1>6, ZenonT(30) DEF Stored

\* The list without the pairs before the last KeepKeys.
LastOf(L) == IF Len(L) > KeepKeys THEN SubSeq(L, Len(L) - KeepKeys + 1, Len(L)) ELSE L

\* It has every pair after them.
LEMMA LastHas ==
    ASSUME NEW L \in Seq(Transfers)
    PROVE  /\ LastOf(L) \in Seq(Transfers)
           /\ \A i \in DOMAIN L : i > Len(L) - KeepKeys =>
                 \E n \in DOMAIN LastOf(L) : LastOf(L)[n] = L[i]
<1>0. KeepKeys \in Nat /\ Len(L) \in Nat /\ DOMAIN L = 1..Len(L)
  BY PayAssumption
<1>1. CASE Len(L) > KeepKeys
  <2> DEFINE m == Len(L) - KeepKeys + 1
             M == SubSeq(L, m, Len(L))
  <2>1. m \in 1..Len(L) + 1
    BY <1>0, <1>1
  <2>2. M \in Seq(Transfers) /\ Len(M) = KeepKeys /\ \A n \in 1..KeepKeys : M[n] = L[m + n - 1]
    BY <1>0, <1>1, <2>1
  <2>3. LastOf(L) = M
    BY <1>1, ZenonT(30) DEF LastOf
  <2>4. ASSUME NEW i \in DOMAIN L, i > Len(L) - KeepKeys
        PROVE  \E n \in DOMAIN M : M[n] = L[i]
    <3>1. i - m + 1 \in 1..KeepKeys /\ m + (i - m + 1) - 1 = i
      BY <1>0, <2>4
    <3>2. M[i - m + 1] = L[i] /\ DOMAIN M = 1..KeepKeys
      BY <2>2, <3>1
    <3> QED
      BY <3>1, <3>2, ZenonT(30)
  <2> HIDE DEF M
  <2> QED
    BY <2>2, <2>3, <2>4, ZenonT(30)
<1>2. CASE ~(Len(L) > KeepKeys)
  BY <1>0, <1>2, ZenonT(30) DEF LastOf
<1> QED
  BY <1>1, <1>2, ZenonT(30)

\* What is not evicted is of the calls that stay in the list.
LEMMA EvictKeeps ==
    ASSUME NEW T, NEW L \in Seq(Transfers), Stored(T, L), NEW S, S = Evict(T, L)
    PROVE  Stored(S, LastOf(L))
<1> DEFINE last == {L[i] : i \in {n \in DOMAIN L : n > Len(L) - KeepKeys}}
           old == {L[i] : i \in {n \in DOMAIN L : n <= Len(L) - KeepKeys}}
           gone == ({CacheKey(c) : c \in old} \ {CacheKey(c) : c \in last})
                   \cup ({SteadyKey(c) : c \in old} \ {SteadyKey(c) : c \in last})
<1>1. S = [k \in DOMAIN T \ gone |-> T[k]]
  BY ZenonT(30) DEF Evict
<1>g. \A k : k \notin gone =>
         /\ (\E c \in old : k = CacheKey(c)) => \E c \in last : k = CacheKey(c)
         /\ (\E c \in old : k = SteadyKey(c)) => \E c \in last : k = SteadyKey(c)
  BY ZenonT(30)
<1> HIDE DEF gone
<1>2. DOMAIN S = DOMAIN T \ gone /\ \A k \in DOMAIN S : S[k] = T[k]
  BY <1>1, ZenonT(30)
<1>o. KeepKeys \in Nat /\ Len(L) \in Nat /\ DOMAIN L = 1..Len(L)
  BY PayAssumption
<1>3. \A i \in DOMAIN L : L[i] \in old \/ L[i] \in last
  BY <1>o
<1>4. \A c \in last : \E n \in DOMAIN LastOf(L) : LastOf(L)[n] = c
  BY LastHas
<1> HIDE DEF old, last
<1>5. ASSUME NEW k \in DOMAIN S PROVE Remembered(k, LastOf(L))
  <2>1. PICK i \in DOMAIN L : k = CacheKey(L[i]) \/ k = SteadyKey(L[i])
    BY <1>2, ZenonT(30) DEF Stored, Remembered
  <2>2. \E c \in last : k = CacheKey(c) \/ k = SteadyKey(c)
    BY <1>g, <1>2, <1>3, <2>1, ZenonT(30)
  <2> QED
    BY <1>4, <2>2, ZenonT(30) DEF Remembered
<1>6. ASSUME NEW c \in Transfers
      PROVE  /\ CacheKey(c) \in DOMAIN S => Names(S[CacheKey(c)], c)
             /\ SteadyKey(c) \in DOMAIN S => Names(S[SteadyKey(c)], c)
  BY <1>2, ZenonT(30) DEF Stored
<1> QED
  BY <1>5, <1>6, ZenonT(30) DEF Stored

-----------------------------------------------------------------------------
(* The encoders. *)

\* One encoder changes, the requests do not, and it holds no object that
\* another is about to build.
LEMMA OneEncoder ==
    ASSUME NEW E, NEW R, NEW m, NEW n \in Nat, NEW e \in Encoders, NEW r, NEW F, NEW l, NEW k \in Nat, n <= k,
           EncodersOk(E, R, n), Alone(E, m, n), Changed(F, E, e, r), EncoderOk(r, R, k),
           \A x \in Encoders \ {e} : E[x].pc = "build" => r.obj # E[x].obj /\ l # E[x].obj,
           r.pc = "build" => l # r.obj /\ \A x \in Encoders \ {e} : E[x].obj # r.obj
    PROVE  EncodersOk(F, R, k) /\ Alone(F, l, k)
<1>1. DOMAIN F = Encoders /\ F[e] = r /\ \A x \in Encoders \ {e} : F[x] = E[x]
  BY ZenonT(30) DEF Changed, EncodersOk
<1>2. \A i : i \in 0..n => i \in 0..k
  OBVIOUS
<1>3. \A x \in Encoders : EncoderOk(E[x], R, k)
  BY <1>2, ZenonT(30) DEF EncodersOk, EncoderOk
<1>4. EncodersOk(F, R, k)
  BY <1>1, <1>3, ZenonT(30) DEF EncodersOk
<1>5. Alone(F, l, k)
  <2> SUFFICES ASSUME NEW x \in Encoders, F[x].pc = "build", NEW y \in Encoders \ {x}
               PROVE  l # F[x].obj /\ F[y].obj # F[x].obj
    BY <1>1, ZenonT(30) DEF Alone
  <2>1. CASE x = e
    BY <1>1, <2>1, ZenonT(30)
  <2>2. CASE x # e
    <3>1. F[x] = E[x] /\ E[x].pc = "build"
      BY <1>1, <2>2, ZenonT(30)
    <3>2. l # E[x].obj
      BY <2>2, <3>1, ZenonT(30)
    <3>3. CASE y = e
      BY <1>1, <2>2, <3>1, <3>2, <3>3, ZenonT(30)
    <3>4. CASE y # e
      <4>1. F[y] = E[y]
        BY <1>1, <3>4, ZenonT(30)
      <4>2. E[y].obj # E[x].obj
        BY <3>1, ZenonT(30) DEF Alone
      <4> QED
        BY <3>1, <3>2, <4>1, <4>2, ZenonT(30)
    <3> QED
      BY <3>3, <3>4, ZenonT(30)
  <2> QED
    BY <2>1, <2>2, ZenonT(30)
<1> QED
  BY <1>4, <1>5, ZenonT(30)

\* An encoder moves on, without another object.
LEMMA SameEncoder ==
    ASSUME PayInv, NEW e \in Encoders, NEW r, NEW F, Changed(F, encoders, e, r),
           EncoderOk(r, requests, encodes), r.pc # "build", r.obj \in {0, encoders[e].obj},
           NEW l \in {template, encoders[e].obj}
    PROVE  EncodersOk(F, requests, encodes) /\ Alone(F, l, encodes)
<1>1. encodes \in Nat /\ encodes <= encodes
  BY PayAssumption DEF PayInv
<1>2. ASSUME NEW x \in Encoders \ {e}, encoders[x].pc = "build"
      PROVE  encoders[x].obj # 0 /\ encoders[x].obj # encoders[e].obj /\ encoders[x].obj # template
  BY <1>2, ZenonT(30) DEF PayInv, Alone, EncodersOk, EncoderOk
<1>3. \A x \in Encoders \ {e} : encoders[x].pc = "build" => r.obj # encoders[x].obj /\ l # encoders[x].obj
  BY <1>2, ZenonT(30)
<1>4. EncodersOk(encoders, requests, encodes) /\ Alone(encoders, template, encodes)
  BY ZenonT(30) DEF PayInv
<1> QED
  BY <1>1, <1>3, <1>4, OneEncoder, ZenonT(30)

\* What an encoder is after Lookup, Serialize, Build and StorePayload.
Calls(q, c) == q = [Free EXCEPT !.call = c]
Hits(q, r, v, z) == q = [r EXCEPT !.pc = "sent", !.bytes = v, !.raced = z]
Takes(q, r, pc, o) == q = [r EXCEPT !.pc = pc, !.obj = o]
Serialized(q, r, v) == q = [r EXCEPT !.bytes = v, !.pc = "store"]
Built(q, r, v) == q = [r EXCEPT !.bytes = v, !.pc = "storeNew"]

\* Written out.
LEMMA EncoderMoves ==
    ASSUME NEW r, EncoderRec(r, r.pc, r.call, r.obj, r.bytes, r.raced), NEW v, NEW z, NEW q
    PROVE  /\ Hits(q, r, v, z) => EncoderRec(q, "sent", r.call, r.obj, v, z)
           /\ Takes(q, r, v, z) => EncoderRec(q, v, r.call, z, r.bytes, r.raced)
           /\ Serialized(q, r, v) => EncoderRec(q, "store", r.call, r.obj, v, r.raced)
           /\ Built(q, r, v) => EncoderRec(q, "storeNew", r.call, r.obj, v, r.raced)
           /\ Moved(q, r, v) => EncoderRec(q, v, r.call, r.obj, r.bytes, r.raced)
<1>1. Serialized(q, r, v) => EncoderRec(q, "store", r.call, r.obj, v, r.raced)
  BY ZenonT(30) DEF EncoderRec, Serialized
<1>2. Built(q, r, v) => EncoderRec(q, "storeNew", r.call, r.obj, v, r.raced)
  BY ZenonT(30) DEF EncoderRec, Built
<1>3. Moved(q, r, v) => EncoderRec(q, v, r.call, r.obj, r.bytes, r.raced)
  BY ZenonT(30) DEF EncoderRec, Moved
<1>4. Hits(q, r, v, z) => EncoderRec(q, "sent", r.call, r.obj, v, z)
  BY ZenonT(30) DEF EncoderRec, Hits
<1>5. Takes(q, r, v, z) => EncoderRec(q, v, r.call, z, r.bytes, r.raced)
  BY ZenonT(30) DEF EncoderRec, Takes
<1> QED
  BY <1>1, <1>2, <1>3, <1>4, <1>5, ZenonT(30)

\* An encoder takes up a call.
LEMMA EncoderCalls ==
    ASSUME NEW c \in Transfers, NEW q, Calls(q, c)
    PROVE  /\ EncoderRec(q, q.pc, q.call, q.obj, q.bytes, q.raced) /\ q.call = c /\ q.obj = 0
<1> DEFINE b == <<>>
           f == FALSE
<1>1. EncoderRec(q, "idle", c, 0, b, f)
  BY FreeIs, ZenonT(30) DEF EncoderRec, Calls
<1> HIDE DEF b, f
<1> QED
  BY <1>1, EncoderIs

\* A call: a payload of the same uuid and skip_d2h, the template, or a new object.
LEMMA LookupKeeps ==
    ASSUME PayInv, NEW e \in Encoders, NEW c \in Transfers, Lookup(e, c)
    PROVE  PayInv'
<1> DEFINE now == [Free EXCEPT !.call = c]
           hit == IF CacheKey(c) \in DOMAIN store THEN CacheKey(c) ELSE SteadyKey(c)
           n == encodes + 1
           r == IF hit \in DOMAIN store
                THEN [now EXCEPT !.pc = "sent", !.bytes = store[hit].bytes, !.raced = store[hit].raced]
                ELSE IF template # 0 THEN [now EXCEPT !.pc = "uuid", !.obj = template]
                ELSE [now EXCEPT !.pc = "build", !.obj = n]
<1>1. /\ encoders' = [encoders EXCEPT ![e] = r] /\ encodes' = n /\ encodes < MaxEncodes
      /\ UNCHANGED <<store, template, prev, requests, clears>>
  BY ZenonT(30) DEF Lookup, SetEncoder
<1>2. /\ encodes \in Nat /\ n \in Nat /\ MaxEncodes \in Nat /\ encodes <= n /\ n \in 0..MaxEncodes
      /\ template \in 0..encodes /\ template \in 0..n /\ n # 0 /\ n \in 0..n
  BY <1>1, PayAssumption DEF PayInv
<1>3. DOMAIN encoders = Encoders /\ \A x \in Encoders : encoders[x].obj \in 0..encodes
  BY ZenonT(30) DEF PayInv, EncodersOk, EncoderOk
<1>4. Changed(encoders', encoders, e, r)
  BY <1>1, <1>3, ChangedAt, ZenonT(30)
<1>h. hit \in DOMAIN store => Names(store[hit], c)
  BY ZenonT(30) DEF PayInv, Stored
<1>r. /\ Calls(now, c)
      /\ hit \in DOMAIN store => Hits(r, now, store[hit].bytes, store[hit].raced)
      /\ hit \notin DOMAIN store /\ template # 0 => Takes(r, now, "uuid", template)
      /\ hit \notin DOMAIN store /\ template = 0 => Takes(r, now, "build", n)
  BY ZenonT(30) DEF Calls, Hits, Takes
<1> HIDE DEF r, hit, n, now
<1>5. EncoderRec(now, now.pc, now.call, now.obj, now.bytes, now.raced) /\ now.call = c /\ now.obj = 0
  BY <1>r, EncoderCalls, ZenonT(30)
<1>6. CASE hit \in DOMAIN store
  <2>1. /\ r.pc = "sent" /\ r.call = c /\ r.obj = 0 /\ r.bytes = store[hit].bytes
        /\ r.raced = store[hit].raced /\ EncoderRec(r, r.pc, r.call, r.obj, r.bytes, r.raced)
    <3>1. EncoderRec(r, "sent", now.call, now.obj, store[hit].bytes, store[hit].raced)
      BY <1>5, <1>6, <1>r, EncoderMoves, ZenonT(30)
    <3> QED
      BY <1>5, <3>1, EncoderIs
  <2>2. Names(r, c)
    BY <1>h, <1>6, <2>1, ZenonT(30) DEF Names
  <2>3. EncoderOk(r, requests, n)
    BY <1>2, <2>1, <2>2 DEF EncoderOk, Patching
  <2>4. \A x \in Encoders \ {e} : encoders[x].pc = "build" =>
            r.obj # encoders[x].obj /\ template # encoders[x].obj
    BY <2>1, ZenonT(30) DEF PayInv, Alone, EncodersOk, EncoderOk
  <2>5. EncodersOk(encoders', requests, n) /\ Alone(encoders', template, n)
    BY <1>2, <1>4, <2>1, <2>3, <2>4, OneEncoder, ZenonT(30) DEF PayInv
  <2> QED
    BY <1>1, <1>2, <2>5, ZenonT(30) DEF PayInv
<1>7. CASE hit \notin DOMAIN store /\ template # 0
  <2>1. /\ r.pc = "uuid" /\ r.call = c /\ r.obj = template
        /\ EncoderRec(r, r.pc, r.call, r.obj, r.bytes, r.raced)
    <3>1. EncoderRec(r, "uuid", now.call, template, now.bytes, now.raced)
      BY <1>5, <1>7, <1>r, EncoderMoves, ZenonT(30)
    <3> QED
      BY <1>5, <3>1, EncoderIs
  <2>3. EncoderOk(r, requests, n)
    BY <1>2, <1>7, <2>1, ZenonT(30) DEF EncoderOk, Patching
  <2>4. \A x \in Encoders \ {e} : encoders[x].pc = "build" =>
            r.obj # encoders[x].obj /\ template # encoders[x].obj
    BY <2>1, ZenonT(30) DEF PayInv, Alone
  <2>5. EncodersOk(encoders', requests, n) /\ Alone(encoders', template, n)
    BY <1>2, <1>4, <2>1, <2>3, <2>4, OneEncoder, ZenonT(30) DEF PayInv
  <2> QED
    BY <1>1, <1>2, <2>5, ZenonT(30) DEF PayInv
<1>8. CASE hit \notin DOMAIN store /\ template = 0
  <2>1. /\ r.pc = "build" /\ r.call = c /\ r.obj = n
        /\ EncoderRec(r, r.pc, r.call, r.obj, r.bytes, r.raced)
    <3>1. EncoderRec(r, "build", now.call, n, now.bytes, now.raced)
      BY <1>5, <1>8, <1>r, EncoderMoves, ZenonT(30)
    <3> QED
      BY <1>5, <3>1, EncoderIs
  <2>3. EncoderOk(r, requests, n)
    BY <1>2, <2>1, ZenonT(30) DEF EncoderOk
  <2>4. \A x \in Encoders : encoders[x].obj # n /\ template # n
    BY <1>2, <1>3 DEF n
  <2>5. \A x \in Encoders \ {e} : encoders[x].pc = "build" =>
            r.obj # encoders[x].obj /\ template # encoders[x].obj
    BY <2>1, <2>4, ZenonT(30) DEF PayInv, Alone
  <2>6. EncodersOk(encoders', requests, n) /\ Alone(encoders', template, n)
    BY <1>2, <1>4, <2>1, <2>3, <2>4, <2>5, OneEncoder DEF PayInv
  <2> QED
    BY <1>1, <1>2, <2>6, ZenonT(30) DEF PayInv
<1> QED
  BY <1>6, <1>7, <1>8, ZenonT(30)

\* The template is serialized: it has what the encoder assigned.
LEMMA SerializeKeeps ==
    ASSUME PayInv, NEW e \in Encoders, Serialize(e)
    PROVE  PayInv'
<1> DEFINE a == encoders[e]
           v == requests[a.obj]
           r == [a EXCEPT !.bytes = v, !.pc = "store"]
<1>1. /\ encoders' = [encoders EXCEPT ![e] = r] /\ a.pc = "bytes"
      /\ UNCHANGED <<store, template, prev, requests, encodes, clears>>
  BY ZenonT(30) DEF Serialize, SetEncoder
<1>2. Serialized(r, a, v)
  BY ZenonT(30) DEF Serialized
<1> HIDE DEF r
<1>3. EncoderOk(a, requests, encodes) /\ DOMAIN encoders = Encoders /\ encodes \in Nat
  BY DEF PayInv, EncodersOk
<1>4. EncoderRec(a, a.pc, a.call, a.obj, a.bytes, a.raced) /\ a.call \in Transfers /\ a.obj \in 0..encodes
  BY <1>3, ZenonT(30) DEF EncoderOk
<1>5. a.raced \/ (v.uuid = a.call.uuid /\ v.skip = a.call.skip)
  BY <1>1, <1>3, ZenonT(30) DEF EncoderOk
<1>7. Changed(encoders', encoders, e, r)
  BY <1>1, <1>3, ChangedAt, ZenonT(30)
<1> HIDE DEF a, v
<1>8. EncoderRec(r, "store", a.call, a.obj, v, a.raced)
  BY <1>2, <1>4, EncoderMoves, ZenonT(30)
<1>9. /\ r.pc = "store" /\ r.call = a.call /\ r.obj = a.obj /\ r.bytes = v /\ r.raced = a.raced
      /\ EncoderRec(r, r.pc, r.call, r.obj, r.bytes, r.raced)
  BY <1>4, <1>8, EncoderIs, ZenonT(30)
<1>10. Names(r, r.call)
  BY <1>5, <1>9, ZenonT(30) DEF Names
<1>11. EncoderOk(r, requests, encodes)
  BY <1>4, <1>9, <1>10, ZenonT(30) DEF EncoderOk, Patching
<1>12. r.obj \in {0, encoders[e].obj} /\ r.pc # "build"
  BY <1>9, ZenonT(30) DEF a
<1>13. EncodersOk(encoders', requests, encodes) /\ Alone(encoders', template, encodes)
  BY <1>7, <1>11, <1>12, SameEncoder, ZenonT(30)
<1> QED
  BY <1>1, <1>13, ZenonT(30) DEF PayInv

\* The payload is sent.
LEMMA SendKeeps ==
    ASSUME PayInv, NEW e \in Encoders, Send(e)
    PROVE  PayInv'
<1>1. /\ encoders' = [encoders EXCEPT ![e] = Free]
      /\ UNCHANGED <<store, template, prev, requests, encodes, clears>>
  BY ZenonT(30) DEF Send, SetEncoder
<1>2. DOMAIN encoders = Encoders /\ encodes \in Nat
  BY DEF PayInv, EncodersOk
<1>3. EncoderOk(Free, requests, encodes) /\ Free.pc = "idle" /\ Free.obj = 0
  BY <1>2, FreeOk, ZenonT(30)
<1>4. Changed(encoders', encoders, e, Free)
  BY <1>1, <1>2, ChangedAt, ZenonT(30)
<1>5. Free.pc # "build" /\ Free.obj \in {0, encoders[e].obj}
  BY <1>3, ZenonT(30)
<1>6. EncodersOk(encoders', requests, encodes) /\ Alone(encoders', template, encodes)
  BY <1>3, <1>4, <1>5, SameEncoder, ZenonT(30)
<1> QED
  BY <1>1, <1>6, ZenonT(30) DEF PayInv

\* The dictionary is cleared; encoders keep the objects they hold.
LEMMA ClearPayloadsKeeps ==
    ASSUME PayInv, ClearPayloads
    PROVE  PayInv'
<1>1. store' = <<>> /\ template' = 0 /\ prev' = <<>> /\ UNCHANGED <<requests, encoders, encodes>>
  BY ZenonT(30) DEF ClearPayloads
<1>2. DOMAIN store' = {}
  BY <1>1
<1>3. Stored(store', prev')
  BY <1>2, ZenonT(30) DEF Stored
<1>4. prev' \in Seq(Transfers) /\ template' \in 0..encodes
  BY <1>1 DEF PayInv
<1>5. \A e \in Encoders : encoders[e].pc = "build" => encoders[e].obj # 0
  BY ZenonT(30) DEF PayInv, EncodersOk, EncoderOk
<1>6. Alone(encoders, template', encodes)
  BY <1>1, <1>5, ZenonT(30) DEF PayInv, Alone
<1> QED
  BY <1>1, <1>3, <1>4, <1>6, ZenonT(30) DEF PayInv

\* The payload is stored under both keys, and old pairs are evicted.
LEMMA StorePayloadKeeps ==
    ASSUME PayInv, NEW e \in Encoders, StorePayload(e)
    PROVE  PayInv'
<1> DEFINE a == encoders[e]
           c == a.call
           p == [bytes |-> a.bytes, raced |-> a.raced]
           L == Append(prev, c)
           T == Put(Put(store, CacheKey(c), p), SteadyKey(c), p)
           r == [a EXCEPT !.pc = "sent"]
<1>1. /\ store' = Evict(T, L) /\ encoders' = [encoders EXCEPT ![e] = r]
      /\ a.pc \in {"store", "storeNew"} /\ UNCHANGED <<requests, encodes, clears>>
      /\ template' = IF a.pc = "storeNew" THEN a.obj ELSE template
  BY ZenonT(30) DEF StorePayload, SetEncoder
<1>2. prev' = LastOf(L)
  BY ZenonT(30) DEF StorePayload, LastOf
<1>3. EncoderOk(a, requests, encodes) /\ DOMAIN encoders = Encoders
  BY ZenonT(30) DEF PayInv, EncodersOk
<1>4. /\ EncoderRec(a, a.pc, a.call, a.obj, a.bytes, a.raced) /\ c \in Transfers
      /\ a.obj \in 0..encodes /\ Names(a, c)
  BY <1>1, <1>3, ZenonT(30) DEF EncoderOk
<1>5. p.bytes = a.bytes /\ p.raced = a.raced
  BY ZenonT(30)
<1>m. Moved(r, a, "sent")
  BY ZenonT(30) DEF Moved
<1>7. Changed(encoders', encoders, e, r)
  BY <1>1, <1>3, ChangedAt, ZenonT(30)
<1>6. Names(p, c)
  <2> HIDE DEF p, a
  <2> QED
    BY <1>4, <1>5, ZenonT(30) DEF Names
<1>8. Stored(store, prev) /\ prev \in Seq(Transfers)
  BY ZenonT(30) DEF PayInv
<1>9. L \in Seq(Transfers)
  BY <1>4, <1>8
<1>10. T = Put(Put(store, CacheKey(c), p), SteadyKey(c), p) /\ L = Append(prev, c)
  BY ZenonT(30)
<1> HIDE DEF r, p, T, L, c
<1>11. Stored(T, L)
  BY <1>4, <1>6, <1>8, <1>10, PutBoth, ZenonT(30)
<1>12. Stored(store', prev')
  BY <1>1, <1>2, <1>9, <1>11, EvictKeeps, ZenonT(30)
<1>13. prev' \in Seq(Transfers)
  BY <1>2, <1>9, LastHas, ZenonT(30)
<1>l. template' \in {template, encoders[e].obj} /\ template' \in 0..encodes
  BY <1>1, <1>4, ZenonT(30) DEF PayInv
<1> HIDE DEF a
<1>14. EncoderRec(r, "sent", a.call, a.obj, a.bytes, a.raced)
  BY <1>4, <1>m, EncoderMoves, ZenonT(30)
<1>15. /\ r.pc = "sent" /\ r.call = c /\ r.obj = a.obj /\ r.bytes = a.bytes /\ r.raced = a.raced
       /\ EncoderRec(r, r.pc, r.call, r.obj, r.bytes, r.raced)
  BY <1>4, <1>14, EncoderIs, ZenonT(30) DEF c
<1>16. Names(r, r.call)
  BY <1>4, <1>15, ZenonT(30) DEF Names
<1>17. EncoderOk(r, requests, encodes)
  BY <1>4, <1>15, <1>16, ZenonT(30) DEF EncoderOk, Patching
<1>18. r.obj \in {0, encoders[e].obj} /\ r.pc # "build"
  BY <1>15, ZenonT(30) DEF a
<1>19. EncodersOk(encoders', requests, encodes) /\ Alone(encoders', template', encodes)
  BY <1>l, <1>7, <1>17, <1>18, SameEncoder, ZenonT(30)
<1> QED
  BY <1>1, <1>l, <1>12, <1>13, <1>19, ZenonT(30) DEF PayInv

\* A request is built in an object that nobody else holds.
LEMMA BuildKeeps ==
    ASSUME PayInv, NEW e \in Encoders, Build(e)
    PROVE  PayInv'
<1> DEFINE a == encoders[e]
           c == a.call
           r == [a EXCEPT !.bytes = c, !.pc = "storeNew"]
<1>1. /\ encoders' = [encoders EXCEPT ![e] = r] /\ requests' = [requests EXCEPT ![a.obj] = c]
      /\ a.pc = "build" /\ UNCHANGED <<store, template, prev, encodes, clears>>
  BY ZenonT(30) DEF Build, SetEncoder
<1>m. Built(r, a, c)
  BY ZenonT(30) DEF Built
<1> HIDE DEF r
<1>2. /\ EncoderOk(a, requests, encodes) /\ DOMAIN encoders = Encoders /\ DOMAIN requests = Objects
      /\ encodes \in Nat /\ encodes <= MaxEncodes /\ MaxEncodes \in Nat
  BY PayAssumption DEF PayInv, EncodersOk, RequestsOk
<1>3. /\ EncoderRec(a, a.pc, a.call, a.obj, a.bytes, a.raced) /\ c \in Transfers
      /\ a.obj \in 0..encodes /\ a.obj # 0
  BY <1>1, <1>2, ZenonT(30) DEF EncoderOk
<1>4. a.obj \in Objects
  BY <1>2, <1>3 DEF Objects
<1>5. Changed(requests', requests, a.obj, c)
  BY <1>1, <1>2, <1>4, ChangedAt, ZenonT(30)
<1>6. RequestOk(c)
  BY <1>3, PayAssumption, ZenonT(30) DEF RequestOk
<1>7. RequestsOk(requests')
  BY <1>5, <1>6, ZenonT(30) DEF PayInv, RequestsOk, Changed
<1>8. ASSUME NEW x \in Encoders \ {e} PROVE EncoderOk(encoders[x], requests', encodes)
  <2>1. EncoderOk(encoders[x], requests, encodes)
    BY ZenonT(30) DEF PayInv, EncodersOk
  <2>2. encoders[x].obj # a.obj
    BY <1>1, ZenonT(30) DEF PayInv, Alone
  <2>3. encoders[x].pc \in {"req", "skip", "bytes"} => encoders[x].obj \in Objects
    BY <1>2, <2>1 DEF EncoderOk, Objects, Patching
  <2>4. encoders[x].pc \in {"req", "skip", "bytes"} => requests'[encoders[x].obj] = requests[encoders[x].obj]
    BY <1>2, <1>5, <2>2, <2>3, ZenonT(30) DEF Changed
  <2> QED
    BY <2>1, <2>4, ZenonT(30) DEF EncoderOk
<1>9. Changed(encoders', encoders, e, r)
  BY <1>1, <1>2, ChangedAt, ZenonT(30)
<1>10. Alone(encoders, template, encodes)
  BY ZenonT(30) DEF PayInv
<1>11. r.pc = "storeNew" /\ r.call = c /\ r.obj = a.obj /\ r.bytes = c
       /\ EncoderRec(r, r.pc, r.call, r.obj, r.bytes, r.raced)
  <2>a. a.call = c
    BY ZenonT(30)
  <2> HIDE DEF a, c
  <2>1. EncoderRec(r, "storeNew", a.call, a.obj, c, a.raced)
    BY <1>3, <1>m, EncoderMoves, ZenonT(30)
  <2> QED
    BY <1>3, <2>a, <2>1, EncoderIs
<1>12. Names(r, r.call)
  BY <1>11, ZenonT(30) DEF Names
<1>13. EncoderOk(r, requests', encodes)
  BY <1>3, <1>11, <1>12, ZenonT(30) DEF EncoderOk
<1>14. encoders'[e] = r /\ DOMAIN encoders' = Encoders /\ \A x \in Encoders \ {e} : encoders'[x] = encoders[x]
  BY <1>2, <1>9, ZenonT(30) DEF Changed
<1>15. EncodersOk(encoders', requests', encodes)
  BY <1>8, <1>13, <1>14, ZenonT(30) DEF EncodersOk
<1>16. \A x \in Encoders : encoders'[x].obj = encoders[x].obj /\ (encoders'[x].pc = "build" => encoders[x].pc = "build")
  BY <1>11, <1>14, ZenonT(30)
<1>17. Alone(encoders', template, encodes)
  BY <1>10, <1>16, ZenonT(30) DEF Alone
<1> QED
  BY <1>1, <1>7, <1>15, <1>17, ZenonT(30) DEF PayInv

\* A field of one request is assigned.
Assigned(Q, R, o, f, v) == Q = [R EXCEPT ![o][f] = v]

\* The request then has the value in that field, and all else as before.
LEMMA FieldSet ==
    ASSUME NEW R, RequestsOk(R), NEW o \in Objects, NEW v, NEW Q,
           NEW f \in {"uuid", "req", "skip"}, Assigned(Q, R, o, f, v)
    PROVE  /\ RequestsOk(Q) /\ \A p \in Objects \ {o} : Q[p] = R[p]
           /\ f = "uuid" => Q[o].uuid = v
           /\ f # "uuid" => Q[o].uuid = R[o].uuid
           /\ f = "skip" => Q[o].skip = v
<1> DEFINE q == [R[o] EXCEPT ![f] = v]
<1>1. DOMAIN R = Objects /\ R[o] = [uuid |-> R[o].uuid, req |-> R[o].req, skip |-> R[o].skip]
  BY ZenonT(30) DEF RequestsOk, RequestOk
<1>2. DOMAIN Q = Objects /\ Q[o] = q /\ \A p \in Objects \ {o} : Q[p] = R[p]
  BY <1>1, ZenonT(30) DEF Assigned
<1>q. q = [R[o] EXCEPT ![f] = v]
  BY ZenonT(30)
<1> HIDE DEF q
<1>3. /\ f = "uuid" => q = [uuid |-> v, req |-> R[o].req, skip |-> R[o].skip]
      /\ f = "req" => q = [uuid |-> R[o].uuid, req |-> v, skip |-> R[o].skip]
      /\ f = "skip" => q = [uuid |-> R[o].uuid, req |-> R[o].req, skip |-> v]
  <2>1. ASSUME f = "uuid" PROVE q = [uuid |-> v, req |-> R[o].req, skip |-> R[o].skip]
    BY <1>1, <1>q, <2>1, ZenonT(30)
  <2>2. ASSUME f = "req" PROVE q = [uuid |-> R[o].uuid, req |-> v, skip |-> R[o].skip]
    BY <1>1, <1>q, <2>2, ZenonT(30)
  <2>3. ASSUME f = "skip" PROVE q = [uuid |-> R[o].uuid, req |-> R[o].req, skip |-> v]
    BY <1>1, <1>q, <2>3, ZenonT(30)
  <2> QED
    BY <2>1, <2>2, <2>3, ZenonT(30)
<1>4. RequestOk(q)
  BY <1>3, ZenonT(30) DEF RequestOk
<1>5. RequestsOk(Q)
  <2>1. \A p \in Objects \ {o} : RequestOk(Q[p])
    BY <1>2, ZenonT(30) DEF RequestsOk
  <2> QED
    BY <1>2, <1>4, <2>1, ZenonT(30) DEF RequestsOk
<1>6. /\ f = "uuid" => q.uuid = v
      /\ f # "uuid" => q.uuid = R[o].uuid
      /\ f = "skip" => q.skip = v
  BY <1>3
<1> QED
  BY <1>2, <1>5, <1>6, ZenonT(30)

\* An encoder that patches on, and one that another patches with.
Patches(q, r, pc, z) == q = [r EXCEPT !.pc = pc, !.raced = z]
Races(q, r, z) == q = [r EXCEPT !.raced = z]

\* Written out, too.
LEMMA EncoderPatches ==
    ASSUME NEW r, EncoderRec(r, r.pc, r.call, r.obj, r.bytes, r.raced), r.call \in Transfers,
           NEW pc, NEW z, NEW q, Patches(q, r, pc, z) \/ (pc = r.pc /\ Races(q, r, z))
    PROVE  /\ q.pc = pc /\ q.call = r.call /\ q.obj = r.obj /\ q.bytes = r.bytes /\ q.raced = z
           /\ EncoderRec(q, q.pc, q.call, q.obj, q.bytes, q.raced)
<1>1. Patches(q, r, pc, z) => EncoderRec(q, pc, r.call, r.obj, r.bytes, z)
  BY ZenonT(30) DEF EncoderRec, Patches
<1>2. Races(q, r, z) => EncoderRec(q, r.pc, r.call, r.obj, r.bytes, z)
  BY ZenonT(30) DEF EncoderRec, Races
<1>3. EncoderRec(q, pc, r.call, r.obj, r.bytes, z)
  BY <1>1, <1>2, ZenonT(30)
<1> QED
  BY <1>3, EncoderIs, ZenonT(30)

\* A field assignment of the template path.
LEMMA PatchStepKeeps ==
    ASSUME PayInv, NEW e \in Encoders, NEW pc, NEW f \in {"uuid", "req", "skip"}, NEW next,
           \/ pc = "uuid" /\ f = "uuid" /\ next = "req"
           \/ pc = "req" /\ f = "req" /\ next = "skip"
           \/ pc = "skip" /\ f = "skip" /\ next = "bytes",
           PatchStep(e, pc, f, next)
    PROVE  PayInv'
<1> DEFINE a == encoders[e]
           v == a.call[f]
           z == a.raced \/ Contended(e)
           t == TRUE
           Other(x) == encoders[x].obj = a.obj /\ encoders[x].pc \in {"uuid", "req", "skip", "bytes"}
<1>1. a.pc = pc /\ requests' = [requests EXCEPT ![a.obj][f] = v] /\ UNCHANGED <<store, template, prev, encodes, clears>>
  BY ZenonT(30) DEF PatchStep
<1>2. /\ DOMAIN encoders' = Encoders
      /\ encoders'[e] = [a EXCEPT !.pc = next, !.raced = z]
      /\ \A x \in Encoders \ {e} : Other(x) => encoders'[x] = [encoders[x] EXCEPT !.raced = t]
      /\ \A x \in Encoders \ {e} : ~Other(x) => encoders'[x] = encoders[x]
  BY ZenonT(30) DEF PatchStep
<1>3. a.raced => z
  BY ZenonT(30)
<1>t. t
  BY ZenonT(30)
<1>o. \A x \in Encoders : Other(x) <=> encoders[x].obj = a.obj /\ encoders[x].pc \in Patching
  BY ZenonT(30) DEF Patching
<1>u. v = a.call[f]
  BY ZenonT(30)
<1>s. Assigned(requests', requests, a.obj, f, v)
  BY <1>1, ZenonT(30) DEF Assigned
<1> HIDE DEF z, t, Other
<1>4. Patches(encoders'[e], a, next, z)
  BY <1>2, ZenonT(30) DEF Patches
<1>5. \A x \in Encoders \ {e} : Other(x) => Races(encoders'[x], encoders[x], t)
  BY <1>2, ZenonT(30) DEF Races
<1>6. \A x \in Encoders : EncoderOk(encoders[x], requests, encodes)
  BY ZenonT(30) DEF PayInv, EncodersOk
<1>7. RequestsOk(requests) /\ encodes \in Nat /\ encodes <= MaxEncodes /\ MaxEncodes \in Nat
  BY PayAssumption DEF PayInv
<1>8. \A x \in Encoders : encoders[x].pc \in Patching => encoders[x].obj \in Objects
  BY <1>6, <1>7 DEF EncoderOk, Objects
<1>9. a.pc \in {"uuid", "req", "skip"} /\ a.pc \in Patching
  BY <1>1, ZenonT(30) DEF Patching
<1>10. a.obj \in Objects
  BY <1>8, <1>9, ZenonT(30)
<1>11. /\ RequestsOk(requests') /\ \A p \in Objects \ {a.obj} : requests'[p] = requests[p]
       /\ f = "uuid" => requests'[a.obj].uuid = v
       /\ f # "uuid" => requests'[a.obj].uuid = requests[a.obj].uuid
       /\ f = "skip" => requests'[a.obj].skip = v
  <2> HIDE DEF v, a
  <2> QED
    BY <1>s, <1>7, <1>10, FieldSet
<1>12. /\ EncoderRec(a, a.pc, a.call, a.obj, a.bytes, a.raced) /\ a.call \in Transfers
       /\ a.obj \in 0..encodes /\ a.obj # 0
       /\ a.pc \in {"req", "skip", "bytes"} => a.raced \/ requests[a.obj].uuid = a.call.uuid
  BY <1>6, <1>9, ZenonT(30) DEF EncoderOk
<1>13. EncoderOk(encoders'[e], requests', encodes) /\ encoders'[e].obj = a.obj /\ encoders'[e].pc # "build"
  <2> DEFINE q == encoders'[e]
  <2>1. /\ q.pc = next /\ q.call = a.call /\ q.obj = a.obj /\ q.raced = z
        /\ EncoderRec(q, q.pc, q.call, q.obj, q.bytes, q.raced)
    BY <1>4, <1>12, EncoderPatches
  <2>2. f = "uuid" => v = a.call.uuid
    BY <1>u, ZenonT(30)
  <2>3. f = "skip" => v = a.call.skip
    BY <1>u, ZenonT(30)
  <2> HIDE DEF q, v, a
  <2>4. z \/ requests'[a.obj].uuid = a.call.uuid
    BY <1>1, <1>3, <1>11, <1>12, <2>2, ZenonT(30)
  <2>5. next = "bytes" => requests'[a.obj].skip = a.call.skip
    BY <1>11, <2>3, ZenonT(30)
  <2>6. next \in {"req", "skip", "bytes"}
    BY ZenonT(30)
  <2>7. q.raced \/ requests'[q.obj].uuid = q.call.uuid
    BY <2>1, <2>4, ZenonT(30)
  <2>8. q.pc = "bytes" => requests'[q.obj].skip = q.call.skip
    BY <2>1, <2>5, ZenonT(30)
  <2>9. EncoderOk(q, requests', encodes)
    BY <1>12, <2>1, <2>6, <2>7, <2>8, ZenonT(30) DEF EncoderOk
  <2> QED
    BY <2>1, <2>6, <2>9, ZenonT(30) DEF q
<1>14. ASSUME NEW x \in Encoders \ {e}
       PROVE  /\ EncoderOk(encoders'[x], requests', encodes)
              /\ encoders'[x].obj = encoders[x].obj /\ encoders'[x].pc = encoders[x].pc
  <2> DEFINE b == encoders[x]
             q == encoders'[x]
  <2>1. EncoderOk(b, requests, encodes)
    BY <1>6, ZenonT(30)
  <2>2. CASE Other(x)
    <3>1. EncoderRec(b, b.pc, b.call, b.obj, b.bytes, b.raced) /\ b.call \in Transfers /\ Races(q, b, t)
      BY <1>5, <2>1, <2>2, ZenonT(30) DEF EncoderOk
    <3>2. b.pc \in Patching
      BY <1>o, <2>2, ZenonT(30)
    <3>3. /\ q.pc = b.pc /\ q.call = b.call /\ q.obj = b.obj /\ q.raced = t
          /\ EncoderRec(q, q.pc, q.call, q.obj, q.bytes, q.raced)
      <4> HIDE DEF b, q
      <4> QED
        BY <3>1, EncoderPatches
    <3>4. q.raced
      BY <1>t, <3>3, ZenonT(30)
    <3> HIDE DEF b, q
    <3>5. EncoderOk(q, requests', encodes)
      BY <2>1, <3>2, <3>3, <3>4, ZenonT(30) DEF EncoderOk, Patching
    <3> QED
      BY <3>3, <3>5, ZenonT(30) DEF b, q
  <2>3. CASE ~Other(x)
    <3>1. q = b
      BY <1>2, <2>3, ZenonT(30)
    <3>2. b.pc \in Patching => b.obj # a.obj /\ b.obj \in Objects
      BY <1>8, <1>o, <2>3, ZenonT(30)
    <3>3. b.pc \in Patching => requests'[b.obj] = requests[b.obj]
      BY <1>11, <3>2, ZenonT(30)
    <3>4. EncoderOk(b, requests', encodes)
      BY <2>1, <3>3, ZenonT(30) DEF EncoderOk, Patching
    <3> QED
      BY <3>1, <3>4, ZenonT(30)
  <2> QED
    BY <2>2, <2>3, ZenonT(30)
<1>15. EncodersOk(encoders', requests', encodes)
  BY <1>2, <1>13, <1>14, ZenonT(30) DEF EncodersOk
<1>16. \A x \in Encoders : encoders'[x].obj = encoders[x].obj /\ (encoders'[x].pc = "build" => encoders[x].pc = "build")
  BY <1>13, <1>14, ZenonT(30)
<1>17. Alone(encoders, template, encodes)
  BY ZenonT(30) DEF PayInv
<1>18. Alone(encoders', template, encodes)
  BY <1>16, <1>17, ZenonT(30) DEF Alone
<1> QED
  BY <1>1, <1>11, <1>15, <1>18, ZenonT(30) DEF PayInv

\* The three assignments.
LEMMA PatchKeeps ==
    ASSUME PayInv, NEW e \in Encoders, Patch(e)
    PROVE  PayInv'
<1>1. CASE PatchStep(e, "uuid", "uuid", "req")
  BY <1>1, PatchStepKeeps, ZenonT(30)
<1>2. CASE PatchStep(e, "req", "req", "skip")
  BY <1>2, PatchStepKeeps, ZenonT(30)
<1>3. CASE PatchStep(e, "skip", "skip", "bytes")
  BY <1>3, PatchStepKeeps, ZenonT(30)
<1> QED
  BY <1>1, <1>2, <1>3, ZenonT(30) DEF Patch

-----------------------------------------------------------------------------
(* The payload cache, and the theorem. *)

\* The first state.
LEMMA PayloadInit == PayInit => PayInv
<1> SUFFICES ASSUME PayInit PROVE PayInv
  BY ZenonT(30)
<1>1. store = <<>> /\ prev = <<>> /\ template = 0 /\ encodes = 0
  BY ZenonT(30) DEF PayInit
<1>2. DOMAIN store = {}
  BY <1>1
<1>3. Stored(store, prev)
  BY <1>2, ZenonT(30) DEF Stored
<1>4. prev \in Seq(Transfers) /\ encodes \in 0..MaxEncodes /\ template \in 0..encodes /\ encodes \in Nat
  BY <1>1, PayAssumption
<1>5. DOMAIN requests = Objects /\ \A o \in Objects : requests[o] = Blank
  BY ZenonT(30) DEF PayInit
<1>6. RequestOk(Blank)
  BY ZenonT(30) DEF RequestOk, Blank
<1>7. RequestsOk(requests)
  BY <1>5, <1>6, ZenonT(30) DEF RequestsOk
<1>8. DOMAIN encoders = Encoders /\ \A e \in Encoders : encoders[e] = Free
  BY ZenonT(30) DEF PayInit
<1>9. EncoderOk(Free, requests, encodes) /\ Free.pc = "idle"
  BY <1>4, FreeOk, ZenonT(30)
<1>10. EncodersOk(encoders, requests, encodes)
  BY <1>8, <1>9, ZenonT(30) DEF EncodersOk
<1>11. Alone(encoders, template, encodes)
  BY <1>8, <1>9, ZenonT(30) DEF Alone
<1> QED
  BY <1>3, <1>4, <1>7, <1>10, <1>11, ZenonT(30) DEF PayInv

\* Every step.
LEMMA PayloadKeeps == PayInv /\ [PayNext]_payVars => PayInv'
<1> SUFFICES ASSUME PayInv, [PayNext]_payVars PROVE PayInv'
  BY ZenonT(30)
<1>1. CASE UNCHANGED payVars
  BY <1>1, ZenonT(30) DEF payVars, PayInv
<1>2. CASE ClearPayloads
  BY <1>2, ClearPayloadsKeeps, ZenonT(30)
<1>3. ASSUME NEW e \in Encoders, NEW c \in Transfers, Lookup(e, c) PROVE PayInv'
  BY <1>3, LookupKeeps, ZenonT(30)
<1>4. ASSUME NEW e \in Encoders, Patch(e) \/ Serialize(e) \/ Build(e) \/ StorePayload(e) \/ Send(e) PROVE PayInv'
  BY <1>4, PatchKeeps, SerializeKeeps, BuildKeeps, StorePayloadKeeps, SendKeeps, ZenonT(30)
<1> QED
  BY <1>1, <1>2, <1>3, <1>4, ZenonT(30) DEF PayNext

\* What the invariant says of the payloads.
LEMMA PayloadNames == PayInv => PayloadNamesTransfer
<1> SUFFICES ASSUME PayInv PROVE PayloadNamesTransfer
  BY ZenonT(30)
<1>1. ASSUME NEW k \in DOMAIN store
      PROVE  k \in UNION {{CacheKey(prev[i]), SteadyKey(prev[i])} : i \in DOMAIN prev}
  BY DEF PayInv, Stored, Remembered
<1>2. ASSUME NEW e \in Encoders, encoders[e].pc = "sent" PROVE Names(encoders[e], encoders[e].call)
  BY <1>2, ZenonT(30) DEF PayInv, EncodersOk, EncoderOk
<1> QED
  BY <1>1, <1>2, ZenonT(30) DEF PayloadNamesTransfer, Names

\* For any number of threads, requests, units, keys, calls, registrations and
\* encoders: a cached schedule has the topology, the shards (of a destination)
\* and the endpoints of each of its units as they are registered now, but for
\* the units that registered after the computation had read them and before
\* the schedule was in the cache, or that attach_host changed since it read
\* them; and the payload sent for a transfer has the transfer's uuid and skip_d2h,
\* unless two threads patched the template at the same time, while the
\* dictionary holds payloads of the remembered calls only.
THEOREM CachesTrueInvariant ==
    (CtlInit /\ [][CtlNext]_ctlVars) /\ (PayInit /\ [][PayNext]_payVars) => []CachesTrue
<1>1. CtlInv /\ PayInv => CachesTrue
  BY ControllerFresh, PayloadNames, ZenonT(30) DEF CachesTrue
<1>2. CtlInit /\ [][CtlNext]_ctlVars => []CtlInv
  BY ControllerInit, ControllerKeeps, PTL
<1>3. PayInit /\ [][PayNext]_payVars => []PayInv
  BY PayloadInit, PayloadKeeps, PTL
<1> QED
  BY <1>1, <1>2, <1>3, PTL
=============================================================================
