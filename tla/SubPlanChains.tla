---------------------------- MODULE SubPlanChains ----------------------------
(* How a worker reports a chained pool reshard as one request                 *)
(* (KVCacheManagerWithTransfer, kv_cache/kv_cache_manager_with_transfer.cc):  *)
(* the coordinator registers the sub-plans of a chain one after another under *)
(* one request id; each has a session of its own, and CompleteRead turns      *)
(* their outcomes into one terminal.  A request may be tried again, as a new  *)
(* chain, while sub-plans of the old one still run.  Times are ages, counted  *)
(* up to one past the timeout.                                                *)
EXTENDS Integers, Sequences, SequencesExt, FiniteSets, FiniteSetsExt, Functions

CONSTANTS Tries,        \* requests: [count, prompt]
          Timeout       \* timeout_s_

VARIABLES try, sess, next, progress, out, told, poll

vars == <<try, sess, next, progress, out, told, poll>>

(* try: count (sub-plans of each chain tried), prompt (a session past its     *)
(* deadline has no copy running, and the coordinator registers a sub-plan     *)
(* before the chain is quiet for a timeout).                                  *)
(* sess: sessions by <<chain, sub-plan>>: st, age, and whether sessions_      *)
(* still holds it.  next: what the coordinator registers next.  progress:     *)
(* sub_plan_chains_ of the request.  out: done_ and failed_ sets of the       *)
(* request; told: what CompleteRead has returned, by the chain then current;  *)
(* poll: the CompleteRead that holds mu_, and what it has still to visit.     *)
NoProgress == [live |-> FALSE, anchored |-> FALSE, subs |-> <<>>,
               failed |-> FALSE, completed |-> FALSE, quiet |-> 0]

Init ==
  /\ try \in Tries
  /\ sess = <<>> /\ next = [c |-> 1, i |-> 0, on |-> TRUE] /\ progress = NoProgress
  /\ out = {} /\ told = [c \in DOMAIN try.count |-> <<>>]
  /\ poll = [on |-> FALSE, todo |-> {}]

Settled(x) == sess[x].st \in {"ok", "failed"}
Subs(p) == {p.subs[k] : k \in DOMAIN p.subs} \ {<<>>}
Late(age) == age > Timeout

(* NoteSubPlanRegisteredLocked for sub-plan i of n: sub-plan 0 starts anew. *)
NoteSubPlanRegistered(p0, x, i, n) ==
  LET p == IF i = 0 THEN [NoProgress EXCEPT !.anchored = TRUE] ELSE p0
  IN IF n <= 1 THEN NoProgress
     ELSE [p EXCEPT !.live = TRUE, !.quiet = 0,
             !.subs = [k \in 1..Max({n, Len(@)}) |->
                         IF k = i + 1 THEN x
                         ELSE IF k \in DOMAIN @ THEN @[k] ELSE <<>>]]

(* PoolReshardPush or PoolReshardRegisterRecv: the coordinator has gone on to *)
(* the next sub-plan.                                                         *)
RegisterSubPlan ==
  /\ ~poll.on /\ next.on /\ next.i < try.count[next.c]
  /\ LET x == <<next.c, next.i>>
     IN /\ sess' = [y \in DOMAIN sess \cup {x} |->
                      IF y = x THEN [st |-> "active", age |-> 0, held |-> TRUE]
                      ELSE sess[y]]
        /\ progress' = NoteSubPlanRegistered(progress, x, next.i, try.count[next.c])
  /\ next' = [next EXCEPT !.i = @ + 1]
  /\ UNCHANGED <<try, out, told, poll>>

(* The coordinator gives the chain up before its last sub-plan. *)
GiveUp ==
  /\ next.on /\ next.i \in 1..try.count[next.c] - 1
  /\ next' = [next EXCEPT !.on = FALSE]
  /\ UNCHANGED <<try, sess, progress, out, told, poll>>

(* The consumer tries again. *)
Retry ==
  /\ next.c + 1 \in DOMAIN try.count /\ next.i > 0
  /\ next' = [c |-> next.c + 1, i |-> 0, on |-> TRUE]
  /\ UNCHANGED <<try, sess, progress, out, told, poll>>

(* A session settles in its own time. *)
Settle(x) ==
  /\ ~Settled(x)
  /\ \E st \in {"ok", "failed"} :
       /\ sess[x].st = "draining" => st = "failed"
       /\ sess' = [sess EXCEPT ![x].st = st]
  /\ UNCHANGED <<try, next, progress, out, told, poll>>

(* RecordPoolReshardTerminalLocked, with sessions S: what the end of session  *)
(* x makes of the chain's progress p, and what it reports.  The first         *)
(* failure, or the last success, is the request's; a sub-plan of a superseded *)
(* chain is ignored.                                                          *)
RecordTerminal(S, p, x) ==
  LET say == {IF S[x].st = "ok" THEN "done" ELSE "failed"}
      t == [p EXCEPT !.quiet = 0]
      good == {k \in DOMAIN p.subs : p.subs[k] # <<>> /\ S[p.subs[k]].st = "ok"}
  IN IF ~p.live THEN [p |-> p, say |-> say]
     ELSE IF x \notin Subs(p) THEN [p |-> p, say |-> IF p.anchored THEN {} ELSE say]
     ELSE IF p.failed \/ p.completed THEN [p |-> t, say |-> {}]
     ELSE IF S[x].st # "ok" THEN [p |-> [t EXCEPT !.failed = TRUE], say |-> say]
     ELSE IF Cardinality(good) = Len(p.subs)
     THEN [p |-> [t EXCEPT !.completed = TRUE, !.subs = <<>>], say |-> say]
     ELSE [p |-> t, say |-> {}]

SweepSubPlanChains_NeverStalls(S, p) ==
  IF p.live /\ Late(p.quiet) /\ (p.failed \/ p.completed)
  THEN [p |-> NoProgress, say |-> {}] ELSE [p |-> p, say |-> {}]

(* SweepSubPlanChainsLocked: a chain quiet for a timeout is forgotten when it *)
(* was reported, and reported failed when none of its sub-plans is active.    *)
SweepSubPlanChains(S, p) ==
  IF ~p.live \/ ~Late(p.quiet) THEN [p |-> p, say |-> {}]
  ELSE IF p.failed \/ p.completed THEN [p |-> NoProgress, say |-> {}]
  ELSE IF \E y \in Subs(p) : S[y].st \notin {"ok", "failed"}
  THEN [p |-> [p EXCEPT !.quiet = 0], say |-> {}]
  ELSE [p |-> [p EXCEPT !.failed = TRUE, !.subs = <<>>, !.quiet = 0],
        say |-> {"failed"}]

Current == IF next.i > 0 THEN next.c ELSE next.c - 1

Due(x) == sess[x].held /\ (Settled(x) \/ (sess[x].st = "active" /\ sess[x].age >= Timeout))

(* CompleteRead takes mu_, and visits every session. *)
CompleteRead ==
  /\ ~poll.on
  /\ poll' = [on |-> TRUE, todo |-> {x \in DOMAIN sess : Due(x)}]
  /\ UNCHANGED <<try, sess, next, progress, out, told>>

(* A session past its deadline is finished (one whose copies still run only   *)
(* drains); a settled one is recorded and retired.                            *)
Visit(x) ==
  /\ poll.on /\ Due(x)
  /\ poll' = [poll EXCEPT !.todo = @ \ {x}]
  /\ \/ /\ ~Settled(x) /\ ~try.prompt
        /\ sess' = [sess EXCEPT ![x].st = "draining"]
        /\ UNCHANGED <<progress, out>>
     \/ LET S == [sess EXCEPT ![x].st = IF Settled(x) THEN @ ELSE "failed",
                              ![x].held = FALSE]
            r == RecordTerminal(S, progress, x)
        IN sess' = S /\ progress' = r.p /\ out' = out \cup r.say
  /\ UNCHANGED <<try, next, told>>

(* Quiet chains are swept, and what was reported is returned. *)
ReturnCompletions ==
  /\ poll.on /\ poll.todo = {}
  /\ LET swept == SweepSubPlanChains(sess, progress)
         says == out \cup swept.say
     IN /\ progress' = swept.p
        /\ told' = IF says = {} THEN told
                   ELSE [told EXCEPT ![Current] = Append(@, says)]
  /\ poll' = [poll EXCEPT !.on = FALSE] /\ out' = {}
  /\ UNCHANGED <<try, sess, next>>

(* Time passes; CompleteRead reads the clock once, when it starts. *)
Tick ==
  LET older(a) == IF Late(a) THEN a ELSE a + 1
  IN /\ ~poll.on
     /\ try.prompt /\ next.on /\ next.i \in 1..try.count[next.c] - 1 =>
          ~Late(progress.quiet + 1)
     /\ sess' = [x \in DOMAIN sess |-> [sess[x] EXCEPT !.age = older(@)]]
     /\ progress' = [progress EXCEPT !.quiet = IF progress.live THEN older(@) ELSE 0]
     /\ UNCHANGED <<try, next, out, told, poll>>

Poll == CompleteRead \/ ReturnCompletions \/ \E x \in DOMAIN sess : Visit(x)

(* A session past its deadline ends when its copies do. *)
Drain == \E x \in DOMAIN sess : sess[x].st = "draining" /\ Settle(x)

Next ==
  \/ RegisterSubPlan \/ GiveUp \/ Retry \/ Poll \/ Tick
  \/ \E x \in DOMAIN sess : Settle(x)

Spec ==
  /\ Init /\ [][Next]_vars
  /\ SF_vars(Tick) /\ WF_vars(Poll) /\ WF_vars(RegisterSubPlan \/ GiveUp)
  /\ WF_vars(Drain)

(* A request is reported done only when every sub-plan of its current chain   *)
(* settled well, and, when its sessions and its coordinator keep to the       *)
(* timeout, it is reported once.                                              *)
ReportTrue ==
  \A c \in DOMAIN told :
    try.prompt =>
      /\ \A k \in DOMAIN told[c] : "done" \in told[c][k] =>
           \A i \in 0..try.count[c] - 1 :
             <<c, i>> \in DOMAIN sess /\ sess[<<c, i>>].st = "ok"
      /\ Len(told[c]) <= 1 /\ \A k \in DOMAIN told[c] : Cardinality(told[c][k]) = 1

(* A request whose chain has begun is reported, even when its coordinator     *)
(* stops half way, unless it is tried again.                                  *)
Begun == next.i > 0
Reported == next.i = 0 \/ told[next.c] # <<>>
ChainReported == Begun ~> Reported
=============================================================================
