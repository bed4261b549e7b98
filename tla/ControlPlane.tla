---------------------------- MODULE ControlPlane ----------------------------
(***************************************************************************)
(* What goes on beside the data path, each part by itself: the reshard     *)
(* control plane, the planner, the reshard sessions of the workers, the    *)
(* chains of sub-plans in a consumer's manager, and the reactor of one     *)
(* WriteRemote call.  The initial state chooses a part, and only that part *)
(* moves.  The constants are the small instances of each.                  *)
(***************************************************************************)
EXTENDS ReshardControl, SequencesExt, FiniteSetsExt

CONSTANTS Requests, Plans, Tries, Timeout, None

VARIABLES part,
          request, result,
          plan, snd, rcv, wire, copy, h2d, sbuf, rbuf, dev, page, strikes,
          try, sess, next, progress, out, heard, poll,
          handler, sender, destroyer, callback, cancel, opgate, gate, holder,
          ack_written, has_result, finished, started, write, deleted

planVars == <<request, result>>
sessionVars == <<plan, snd, rcv, wire, copy, h2d, sbuf, rbuf, dev, page, strikes>>
chainVars == <<try, sess, next, progress, out, heard, poll>>
callVars == <<handler, sender, destroyer, callback, cancel, opgate, gate, holder,
              ack_written, has_result, finished, started, write, deleted>>

Planner == INSTANCE PoolReshardPlan
Session == INSTANCE ReshardSession WITH faults <- strikes
Chains == INSTANCE SubPlanChains WITH told <- heard
Call == INSTANCE WriteRemoteReactor

-----------------------------------------------------------------------------
(* ReshardControl: one attempt of two units; two pipeline stages of one     *)
(* request; a chain of two, one source with nothing to send; a second       *)
(* generation; restarts, releases and slow clocks.                          *)
OneStage(dst, src) == <<[dst |-> dst, src |-> src]>>
Try(stage, uuid) == [stage |-> stage, uuid |-> uuid]

Base == [units |-> {1, 2}, stages |-> OneStage({1, 2}, {1, 2}), attempts |-> <<Try(1, 1)>>,
         chain |-> 1, empty |-> {}, faults |-> 1, restart |-> FALSE, cancel |-> TRUE,
         release |-> FALSE, stop |-> FALSE, prompt |-> TRUE]
Pipelined == [Base EXCEPT !.faults = 0, !.stages = OneStage({1}, {1}) \o OneStage({2}, {2}),
                          !.attempts = <<Try(1, 1), Try(2, 1)>>]
Chained == [Base EXCEPT !.chain = 2, !.empty = {2}, !.stop = TRUE, !.stages = OneStage({1}, {1, 2})]
Regen == [Base EXCEPT !.units = {1}, !.faults = 0, !.stages = OneStage({1}, {1}),
                      !.attempts = <<Try(1, 1), Try(1, 2)>>]
Rough == [Base EXCEPT !.units = {1}, !.restart = TRUE, !.release = TRUE, !.prompt = FALSE,
                      !.cancel = FALSE, !.stages = OneStage({1}, {1}),
                      !.attempts = <<Try(1, 1), Try(1, 1)>>]
AllSites == {Base, Pipelined, Chained, Regen, Rough}

(* PoolReshardPlan: the pages of a sequence dealt to two units in turn, at  *)
(* strides that differ, with declarations that miss, repeat or shift a      *)
(* span; pages of two heads, one for each destination; two tags whose       *)
(* units are pipeline stages.                                               *)
Layout == INSTANCE PoolLayout

Flat(n) == <<[off |-> 0, stride |-> n, unit |-> n, n |-> 1, per |-> 1]>>
Holed == <<[off |-> 0, stride |-> 3, unit |-> 1, n |-> 2, per |-> 2]>>
Pair == <<[off |-> 3, stride |-> 1, unit |-> 1, n |-> 1, per |-> 1],
          [off |-> 0, stride |-> 1, unit |-> 1, n |-> 2, per |-> 1]>>
Pool(tag, regions) ==
  [tag |-> tag, base |-> 0, stride |-> 6, blocks |-> 4, regions |-> regions, dtype |-> tag]
Live(p) == Layout!LiveBytes(Layout!LiveSegments(p))
CeilDiv(a, b) == (a + b - 1) \div b
PlainSpan(sb, so, do, size) ==
  [sb |-> sb, so |-> so, db |-> 0, do |-> do, size |-> size, ss |-> 0, ds |-> 0, count |-> 1, to |-> 0]
Offer(tag, v, ids, spans) ==
  [tag |-> tag, v |-> v, ids |-> ids, spans |-> spans,
   bytes |-> FoldLeft(LAMBDA n, s : n + s.size * s.count, 0, spans)]
Ids(n) == SubSeq(<<3, 1, 2, 0>>, 1, n)

Dealt(u, sp, len) ==
  LET mine == SelectSeq([p \in 1..CeilDiv(len, Live(sp)) |-> p - 1], LAMBDA p : p % 2 = u)
  IN [k \in DOMAIN mine |->
        PlainSpan(k, 0, mine[k] * Live(sp), Min({Live(sp), len - mine[k] * Live(sp)}))]
Spoilt(how, spans) ==
  CASE how = "drop" /\ Len(spans) > 1 -> Front(spans)
    [] how = "again" /\ spans # <<>> -> Append(spans, spans[1])
    [] how = "shift" /\ spans # <<>> -> [spans EXCEPT ![Len(spans)].do = @ + 1]
    [] OTHER -> spans
Spoils == {"no", "drop", "again", "shift"}

PagedRequests ==
  {LET sp == Pool("kv", sr)
       dp == Pool("kv", dr)
       skip == sk * Live(dp)
       unit(u) == [rank |-> u - 1, par |-> 2, pools |-> <<sp>>,
                   offers |-> <<Offer("kv", 1, <<u, u + 1>>,
                                      Spoilt(IF u = 1 THEN how ELSE "no", Dealt(u - 1, sp, len)))>>]
   IN [src |-> <<unit(1), unit(2)>>, dst |-> [d \in 1..nd |-> <<dp>>], tags |-> <<"kv">>,
       ids |-> Ids(CeilDiv(Max({1, len - skip}), Live(dp))), counts |-> <<>>,
       skips |-> IF skip = 0 THEN <<>> ELSE <<skip>>, offs |-> <<>>, totals |-> <<>>, par |-> 0,
       windows |-> IF w = 0 THEN <<>> ELSE <<w>>]
   : sr \in {Flat(2), Holed}, dr \in {Flat(2), Pair}, len \in {5, 7}, sk \in 0..1, nd \in 1..2,
     how \in Spoils, w \in 0..2}

HeadSpan(v, pg, d) ==
  [sb |-> pg, so |-> d - 1, size |-> 1, ss |-> 2, count |-> 2, to |-> d, ds |-> 1,
   db |-> IF v = 1 THEN 0 ELSE pg - 1, do |-> IF v = 1 THEN (pg - 1) * 2 ELSE 0]
HeadRequests ==
  {[src |-> <<[rank |-> 0, par |-> 2, pools |-> <<Pool("kv", sr)>>,
               offers |-> <<Offer("kv", v, <<2, 0>>,
                 Spoilt(how, <<HeadSpan(v, 1, 1), HeadSpan(v, 1, 2),
                               HeadSpan(v, 2, 1), HeadSpan(v, 2, 2)>>))>>]>>,
    dst |-> <<<<Pool("kv", Flat(2))>>, <<Pool("kv", Flat(2))>>>>, tags |-> <<"kv">>,
    ids |-> <<1, 3>>, counts |-> <<>>, skips |-> <<>>, offs |-> <<>>, totals |-> <<>>,
    par |-> par, windows |-> IF v = 1 THEN <<w>> ELSE <<>>]
   : v \in 0..1, sr \in {Flat(4), Holed}, par \in 0..1, w \in 0..1, how \in Spoils}

StageRequests ==
  {LET kv == Pool("kv", Flat(2))
       ssm == Pool("ssm", Pair)
       wide == Pool("kv", Flat(4))
       more(x) == IF both THEN x ELSE <<>>
   IN [src |-> <<[rank |-> 1, par |-> 2, pools |-> <<kv, kv>>, offers |->
                  <<Offer("kv", 1, <<0, 1>>, <<PlainSpan(1, 0, 0, 2), PlainSpan(2, 0, 2, 2)>>)>>],
                 [rank |-> 0, par |-> 2, pools |-> <<ssm>> \o more(<<kv, kv>>),
                  offers |-> <<Offer("ssm", 0, <<3>>, <<PlainSpan(1, 0, 0, 3)>>)>>
                             \o more(<<Offer("kv", 1, <<2>>, <<PlainSpan(1, 0, 4, 2)>>)>>)]>>,
       dst |-> <<<<wide, ssm, wide>>, <<wide, ssm, wide>>>>, tags |-> <<"kv", "ssm">>,
       ids |-> ids, counts |-> <<Len(ids) - 1, 1>>, skips |-> IF sk THEN <<4, 0>> ELSE <<>>,
       offs |-> <<>>, totals |-> <<>>, par |-> 1, windows |-> <<w, 0>>]
   : both \in BOOLEAN, sk \in BOOLEAN, w \in 0..1, ids \in {<<1, 2, 0>>, <<1, 0>>, <<1, 2, 1>>}}

AllRequests == StageRequests \cup HeadRequests \cup PagedRequests

(* ReshardSession: two ranks of senders; one sender to two receivers; a     *)
(* receiver armed late.                                                     *)
TwoRanks == [rank |-> <<0, 1>>, owns |-> <<{<<1, 1>>, <<2, 1>>}, {<<1, 1>>, <<2, 1>>}>>,
             sslots |-> 1, rslots |-> 2, faults |-> 0, late |-> FALSE, reuse |-> FALSE]
Fan == [rank |-> <<0, 1>>, owns |-> <<{<<1, 1>>, <<1, 2>>, <<2, 1>>}>>,
        sslots |-> 1, rslots |-> 1, faults |-> 1, late |-> TRUE, reuse |-> FALSE]
Late == [TwoRanks EXCEPT !.late = TRUE, !.reuse = TRUE,
                         !.owns = <<{<<1, 1>>}, {<<1, 1>>, <<2, 1>>}>>]
AllPlans == {TwoRanks, Fan, Late}

(* SubPlanChains: two requests of two sub-plans, and one of one whose       *)
(* manager is slow.                                                         *)
AllTries == {[count |-> <<2, 2>>, prompt |-> TRUE], [count |-> <<1>>, prompt |-> FALSE]}

-----------------------------------------------------------------------------
Start ==
  /\ part \in {"control", "plan", "session", "chain", "call"}
  /\ Init /\ (part = "control" \/ site = Regen)
  /\ IF part = "plan" THEN Planner!Init
       ELSE /\ request = 0 /\ result = 0
  /\ IF part = "session" THEN Session!Init
       ELSE /\ plan = [owns |-> <<>>, rank |-> <<>>] /\ snd = 0 /\ rcv = 0 /\ wire = 0 /\ copy = 0
            /\ h2d = 0 /\ sbuf = 0 /\ rbuf = 0 /\ dev = 0 /\ page = 0
            /\ strikes = 0
  /\ IF part = "chain" THEN Chains!Init
       ELSE /\ try = 0 /\ sess = 0 /\ next = [i |-> 0, c |-> 1] /\ progress = 0 /\ out = 0
            /\ heard = <<<<>>>> /\ poll = 0
  /\ Call!Init /\ (part = "call" \/ handler = "recorded")

Step ==
  \/ part = "control" /\ Next /\ UNCHANGED <<part, planVars, sessionVars, chainVars, callVars>>
  \/ part = "plan" /\ Planner!Next /\ UNCHANGED <<part, vars, sessionVars, chainVars, callVars>>
  \/ part = "session" /\ Session!Next /\ UNCHANGED <<part, vars, planVars, chainVars, callVars>>
  \/ part = "chain" /\ Chains!Next /\ UNCHANGED <<part, vars, planVars, sessionVars, callVars>>
  \/ part = "call" /\ Call!Next /\ UNCHANGED <<part, vars, planVars, sessionVars, chainVars>>

(* Each part's own fairness. *)
Fairness ==
  /\ WF_vars(part = "control" /\ Progress)
  /\ WF_sessionVars(part = "session" /\ Session!Step)
  /\ WF_sessionVars(part = "session" /\ Session!Deadline)
  /\ SF_chainVars(part = "chain" /\ Chains!Tick) /\ WF_chainVars(part = "chain" /\ Chains!Poll)
  /\ WF_chainVars(part = "chain" /\ (Chains!RegisterSubPlan \/ Chains!GiveUp))
  /\ WF_chainVars(part = "chain" /\ Chains!Drain)
  /\ WF_callVars(part = "call" /\ Call!Handler) /\ WF_callVars(part = "call" /\ Call!Terminal)
  /\ WF_callVars(part = "call" /\ Call!Sender) /\ WF_callVars(part = "call" /\ Call!Destroyer)
  /\ WF_callVars(part = "call" /\ Call!Callbacks)

AllSpec ==
  Start /\ [][Step]_<<part, vars, planVars, sessionVars, chainVars, callVars>> /\ Fairness

-----------------------------------------------------------------------------
(* Properties; AttemptsSound, of the control plane, is in its module. *)

\* A plan is made for exact declarations, lands what they declare, and every
\* worker accepts its part of it.
PlanSound == part = "plan" => Planner!ReshardPlanExact /\ Planner!WorkersAccept

\* A reshard reported as received has its senders' bytes on the device, a settled
\* session owns nothing that is still in use, and a chain is reported done only
\* when all of its sub-plans are, and once.
SessionsSound ==
  /\ part = "session" => Session!ReshardLands /\ Session!SettledQuiet
  /\ part = "chain" => Chains!ReportTrue

\* Nobody is inside the WriteRemote reactor once it has deleted itself, one
\* operation finishes a call, and the result is written after the ack.
ReactorSafe == part = "call" => Call!NoUseAfterDelete /\ Call!GrpcContract

\* What has begun, and what is over.
Pending ==
  \/ part = "control" /\ Trying
  \/ part = "session"
  \/ part = "chain" /\ Chains!Begun
  \/ part = "call" /\ (Call!HasResult \/ Call!Ending)

Over ==
  \/ part = "control" /\ ~Trying
  \/ part = "session" /\ Session!AllSettled
  \/ part = "chain" /\ Chains!Reported
  \/ /\ part = "call"
     /\ Call!HasResult => Call!Delivered
     /\ Call!Ending => deleted

\* Every attempt at a reshard ends, every session settles, every chain that
\* began is reported, a result that found its WriteRemote call open is written
\* unless the call was cancelled, torn down or its ack failed, and a call that
\* was finished, or that its source cancels, is freed.
AllEnds == Pending ~> Over

=============================================================================
