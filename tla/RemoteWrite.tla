---------------------------- MODULE RemoteWrite ----------------------------
(***************************************************************************)
(* The remote write protocol between two stores: the source's side         *)
(* (KVCacheStore::SaveRemote, HostOffloadBackend::BeginWriteRemote and the *)
(* client of kv_cache_store_client.cc) and the destination's service       *)
(* (kv_cache_store_service.cc).                                            *)
(*                                                                         *)
(* The source offers one batch, the set Hashes, again and again; every     *)
(* offer is a call with its own record at the destination.  The            *)
(* destination pulls the bytes straight out of the source's memory, so     *)
(* what it reads is right only while the source keeps the blocks pinned:   *)
(* source says whether they still hold the data or were reused.  Time is a *)
(* clock both sides read; the request takes at most MaxLatency of it.      *)
(***************************************************************************)
EXTENDS Naturals, Sequences, FiniteSets

CONSTANT Sites      \* pairs of stores, each a record of the following

VARIABLES site,
          now,
          client,        \* per offer: pc, when the hold lapses, the verdict
          pins, caller,  \* pins on the batch, and how many are the caller's
          other,         \* pins of another user of the backend
          source,        \* what the source's blocks hold: "data" or "reused"
          active,        \* keys of active_remote_writes_
          alive,         \* the source store has not been destroyed
          call, wire,    \* per offer: the stream, messages under way
          op,            \* per offer: the destination's record
          index,         \* destination: per hash "absent", "data" or "torn"
          stored,        \* hashes the destination has held (history)
          up             \* the destination serves

Hashes == site.hashes              \* the batch
Offers == 1 .. site.offers         \* bound: saves of it, in this order
Hold == site.hold                  \* RemoteWriteHold
Margin == site.margin              \* kRemoteWriteMargin
Cap == site.cap                    \* DeadlineCap
RecordMargin == site.recordMargin  \* kRecordMargin
MaxLatency == site.maxLatency      \* bound: ticks between an offer and its acceptance
MaxTime == site.maxTime            \* bound: ticks of the clock
LosesAcks == "acks" \in site.faults      \* the connection may break before the ack arrives
LosesPolls == "polls" \in site.faults    \* a poll may fail while the destination lives
Teardown == "teardown" \in site.faults   \* the source store may be destroyed, its backend not
Delivers == ~LosesAcks /\ ~LosesPolls
Crashes == "down" \in site.faults        \* the destination may go away
Busy == "saves" \in site.faults          \* the destination saves and evicts the hashes itself

\* The margin is shorter than the hold, and covers the latency of the request.
ASSUME MarginAssumption ==
  \A s \in Sites : /\ {s.hold, s.margin, s.cap, s.maxLatency} \subseteq Nat
                   /\ s.margin < s.hold /\ s.maxLatency <= s.margin

src == <<client, pins, caller, other, source, active, alive>>
net == <<call, wire>>
dst == <<op, index, stored, up>>
vars == <<site, now, src, net, dst>>

Terminal == {"committed", "allexist", "partial", "failed", "unregistered"}
NoOp == [state |-> "none", step |-> "idle", transfer |-> "none", read |-> "none",
         deadline |-> 0, blocks |-> "none", existing |-> {}]

Ack(exist, hs) == [kind |-> "ack", state |-> exist, existing |-> hs]
Result(state, hs) == [kind |-> "result", state |-> state, existing |-> hs]

-----------------------------------------------------------------------------
(* The source. *)

Less(n, k) == IF n > k THEN n - k ELSE 0      \* Unpin is clamped at 0
InFlight(o) == client[o].pc \in {"offered", "accepted", "polling", "abandoned"}
Moves(o, pc) == client' = [client EXCEPT ![o].pc = pc]

\* Settling, as every path does: the internal pin goes, with success the
\* caller's too, then the verdict is published.
Settle(o, verdict) ==
  /\ client' = [client EXCEPT ![o].pc = "settled", ![o].verdict = verdict]
  /\ pins' = Less(pins, IF verdict.kind = "done" THEN 2 ELSE 1)
  /\ caller' = IF verdict.kind = "done" THEN 0 ELSE caller

Verdict(kind, hs) == [kind |-> kind, existing |-> hs]
VerdictOf(state, existing) ==
  CASE state \in {"committed", "allexist"} -> Verdict("done", {})
    [] state = "partial"                   -> Verdict("failed", existing)
    [] OTHER                               -> Verdict("failed", {})

\* Mutant of Requested: asks for the whole hold.
Requested_NoMargin == Hold

\* The deadline asked for leaves the destination less time than the hold.
Requested == Hold - Margin

\* SaveRemote up to the RPC: the caller's pin is there, no save of the batch
\* is pending, the internal pin is taken and the hold armed.
SaveRemote(o) ==
  /\ alive /\ client[o].pc = "idle" /\ caller = 1 /\ source = "data"
  /\ \A p \in Offers : ~InFlight(p) /\ (p < o => client[p].pc # "idle")
  /\ now + Hold <= MaxTime
  /\ pins' = pins + 1
  /\ client' = [client EXCEPT ![o].pc = "offered", ![o].hold = now + Hold]
  /\ active' = active \cup {o}
  /\ call' = [call EXCEPT ![o] = "requested"]
  /\ UNCHANGED <<now, caller, other, source, alive, wire, dst>>

\* The call ended before an ack: refused, broken, or past its deadline.  The
\* pin is released and the error returned, with no verdict.
AckError(o) ==
  /\ alive /\ client[o].pc = "offered"
  /\ call[o] \in {"refused", "broken", "cancelled"} \/ now >= client[o].hold
  /\ Settle(o, Verdict("error", {}))
  /\ active' = active \ {o}
  /\ call' = [call EXCEPT ![o] = "broken"]
  /\ wire' = [wire EXCEPT ![o] = <<>>]
  /\ UNCHANGED <<now, other, source, alive, dst>>

\* The ack arrives: an existence answer settles at once, an accepted offer
\* waits for the result.
AckArrives(o) ==
  /\ alive /\ client[o].pc = "offered" /\ wire[o] # <<>>
  /\ LET ack == Head(wire[o])
     IN IF ack.state = "accepted"
        THEN Moves(o, "accepted") /\ UNCHANGED <<pins, caller, active>>
        ELSE Settle(o, VerdictOf(ack.state, ack.existing)) /\ active' = active \ {o}
  /\ wire' = [wire EXCEPT ![o] = Tail(@)]
  /\ UNCHANGED <<now, other, source, alive, call, dst>>

\* Mutant of ResultArrives: a failed save takes the caller's pin too.
ResultArrives_TakesBoth(o) ==
  /\ alive /\ client[o].pc = "accepted" /\ wire[o] # <<>>
  /\ client' = [client EXCEPT ![o].pc = "settled",
                              ![o].verdict = VerdictOf(Head(wire[o]).state, Head(wire[o]).existing)]
  /\ pins' = Less(pins, 2)
  /\ UNCHANGED caller
  /\ wire' = [wire EXCEPT ![o] = Tail(@)]
  /\ UNCHANGED <<now, other, source, active, alive, call, dst>>

\* The result arrives.  The record stays in active_remote_writes_.
ResultArrives(o) ==
  /\ alive /\ client[o].pc = "accepted" /\ wire[o] # <<>>
  /\ Settle(o, VerdictOf(Head(wire[o]).state, Head(wire[o]).existing))
  /\ wire' = [wire EXCEPT ![o] = Tail(@)]
  /\ UNCHANGED <<now, other, source, active, alive, call, dst>>

\* The stream ended without a result.  Within the hold the destination is
\* asked once more; after it the offer has failed.  A stream that ended
\* CANCELLED is taken for the store's own cancellation: the handler returns,
\* and neither the pin nor the pending mark is taken back.
StreamError(o) ==
  /\ alive /\ client[o].pc = "accepted"
  /\ call[o] \in {"broken", "cancelled"} \/ now >= client[o].hold
  /\ IF call[o] = "cancelled"
     THEN Moves(o, "abandoned") /\ UNCHANGED <<pins, caller>>
     ELSE IF now >= client[o].hold
     THEN Settle(o, Verdict("failed", {}))
     ELSE Moves(o, "polling") /\ UNCHANGED <<pins, caller>>
  /\ call' = [call EXCEPT ![o] = "broken"]
  /\ wire' = [wire EXCEPT ![o] = <<>>]
  /\ UNCHANGED <<now, other, source, active, alive, dst>>

\* Mutant of PollAnswered: waits for the end of the operation, however late.
PollAnswered_Waits(o) ==
  /\ alive /\ client[o].pc = "polling" /\ up
  /\ op[o].state \in Terminal \cup {"gone"}
  /\ Settle(o, VerdictOf(op[o].state, op[o].existing))
  /\ UNCHANGED <<now, other, source, active, alive, net, dst>>

\* PollWriteRemote answers when the operation is terminal, when its record is
\* gone (UNKNOWN), or at the end of the hold (PENDING).
PollAnswered(o) ==
  /\ alive /\ client[o].pc = "polling" /\ up
  /\ op[o].state \in Terminal \cup {"gone"} \/ now >= client[o].hold
  /\ Settle(o, VerdictOf(op[o].state, op[o].existing))
  /\ UNCHANGED <<now, other, source, active, alive, net, dst>>

\* The poll itself fails.
PollFailed(o) ==
  /\ alive /\ client[o].pc = "polling" /\ (LosesPolls \/ ~up)
  /\ Settle(o, Verdict("failed", {}))
  /\ UNCHANGED <<now, other, source, active, alive, net, dst>>

\* The caller takes a pin by a lookup, or gives its pin up.
CallerPin ==
  /\ alive /\ source = "data" /\ caller = 0
  /\ pins' = pins + 1 /\ caller' = 1
  /\ UNCHANGED <<now, client, other, source, active, alive, net, dst>>

CallerRelease ==
  /\ caller = 1 /\ \A o \in Offers : ~InFlight(o)
  /\ pins' = Less(pins, 1) /\ caller' = 0
  /\ UNCHANGED <<now, client, other, source, active, alive, net, dst>>

\* Unpinned blocks are evicted and handed to another hash.
Reuse ==
  /\ pins = 0 /\ source = "data"
  /\ source' = "reused"
  /\ UNCHANGED <<now, client, pins, caller, other, active, alive, net, dst>>

\* Another user of a shared backend.
OtherPin ==
  /\ Teardown /\ source = "data" /\ other = 0
  /\ pins' = pins + 1 /\ other' = 1
  /\ UNCHANGED <<now, client, caller, source, active, alive, net, dst>>

\* ~KVCacheStore: the backend's callbacks are fenced off, the open calls
\* cancelled, and every recorded operation gets a failed verdict.
Destroy ==
  /\ Teardown /\ alive /\ \A o \in Offers : client[o].pc # "offered"
  /\ alive' = FALSE
  /\ pins' = Less(pins, Cardinality(active))
  /\ active' = {}
  /\ client' = [o \in Offers |-> IF InFlight(o) THEN [client[o] EXCEPT !.pc = "settled"]
                                               ELSE client[o]]
  /\ call' = [o \in Offers |-> IF o \in active THEN "broken" ELSE call[o]]
  /\ wire' = [o \in Offers |-> IF o \in active THEN <<>> ELSE wire[o]]
  /\ UNCHANGED <<now, caller, other, source, dst>>

-----------------------------------------------------------------------------
(* The destination. *)

Present == {h \in Hashes : index[h] # "absent"}
Grant == IF Requested < Cap THEN Requested ELSE Cap
Send(o, msg) == wire' = [wire EXCEPT ![o] = IF call[o] = "open" THEN Append(@, msg) ELSE @]

\* WriteRemote: the existence rule, or landing blocks, a record and the pull.
WriteRemote(o) ==
  /\ up /\ call[o] = "requested" /\ now + Hold <= client[o].hold + MaxLatency
  /\ call' = [call EXCEPT ![o] = "open"]
  /\ IF Present # {}
     THEN /\ wire' = [wire EXCEPT ![o] =
                        <<IF Present = Hashes THEN Ack("allexist", {})
                                              ELSE Ack("partial", Present)>>]
          /\ UNCHANGED op
     ELSE /\ wire' = [wire EXCEPT ![o] = <<Ack("accepted", {})>>]
          /\ op' = [op EXCEPT ![o] = [NoOp EXCEPT !.state = "pending", !.transfer = "running",
                                                  !.blocks = "held", !.deadline = now + Grant]]
  /\ UNCHANGED <<now, src, index, stored, up>>

\* No landing blocks: refused without an operation.
WriteRemoteRefused(o) ==
  /\ up /\ call[o] = "requested" /\ now + Hold <= client[o].hold + MaxLatency
  /\ Present = {}
  /\ call' = [call EXCEPT ![o] = "refused"]
  /\ UNCHANGED <<now, src, wire, dst>>

\* The pull ends; it read whatever the source's blocks held.
TransferEnds(o, good) ==
  /\ op[o].transfer = "running"
  /\ op' = [op EXCEPT ![o].transfer = IF good THEN "ok" ELSE "bad",
                      ![o].read = IF source = "data" THEN "data" ELSE "torn"]
  /\ UNCHANGED <<now, src, net, index, stored, up>>

\* MarkTerminal with the sending of the result; the blocks are dealt with next.
Finish(o, state, existing) ==
  /\ op' = [op EXCEPT ![o].state = state, ![o].existing = existing,
                      ![o].step = "release"]
  /\ Send(o, Result(state, existing))

\* Mutant of Complete: the claim does not look at the clock.
Complete_IgnoresDeadline(o) ==
  /\ op[o].transfer \in {"ok", "bad"} /\ op[o].step = "idle"
  /\ IF op[o].transfer = "ok" /\ op[o].state = "pending"
     THEN /\ op' = [op EXCEPT ![o].state = "completing", ![o].step = "recheck"]
          /\ UNCHANGED wire
     ELSE IF op[o].state = "pending"
     THEN Finish(o, "failed", {})
     ELSE op' = [op EXCEPT ![o].step = "release"] /\ UNCHANGED wire
  /\ UNCHANGED <<now, src, call, index, stored, up>>

\* CompleteWriteRemote's claim: in time, and not yet failed by the deadline.
Complete(o) ==
  /\ op[o].transfer \in {"ok", "bad"} /\ op[o].step = "idle"
  /\ IF op[o].transfer = "ok" /\ op[o].state = "pending" /\ now < op[o].deadline
     THEN /\ op' = [op EXCEPT ![o].state = "completing", ![o].step = "recheck"]
          /\ UNCHANGED wire
     ELSE IF op[o].state = "pending"
     THEN Finish(o, "failed", {})
     ELSE op' = [op EXCEPT ![o].step = "release"] /\ UNCHANGED wire
  /\ UNCHANGED <<now, src, call, index, stored, up>>

\* The existence rule again, under the index's lock.
Recheck(o) ==
  /\ op[o].step = "recheck"
  /\ IF Present = {}
     THEN op' = [op EXCEPT ![o].step = "insert"] /\ UNCHANGED wire
     ELSE IF Present = Hashes THEN Finish(o, "allexist", {})
     ELSE Finish(o, "partial", Present)
  /\ UNCHANGED <<now, src, call, index, stored, up>>

\* InsertAdmitStrict takes the whole batch ...
Insert(o) ==
  /\ op[o].step = "insert" /\ Present = {}
  /\ index' = [h \in Hashes |-> op[o].read]
  /\ stored' = Hashes
  /\ op' = [op EXCEPT ![o].step = "publish", ![o].blocks = "kept"]
  /\ UNCHANGED <<now, src, net, up>>

\* ... or, with no room or part of the batch in place by now, nothing.
InsertRefused(o) ==
  /\ op[o].step = "insert"
  /\ Finish(o, "failed", {})
  /\ UNCHANGED <<now, src, call, index, stored, up>>

\* FinishPublish.
Publish(o, registered) ==
  /\ op[o].step = "publish"
  /\ Finish(o, IF registered THEN "committed" ELSE "unregistered", {})
  /\ UNCHANGED <<now, src, call, index, stored, up>>

\* ReleaseLandingBlocks and Settle.
ReleaseLandingBlocks(o) ==
  /\ op[o].step = "release"
  /\ op' = [op EXCEPT ![o].step = "done",
                      ![o].blocks = IF @ = "held" THEN "freed" ELSE @]
  /\ UNCHANGED <<now, src, net, index, stored, up>>

\* DeadlineLoop fails an operation past its deadline; the blocks wait for the
\* pull.
DeadlineFires(o) ==
  /\ op[o].state = "pending" /\ now >= op[o].deadline
  /\ op' = [op EXCEPT ![o].state = "failed"]
  /\ Send(o, Result("failed", {}))
  /\ UNCHANGED <<now, src, call, index, stored, up>>

\* A settled record is collected after its margin, by DeadlineLoop or a poll.
Collect(o) ==
  /\ op[o].state \in Terminal /\ now >= op[o].deadline + RecordMargin
  /\ op[o].blocks = "freed" \/ op[o].state \in {"committed", "unregistered"}
  /\ op' = [op EXCEPT ![o].state = "gone"]
  /\ UNCHANGED <<now, src, net, index, stored, up>>

\* The destination saves a hash of the batch itself, or evicts one.
LocalSave(h) ==
  /\ Busy /\ up /\ index[h] = "absent"
  /\ index' = [index EXCEPT ![h] = "data"] /\ stored' = stored \cup {h}
  /\ UNCHANGED <<now, src, net, op, up>>

Evict(h) ==
  /\ Busy /\ index[h] # "absent"
  /\ index' = [index EXCEPT ![h] = "absent"]
  /\ UNCHANGED <<now, src, net, op, stored, up>>

\* The destination goes away, by a crash or a shutdown: late completions find
\* no service, the calls end UNAVAILABLE.
Down ==
  /\ Crashes /\ up /\ up' = FALSE
  /\ op' = [o \in Offers |-> IF op[o].state = "none" THEN NoOp
                             ELSE [NoOp EXCEPT !.state = "gone"]]
  /\ index' = [h \in Hashes |-> "absent"]
  /\ call' = [o \in Offers |-> IF call[o] = "none" THEN "none" ELSE "broken"]
  /\ wire' = [o \in Offers |-> <<>>]
  /\ UNCHANGED <<now, src, stored>>

\* An open stream ends early and what it carried is lost.
CallEnds(o, how) ==
  /\ client[o].pc = "offered" => LosesAcks
  /\ call' = [call EXCEPT ![o] = how]
  /\ wire' = [wire EXCEPT ![o] = <<>>]
  /\ UNCHANGED <<now, src, dst>>

\* The connection breaks.
Break(o) == call[o] \in {"requested", "open"} /\ CallEnds(o, "broken")

\* The destination's reactor finishes the call CANCELLED, when a write fails or
\* gRPC cancels it; the operation carries on.
Cancel(o) == call[o] = "open" /\ CallEnds(o, "cancelled")

Tick == now < MaxTime /\ now' = now + 1 /\ UNCHANGED <<src, net, dst>>

-----------------------------------------------------------------------------
Init ==
  /\ site \in Sites
  /\ now = 0
  /\ client = [o \in Offers |-> [pc |-> "idle", hold |-> 0, verdict |-> Verdict("none", {})]]
  /\ pins = 1 /\ caller = 1 /\ other = 0 /\ source = "data" /\ active = {} /\ alive = TRUE
  /\ call = [o \in Offers |-> "none"] /\ wire = [o \in Offers |-> <<>>]
  /\ op = [o \in Offers |-> NoOp]
  /\ index = [h \in Hashes |-> "absent"] /\ stored = {} /\ up = TRUE

ClientNext(o) ==
  \/ AckError(o)
  \/ AckArrives(o)
  \/ ResultArrives(o)
  \/ StreamError(o)
  \/ PollAnswered(o)
  \/ PollFailed(o)

ServerNext(o) ==
  \/ WriteRemote(o)
  \/ WriteRemoteRefused(o)
  \/ \E good \in BOOLEAN : TransferEnds(o, good)
  \/ Complete(o)
  \/ Recheck(o)
  \/ Insert(o)
  \/ InsertRefused(o)
  \/ \E registered \in BOOLEAN : Publish(o, registered)
  \/ ReleaseLandingBlocks(o)
  \/ DeadlineFires(o)
  \/ Collect(o)

Next ==
  /\ \/ \E o \in Offers : SaveRemote(o) \/ ClientNext(o) \/ ServerNext(o) \/ Break(o) \/ Cancel(o)
     \/ CallerPin
     \/ CallerRelease
     \/ Reuse
     \/ OtherPin
     \/ Destroy
     \/ \E h \in Hashes : LocalSave(h) \/ Evict(h)
     \/ Down
     \/ Tick
  /\ UNCHANGED site

Spec == Init /\ [][Next]_vars

\* Time passes, and the source's gRPC runtime delivers what has arrived or is
\* due.  Nothing is assumed of the destination, its transfers or the registry.
\* One offer of the batch is in flight at a time.
FairSpec == Spec /\ WF_now(Tick) /\ WF_vars(\E o \in Offers : ClientNext(o) /\ UNCHANGED site)

\* The destination's completion threads run, and the registry answers.  The
\* code bounds no transfer: that one ends is assumed here, not shown.
Completes(o) ==
  \/ \E good \in BOOLEAN : TransferEnds(o, good)
  \/ Complete(o)
  \/ Recheck(o)
  \/ Insert(o)
  \/ InsertRefused(o)
  \/ \E registered \in BOOLEAN : Publish(o, registered)
  \/ ReleaseLandingBlocks(o)

-----------------------------------------------------------------------------
(* Properties *)

\* Every variable keeps its type, and at most one offer of the batch adds its
\* pin to those of the batch's users.
TypeOK ==
  /\ now \in 0 .. MaxTime /\ pins \in 0 .. 2 + other /\ caller \in 0 .. 1 /\ other \in 0 .. 1
  /\ \A o \in Offers :
       /\ client[o].pc \in {"idle", "offered", "accepted", "polling", "abandoned", "settled"}
       /\ client[o].verdict.kind \in {"none", "done", "failed", "error"}
       /\ call[o] \in {"none", "requested", "refused", "open", "broken", "cancelled"}
       /\ op[o].state \in Terminal \cup {"none", "pending", "completing", "gone"}
       /\ op[o].blocks \in {"none", "held", "freed", "kept"}
  /\ index \in [Hashes -> {"absent", "data", "torn"}]

\* The source's pin outlives the pull that can still be committed: as long as
\* the destination may claim the operation, the offer's internal pin is held.
\* A source store that is destroyed gives its pins up by design.
PullsPinned ==
  \A o \in Offers :
    alive /\ op[o].state = "pending" /\ op[o].transfer = "running" /\ now < op[o].deadline
      => InFlight(o)

\* That holds where neither an ack nor a poll gets lost: a source that gets no
\* answer to either gives its pin up at once.
PinCoversPull == Delivers => PullsPinned

\* What a call holds, it gives back once.  The batch's pins are the caller's,
\* other users' and one per offer in flight, on every path of acks, verdicts,
\* errors, polls and deadlines.  Landing blocks go back to the pool only when the
\* pull is over and the index did not take them, and a record is not collected
\* before they are settled.
HoldsBalanced ==
  /\ alive => pins = caller + other + Cardinality({o \in Offers : InFlight(o)})
  /\ \A o \in Offers :
       /\ op[o].blocks = "freed" => op[o].transfer # "running"
                                    /\ op[o].state \notin {"committed", "unregistered"}
       /\ op[o].state = "gone" => op[o].blocks # "held"

\* What the destination indexes under a hash is the data of that hash: no
\* commit of bytes read after the source let the blocks go, while it lives and
\* no ack or poll gets lost.  A done verdict, on which the evict sweep drops the
\* only local copy, and a hash reported existing, are only given for what the
\* destination has held.
VerdictsTrue ==
  /\ alive /\ Delivers => \A h \in Hashes : index[h] # "torn"
  /\ \A o \in Offers :
       LET v == client[o].verdict
       IN (v.kind = "done" => stored = Hashes) /\ v.existing \subseteq stored

\* An offer waits for the network or the destination.
Waits(o) == client[o].pc \in {"offered", "accepted", "polling"}

\* No offer waits for ever, whatever the network and the destination do: it
\* settles, or its stream ended CANCELLED and only the store's end settles it
\* (the exception is in the code, see StreamError).  Landing blocks come back
\* or enter the index once their pull ends, also when the deadline has failed
\* the operation or the source store is gone.
OffersSettle ==
  /\ (\E o \in Offers : Waits(o)) ~> (\A o \in Offers : ~Waits(o))
  /\ WF_vars(\E o \in Offers : Completes(o) /\ UNCHANGED site) =>
       (\E o \in Offers : op[o].blocks = "held") ~> (\A o \in Offers : op[o].blocks # "held")

-----------------------------------------------------------------------------
(* Sites for TLC: two hashes offered once to a destination that saves,     *)
(* evicts and crashes, with the source torn down; one hash offered twice   *)
(* while acks get lost, and once while polls get lost.                     *)

Site(hashes, offers, hold, maxTime, faults) ==
  [hashes |-> hashes, offers |-> offers, hold |-> hold, margin |-> 1, cap |-> hold,
   recordMargin |-> 1, maxLatency |-> 1, maxTime |-> maxTime, faults |-> faults]

MCSites == { Site({"a", "b"}, 1, 3, 5, {"teardown", "down", "saves"}),
             Site({"a"}, 2, 2, 3, {"acks"}),
             Site({"a"}, 1, 3, 5, {"polls", "down", "saves"}) }

MCLostAck == { Site({"a"}, 1, 3, 4, {"acks"}) }

=============================================================================
