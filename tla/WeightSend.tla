------------------------------ MODULE WeightSend ------------------------------
(***************************************************************************)
(* The sending side of a weight transfer                                   *)
(* (weight_sync/weight_synchronizer_base.cc): PushWeightsReshardedLocal    *)
(* stages every layer from the device into its host buffer, or relies on a *)
(* D2h() of the user or on what it received itself, and streams the layer  *)
(* to the peers while later layers are still being staged.  Several pushes *)
(* run at a time, those of one transfer share one staging; the user may    *)
(* stage (D2h), rebind or unbind the device weights in between.            *)
(*                                                                         *)
(* A host buffer holds [ver, lay], the version of the weights and their    *)
(* layout ("raw" when tiling is skipped), or Torn while a copy of          *)
(* something else is under way.                                            *)
(***************************************************************************)
EXTENDS Integers, FiniteSets, FiniteSetsExt

CONSTANTS
    PushPlans,    \* [push: requests [uuid, skipD2h, relay], lay, fault, d2h and binds: how
                  \*  many calls of D2h() and of BindWeights() there may be]
    LayerCount

VARIABLES
    plan,
    hostBuf,      \* per layer
    version, bound_,            \* the device weights; ~weights_unbound_
    copying,      \* D2H copies in flight: per layer, [ver, lay, push, call] or NoCopy
    explicit,     \* explicit_d2h_ready_: per layer, the D2h() call or 0
    callDone,     \* the signals of a D2h() call: per <<call, layer>>
    calls,        \* D2h() calls made
    staged,       \* explicit_d2h_skip_tiling_: per layer, a layout or "none"
    latest,       \* latest_skip_tiling_
    opLock,       \* d2h_op_mu_: held by a D2h() or a bind that has passed its checks, and
                  \* the pushes that were not sending at that check (history)
    restaging,    \* the push that holds restage_mu_, or 0
    relayReady,   \* layer_tile_ready_ of a relay: per layer, "unset", "ok" or "failed"
    leaders,      \* completed_d2h_uuids_
    d2hState,     \* UuidD2hState per transfer: [ok, ready, all]
    active,       \* active_h2h_pushes_
    push          \* per push

sendVars == <<plan, hostBuf, version, bound_, copying, explicit, callDone, calls, staged,
              latest, opLock, restaging, relayReady, leaders, d2hState, active, push>>

LayerIds == 1..LayerCount
Unlocked == [by |-> "none", unseen |-> {}]
Pushes == DOMAIN plan.push
Torn == [ver |-> 0, lay |-> "torn"]
NoCopy == [ver |-> 0, lay |-> "none", push |-> 0, call |-> 0]
NewPush == [at |-> "new", layer |-> 1, group |-> 1, leads |-> FALSE, entered |-> FALSE, raced |-> FALSE,
            ready |-> [l \in LayerIds |-> 0], staged |-> [l \in LayerIds |-> "none"],
            acc |-> {}, streaming |-> {}, vers |-> {}, failed |-> FALSE,
            fut |-> [l \in LayerIds |-> "none"]]

SendInit ==
    /\ plan \in PushPlans
    /\ hostBuf = [l \in LayerIds |-> Torn]
    /\ version = 1 /\ bound_ = TRUE
    /\ copying = [l \in LayerIds |-> NoCopy]
    /\ explicit = [l \in LayerIds |-> 0]
    /\ callDone = [c \in (1..plan.d2h) \X LayerIds |-> "unset"]
    /\ calls = 0
    /\ staged = [l \in LayerIds |-> "none"]
    /\ latest = "logical" /\ opLock = Unlocked /\ restaging = 0
    /\ relayReady = [l \in LayerIds |-> "unset"]
    /\ leaders = {}
    /\ d2hState = [u \in {plan.push[p].uuid : p \in Pushes} |->
                      [ok |-> TRUE, ready |-> {}, all |-> FALSE]]
    /\ active = 0
    /\ push = [p \in Pushes |-> NewPush]

Quiet == \A l \in LayerIds : copying[l] = NoCopy
Skips(p) == plan.push[p].skipD2h
Relays(p) == plan.push[p].relay
Uuid(p) == plan.push[p].uuid
Follows(p) == ~Skips(p) /\ ~push[p].leads

(* The copies of the layers in L are issued: whatever else was in their    *)
(* host buffers is overwritten bit by bit.                                 *)
Issue(L, p, call, lay) ==
    /\ copying' = [l \in LayerIds |-> IF l \in L THEN [ver |-> version, lay |-> lay, push |-> p, call |-> call]
                                      ELSE copying[l]]
    /\ hostBuf' = [l \in LayerIds |-> IF l \in L /\ hostBuf[l] # [ver |-> version, lay |-> lay]
                                      THEN Torn ELSE hostBuf[l]]

-----------------------------------------------------------------------------
(* PushWeightsReshardedLocal: StoreSkipTilingLocal, the tasks (which       *)
(* BuildLayerPushTasks may refuse), and the choice of the push that stages *)
(* the transfer for all its pushes.  Of two like pushes the first starts   *)
(* first.                                                                  *)
StartPush(p) ==
    LET leads == ~Skips(p) /\ Uuid(p) \notin leaders IN
    /\ push[p].at = "new"
    /\ \A q \in 1..(p - 1) : plan.push[q] = plan.push[p] => push[q].at # "new"
    /\ latest' = plan.lay
    /\ \/ /\ leaders' = IF Skips(p) THEN leaders ELSE leaders \cup {Uuid(p)}
          /\ push' = [push EXCEPT ![p].at = IF leads THEN "lead" ELSE "enter", ![p].leads = leads]
       \/ /\ plan.fault = "schedule"
          /\ push' = [push EXCEPT ![p].at = "ended", ![p].failed = TRUE] /\ UNCHANGED leaders
    /\ UNCHANGED <<plan, hostBuf, version, bound_, copying, explicit, callDone, calls, staged,
                   opLock, restaging, relayReady, d2hState, active>>

(* The leader issues the copies of all layers, under d2h_op_mu_ and behind *)
(* the copies in flight.                                                   *)
StageAll(p) ==
    /\ push[p].at = "lead" /\ opLock = Unlocked /\ Quiet
    /\ IF bound_
       THEN /\ Issue(LayerIds, p, 0, plan.lay)
            /\ explicit' = [l \in LayerIds |-> 0]
            /\ staged' = [l \in LayerIds |-> plan.lay]
            /\ push' = [push EXCEPT ![p].at = "enter", ![p].fut = [l \in LayerIds |-> "pending"]]
            /\ UNCHANGED d2hState
       ELSE /\ d2hState' = [d2hState EXCEPT ![Uuid(p)].ok = FALSE, ![Uuid(p)].all = TRUE]
            /\ explicit' = [l \in LayerIds |-> 0]
            /\ staged' = [l \in LayerIds |-> "none"]
            /\ push' = [push EXCEPT ![p].at = "ended", ![p].failed = TRUE]
            /\ UNCHANGED <<copying, hostBuf>>
    /\ UNCHANGED <<plan, version, bound_, callDone, calls, latest, opLock, restaging,
                   relayReady, leaders, active>>

(* The push counts as sending; one that skips the staging looks at what    *)
(* the user staged, and takes all layers as one group when nothing is left *)
(* to wait for.                                                            *)
EnterPush(p) ==
    LET sync == Skips(p) /\ ~Relays(p)
        ready == IF sync THEN explicit ELSE NewPush.ready
        was == IF sync THEN staged ELSE NewPush.staged
        wait == \E l \in LayerIds : \/ ready[l] # 0 /\ callDone[ready[l], l] = "unset"
                                    \/ was[l] \notin {"none", plan.lay}
    IN  /\ push[p].at = "enter"
        /\ active' = active + 1
        /\ push' = [push EXCEPT ![p] =
               [@ EXCEPT !.at = "layer", !.entered = TRUE, !.ready = ready, !.staged = was,
                         !.group = IF (Skips(p) /\ ~wait) \/ Follows(p) THEN LayerCount ELSE 1]]
        /\ UNCHANGED <<plan, hostBuf, version, bound_, copying, explicit, callDone, calls, staged,
                       latest, opLock, restaging, relayReady, leaders, d2hState>>

(* The push fails: what it already streams goes on; a leader tells its     *)
(* followers.                                                              *)
FailPush(p) ==
    /\ push' = [push EXCEPT ![p].at = "failing", ![p].failed = TRUE, ![p].acc = {}]
    /\ active' = active - 1
    /\ d2hState' = IF push[p].leads /\ ~d2hState[Uuid(p)].all
                   THEN [d2hState EXCEPT ![Uuid(p)].ok = FALSE, ![Uuid(p)].all = TRUE]
                   ELSE d2hState
    /\ restaging' = IF restaging = p THEN 0 ELSE restaging

(* Layer l is ready to be sent: it joins its group. *)
Collected(p) == [push[p] EXCEPT !.acc = @ \cup {push[p].layer},
                                !.at = IF push[p].layer % push[p].group = 0 \/ push[p].layer = LayerCount
                                       THEN "group" ELSE "layer",
                                !.layer = IF @ % push[p].group = 0 \/ @ = LayerCount THEN @ ELSE @ + 1]

(* What the push waits for before it takes its next layer. *)
LayerSignal(p) ==
    LET l == push[p].layer IN
    IF push[p].leads THEN push[p].fut[l]
    ELSE IF Relays(p) THEN relayReady[l]
    ELSE IF push[p].ready[l] # 0 THEN callDone[push[p].ready[l], l] ELSE "ok"

TakeLayer(p) ==
    LET l == push[p].layer IN
    /\ push[p].at = "layer" /\ LayerSignal(p) \notin {"unset", "pending"}
    /\ IF LayerSignal(p) = "failed" THEN FailPush(p)
       ELSE /\ push' = [push EXCEPT ![p] = IF @.staged[l] \in {"none", plan.lay} THEN Collected(p)
                                           ELSE [@ EXCEPT !.at = "restage"]]
            /\ UNCHANGED <<active, d2hState, restaging>>
    /\ UNCHANGED <<plan, hostBuf, version, bound_, copying, explicit, callDone, calls, staged,
                   latest, opLock, relayReady, leaders>>

(* What has been collected is sent before the push blocks on a layer. *)
Streams(p, r) == [r EXCEPT !.streaming = @ \cup r.acc, !.acc = {},
                           !.vers = @ \cup {hostBuf[l].ver : l \in r.acc}]
Flush(p) ==
    /\ push[p].acc # {}
    /\ \/ push[p].at = "layer" /\ ~push[p].leads /\ LayerSignal(p) = "unset"
       \/ push[p].at = "restage"
    /\ push' = [push EXCEPT ![p] = Streams(p, @)]
    /\ UNCHANGED <<plan, hostBuf, version, bound_, copying, explicit, callDone, calls, staged,
                   latest, opLock, restaging, relayReady, leaders, d2hState, active>>

(* The user staged the layer in another layout than the plan's: the first  *)
(* push to see it stages it again, one at a time (restage_mu_).            *)
Restage(p) ==
    LET l == push[p].layer IN
    /\ push[p].at = "restage" /\ push[p].acc = {} /\ restaging \in {0, p}
    /\ IF staged[l] \in {"none", plan.lay}
       THEN /\ push' = [push EXCEPT ![p] = Collected(p)]
            /\ UNCHANGED <<copying, hostBuf, restaging, active, d2hState>>
       ELSE IF ~bound_
       THEN FailPush(p) /\ UNCHANGED <<copying, hostBuf>>
       ELSE /\ opLock = Unlocked /\ Quiet
            /\ Issue({l}, p, 0, plan.lay)
            /\ restaging' = p
            /\ push' = [push EXCEPT ![p].at = "restaged", ![p].fut[l] = "pending"]
            /\ UNCHANGED <<active, d2hState>>
    /\ UNCHANGED <<plan, version, bound_, explicit, callDone, calls, staged, latest, opLock,
                   relayReady, leaders>>

RestageEnd(p) ==
    LET l == push[p].layer IN
    /\ push[p].at = "restaged" /\ push[p].fut[l] # "pending"
    /\ IF push[p].fut[l] = "failed" THEN FailPush(p) /\ UNCHANGED staged
       ELSE /\ staged' = [staged EXCEPT ![l] = plan.lay]
            /\ restaging' = 0
            /\ push' = [push EXCEPT ![p] = Collected(p)]
            /\ UNCHANGED <<active, d2hState>>
    /\ UNCHANGED <<plan, hostBuf, version, bound_, copying, explicit, callDone, calls, latest,
                   opLock, relayReady, leaders>>

(* A group is complete: the leader tells its followers, a follower waits   *)
(* for the leader, and the group is sent (schedule_push).                  *)
SendGroup(p) ==
    LET r == push[p]
        state == d2hState[Uuid(p)]
        next == [Streams(p, r) EXCEPT !.at = IF r.layer = LayerCount THEN "drain" ELSE "layer",
                                      !.layer = Min({LayerCount, @ + 1})]
    IN  /\ r.at = "group"
        /\ Follows(p) => state.all \/ r.layer \in state.ready
        /\ IF Follows(p) /\ ~state.ok THEN FailPush(p)
           ELSE /\ push' = [push EXCEPT ![p] = next]
                /\ d2hState' = IF ~r.leads THEN d2hState
                               ELSE [d2hState EXCEPT ![Uuid(p)].ready = @ \cup 1..r.layer,
                                                     ![Uuid(p)].all = @ \/ r.layer = LayerCount]
                /\ UNCHANGED <<active, restaging>>
        /\ UNCHANGED <<plan, hostBuf, version, bound_, copying, explicit, callDone, calls, staged,
                       latest, opLock, relayReady, leaders>>

(* PushWeightsChunks of one layer ends on push_pool_. *)
Stream(p) ==
    \E l \in push[p].streaming, ok \in {TRUE} \cup {plan.fault # "stream"} :
        /\ push' = [push EXCEPT ![p].streaming = @ \ {l}, ![p].failed = @ \/ ~ok]
        /\ UNCHANGED <<plan, hostBuf, version, bound_, copying, explicit, callDone, calls, staged,
                       latest, opLock, restaging, relayReady, leaders, d2hState, active>>

(* All the streams are awaited; the push is no longer sending. *)
EndPush(p) ==
    /\ \/ /\ push[p].at = "drain" /\ (push[p].failed \/ push[p].streaming = {})
          /\ active' = active - 1
       \/ /\ push[p].at = "failing" /\ \A l \in LayerIds : push[p].fut[l] # "pending"
          /\ UNCHANGED active
    /\ push' = [push EXCEPT ![p].at = "ended"]
    /\ UNCHANGED <<plan, hostBuf, version, bound_, copying, explicit, callDone, calls, staged,
                   latest, opLock, restaging, relayReady, leaders, d2hState>>

-----------------------------------------------------------------------------
(* The staging of push p is over or under way: its own or its leader's, or *)
(* the user's that it has looked at.                                       *)
Relying(p) ==
    /\ push[p].at # "ended"
    /\ \/ push[p].entered
       \/ ~Skips(p) /\ \E q \in Pushes : /\ Uuid(q) = Uuid(p) /\ push[q].leads
                                          /\ push[q].at # "lead"

(* The host buffers or what they are a copy of change under the pushes in  *)
(* S, which the check of D2h() or BindWeights() was too early to see.      *)
Raced(S) == [p \in Pushes |-> [push[p] EXCEPT !.raced = @ \/ (p \in S /\ Relying(p))]]

(* CheckNoActiveH2hPushes, which lets a push start right after it. *)
CheckNoActiveH2hPushes(caller) ==
    /\ active = 0
    /\ opLock' = [by |-> caller, unseen |-> {p \in Pushes : ~push[p].entered}]

(* D2h(): behind the copies in flight, refused while pushes send. *)
D2hCheck ==
    /\ calls < plan.d2h /\ opLock = Unlocked /\ Quiet /\ bound_
    /\ CheckNoActiveH2hPushes("d2h")
    /\ UNCHANGED <<plan, hostBuf, version, bound_, copying, explicit, callDone, calls, staged,
                   latest, restaging, relayReady, leaders, d2hState, active, push>>

(* Its new signals replace the old ones and the copies are issued; weights *)
(* unbound in between fail the signals.                                    *)
D2hIssue ==
    /\ opLock.by = "d2h" /\ opLock' = Unlocked
    /\ push' = Raced(opLock.unseen)
    /\ calls' = calls + 1
    /\ explicit' = [l \in LayerIds |-> calls + 1]
    /\ staged' = [l \in LayerIds |-> latest]
    /\ IF bound_ THEN Issue(LayerIds, 0, calls + 1, latest) /\ UNCHANGED callDone
       ELSE /\ callDone' = [c \in DOMAIN callDone |-> IF c[1] = calls + 1 THEN "failed" ELSE callDone[c]]
            /\ UNCHANGED <<copying, hostBuf>>
    /\ UNCHANGED <<plan, version, bound_, latest, restaging, relayReady, leaders, d2hState,
                   active>>

(* BindWeights, with new weights, after the same checks *)
BindCheck ==
    /\ version <= plan.binds /\ opLock = Unlocked /\ Quiet
    /\ CheckNoActiveH2hPushes("bind")
    /\ UNCHANGED <<plan, hostBuf, version, bound_, copying, explicit, callDone, calls, staged,
                   latest, restaging, relayReady, leaders, d2hState, active, push>>

BindWeights ==
    /\ opLock.by = "bind" /\ opLock' = Unlocked
    /\ version' = version + 1 /\ bound_' = TRUE
    /\ explicit' = [l \in LayerIds |-> 0]
    /\ staged' = [l \in LayerIds |-> "none"]
    /\ push' = Raced(opLock.unseen)
    /\ UNCHANGED <<plan, hostBuf, copying, callDone, calls, latest, restaging,
                   relayReady, leaders, d2hState, active>>

UnbindDevice ==
    /\ plan.fault = "unbind" /\ bound_ /\ bound_' = FALSE
    /\ UNCHANGED <<plan, hostBuf, version, copying, explicit, callDone, calls, staged, latest,
                   opLock, restaging, relayReady, leaders, d2hState, active, push>>

(* A D2H copy ends; the signal of D2h() or the future of the push is set.  *)
D2hLayer(l) ==
    \E ok \in {TRUE} \cup {plan.fault # "copy"} :
        LET c == copying[l]
            end == IF ok THEN "ok" ELSE "failed"
        IN  /\ c # NoCopy
            /\ copying' = [copying EXCEPT ![l] = NoCopy]
            /\ hostBuf' = IF ok THEN [hostBuf EXCEPT ![l] = [ver |-> c.ver, lay |-> c.lay]] ELSE hostBuf
            /\ callDone' = IF c.call = 0 THEN callDone ELSE [callDone EXCEPT ![c.call, l] = end]
            /\ push' = IF c.push = 0 THEN push ELSE [push EXCEPT ![c.push].fut[l] = end]
            /\ UNCHANGED <<plan, version, bound_, explicit, calls, staged, latest, opLock,
                           restaging, relayReady, leaders, d2hState, active>>

(* A relay's own receive tiles a layer, or is cancelled. *)
RelayTiled(l) ==
    \E ok \in {TRUE} \cup {plan.fault # "copy"} :
        /\ relayReady[l] = "unset" /\ \E p \in Pushes : Relays(p)
        /\ relayReady' = [relayReady EXCEPT ![l] = IF ok THEN "ok" ELSE "failed"]
        /\ hostBuf' = IF ok THEN [hostBuf EXCEPT ![l] = [ver |-> 1, lay |-> plan.lay]] ELSE hostBuf
        /\ UNCHANGED <<plan, version, bound_, copying, explicit, callDone, calls, staged, latest,
                       opLock, restaging, leaders, d2hState, active, push>>

-----------------------------------------------------------------------------
SendProgress ==
    \/ \E p \in Pushes : \/ StageAll(p) \/ EnterPush(p) \/ TakeLayer(p) \/ Flush(p) \/ Restage(p)
                         \/ RestageEnd(p) \/ SendGroup(p) \/ Stream(p) \/ EndPush(p)
    \/ \E l \in LayerIds : D2hLayer(l) \/ RelayTiled(l)
    \/ D2hIssue \/ BindWeights

SendNext ==
    \/ SendProgress
    \/ \E p \in Pushes : StartPush(p)
    \/ D2hCheck \/ BindCheck \/ UnbindDevice

-----------------------------------------------------------------------------
\* A push that skips the staging has something staged: the user's D2h() came
\* before it.
Prepared(p) == ~Skips(p) \/ Relays(p) \/ \A l \in LayerIds : push[p].ready[l] # 0

\* What a push streams is in the plan's layout and is not being overwritten,
\* and everything it has streamed is of one version of the weights: a layer is
\* sent only once its staging is over, a second push of a transfer sends only
\* what the first has staged, and no re-staging, and no D2h() or bind that
\* finds the push sending, touches a layer that is being sent.  A D2h() or bind
\* whose check came before the push began to send (the push starts between
\* CheckNoActiveH2hPushes and what follows it, or has staged and is not yet
\* counted, or is a later push of a staged transfer) does overwrite what the
\* push relies on; such a push is left out.
StreamsStaged ==
    \A p \in Pushes : (push[p].entered /\ Prepared(p) /\ ~push[p].failed /\ ~push[p].raced) =>
        /\ \A l \in push[p].streaming : hostBuf[l].lay = plan.lay
        /\ Cardinality(push[p].vers) <= 1

\* A push that has begun has not returned yet.
PushRuns == \E p \in Pushes : push[p].at \notin {"new", "ended"}
=============================================================================
