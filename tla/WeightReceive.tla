---------------------------- MODULE WeightReceive ----------------------------
(***************************************************************************)
(* The receiving side of a weight transfer.  The connection workers of the *)
(* raw transport (transport/lib/raw_buffer_transport.cc) land chunks in    *)
(* the host buffers, acknowledge them, and count them; the worker whose    *)
(* chunk is a layer's last calls OnLayerDataReceived and the one whose     *)
(* chunk is the transfer's last calls OnDataReceived                       *)
(* (weight_sync/weight_synchronizer_base.cc).  The listener thread arms a  *)
(* transfer, possibly again before every stage of a broadcast.  The user   *)
(* waits for the transfer, copies it to the device, and only then is the   *)
(* next transfer started.                                                  *)
(*                                                                         *)
(* A chunk of the host or of the device holds [u, lay]: the transfer that  *)
(* wrote it and its layout.  Tiling what is already in device layout, or   *)
(* copying to the device what is not, garbles it.                          *)
(***************************************************************************)
EXTENDS Integers, Sequences, FiniteSets, TLC

CONSTANTS
    Setups,        \* engines and requests, [auto, hooks, mode, skip, fault, chunks,
                   \*  count, arms]
    Conns,         \* connection workers, 1..n
    MaxBatch       \* chunks of one batched push

Listener == 0
User == -1
Drainer == -2
Free == -3
Actors == Conns \cup {Listener}

VARIABLES
    setup,       \* how the engine copies (auto_h2d_, hooks), what the request asks for
                 \* (tiling mode, skip_tiling), the fault that may happen, the chunks
                 \* <<layer, part>> of a transfer, how many transfers there are, and
                 \* how often one is armed
    xfer,        \* the transfer under way
    unsent,      \* its chunks that have not been acknowledged
    host, device,
    prog,        \* raw_progress_: per transfer, [done, expected, layers, fired]
    pend,        \* pending_h2d_states_: per transfer, [sig, fut, expected]
    ready,       \* layer_tile_ready_: per layer, a signal or NoSig
    signal,      \* LayerTileReady: per signal, "unset", "ok" or "failed"
    task,        \* layer tasks of h2d_pool_: per <<transfer, layer>>
    completed,   \* completed_transfers_
    actor,       \* [at, u, chunks, layers, data, taken, next] of a worker or the listener
    h2d,         \* the H2d() that a thread is in: [at, ready, tile]
    hookLock,    \* h2d_hook_mu_: its holder or Free
    arms,        \* arm requests of the transfer under way
    user,        \* "idle", "waiting", "h2d", "told", "failed"
    bound,       \* whether there are device weights (~weights_unbound_): "yes", "no", or
                 \* "again" when others have been bound since
    untiled,     \* the <<transfer, layer>> that TileLayer found nothing to tile for (history)
    stopped      \* "no", "drained" or "forgotten": what interrupted the transfer

recvVars == <<setup, xfer, unsent, host, device, prog, pend, ready, signal, task,
              completed, actor, h2d, hookLock, arms, user, bound, untiled, stopped>>

Chunks == setup.chunks
Layers == {c[1] : c \in Chunks}
Of(l) == {c \in Chunks : c[1] = l}
Uuids == 1..setup.count
NoSig == <<>>

NoProg == [done |-> 0, expected |-> 0, layers |-> [l \in Layers |-> 0],
           counts |-> [l \in Layers |-> 0], fired |-> {}]
NoPend == [live |-> FALSE, sig |-> [l \in Layers |-> NoSig], fut |-> {}, expected |-> 0]
Idle == [at |-> "idle", u |-> 0, chunks |-> {}, layers |-> {}, data |-> FALSE,
         taken |-> {}, next |-> "idle"]
NotIn == [at |-> "no", ready |-> [l \in Layers |-> NoSig], tile |-> {}]

\* A skipped layer and a pre-tiled one arrive in device layout.
Wire == IF setup.skip \/ setup.mode = "pre_tiled" THEN "device" ELSE "logical"
Tiled(m) == [m EXCEPT !.lay = IF @ = "logical" THEN "device" ELSE "garbled"]
Raw(m) == [m EXCEPT !.lay = IF @ = "device" THEN "device" ELSE "garbled"]

RecvInit ==
    /\ setup \in Setups
    /\ xfer = 1 /\ unsent = Chunks
    /\ host = [c \in Chunks |-> [u |-> 0, lay |-> "logical"]]
    /\ device = [c \in Chunks |-> [u |-> 0, lay |-> "device"]]
    /\ prog = [u \in Uuids |-> NoProg]
    /\ pend = [u \in Uuids |-> NoPend]
    /\ ready = [l \in Layers |-> NoSig]
    /\ signal = [s \in Uuids \X Layers \X (0..setup.arms) |-> "unset"]
    /\ task = [t \in Uuids \X Layers |-> [at |-> "none"]]
    /\ completed = {}
    /\ actor = [a \in Actors |-> Idle]
    /\ h2d = [a \in Actors \cup {User, Drainer} |-> NotIn]
    /\ hookLock = Free /\ arms = 0 /\ user = "idle"
    /\ bound = "yes" /\ untiled = {} /\ stopped = "no"

-----------------------------------------------------------------------------
(* Where an actor goes when it has called OnLayerDataReceived for all the  *)
(* layers it has to.                                                       *)
Proceed(a) ==
    IF a.layers # {} THEN a
    ELSE IF ~a.data THEN IF a.next = "idle" THEN Idle ELSE [a EXCEPT !.at = a.next]
    ELSE [a EXCEPT !.at = IF ~setup.auto /\ setup.hooks THEN "data" ELSE "take"]

(* ProcessPeerRequest, once the chunks of a push are in the host buffers   *)
(* and acknowledged.  Any idle worker is as good as the first one.         *)
Land(w) ==
    \E S \in SUBSET unsent :
        /\ actor[w].at = "idle" /\ stopped = "no"
        /\ \A v \in Conns : v < w => actor[v].at # "idle"
        /\ S # {} /\ Cardinality(S) <= MaxBatch
        /\ unsent' = unsent \ S
        /\ host' = [c \in Chunks |-> IF c \in S THEN [u |-> xfer, lay |-> Wire] ELSE host[c]]
        /\ actor' = [actor EXCEPT ![w] = [Idle EXCEPT !.at = "count", !.u = xfer, !.chunks = S]]
        /\ UNCHANGED <<setup, xfer, device, prog, pend, ready, signal, task, completed,
                       h2d, hookLock, arms, user, bound, untiled, stopped>>

(* The progress of a push, under raw_progress_mu_: which layers it         *)
(* completes, and whether it completes the transfer.                       *)
Count(w) ==
    LET a == actor[w]
        p == prog[a.u]
        counts == [l \in Layers |-> p.counts[l] + Cardinality(a.chunks \cap Of(l))]
        hit == {l \in Layers : /\ a.chunks \cap Of(l) # {} /\ l \notin p.fired
                               /\ p.layers[l] > 0 /\ counts[l] >= p.layers[l]}
        done == p.done + Cardinality(a.chunks)
        all == p.expected > 0 /\ done >= p.expected
    IN  /\ a.at = "count"
        /\ prog' = [prog EXCEPT ![a.u] =
               IF all THEN NoProg
               ELSE [p EXCEPT !.done = done, !.counts = counts, !.fired = @ \cup hit]]
        /\ actor' = [actor EXCEPT ![w] =
               Proceed([@ EXCEPT !.at = "layers", !.chunks = {}, !.layers = hit, !.data = all])]
        /\ UNCHANGED <<setup, xfer, unsent, host, device, pend, ready, signal, task,
                       completed, h2d, hookLock, arms, user, bound, untiled, stopped>>

(* WeightSynchronizerBase::OnLayerDataReceived *)
OnLayerDataReceived(w) ==
    \E l \in actor[w].layers :
        LET u == actor[w].u
            armed == pend[u].sig[l]
            sig == IF armed # NoSig THEN armed
                   ELSE IF setup.mode # "deferred" THEN <<u, l, 0>> ELSE NoSig
        IN  /\ actor[w].at = "layers"
            /\ pend' = [pend EXCEPT ![u].live = TRUE, ![u].sig[l] = NoSig, ![u].fut = @ \cup {l}]
            /\ ready' = IF armed # NoSig THEN ready ELSE [ready EXCEPT ![l] = sig]
            /\ task' = [task EXCEPT ![u, l] = [at |-> "queued", sig |-> sig]]
            /\ actor' = [actor EXCEPT ![w] = Proceed([@ EXCEPT !.layers = @ \ {l}])]
            /\ UNCHANGED <<setup, xfer, unsent, host, device, prog, signal, completed, h2d,
                           hookLock, arms, user, bound, untiled, stopped>>

(* OnDataReceived begins: HookedH2d holds the mutex of the hooks. *)
HookedH2d(w) ==
    /\ actor[w].at = "data"
    /\ hookLock = Free /\ hookLock' = w
    /\ h2d' = [h2d EXCEPT ![w].at = "start"]
    /\ actor' = [actor EXCEPT ![w].at = "hooked"]
    /\ UNCHANGED <<setup, xfer, unsent, host, device, prog, pend, ready, signal, task,
                   completed, arms, user, bound, untiled, stopped>>

(* HookedH2d ends: an error of the copy ends OnDataReceived. *)
HookedH2dEnd(w) ==
    /\ actor[w].at = "hooked" /\ h2d[w].at \in {"ok", "failed"}
    /\ hookLock' = Free
    /\ h2d' = [h2d EXCEPT ![w] = NotIn]
    /\ actor' = [actor EXCEPT ![w] = IF h2d[w].at = "ok" THEN [@ EXCEPT !.at = "take"] ELSE Idle]
    /\ UNCHANGED <<setup, xfer, unsent, host, device, prog, pend, ready, signal, task,
                   completed, arms, user, bound, untiled, stopped>>

(* As TakeLayerFuturesWhenScheduled would be without its wait. *)
TakeLayerFuturesWhenScheduled_NoWait(w) ==
    LET u == actor[w].u IN
    /\ actor[w].at = "take"
    /\ actor' = [actor EXCEPT ![w].at = "await", ![w].taken = pend[u].fut]
    /\ pend' = [pend EXCEPT ![u] = NoPend]
    /\ UNCHANGED <<setup, xfer, unsent, host, device, prog, ready, signal, task,
                   completed, h2d, hookLock, arms, user, bound, untiled, stopped>>

(* As its wait would be if it asked for one layer more than expected. *)
TakeLayerFuturesWhenScheduled_OneMore(w) ==
    LET u == actor[w].u IN
    /\ actor[w].at = "take"
    /\ pend[u].live => Cardinality(pend[u].fut) > pend[u].expected
    /\ actor' = [actor EXCEPT ![w].at = "await", ![w].taken = pend[u].fut]
    /\ pend' = [pend EXCEPT ![u] = NoPend]
    /\ UNCHANGED <<setup, xfer, unsent, host, device, prog, ready, signal, task,
                   completed, h2d, hookLock, arms, user, bound, untiled, stopped>>

TakeLayerFuturesWhenScheduled(w) ==
    LET u == actor[w].u IN
    /\ actor[w].at = "take"
    /\ pend[u].live => Cardinality(pend[u].fut) >= pend[u].expected
    /\ actor' = [actor EXCEPT ![w].at = "await", ![w].taken = pend[u].fut]
    /\ pend' = [pend EXCEPT ![u] = NoPend]
    /\ UNCHANGED <<setup, xfer, unsent, host, device, prog, ready, signal, task,
                   completed, h2d, hookLock, arms, user, bound, untiled, stopped>>

(* The rest of OnDataReceived: await the layers and record the completion. *)
OnDataReceived(w) ==
    LET a == actor[w]
        ends == {task[a.u, l].at : l \in a.taken}
    IN  /\ a.at = "await" /\ ends \subseteq {"done", "failed"}
        /\ completed' = IF "failed" \in ends THEN completed ELSE completed \cup {a.u}
        /\ actor' = [actor EXCEPT ![w] = Idle]
        /\ UNCHANGED <<setup, xfer, unsent, host, device, prog, pend, ready, signal, task,
                       h2d, hookLock, arms, user, bound, untiled, stopped>>

-----------------------------------------------------------------------------
(* The task of a layer on h2d_pool_: tile it in place (TileLayer), release *)
(* its signal, and copy it to the device when the engine does that itself  *)
(* (H2dLayer); the copy of a scratchpad is of what was tiled into it.      *)
(* TileLayer does nothing, and succeeds, when no weights are bound; when   *)
(* they are unbound after that check, it fails.                            *)
Released(k, ok) ==
    signal' = IF k.sig # NoSig /\ signal[k.sig] = "unset"
              THEN [signal EXCEPT ![k.sig] = IF ok THEN "ok" ELSE "failed"]
              ELSE signal

AfterTiling == [at |-> IF setup.auto THEN "copy" ELSE "done"]

TileStart(t) ==
    LET k == task[t]
        inPlace == k.sig # NoSig /\ setup.mode = "on_arrival" /\ ~setup.skip
    IN  /\ k.at = "queued"
        /\ IF inPlace /\ bound # "no"
           THEN task' = [task EXCEPT ![t].at = "tiling"] /\ UNCHANGED <<signal, untiled>>
           ELSE /\ Released(k, TRUE)
                /\ task' = [task EXCEPT ![t] = AfterTiling @@ [tile |-> k.sig = NoSig /\ ~setup.skip]]
                /\ untiled' = IF inPlace THEN untiled \cup {t} ELSE untiled
        /\ UNCHANGED <<setup, xfer, unsent, host, device, prog, pend, ready, completed, actor,
                       h2d, hookLock, arms, user, bound, stopped>>

TileLayer(t) ==
    LET k == task[t]
        ok == bound # "no"
    IN  /\ k.at = "tiling"
        /\ host' = IF ok THEN [c \in Chunks |-> IF c \in Of(t[2]) THEN Tiled(host[c]) ELSE host[c]]
                   ELSE host
        /\ Released(k, ok)
        /\ task' = [task EXCEPT ![t] = IF ok THEN AfterTiling @@ [tile |-> FALSE] ELSE [at |-> "failed"]]
        /\ UNCHANGED <<setup, xfer, unsent, device, prog, pend, ready, completed, actor,
                       h2d, hookLock, arms, user, bound, untiled, stopped>>

H2dLayer(t) ==
    LET k == task[t]
        scratch == IF k.tile THEN [c \in Of(t[2]) |-> Tiled(host[c])] ELSE <<>>
    IN  /\ k.at = "copy"
        /\ task' = [task EXCEPT ![t] = IF bound = "no" THEN [at |-> "failed"]
                                       ELSE [at |-> "copying", scratch |-> scratch, to |-> bound]]
        /\ UNCHANGED <<setup, xfer, unsent, host, device, prog, pend, ready, signal, completed,
                       actor, h2d, hookLock, arms, user, bound, untiled, stopped>>

(* The copy ends, in the buffers that were bound when it was issued. *)
H2dLayerDone(t) ==
    LET k == task[t]
        lands == bound = k.to \/ (bound = "no" /\ k.to = "yes")
    IN
    /\ k.at = "copying"
    /\ device' = [c \in Chunks |-> IF ~lands \/ c \notin Of(t[2]) THEN device[c]
                                   ELSE IF k.scratch # <<>> THEN k.scratch[c] ELSE Raw(host[c])]
    /\ task' = [task EXCEPT ![t] = [at |-> "done"]]
    /\ UNCHANGED <<setup, xfer, unsent, host, prog, pend, ready, signal, completed, actor,
                   h2d, hookLock, arms, user, bound, untiled, stopped>>

-----------------------------------------------------------------------------
(* H2d(): look at the signals, wait for them, and copy every layer; a      *)
(* layer without a signal is tiled on the way unless it is skipped.        *)
H2dStart(x) ==
    /\ h2d[x].at = "start"
    /\ h2d' = [h2d EXCEPT ![x] =
           IF bound = "no" THEN [NotIn EXCEPT !.at = "failed"]
           ELSE [at |-> "wait", ready |-> ready,
                 tile |-> {l \in Layers : ready[l] = NoSig /\ ~setup.skip}]]
    /\ UNCHANGED <<setup, xfer, unsent, host, device, prog, pend, ready, signal, task,
                   completed, actor, hookLock, arms, user, bound, untiled, stopped>>

H2d(x) ==
    LET sigs == {h2d[x].ready[l] : l \in Layers} \ {NoSig} IN
    /\ h2d[x].at = "wait"
    /\ \A s \in sigs : signal[s] # "unset"
    /\ IF bound = "no" \/ \E s \in sigs : signal[s] = "failed"
       THEN h2d' = [h2d EXCEPT ![x].at = "failed"] /\ UNCHANGED device
       ELSE /\ device' = [c \in Chunks |-> IF c[1] \in h2d[x].tile THEN Tiled(host[c]) ELSE Raw(host[c])]
            /\ h2d' = [h2d EXCEPT ![x].at = "ok"]
    /\ UNCHANGED <<setup, xfer, unsent, host, prog, pend, ready, signal, task, completed,
                   actor, hookLock, arms, user, bound, untiled, stopped>>

-----------------------------------------------------------------------------
RegisterExpectedLayerChunksLocal ==
    LET new == {l \in Layers : pend[xfer].sig[l] = NoSig /\ l \notin pend[xfer].fut}
        Sig(l) == IF setup.mode # "deferred" THEN <<xfer, l, arms + 1>> ELSE NoSig
    IN  /\ actor[Listener].at = "idle" /\ arms < setup.arms /\ stopped = "no"
        /\ arms = 0 \/ unsent # {}
        /\ arms' = arms + 1
        /\ pend' = [pend EXCEPT ![xfer] =
               [live |-> TRUE, fut |-> @.fut, expected |-> Cardinality(Layers),
                sig |-> [l \in Layers |-> IF l \in new THEN Sig(l) ELSE @.sig[l]]]]
        /\ ready' = [l \in Layers |-> IF l \in new THEN Sig(l) ELSE ready[l]]
        /\ actor' = [actor EXCEPT ![Listener] = [Idle EXCEPT !.at = "armLayers", !.u = xfer]]
        /\ UNCHANGED <<setup, xfer, unsent, host, device, prog, signal, task, completed, h2d,
                       hookLock, user, bound, untiled, stopped>>

(* RawBufferTransport::RegisterExpectedLayerChunks *)
RegisterExpectedLayerChunks ==
    LET a == actor[Listener]
        p == prog[a.u]
        hit == {l \in Layers : p.counts[l] >= Cardinality(Of(l)) /\ l \notin p.fired}
    IN  /\ a.at = "armLayers"
        /\ prog' = [prog EXCEPT ![a.u].layers = [l \in Layers |-> Cardinality(Of(l))],
                                ![a.u].fired = @ \cup hit]
        /\ actor' = [actor EXCEPT ![Listener] =
               Proceed([a EXCEPT !.at = "layers", !.layers = hit, !.next = "armAll"])]
        /\ UNCHANGED <<setup, xfer, unsent, host, device, pend, ready, signal, task, completed,
                       h2d, hookLock, arms, user, bound, untiled, stopped>>

(* RawBufferTransport::RegisterExpectedChunks *)
RegisterExpectedChunks ==
    LET a == actor[Listener]
        all == prog[a.u].done >= Cardinality(Chunks)
    IN  /\ a.at = "armAll"
        /\ prog' = [prog EXCEPT ![a.u] = IF all THEN NoProg
                                         ELSE [@ EXCEPT !.expected = Cardinality(Chunks)]]
        /\ actor' = [actor EXCEPT ![Listener] = Proceed([a EXCEPT !.data = all, !.next = "idle"])]
        /\ UNCHANGED <<setup, xfer, unsent, host, device, pend, ready, signal, task, completed,
                       h2d, hookLock, arms, user, bound, untiled, stopped>>

-----------------------------------------------------------------------------
(* The user: once the transfer is armed and all its pushes acknowledged,   *)
(* WaitForTransferCompletion, or at once H2d() when no one else copies.    *)
Copies == setup.auto \/ setup.hooks
Arrived == unsent = {} /\ arms > 0

Ask ==
    /\ user = "idle" /\ Arrived
    /\ \/ user' = "waiting" /\ UNCHANGED h2d
       \/ ~Copies /\ user' = "h2d" /\ h2d' = [h2d EXCEPT ![User].at = "start"]
    /\ UNCHANGED <<setup, xfer, unsent, host, device, prog, pend, ready, signal, task,
                   completed, actor, hookLock, arms, bound, untiled, stopped>>

WaitForTransferCompletion ==
    /\ user = "waiting" /\ xfer \in completed
    /\ IF Copies THEN user' = "told" /\ UNCHANGED h2d
       ELSE user' = "h2d" /\ h2d' = [h2d EXCEPT ![User].at = "start"]
    /\ UNCHANGED <<setup, xfer, unsent, host, device, prog, pend, ready, signal, task,
                   completed, actor, hookLock, arms, bound, untiled, stopped>>

UserH2dEnd ==
    /\ user = "h2d" /\ h2d[User].at \in {"ok", "failed"}
    /\ user' = IF h2d[User].at = "ok" THEN "told" ELSE "failed"
    /\ h2d' = [h2d EXCEPT ![User] = NotIn]
    /\ UNCHANGED <<setup, xfer, unsent, host, device, prog, pend, ready, signal, task,
                   completed, actor, hookLock, arms, bound, untiled, stopped>>

NextTransfer ==
    /\ user = "told" /\ xfer < setup.count /\ stopped = "no"
    /\ xfer' = xfer + 1 /\ unsent' = Chunks /\ arms' = 0 /\ user' = "idle"
    /\ UNCHANGED <<setup, host, device, prog, pend, ready, signal, task, completed, actor,
                   h2d, hookLock, bound, untiled, stopped>>

UnbindWeights ==
    /\ setup.fault \in {"unbind", "rebind"} /\ bound = "yes" /\ bound' = "no"
    /\ UNCHANGED <<setup, xfer, unsent, host, device, prog, pend, ready, signal, task,
                   completed, actor, h2d, hookLock, arms, user, untiled, stopped>>

(* BindWeights with other weights, before the user has the transfer. *)
RebindWeights ==
    /\ setup.fault = "rebind" /\ bound = "no" /\ bound' = "again"
    /\ user # "told" /\ h2d[User].at # "ok"
    /\ device' = [c \in Chunks |-> [u |-> 0, lay |-> "device"]]
    /\ UNCHANGED <<setup, xfer, unsent, host, prog, pend, ready, signal, task,
                   completed, actor, h2d, hookLock, arms, user, untiled, stopped>>

(* The signals of the pending transfers in U are cancelled. *)
Cancelled(U) ==
    LET gone == {pend[u].sig[l] : u \in U, l \in Layers}
    IN  [s \in DOMAIN signal |-> IF s \in gone /\ signal[s] = "unset" THEN "failed" ELSE signal[s]]

(* ForgetPushProgress, after a transfer whose sender gave up *)
ForgetPushProgress ==
    /\ setup.fault = "forget" /\ stopped = "no" /\ unsent # {} /\ arms > 0
    /\ stopped' = "forgotten"
    /\ prog' = [prog EXCEPT ![xfer] = NoProg]
    /\ completed' = completed \ {xfer}
    /\ pend' = [pend EXCEPT ![xfer] = NoPend]
    /\ signal' = Cancelled({xfer})
    /\ UNCHANGED <<setup, xfer, unsent, host, device, ready, task, actor, h2d, hookLock,
                   arms, user, bound, untiled>>

(* DrainPendingH2d, on SHUTDOWN; what it awaits is over before the uuids   *)
(* are recorded (DrainEnd).                                                *)
DrainPendingH2d ==
    LET U == {u \in Uuids : pend[u].live}
        fresh == U = {} /\ setup.auto /\ completed = {}
    IN  /\ setup.fault = "drain" /\ stopped = "no" /\ actor[Listener].at = "idle"
        /\ stopped' = "drained"
        /\ pend' = [u \in Uuids |-> NoPend]
        /\ signal' = Cancelled(U)
        /\ actor' = [actor EXCEPT ![Listener] =
               IF U = {} THEN Idle
               ELSE [Idle EXCEPT !.at = "drain", !.chunks = U,
                                 !.taken = {<<u, l>> : u \in U, l \in Layers}
                                           \cap {t \in DOMAIN task : t[2] \in pend[t[1]].fut}]]
        /\ h2d' = IF fresh THEN [h2d EXCEPT ![Drainer].at = "start"] ELSE h2d
        /\ UNCHANGED <<setup, xfer, unsent, host, device, prog, ready, task, completed,
                       hookLock, arms, user, bound, untiled>>

DrainEnd ==
    LET a == actor[Listener] IN
    /\ \/ /\ a.at = "drain" /\ \A t \in a.taken : task[t].at \in {"done", "failed"}
          /\ completed' = completed \cup a.chunks
          /\ actor' = [actor EXCEPT ![Listener] = Idle] /\ UNCHANGED h2d
       \/ /\ h2d[Drainer].at \in {"ok", "failed"}
          /\ completed' = completed \cup {0}
          /\ h2d' = [h2d EXCEPT ![Drainer] = NotIn] /\ UNCHANGED actor
    /\ UNCHANGED <<setup, xfer, unsent, host, device, prog, pend, ready, signal, task,
                   hookLock, arms, user, bound, untiled, stopped>>

-----------------------------------------------------------------------------
RecvProgress ==
    \/ \E w \in Conns : Count(w)
    \/ \E a \in Actors : \/ OnLayerDataReceived(a) \/ HookedH2d(a) \/ HookedH2dEnd(a)
                         \/ TakeLayerFuturesWhenScheduled(a) \/ OnDataReceived(a)
    \/ \E t \in DOMAIN task : TileStart(t) \/ TileLayer(t) \/ H2dLayer(t) \/ H2dLayerDone(t)
    \/ \E x \in DOMAIN h2d : H2dStart(x) \/ H2d(x)
    \/ RegisterExpectedLayerChunks \/ RegisterExpectedChunks
    \/ WaitForTransferCompletion \/ UserH2dEnd \/ DrainEnd

(* A request that the listener begins: START_TRANSFER of a receiver, which *)
(* goes on with the two registrations, or SHUTDOWN.                        *)
ExecuteControlRequest == RegisterExpectedLayerChunksLocal \/ DrainPendingH2d

RecvNext ==
    \/ RecvProgress
    \/ \E w \in Conns : Land(w)
    \/ ExecuteControlRequest \/ Ask \/ NextTransfer
    \/ UnbindWeights \/ RebindWeights \/ ForgetPushProgress

-----------------------------------------------------------------------------
\* A user who is told that a transfer has arrived has exactly its weights on
\* the device: every chunk of it, tiled once.  Three things are left out.  A
\* transfer that SHUTDOWN drains counts as completed whatever of it arrived.
\* An engine that copies by itself has put some of the layers in the weights
\* that were bound before, when others are bound in between.  And a layer that
\* arrives while no weights are bound is not tiled, though its signal says so
\* (TileLayer returns at the empty buffer_holds_): after a new bind it is copied
\* as it is.
WeightsOnDevice ==
    (user = "told" /\ stopped # "drained" /\ ~(Copies /\ bound = "again")) =>
        \A c \in Chunks : <<xfer, c[1]>> \in untiled \/ device[c] = [u |-> xfer, lay |-> "device"]

\* A user waits for the layers of a transfer, in H2d() or in
\* WaitForTransferCompletion; a wait for the completion of a transfer during
\* which the weights were unbound, or that was drained or forgotten, is not
\* counted: it may last for ever.
UserWaits == user = "h2d" \/ (user = "waiting" /\ bound = "yes" /\ stopped = "no")
=============================================================================
