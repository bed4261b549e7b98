---------------------------- MODULE TransferSend ----------------------------
(* The producer of a KV transfer: TransferSendSession                        *)
(* (kv_cache/transfer_send_session.cc), with the pull worker that stages its *)
(* layers device to host, the chain that pushes them in order, and the       *)
(* socket adapter that carries a push in parallel streams                    *)
(* (transport/lib/adapter/socket_transport_adapter.cc).  One action is one   *)
(* critical section of the session's mutex, or the work between two.         *)
EXTENDS StagingLayers

VARIABLES
  dep,      \* the deployment: where blocks live, how many buffers and streams
  faults,   \* failures and destructions so far
  late,     \* the transfer's deadline has passed
  snd,      \* the send session's fields
  wkr,      \* the pull worker thread: what it does next, and for which layer
  d2h,      \* per layer, the copy to host: [st, slot]
  chain,    \* per layer, its link in the H2H chain
  ending,   \* session operations whose thread is about to call EndOp
  closing,  \* threads closing the data connections
  out,      \* per layer and stream, the producer's end of a push stream
  failed,   \* the adapter's session_failed_by_uuid_ flag
  addr,     \* per layer, the host buffer its push reads
  pbuf      \* per host layer buffer of the producer, the layer it holds

sendVars == <<snd, wkr, d2h, chain, ending, closing, out, failed, addr, pbuf>>

NumLayers == dep.layers
Layers == 1..NumLayers
Streams == 1..dep.streams

(* The session as the constructor leaves it; live says it is in sessions_.   *)
NewSend ==
  [live |-> FALSE, began |-> FALSE, peers |-> FALSE, held |-> FALSE,
   futs |-> FALSE, drain |-> FALSE, done |-> FALSE, ok |-> TRUE, n |-> 0,
   closed |-> FALSE, left |-> 0, mgr |-> NewStaging(dep.pslots)]

SendInit ==
  /\ snd = NewSend
  /\ wkr = [pc |-> "none", l |-> 1]
  /\ d2h = [l \in Layers |-> [st |-> "none", slot |-> 0]]
  /\ chain = [l \in Layers |-> "off"]
  /\ ending = 0 /\ closing = 0
  /\ out = [l \in Layers |-> [k \in Streams |-> "idle"]]
  /\ failed = FALSE
  /\ addr = [l \in Layers |-> 0]
  /\ pbuf = [b \in 1..dep.pslots |-> IF dep.src = "host" THEN b ELSE 0]

-----------------------------------------------------------------------------
(* The session's own functions.                                              *)

ReleaseStaging(s) == [s EXCEPT !.mgr = ReleaseAllSlots(@), !.held = FALSE,
                               !.futs = FALSE]

(* Mutant of FinishSend: settles with operations in flight.                  *)
FinishSend_Settles(s, ok) ==
  IF s.drain \/ s.done THEN s
  ELSE [ReleaseStaging(s) EXCEPT !.ok = ok, !.mgr = ShutdownStaging(@),
                                 !.drain = TRUE, !.done = TRUE]

(* FinishLocked drains; the session settles once nothing is in flight.       *)
FinishSend(s, ok) ==
  IF s.drain \/ s.done THEN s
  ELSE LET d == [s EXCEPT !.ok = ok, !.mgr = ShutdownStaging(@), !.drain = TRUE]
       IN IF s.n = 0 THEN [ReleaseStaging(d) EXCEPT !.done = TRUE] ELSE d

EndSendOp(s) ==
  LET d == [s EXCEPT !.n = @ - 1]
  IN IF d.drain /\ d.n = 0 /\ ~d.done
     THEN [ReleaseStaging(d) EXCEPT !.done = TRUE] ELSE d

Unlease(s, l) == [s EXCEPT !.mgr = ReleaseSlot(@, l)]

Fault == faults < dep.faults /\ faults' = faults + 1

NoFault == UNCHANGED faults

(* Mutant of ReleaseDue: an earlier operation closes them.                   *)
ReleaseDue_BeforeLast == snd.drain /\ ~snd.done /\ ~snd.closed /\ snd.peers

(* EndOp: the last operation of a draining send first closes the idle data   *)
(* connections, outside the lock, and comes back.                            *)
ReleaseDue == snd.n = 1 /\ snd.drain /\ ~snd.done /\ ~snd.closed /\ snd.peers

EndOp ==
  /\ ending > 0
  /\ ending' = ending - 1
  /\ IF ReleaseDue
     THEN snd' = [snd EXCEPT !.closed = TRUE] /\ closing' = closing + 1
     ELSE snd' = EndSendOp(snd) /\ UNCHANGED closing
  /\ NoFault /\ UNCHANGED <<wkr, d2h, chain, out, failed, addr, pbuf>>

CloseConnections ==
  /\ closing > 0
  /\ closing' = closing - 1 /\ ending' = ending + 1
  /\ NoFault /\ UNCHANGED <<snd, wkr, d2h, chain, out, failed, addr, pbuf>>

-----------------------------------------------------------------------------
(* StartPush, on the pull worker's thread.                                   *)

WorkerAt(pc) == wkr.pc = pc
WorkerTo(pc) == wkr' = [wkr EXCEPT !.pc = pc]

(* SendNextLayer(l): link layer l to its copy's future. *)
SendNextLayer(s, c, l) ==
  IF l \in Layers /\ ~s.drain /\ s.futs
  THEN <<[s EXCEPT !.n = @ + 1], [c EXCEPT ![l] = "armed"]>>
  ELSE <<s, c>>

(* A host source has nothing to stage: every layer's future is ready.        *)
PushFromHost ==
  /\ WorkerAt("spawned") /\ dep.src = "host"
  /\ LET s == [snd EXCEPT !.peers = TRUE]
         t == [s EXCEPT !.futs = TRUE, !.left = NumLayers]
         p == SendNextLayer(t, chain, 1)
     IN IF s.drain
        THEN snd' = s /\ UNCHANGED <<chain, d2h>>
        ELSE /\ snd' = p[1] /\ chain' = p[2]
             /\ d2h' = [l \in Layers |-> [st |-> "copied", slot |-> l]]
  /\ WorkerTo("over") /\ NoFault
  /\ UNCHANGED <<ending, closing, out, failed, addr, pbuf>>

BeginStaging ==
  /\ WorkerAt("spawned") /\ dep.src = "device"
  /\ snd' = [snd EXCEPT !.peers = TRUE]
  /\ WorkerTo("staging") /\ NoFault
  /\ UNCHANGED <<d2h, chain, ending, closing, out, failed, addr, pbuf>>

(* AcquireStagingWithRetry: a draining send stops retrying, a send past its  *)
(* deadline gives up, and an allocation that comes back to a draining send   *)
(* is dropped.  On success every layer gets its future and the chain starts. *)
AcquireStaging ==
  /\ WorkerAt("staging")
  /\ \/ /\ snd.drain
        /\ WorkerTo("over") /\ UNCHANGED <<snd, chain>>
     \/ /\ ~snd.drain /\ late
        /\ snd' = FinishSend(snd, FALSE)
        /\ WorkerTo("over") /\ UNCHANGED chain
     \/ /\ ~snd.drain
        /\ LET s == [snd EXCEPT !.held = TRUE, !.futs = TRUE, !.left = NumLayers]
               p == SendNextLayer(s, chain, 1)
           IN snd' = p[1] /\ chain' = p[2]
        /\ WorkerTo("slot")
  /\ NoFault /\ UNCHANGED <<d2h, ending, closing, out, failed, addr, pbuf>>

(* Mutant of FailUnissued: the cleanup is missing.                           *)
FailUnissued_Hangs == UNCHANGED d2h

(* fail_unissued_layers: a layer whose copy never starts resolves with the   *)
(* send's status, so that the chain does not wait for it.                    *)
FailUnissued == d2h' = [l \in Layers |-> IF d2h[l].st = "none"
                                         THEN [d2h[l] EXCEPT !.st = "failed"]
                                         ELSE d2h[l]]

(* AcquireStagingSlot, then the check before the copy is counted: a draining *)
(* send and a shut-down manager end the worker, so does a deadline, which    *)
(* fails the send; otherwise the layer leases a buffer and its copy begins.  *)
LeaseSlot ==
  /\ WorkerAt("slot")
  /\ \/ /\ snd.drain
        /\ WorkerTo("over") /\ FailUnissued /\ UNCHANGED snd
     \/ /\ ~snd.drain /\ ~AcquireReady(snd.mgr, wkr.l) /\ late
        /\ snd' = FinishSend(snd, FALSE)
        /\ WorkerTo("over") /\ FailUnissued
     \/ /\ ~snd.drain /\ AcquireReady(snd.mgr, wkr.l)
        /\ snd' = [snd EXCEPT !.mgr = AcquireSlot(@, wkr.l)]
        /\ WorkerTo("issue") /\ UNCHANGED d2h
  /\ NoFault /\ UNCHANGED <<chain, ending, closing, out, failed, addr, pbuf>>

IssueCopy ==
  /\ WorkerAt("issue")
  /\ \/ /\ snd.drain
        /\ snd' = Unlease(snd, wkr.l)
        /\ WorkerTo("over") /\ FailUnissued /\ NoFault /\ UNCHANGED ending
     \/ /\ ~snd.drain                                \* D2hSyncDispatch fails
        /\ snd' = FinishSend([Unlease(snd, wkr.l) EXCEPT !.n = @ + 1], FALSE)
        /\ ending' = ending + 1
        /\ WorkerTo("over") /\ FailUnissued /\ Fault
     \/ /\ ~snd.drain
        /\ snd' = [snd EXCEPT !.n = @ + 1]
        /\ d2h' = [d2h EXCEPT ![wkr.l] =
                     [st |-> "copying", slot |-> snd.mgr.lease[wkr.l]]]
        /\ wkr' = IF wkr.l = NumLayers THEN [wkr EXCEPT !.pc = "over"]
                                       ELSE [pc |-> "slot", l |-> wkr.l + 1]
        /\ NoFault /\ UNCHANGED ending
  /\ UNCHANGED <<chain, closing, out, failed, addr, pbuf>>

(* The device ends a copy: its promise is set, then its operation ends.      *)
CopyDone(l) ==
  /\ d2h[l].st = "copying"
  /\ \/ /\ d2h' = [d2h EXCEPT ![l].st = "copied"]
        /\ pbuf' = [pbuf EXCEPT ![d2h[l].slot] = l]
        /\ NoFault
     \/ /\ d2h' = [d2h EXCEPT ![l].st = "failed"] /\ Fault /\ UNCHANGED pbuf
  /\ ending' = ending + 1
  /\ UNCHANGED <<snd, wkr, chain, closing, out, failed, addr>>

-----------------------------------------------------------------------------
(* SendNextLayer's continuation and the push.                                *)

(* OnReady of the layer's copy: a failed copy fails the send; a draining     *)
(* send pushes nothing; else the push is handed to push_pool.                *)
ChainReady(l) ==
  /\ chain[l] = "armed" /\ d2h[l].st \in {"copied", "failed"}
  /\ IF d2h[l].st = "failed" \/ snd.drain
     THEN /\ snd' = Unlease(IF d2h[l].st = "failed" THEN FinishSend(snd, FALSE)
                                                    ELSE snd, l)
          /\ chain' = [chain EXCEPT ![l] = "over"] /\ ending' = ending + 1
     ELSE /\ chain' = [chain EXCEPT ![l] = "task"]
          /\ UNCHANGED <<snd, ending>>
  /\ NoFault /\ UNCHANGED <<wkr, d2h, closing, out, failed, addr, pbuf>>

PushTask(l) ==
  /\ chain[l] = "task"
  /\ IF snd.drain
     THEN /\ snd' = Unlease(snd, l)
          /\ chain' = [chain EXCEPT ![l] = "over"] /\ ending' = ending + 1
     ELSE /\ snd' = [snd EXCEPT !.n = @ + 1]
          /\ chain' = [chain EXCEPT ![l] = "post"] /\ UNCHANGED ending
  /\ NoFault /\ UNCHANGED <<wkr, d2h, closing, out, failed, addr, pbuf>>

(* The end of a push: a failure finishes the send before the buffer returns, *)
(* the last success finishes it well.                                        *)
PushEnded(s, l, ok) ==
  IF ~ok THEN Unlease(FinishSend(s, FALSE), l)
  ELSE LET d == [Unlease(s, l) EXCEPT !.left = @ - 1]
       IN IF d.left = 0 THEN FinishSend(d, TRUE) ELSE d

(* H2hWriteDirectAsync: with fewer buffers than layers the requests are      *)
(* built from the leased one, which a draining send no longer gives; a full  *)
(* mirror is read in place.  The adapter refuses a uuid that failed.  Then   *)
(* the task links the next layer and ends.                                   *)
Bounded == dep.pslots < NumLayers

Post(l) ==
  /\ chain[l] = "post"
  /\ LET refused == failed \/ (Bounded /\ snd.drain)
         s == IF refused THEN PushEnded(snd, l, FALSE) ELSE snd
         c == [chain EXCEPT ![l] = IF refused THEN "over" ELSE "push"]
         p == SendNextLayer(s, c, l + 1)
     IN /\ out' = IF refused THEN out
                  ELSE [out EXCEPT ![l] = [k \in Streams |-> "queued"]]
        /\ addr' = IF refused THEN addr
                   ELSE [addr EXCEPT ![l] = IF Bounded THEN snd.mgr.lease[l]
                                                       ELSE l]
        /\ snd' = p[1] /\ chain' = p[2]
        /\ ending' = ending + (IF refused THEN 2 ELSE 1)
  /\ NoFault /\ UNCHANGED <<wkr, d2h, closing, failed, pbuf>>

(* A socket worker takes the stream: nothing is sent once a stream of the    *)
(* same uuid failed.                                                         *)
OpenStream(l, k) ==
  /\ out[l][k] = "queued"
  /\ out' = [out EXCEPT ![l][k] = IF failed THEN "failed" ELSE "open"]
  /\ NoFault /\ UNCHANGED <<snd, wkr, d2h, chain, ending, closing, failed, addr, pbuf>>

(* A stream's connection fails, or waiting for its acknowledgement times out.*)
BreakStream(l, k) ==
  /\ out[l][k] = "open"
  /\ out' = [out EXCEPT ![l][k] = "failed"] /\ failed' = TRUE /\ Fault
  /\ UNCHANGED <<snd, wkr, d2h, chain, ending, closing, addr, pbuf>>

(* finish_stream of the last stream ends the push. *)
PushDone(l) ==
  /\ chain[l] = "push" /\ \A k \in Streams : out[l][k] \in {"acked", "failed"}
  /\ snd' = PushEnded(snd, l, \A k \in Streams : out[l][k] = "acked")
  /\ chain' = [chain EXCEPT ![l] = "over"] /\ ending' = ending + 1
  /\ NoFault /\ UNCHANGED <<wkr, d2h, closing, out, failed, addr, pbuf>>

SendStep ==
  \/ EndOp \/ CloseConnections
  \/ PushFromHost \/ BeginStaging \/ AcquireStaging \/ LeaseSlot \/ IssueCopy
  \/ \E l \in Layers : CopyDone(l) \/ ChainReady(l) \/ PushTask(l) \/ Post(l)
                       \/ PushDone(l)
  \/ \E l \in Layers, k \in Streams : OpenStream(l, k) \/ BreakStream(l, k)
=============================================================================
