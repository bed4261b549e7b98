------------------------------ MODULE Transfer ------------------------------
(* One transfer between two KVCacheManagerWithTransfer                       *)
(* (kv_cache/kv_cache_manager_with_transfer.cc): the producer registers its  *)
(* blocks, the consumer asks for them over the control plane, the producer   *)
(* pushes them layer by layer, and each manager's poll reports a verdict.    *)
(* Deadlines, failures and either manager's destruction come at any point.   *)
EXTENDS TransferReceive

CONSTANT Deployments  \* records [src, dst, layers, pslots, cslots, streams,
                      \* faults]

VARIABLES
  noted,   \* NotifyForRead has been called
  req,     \* the pull request on its way: none, sent, handled
  resp,    \* its reply as the consumer sees it: none, pending, ok, bad, over
  acks,    \* pending_acks_ holds the uuid
  used,    \* the consumer has started its read, or sent the ack in its place
  stop     \* per side, the manager: up, stopping (its destructor runs), down

ctlVars == <<noted, req, resp, acks, used, stop>>
vars == <<dep, faults, late, sendVars, recvVars, ctlVars>>

Sides == {"send", "recv"}

Init ==
  /\ dep \in Deployments /\ faults = 0 /\ late = FALSE
  /\ SendInit /\ ReceiveInit
  /\ noted = FALSE /\ req = "none" /\ resp = "none" /\ acks = FALSE
  /\ used = "no" /\ stop = [s \in Sides |-> "up"]

-----------------------------------------------------------------------------
(* The producer's manager.                                                   *)

(* NotifyForRead: an ack that came first settles it without a session.       *)
NotifyForRead ==
  /\ ~noted /\ stop["send"] = "up"
  /\ noted' = TRUE /\ acks' = FALSE
  /\ snd' = [snd EXCEPT !.live = ~acks]
  /\ UNCHANGED <<dep, faults, late, wkr, d2h, chain, ending, closing, out,
                 failed, addr, pbuf, recvVars, req, resp, used, stop>>

(* AckSend: the consumer had the blocks already.                             *)
AckSend ==
  /\ used = "acked" /\ stop["send"] = "up"
  /\ used' = "over"
  /\ IF snd.live THEN snd' = FinishSend(snd, TRUE) /\ UNCHANGED acks
     ELSE acks' = TRUE /\ UNCHANGED snd
  /\ UNCHANGED <<dep, faults, late, wkr, d2h, chain, ending, closing, out,
                 failed, addr, pbuf, recvVars, noted, req, resp, stop>>

Reply(r) == resp' = IF resp = "pending" THEN r ELSE resp

(* HandlePullStream: wait for the registration within the grace, validate,   *)
(* and launch the worker; the validation asks for the deadline and for a     *)
(* first pull, not for a send that still runs.                               *)
PullValid == snd.live /\ ~late /\ ~snd.began

HandlePullStream ==
  /\ req = "sent" /\ req' = "handled"
  /\ \/ /\ stop["send"] # "up" \/ ~PullValid
        /\ Reply("bad") /\ NoFault /\ UNCHANGED <<snd, wkr>>
     \/ /\ stop["send"] = "up" /\ PullValid
        /\ snd' = [snd EXCEPT !.began = TRUE]
        /\ wkr' = [pc |-> "spawned", l |-> 1]
        /\ Reply("ok") /\ NoFault
     \/ /\ stop["send"] = "up" /\ PullValid      \* the thread cannot start
        /\ snd' = FinishSend([snd EXCEPT !.began = TRUE], FALSE)
        /\ Reply("bad") /\ Fault /\ UNCHANGED wkr
  /\ UNCHANGED <<dep, late, d2h, chain, ending, closing, out, failed, addr,
                 pbuf, recvVars, noted, acks, used, stop>>

(* The worker's last act, decrementing active_pull_workers_. *)
WorkerExit ==
  /\ WorkerAt("over") /\ WorkerTo("gone")
  /\ UNCHANGED <<dep, faults, late, snd, d2h, chain, ending, closing, out,
                 failed, addr, pbuf, recvVars, ctlVars>>

WorkerActive == wkr.pc \notin {"none", "gone"}

(* CompleteReadWithDetails on the producer: expire, then retire and report.  *)
PollSend ==
  LET s == IF ~snd.drain /\ late THEN FinishSend(snd, FALSE) ELSE snd
  IN /\ snd.live /\ stop["send"] = "up" /\ (s # snd \/ s.done)
     /\ snd' = [s EXCEPT !.live = ~s.done]
     /\ UNCHANGED <<dep, faults, late, wkr, d2h, chain, ending, closing, out,
                    failed, addr, pbuf, recvVars, noted, req, resp, acks, used,
                    stop>>

-----------------------------------------------------------------------------
(* The consumer's manager.                                                   *)

(* StartRead: a device destination needs staging now or the read fails at    *)
(* once; a read of no block settles at once; else the handshake is one       *)
(* operation in flight.                                                      *)
StartRead ==
  /\ used = "no" /\ stop["recv"] = "up"
  /\ used' = "read"
  /\ \/ /\ rcv' = [rcv EXCEPT !.live = TRUE, !.n = 1,
                              !.held = dep.dst = "device"]
        /\ req' = "scheduled" /\ resp' = "pending" /\ NoFault
     \/ /\ rcv' = FinishReceive([rcv EXCEPT !.live = TRUE], TRUE)
        /\ NoFault /\ UNCHANGED <<req, resp>>
     \/ /\ dep.dst = "device" /\ Fault
        /\ UNCHANGED <<rcv, req, resp>>
  /\ UNCHANGED <<dep, late, sendVars, inn, ctr, h2d, rend, raddr, rbuf, dest,
                 noted, acks, stop>>

(* The consumer needs nothing and acknowledges instead of reading.           *)
AckInstead ==
  /\ used = "no" /\ used' = "acked"
  /\ UNCHANGED <<dep, faults, late, sendVars, recvVars, noted, req, resp, acks,
                 stop>>

(* The pull request leaves from push_pool, or cannot.                        *)
SendPullRequest ==
  /\ req = "scheduled"
  /\ \/ req' = "sent" /\ NoFault /\ UNCHANGED resp
     \/ req' = "handled" /\ Fault /\ Reply("bad")
  /\ UNCHANGED <<dep, late, sendVars, recvVars, noted, acks, used, stop>>

(* The control call's own timeout: the producer may still serve the request. *)
PullTimeout ==
  /\ resp = "pending" /\ req # "scheduled" /\ Fault /\ Reply("bad")
  /\ UNCHANGED <<dep, late, sendVars, recvVars, noted, req, acks, used, stop>>

(* on_response: a failed handshake fails a receive that is not yet settled.  *)
PullResponse ==
  /\ resp \in {"ok", "bad"} /\ resp' = "over"
  /\ LET r == IF resp = "bad" /\ ~rcv.drain THEN FinishReceive(rcv, FALSE)
                                            ELSE rcv
     IN rcv' = EndReceiveOp([r EXCEPT !.hs = FALSE])
  /\ UNCHANGED <<dep, faults, late, sendVars, inn, ctr, h2d, rend, raddr, rbuf,
                 dest, noted, req, acks, used, stop>>

(* CompleteReadWithDetails on the consumer: a receive whose bytes landed and *)
(* whose copies are ready finishes well, one past its deadline fails.        *)
PolledReceive ==
  IF rcv.drain THEN rcv
  ELSE IF IsReadyToComplete THEN FinishReceive(rcv, TRUE)
  ELSE IF late THEN FinishReceive(rcv, FALSE)
  ELSE rcv

PollReceive ==
  LET r == PolledReceive
  IN /\ rcv.live /\ stop["recv"] = "up" /\ (r # rcv \/ r.done)
     /\ rcv' = [r EXCEPT !.live = ~r.done]
     /\ UNCHANGED <<dep, faults, late, sendVars, inn, ctr, h2d, rend, raddr,
                    rbuf, dest, noted, req, resp, acks, used, stop>>

-----------------------------------------------------------------------------
(* The destructor of either manager: stop the control server, cancel the     *)
(* sessions, wait for the pull worker and for each session to be done, and   *)
(* only then stop the transport.                                             *)
Quiet(side) == IF side = "send" THEN ~WorkerActive /\ (snd.live => snd.done)
               ELSE rcv.live => rcv.done

Destroy(side) ==
  /\ \/ /\ stop[side] = "up" /\ Fault
        /\ stop' = [stop EXCEPT ![side] = "stopping"]
        /\ snd' = IF side = "send" /\ snd.live THEN FinishSend(snd, FALSE) ELSE snd
        /\ rcv' = IF side = "recv" /\ rcv.live THEN FinishReceive(rcv, FALSE) ELSE rcv
     \/ /\ stop[side] = "stopping" /\ Quiet(side) /\ NoFault
        /\ stop' = [stop EXCEPT ![side] = "down"]
        /\ snd' = IF side = "send" THEN [snd EXCEPT !.live = FALSE] ELSE snd
        /\ rcv' = IF side = "recv" THEN [rcv EXCEPT !.live = FALSE] ELSE rcv
  /\ UNCHANGED <<dep, late, wkr, d2h, chain, ending, closing, out, failed, addr,
                 pbuf, inn, ctr, h2d, rend, raddr, rbuf, dest, noted, req, resp,
                 acks, used>>

(* The deadline passes, on both sides: each acts on it at its next poll or   *)
(* when a wait of its own ends.                                              *)
Expire ==
  /\ ~late /\ late' = TRUE
  /\ UNCHANGED <<dep, faults, sendVars, recvVars, ctlVars>>

-----------------------------------------------------------------------------
SendSide == SendStep /\ UNCHANGED <<dep, late, recvVars, ctlVars>>

RecvStream(l, k) ==
  \/ StreamStep(l, k) /\ UNCHANGED <<dep, late, sendVars, ctlVars>>
  \/ EndStream(l, k) /\ UNCHANGED <<dep, late, ctlVars>>

RecvCopy(l) == CopyStep(l) /\ UNCHANGED <<dep, late, sendVars, ctlVars>>

Next ==
  \/ SendSide
  \/ \E l \in Layers : RecvCopy(l) \/ \E k \in Streams : RecvStream(l, k)
  \/ NotifyForRead \/ AckSend \/ HandlePullStream \/ WorkerExit \/ PollSend
  \/ StartRead \/ AckInstead \/ SendPullRequest \/ PullTimeout \/ PullResponse
  \/ PollReceive
  \/ Expire \/ \E side \in Sides : Destroy(side)

(* Threads, callbacks and the device keep running, replies come, deadlines   *)
(* pass, the engine keeps polling (CompleteRead is called in a loop) and a   *)
(* destructor that began goes on.  Nothing makes a caller call, a destructor *)
(* start or a fault occur.  One weak fairness for all of them is enough: no  *)
(* step can be repeated for ever in place of another.                        *)
Progress ==
  \/ SendSide
  \/ \E l \in Layers : RecvCopy(l) \/ \E k \in Streams : RecvStream(l, k)
  \/ HandlePullStream \/ WorkerExit \/ PollSend
  \/ SendPullRequest \/ PullResponse \/ PollReceive \/ Expire
  \/ \E side \in Sides : stop[side] # "up" /\ Destroy(side)

Spec == Init /\ [][Next]_vars /\ WF_vars(Progress)

-----------------------------------------------------------------------------
(* The memory a session leased stays leased for as long as anything uses it: *)
(* a copy from the device, a push that reads it, a stream that writes it, a  *)
(* copy to the device.  On the producer a layer of a full mirror is copied   *)
(* into the buffer its push reads, its own.                                  *)
StagingOwned ==
  /\ \A l \in Layers :
       /\ d2h[l].st = "copying" =>
            /\ snd.held /\ ~snd.done /\ Leased(snd.mgr, l)
            /\ snd.mgr.lease[l] = d2h[l].slot
            /\ ~Bounded => d2h[l].slot = l
       /\ (\E k \in Streams : out[l][k] \in {"queued", "open"}) =>
            /\ ~snd.done
            /\ dep.src = "device" => /\ snd.held /\ Leased(snd.mgr, l)
                                     /\ snd.mgr.lease[l] = addr[l]
       /\ h2d[l].st = "copying" =>
            /\ rcv.held /\ ~rcv.done
            /\ BoundedR => /\ Leased(rcv.mgr, l)
                           /\ rcv.mgr.lease[l] = h2d[l].slot
  /\ \A l \in Layers, k \in Streams :
       inn[l][k] \in {"addressed", "landed", "issue"} =>
            /\ ~rcv.done
            /\ dep.dst = "device" => rcv.held
            /\ BoundedR => Leased(rcv.mgr, l) /\ rcv.mgr.lease[l] = raddr[l][k]

Received(l, k) == (IF dep.dst = "host" THEN rbuf[l][k] ELSE dest[l][k]) = l

(* A verdict is true.  A receive that settles well has every layer's bytes   *)
(* at its destination; a send that settles well after a pull had every byte  *)
(* of every layer acknowledged by the consumer, unless it was acknowledged   *)
(* away.                                                                     *)
ReceiptsTrue ==
  /\ rcv.done /\ rcv.ok /\ resp # "none" =>
       \A l \in Layers, k \in Streams : Received(l, k)
  /\ snd.done /\ snd.ok /\ used = "read" =>
       \A l \in Layers, k \in Streams : out[l][k] = "acked"

(* The data connections of a transfer are closed only when none of its       *)
(* streams uses one, and a send that pushed never settles without having     *)
(* closed them (the comment of Finish and EndOp).  When a manager's          *)
(* destructor stops the transport nothing of its sessions runs any more: no  *)
(* operation is counted, no worker, copy or stream active.                   *)
TeardownQuiet ==
  /\ closing > 0 => \A l \in Layers, k \in Streams : out[l][k] # "open"
  /\ snd.done /\ (\E l \in Layers : chain[l] = "over" /\ addr[l] # 0) => snd.closed
  /\ stop["send"] = "down" =>
       /\ ~WorkerActive /\ ending = 0 /\ closing = 0
       /\ \A l \in Layers : /\ d2h[l].st # "copying" /\ chain[l] \in {"off", "over"}
                            /\ \A k \in Streams : out[l][k] # "open"
  /\ stop["recv"] = "down" =>
       /\ rend = {} /\ \A l \in Layers : h2d[l].st # "copying"
       /\ \A l \in Layers, k \in Streams :
            inn[l][k] \in {"none", "refused", "over"}

(* Every registered transfer is retired with a verdict, and a destructor     *)
(* that began returns, whatever fails and however few the buffers.           *)
TransfersSettle ==
  []<>(~snd.live /\ ~rcv.live /\ \A side \in Sides : stop[side] # "stopping")

-----------------------------------------------------------------------------
(* Deployments for TLC: device to device with one buffer for two layers on   *)
(* either side, two parallel streams per layer, and full mirrors of two      *)
(* layers on the producer or on the consumer; a fault where the state space  *)
(* allows one.                                                               *)
Dep(s, d, l, p, c, n, f) ==
  [src |-> s, dst |-> d, layers |-> l, pslots |-> p, cslots |-> c, streams |-> n, faults |-> f]

MCDeployments ==
  { Dep("device", "device", 2, 1, 1, 1, 1), Dep("host", "device", 1, 1, 1, 2, 1),
    Dep("device", "host", 2, 2, 2, 1, 0), Dep("device", "device", 2, 1, 2, 1, 0) }
=============================================================================
