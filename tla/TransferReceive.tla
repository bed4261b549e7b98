--------------------------- MODULE TransferReceive ---------------------------
(* The consumer of a KV transfer: TransferReceiveSession                     *)
(* (kv_cache/transfer_receive_session.cc) under the transport's push streams *)
(* (BlockTransportServerPushSession::StartStream and CompleteIncomingPush in *)
(* transport/block_transport_session.cc).  Each stream is a server thread;   *)
(* the stream that completes a layer issues the layer's copy to the device.  *)
EXTENDS TransferSend

VARIABLES
  rcv,     \* the receive session's fields
  inn,     \* per layer and stream, the consumer's end: what its thread does next
  ctr,     \* per layer, streams counted by the transport's layer progress
  h2d,     \* per layer, the copy to the device
  rend,    \* copies whose completion is about to release its buffer and end
  raddr,   \* per layer and stream, the host buffer it writes
  rbuf,    \* per host layer buffer and stream, the layer whose bytes it holds
  dest     \* per layer and stream, the layer whose bytes the destination holds

recvVars == <<rcv, inn, ctr, h2d, rend, raddr, rbuf, dest>>

NewReceive ==
  [live |-> FALSE, hs |-> TRUE, held |-> FALSE, drain |-> FALSE,
   done |-> FALSE, ok |-> TRUE, n |-> 0, landed |-> 0, got |-> 0,
   net |-> FALSE, futs |-> {}, disp |-> {}, mgr |-> NewStaging(dep.cslots)]

ReceiveInit ==
  /\ rcv = NewReceive
  /\ inn = [l \in Layers |-> [k \in Streams |-> "none"]]
  /\ ctr = [l \in Layers |-> 0]
  /\ h2d = [l \in Layers |-> [st |-> "none", slot |-> 0]]
  /\ rend = {}
  /\ raddr = [l \in Layers |-> [k \in Streams |-> 0]]
  /\ rbuf = [b \in 1..dep.cslots |-> [k \in Streams |-> 0]]
  /\ dest = [l \in Layers |-> [k \in Streams |-> 0]]

-----------------------------------------------------------------------------
(* The session's own functions.                                              *)

SettleReceive(r) ==
  IF r.drain /\ r.n = 0 /\ ~r.done
  THEN [r EXCEPT !.mgr = ReleaseAllSlots(@), !.held = FALSE, !.done = TRUE]
  ELSE r

(* Mutant of FinishReceive: the first verdict stands.                        *)
FinishReceive_FirstWins(r, ok) ==
  IF r.drain THEN r
  ELSE SettleReceive([r EXCEPT !.ok = ok, !.drain = TRUE,
                               !.mgr = ShutdownStaging(@)])

(* The first error is kept even when the receive is already draining.        *)
FinishReceive(r, ok) ==
  LET e == [r EXCEPT !.ok = @ /\ ok]
  IN IF r.drain THEN e
     ELSE SettleReceive([e EXCEPT !.drain = TRUE, !.mgr = ShutdownStaging(@)])

EndReceiveOp(r) == IF r.n <= 0 THEN r ELSE SettleReceive([r EXCEPT !.n = @ - 1])

UnleaseR(r, l) == [r EXCEPT !.mgr = ReleaseSlot(@, l)]

BoundedR == dep.cslots < NumLayers

(* IsReadyToComplete: every copy issued is ready, well or not. *)
CopyReady(l) == h2d[l].st \in {"copied", "failed", "over"}

IsReadyToComplete ==
  /\ rcv.net \/ rcv.landed = NumLayers
  /\ \A l \in rcv.futs : CopyReady(l)

At(l, k, pc) == inn[l][k] = pc
To(l, k, pc) == inn' = [inn EXCEPT ![l][k] = pc]

-----------------------------------------------------------------------------
(* One push stream on the consumer, StartStream.                             *)

(* BeginIncomingPush: a session that is gone or draining refuses it.         *)
BeginStream(l, k) ==
  /\ out[l][k] = "open" /\ At(l, k, "none")
  /\ IF rcv.live /\ ~rcv.drain
     THEN rcv' = [rcv EXCEPT !.n = @ + 1] /\ To(l, k, "begun")
     ELSE To(l, k, "refused") /\ UNCHANGED rcv
  /\ NoFault /\ UNCHANGED <<ctr, h2d, rend, raddr, rbuf, dest>>

(* GetBlockChunks: a full mirror is addressed in place; otherwise            *)
(* AcquireStagingSlot counts itself and waits.                               *)
AddressStream(l, k) ==
  /\ At(l, k, "begun")
  /\ \/ /\ ~BoundedR
        /\ raddr' = [raddr EXCEPT ![l][k] = l]
        /\ To(l, k, "addressed") /\ UNCHANGED rcv
     \/ /\ BoundedR /\ rcv.drain
        /\ To(l, k, "failing") /\ UNCHANGED <<rcv, raddr>>
     \/ /\ BoundedR /\ ~rcv.drain
        /\ rcv' = [rcv EXCEPT !.n = @ + 1]
        /\ To(l, k, "waiting") /\ UNCHANGED raddr
  /\ NoFault /\ UNCHANGED <<ctr, h2d, rend, rbuf, dest>>

(* The wait ends: with a slot, by the shutdown of the manager, or at the     *)
(* deadline, which fails the receive.                                        *)
StagingWaitEnds(l, k) ==
  /\ At(l, k, "waiting")
  /\ \/ /\ rcv.mgr.down
        /\ rcv' = EndReceiveOp(rcv) /\ To(l, k, "failing") /\ UNCHANGED raddr
     \/ /\ ~AcquireReady(rcv.mgr, l) /\ late
        /\ rcv' = EndReceiveOp(FinishReceive(rcv, FALSE))
        /\ To(l, k, "failing") /\ UNCHANGED raddr
     \/ /\ ~rcv.mgr.down /\ AcquireReady(rcv.mgr, l)
        /\ LET m == AcquireSlot(rcv.mgr, l)
           IN /\ rcv' = EndReceiveOp([rcv EXCEPT !.mgr = m])
              /\ raddr' = [raddr EXCEPT ![l][k] = m.lease[l]]
        /\ To(l, k, "addressed")
  /\ NoFault /\ UNCHANGED <<ctr, h2d, rend, rbuf, dest>>

(* The payload crosses: the bytes are those of the buffer the push reads.    *)
Land(l, k) ==
  /\ At(l, k, "addressed") /\ out[l][k] = "open"
  /\ rbuf' = [rbuf EXCEPT ![raddr[l][k]][k] = pbuf[addr[l]]]
  /\ To(l, k, "landed")
  /\ NoFault /\ UNCHANGED <<rcv, ctr, h2d, rend, raddr, dest>>

(* A broken stream is seen by every read the thread has yet to make, and a   *)
(* draining receive no longer gives the lease its next block asks for.       *)
LoseStream(l, k) ==
  /\ inn[l][k] \in {"begun", "addressed"}
  /\ out[l][k] = "failed" \/ (BoundedR /\ rcv.drain)
  /\ To(l, k, "failing")
  /\ NoFault /\ UNCHANGED <<rcv, ctr, h2d, rend, raddr, rbuf, dest>>

(* CompleteIncomingPush counts the stream; the one that completes the layer  *)
(* reports it.                                                               *)
CountStream(l, k) ==
  /\ At(l, k, "landed")
  /\ ctr' = [ctr EXCEPT ![l] = @ + 1]
  /\ To(l, k, IF ctr[l] + 1 = dep.streams THEN "layer" ELSE "blocks")
  /\ NoFault /\ UNCHANGED <<rcv, h2d, rend, raddr, rbuf, dest>>

(* SettleHostLayer: on a host destination the bytes are in place, and the    *)
(* last layer closes the network phase and the receive.                      *)
SettleHostLayer(l, k) ==
  /\ At(l, k, "layer") /\ dep.dst = "host"
  /\ LET r == [rcv EXCEPT !.landed = @ + 1]
     IN rcv' = IF rcv.drain THEN rcv
               ELSE IF r.landed = NumLayers
                    THEN FinishReceive([r EXCEPT !.net = TRUE], TRUE) ELSE r
  /\ To(l, k, "blocks")
  /\ NoFault /\ UNCHANGED <<ctr, h2d, rend, raddr, rbuf, dest>>

(* ExecuteLayerH2d: enter and count the copy ... *)
EnterH2d(l, k) ==
  /\ At(l, k, "layer") /\ dep.dst = "device"
  /\ IF rcv.drain
     THEN rcv' = UnleaseR(rcv, l) /\ To(l, k, "blocks") /\ UNCHANGED h2d
     ELSE /\ rcv' = [rcv EXCEPT !.n = @ + 1]
          /\ h2d' = [h2d EXCEPT ![l].slot =
                       IF BoundedR THEN rcv.mgr.lease[l] ELSE l]
          /\ To(l, k, "issue")
  /\ NoFault /\ UNCHANGED <<ctr, rend, raddr, rbuf, dest>>

(* ... check again and issue it; a copy that cannot be issued fails the      *)
(* receive and the stream.                                                   *)
IssueH2d(l, k) ==
  /\ At(l, k, "issue")
  /\ \/ /\ rcv.drain
        /\ rcv' = EndReceiveOp(UnleaseR(rcv, l)) /\ To(l, k, "blocks")
        /\ NoFault /\ UNCHANGED h2d
     \/ /\ ~rcv.drain
        /\ rcv' = EndReceiveOp(FinishReceive(UnleaseR(rcv, l), FALSE))
        /\ To(l, k, "failing") /\ Fault /\ UNCHANGED h2d
     \/ /\ ~rcv.drain
        /\ h2d' = [h2d EXCEPT ![l].st = "copying"]
        /\ rcv' = [rcv EXCEPT !.futs = @ \cup {l}]
        /\ To(l, k, "issued") /\ NoFault
  /\ UNCHANGED <<ctr, rend, raddr, rbuf, dest>>

IssuedH2d(l, k) ==
  /\ At(l, k, "issued")
  /\ LET r == [rcv EXCEPT !.disp = @ \cup {l}]
     IN rcv' = [r EXCEPT !.net = @ \/ (r.disp = Layers /\ ~r.drain)]
  /\ To(l, k, "blocks")
  /\ NoFault /\ UNCHANGED <<ctr, h2d, rend, raddr, rbuf, dest>>

(* The device ends the copy; its callback runs later.                        *)
CopyToDevice(l) ==
  /\ h2d[l].st = "copying"
  /\ \/ /\ h2d' = [h2d EXCEPT ![l].st = "copied"]
        /\ dest' = [dest EXCEPT ![l] = rbuf[h2d[l].slot]] /\ NoFault
     \/ h2d' = [h2d EXCEPT ![l].st = "failed"] /\ Fault /\ UNCHANGED dest
  /\ UNCHANGED <<rcv, inn, ctr, rend, raddr, rbuf>>

H2dCallback(l) ==
  /\ h2d[l].st \in {"copied", "failed"}
  /\ rcv' = IF h2d[l].st = "failed" THEN FinishReceive(rcv, FALSE)
            ELSE LET r == [rcv EXCEPT !.landed = @ + 1]
                 IN IF r.landed = NumLayers /\ ~r.drain
                    THEN FinishReceive(r, TRUE) ELSE r
  /\ h2d' = [h2d EXCEPT ![l].st = "over"] /\ rend' = rend \cup {l}
  /\ NoFault /\ UNCHANGED <<inn, ctr, raddr, rbuf, dest>>

(* The copy's buffer returns and its operation ends. *)
H2dEnd(l) ==
  /\ l \in rend /\ rend' = rend \ {l}
  /\ rcv' = EndReceiveOp(UnleaseR(rcv, l))
  /\ NoFault /\ UNCHANGED <<inn, ctr, h2d, raddr, rbuf, dest>>

(* RecordBlockShards: the network phase ends with the last block report.     *)
ReportBlocks(l, k) ==
  /\ At(l, k, "blocks")
  /\ LET r == [rcv EXCEPT !.got = @ + 1]
         all == r.got = NumLayers * dep.streams /\ ~rcv.net
     IN rcv' = IF rcv.drain THEN rcv
               ELSE IF all /\ r.landed = NumLayers
                    THEN FinishReceive([r EXCEPT !.net = TRUE], TRUE)
                    ELSE [r EXCEPT !.net = @ \/ all]
  /\ To(l, k, "ending")
  /\ NoFault /\ UNCHANGED <<ctr, h2d, rend, raddr, rbuf, dest>>

(* EndIncomingPush and the acknowledgement: a stream of a failed receive is  *)
(* not acknowledged, and a failed stream fails the receive.                  *)
EndStream(l, k) ==
  /\ inn[l][k] \in {"ending", "failing", "refused"}
  /\ LET broken == At(l, k, "failing")
         r == EndReceiveOp(IF broken THEN FinishReceive(rcv, FALSE) ELSE rcv)
         acked == At(l, k, "ending") /\ r.ok
     IN /\ rcv' = IF At(l, k, "refused") THEN rcv ELSE r
        /\ out' = IF out[l][k] # "open" THEN out
                  ELSE [out EXCEPT ![l][k] = IF acked THEN "acked" ELSE "failed"]
        /\ failed' = (failed \/ (out[l][k] = "open" /\ ~acked))
  /\ To(l, k, "over")
  /\ NoFault /\ UNCHANGED <<ctr, h2d, rend, raddr, rbuf, dest>>
  /\ UNCHANGED <<snd, wkr, d2h, chain, ending, closing, addr, pbuf>>

StreamStep(l, k) ==
  \/ BeginStream(l, k) \/ AddressStream(l, k) \/ StagingWaitEnds(l, k)
  \/ Land(l, k) \/ LoseStream(l, k) \/ CountStream(l, k)
  \/ SettleHostLayer(l, k) \/ EnterH2d(l, k) \/ IssueH2d(l, k)
  \/ IssuedH2d(l, k) \/ ReportBlocks(l, k)

CopyStep(l) == CopyToDevice(l) \/ H2dCallback(l) \/ H2dEnd(l)
=============================================================================
