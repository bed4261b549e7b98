--------------------------- MODULE ReshardSession ---------------------------
(* One sub-plan of a pool reshard on its workers: ReshardSendSession and      *)
(* ReshardReceiveSession (kv_cache/) with the transport's push streams        *)
(* between them.  A send session stages each of its pools from the device     *)
(* into a host buffer and pushes it to every peer with entries; a receive     *)
(* session lands the pushes of a pool in a host buffer and uploads the pool   *)
(* once every sender's push has landed and every pool of a lower rank is      *)
(* uploaded.                                                                  *)
EXTENDS StagingLayers, FiniteSets, FiniteSetsExt

CONSTANT Plans

VARIABLES plan, snd, rcv, wire, copy, h2d, sbuf, rbuf, dev, page, faults

vars == <<plan, snd, rcv, wire, copy, h2d, sbuf, rbuf, dev, page, faults>>

(* plan: rank (of each pool), owns (the <<pool, peer>> pairs of each sender,  *)
(* what CountPoolReshardSendSlots counts), slots at either end, faults, late  *)
(* (deadlines may pass), reuse (connections outlive the transfer).            *)
Pools == DOMAIN plan.rank
Senders == DOMAIN plan.owns
Peers == {x[2] : x \in UNION Range(plan.owns)}
PeersOf(s, p) == {r \in Peers : <<p, r>> \in plan.owns[s]}
Expected(r) == {p \in Pools : \E s \in Senders : <<p, r>> \in plan.owns[s]}
Feeders(p, r) == {s \in Senders : <<p, r>> \in plan.owns[s]}
Streams == {<<s, p, r>> \in Senders \X Pools \X Peers : <<p, r>> \in plan.owns[s]}

(* ordered_pools without the pools this sender has no entries of. *)
Ordered(s) ==
  SetToSortSeq({p \in Pools : PeersOf(s, p) # {}},
               LAMBDA a, b : \/ plan.rank[a] < plan.rank[b]
                             \/ plan.rank[a] = plan.rank[b] /\ a < b)

NewSend(s) == [todo |-> Ordered(s), run |-> TRUE, n |-> 1, 
               left |-> Cardinality(plan.owns[s]), fin |-> FALSE, done |-> FALSE, ok |-> TRUE, pushed |-> FALSE,
               closed |-> FALSE, lease |-> FALSE, mgr |-> NewStaging(plan.sslots)]
NewReceive == [n |-> 0, drain |-> FALSE, done |-> FALSE, ok |-> TRUE,
               landed |-> [p \in Pools |-> 0], started |-> {}, completed |-> {},
               launched |-> {}, finalizing |-> FALSE, lease |-> TRUE,
               mgr |-> NewStaging(plan.rslots)]

Init ==
  /\ plan \in Plans
  /\ snd = [s \in Senders |-> NewSend(s)] /\ rcv = [r \in Peers |-> NewReceive]
  /\ wire = [x \in Streams |-> "none"]
  /\ copy = [s \in Senders |-> [p \in Pools |-> "none"]]
  /\ h2d = [r \in Peers |-> [p \in Pools |-> [st |-> "none", by |-> <<>>]]]
  /\ sbuf = [s \in Senders |-> [b \in 1..plan.sslots |-> 0]]
  /\ rbuf = [r \in Peers |-> [b \in 1..plan.rslots |-> {}]]
  /\ dev = [r \in Peers |-> [p \in Pools |-> {}]]
  /\ page = [r \in Peers |-> -1] /\ faults = 0

Fault == faults < plan.faults /\ faults' = faults + 1
Unlease(x, p) == [x EXCEPT !.mgr = ReleaseSlot(@, p)]

(* ------------------------------ the send session -------------------------- *)

SettleSend(x) ==
  [x EXCEPT !.mgr = ShutdownStaging(ReleaseAllSlots(@)), !.lease = FALSE,
            !.done = TRUE]

RecordPushCompletion(x, ok) ==
  LET left == IF ok THEN x.left - 1 ELSE x.left
  IN IF x.done \/ x.fin THEN x
     ELSE IF ~ok \/ left = 0
     THEN [x EXCEPT !.ok = @ /\ ok, !.left = left, !.fin = TRUE,
                    !.mgr = ShutdownStaging(@)]
     ELSE [x EXCEPT !.left = left]

FinishSend(x, ok) ==
  IF x.done \/ x.fin THEN x
  ELSE LET y == [x EXCEPT !.ok = @ /\ ok, !.fin = TRUE, !.mgr = ShutdownStaging(@)]
       IN IF y.n = 0 THEN SettleSend(y) ELSE y

(* The last operation of a send closes the idle connections before it is      *)
(* counted out, unless connections are kept across transfers.                 *)
EndSendOp(x) ==
  LET due == ~plan.reuse /\ x.n = 1 /\ x.fin /\ ~x.done
      y == [x EXCEPT !.n = @ - 1, !.closed = @ \/ due]
  IN IF y.fin /\ y.n = 0 /\ ~y.done THEN SettleSend(y) ELSE y

(* ExecutePushPipeline, one pool: wait for a buffer, lease the arena's slots, *)
(* start the copy from the device.  A buffer, lease or copy refused ends the  *)
(* pipeline.                                                                  *)
StagePool(s) ==
  /\ snd[s].todo # <<>>
  /\ LET p == Head(snd[s].todo)
         x == snd[s]
         stop == RecordPushCompletion([x EXCEPT !.todo = <<>>], FALSE)
     IN /\ x.fin \/ AcquireReady(x.mgr, p)
        /\ \/ /\ x.fin \/ x.mgr.down
              /\ snd' = [snd EXCEPT ![s] = stop]
              /\ UNCHANGED <<copy, faults>>
           \/ /\ ~x.fin /\ ~x.mgr.down /\ Fault
              /\ snd' = [snd EXCEPT ![s] = stop]
              /\ UNCHANGED copy
           \/ /\ ~x.fin /\ ~x.mgr.down
              /\ snd' = [snd EXCEPT ![s] =
                   [x EXCEPT !.todo = Tail(@), !.lease = TRUE, !.n = @ + 1,
                             !.mgr = AcquireSlot(@, p)]]
              /\ copy' = [copy EXCEPT ![s][p] = "running"]
              /\ UNCHANGED faults
  /\ UNCHANGED <<plan, rcv, wire, h2d, sbuf, rbuf, dev, page>>

EndPipeline(s) ==
  /\ snd[s].run /\ snd[s].todo = <<>>
  /\ snd' = [snd EXCEPT ![s] = EndSendOp([@ EXCEPT !.run = FALSE])]
  /\ UNCHANGED <<plan, rcv, wire, copy, h2d, sbuf, rbuf, dev, page, faults>>

(* The copy from the device ends: StartPoolPush opens a push to every peer,   *)
(* unless the send is being finished.                                         *)
CopyDone(s, p) ==
  /\ copy[s][p] = "running"
  /\ copy' = [copy EXCEPT ![s][p] = "ended"]
  /\ LET x == snd[s]
         to == {y \in Streams : y[1] = s /\ y[2] = p}
     IN \/ /\ Fault
           /\ snd' = [snd EXCEPT ![s] =
                        EndSendOp(Unlease(RecordPushCompletion(x, FALSE), p))]
           /\ UNCHANGED <<wire, sbuf>>
        \/ /\ sbuf' = [sbuf EXCEPT ![s][x.mgr.lease[p]] = p]
           /\ IF x.fin
              THEN /\ snd' = [snd EXCEPT ![s] = EndSendOp(Unlease(x, p))]
                   /\ UNCHANGED wire
              ELSE /\ snd' = [snd EXCEPT ![s] =
                        EndSendOp([x EXCEPT !.n = @ + Cardinality(to),
                                            !.pushed = TRUE])]
                   /\ wire' = [y \in Streams |-> IF y \in to THEN "open" ELSE wire[y]]
           /\ UNCHANGED faults
  /\ UNCHANGED <<plan, rcv, h2d, rbuf, dev, page>>

(* A push's completion: the last one of a pool gives its buffer back. *)
PushDone(y) ==
  /\ wire[y] \in {"acked", "failed"}
  /\ wire' = [wire EXCEPT ![y] = "ended"]
  /\ LET last == \A z \in Streams : z[1] = y[1] /\ z[2] = y[2] => wire'[z] = "ended"
         x == RecordPushCompletion(snd[y[1]], wire[y] = "acked")
     IN snd' = [snd EXCEPT ![y[1]] = EndSendOp(IF last THEN Unlease(x, y[2]) ELSE x)]
  /\ UNCHANGED <<plan, rcv, copy, h2d, sbuf, rbuf, dev, page, faults>>

(* ----------------------------- the receive session ------------------------ *)

SettleReceive(x) ==
  IF x.drain /\ x.n = 0 /\ ~x.done
  THEN [x EXCEPT !.mgr = ReleaseAllSlots(@), !.lease = FALSE, !.done = TRUE]
  ELSE x

FinishReceive(x, ok) ==
  LET e == [x EXCEPT !.ok = @ /\ ok]
  IN IF x.drain THEN e
     ELSE SettleReceive([e EXCEPT !.drain = TRUE, !.mgr = ShutdownStaging(@)])

EndReceiveOp(x) == SettleReceive([x EXCEPT !.n = @ - 1])

(* EndIncomingPush with an error. *)
DropPush(x) == EndReceiveOp(FinishReceive(x, FALSE))

(* BeginIncomingPush: the session counts the push, or refuses it. *)
Admit(y) ==
  /\ wire[y] = "open"
  /\ \/ /\ IF rcv[y[3]].drain
           THEN wire' = [wire EXCEPT ![y] = "failed"] /\ UNCHANGED rcv
           ELSE /\ wire' = [wire EXCEPT ![y] = "admitted"]
                /\ rcv' = [rcv EXCEPT ![y[3]].n = @ + 1]
        /\ UNCHANGED faults
     \/ Fault /\ wire' = [wire EXCEPT ![y] = "failed"] /\ UNCHANGED rcv
  /\ UNCHANGED <<plan, snd, copy, h2d, sbuf, rbuf, dev, page>>

(* The payload: the receiver leases a buffer to the pool, waiting for one,    *)
(* and reads the sender's buffer into it.  A push that cannot be addressed at *)
(* either end, or breaks off, fails the receive.                              *)
Land(y) ==
  /\ wire[y] = "admitted"
  /\ LET p == y[2]  r == y[3]  x == rcv[r]
         have == Leased(snd[y[1]].mgr, p)
         fresh == ~Leased(x.mgr, p)
         m == AcquireSlot(x.mgr, p)
     IN /\ x.drain \/ AcquireReady(x.mgr, p)
        /\ \/ /\ ~x.drain /\ have
              /\ rcv' = [rcv EXCEPT ![r].mgr = m]
              /\ rbuf' = [rbuf EXCEPT ![r][m.lease[p]] =
                   {<<y[1], sbuf[y[1]][snd[y[1]].mgr.lease[p]]>>}
                   \cup IF fresh THEN {} ELSE @]
              /\ wire' = [wire EXCEPT ![y] = "landed"]
              /\ UNCHANGED faults
           \/ /\ IF x.drain \/ ~have THEN UNCHANGED faults ELSE Fault
              /\ rcv' = [rcv EXCEPT ![r] = DropPush(@)]
              /\ wire' = [wire EXCEPT ![y] = "failed"]
              /\ UNCHANGED rbuf
  /\ UNCHANGED <<plan, snd, copy, h2d, sbuf, dev, page>>

Eligible_Started(x, r) ==
  IF x.finalizing \/ x.drain THEN {}
  ELSE {p \in x.started \ x.launched :
          \A q \in Expected(r) : plan.rank[q] < plan.rank[p] => q \in x.started}

(* CollectEligiblePoolH2dsLocked *)
Eligible(x, r) ==
  IF x.finalizing \/ x.drain THEN {}
  ELSE {p \in x.started \ x.launched :
          \A q \in Expected(r) : plan.rank[q] < plan.rank[p] => q \in x.completed}

(* ExecuteEligiblePoolH2ds, its critical section: the uploads by is to issue. *)
Launch(x, r) ==
  LET S == Eligible(x, r)
  IN [x EXCEPT !.launched = @ \cup S, !.n = @ + Cardinality(S)]
Queue(x, r, by) ==
  [p \in Pools |-> IF p \in Eligible(x, r) THEN [st |-> "queued", by |-> by]
                   ELSE h2d[r][p]]

(* CompleteIncomingPush counts the push; the last one of a pool reports the   *)
(* pool received.                                                             *)
CountPush(y) ==
  /\ wire[y] = "landed"
  /\ LET p == y[2]  r == y[3]
         c == [rcv[r] EXCEPT !.landed[p] = @ + 1]
         all == c.landed[p] = Cardinality(Feeders(p, r))
         x == [c EXCEPT !.started = IF all THEN @ \cup {p} ELSE @]
     IN /\ rcv' = [rcv EXCEPT ![r] = IF all THEN Launch(x, r) ELSE x]
        /\ h2d' = IF all THEN [h2d EXCEPT ![r] = Queue(x, r, y)] ELSE h2d
        /\ wire' = [wire EXCEPT ![y] = "counted"]
  /\ UNCHANGED <<plan, snd, copy, sbuf, rbuf, dev, page, faults>>

(* The uploads this thread was to issue are issued. *)
Issued(r, by) == \A p \in Pools : h2d[r][p] # [st |-> "queued", by |-> by]

(* EndIncomingPush; the acknowledgement may be lost. *)
EndPush(y) ==
  /\ wire[y] = "counted" /\ Issued(y[3], y)
  /\ LET x == EndReceiveOp(rcv[y[3]])
     IN /\ rcv' = [rcv EXCEPT ![y[3]] = x]
        /\ \/ /\ wire' = [wire EXCEPT ![y] = IF x.ok THEN "acked" ELSE "failed"]
              /\ UNCHANGED faults
           \/ x.ok /\ Fault /\ wire' = [wire EXCEPT ![y] = "failed"]
  /\ UNCHANGED <<plan, snd, copy, h2d, sbuf, rbuf, dev, page>>

(* An upload is issued, unless the receive has been finished since.  (A copy  *)
(* the device refuses at once is H2dDone's failure.)                          *)
IssueH2d(r, p) ==
  /\ h2d[r][p].st = "queued"
  /\ IF rcv[r].drain
     THEN /\ rcv' = [rcv EXCEPT ![r] = EndReceiveOp(Unlease(@, p))]
          /\ h2d' = [h2d EXCEPT ![r][p].st = "ended"]
     ELSE /\ h2d' = [h2d EXCEPT ![r][p].st = "running"]
          /\ UNCHANGED rcv
  /\ UNCHANGED <<plan, snd, wire, copy, sbuf, rbuf, dev, page, faults>>

Uploading(r) == {p \in Pools : h2d[r][p].st = "running"}

(* The copy to the device ends and its result is recorded: the buffer goes    *)
(* back first when it went well.  The page the ranks share is left with the   *)
(* bytes of the copy that ends, or mixed (2) when copies of two ranks run.    *)
H2dDone(r, p) ==
  /\ h2d[r][p].st = "running"
  /\ LET x == rcv[r]
         y == Unlease([x EXCEPT !.completed = @ \cup {p}], p)
         z == [y EXCEPT !.finalizing = @ \/ y.completed = Expected(r)]
         fin == ~x.finalizing /\ z.finalizing
     IN \/ /\ dev' = [dev EXCEPT ![r][p] = rbuf[r][x.mgr.lease[p]]]
           /\ page' = [page EXCEPT ![r] =
                IF \E q \in Uploading(r) : plan.rank[q] # plan.rank[p] THEN 2
                ELSE plan.rank[p]]
           /\ rcv' = [rcv EXCEPT ![r] =
                IF x.finalizing THEN Unlease(x, p)
                ELSE IF fin THEN z ELSE Launch(z, r)]
           /\ h2d' = [h2d EXCEPT ![r] =
                [(IF x.finalizing \/ fin THEN h2d[r] ELSE Queue(z, r, <<r, p>>))
                   EXCEPT ![p] = [st |-> IF fin THEN "finish" ELSE "ending",
                                  by |-> <<>>]]]
           /\ UNCHANGED faults
        \/ /\ Fault
           /\ rcv' = [rcv EXCEPT ![r].finalizing = TRUE]
           /\ h2d' = [h2d EXCEPT ![r][p] =
                [st |-> IF x.finalizing THEN "drop" ELSE "fail", by |-> <<>>]]
           /\ UNCHANGED <<dev, page>>
  /\ UNCHANGED <<plan, snd, wire, copy, sbuf, rbuf>>

(* The rest of the copy's completion: Finish where it was the one to settle   *)
(* the receive, and its operation ends.                                       *)
EndH2d(r, p) ==
  /\ h2d[r][p].st \in {"finish", "ending", "fail", "drop"} /\ Issued(r, <<r, p>>)
  /\ LET x == CASE h2d[r][p].st = "finish" -> FinishReceive(rcv[r], TRUE)
                [] h2d[r][p].st = "fail" -> Unlease(FinishReceive(rcv[r], FALSE), p)
                [] h2d[r][p].st = "drop" -> Unlease(rcv[r], p)
                [] OTHER -> rcv[r]
     IN rcv' = [rcv EXCEPT ![r] = EndReceiveOp(x)]
  /\ h2d' = [h2d EXCEPT ![r][p].st = "ended"]
  /\ UNCHANGED <<plan, snd, wire, copy, sbuf, rbuf, dev, page, faults>>

(* CompleteRead finds a session past its deadline. *)
Deadline ==
  /\ plan.late
  /\ \/ \E s \in Senders : /\ ~snd[s].fin
                           /\ snd' = [snd EXCEPT ![s] = FinishSend(@, FALSE)]
                           /\ UNCHANGED rcv
     \/ \E r \in Peers : /\ ~rcv[r].drain
                         /\ rcv' = [rcv EXCEPT ![r] = FinishReceive(@, FALSE)]
                         /\ UNCHANGED snd
  /\ UNCHANGED <<plan, wire, copy, h2d, sbuf, rbuf, dev, page, faults>>

Step ==
  \/ \E s \in Senders : \/ StagePool(s) \/ EndPipeline(s)
                        \/ \E p \in Pools : CopyDone(s, p)
  \/ \E y \in Streams : PushDone(y) \/ Admit(y) \/ Land(y) \/ CountPush(y) \/ EndPush(y)
  \/ \E r \in Peers : \E p \in Pools : IssueH2d(r, p) \/ H2dDone(r, p) \/ EndH2d(r, p)

Next == Step \/ Deadline

Spec == Init /\ [][Next]_vars /\ WF_vars(Step) /\ WF_vars(Deadline)

(* -------------------------------- properties ------------------------------ *)

(* A receive that reports success has on the device, for each pool, exactly   *)
(* its senders' bytes of that pool, and on the pages the ranks share those of *)
(* the highest rank; a send that reports success pushed to receivers that     *)
(* took all of it.                                                            *)
ReshardLands ==
  /\ \A r \in Peers : rcv[r].done /\ rcv[r].ok =>
       /\ \A p \in Expected(r) : dev[r][p] = Feeders(p, r) \X {p}
       /\ page[r] = Max({plan.rank[p] : p \in Expected(r)})
  /\ \A s \in Senders : snd[s].done /\ snd[s].ok =>
       \A y \in Streams : y[1] = s => rcv[y[3]].landed[y[2]] > 0

(* A settled session owns nothing a copy, a push or an upload still uses: its *)
(* host buffers and arena slots are back, none of its operations runs, and    *)
(* the connections of a send that pushed are closed where they are not kept.  *)
SettledQuiet ==
  /\ \A r \in Peers : rcv[r].done =>
       /\ rcv[r].n = 0 /\ ~rcv[r].lease /\ rcv[r].mgr.lease = <<>>
       /\ \A y \in Streams : y[3] = r => wire[y] \notin {"admitted", "landed", "counted"}
       /\ \A p \in Pools : h2d[r][p].st \in {"none", "ended"}
  /\ \A s \in Senders : snd[s].done =>
       /\ ~snd[s].lease /\ snd[s].mgr.lease = <<>>
       /\ \A p \in Pools : copy[s][p] # "running"
       /\ \A y \in Streams : y[1] = s => wire[y] \in {"none", "ended"}
       /\ snd[s].pushed /\ ~plan.reuse => snd[s].closed

(* Every session settles: by its last push or upload, or by its deadline.     *)
AllSettled == (\A s \in Senders : snd[s].done) /\ \A r \in Peers : rcv[r].done
SessionsSettle == <>AllSettled
=============================================================================
