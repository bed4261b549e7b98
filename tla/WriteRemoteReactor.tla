------------------------- MODULE WriteRemoteReactor -------------------------
(***************************************************************************)
(* One WriteRemote call at the destination, at the grain of its locks:     *)
(* WriteRemoteServerReactor and its gate (kv_cache_store_service.cc)       *)
(* between the gRPC handler that answers, the thread that ends the         *)
(* operation and sends the result, gRPC's own callbacks, and the           *)
(* destructor of the service.  The offer is accepted, answered from the    *)
(* index, or refused; only an accepted one has an operation and a gate.    *)
(*                                                                         *)
(* gRPC is modelled by its contract: operations started before the handler *)
(* has returned wait for it; OnDone comes once, after a finishing          *)
(* operation, when the write is over and no other callback runs.           *)
(***************************************************************************)
EXTENDS Naturals, Sequences

CONSTANT None            \* nobody holds the gate

VARIABLES handler,       \* the gRPC handler
          sender,        \* the thread that makes the operation terminal
          destroyer,     \* ~KVCacheStoreServiceImpl
          callback,      \* OnWriteDone of the ack
          cancel,        \* OnCancel
          opgate,        \* op->reactor_gate is set
          gate,          \* gate->reactor is set
          holder,        \* who holds gate->mu
          ack_written, has_result, finished,   \* the reactor, under its mu_
          started,       \* operations started on the call
          write,         \* gRPC's view of the ack write
          deleted        \* the reactor has deleted itself

threads == <<handler, sender, destroyer, callback, cancel>>
fields == <<ack_written, has_result, finished>>
grpc == <<started, write, deleted>>
vars == <<threads, opgate, gate, holder, fields, grpc>>

Bound == handler = "returned"
Start(name) == started' = Append(started, name)
FinishStarted == \E i \in DOMAIN started : started[i] # "ack"

-----------------------------------------------------------------------------
(* The handler. *)

\* An existence answer: StartAckAndFinish.
AnswerExists ==
  /\ handler = "exists"
  /\ handler' = "acked" /\ finished' = TRUE
  /\ Start("answer")
  /\ UNCHANGED <<sender, destroyer, callback, cancel, opgate, gate, holder, ack_written,
                 has_result, write, deleted>>

\* A refusal calls Finish itself.
AnswerRefused ==
  /\ handler = "refused"
  /\ handler' = "acked"
  /\ Start("refusal")
  /\ UNCHANGED <<sender, destroyer, callback, cancel, opgate, gate, holder, fields, write, deleted>>

\* The operation is in write_ops_ before its gate is.
Attach ==
  /\ handler = "recorded"
  /\ handler' = "attached" /\ opgate' = TRUE
  /\ UNCHANGED <<sender, destroyer, callback, cancel, gate, holder, fields, grpc>>

\* The ack goes out through the gate, ...
AckEnter ==
  /\ handler = "attached" /\ holder = None
  /\ IF gate THEN handler' = "in" /\ holder' = "handler"
             ELSE handler' = "acked" /\ UNCHANGED holder
  /\ UNCHANGED <<sender, destroyer, callback, cancel, opgate, gate, fields, grpc>>

\* ... unless the call is finished already.
StartAck ==
  /\ handler = "in"
  /\ handler' = IF finished THEN "acked" ELSE "write"
  /\ holder' = IF finished THEN None ELSE holder
  /\ UNCHANGED <<sender, destroyer, callback, cancel, opgate, gate, fields, grpc>>

AckWrite ==
  /\ handler = "write"
  /\ handler' = "acked" /\ holder' = None
  /\ Start("ack") /\ write' = "running"
  /\ UNCHANGED <<sender, destroyer, callback, cancel, opgate, gate, fields, deleted>>

Return ==
  /\ handler = "acked"
  /\ handler' = "returned"
  /\ UNCHANGED <<sender, destroyer, callback, cancel, opgate, gate, holder, fields, grpc>>

-----------------------------------------------------------------------------
(* The end of the operation: Finish, or the deadline thread. *)

\* The gate is moved out of the record; before Attach there is none yet, and
\* nobody will hear the result on this call.
Terminal ==
  /\ sender = "idle"
  /\ sender' = IF opgate THEN "took" ELSE "nobody"
  /\ opgate' = FALSE
  /\ UNCHANGED <<handler, destroyer, callback, cancel, gate, holder, fields, grpc>>

SendEnter ==
  /\ sender = "took" /\ holder = None
  /\ IF gate THEN sender' = "in" /\ holder' = "sender"
             ELSE sender' = "sent" /\ UNCHANGED holder
  /\ UNCHANGED <<handler, destroyer, callback, cancel, opgate, gate, fields, grpc>>

\* SendResultAndFinish: at once when the ack is written, else left to
\* OnWriteDone.
SendResult ==
  /\ sender = "in" /\ has_result' = TRUE
  /\ IF ack_written /\ ~finished
     THEN sender' = "write" /\ finished' = TRUE /\ UNCHANGED holder
     ELSE sender' = "sent" /\ holder' = None /\ UNCHANGED finished
  /\ UNCHANGED <<handler, destroyer, callback, cancel, opgate, gate, ack_written, grpc>>

SendWrite ==
  /\ sender = "write"
  /\ sender' = "sent" /\ holder' = None
  /\ Start("result")
  /\ UNCHANGED <<handler, destroyer, callback, cancel, opgate, gate, fields, write, deleted>>

-----------------------------------------------------------------------------
(* The destructor ends the calls whose gate is still in the record. *)

Destroy ==
  /\ destroyer = "idle"
  /\ destroyer' = IF opgate THEN "took" ELSE "done"
  /\ opgate' = FALSE
  /\ UNCHANGED <<handler, sender, callback, cancel, gate, holder, fields, grpc>>

DestroyEnter ==
  /\ destroyer = "took" /\ holder = None
  /\ IF gate THEN destroyer' = "in" /\ holder' = "destroyer"
             ELSE destroyer' = "done" /\ UNCHANGED holder
  /\ UNCHANGED <<handler, sender, callback, cancel, opgate, gate, fields, grpc>>

DestroyDecide ==
  /\ destroyer = "in" /\ finished' = TRUE
  /\ IF finished THEN destroyer' = "done" /\ holder' = None
                 ELSE destroyer' = "finish" /\ UNCHANGED holder
  /\ UNCHANGED <<handler, sender, callback, cancel, opgate, gate, ack_written, has_result, grpc>>

DestroyFinish ==
  /\ destroyer = "finish"
  /\ destroyer' = "done" /\ holder' = None
  /\ Start("error")
  /\ UNCHANGED <<handler, sender, callback, cancel, opgate, gate, fields, write, deleted>>

-----------------------------------------------------------------------------
(* gRPC's callbacks. *)

\* OnWriteDone up to its decision; it owes the result, or an error.
OnWriteDone(ok) ==
  /\ Bound /\ write = "running"
  /\ write' = IF ok THEN "ok" ELSE "failed"
  /\ ack_written' = (ack_written \/ ok)
  /\ callback' = IF finished THEN "idle"
                 ELSE IF ~ok THEN "error"
                 ELSE IF has_result THEN "result" ELSE "idle"
  /\ finished' = (finished \/ ~ok \/ has_result)
  /\ UNCHANGED <<handler, sender, destroyer, cancel, opgate, gate, holder, has_result,
                 started, deleted>>

OnWriteDoneStarts ==
  /\ callback \in {"error", "result"}
  /\ Start(callback)
  /\ callback' = "idle"
  /\ UNCHANGED <<handler, sender, destroyer, cancel, opgate, gate, holder, fields, write, deleted>>

\* The source gave up, its deadline passed, or the connection broke.
OnCancel ==
  /\ Bound /\ cancel = "none" /\ ~deleted
  /\ cancel' = IF finished THEN "done" ELSE "finish"
  /\ finished' = TRUE
  /\ UNCHANGED <<handler, sender, destroyer, callback, opgate, gate, holder, ack_written,
                 has_result, grpc>>

OnCancelFinishes ==
  /\ cancel = "finish"
  /\ Start("error")
  /\ cancel' = "done"
  /\ UNCHANGED <<handler, sender, destroyer, callback, opgate, gate, holder, fields, write, deleted>>

Quiet == Bound /\ FinishStarted /\ write # "running" /\ callback = "idle" /\ cancel # "finish"

\* Mutant of OnDone: does not wait for those inside the gate.
OnDone_NoLock ==
  /\ Quiet /\ ~deleted
  /\ gate' = FALSE /\ deleted' = TRUE
  /\ UNCHANGED <<threads, opgate, holder, fields, started, write>>

OnDone ==
  /\ Quiet /\ ~deleted /\ holder = None
  /\ gate' = FALSE /\ deleted' = TRUE
  /\ UNCHANGED <<threads, opgate, holder, fields, started, write>>

-----------------------------------------------------------------------------
Init ==
  /\ handler \in {"recorded", "exists", "refused"} /\ destroyer = "idle"
  /\ sender = IF handler = "recorded" THEN "idle" ELSE "nobody"
  /\ gate = (handler = "recorded")
  /\ callback = "idle" /\ cancel = "none"
  /\ opgate = FALSE /\ holder = None
  /\ ack_written = FALSE /\ has_result = FALSE /\ finished = FALSE
  /\ started = <<>> /\ write = "none" /\ deleted = FALSE

Handler == AnswerExists \/ AnswerRefused \/ Attach \/ AckEnter \/ StartAck \/ AckWrite \/ Return
Sender == SendEnter \/ SendResult \/ SendWrite
Destroyer == DestroyEnter \/ DestroyDecide \/ DestroyFinish
Callbacks ==
  \/ \E ok \in BOOLEAN : OnWriteDone(ok)
  \/ OnWriteDoneStarts
  \/ OnCancelFinishes
  \/ OnDone

Next == Handler \/ Terminal \/ Sender \/ Destroy \/ Destroyer \/ Callbacks \/ OnCancel

\* Threads and gRPC callbacks run on; the operation ends sooner or later (the
\* deadline thread sees to that).  A cancellation or a destructor may never come.
Fairness ==
  /\ WF_vars(Handler) /\ WF_vars(Terminal) /\ WF_vars(Sender)
  /\ WF_vars(Destroyer) /\ WF_vars(Callbacks)

Spec == Init /\ [][Next]_vars /\ Fairness

-----------------------------------------------------------------------------
(* Properties *)

Inside == [handler   |-> handler \in {"in", "write"},
           sender    |-> sender \in {"in", "write"},
           destroyer |-> destroyer \in {"in", "finish"}]

\* Every variable keeps its type, and gate->mu is held exactly by the one
\* thread that is inside the reactor through the gate.
TypeOK ==
  /\ handler \in {"exists", "refused", "recorded", "attached", "in", "write", "acked", "returned"}
  /\ sender \in {"idle", "nobody", "took", "in", "write", "sent"}
  /\ destroyer \in {"idle", "took", "in", "finish", "done"}
  /\ callback \in {"idle", "error", "result"} /\ cancel \in {"none", "finish", "done"}
  /\ {opgate, gate, ack_written, has_result, finished, deleted} \subseteq BOOLEAN
  /\ started \in Seq({"ack", "answer", "refusal", "result", "error"})
  /\ write \in {"none", "running", "ok", "failed"}
  /\ \A t \in DOMAIN Inside : Inside[t] <=> holder = t

\* gRPC's rules are kept, as the reactor's finished_ ("True once Finish was
\* requested") is there to ensure: the ack is written at most once, one operation
\* finishes the call and nothing is started after it, and the result is written
\* only after the ack has gone out.  Refusals are left out: they call Finish
\* without setting finished_, so that OnCancel may finish the call again.
GrpcContract ==
  (\A i \in DOMAIN started : started[i] # "refusal") =>
    /\ \A i \in DOMAIN started : started[i] # "ack" => i = Len(started)
    /\ Len(started) <= 2
    /\ \A i \in DOMAIN started : started[i] = "result" => write = "ok"

\* Nobody is inside the reactor, or about to start an operation on it, once it
\* has deleted itself.
NoUseAfterDelete ==
  deleted => /\ \A t \in DOMAIN Inside : ~Inside[t]
             /\ callback = "idle" /\ cancel # "finish"

\* A result that found the call open is written, also when it came before the
\* ack was sent, unless the call was cancelled, torn down or its ack failed.
HasResult == sender \in {"took", "in", "write", "sent"}
Delivered == \/ \E i \in DOMAIN started : started[i] = "result"
             \/ cancel # "none" \/ write = "failed" \/ destroyer # "idle"
ResultDelivered == HasResult ~> Delivered

\* Every call that was finished, or that the source's deadline cancels, frees
\* its reactor: also when the operation ended before it had a gate, and
\* whatever raced with the cancellation.
Ending == finished \/ cancel # "none"
CallEnds == Ending ~> deleted

=============================================================================
