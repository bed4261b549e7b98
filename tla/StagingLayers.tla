---------------------------- MODULE StagingLayers ----------------------------
(* StagingLayerManager (kv_cache/transfer_receive_session.cc): a session's   *)
(* leases of host layer buffers.  A unit (a layer) holds at most one slot;   *)
(* slots are handed out first in, first out.  The blocking of Acquire is the *)
(* guard of the action that calls it; here are its effects.                  *)
EXTENDS Integers, Sequences, Functions, SequencesExt

(* A manager over n slots: free_, leases_ and shutdown_. *)
NewStaging(n) == [free |-> [i \in 1..n |-> i], lease |-> <<>>, down |-> FALSE]

Leased(m, u) == u \in DOMAIN m.lease

(* Acquire stops waiting for unit u (ready in the code); it then gives a     *)
(* slot unless the manager is shut down.                                     *)
AcquireReady(m, u) == m.down \/ Leased(m, u) \/ m.free # <<>>

AcquireSlot(m, u) ==
  IF Leased(m, u) THEN m
  ELSE [m EXCEPT !.free = Tail(@), !.lease = (u :> Head(m.free)) @@ @]

(* Releasing a unit that holds no slot does nothing. *)
ReleaseSlot(m, u) ==
  IF Leased(m, u)
  THEN [m EXCEPT !.free = Append(@, m.lease[u]),
                 !.lease = Restrict(@, DOMAIN @ \ {u})]
  ELSE m

(* The map is walked in an unspecified order; the slots are not used again,  *)
(* the manager being shut down when this is called.                          *)
ReleaseAllSlots(m) ==
  [m EXCEPT !.free = @ \o SetToSeq(Range(m.lease)), !.lease = <<>>]

ShutdownStaging(m) == [m EXCEPT !.down = TRUE]
=============================================================================
