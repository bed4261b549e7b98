--------------------------- MODULE MetadataTable ---------------------------
(***************************************************************************)
(* What the crash-surviving metadata table promises to the host backend:   *)
(* the bindings of blocks to hashes in the order in which they were made.  *)
(* HostStore's manifest is such a table; KVCacheMetadata implements it.    *)
(***************************************************************************)
EXTENDS Sequences

CONSTANTS Blocks, Hashes, None

VARIABLES table,     \* bindings, oldest first
          pending    \* the binding being recorded, or None

vars == <<table, pending>>

Binding(b, h) == [block |-> b, hash |-> h]
Without(b) == SelectSeq(table, LAMBDA e : e.block # b)

Init == table = <<>> /\ pending = None

\* Recording a binding takes two steps: the old binding of the block goes,
\* then the new one appears, whole and as the most recent.
Ask(b, h) ==
  /\ pending = None
  /\ pending' = Binding(b, h)
  /\ table' = Without(b)

Commit ==
  /\ pending # None
  /\ table' = Append(table, pending)
  /\ pending' = None

Drop(b) == table' = Without(b) /\ UNCHANGED pending

Wipe == table' = <<>> /\ UNCHANGED pending

\* A crash loses only the binding being recorded.
Crash == pending' = None /\ UNCHANGED table

Next ==
  \/ \E b \in Blocks, h \in Hashes : Ask(b, h)
  \/ Commit
  \/ \E b \in Blocks : Drop(b)
  \/ Wipe
  \/ Crash

Spec == Init /\ [][Next]_vars

=============================================================================
