-------------------------- MODULE KVCacheMetadata --------------------------
(***************************************************************************)
(* The metadata table of kv_cache_metadata.cc in its shared-memory segment *)
(* (kv_cache_metadata_shm.cc), with the recovery that reads it             *)
(* (HostOffloadBackend::RecoverFromLocalManifest), at the grain of the     *)
(* stores into the segment: the engine may crash between any two of them.  *)
(*                                                                         *)
(* The plain stores of Set happen in any order between the two stores of   *)
(* valid.  The memset of Format clears the header and the slots in any     *)
(* order, a slot at once.  A slot whose length and hash come from          *)
(* different calls reads as Torn.                                          *)
(***************************************************************************)
EXTENDS Naturals, Sequences, FiniteSets, SequencesExt

CONSTANTS NumBlocks, Hashes, Nothing, Torn,
          TooLong,       \* the hashes longer than kMaxHashLength
          MaxSeq,        \* bound: calls of Set per incarnation
          MaxCrashes     \* bound: crashes

VARIABLES header,        \* the header carries the expected magic and geometry
          slot,          \* the entries
          op,            \* the Set in flight, or Nothing
          next,          \* next_metadata_seq_
          phase,         \* of the engine
          todo,          \* what is left to clear by Format or by recovery
          kept,          \* during recovery, the bindings the new index holds
          crashes

segVars == <<header, slot, op, next, phase, todo, kept, crashes>>
segment == <<header, slot>>

Blocks == 0 .. NumBlocks - 1
Fields == {"seq", "len", "hash"}
Zeroed == [valid |-> FALSE, seq |-> 0, len |-> Nothing, hash |-> Nothing]
Binding(b, h) == [block |-> b, hash |-> h]

ReadHash(b) == IF slot[b].len = slot[b].hash THEN slot[b].hash ELSE Torn
ValidEntries == {b \in Blocks : slot[b].valid /\ slot[b].len # Nothing}

-----------------------------------------------------------------------------
(* The operations of a running engine, under the backend's lock. *)

\* Mutant of SetBegin: the old binding stays valid while it is overwritten.
SetBegin_KeepsValid(b, h) ==
  /\ phase = "up" /\ op = Nothing /\ next < MaxSeq /\ h \notin TooLong
  /\ op' = [block |-> b, hash |-> h, seq |-> next, left |-> Fields]
  /\ next' = next + 1
  /\ UNCHANGED <<segment, phase, todo, kept, crashes>>

\* Set: invalidate the slot first ...
SetBegin(b, h) ==
  /\ phase = "up" /\ op = Nothing /\ next < MaxSeq /\ h \notin TooLong
  /\ slot' = [slot EXCEPT ![b].valid = FALSE]
  /\ op' = [block |-> b, hash |-> h, seq |-> next, left |-> Fields]
  /\ next' = next + 1
  /\ UNCHANGED <<header, phase, todo, kept, crashes>>

\* (a hash that does not fit is refused before anything is written, but the
\* stamp is spent)
SetRefused(h) ==
  /\ phase = "up" /\ op = Nothing /\ next < MaxSeq /\ h \in TooLong
  /\ next' = next + 1
  /\ UNCHANGED <<segment, op, phase, todo, kept, crashes>>

\* ... then write the fields ...
SetField(f) ==
  /\ op # Nothing /\ f \in op.left
  /\ slot' = [slot EXCEPT ![op.block] =
                CASE f = "seq"  -> [@ EXCEPT !.seq = op.seq]
                  [] f = "len"  -> [@ EXCEPT !.len = op.hash]
                  [] f = "hash" -> [@ EXCEPT !.hash = op.hash]]
  /\ op' = [op EXCEPT !.left = @ \ {f}]
  /\ UNCHANGED <<header, next, phase, todo, kept, crashes>>

\* ... and commit last.
SetCommit ==
  /\ op # Nothing /\ op.left = {}
  /\ slot' = [slot EXCEPT ![op.block].valid = TRUE]
  /\ op' = Nothing
  /\ UNCHANGED <<header, next, phase, todo, kept, crashes>>

Clear(b) ==
  /\ phase = "up" /\ op = Nothing
  /\ slot' = [slot EXCEPT ![b].valid = FALSE]
  /\ UNCHANGED <<header, op, next, phase, todo, kept, crashes>>

-----------------------------------------------------------------------------
(* Restart. *)

\* AttachOrFormat: a valid header is attached to, any other segment is
\* unlinked and created anew, all zero, to be formatted.
AttachOrFormat ==
  /\ phase = "down"
  /\ IF header
     THEN phase' = "recover" /\ UNCHANGED slot
     ELSE phase' = "format" /\ slot' = [b \in Blocks |-> Zeroed]
  /\ UNCHANGED <<header, op, next, todo, kept, crashes>>

\* Format's memset, over a live table when recovery failed ...
Zero(piece) ==
  /\ phase = "format" /\ piece \in todo
  /\ todo' = todo \ {piece}
  /\ IF piece = NumBlocks
     THEN header' = FALSE /\ UNCHANGED slot
     ELSE slot' = [slot EXCEPT ![piece] = Zeroed] /\ UNCHANGED header
  /\ UNCHANGED <<op, next, phase, kept, crashes>>

\* ... then the header.
WriteHeader ==
  /\ phase = "format" /\ todo = {}
  /\ header' = TRUE
  /\ phase' = "up"
  /\ UNCHANGED <<slot, op, next, todo, kept, crashes>>

\* The scan in block order that keeps the newest slot of each hash.
Newest ==
  LET better(m, b) ==
        LET h == ReadHash(b)
        IN IF h \in DOMAIN m
           THEN IF slot[b].seq > slot[m[h]].seq THEN [m EXCEPT ![h] = b] ELSE m
           ELSE [g \in DOMAIN m \cup {h} |-> IF g = h THEN b ELSE m[g]]
      m == FoldLeft(better, [h \in {} |-> 0], SetToSortSeq(ValidEntries, <))
  IN {m[h] : h \in DOMAIN m}

BySeq(bs) == SetToSortSeq(bs, LAMBDA b, c : slot[b].seq < slot[c].seq)
Bindings(bs) == [i \in DOMAIN bs |-> Binding(bs[i], ReadHash(bs[i]))]

\* Recovery: rebuild the index in the order of the stamps and resume them.
Recover ==
  /\ phase = "recover" /\ ValidEntries # {}
  /\ kept' = Bindings(BySeq(Newest))
  /\ next' = slot[Last(BySeq(Newest))].seq + 1
  /\ todo' = ValidEntries \ Newest
  /\ phase' = "stale"
  /\ UNCHANGED <<segment, op, crashes>>

RecoverEmpty ==
  /\ phase = "recover" /\ ValidEntries = {}
  /\ phase' = "up"
  /\ UNCHANGED <<segment, op, next, todo, kept, crashes>>

\* The blocks could not be claimed: back to a cold start through Reformat.
RecoverFailed ==
  /\ phase = "recover" /\ ValidEntries # {}
  /\ phase' = "format"
  /\ todo' = Blocks \cup {NumBlocks}
  /\ UNCHANGED <<segment, op, next, kept, crashes>>

\* Mutant of ClearStale: the stale slots are skipped and stay valid.
ClearStale_Skips ==
  /\ phase = "stale" /\ todo # {}
  /\ todo' = {}
  /\ UNCHANGED <<segment, op, next, phase, kept, crashes>>

\* Older slots of a recovered hash are cleared, in block order.
ClearStale ==
  /\ phase = "stale" /\ todo # {}
  /\ LET b == CHOOSE b \in todo : \A c \in todo : b <= c
     IN slot' = [slot EXCEPT ![b].valid = FALSE] /\ todo' = todo \ {b}
  /\ UNCHANGED <<header, op, next, phase, kept, crashes>>

RecoverDone ==
  /\ phase = "stale" /\ todo = {}
  /\ phase' = "up" /\ kept' = <<>>
  /\ UNCHANGED <<segment, op, next, todo, crashes>>

\* The engine dies; the segment survives.
Crash ==
  /\ phase # "down" /\ crashes < MaxCrashes
  /\ crashes' = crashes + 1
  /\ phase' = "down" /\ op' = Nothing /\ next' = 0 /\ todo' = {} /\ kept' = <<>>
  /\ UNCHANGED segment

-----------------------------------------------------------------------------
SegInit ==
  /\ header = FALSE /\ slot = [b \in Blocks |-> Zeroed]
  /\ op = Nothing /\ next = 0 /\ todo = {} /\ kept = <<>>
  /\ phase = "down" /\ crashes = 0

SegNext ==
  \/ \E b \in Blocks, h \in Hashes : SetBegin(b, h)
  \/ \E h \in Hashes : SetRefused(h)
  \/ \E f \in Fields : SetField(f)
  \/ SetCommit
  \/ \E b \in Blocks : Clear(b)
  \/ AttachOrFormat
  \/ \E piece \in 0 .. NumBlocks : Zero(piece)
  \/ WriteHeader
  \/ Recover
  \/ RecoverEmpty
  \/ RecoverFailed
  \/ ClearStale
  \/ RecoverDone
  \/ Crash

SegSpec == SegInit /\ [][SegNext]_segVars

-----------------------------------------------------------------------------
(* Properties *)

\* The table a restart would find: the valid slots in the order of their
\* stamps, and nothing without a header.
Table == IF header THEN Bindings(BySeq(ValidEntries)) ELSE <<>>

Promise == INSTANCE MetadataTable
  WITH None <- Nothing, table <- Table,
       pending <- IF op = Nothing THEN Nothing ELSE Binding(op.block, op.hash)

\* The segment implements the table the host backend relies on: whatever the
\* point of a crash, in Set, in Format or in recovery itself, a restart finds
\* whole bindings that were asked for, in the order in which they were made,
\* and of the finished ones it misses none.
ImplementsTable == Promise!Spec

\* Stamps are never reused while a slot carries them, also across recoveries:
\* recency on recovery is well defined, and new bindings are the newest.
StampsDistinct ==
  phase \in {"stale", "up"} => \A b \in ValidEntries :
    /\ slot[b].seq < next
    /\ \A c \in ValidEntries \ {b} : slot[b].seq # slot[c].seq

\* Recovery keeps the last binding of every hash, and ends with a table that
\* is exactly the index it has rebuilt.
RecoversNewest ==
  /\ [][phase = "recover" /\ phase' = "stale" =>
          kept' = SelectSeq(Table, LAMBDA e : \A i \in DOMAIN Table, j \in DOMAIN Table :
                                     Table[i] = e /\ Table[j].hash = e.hash => j <= i)]_segVars
  /\ [][phase = "stale" /\ phase' = "up" => Table = kept]_segVars

=============================================================================
