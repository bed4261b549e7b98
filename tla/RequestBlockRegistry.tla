------------------------ MODULE RequestBlockRegistry ------------------------
(* RequestBlockRegistry (kv_cache/reshard/request_block_registry.cc): which   *)
(* source blocks a request's producers offer, who has claimed them, and who   *)
(* has voted them done.  Every key of the code's maps holds the request id    *)
(* and no operation crosses requests, so the maps here are those of ONE       *)
(* request: rows by work unit, the others by generation (uuid).  Each         *)
(* operation is one critical section of the shared mutex; it takes the        *)
(* registry g and the clock, and yields [g, ok] (ok also stands for the       *)
(* Boolean that CancelIfUnclaimed answers).                                   *)
EXTENDS Integers, Functions

CONSTANT Ttl                    \* ttl_s_
ASSUME TtlPositive == Ttl \in Nat \ {0}

NewRegistry == [rows |-> <<>>, claimed |-> <<>>, units |-> <<>>,
                owners |-> <<>>, votes |-> <<>>, cancelled |-> <<>>]

Drop(f, S) == Restrict(f, DOMAIN f \ S)
Set(f, k, v) == [x \in DOMAIN f \cup {k} |-> IF x = k THEN v ELSE f[x]]

PurgeExpiredRequestBlocks(g, now) ==
  [g EXCEPT !.rows = Drop(@, {u \in DOMAIN @ : @[u].expires <= now})]

(* Claims, tombstones and votes expire on their own; the units and owners of  *)
(* a claim go with the claim.                                                 *)
PurgeExpiredLifecycle(g, now) ==
  LET gone == {k \in DOMAIN g.claimed : g.claimed[k] <= now}
  IN [g EXCEPT !.claimed = Drop(@, gone),
               !.cancelled = Drop(@, {k \in DOMAIN @ : @[k] <= now}),
               !.votes = Drop(@, {k \in DOMAIN @ : @[k].expires <= now}),
               !.units = Drop(@, gone), !.owners = Drop(@, gone)]

Purged(g, now) == PurgeExpiredLifecycle(PurgeExpiredRequestBlocks(g, now), now)

RowsOf(g, k) == {u \in DOMAIN g.rows : g.rows[u].uuid = k}

Retire(g, k) ==
  [g EXCEPT !.rows = Drop(@, RowsOf(g, k)), !.claimed = Drop(@, {k}),
            !.units = Drop(@, {k}), !.owners = Drop(@, {k}),
            !.votes = Drop(@, {k}), !.cancelled = Drop(@, {k})]

(* registered: the directory knows the unit.  A repeated registration of the  *)
(* same payload refreshes its time to live; a different one is a conflict.    *)
Register(g0, now, k, u, blocks, registered) ==
  LET g == Purged(g0, now)
      ok == /\ registered /\ k \notin DOMAIN g.cancelled
            /\ k \notin DOMAIN g.claimed
            /\ u \in DOMAIN g.rows => /\ g.rows[u].uuid = k
                                      /\ g.rows[u].blocks = blocks
      row == [uuid |-> k, blocks |-> blocks, expires |-> now + Ttl]
  IN [g |-> IF ok THEN [g EXCEPT !.rows = Set(@, u, row)] ELSE g, ok |-> ok]

Release(g, now, k) == [g |-> Retire(Purged(g, now), k), ok |-> TRUE]

(* One unit's vote: the last vote of the claimed units retires the            *)
(* generation.  Before the claim only a unit with nothing to send may vote.   *)
Complete(g0, now, k, u) ==
  LET g == Purged(g0, now)
      claimed == k \in DOMAIN g.units
      matches == u \in RowsOf(g, k)
      early == ~claimed /\ matches /\ g.rows[u].blocks
      voted == {u} \cup IF k \in DOMAIN g.votes THEN g.votes[k].units ELSE {}
      counted == [g EXCEPT
                    !.votes = Set(@, k, [units |-> voted, expires |-> now + Ttl])]
  IN [ok |-> ~early,
      g  |-> IF early \/ ~(matches \/ (claimed /\ u \in g.units[k])) THEN g
             ELSE IF claimed /\ g.units[k] \subseteq voted THEN Retire(counted, k)
             ELSE counted]

CancelIfUnclaimed(g0, now, k) ==
  LET g == PurgeExpiredLifecycle(g0, now)
      free == k \notin DOMAIN g.claimed
  IN [ok |-> k \in DOMAIN g.cancelled \/ free,
      g  |-> IF k \in DOMAIN g.cancelled \/ ~free THEN g
             ELSE [Retire(g, k) EXCEPT !.cancelled = Set(@, k, now + Ttl)]]

Status(g0, now, k) ==
  LET g == Purged(g0, now)
  IN CASE k \in DOMAIN g.cancelled -> "cancelled"
       [] k \notin DOMAIN g.cancelled /\ k \in DOMAIN g.claimed -> "claimed"
       [] OTHER -> IF RowsOf(g, k) # {} THEN "registered" ELSE "unknown"

(* The claim: every unit asked for has a row of this generation.  A claim by  *)
(* another attempt stands beside it when it names the same units.  Votes that *)
(* came early may already cover the units, which retires the generation with  *)
(* the snapshot in hand.                                                      *)
LookupAndClaim(g0, now, k, us, owner) ==
  LET g == Purged(g0, now)
      ok == /\ k \notin DOMAIN g.cancelled
            /\ k \in DOMAIN g.units => g.units[k] = us
            /\ us \subseteq RowsOf(g, k)
      voted == k \in DOMAIN g.votes
      own == {owner} \cup IF k \in DOMAIN g.owners THEN g.owners[k] ELSE {}
      c == [g EXCEPT !.claimed = Set(@, k, now + Ttl), !.units = Set(@, k, us),
                     !.owners = Set(@, k, own),
                     !.votes = IF voted THEN [@ EXCEPT ![k].expires = now + Ttl]
                               ELSE @]
  IN [ok |-> ok,
      g  |-> IF ~ok THEN g
             ELSE IF voted /\ us \subseteq g.votes[k].units THEN Retire(c, k)
             ELSE c]

AbandonClaim_ForAll(g, k, owner) ==
  [g EXCEPT !.claimed = Drop(@, {k}), !.units = Drop(@, {k}),
            !.owners = Drop(@, {k})]

(* An attempt gives its claim up; the last owner leaving frees it. *)
AbandonClaim(g, k, owner) ==
  IF k \notin DOMAIN g.claimed \/ k \notin DOMAIN g.owners
     \/ owner \notin g.owners[k] THEN g
  ELSE IF g.owners[k] = {owner}
       THEN [g EXCEPT !.claimed = Drop(@, {k}), !.units = Drop(@, {k}),
                      !.owners = Drop(@, {k})]
       ELSE [g EXCEPT !.owners[k] = @ \ {owner}]

(* A work unit registered again: its physical block ids mean nothing now. *)
InvalidateUnit(g, u) == [g EXCEPT !.rows = Drop(@, {u})]
=============================================================================
