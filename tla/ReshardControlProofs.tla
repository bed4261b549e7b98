------------------------ MODULE ReshardControlProofs ------------------------
(***************************************************************************)
(* Proofs about the reshard control plane: a generation whose cancellation *)
(* was confirmed is used by no attempt, an attempt at work keeps its claim *)
(* and the rows it claimed, and no sender is dispatched before all         *)
(* receivers are armed.                                                    *)
(*                                                                         *)
(* The claim of an attempt at work is safe for three reasons: it does not  *)
(* expire (the site is prompt), the others that leave it do not own it     *)
(* alone, and the votes that would retire it cannot all be in while a      *)
(* source of the attempt still has a sub-plan to send.                     *)
(***************************************************************************)
EXTENDS ReshardControl, TLAPS

(* ------------------------------ the registry ------------------------------ *)

(* A registry has its six maps; units and owners go with the claims; a claim  *)
(* is one of all units; a tombstone leaves no row.                            *)
Shape(g) ==
  /\ g = [rows |-> g.rows, claimed |-> g.claimed, units |-> g.units,
          owners |-> g.owners, votes |-> g.votes, cancelled |-> g.cancelled]
  /\ \A u \in DOMAIN g.rows : g.rows[u].expires \in Int
  /\ DOMAIN g.units = DOMAIN g.claimed /\ DOMAIN g.owners = DOMAIN g.claimed
  /\ \A k \in DOMAIN g.claimed : g.claimed[k] \in Int /\ g.units[k] = site.units
  /\ \A k \in DOMAIN g.cancelled : g.cancelled[k] \in Int /\ RowsOf(g, k) = {}
  /\ \A k \in DOMAIN g.votes :
       g.votes[k] = [units |-> g.votes[k].units, expires |-> g.votes[k].expires]

(* The attempt i holds the claim of generation k, and its rows when no unit   *)
(* of the site restarts.                                                      *)
HasClaim(g, t, k, i) ==
  /\ k \in DOMAIN g.claimed /\ g.claimed[k] > t
  /\ i \in g.owners[k]
  /\ k \notin DOMAIN g.cancelled
  /\ ~site.restart => \A u \in site.units : /\ u \in DOMAIN g.rows
                                            /\ g.rows[u].uuid = k
                                            /\ g.rows[u].expires > t

(* What h has, g has. *)
Below(h, g) ==
  /\ \A u \in DOMAIN h.rows : u \in DOMAIN g.rows /\ h.rows[u] = g.rows[u]
  /\ \A k \in DOMAIN h.votes : k \in DOMAIN g.votes /\ h.votes[k].units = g.votes[k].units

(* The two purges: expired entries go, the rest stays. *)
LEMMA LifecyclePurge ==
  ASSUME NEW g, NEW t \in Nat, Shape(g), NEW h, h = PurgeExpiredLifecycle(g, t)
  PROVE  /\ Shape(h) /\ h.rows = g.rows
         /\ DOMAIN h.claimed = {k \in DOMAIN g.claimed : g.claimed[k] > t}
         /\ \A k \in DOMAIN h.claimed : /\ h.claimed[k] = g.claimed[k]
                                        /\ h.owners[k] = g.owners[k]
         /\ DOMAIN h.cancelled = {k \in DOMAIN g.cancelled : g.cancelled[k] > t}
         /\ \A k \in DOMAIN h.votes : k \in DOMAIN g.votes /\ h.votes[k] = g.votes[k]
<1> DEFINE gone == {k \in DOMAIN g.claimed : g.claimed[k] <= t}
           dead == {k \in DOMAIN g.cancelled : g.cancelled[k] <= t}
           old == {k \in DOMAIN g.votes : g.votes[k].expires <= t}
<1>1. h = [rows |-> g.rows, claimed |-> Drop(g.claimed, gone), units |-> Drop(g.units, gone),
           owners |-> Drop(g.owners, gone), votes |-> Drop(g.votes, old),
           cancelled |-> Drop(g.cancelled, dead)]
  BY ZenonT(30) DEF PurgeExpiredLifecycle, Shape
<1>2. /\ h.rows = g.rows /\ h.claimed = Drop(g.claimed, gone) /\ h.units = Drop(g.units, gone)
      /\ h.owners = Drop(g.owners, gone) /\ h.votes = Drop(g.votes, old)
      /\ h.cancelled = Drop(g.cancelled, dead)
  BY <1>1
<1>0. h = [rows |-> h.rows, claimed |-> h.claimed, units |-> h.units,
           owners |-> h.owners, votes |-> h.votes, cancelled |-> h.cancelled]
  BY <1>1, ZenonT(30)
<1> HIDE DEF gone, dead, old
<1>3. DOMAIN h.claimed = DOMAIN g.claimed \ gone /\ \A k \in DOMAIN h.claimed : h.claimed[k] = g.claimed[k]
  BY <1>2, ZenonT(30) DEF Drop, Restrict
<1>4. DOMAIN h.units = DOMAIN g.units \ gone /\ \A k \in DOMAIN h.units : h.units[k] = g.units[k]
  BY <1>2, ZenonT(30) DEF Drop, Restrict
<1>5. DOMAIN h.owners = DOMAIN g.owners \ gone /\ \A k \in DOMAIN h.owners : h.owners[k] = g.owners[k]
  BY <1>2, ZenonT(30) DEF Drop, Restrict
<1>6. DOMAIN h.votes = DOMAIN g.votes \ old /\ \A k \in DOMAIN h.votes : h.votes[k] = g.votes[k]
  BY <1>2, ZenonT(30) DEF Drop, Restrict
<1>7. DOMAIN h.cancelled = DOMAIN g.cancelled \ dead /\ \A k \in DOMAIN h.cancelled : h.cancelled[k] = g.cancelled[k]
  BY <1>2, ZenonT(30) DEF Drop, Restrict
<1>8. \A k : RowsOf(h, k) = RowsOf(g, k)
  BY <1>2, ZenonT(30) DEF RowsOf
<1>9. DOMAIN h.claimed = {k \in DOMAIN g.claimed : g.claimed[k] > t}
  BY <1>3 DEF Shape, gone
<1>10. DOMAIN h.cancelled = {k \in DOMAIN g.cancelled : g.cancelled[k] > t}
  BY <1>7 DEF Shape, dead
<1>11. Shape(h)
  BY <1>0, <1>2, <1>3, <1>4, <1>5, <1>6, <1>7, <1>8 DEF Shape
<1> QED
  BY <1>2, <1>3, <1>5, <1>6, <1>9, <1>10, <1>11, ZenonT(30) DEF Shape

(* Purged: what is left was there, and a tombstone that lives keeps its place. *)
LEMMA PurgeEffect ==
  ASSUME NEW g, NEW t \in Nat, Shape(g), NEW h, h = Purged(g, t)
  PROVE  /\ Shape(h) /\ Below(h, g)
         /\ \A u \in DOMAIN g.rows : g.rows[u].expires > t => u \in DOMAIN h.rows
         /\ \A u \in DOMAIN h.rows : h.rows[u].expires > t
         /\ DOMAIN h.claimed = {k \in DOMAIN g.claimed : g.claimed[k] > t}
         /\ \A k \in DOMAIN h.claimed : /\ h.claimed[k] = g.claimed[k]
                                        /\ h.owners[k] = g.owners[k]
         /\ DOMAIN h.cancelled = {k \in DOMAIN g.cancelled : g.cancelled[k] > t}
<1> DEFINE dead == {u \in DOMAIN g.rows : g.rows[u].expires <= t}
           f == PurgeExpiredRequestBlocks(g, t)
<1>1. f = [rows |-> Drop(g.rows, dead), claimed |-> g.claimed, units |-> g.units,
           owners |-> g.owners, votes |-> g.votes, cancelled |-> g.cancelled]
  BY DEF PurgeExpiredRequestBlocks, Shape
<1> HIDE DEF f
<1>2. /\ f.rows = Drop(g.rows, dead) /\ f.claimed = g.claimed /\ f.units = g.units
      /\ f.owners = g.owners /\ f.votes = g.votes /\ f.cancelled = g.cancelled
  BY <1>1, ZenonT(30)
<1>3. f = [rows |-> f.rows, claimed |-> f.claimed, units |-> f.units,
           owners |-> f.owners, votes |-> f.votes, cancelled |-> f.cancelled]
  BY <1>1, ZenonT(30)
<1> HIDE DEF dead
<1>4. DOMAIN f.rows = DOMAIN g.rows \ dead /\ \A u \in DOMAIN f.rows : f.rows[u] = g.rows[u]
  BY <1>2, ZenonT(30) DEF Drop, Restrict
<1>5. DOMAIN f.rows = {u \in DOMAIN g.rows : g.rows[u].expires > t}
  BY <1>4 DEF Shape, dead
<1>6. \A k : RowsOf(f, k) \subseteq RowsOf(g, k)
  BY <1>4, ZenonT(30) DEF RowsOf
<1>7. Shape(f)
  BY <1>2, <1>3, <1>4, <1>6, ZenonT(30) DEF Shape
<1>8. h = PurgeExpiredLifecycle(f, t)
  BY ZenonT(30) DEF Purged, f
<1>9. /\ Shape(h) /\ h.rows = f.rows
      /\ DOMAIN h.claimed = {k \in DOMAIN f.claimed : f.claimed[k] > t}
      /\ \A k \in DOMAIN h.claimed : h.claimed[k] = f.claimed[k] /\ h.owners[k] = f.owners[k]
      /\ DOMAIN h.cancelled = {k \in DOMAIN f.cancelled : f.cancelled[k] > t}
      /\ \A k \in DOMAIN h.votes : k \in DOMAIN f.votes /\ h.votes[k] = f.votes[k]
  BY <1>7, <1>8, LifecyclePurge
<1>10. Below(h, g)
  BY <1>2, <1>4, <1>9, ZenonT(30) DEF Below
<1> QED
  BY <1>2, <1>4, <1>5, <1>9, <1>10

(* A claim that has not expired outlives a purge. *)
LEMMA PurgeKeeps ==
  ASSUME NEW g, NEW t \in Nat, Shape(g), NEW k, NEW i, HasClaim(g, t, k, i)
  PROVE  HasClaim(Purged(g, t), t, k, i)
<1> DEFINE h == Purged(g, t)
<1> HIDE DEF h
<1>1. /\ Below(h, g)
      /\ \A u \in DOMAIN g.rows : g.rows[u].expires > t => u \in DOMAIN h.rows
      /\ DOMAIN h.claimed = {n \in DOMAIN g.claimed : g.claimed[n] > t}
      /\ \A n \in DOMAIN h.claimed : h.claimed[n] = g.claimed[n] /\ h.owners[n] = g.owners[n]
      /\ DOMAIN h.cancelled = {n \in DOMAIN g.cancelled : g.cancelled[n] > t}
  BY PurgeEffect DEF h
<1>2. HasClaim(h, t, k, i)
  BY <1>1, ZenonT(30) DEF HasClaim, Below
<1> QED
  BY <1>2, ZenonT(30) DEF h

(* Retire: everything of one generation goes, the others stay. *)
LEMMA RetireEffect ==
  ASSUME NEW g, Shape(g), NEW n, NEW h, h = Retire(g, n)
  PROVE  /\ Shape(h) /\ Below(h, g) /\ RowsOf(h, n) = {}
         /\ n \notin DOMAIN h.claimed
         /\ \A t, k, i : k # n /\ HasClaim(g, t, k, i) => HasClaim(h, t, k, i)
<1> DEFINE R == RowsOf(g, n)
<1>1. h = [rows |-> Drop(g.rows, R), claimed |-> Drop(g.claimed, {n}), units |-> Drop(g.units, {n}),
           owners |-> Drop(g.owners, {n}), votes |-> Drop(g.votes, {n}),
           cancelled |-> Drop(g.cancelled, {n})]
  BY ZenonT(30) DEF Retire, Shape
<1>2. /\ h.rows = Drop(g.rows, R) /\ h.claimed = Drop(g.claimed, {n})
      /\ h.units = Drop(g.units, {n}) /\ h.owners = Drop(g.owners, {n})
      /\ h.votes = Drop(g.votes, {n}) /\ h.cancelled = Drop(g.cancelled, {n})
  BY <1>1
<1>3. h = [rows |-> h.rows, claimed |-> h.claimed, units |-> h.units,
           owners |-> h.owners, votes |-> h.votes, cancelled |-> h.cancelled]
  BY <1>1, ZenonT(30)
<1> HIDE DEF R
<1>4. DOMAIN h.rows = DOMAIN g.rows \ R /\ \A u \in DOMAIN h.rows : h.rows[u] = g.rows[u]
  BY <1>2, ZenonT(30) DEF Drop, Restrict
<1>5. DOMAIN h.claimed = DOMAIN g.claimed \ {n} /\ \A k \in DOMAIN h.claimed : h.claimed[k] = g.claimed[k]
  BY <1>2, ZenonT(30) DEF Drop, Restrict
<1>6. DOMAIN h.units = DOMAIN g.units \ {n} /\ \A k \in DOMAIN h.units : h.units[k] = g.units[k]
  BY <1>2, ZenonT(30) DEF Drop, Restrict
<1>7. DOMAIN h.owners = DOMAIN g.owners \ {n} /\ \A k \in DOMAIN h.owners : h.owners[k] = g.owners[k]
  BY <1>2, ZenonT(30) DEF Drop, Restrict
<1>8. DOMAIN h.votes = DOMAIN g.votes \ {n} /\ \A k \in DOMAIN h.votes : h.votes[k] = g.votes[k]
  BY <1>2, ZenonT(30) DEF Drop, Restrict
<1>9. DOMAIN h.cancelled = DOMAIN g.cancelled \ {n}
      /\ \A k \in DOMAIN h.cancelled : h.cancelled[k] = g.cancelled[k]
  BY <1>2, ZenonT(30) DEF Drop, Restrict
<1>10. RowsOf(h, n) = {} /\ \A k : RowsOf(h, k) \subseteq RowsOf(g, k)
  BY <1>4, ZenonT(30) DEF RowsOf, R
<1>11. Shape(h)
  BY <1>3, <1>4, <1>5, <1>6, <1>7, <1>8, <1>9, <1>10 DEF Shape
<1>12. ASSUME NEW t, NEW k, NEW i, k # n, HasClaim(g, t, k, i)
       PROVE  HasClaim(h, t, k, i)
  <2>1. k \in DOMAIN h.claimed /\ h.claimed[k] > t /\ i \in h.owners[k] /\ k \notin DOMAIN h.cancelled
    BY <1>5, <1>7, <1>9, <1>12, ZenonT(30) DEF HasClaim, Shape
  <2>2. ASSUME ~site.restart, NEW u \in site.units
        PROVE  u \in DOMAIN h.rows /\ h.rows[u].uuid = k /\ h.rows[u].expires > t
    BY <1>4, <1>12, <2>2, ZenonT(30) DEF HasClaim, RowsOf, R
  <2> QED
    BY <2>1, <2>2, ZenonT(30) DEF HasClaim
<1> QED
  BY <1>4, <1>5, <1>8, <1>10, <1>11, <1>12, ZenonT(30) DEF Below

(* Register: one row more, of a generation without a tombstone, or nothing.   *)
LEMMA RegisterEffect ==
  ASSUME NEW g0, NEW t \in Nat, Shape(g0), NEW n, NEW u, NEW b, NEW known \in BOOLEAN,
         NEW h, h = Register(g0, t, n, u, b, known).g
  PROVE  /\ Shape(h)
         /\ \A v \in DOMAIN h.rows :
              \/ v \in DOMAIN g0.rows /\ h.rows[v] = g0.rows[v]
              \/ /\ v = u /\ known /\ h.rows[v].uuid = n
                 /\ n \in DOMAIN g0.cancelled => ~(g0.cancelled[n] > t)
         /\ \A k \in DOMAIN h.votes : k \in DOMAIN g0.votes /\ h.votes[k].units = g0.votes[k].units
         /\ \A k, i : HasClaim(g0, t, k, i) /\ u \in site.units => HasClaim(h, t, k, i)
<1> DEFINE g == Purged(g0, t)
           ok == /\ known /\ n \notin DOMAIN g.cancelled /\ n \notin DOMAIN g.claimed
                 /\ u \in DOMAIN g.rows => g.rows[u].uuid = n /\ g.rows[u].blocks = b
           row == [uuid |-> n, blocks |-> b, expires |-> t + Ttl]
<1>1. h = IF ok THEN [g EXCEPT !.rows = Set(@, u, row)] ELSE g
  BY ZenonT(30) DEF Register
<1> HIDE DEF g
<1>2. /\ Shape(g) /\ Below(g, g0)
      /\ DOMAIN g.cancelled = {k \in DOMAIN g0.cancelled : g0.cancelled[k] > t}
  BY PurgeEffect DEF g
<1>3. \A k, i : HasClaim(g0, t, k, i) => HasClaim(g, t, k, i)
  BY PurgeKeeps, ZenonT(30) DEF g
<1>4. CASE ~ok
  <2>1. h = g
    BY <1>1, <1>4, ZenonT(30)
  <2> QED
    BY <1>2, <1>3, <2>1, ZenonT(30) DEF Below
<1>5. CASE ok
  <2>0. h = [rows |-> Set(g.rows, u, row), claimed |-> g.claimed, units |-> g.units,
             owners |-> g.owners, votes |-> g.votes, cancelled |-> g.cancelled]
    BY <1>1, <1>2, <1>5, ZenonT(30) DEF Shape
  <2>1. /\ h.rows = Set(g.rows, u, row) /\ h.claimed = g.claimed /\ h.units = g.units
        /\ h.owners = g.owners /\ h.votes = g.votes /\ h.cancelled = g.cancelled
    BY <2>0
  <2>2. h = [rows |-> h.rows, claimed |-> h.claimed, units |-> h.units,
             owners |-> h.owners, votes |-> h.votes, cancelled |-> h.cancelled]
    BY <2>0, ZenonT(30)
  <2>3. row.uuid = n /\ row.expires \in Int
    BY TtlPositive
  <2> HIDE DEF row
  <2>4. /\ DOMAIN h.rows = DOMAIN g.rows \cup {u} /\ h.rows[u] = row
        /\ \A v \in DOMAIN g.rows : v # u => h.rows[v] = g.rows[v]
    BY <2>1, ZenonT(30) DEF Set
  <2>5. \A k : k # n => RowsOf(h, k) \subseteq RowsOf(g, k)
    BY <2>3, <2>4, ZenonT(30) DEF RowsOf
  <2>6. Shape(h)
    <3>1. \A v \in DOMAIN h.rows : h.rows[v].expires \in Int
      BY <1>2, <2>3, <2>4, ZenonT(30) DEF Shape
    <3>2. \A k \in DOMAIN h.cancelled : h.cancelled[k] \in Int /\ RowsOf(h, k) = {}
      BY <1>2, <1>5, <2>1, <2>5, ZenonT(30) DEF Shape
    <3> QED
      BY <1>2, <2>1, <2>2, <3>1, <3>2, ZenonT(30) DEF Shape
  <2>7. ASSUME NEW k, NEW i, HasClaim(g0, t, k, i), u \in site.units PROVE HasClaim(h, t, k, i)
    <3>1. HasClaim(g, t, k, i)
      BY <1>3, <2>7, ZenonT(30)
    <3>2. k # n
      BY <1>5, <3>1, ZenonT(30) DEF HasClaim
    <3>3. site.restart
      BY <1>5, <2>7, <3>1, <3>2, ZenonT(30) DEF HasClaim
    <3> QED
      BY <2>1, <3>1, <3>3, ZenonT(30) DEF HasClaim
  <2>8. ASSUME NEW v \in DOMAIN h.rows
        PROVE  \/ v \in DOMAIN g0.rows /\ h.rows[v] = g0.rows[v]
               \/ /\ v = u /\ known /\ h.rows[v].uuid = n
                  /\ n \in DOMAIN g0.cancelled => ~(g0.cancelled[n] > t)
    BY <1>2, <1>5, <2>3, <2>4, ZenonT(30) DEF Below
  <2> QED
    BY <1>2, <2>1, <2>6, <2>7, <2>8, ZenonT(30) DEF Below
<1> QED
  BY <1>4, <1>5, ZenonT(30)

(* The votes of g cover the units of a claim. *)
AllVoted(g, k) == k \in DOMAIN g.votes /\ site.units \subseteq g.votes[k].units

(* Complete: one vote more, or the generation is retired by the last.         *)
LEMMA CompleteEffect ==
  ASSUME NEW g0, NEW t \in Nat, Shape(g0), NEW n, NEW u, NEW h, h = Complete(g0, t, n, u).g
  PROVE  /\ Shape(h)
         /\ \A v \in DOMAIN h.rows : v \in DOMAIN g0.rows /\ h.rows[v] = g0.rows[v]
         /\ \A k \in DOMAIN h.votes : \A v \in h.votes[k].units :
              \/ k = n /\ v = u
              \/ k \in DOMAIN g0.votes /\ v \in g0.votes[k].units
         /\ \A k, i : HasClaim(g0, t, k, i) =>
              \/ HasClaim(h, t, k, i)
              \/ /\ k = n
                 /\ \A v \in site.units : v = u \/ (n \in DOMAIN g0.votes /\ v \in g0.votes[n].units)
<1> DEFINE g == Purged(g0, t)
           claimed == n \in DOMAIN g.units
           matches == u \in RowsOf(g, n)
           early == ~claimed /\ matches /\ g.rows[u].blocks
           voted == {u} \cup IF n \in DOMAIN g.votes THEN g.votes[n].units ELSE {}
           vote == [units |-> voted, expires |-> t + Ttl]
           counted == [g EXCEPT !.votes = Set(@, n, vote)]
<1>1. h = IF early \/ ~(matches \/ (claimed /\ u \in g.units[n])) THEN g
          ELSE IF claimed /\ g.units[n] \subseteq voted THEN Retire(counted, n)
          ELSE counted
  BY ZenonT(30) DEF Complete
<1> HIDE DEF g
<1>2. Shape(g) /\ Below(g, g0)
  BY PurgeEffect, ZenonT(30) DEF g
<1>3. \A k, i : HasClaim(g0, t, k, i) => HasClaim(g, t, k, i)
  BY PurgeKeeps, ZenonT(30) DEF g
<1>4. \A v \in voted : v = u \/ (n \in DOMAIN g0.votes /\ v \in g0.votes[n].units)
  BY <1>2, ZenonT(30) DEF Below
<1>5. vote = [units |-> vote.units, expires |-> vote.expires] /\ vote.units = voted
  BY ZenonT(30)
<1>6. claimed => g.units[n] = site.units
  BY <1>2, ZenonT(30) DEF Shape
<1>7. counted = [rows |-> g.rows, claimed |-> g.claimed, units |-> g.units,
                 owners |-> g.owners, votes |-> Set(g.votes, n, vote), cancelled |-> g.cancelled]
  BY <1>2 DEF Shape
<1>8. h = g \/ h = counted \/ (claimed /\ g.units[n] \subseteq voted /\ h = Retire(counted, n))
  BY <1>1, ZenonT(30)
<1> HIDE DEF counted, vote, voted, claimed
<1>9. /\ counted.rows = g.rows /\ counted.claimed = g.claimed /\ counted.units = g.units
      /\ counted.owners = g.owners /\ counted.votes = Set(g.votes, n, vote)
      /\ counted.cancelled = g.cancelled
  BY <1>7, ZenonT(30)
<1>10. counted = [rows |-> counted.rows, claimed |-> counted.claimed, units |-> counted.units,
                  owners |-> counted.owners, votes |-> counted.votes, cancelled |-> counted.cancelled]
  BY <1>7, ZenonT(30)
<1>11. /\ DOMAIN counted.votes = DOMAIN g.votes \cup {n} /\ counted.votes[n] = vote
       /\ \A k \in DOMAIN g.votes : k # n => counted.votes[k] = g.votes[k]
  BY <1>9, ZenonT(30) DEF Set
<1>12. \A k : RowsOf(counted, k) = RowsOf(g, k)
  BY <1>9, ZenonT(30) DEF RowsOf
<1>13. Shape(counted)
  BY <1>2, <1>5, <1>9, <1>10, <1>11, <1>12, ZenonT(30) DEF Shape
<1>14. \A k, i : HasClaim(g, t, k, i) => HasClaim(counted, t, k, i)
  BY <1>9, ZenonT(30) DEF HasClaim
<1>15. \A k \in DOMAIN counted.votes : \A v \in counted.votes[k].units :
         (k = n /\ v = u) \/ (k \in DOMAIN g0.votes /\ v \in g0.votes[k].units)
  BY <1>2, <1>4, <1>5, <1>11, ZenonT(30) DEF Below
<1>16. CASE h = g
  BY <1>2, <1>3, <1>16, ZenonT(30) DEF Below
<1>17. CASE h = counted
  BY <1>2, <1>3, <1>9, <1>13, <1>14, <1>15, <1>17 DEF Below
<1>18. CASE claimed /\ g.units[n] \subseteq voted /\ h = Retire(counted, n)
  <2>1. /\ Shape(h) /\ Below(h, counted)
        /\ \A k, i : k # n /\ HasClaim(counted, t, k, i) => HasClaim(h, t, k, i)
    BY <1>13, <1>18, RetireEffect, ZenonT(30)
  <2>2. \A v \in site.units : v = u \/ (n \in DOMAIN g0.votes /\ v \in g0.votes[n].units)
    BY <1>4, <1>6, <1>18, ZenonT(30)
  <2>3. \A v \in DOMAIN h.rows : v \in DOMAIN g0.rows /\ h.rows[v] = g0.rows[v]
    BY <1>2, <1>9, <2>1, ZenonT(30) DEF Below
  <2>4. \A k \in DOMAIN h.votes : \A v \in h.votes[k].units :
          (k = n /\ v = u) \/ (k \in DOMAIN g0.votes /\ v \in g0.votes[k].units)
    BY <1>15, <2>1, ZenonT(30) DEF Below
  <2> QED
    BY <1>3, <1>14, <2>1, <2>2, <2>3, <2>4, ZenonT(30)
<1> QED
  BY <1>8, <1>16, <1>17, <1>18, ZenonT(30)

(* CancelIfUnclaimed: a generation that is told cancelled has no row left, and *)
(* no claim of it stood in the way.                                            *)
LEMMA CancelEffect ==
  ASSUME NEW g0, NEW t \in Nat, Shape(g0), NEW n, NEW r, r = CancelIfUnclaimed(g0, t, n)
  PROVE  /\ Shape(r.g) /\ Below(r.g, g0)
         /\ r.ok => RowsOf(r.g, n) = {} /\ \A i : ~HasClaim(g0, t, n, i)
         /\ \A k, i : HasClaim(g0, t, k, i) => HasClaim(r.g, t, k, i)
<1> DEFINE g == PurgeExpiredLifecycle(g0, t)
           f == Retire(g, n)
           free == n \notin DOMAIN g.claimed
<1>1. /\ r.ok = (n \in DOMAIN g.cancelled \/ free)
      /\ r.g = IF n \in DOMAIN g.cancelled \/ ~free THEN g
               ELSE [f EXCEPT !.cancelled = Set(@, n, t + Ttl)]
  BY ZenonT(30) DEF CancelIfUnclaimed
<1> DEFINE h == r.g
<1> HIDE DEF g, h
<1>2. /\ Shape(g) /\ g.rows = g0.rows
      /\ DOMAIN g.claimed = {k \in DOMAIN g0.claimed : g0.claimed[k] > t}
      /\ \A k \in DOMAIN g.claimed : g.claimed[k] = g0.claimed[k] /\ g.owners[k] = g0.owners[k]
      /\ DOMAIN g.cancelled = {k \in DOMAIN g0.cancelled : g0.cancelled[k] > t}
      /\ \A k \in DOMAIN g.votes : k \in DOMAIN g0.votes /\ g.votes[k] = g0.votes[k]
  BY LifecyclePurge DEF g
<1>3. Below(g, g0)
  BY <1>2, ZenonT(30) DEF Below
<1>4. \A k, i : HasClaim(g0, t, k, i) => HasClaim(g, t, k, i)
  BY <1>2, ZenonT(30) DEF HasClaim
<1>5. CASE n \in DOMAIN g.cancelled \/ ~free
  <2>1. h = g
    BY <1>1, <1>5, ZenonT(30) DEF h
  <2>2. r.ok => n \in DOMAIN g.cancelled
    BY <1>1, <1>5, ZenonT(30)
  <2>3. r.ok => RowsOf(h, n) = {} /\ \A i : ~HasClaim(g0, t, n, i)
    BY <1>2, <1>4, <2>1, <2>2, ZenonT(30) DEF Shape, HasClaim
  <2> QED
    BY <1>2, <1>3, <1>4, <2>1, <2>3, ZenonT(30) DEF h
<1>6. CASE ~(n \in DOMAIN g.cancelled \/ ~free)
  <2> HIDE DEF f
  <2>1. /\ Shape(f) /\ Below(f, g) /\ RowsOf(f, n) = {}
        /\ \A k, i : k # n /\ HasClaim(g, t, k, i) => HasClaim(f, t, k, i)
    BY <1>2, RetireEffect, ZenonT(30) DEF f
  <2>2. h = [rows |-> f.rows, claimed |-> f.claimed, units |-> f.units, owners |-> f.owners,
             votes |-> f.votes, cancelled |-> Set(f.cancelled, n, t + Ttl)]
    BY <1>1, <1>6, <2>1, ZenonT(30) DEF Shape, h
  <2>3. /\ h.rows = f.rows /\ h.claimed = f.claimed /\ h.units = f.units /\ h.owners = f.owners
        /\ h.votes = f.votes /\ h.cancelled = Set(f.cancelled, n, t + Ttl)
    BY <2>2, ZenonT(30)
  <2>4. h = [rows |-> h.rows, claimed |-> h.claimed, units |-> h.units,
             owners |-> h.owners, votes |-> h.votes, cancelled |-> h.cancelled]
    BY <2>2, ZenonT(30)
  <2>5. /\ DOMAIN h.cancelled = DOMAIN f.cancelled \cup {n} /\ h.cancelled[n] = t + Ttl
        /\ \A k \in DOMAIN f.cancelled : k # n => h.cancelled[k] = f.cancelled[k]
    BY <2>3, ZenonT(30) DEF Set
  <2>6. \A k : RowsOf(h, k) = RowsOf(f, k)
    BY <2>3, ZenonT(30) DEF RowsOf
  <2>7. \A k \in DOMAIN h.cancelled : h.cancelled[k] \in Int /\ RowsOf(h, k) = {}
    BY <2>1, <2>5, <2>6, TtlPositive DEF Shape
  <2>8. Shape(h)
    BY <2>1, <2>3, <2>4, <2>7, ZenonT(30) DEF Shape
  <2>9. Below(h, g0)
    BY <1>3, <2>1, <2>3, ZenonT(30) DEF Below
  <2>10. \A i : ~HasClaim(g, t, n, i)
    BY <1>6, ZenonT(30) DEF HasClaim
  <2>11. \A k, i : HasClaim(g0, t, k, i) => k # n /\ HasClaim(f, t, k, i)
    BY <1>4, <2>1, <2>10, ZenonT(30)
  <2>12. \A k, i : HasClaim(g0, t, k, i) => HasClaim(h, t, k, i)
    BY <2>3, <2>5, <2>11 DEF HasClaim
  <2> QED
    BY <2>1, <2>6, <2>8, <2>9, <2>11, <2>12, ZenonT(30) DEF h
<1> QED
  BY <1>5, <1>6, ZenonT(30)

(* The registry with four of its maps replaced. *)
LEMMA ClaimRecord ==
  ASSUME NEW g, NEW a, NEW b, NEW c, NEW d, NEW h,
         h = [g EXCEPT !.claimed = a, !.units = b, !.owners = c, !.votes = d],
         g = [rows |-> g.rows, claimed |-> g.claimed, units |-> g.units,
              owners |-> g.owners, votes |-> g.votes, cancelled |-> g.cancelled]
  PROVE  h = [rows |-> g.rows, claimed |-> a, units |-> b, owners |-> c, votes |-> d,
              cancelled |-> g.cancelled]
BY ZenonT(30)

(* LookupAndClaim: the claim is granted on the rows of all units, and taken    *)
(* back at once only when all have voted.                                      *)
LEMMA ClaimEffect ==
  ASSUME NEW g0, NEW t \in Nat, Shape(g0), NEW n, NEW o,
         NEW r, r = LookupAndClaim(g0, t, n, site.units, o)
  PROVE  /\ Shape(r.g) /\ Below(r.g, g0)
         /\ r.ok => site.units \subseteq RowsOf(g0, n)
         /\ r.ok => HasClaim(r.g, t, n, o) \/ AllVoted(g0, n)
         /\ \A k, i : HasClaim(g0, t, k, i) =>
              HasClaim(r.g, t, k, i) \/ (k = n /\ AllVoted(g0, n))
<1> DEFINE g == Purged(g0, t)
           ok == /\ n \notin DOMAIN g.cancelled
                 /\ n \in DOMAIN g.units => g.units[n] = site.units
                 /\ site.units \subseteq RowsOf(g, n)
           voted == n \in DOMAIN g.votes
           own == {o} \cup IF n \in DOMAIN g.owners THEN g.owners[n] ELSE {}
           cast == IF voted THEN [g.votes EXCEPT ![n].expires = t + Ttl] ELSE g.votes
           c == [g EXCEPT !.claimed = Set(@, n, t + Ttl), !.units = Set(@, n, site.units),
                          !.owners = Set(@, n, own), !.votes = cast]
<1>1. /\ r.ok = ok
      /\ r.g = IF ~ok THEN g
               ELSE IF voted /\ site.units \subseteq g.votes[n].units THEN Retire(c, n)
               ELSE c
  BY ZenonT(30) DEF LookupAndClaim
<1> DEFINE h == r.g
<1> HIDE DEF g, h
<1>2. /\ Shape(g) /\ Below(g, g0)
      /\ \A u \in DOMAIN g.rows : g.rows[u].expires > t
  BY PurgeEffect, ZenonT(30) DEF g
<1>3. \A k, i : HasClaim(g0, t, k, i) => HasClaim(g, t, k, i)
  BY PurgeKeeps, ZenonT(30) DEF g
<1>4. RowsOf(g, n) \subseteq RowsOf(g0, n)
  BY <1>2, ZenonT(30) DEF Below, RowsOf
<1>5. ok => site.units \subseteq RowsOf(g0, n)
  BY <1>4, ZenonT(30)
<1>6. voted /\ site.units \subseteq g.votes[n].units => AllVoted(g0, n)
  BY <1>2, ZenonT(30) DEF Below, AllVoted
<1>7. CASE ~ok
  <2>1. h = g
    BY <1>1, <1>7, ZenonT(30) DEF h
  <2> QED
    BY <1>1, <1>2, <1>3, <1>7, <2>1, ZenonT(30) DEF h
<1>8. CASE ok
  <2>1. c = [rows |-> g.rows, claimed |-> Set(g.claimed, n, t + Ttl),
             units |-> Set(g.units, n, site.units), owners |-> Set(g.owners, n, own),
             votes |-> cast, cancelled |-> g.cancelled]
    <3> HIDE DEF cast, own
    <3>1. g = [rows |-> g.rows, claimed |-> g.claimed, units |-> g.units,
               owners |-> g.owners, votes |-> g.votes, cancelled |-> g.cancelled]
      BY <1>2, ZenonT(30) DEF Shape
    <3>2. c = [g EXCEPT !.claimed = Set(g.claimed, n, t + Ttl), !.units = Set(g.units, n, site.units),
                        !.owners = Set(g.owners, n, own), !.votes = cast]
      BY ZenonT(30)
    <3> HIDE DEF c
    <3> QED
      BY <3>1, <3>2, ClaimRecord, ZenonT(30)
  <2>2. h = c \/ (AllVoted(g0, n) /\ h = Retire(c, n))
    BY <1>1, <1>6, <1>8, ZenonT(30) DEF h
  <2> HIDE DEF c
  <2>3. /\ c.rows = g.rows /\ c.claimed = Set(g.claimed, n, t + Ttl)
        /\ c.units = Set(g.units, n, site.units) /\ c.owners = Set(g.owners, n, own)
        /\ c.votes = cast /\ c.cancelled = g.cancelled
    BY <2>1, ZenonT(30)
  <2>4. c = [rows |-> c.rows, claimed |-> c.claimed, units |-> c.units,
             owners |-> c.owners, votes |-> c.votes, cancelled |-> c.cancelled]
    BY <2>1, ZenonT(30)
  <2>5. /\ DOMAIN cast = DOMAIN g.votes
        /\ \A k \in DOMAIN g.votes : /\ cast[k] = [units |-> cast[k].units, expires |-> cast[k].expires]
                                     /\ cast[k].units = g.votes[k].units
    <3>1. CASE ~voted
      BY <1>2, <3>1, ZenonT(30) DEF Shape
    <3>2. CASE voted
      <4>1. g.votes[n] = [units |-> g.votes[n].units, expires |-> g.votes[n].expires]
        BY <1>2, <3>2, ZenonT(30) DEF Shape
      <4>2. DOMAIN cast = DOMAIN g.votes /\ \A k \in DOMAIN g.votes : k # n => cast[k] = g.votes[k]
        BY <3>2, ZenonT(30)
      <4>3. cast[n] = [g.votes[n] EXCEPT !.expires = t + Ttl]
        BY <3>2, ZenonT(30)
      <4>4. cast[n] = [units |-> g.votes[n].units, expires |-> t + Ttl]
        BY <4>1, <4>3, ZenonT(30)
      <4> HIDE DEF cast
      <4>5. cast[n].units = g.votes[n].units /\ cast[n].expires = t + Ttl
        BY <4>4
      <4> QED
        BY <1>2, <4>2, <4>4, <4>5, ZenonT(30) DEF Shape
    <3> QED
      BY <3>1, <3>2, ZenonT(30)
  <2>6. DOMAIN g.owners = DOMAIN g.claimed /\ DOMAIN g.units = DOMAIN g.claimed
    BY <1>2, ZenonT(30) DEF Shape
  <2>7. o \in own /\ (n \in DOMAIN g.claimed => g.owners[n] \subseteq own)
    BY <2>6, ZenonT(30)
  <2> HIDE DEF cast, own
  <2>8. /\ DOMAIN c.claimed = DOMAIN g.claimed \cup {n} /\ c.claimed[n] = t + Ttl
        /\ \A k \in DOMAIN g.claimed : k # n => c.claimed[k] = g.claimed[k]
    BY <2>3, ZenonT(30) DEF Set
  <2>9. /\ DOMAIN c.units = DOMAIN g.claimed \cup {n} /\ c.units[n] = site.units
        /\ \A k \in DOMAIN g.claimed : k # n => c.units[k] = g.units[k]
    BY <2>3, <2>6, ZenonT(30) DEF Set
  <2>10. /\ DOMAIN c.owners = DOMAIN g.claimed \cup {n} /\ c.owners[n] = own
         /\ \A k \in DOMAIN g.claimed : k # n => c.owners[k] = g.owners[k]
    BY <2>3, <2>6, ZenonT(30) DEF Set
  <2>11. \A k : RowsOf(c, k) = RowsOf(g, k)
    BY <2>3, ZenonT(30) DEF RowsOf
  <2>12. \A k \in DOMAIN c.claimed : c.claimed[k] \in Int /\ c.units[k] = site.units
    BY <1>2, <2>8, <2>9, TtlPositive DEF Shape
  <2>13. Shape(c)
    BY <1>2, <2>3, <2>4, <2>5, <2>8, <2>9, <2>10, <2>11, <2>12, ZenonT(30) DEF Shape
  <2>14. Below(c, g0)
    BY <1>2, <2>3, <2>5, ZenonT(30) DEF Below
  <2>15. t + Ttl > t
    BY TtlPositive
  <2>16. HasClaim(c, t, n, o)
    BY <1>2, <1>8, <2>3, <2>7, <2>8, <2>10, <2>15, ZenonT(30) DEF HasClaim, RowsOf
  <2>17. ASSUME NEW k, NEW i, HasClaim(g, t, k, i) PROVE HasClaim(c, t, k, i)
    <3>1. CASE k = n
      BY <2>3, <2>7, <2>8, <2>10, <2>15, <2>17, <3>1, ZenonT(30) DEF HasClaim
    <3>2. CASE k # n
      BY <2>3, <2>8, <2>10, <2>17, <3>2, ZenonT(30) DEF HasClaim
    <3> QED
      BY <3>1, <3>2, ZenonT(30)
  <2>18. CASE h = c
    BY <1>1, <1>3, <1>5, <2>13, <2>14, <2>16, <2>17, <2>18, ZenonT(30) DEF h
  <2>19. CASE AllVoted(g0, n) /\ h = Retire(c, n)
    <3>1. /\ Shape(h) /\ Below(h, c)
          /\ \A k, i : k # n /\ HasClaim(c, t, k, i) => HasClaim(h, t, k, i)
      BY <2>13, <2>19, RetireEffect, ZenonT(30)
    <3>2. Below(h, g0)
      BY <2>14, <3>1, ZenonT(30) DEF Below
    <3> QED
      BY <1>1, <1>3, <1>5, <2>17, <2>19, <3>1, <3>2, ZenonT(30) DEF h
  <2> QED
    BY <2>2, <2>18, <2>19, ZenonT(30)
<1> QED
  BY <1>7, <1>8, ZenonT(30)

(* AbandonClaim: an attempt gives up its own claim and no other's.            *)
LEMMA AbandonEffect ==
  ASSUME NEW g, Shape(g), NEW n, NEW o, NEW h, h = AbandonClaim(g, n, o)
  PROVE  /\ Shape(h) /\ Below(h, g)
         /\ \A t, k, i : HasClaim(g, t, k, i) /\ ~(k = n /\ i = o) => HasClaim(h, t, k, i)
<1>1. CASE h = g
  BY <1>1, ZenonT(30) DEF Below
<1>2. CASE /\ n \in DOMAIN g.claimed /\ g.owners[n] = {o}
           /\ h = [g EXCEPT !.claimed = Drop(@, {n}), !.units = Drop(@, {n}),
                            !.owners = Drop(@, {n})]
  <2>1. h = [rows |-> g.rows, claimed |-> Drop(g.claimed, {n}), units |-> Drop(g.units, {n}),
             owners |-> Drop(g.owners, {n}), votes |-> g.votes, cancelled |-> g.cancelled]
    BY <1>2, ZenonT(30) DEF Shape
  <2>2. /\ h.rows = g.rows /\ h.claimed = Drop(g.claimed, {n}) /\ h.units = Drop(g.units, {n})
        /\ h.owners = Drop(g.owners, {n}) /\ h.votes = g.votes /\ h.cancelled = g.cancelled
    BY <2>1
  <2>3. h = [rows |-> h.rows, claimed |-> h.claimed, units |-> h.units,
             owners |-> h.owners, votes |-> h.votes, cancelled |-> h.cancelled]
    BY <2>1, ZenonT(30)
  <2>4. DOMAIN h.claimed = DOMAIN g.claimed \ {n} /\ \A k \in DOMAIN h.claimed : h.claimed[k] = g.claimed[k]
    BY <2>2, ZenonT(30) DEF Drop, Restrict
  <2>5. DOMAIN h.units = DOMAIN g.units \ {n} /\ \A k \in DOMAIN h.units : h.units[k] = g.units[k]
    BY <2>2, ZenonT(30) DEF Drop, Restrict
  <2>6. DOMAIN h.owners = DOMAIN g.owners \ {n} /\ \A k \in DOMAIN h.owners : h.owners[k] = g.owners[k]
    BY <2>2, ZenonT(30) DEF Drop, Restrict
  <2>7. \A k : RowsOf(h, k) = RowsOf(g, k)
    BY <2>2, ZenonT(30) DEF RowsOf
  <2>8. Shape(h)
    <3>1. DOMAIN h.units = DOMAIN h.claimed /\ DOMAIN h.owners = DOMAIN h.claimed
      BY <2>4, <2>5, <2>6, ZenonT(30) DEF Shape
    <3>2. \A k \in DOMAIN h.claimed : h.claimed[k] \in Int /\ h.units[k] = site.units
      BY <2>4, <2>5, <3>1, ZenonT(30) DEF Shape
    <3>3. \A k \in DOMAIN h.cancelled : h.cancelled[k] \in Int /\ RowsOf(h, k) = {}
      BY <2>2, <2>7, ZenonT(30) DEF Shape
    <3> QED
      BY <2>2, <2>3, <3>1, <3>2, <3>3, ZenonT(30) DEF Shape
  <2>9. Below(h, g)
    BY <2>2, ZenonT(30) DEF Below
  <2>10. ASSUME NEW t, NEW k, NEW i, HasClaim(g, t, k, i), ~(k = n /\ i = o)
         PROVE  HasClaim(h, t, k, i)
    <3>1. k # n
      BY <1>2, <2>10, ZenonT(30) DEF HasClaim
    <3> QED
      BY <2>2, <2>4, <2>6, <2>10, <3>1, ZenonT(30) DEF HasClaim, Shape
  <2> QED
    BY <2>8, <2>9, <2>10, ZenonT(30)
<1>3. CASE n \in DOMAIN g.owners /\ h = [g EXCEPT !.owners[n] = @ \ {o}]
  <2> DEFINE os == [g.owners EXCEPT ![n] = @ \ {o}]
  <2>1. h = [rows |-> g.rows, claimed |-> g.claimed, units |-> g.units,
             owners |-> os, votes |-> g.votes, cancelled |-> g.cancelled]
    <3>1. h = [g EXCEPT !.owners = os]
      BY <1>3, ZenonT(30)
    <3> HIDE DEF os
    <3> QED
      BY <3>1, ZenonT(30) DEF Shape
  <2>2. /\ DOMAIN os = DOMAIN g.owners /\ os[n] = g.owners[n] \ {o}
        /\ \A k \in DOMAIN g.owners : k # n => os[k] = g.owners[k]
    BY <1>3, ZenonT(30)
  <2> HIDE DEF os
  <2>3. /\ h.rows = g.rows /\ h.claimed = g.claimed /\ h.units = g.units
        /\ h.owners = os /\ h.votes = g.votes /\ h.cancelled = g.cancelled
    BY <2>1
  <2>4. h = [rows |-> h.rows, claimed |-> h.claimed, units |-> h.units,
             owners |-> h.owners, votes |-> h.votes, cancelled |-> h.cancelled]
    BY <2>1, ZenonT(30)
  <2>5. \A k : RowsOf(h, k) = RowsOf(g, k)
    BY <2>3, ZenonT(30) DEF RowsOf
  <2>6. Shape(h)
    BY <2>2, <2>3, <2>4, <2>5, ZenonT(30) DEF Shape
  <2>7. Below(h, g)
    BY <2>3, ZenonT(30) DEF Below
  <2>8. ASSUME NEW t, NEW k, NEW i, HasClaim(g, t, k, i), ~(k = n /\ i = o)
        PROVE  HasClaim(h, t, k, i)
    <3>1. i \in os[k]
      BY <2>2, <2>8, ZenonT(30) DEF HasClaim, Shape
    <3> QED
      BY <2>3, <2>8, <3>1, ZenonT(30) DEF HasClaim
  <2> QED
    BY <2>6, <2>7, <2>8, ZenonT(30)
<1> QED
  BY <1>1, <1>2, <1>3, ZenonT(30) DEF AbandonClaim

(* InvalidateUnit takes the row of one unit.                                  *)
LEMMA InvalidateEffect ==
  ASSUME NEW g, Shape(g), NEW u, NEW h, h = InvalidateUnit(g, u)
  PROVE  /\ Shape(h) /\ Below(h, g)
         /\ \A t, k, i : HasClaim(g, t, k, i) /\ (site.restart \/ u \notin DOMAIN g.rows)
                         => HasClaim(h, t, k, i)
<1>1. h = [rows |-> Drop(g.rows, {u}), claimed |-> g.claimed, units |-> g.units,
           owners |-> g.owners, votes |-> g.votes, cancelled |-> g.cancelled]
  BY ZenonT(30) DEF InvalidateUnit, Shape
<1>2. /\ h.rows = Drop(g.rows, {u}) /\ h.claimed = g.claimed /\ h.units = g.units
      /\ h.owners = g.owners /\ h.votes = g.votes /\ h.cancelled = g.cancelled
  BY <1>1
<1>3. h = [rows |-> h.rows, claimed |-> h.claimed, units |-> h.units,
           owners |-> h.owners, votes |-> h.votes, cancelled |-> h.cancelled]
  BY <1>1, ZenonT(30)
<1>4. DOMAIN h.rows = DOMAIN g.rows \ {u} /\ \A v \in DOMAIN h.rows : h.rows[v] = g.rows[v]
  BY <1>2, ZenonT(30) DEF Drop, Restrict
<1>5. \A k : RowsOf(h, k) \subseteq RowsOf(g, k)
  BY <1>4, ZenonT(30) DEF RowsOf
<1>6. Shape(h)
  BY <1>2, <1>3, <1>4, <1>5, ZenonT(30) DEF Shape
<1>7. Below(h, g)
  BY <1>2, <1>4, ZenonT(30) DEF Below
<1>8. ASSUME NEW t, NEW k, NEW i, HasClaim(g, t, k, i), site.restart \/ u \notin DOMAIN g.rows
      PROVE  HasClaim(h, t, k, i)
  BY <1>2, <1>4, <1>8, ZenonT(30) DEF HasClaim
<1> QED
  BY <1>6, <1>7, <1>8, ZenonT(30)

(* A new registry has its shape and nothing else. *)
LEMMA NewShape == Shape(NewRegistry) /\ DOMAIN NewRegistry.rows = {} /\ DOMAIN NewRegistry.votes = {}
BY DEF Shape, NewRegistry, RowsOf

(* ------------------------------- the attempts ----------------------------- *)

(* What holds of one attempt a, with R the armed sessions: only a first       *)
(* sub-plan is abandoned; a plan that was built has senders; an attempt that  *)
(* dispatches has all its destinations armed.                                 *)
AttemptOk(i, a, R) ==
  /\ a = [pc |-> a.pc, idx |-> a.idx, tries |-> a.tries, arms |-> a.arms, sends |-> a.sends]
  /\ a.idx \in 0..site.chain - 1
  /\ a.pc \in {"idle", "abandon"} => a.idx = 0
  /\ a.idx > 0 => Senders(i) # {}
  /\ a.pc \in {"arm", "send"} => Senders(i) # {} /\ DOMAIN a.sends = Senders(i)
  /\ a.pc = "arm" => /\ DOMAIN a.arms = Stage(i).dst
                     /\ \A u \in Senders(i) : a.sends[u] = "none"
                     /\ \A d \in Stage(i).dst : a.arms[d] = "ok" => <<i, a.idx>> \in R[d]
  /\ a.pc = "send" => \A d \in Stage(i).dst : <<i, a.idx>> \in R[d]

Attempts(A, R) ==
  /\ DOMAIN A = Att /\ DOMAIN R = Dsts
  /\ \A i \in Att : AttemptOk(i, A[i], R)

(* What was dispatched, is being sent (C) or was sent (S): nothing beyond the *)
(* sub-plan in hand, and of that one only what its senders were asked for.    *)
Dispatched(C, S, i, x, u) == <<i, x>> \in C[u] \/ <<i, x, u>> \in S

Reached(i, a, C, S, x, u) ==
  Dispatched(C, S, i, x, u) =>
    /\ u \in Senders(i) /\ x <= a.idx
    /\ x = a.idx => /\ a.pc \notin {"idle", "plan", "arm", "abandon"}
                    /\ a.pc = "send" => a.sends[u] # "none"

(* The sessions of one source are its attempts' own, armed and not yet ended. *)
SourceOk(u, c, R, S) ==
  /\ c \subseteq Att \X (0..site.chain - 1)
  /\ \A i \in Att : \A x \in 0..site.chain - 1 :
       <<i, x>> \in c => /\ u \in Senders(i) /\ <<i, x, u>> \notin S
                         /\ \A d \in Stage(i).dst : <<i, x>> \in R[d]

Sessions(A, R, C, S) ==
  /\ DOMAIN C = site.units
  /\ \A u \in site.units : SourceOk(u, C[u], R, S)
  /\ \A i \in Att : \A u \in site.units : \A x \in 0..site.chain - 1 :
       Reached(i, A[i], C, S, x, u)

(* ------------------------------ votes and claims -------------------------- *)

(* A unit has nothing to send, or has sent its part of every stage.           *)
Done(S, u, k) ==
  \/ u \in site.empty
  \/ \A n \in DOMAIN site.stages :
       u \in site.stages[n].src =>
         \E i \in Att : /\ site.attempts[i] = [stage |-> n, uuid |-> k]
                        /\ \A x \in 0..site.chain - 1 : <<i, x, u>> \in S

(* Rows are of known units, none of a generation told cancelled; who voted is *)
(* done.                                                                      *)
RegistryOk(G, D, T, S) ==
  /\ Shape(G)
  /\ DOMAIN G.rows \subseteq D
  /\ \A k \in T : RowsOf(G, k) = {}
  /\ \A k \in DOMAIN G.votes : \A u \in G.votes[k].units : Done(S, u, k)

(* The attempt will still dispatch a sender, or one is sending.  Unlike       *)
(* AtWork it counts the sub-plans that follow the one in hand.                *)
Working(i, a, C) ==
  \/ a.pc = "arm" \/ (a.pc = "plan" /\ a.idx > 0)
  \/ /\ a.pc = "send"
     /\ a.idx + 1 < site.chain \/ \E u \in Senders(i) : a.sends[u] = "none"
  \/ \E u \in site.units : \E x \in 0..site.chain - 1 : <<i, x>> \in C[u]

Quiet == site.prompt /\ ~site.release /\ Once

(* An attempt that works holds its claim, of a generation not told cancelled. *)
Claims(A, C, G, t, T) ==
  Quiet => \A i \in Att : Working(i, A[i], C) => /\ HasClaim(G, t, Uuid(i), i)
                                                 /\ Uuid(i) \notin T

IInv == /\ site \in Sites /\ now \in Nat
        /\ Attempts(att, armed)
        /\ Sessions(att, armed, active, sent)
        /\ RegistryOk(reg, dir, told, sent)
        /\ Claims(att, active, reg, now, told)

(* What SitesAssumption says of the site of the run. *)
LEMMA SiteFacts ==
  ASSUME site \in Sites
  PROVE  /\ site.units # {} /\ site.chain \in Nat \ {0}
         /\ \A i \in Att : /\ Senders(i) \subseteq site.units /\ Stage(i).dst \subseteq Dsts
                           /\ site.attempts[i].stage \in DOMAIN site.stages
                           /\ site.attempts[i] = [stage |-> site.attempts[i].stage, uuid |-> Uuid(i)]
<1>1. /\ site.units # {} /\ site.chain \in Nat \ {0}
      /\ \A n \in DOMAIN site.stages : site.stages[n].src \subseteq site.units
      /\ \A i \in DOMAIN site.attempts : site.attempts[i] \in [stage : DOMAIN site.stages, uuid : Nat]
  BY SitesAssumption, ZenonT(30)
<1>2. ASSUME NEW i \in Att
      PROVE  /\ site.attempts[i].stage \in DOMAIN site.stages
             /\ site.attempts[i] = [stage |-> site.attempts[i].stage, uuid |-> Uuid(i)]
  BY <1>1, ZenonT(30) DEF Att, Uuid
<1>3. ASSUME NEW i \in Att
      PROVE  Senders(i) \subseteq site.units /\ Stage(i).dst \subseteq Dsts
  <2>1. Stage(i) \in {site.stages[n] : n \in DOMAIN site.stages}
    BY <1>2, ZenonT(30) DEF Stage
  <2>2. Stage(i).dst \subseteq Dsts
    BY <2>1, ZenonT(30) DEF Dsts
  <2>3. Stage(i).src \subseteq site.units
    BY <1>1, <1>2, ZenonT(30) DEF Stage
  <2> QED
    BY <2>2, <2>3, ZenonT(30) DEF Senders
<1> QED
  BY <1>1, <1>2, <1>3, ZenonT(30)

(* The site does not change: what holds of the new values is the invariant.   *)
LEMMA Next_IInv ==
  ASSUME site \in Sites, site' = site, now' \in Nat,
         Attempts(att', armed'), Sessions(att', armed', active', sent'),
         RegistryOk(reg', dir', told', sent'), Claims(att', active', reg', now', told')
  PROVE  IInv'
<1>0. /\ Att' = Att /\ Dsts' = Dsts
      /\ \A i : Senders(i)' = Senders(i) /\ Stage(i)' = Stage(i)
  BY ZenonT(30) DEF Att, Dsts, Senders, Stage
<1>1. Attempts(att, armed)'
  BY <1>0, ZenonT(30) DEF Attempts, AttemptOk
<1>2. Sessions(att, armed, active, sent)'
  BY <1>0 DEF Sessions, SourceOk, Reached, Dispatched
<1>3. RegistryOk(reg, dir, told, sent)'
  BY DEF RegistryOk, Shape, RowsOf, Done, Att
<1>4. Claims(att, active, reg, now, told)'
  BY ZenonT(30) DEF Claims, Quiet, Once, Working, HasClaim, Att, Uuid, Senders, Stage
<1> QED
  BY <1>1, <1>2, <1>3, <1>4, ZenonT(30) DEF IInv

(* One attempt changes, or none, and sessions are armed. *)
LEMMA AttemptsChange ==
  ASSUME site \in Sites, NEW A, NEW R, Attempts(A, R), NEW i \in Att, NEW B, NEW R2,
         DOMAIN B = Att, \A j \in Att : j # i => B[j] = A[j],
         DOMAIN R2 = Dsts, \A d \in Dsts : R[d] \subseteq R2[d],
         AttemptOk(i, B[i], R2)
  PROVE  Attempts(B, R2)
<1>1. ASSUME NEW j \in Att, j # i PROVE AttemptOk(j, B[j], R2)
  <2>1. AttemptOk(j, A[j], R) /\ B[j] = A[j]
    BY <1>1, ZenonT(30) DEF Attempts
  <2>2. Stage(j).dst \subseteq Dsts
    BY SiteFacts, ZenonT(30)
  <2> QED
    BY <2>1, <2>2, ZenonT(30) DEF AttemptOk
<1> QED
  BY <1>1, ZenonT(30) DEF Attempts

(* One attempt changes, what was dispatched does not. *)
LEMMA SessionsChange ==
  ASSUME site \in Sites, NEW A, NEW R, NEW C, NEW S, Sessions(A, R, C, S),
         NEW i \in Att, NEW B, NEW R2,
         \A j \in Att : j # i => B[j] = A[j],
         \A d \in Dsts : R[d] \subseteq R2[d],
         \A u \in site.units : \A x \in 0..site.chain - 1 :
           Reached(i, A[i], C, S, x, u) => Reached(i, B[i], C, S, x, u)
  PROVE  Sessions(B, R2, C, S)
<1>1. ASSUME NEW u \in site.units PROVE SourceOk(u, C[u], R2, S)
  <2>1. SourceOk(u, C[u], R, S)
    BY ZenonT(30) DEF Sessions
  <2>2. \A j \in Att : Stage(j).dst \subseteq Dsts
    BY SiteFacts, ZenonT(30)
  <2> QED
    BY <2>1, <2>2, ZenonT(30) DEF SourceOk
<1>2. ASSUME NEW j \in Att, NEW u \in site.units, NEW x \in 0..site.chain - 1
      PROVE  Reached(j, B[j], C, S, x, u)
  <2>1. Reached(j, A[j], C, S, x, u)
    BY ZenonT(30) DEF Sessions
  <2>2. CASE j = i
    BY <2>1, <2>2, ZenonT(30)
  <2>3. CASE j # i
    BY <2>1, <2>3, ZenonT(30) DEF Reached
  <2> QED
    BY <2>2, <2>3, ZenonT(30)
<1> QED
  BY <1>1, <1>2, ZenonT(30) DEF Sessions

(* Claims stay and no attempt starts to work. *)
LEMMA ClaimsKept ==
  ASSUME NEW A, NEW C, NEW G, NEW t, NEW T, Claims(A, C, G, t, T),
         NEW B, NEW C2, NEW G2,
         \A i \in Att : Working(i, B[i], C2) => Working(i, A[i], C),
         Quiet => \A i \in Att : Working(i, A[i], C) /\ HasClaim(G, t, Uuid(i), i)
                                   => HasClaim(G2, t, Uuid(i), i)
  PROVE  Claims(B, C2, G2, t, T)
BY ZenonT(30) DEF Claims

(* The registry loses rows and votes. *)
LEMMA RegistryBelow ==
  ASSUME NEW G, NEW D, NEW T, NEW S, RegistryOk(G, D, T, S), NEW G2, Shape(G2), Below(G2, G)
  PROVE  RegistryOk(G2, D, T, S)
<1>1. DOMAIN G2.rows \subseteq D /\ \A k : RowsOf(G2, k) \subseteq RowsOf(G, k)
  BY ZenonT(30) DEF RegistryOk, Below, RowsOf
<1>2. \A k \in T : RowsOf(G2, k) = {}
  BY <1>1, ZenonT(30) DEF RegistryOk
<1>3. ASSUME NEW k \in DOMAIN G2.votes, NEW u \in G2.votes[k].units PROVE Done(S, u, k)
  BY ZenonT(30) DEF RegistryOk, Below
<1> QED
  BY <1>1, <1>2, <1>3, ZenonT(30) DEF RegistryOk

(* The pc of an attempt changes. *)
LEMMA PcChange ==
  ASSUME NEW A, DOMAIN A = Att, NEW i \in Att,
         A[i] = [pc |-> A[i].pc, idx |-> A[i].idx, tries |-> A[i].tries,
                 arms |-> A[i].arms, sends |-> A[i].sends],
         NEW v, NEW B, B = [A EXCEPT ![i].pc = v]
  PROVE  /\ DOMAIN B = Att /\ \A j \in Att : j # i => B[j] = A[j]
         /\ B[i] = [pc |-> v, idx |-> A[i].idx, tries |-> A[i].tries,
                    arms |-> A[i].arms, sends |-> A[i].sends]
         /\ B[i] = [pc |-> B[i].pc, idx |-> B[i].idx, tries |-> B[i].tries,
                    arms |-> B[i].arms, sends |-> B[i].sends]
         /\ B[i].pc = v /\ B[i].idx = A[i].idx
         /\ B[i].arms = A[i].arms /\ B[i].sends = A[i].sends
<1>1. DOMAIN B = Att /\ \A j \in Att : j # i => B[j] = A[j]
  BY ZenonT(30)
<1>2. B[i] = [A[i] EXCEPT !.pc = v]
  BY ZenonT(30)
<1> DEFINE a == A[i]
           b == B[i]
<1>3. b = [pc |-> v, idx |-> a.idx, tries |-> a.tries, arms |-> a.arms, sends |-> a.sends]
  <2>1. b = [a EXCEPT !.pc = v]
    BY <1>2, ZenonT(30)
  <2>2. a = [pc |-> a.pc, idx |-> a.idx, tries |-> a.tries, arms |-> a.arms, sends |-> a.sends]
    BY ZenonT(30)
  <2> HIDE DEF a, b
  <2> QED
    BY <2>1, <2>2, ZenonT(30)
<1> HIDE DEF a, b
<1>4. /\ b = [pc |-> b.pc, idx |-> b.idx, tries |-> b.tries, arms |-> b.arms, sends |-> b.sends]
      /\ b.pc = v /\ b.idx = a.idx /\ b.arms = a.arms /\ b.sends = a.sends
  BY <1>3, ZenonT(30)
<1> QED
  BY <1>1, <1>3, <1>4, ZenonT(30) DEF a, b

(* A source with a sub-plan left to send cannot have voted: where no stage is *)
(* tried twice only this attempt could have sent it.                          *)
LEMMA UnsentNotDone ==
  ASSUME site \in Sites, Once, NEW i \in Att, NEW u \in Senders(i),
         NEW x \in 0..site.chain - 1, NEW S, <<i, x, u>> \notin S
  PROVE  u \in site.units /\ ~Done(S, u, Uuid(i))
<1> DEFINE n == site.attempts[i].stage
<1>1. /\ u \in site.units /\ n \in DOMAIN site.stages
      /\ site.attempts[i] = [stage |-> n, uuid |-> Uuid(i)]
  BY SiteFacts, ZenonT(30)
<1>2. u \in site.stages[n].src /\ u \notin site.empty
  BY ZenonT(30) DEF Senders, Stage
<1>3. \A j \in Att : site.attempts[j] = [stage |-> n, uuid |-> Uuid(i)] => j = i
  BY <1>1, ZenonT(30) DEF Once
<1> QED
  BY <1>1, <1>2, <1>3, ZenonT(30) DEF Done

(* An attempt that works, or has a plan to build, has something left to send. *)
LEMMA Unsent ==
  ASSUME IInv, NEW i \in Att,
         Working(i, att[i], active) \/ (att[i].pc = "plan" /\ Senders(i) # {})
  PROVE  \E u \in Senders(i) : \E x \in 0..site.chain - 1 : <<i, x, u>> \notin sent
<1> DEFINE a == att[i]
<1>1. /\ AttemptOk(i, a, armed)
      /\ \A u \in site.units : SourceOk(u, active[u], armed, sent)
      /\ \A u \in site.units : \A x \in 0..site.chain - 1 : Reached(i, a, active, sent, x, u)
  BY ZenonT(30) DEF IInv, Attempts, Sessions
<1>2. site.chain \in Nat \ {0} /\ Senders(i) \subseteq site.units
  BY SiteFacts, ZenonT(30) DEF IInv
<1>3. a.idx \in 0..site.chain - 1
  BY <1>1, ZenonT(30) DEF AttemptOk
<1> HIDE DEF a
<1>4. CASE a.pc \in {"arm", "plan"} /\ Senders(i) # {}
  BY <1>1, <1>2, <1>3, <1>4, ZenonT(30) DEF Reached, Dispatched
<1>5. CASE a.pc = "send" /\ a.idx + 1 < site.chain /\ Senders(i) # {}
  <2>1. a.idx + 1 \in 0..site.chain - 1 /\ ~(a.idx + 1 <= a.idx)
    BY <1>2, <1>3, <1>5
  <2> QED
    BY <1>1, <1>2, <1>5, <2>1, ZenonT(30) DEF Reached, Dispatched
<1>6. CASE a.pc = "send" /\ \E u \in Senders(i) : a.sends[u] = "none"
  BY <1>1, <1>2, <1>3, <1>6, ZenonT(30) DEF Reached, Dispatched
<1>7. CASE \E u \in site.units : \E x \in 0..site.chain - 1 : <<i, x>> \in active[u]
  BY <1>1, <1>7, ZenonT(30) DEF SourceOk
<1>8. a.pc \in {"arm", "send"} \/ a.idx > 0 => Senders(i) # {}
  BY <1>1, ZenonT(30) DEF AttemptOk
<1> QED
  BY <1>4, <1>5, <1>6, <1>7, <1>8, ZenonT(30) DEF Working, a

(* So not all units voted, nor are all done. *)
LEMMA NotAllVoted ==
  ASSUME IInv, Once, NEW i \in Att,
         Working(i, att[i], active) \/ (att[i].pc = "plan" /\ Senders(i) # {})
  PROVE  /\ ~AllVoted(reg, Uuid(i))
         /\ \E u \in site.units : ~Done(sent, u, Uuid(i))
<1>1. PICK u \in Senders(i) : \E x \in 0..site.chain - 1 : <<i, x, u>> \notin sent
  BY Unsent, ZenonT(30)
<1>2. u \in site.units /\ ~Done(sent, u, Uuid(i))
  BY <1>1, UnsentNotDone, ZenonT(30) DEF IInv
<1>3. ~AllVoted(reg, Uuid(i))
  BY <1>2, ZenonT(30) DEF AllVoted, IInv, RegistryOk
<1> QED
  BY <1>2, <1>3, ZenonT(30)

(* ------------------------------- the producers ---------------------------- *)

(* RegisterWorkUnit: a unit that was unknown has no row; a known one is       *)
(* registered again only where units restart.                                 *)
LEMMA RegisterWorkUnit_IInv ==
  ASSUME IInv, NEW u \in site.units, RegisterWorkUnit(u)
  PROVE  IInv'
<1>1. /\ site' = site /\ now' = now /\ att' = att /\ armed' = armed /\ sent' = sent /\ told' = told
      /\ dir' = dir \cup {u} /\ reg' = InvalidateUnit(reg, u) /\ active' = [active EXCEPT ![u] = {}]
      /\ u \in dir => site.restart
  BY ZenonT(30) DEF RegisterWorkUnit
<1>2. /\ site \in Sites /\ now \in Nat /\ Attempts(att, armed) /\ Sessions(att, armed, active, sent)
      /\ RegistryOk(reg, dir, told, sent) /\ Claims(att, active, reg, now, told)
  BY ZenonT(30) DEF IInv
<1>3. /\ Shape(reg') /\ Below(reg', reg)
      /\ \A k, i : HasClaim(reg, now, k, i) => HasClaim(reg', now, k, i)
  BY <1>1, <1>2, InvalidateEffect, ZenonT(30) DEF RegistryOk
<1>4. DOMAIN active' = site.units /\ \A v \in site.units : active'[v] \subseteq active[v]
  BY <1>1, <1>2, ZenonT(30) DEF Sessions
<1>5. Sessions(att', armed', active', sent')
  <2>1. \A v \in site.units : SourceOk(v, active'[v], armed, sent)
    BY <1>2, <1>4, ZenonT(30) DEF Sessions, SourceOk
  <2>2. ASSUME NEW i \in Att, NEW v \in site.units, NEW x \in 0..site.chain - 1
        PROVE  Reached(i, att[i], active', sent, x, v)
    BY <1>2, <1>4, ZenonT(30) DEF Sessions, Reached, Dispatched
  <2> QED
    BY <1>1, <1>4, <2>1, <2>2, ZenonT(30) DEF Sessions
<1>6. RegistryOk(reg', dir', told', sent')
  <2>1. RegistryOk(reg', dir, told, sent)
    BY <1>2, <1>3, RegistryBelow, ZenonT(30)
  <2> QED
    BY <1>1, <2>1, ZenonT(30) DEF RegistryOk
<1>7. Claims(att', active', reg', now', told')
  <2>1. \A i \in Att : Working(i, att[i], active') => Working(i, att[i], active)
    BY <1>4, ZenonT(30) DEF Working
  <2> QED
    BY <1>1, <1>2, <1>3, <2>1, ClaimsKept, ZenonT(30)
<1> QED
  BY <1>1, <1>2, <1>5, <1>6, <1>7, Next_IInv, ZenonT(30)

(* RegisterRequestBlocks: a claimed generation takes no row, nor does one     *)
(* told cancelled while its tombstone lives.                                  *)
LEMMA RegisterRequestBlocks_IInv ==
  ASSUME IInv, NEW u \in site.units, NEW k \in Uuids, RegisterRequestBlocks(u, k)
  PROVE  IInv'
<1>1. /\ site' = site /\ now' = now /\ att' = att /\ armed' = armed /\ sent' = sent /\ told' = told
      /\ dir' = dir /\ active' = active
      /\ reg' = Register(reg, now, k, u, u \notin site.empty, u \in dir).g
      /\ k \in told => k \in DOMAIN reg.cancelled /\ reg.cancelled[k] > now
  BY ZenonT(30) DEF RegisterRequestBlocks
<1>2. /\ site \in Sites /\ now \in Nat /\ Attempts(att, armed) /\ Sessions(att, armed, active, sent)
      /\ RegistryOk(reg, dir, told, sent) /\ Claims(att, active, reg, now, told)
  BY ZenonT(30) DEF IInv
<1>3. /\ Shape(reg')
      /\ \A v \in DOMAIN reg'.rows :
           \/ v \in DOMAIN reg.rows /\ reg'.rows[v] = reg.rows[v]
           \/ /\ v = u /\ u \in dir /\ reg'.rows[v].uuid = k
              /\ k \in DOMAIN reg.cancelled => ~(reg.cancelled[k] > now)
      /\ \A n \in DOMAIN reg'.votes : n \in DOMAIN reg.votes /\ reg'.votes[n].units = reg.votes[n].units
      /\ \A n, i : HasClaim(reg, now, n, i) => HasClaim(reg', now, n, i)
  <2> DEFINE b == u \notin site.empty
             known == u \in dir
  <2>1. reg' = Register(reg, now, k, u, b, known).g /\ Shape(reg) /\ known \in BOOLEAN
    BY <1>1, <1>2 DEF RegistryOk
  <2>2. known => u \in dir
    BY ZenonT(30)
  <2> HIDE DEF b, known
  <2>3. /\ Shape(reg')
        /\ \A v \in DOMAIN reg'.rows :
             \/ v \in DOMAIN reg.rows /\ reg'.rows[v] = reg.rows[v]
             \/ /\ v = u /\ known /\ reg'.rows[v].uuid = k
                /\ k \in DOMAIN reg.cancelled => ~(reg.cancelled[k] > now)
        /\ \A n \in DOMAIN reg'.votes : n \in DOMAIN reg.votes /\ reg'.votes[n].units = reg.votes[n].units
        /\ \A n, i : HasClaim(reg, now, n, i) /\ u \in site.units => HasClaim(reg', now, n, i)
    BY <1>2, <2>1, RegisterEffect
  <2> QED
    BY <2>2, <2>3, ZenonT(30)
<1>4. RegistryOk(reg', dir', told', sent')
  <2>1. DOMAIN reg'.rows \subseteq dir
    BY <1>2, <1>3, ZenonT(30) DEF RegistryOk
  <2>2. ASSUME NEW n \in told PROVE RowsOf(reg', n) = {}
    <3>1. RowsOf(reg, n) = {}
      BY <1>2, ZenonT(30) DEF RegistryOk
    <3> QED
      BY <1>1, <1>3, <3>1 DEF RowsOf
  <2>3. ASSUME NEW n \in DOMAIN reg'.votes, NEW v \in reg'.votes[n].units PROVE Done(sent, v, n)
    BY <1>2, <1>3, ZenonT(30) DEF RegistryOk
  <2> QED
    BY <1>1, <1>3, <2>1, <2>2, <2>3, ZenonT(30) DEF RegistryOk
<1>5. Claims(att', active', reg', now', told')
  BY <1>1, <1>2, <1>3, ClaimsKept, ZenonT(30)
<1> QED
  BY <1>1, <1>2, <1>4, <1>5, Next_IInv, ZenonT(30)

(* CompleteRequestBlocks: who votes is done, so the last vote does not come   *)
(* while an attempt works.                                                    *)
LEMMA CompleteRequestBlocks_IInv ==
  ASSUME IInv, NEW u \in site.units, NEW k \in Uuids, CompleteRequestBlocks(u, k)
  PROVE  IInv'
<1>1. /\ site' = site /\ now' = now /\ att' = att /\ armed' = armed /\ sent' = sent /\ told' = told
      /\ dir' = dir /\ active' = active /\ reg' = Complete(reg, now, k, u).g
  BY ZenonT(30) DEF CompleteRequestBlocks
<1>2. /\ site \in Sites /\ now \in Nat /\ Attempts(att, armed) /\ Sessions(att, armed, active, sent)
      /\ RegistryOk(reg, dir, told, sent) /\ Claims(att, active, reg, now, told)
  BY ZenonT(30) DEF IInv
<1>3. Done(sent, u, k)
  BY ZenonT(30) DEF CompleteRequestBlocks, Done
<1>4. /\ Shape(reg')
      /\ \A v \in DOMAIN reg'.rows : v \in DOMAIN reg.rows /\ reg'.rows[v] = reg.rows[v]
      /\ \A n \in DOMAIN reg'.votes : \A v \in reg'.votes[n].units :
           (n = k /\ v = u) \/ (n \in DOMAIN reg.votes /\ v \in reg.votes[n].units)
      /\ \A n, i : HasClaim(reg, now, n, i) =>
           \/ HasClaim(reg', now, n, i)
           \/ /\ n = k
              /\ \A v \in site.units : v = u \/ (k \in DOMAIN reg.votes /\ v \in reg.votes[k].units)
  BY <1>1, <1>2, CompleteEffect DEF RegistryOk
<1>5. RegistryOk(reg', dir', told', sent')
  <2>1. DOMAIN reg'.rows \subseteq dir /\ \A n : RowsOf(reg', n) \subseteq RowsOf(reg, n)
    BY <1>2, <1>4, ZenonT(30) DEF RegistryOk, RowsOf
  <2>2. \A n \in told : RowsOf(reg', n) = {}
    BY <1>2, <2>1, ZenonT(30) DEF RegistryOk
  <2>3. ASSUME NEW n \in DOMAIN reg'.votes, NEW v \in reg'.votes[n].units PROVE Done(sent, v, n)
    BY <1>2, <1>3, <1>4, ZenonT(30) DEF RegistryOk
  <2> QED
    BY <1>1, <1>4, <2>1, <2>2, <2>3, ZenonT(30) DEF RegistryOk
<1>6. Claims(att', active', reg', now', told')
  <2>1. ASSUME Quiet, NEW i \in Att, Working(i, att[i], active), HasClaim(reg, now, Uuid(i), i)
        PROVE  HasClaim(reg', now, Uuid(i), i)
    <3>1. PICK v \in site.units : ~Done(sent, v, Uuid(i))
      BY <2>1, NotAllVoted, ZenonT(30) DEF Quiet
    <3> QED
      BY <1>2, <1>3, <1>4, <2>1, <3>1, ZenonT(30) DEF RegistryOk
  <2> QED
    BY <1>1, <1>2, <2>1, ClaimsKept, ZenonT(30)
<1> QED
  BY <1>1, <1>2, <1>5, <1>6, Next_IInv, ZenonT(30)

(* CancelRequestBlocks: it is told TRUE only where no claim stands.           *)
LEMMA CancelRequestBlocks_IInv ==
  ASSUME IInv, NEW k \in Uuids, CancelRequestBlocks(k)
  PROVE  IInv'
<1> DEFINE r == CancelIfUnclaimed(reg, now, k)
<1>1. /\ site' = site /\ now' = now /\ att' = att /\ armed' = armed /\ sent' = sent
      /\ dir' = dir /\ active' = active
      /\ reg' = r.g /\ told' = IF r.ok THEN told \cup {k} ELSE told
  BY ZenonT(30) DEF CancelRequestBlocks
<1>2. /\ site \in Sites /\ now \in Nat /\ Attempts(att, armed) /\ Sessions(att, armed, active, sent)
      /\ RegistryOk(reg, dir, told, sent) /\ Claims(att, active, reg, now, told)
  BY ZenonT(30) DEF IInv
<1>3. /\ Shape(r.g) /\ Below(r.g, reg)
      /\ r.ok => RowsOf(r.g, k) = {} /\ \A i : ~HasClaim(reg, now, k, i)
      /\ \A n, i : HasClaim(reg, now, n, i) => HasClaim(r.g, now, n, i)
  BY <1>2, CancelEffect, ZenonT(30) DEF RegistryOk
<1> HIDE DEF r
<1>4. RegistryOk(reg', dir', told', sent')
  <2>1. RegistryOk(reg', dir, told, sent)
    BY <1>1, <1>2, <1>3, RegistryBelow, ZenonT(30)
  <2>2. \A n \in told' : RowsOf(reg', n) = {}
    BY <1>1, <1>3, <2>1, ZenonT(30) DEF RegistryOk
  <2> QED
    BY <1>1, <2>1, <2>2, ZenonT(30) DEF RegistryOk
<1>5. Claims(att', active', reg', now', told')
  BY <1>1, <1>2, <1>3, ZenonT(30) DEF Claims
<1> QED
  BY <1>1, <1>2, <1>4, <1>5, Next_IInv, ZenonT(30)

(* ReleaseRequestBlocks: only on a site that allows it. *)
LEMMA ReleaseRequestBlocks_IInv ==
  ASSUME IInv, NEW k \in Uuids, ReleaseRequestBlocks(k)
  PROVE  IInv'
<1> DEFINE g == Purged(reg, now)
<1>1. /\ site' = site /\ now' = now /\ att' = att /\ armed' = armed /\ sent' = sent /\ told' = told
      /\ dir' = dir /\ active' = active /\ reg' = Retire(g, k) /\ site.release
  BY ZenonT(30) DEF ReleaseRequestBlocks, Release
<1>2. /\ site \in Sites /\ now \in Nat /\ Attempts(att, armed) /\ Sessions(att, armed, active, sent)
      /\ RegistryOk(reg, dir, told, sent) /\ Claims(att, active, reg, now, told)
  BY ZenonT(30) DEF IInv
<1>3. Shape(g) /\ Below(g, reg)
  BY <1>2, PurgeEffect, ZenonT(30) DEF RegistryOk
<1> HIDE DEF g
<1>4. Shape(reg') /\ Below(reg', g)
  BY <1>1, <1>3, RetireEffect, ZenonT(30)
<1>5. RegistryOk(reg', dir', told', sent')
  BY <1>1, <1>2, <1>3, <1>4, RegistryBelow, ZenonT(30)
<1>6. Claims(att', active', reg', now', told')
  BY <1>1, ZenonT(30) DEF Claims, Quiet
<1> QED
  BY <1>1, <1>2, <1>5, <1>6, Next_IInv, ZenonT(30)

(* --------------------------- the coordinator's attempts ------------------- *)

(* An attempt whose pc alone changes. *)
LEMMA PcFacts ==
  ASSUME NEW i, NEW a, NEW b, NEW R, NEW v, AttemptOk(i, a, R),
         b = [pc |-> b.pc, idx |-> b.idx, tries |-> b.tries, arms |-> b.arms, sends |-> b.sends],
         b.pc = v, b.idx = a.idx, b.arms = a.arms, b.sends = a.sends,
         \/ v \in {"fail", "ok", "done", "failed"}
         \/ v = "plan" /\ a.pc = "idle"
         \/ v = "abandon" /\ a.idx = 0 /\ a.pc \in {"plan", "arm"}
         \/ v = "send" /\ a.pc = "arm" /\ \A d \in Stage(i).dst : a.arms[d] = "ok"
  PROVE  /\ AttemptOk(i, b, R)
         /\ \A C : Working(i, b, C) => Working(i, a, C)
         /\ \A C, S, x, u : Reached(i, a, C, S, x, u) => Reached(i, b, C, S, x, u)
<1>1. AttemptOk(i, b, R)
  BY ZenonT(30) DEF AttemptOk
<1>2. a.pc = "idle" => a.idx = 0
  BY ZenonT(30) DEF AttemptOk
<1>3. ASSUME NEW C, Working(i, b, C) PROVE Working(i, a, C)
  <2>1. v \in {"arm", "plan", "send"} => a.pc = "arm" \/ (v = "plan" /\ ~(b.idx > 0))
    BY <1>2
  <2> QED
    BY <1>3, <2>1, ZenonT(30) DEF Working
<1>4. ASSUME NEW C, NEW S, NEW x, NEW u, Reached(i, a, C, S, x, u) PROVE Reached(i, b, C, S, x, u)
  BY <1>4, ZenonT(30) DEF Reached
<1> QED
  BY <1>1, <1>3, <1>4, ZenonT(30)

(* The pc of attempt i becomes v. *)
Goes(i, v) == att' = [att EXCEPT ![i].pc = v]

(* The steps of an attempt that change its pc alone. *)
LEMMA PcStep ==
  ASSUME IInv, NEW i \in Att, NEW v, Goes(i, v),
         armed' = armed, active' = active, sent' = sent,
         \/ v \in {"fail", "ok", "done", "failed"}
         \/ v = "plan" /\ att[i].pc = "idle"
         \/ v = "abandon" /\ att[i].idx = 0 /\ att[i].pc \in {"plan", "arm"}
         \/ /\ v = "send" /\ att[i].pc = "arm"
            /\ \A d \in Stage(i).dst : att[i].arms[d] = "ok"
  PROVE  /\ Attempts(att', armed') /\ Sessions(att', armed', active', sent')
         /\ \A j \in Att : Working(j, att'[j], active') => Working(j, att[j], active)
<1>1. /\ site \in Sites /\ Attempts(att, armed) /\ Sessions(att, armed, active, sent)
      /\ DOMAIN att = Att /\ DOMAIN armed = Dsts /\ AttemptOk(i, att[i], armed)
  BY ZenonT(30) DEF IInv, Attempts
<1> DEFINE a == att[i]
           b == att'[i]
<1>2. a = [pc |-> a.pc, idx |-> a.idx, tries |-> a.tries, arms |-> a.arms, sends |-> a.sends]
  BY <1>1, ZenonT(30) DEF AttemptOk
<1>3. /\ DOMAIN att' = Att /\ \A j \in Att : j # i => att'[j] = att[j]
      /\ b = [pc |-> b.pc, idx |-> b.idx, tries |-> b.tries, arms |-> b.arms, sends |-> b.sends]
      /\ b.pc = v /\ b.idx = a.idx /\ b.arms = a.arms /\ b.sends = a.sends
  BY <1>1, <1>2, PcChange, ZenonT(30) DEF Goes
<1>4. /\ AttemptOk(i, att'[i], armed)
      /\ \A C : Working(i, att'[i], C) => Working(i, att[i], C)
      /\ \A C, S, x, u : Reached(i, att[i], C, S, x, u) => Reached(i, att'[i], C, S, x, u)
  BY <1>1, <1>3, PcFacts, ZenonT(30)
<1> HIDE DEF a, b
<1>5. \A d \in Dsts : armed[d] \subseteq armed[d]
  BY ZenonT(30)
<1>6. Attempts(att', armed)
  BY <1>1, <1>3, <1>4, <1>5, AttemptsChange
<1>7. Sessions(att', armed, active, sent)
  BY <1>1, <1>3, <1>4, <1>5, SessionsChange, ZenonT(30)
<1>8. ASSUME NEW j \in Att, Working(j, att'[j], active) PROVE Working(j, att[j], active)
  BY <1>3, <1>4, <1>8, ZenonT(30)
<1> QED
  BY <1>6, <1>7, <1>8, ZenonT(30)

(* When the registry does not change the invariant follows. *)
LEMMA PcStep_IInv ==
  ASSUME IInv, NEW i \in Att, NEW v, Goes(i, v),
         armed' = armed, active' = active, sent' = sent,
         site' = site, now' = now, dir' = dir, reg' = reg, told' = told,
         \/ v \in {"fail", "ok", "done", "failed"}
         \/ v = "plan" /\ att[i].pc = "idle"
         \/ v = "abandon" /\ att[i].idx = 0 /\ att[i].pc \in {"plan", "arm"}
         \/ /\ v = "send" /\ att[i].pc = "arm"
            /\ \A d \in Stage(i).dst : att[i].arms[d] = "ok"
  PROVE  IInv'
<1>1. /\ site \in Sites /\ now \in Nat
      /\ RegistryOk(reg, dir, told, sent) /\ Claims(att, active, reg, now, told)
  BY ZenonT(30) DEF IInv
<1>2. /\ Attempts(att', armed') /\ Sessions(att', armed', active', sent')
      /\ \A j \in Att : Working(j, att'[j], active') => Working(j, att[j], active)
  BY PcStep, ZenonT(30)
<1>3. Claims(att', active', reg', now', told')
  BY <1>1, <1>2, ClaimsKept, ZenonT(30)
<1> QED
  BY <1>1, <1>2, <1>3, Next_IInv, ZenonT(30)

(* StartPoolReshard *)
LEMMA StartPoolReshard_IInv ==
  ASSUME IInv, NEW i \in Att, StartPoolReshard(i)
  PROVE  IInv'
<1>1. PICK v \in {"plan", "fail"} : Goes(i, v)
  BY ZenonT(30) DEF StartPoolReshard, Goes
<1> QED
  BY <1>1, PcStep_IInv, ZenonT(30) DEF StartPoolReshard

(* JoinSenders, RecordStatus: the next sub-plan has not been dispatched.      *)
LEMMA JoinSenders_IInv ==
  ASSUME IInv, NEW i \in Att, JoinSenders(i)
  PROVE  IInv'
<1>1. /\ site' = site /\ now' = now /\ armed' = armed /\ sent' = sent /\ told' = told
      /\ dir' = dir /\ active' = active /\ reg' = reg /\ att[i].pc = "send"
  BY ZenonT(30) DEF JoinSenders
<1>2. CASE att' = [att EXCEPT ![i].pc = "fail"] \/ att' = [att EXCEPT ![i].pc = "ok"]
  <2>1. PICK v \in {"fail", "ok"} : Goes(i, v)
    BY <1>2, ZenonT(30) DEF Goes
  <2> QED
    BY <1>1, <2>1, PcStep_IInv, ZenonT(30)
<1>3. CASE att[i].idx + 1 # site.chain /\ att' = [att EXCEPT ![i].pc = "plan", ![i].idx = @ + 1]
  <2> DEFINE a == att[i]
             b == att'[i]
  <2>1. /\ site \in Sites /\ now \in Nat /\ Attempts(att, armed) /\ Sessions(att, armed, active, sent)
        /\ RegistryOk(reg, dir, told, sent) /\ Claims(att, active, reg, now, told)
        /\ DOMAIN att = Att /\ DOMAIN armed = Dsts /\ AttemptOk(i, a, armed)
    BY ZenonT(30) DEF IInv, Attempts
  <2>2. a = [pc |-> a.pc, idx |-> a.idx, tries |-> a.tries, arms |-> a.arms, sends |-> a.sends]
    BY <2>1, ZenonT(30) DEF AttemptOk
  <2>3. DOMAIN att' = Att /\ \A j \in Att : j # i => att'[j] = att[j]
    BY <1>3, <2>1, ZenonT(30)
  <2>4. b = [a EXCEPT !.pc = "plan", !.idx = a.idx + 1]
    BY <1>3, <2>1, ZenonT(30)
  <2>a. a.pc = "send" /\ a.idx + 1 # site.chain
    BY <1>1, <1>3, ZenonT(30)
  <2> HIDE DEF a, b
  <2>5. b = [pc |-> "plan", idx |-> a.idx + 1, tries |-> a.tries, arms |-> a.arms, sends |-> a.sends]
    BY <2>2, <2>4, ZenonT(30)
  <2>6. /\ b = [pc |-> b.pc, idx |-> b.idx, tries |-> b.tries, arms |-> b.arms, sends |-> b.sends]
        /\ b.pc = "plan" /\ b.idx = a.idx + 1
    BY <2>5, ZenonT(30)
  <2>7. site.chain \in Nat \ {0} /\ a.idx \in 0..site.chain - 1 /\ Senders(i) # {}
    BY <2>1, <2>a, SiteFacts, ZenonT(30) DEF AttemptOk
  <2>8. b.idx \in 0..site.chain - 1 /\ a.idx + 1 < site.chain
    BY <2>a, <2>6, <2>7
  <2>9. AttemptOk(i, b, armed)
    BY <2>6, <2>7, <2>8, ZenonT(30) DEF AttemptOk
  <2>10. Attempts(att', armed')
    BY <1>1, <2>1, <2>3, <2>9, AttemptsChange DEF b
  <2>11. ASSUME NEW u \in site.units, NEW x \in 0..site.chain - 1, Reached(i, a, active, sent, x, u)
         PROVE  Reached(i, b, active, sent, x, u)
    BY <2>6, <2>7, <2>11 DEF Reached
  <2>12. Sessions(att', armed', active', sent')
    BY <1>1, <2>1, <2>3, <2>11, SessionsChange, ZenonT(30) DEF a, b
  <2>13. Working(i, a, active)
    BY <2>a, <2>8, ZenonT(30) DEF Working
  <2>14. \A j \in Att : Working(j, att'[j], active') => Working(j, att[j], active)
    BY <1>1, <2>3, <2>13, ZenonT(30) DEF a
  <2>15. Claims(att', active', reg', now', told')
    BY <1>1, <2>1, <2>14, ClaimsKept, ZenonT(30)
  <2> QED
    BY <1>1, <2>1, <2>10, <2>12, <2>15, Next_IInv, ZenonT(30)
<1> QED
  BY <1>2, <1>3, ZenonT(30) DEF JoinSenders

(* RecordStatus: the attempt has nothing more to do. *)
LEMMA RecordStatus_IInv ==
  ASSUME IInv, NEW i \in Att, RecordStatus(i)
  PROVE  IInv'
<1>1. PICK v \in {"done", "failed"} : Goes(i, v)
  BY ZenonT(30) DEF RecordStatus, Goes
<1> QED
  BY <1>1, PcStep_IInv, ZenonT(30) DEF RecordStatus

(* Abandon: the first sub-plan dispatched nothing, so the claim that is given *)
(* up is of an attempt that does not work.                                    *)
LEMMA Abandon_IInv ==
  ASSUME IInv, NEW i \in Att, Abandon(i)
  PROVE  IInv'
<1>1. /\ site' = site /\ now' = now /\ armed' = armed /\ sent' = sent /\ told' = told
      /\ dir' = dir /\ active' = active /\ att[i].pc = "abandon"
      /\ reg' = AbandonClaim(reg, Uuid(i), i) /\ Goes(i, "fail")
  BY ZenonT(30) DEF Abandon, Goes
<1>2. /\ site \in Sites /\ now \in Nat /\ Attempts(att, armed) /\ Sessions(att, armed, active, sent)
      /\ RegistryOk(reg, dir, told, sent) /\ Claims(att, active, reg, now, told)
  BY ZenonT(30) DEF IInv
<1>3. /\ Attempts(att', armed') /\ Sessions(att', armed', active', sent')
      /\ \A j \in Att : Working(j, att'[j], active') => Working(j, att[j], active)
  BY <1>1, PcStep, ZenonT(30)
<1>4. /\ Shape(reg') /\ Below(reg', reg)
      /\ \A k, j : HasClaim(reg, now, k, j) /\ ~(k = Uuid(i) /\ j = i) => HasClaim(reg', now, k, j)
  BY <1>1, <1>2, AbandonEffect, ZenonT(30) DEF RegistryOk
<1>5. ~Working(i, att[i], active)
  <2>1. att[i].idx = 0 /\ site.chain \in Nat \ {0}
    BY <1>1, <1>2, SiteFacts, ZenonT(30) DEF Attempts, AttemptOk
  <2>2. ASSUME NEW u \in site.units, NEW x \in 0..site.chain - 1 PROVE <<i, x>> \notin active[u]
    <3>1. Reached(i, att[i], active, sent, x, u)
      BY <1>2, ZenonT(30) DEF Sessions
    <3> QED
      BY <1>1, <2>1, <3>1 DEF Reached, Dispatched
  <2> QED
    BY <1>1, <2>2, ZenonT(30) DEF Working
<1>6. RegistryOk(reg', dir', told', sent')
  BY <1>1, <1>2, <1>4, RegistryBelow, ZenonT(30)
<1>7. Claims(att', active', reg', now', told')
  <2>1. \A j \in Att : Working(j, att[j], active) /\ HasClaim(reg, now, Uuid(j), j)
                         => HasClaim(reg', now, Uuid(j), j)
    BY <1>4, <1>5, ZenonT(30)
  <2> QED
    BY <1>1, <1>2, <1>3, <2>1, ClaimsKept, ZenonT(30)
<1> QED
  BY <1>1, <1>2, <1>3, <1>6, <1>7, Next_IInv, ZenonT(30)

(* BuildPlan: the claim is granted on the rows of all units, which a          *)
(* generation told cancelled does not have; it is not taken back at once, for *)
(* a source of the attempt has yet to vote.                                   *)
LEMMA BuildPlan_IInv ==
  ASSUME IInv, NEW i \in Att, BuildPlan(i)
  PROVE  IInv'
<1> DEFINE r == LookupAndClaim(reg, now, Uuid(i), site.units, i)
           arms == [d \in Stage(i).dst |-> "none"]
           sends == [u \in Senders(i) |-> "none"]
<1>1. /\ site' = site /\ now' = now /\ armed' = armed /\ sent' = sent /\ told' = told
      /\ dir' = dir /\ active' = active /\ att[i].pc = "plan" /\ reg' = r.g
  BY ZenonT(30) DEF BuildPlan
<1>2. /\ site \in Sites /\ now \in Nat /\ Attempts(att, armed) /\ Sessions(att, armed, active, sent)
      /\ RegistryOk(reg, dir, told, sent) /\ Claims(att, active, reg, now, told)
      /\ DOMAIN att = Att /\ DOMAIN armed = Dsts /\ AttemptOk(i, att[i], armed)
  BY ZenonT(30) DEF IInv, Attempts
<1>3. \/ /\ r.ok /\ Senders(i) # {}
         /\ att' = [att EXCEPT ![i].pc = "arm", ![i].tries = 1, ![i].arms = arms, ![i].sends = sends]
      \/ Goes(i, IF att[i].idx = 0 THEN "abandon" ELSE "fail")
  BY ZenonT(30) DEF BuildPlan, Goes
<1>4. /\ Shape(r.g) /\ Below(r.g, reg)
      /\ r.ok => site.units \subseteq RowsOf(reg, Uuid(i))
      /\ r.ok => HasClaim(r.g, now, Uuid(i), i) \/ AllVoted(reg, Uuid(i))
      /\ \A k, j : HasClaim(reg, now, k, j) =>
           HasClaim(r.g, now, k, j) \/ (k = Uuid(i) /\ AllVoted(reg, Uuid(i)))
  BY <1>2, ClaimEffect DEF RegistryOk
<1> HIDE DEF r
<1>5. RegistryOk(reg', dir', told', sent')
  BY <1>1, <1>2, <1>4, RegistryBelow, ZenonT(30)
<1>6. ASSUME Quiet, NEW j \in Att, Working(j, att[j], active), HasClaim(reg, now, Uuid(j), j)
      PROVE  HasClaim(reg', now, Uuid(j), j)
  <2>1. ~AllVoted(reg, Uuid(j))
    BY <1>6, NotAllVoted, ZenonT(30) DEF Quiet
  <2> QED
    BY <1>1, <1>4, <1>6, <2>1, ZenonT(30)
<1>7. CASE Goes(i, IF att[i].idx = 0 THEN "abandon" ELSE "fail")
  <2>1. /\ Attempts(att', armed') /\ Sessions(att', armed', active', sent')
        /\ \A j \in Att : Working(j, att'[j], active') => Working(j, att[j], active)
    <3> DEFINE v == IF att[i].idx = 0 THEN "abandon" ELSE "fail"
    <3>1. Goes(i, v) /\ (v = "fail" \/ (v = "abandon" /\ att[i].idx = 0))
      BY <1>7, ZenonT(30)
    <3> HIDE DEF v
    <3> QED
      BY <1>1, <3>1, PcStep, ZenonT(30)
  <2>2. Claims(att', active', reg', now', told')
    BY <1>1, <1>2, <1>6, <2>1, ClaimsKept, ZenonT(30)
  <2> QED
    BY <1>1, <1>2, <1>5, <2>1, <2>2, Next_IInv, ZenonT(30)
<1>8. CASE /\ r.ok /\ Senders(i) # {}
           /\ att' = [att EXCEPT ![i].pc = "arm", ![i].tries = 1, ![i].arms = arms, ![i].sends = sends]
  <2> DEFINE a == att[i]
             b == att'[i]
  <2>1. DOMAIN att' = Att /\ \A j \in Att : j # i => att'[j] = att[j]
    BY <1>2, <1>8, ZenonT(30)
  <2>2. b = [a EXCEPT !.pc = "arm", !.tries = 1, !.arms = arms, !.sends = sends]
    <3> HIDE DEF arms, sends
    <3> QED
      BY <1>2, <1>8, ZenonT(30)
  <2>3. a = [pc |-> a.pc, idx |-> a.idx, tries |-> a.tries, arms |-> a.arms, sends |-> a.sends]
    BY <1>2, ZenonT(30) DEF AttemptOk
  <2>4. a.pc = "plan" /\ a.idx \in 0..site.chain - 1 /\ Senders(i) # {}
    BY <1>1, <1>2, <1>8, ZenonT(30) DEF AttemptOk
  <2> HIDE DEF a, b
  <2>5. b = [pc |-> "arm", idx |-> a.idx, tries |-> 1, arms |-> arms, sends |-> sends]
    <3> HIDE DEF arms, sends
    <3> QED
      BY <2>2, <2>3, ZenonT(30)
  <2>6. /\ b = [pc |-> b.pc, idx |-> b.idx, tries |-> b.tries, arms |-> b.arms, sends |-> b.sends]
        /\ b.pc = "arm" /\ b.idx = a.idx /\ b.arms = arms /\ b.sends = sends
    BY <2>5, ZenonT(30)
  <2>7. /\ DOMAIN b.arms = Stage(i).dst /\ \A d \in Stage(i).dst : b.arms[d] = "none"
        /\ DOMAIN b.sends = Senders(i) /\ \A u \in Senders(i) : b.sends[u] = "none"
    BY <2>6, ZenonT(30)
  <2>8. AttemptOk(i, b, armed)
    <3> HIDE DEF arms, sends
    <3> QED
      BY <2>4, <2>6, <2>7, ZenonT(30) DEF AttemptOk
  <2>9. \A d \in Dsts : armed[d] \subseteq armed'[d]
    BY <1>1, ZenonT(30)
  <2>10. Attempts(att', armed')
    BY <1>1, <1>2, <2>1, <2>8, <2>9, AttemptsChange DEF b
  <2>11. ASSUME NEW u \in site.units, NEW x \in 0..site.chain - 1, Reached(i, a, active, sent, x, u)
         PROVE  Reached(i, b, active, sent, x, u)
    BY <2>4, <2>6, <2>11, ZenonT(30) DEF Reached
  <2>12. Sessions(att', armed', active', sent')
    BY <1>1, <1>2, <2>1, <2>9, <2>11, SessionsChange, ZenonT(30) DEF a, b
  <2>13. ASSUME Quiet PROVE HasClaim(reg', now, Uuid(i), i) /\ Uuid(i) \notin told
    <3>1. ~AllVoted(reg, Uuid(i))
      BY <1>1, <1>8, <2>13, NotAllVoted, ZenonT(30) DEF Quiet
    <3>2. site.units # {} /\ site.units \subseteq RowsOf(reg, Uuid(i))
      BY <1>2, <1>4, <1>8, SiteFacts, ZenonT(30)
    <3> QED
      BY <1>1, <1>2, <1>4, <1>8, <3>1, <3>2, ZenonT(30) DEF RegistryOk
  <2>14. ASSUME Quiet, NEW j \in Att, Working(j, att'[j], active')
         PROVE  HasClaim(reg', now, Uuid(j), j) /\ Uuid(j) \notin told
    <3>1. CASE j = i
      BY <2>13, <2>14, <3>1, ZenonT(30)
    <3>2. CASE j # i
      <4>1. Working(j, att[j], active)
        BY <1>1, <2>1, <2>14, <3>2, ZenonT(30)
      <4> QED
        BY <1>2, <1>6, <2>14, <4>1, ZenonT(30) DEF Claims
    <3> QED
      BY <3>1, <3>2, ZenonT(30)
  <2>15. Claims(att', active', reg', now', told')
    BY <1>1, <2>14, ZenonT(30) DEF Claims
  <2> QED
    BY <1>1, <1>2, <1>5, <2>10, <2>12, <2>15, Next_IInv, ZenonT(30)
<1> QED
  BY <1>3, <1>7, <1>8, ZenonT(30)

(* ArmReceiver: the answer "ok" comes with a session.                         *)
LEMMA ArmReceiver_IInv ==
  ASSUME IInv, NEW i \in Att, NEW d \in Dsts, ArmReceiver(i, d)
  PROVE  IInv'
<1>1. /\ site' = site /\ now' = now /\ sent' = sent /\ told' = told /\ reg' = reg
      /\ dir' = dir /\ active' = active /\ att[i].pc = "arm" /\ d \in Stage(i).dst
  BY ZenonT(30) DEF ArmReceiver
<1>2. PICK out \in {"ok", "lost", "busy", "refused"} :
        /\ att' = [att EXCEPT ![i].arms[d] = out]
        /\ armed' = IF out \in {"ok", "lost"}
                    THEN [armed EXCEPT ![d] = @ \cup {<<i, att[i].idx>>}]
                    ELSE armed
  BY ZenonT(30) DEF ArmReceiver
<1>3. /\ site \in Sites /\ now \in Nat /\ Attempts(att, armed) /\ Sessions(att, armed, active, sent)
      /\ RegistryOk(reg, dir, told, sent) /\ Claims(att, active, reg, now, told)
      /\ DOMAIN att = Att /\ DOMAIN armed = Dsts /\ AttemptOk(i, att[i], armed)
  BY ZenonT(30) DEF IInv, Attempts
<1> DEFINE a == att[i]
           b == att'[i]
           arms == [a.arms EXCEPT ![d] = out]
<1>4. /\ DOMAIN armed' = Dsts /\ \A e \in Dsts : armed[e] \subseteq armed'[e]
      /\ out = "ok" => <<i, a.idx>> \in armed'[d]
  BY <1>2, <1>3, ZenonT(30)
<1>5. DOMAIN att' = Att /\ \A j \in Att : j # i => att'[j] = att[j]
  BY <1>2, <1>3, ZenonT(30)
<1>6. b = [a EXCEPT !.arms = arms]
  BY <1>2, <1>3, ZenonT(30)
<1>7. /\ a = [pc |-> a.pc, idx |-> a.idx, tries |-> a.tries, arms |-> a.arms, sends |-> a.sends]
      /\ a.pc = "arm" /\ DOMAIN a.arms = Stage(i).dst
  BY <1>1, <1>3, ZenonT(30) DEF AttemptOk
<1>8. /\ DOMAIN arms = Stage(i).dst /\ arms[d] = out
      /\ \A e \in Stage(i).dst : e # d => arms[e] = a.arms[e]
  BY <1>1, <1>7, ZenonT(30)
<1>9. AttemptOk(i, a, armed)
  BY <1>3, ZenonT(30)
<1> HIDE DEF a, b, arms
<1>10. b = [pc |-> a.pc, idx |-> a.idx, tries |-> a.tries, arms |-> arms, sends |-> a.sends]
  BY <1>6, <1>7, ZenonT(30)
<1>11. /\ b = [pc |-> b.pc, idx |-> b.idx, tries |-> b.tries, arms |-> b.arms, sends |-> b.sends]
       /\ b.pc = a.pc /\ b.idx = a.idx /\ b.arms = arms /\ b.sends = a.sends
  BY <1>10, ZenonT(30)
<1>12. AttemptOk(i, b, armed')
  <2>1. ASSUME NEW e \in Stage(i).dst, b.arms[e] = "ok" PROVE <<i, b.idx>> \in armed'[e]
    <3>1. e \in Dsts
      BY <1>3, SiteFacts, ZenonT(30)
    <3> QED
      BY <1>4, <1>7, <1>8, <1>9, <1>11, <2>1, <3>1, ZenonT(30) DEF AttemptOk
  <2> QED
    BY <1>7, <1>8, <1>9, <1>11, <2>1, ZenonT(30) DEF AttemptOk
<1>13. Attempts(att', armed')
  BY <1>3, <1>4, <1>5, <1>12, AttemptsChange DEF b
<1>14. ASSUME NEW u \in site.units, NEW x \in 0..site.chain - 1, Reached(i, a, active, sent, x, u)
       PROVE  Reached(i, b, active, sent, x, u)
  BY <1>11, <1>14, ZenonT(30) DEF Reached
<1>15. Sessions(att', armed', active', sent')
  BY <1>1, <1>3, <1>4, <1>5, <1>14, SessionsChange, ZenonT(30) DEF a, b
<1>16. \A j \in Att : Working(j, att'[j], active') => Working(j, att[j], active)
  <2>1. Working(i, a, active)
    BY <1>7, ZenonT(30) DEF Working
  <2> QED
    BY <1>1, <1>5, <2>1, ZenonT(30) DEF a
<1>17. Claims(att', active', reg', now', told')
  BY <1>1, <1>3, <1>16, ClaimsKept, ZenonT(30)
<1> QED
  BY <1>1, <1>3, <1>13, <1>15, <1>17, Next_IInv, ZenonT(30)

(* JoinArmers: senders are dispatched when every answer was "ok".             *)
LEMMA JoinArmers_IInv ==
  ASSUME IInv, NEW i \in Att, JoinArmers(i)
  PROVE  IInv'
<1> DEFINE left == {d \in Stage(i).dst : att[i].arms[d] # "ok"}
           arms == [d \in Stage(i).dst |-> IF d \in left THEN "none" ELSE "ok"]
<1>1. /\ site' = site /\ now' = now /\ sent' = sent /\ told' = told /\ reg' = reg
      /\ dir' = dir /\ active' = active /\ armed' = armed /\ att[i].pc = "arm"
  BY ZenonT(30) DEF JoinArmers
<1>2. \/ left = {} /\ Goes(i, "send")
      \/ att' = [att EXCEPT ![i].tries = @ + 1, ![i].arms = arms]
      \/ Goes(i, IF att[i].idx = 0 THEN "abandon" ELSE "fail")
  BY ZenonT(30) DEF JoinArmers, Goes
<1>3. CASE left = {} /\ Goes(i, "send")
  BY <1>1, <1>3, PcStep_IInv, ZenonT(30)
<1>4. CASE Goes(i, IF att[i].idx = 0 THEN "abandon" ELSE "fail")
  <2> DEFINE v == IF att[i].idx = 0 THEN "abandon" ELSE "fail"
  <2>1. Goes(i, v) /\ (v = "fail" \/ (v = "abandon" /\ att[i].idx = 0))
    BY <1>4, ZenonT(30)
  <2> HIDE DEF v
  <2> QED
    BY <1>1, <2>1, PcStep_IInv, ZenonT(30)
<1>5. CASE att' = [att EXCEPT ![i].tries = @ + 1, ![i].arms = arms]
  <2>1. /\ site \in Sites /\ now \in Nat /\ Attempts(att, armed) /\ Sessions(att, armed, active, sent)
        /\ RegistryOk(reg, dir, told, sent) /\ Claims(att, active, reg, now, told)
        /\ DOMAIN att = Att /\ DOMAIN armed = Dsts /\ AttemptOk(i, att[i], armed)
    BY ZenonT(30) DEF IInv, Attempts
  <2> DEFINE a == att[i]
             b == att'[i]
             n == a.tries + 1
  <2>2. DOMAIN att' = Att /\ \A j \in Att : j # i => att'[j] = att[j]
    BY <1>5, <2>1, ZenonT(30)
  <2>3. b = [a EXCEPT !.tries = n, !.arms = arms]
    <3> HIDE DEF arms
    <3> QED
      BY <1>5, <2>1, ZenonT(30)
  <2>4. /\ a = [pc |-> a.pc, idx |-> a.idx, tries |-> a.tries, arms |-> a.arms, sends |-> a.sends]
        /\ a.pc = "arm" /\ AttemptOk(i, a, armed)
    BY <1>1, <2>1, ZenonT(30) DEF AttemptOk
  <2>5. DOMAIN arms = Stage(i).dst /\ \A d \in Stage(i).dst : arms[d] = "ok" => a.arms[d] = "ok"
    BY ZenonT(30)
  <2> HIDE DEF a, b, n, arms
  <2>6. b = [pc |-> a.pc, idx |-> a.idx, tries |-> n, arms |-> arms, sends |-> a.sends]
    BY <2>3, <2>4, ZenonT(30)
  <2>7. /\ b = [pc |-> b.pc, idx |-> b.idx, tries |-> b.tries, arms |-> b.arms, sends |-> b.sends]
        /\ b.pc = a.pc /\ b.idx = a.idx /\ b.arms = arms /\ b.sends = a.sends
    BY <2>6, ZenonT(30)
  <2>8. AttemptOk(i, b, armed)
    BY <2>4, <2>5, <2>7, ZenonT(30) DEF AttemptOk
  <2>9. \A d \in Dsts : armed[d] \subseteq armed'[d]
    BY <1>1, ZenonT(30)
  <2>10. Attempts(att', armed')
    BY <1>1, <2>1, <2>2, <2>8, <2>9, AttemptsChange DEF b
  <2>11. ASSUME NEW u \in site.units, NEW x \in 0..site.chain - 1, Reached(i, a, active, sent, x, u)
         PROVE  Reached(i, b, active, sent, x, u)
    BY <2>7, <2>11, ZenonT(30) DEF Reached
  <2>12. Sessions(att', armed', active', sent')
    BY <1>1, <2>1, <2>2, <2>9, <2>11, SessionsChange, ZenonT(30) DEF a, b
  <2>13. \A j \in Att : Working(j, att'[j], active') => Working(j, att[j], active)
    <3>1. Working(i, a, active)
      BY <2>4, ZenonT(30) DEF Working
    <3> QED
      BY <1>1, <2>2, <3>1, ZenonT(30) DEF a
  <2>14. Claims(att', active', reg', now', told')
    BY <1>1, <2>1, <2>13, ClaimsKept, ZenonT(30)
  <2> QED
    BY <1>1, <2>1, <2>10, <2>12, <2>14, Next_IInv, ZenonT(30)
<1> QED
  BY <1>2, <1>3, <1>4, <1>5, ZenonT(30)

(* DispatchSender: the sub-plan in hand is dispatched to a sender once, with  *)
(* all destinations armed.                                                    *)
LEMMA DispatchSender_IInv ==
  ASSUME IInv, NEW i \in Att, NEW u \in site.units, DispatchSender(i, u)
  PROVE  IInv'
<1>1. /\ site' = site /\ now' = now /\ sent' = sent /\ told' = told /\ reg' = reg
      /\ dir' = dir /\ armed' = armed
      /\ att[i].pc = "send" /\ u \in Senders(i) /\ att[i].sends[u] = "none"
  BY ZenonT(30) DEF DispatchSender
<1>2. PICK out \in {"ok", "lost", "refused"} :
        /\ att' = [att EXCEPT ![i].sends[u] = out]
        /\ active' = IF out = "refused" THEN active
                     ELSE [active EXCEPT ![u] = @ \cup {<<i, att[i].idx>>}]
  BY ZenonT(30) DEF DispatchSender
<1>3. /\ site \in Sites /\ now \in Nat /\ Attempts(att, armed) /\ Sessions(att, armed, active, sent)
      /\ RegistryOk(reg, dir, told, sent) /\ Claims(att, active, reg, now, told)
      /\ DOMAIN att = Att /\ DOMAIN armed = Dsts /\ AttemptOk(i, att[i], armed)
  BY ZenonT(30) DEF IInv, Attempts
<1> DEFINE a == att[i]
           b == att'[i]
           sends == [a.sends EXCEPT ![u] = out]
<1>4. DOMAIN att' = Att /\ \A j \in Att : j # i => att'[j] = att[j]
  BY <1>2, <1>3, ZenonT(30)
<1>5. b = [a EXCEPT !.sends = sends]
  BY <1>2, <1>3, ZenonT(30)
<1>6. /\ a = [pc |-> a.pc, idx |-> a.idx, tries |-> a.tries, arms |-> a.arms, sends |-> a.sends]
      /\ a.pc = "send" /\ DOMAIN a.sends = Senders(i) /\ a.sends[u] = "none"
      /\ a.idx \in 0..site.chain - 1
      /\ \A d \in Stage(i).dst : <<i, a.idx>> \in armed[d]
      /\ AttemptOk(i, a, armed)
  BY <1>1, <1>3, ZenonT(30) DEF AttemptOk
<1>7. /\ DOMAIN sends = Senders(i) /\ sends[u] = out
      /\ \A v \in Senders(i) : v # u => sends[v] = a.sends[v]
  BY <1>1, <1>6, ZenonT(30)
<1>8. /\ DOMAIN active' = site.units
      /\ \A v \in site.units : v # u => active'[v] = active[v]
      /\ \A e \in active'[u] : e \in active[u] \/ e = <<i, a.idx>>
  BY <1>2, <1>3, ZenonT(30) DEF Sessions
<1> HIDE DEF a, b, sends
<1>9. b = [pc |-> a.pc, idx |-> a.idx, tries |-> a.tries, arms |-> a.arms, sends |-> sends]
  BY <1>5, <1>6, ZenonT(30)
<1>10. /\ b = [pc |-> b.pc, idx |-> b.idx, tries |-> b.tries, arms |-> b.arms, sends |-> b.sends]
       /\ b.pc = a.pc /\ b.idx = a.idx /\ b.arms = a.arms /\ b.sends = sends
  BY <1>9, ZenonT(30)
<1>11. AttemptOk(i, b, armed)
  BY <1>6, <1>7, <1>10, ZenonT(30) DEF AttemptOk
<1>12. Attempts(att', armed')
  <2>1. \A d \in Dsts : armed[d] \subseteq armed'[d]
    BY <1>1, ZenonT(30)
  <2> QED
    BY <1>1, <1>3, <1>4, <1>11, <2>1, AttemptsChange DEF b
<1>13. <<i, a.idx, u>> \notin sent
  <2>1. Reached(i, a, active, sent, a.idx, u)
    BY <1>3, <1>6, ZenonT(30) DEF Sessions, a
  <2> QED
    BY <1>6, <2>1, ZenonT(30) DEF Reached, Dispatched
<1>14. ASSUME NEW v \in site.units PROVE SourceOk(v, active'[v], armed, sent)
  <2>1. SourceOk(v, active[v], armed, sent)
    BY <1>3, ZenonT(30) DEF Sessions
  <2>2. CASE v # u
    BY <1>8, <2>1, <2>2, ZenonT(30)
  <2>3. CASE v = u
    <3>1. active'[u] \subseteq Att \X (0..site.chain - 1)
      BY <1>6, <1>8, <2>1, <2>3 DEF SourceOk
    <3>2. ASSUME NEW j \in Att, NEW x \in 0..site.chain - 1, <<j, x>> \in active'[u]
          PROVE  /\ u \in Senders(j) /\ <<j, x, u>> \notin sent
                 /\ \A d \in Stage(j).dst : <<j, x>> \in armed[d]
      <4>1. CASE <<j, x>> \in active[u]
        BY <2>1, <2>3, <4>1, ZenonT(30) DEF SourceOk
      <4>2. CASE j = i /\ x = a.idx
        BY <1>1, <1>6, <1>13, <4>2, ZenonT(30)
      <4> QED
        BY <1>8, <3>2, <4>1, <4>2, ZenonT(30)
    <3> QED
      BY <2>3, <3>1, <3>2, ZenonT(30) DEF SourceOk
  <2> QED
    BY <2>2, <2>3, ZenonT(30)
<1>15. ASSUME NEW j \in Att, NEW v \in site.units, NEW x \in 0..site.chain - 1
       PROVE  Reached(j, att'[j], active', sent, x, v)
  <2>1. Reached(j, att[j], active, sent, x, v)
    BY <1>3, ZenonT(30) DEF Sessions
  <2>2. Dispatched(active', sent, j, x, v) =>
          Dispatched(active, sent, j, x, v) \/ (j = i /\ x = a.idx /\ v = u)
    BY <1>8, ZenonT(30) DEF Dispatched
  <2>3. CASE j # i
    BY <1>4, <2>1, <2>2, <2>3, ZenonT(30) DEF Reached
  <2>4. CASE j = i
    <3>1. Reached(i, a, active, sent, x, v)
      BY <2>1, <2>4, ZenonT(30) DEF a
    <3>2. CASE v = u
      <4>1. b.sends[v] # "none" /\ b.pc = "send" /\ b.idx \in Int
        BY <1>6, <1>7, <1>10, <3>2
      <4>2. Dispatched(active', sent, i, x, v) => x <= b.idx
        BY <1>6, <1>10, <2>2, <2>4, <3>1 DEF Reached
      <4>3. Reached(i, b, active', sent, x, v)
        BY <1>1, <3>2, <4>1, <4>2, ZenonT(30) DEF Reached
      <4> QED
        BY <2>4, <4>3, ZenonT(30) DEF b
    <3>3. CASE v # u
      <4>1. v \in Senders(i) => sends[v] = a.sends[v]
        BY <1>7, <3>3, ZenonT(30)
      <4>2. Dispatched(active', sent, i, x, v) => Dispatched(active, sent, i, x, v)
        BY <2>2, <2>4, <3>3, ZenonT(30)
      <4>3. Reached(i, b, active', sent, x, v)
        BY <1>10, <3>1, <4>1, <4>2, ZenonT(30) DEF Reached
      <4> QED
        BY <2>4, <4>3, ZenonT(30) DEF b
    <3> QED
      BY <3>2, <3>3, ZenonT(30)
  <2> QED
    BY <2>3, <2>4, ZenonT(30)
<1>16. Sessions(att', armed', active', sent')
  BY <1>1, <1>8, <1>14, <1>15, ZenonT(30) DEF Sessions
<1>17. Working(i, a, active)
  BY <1>1, <1>6, ZenonT(30) DEF Working
<1>18. ASSUME NEW j \in Att, Working(j, att'[j], active') PROVE Working(j, att[j], active)
  <2>1. CASE j = i
    BY <1>17, <2>1, ZenonT(30) DEF a
  <2>2. CASE j # i
    <3>1. \A v \in site.units : \A x \in 0..site.chain - 1 : <<j, x>> \in active'[v] => <<j, x>> \in active[v]
      BY <1>8, <2>2, ZenonT(30)
    <3> QED
      BY <1>4, <1>18, <2>2, <3>1, ZenonT(30) DEF Working
  <2> QED
    BY <2>1, <2>2, ZenonT(30)
<1>19. Claims(att', active', reg', now', told')
  BY <1>1, <1>3, <1>18, ClaimsKept, ZenonT(30)
<1> QED
  BY <1>1, <1>3, <1>12, <1>16, <1>19, Next_IInv, ZenonT(30)

(* ------------------------------ workers and time -------------------------- *)

(* SessionEnds: a session that ends goes from being sent to sent, or is lost. *)
LEMMA SessionEnds_IInv ==
  ASSUME IInv, NEW u \in site.units, NEW e \in active[u], SessionEnds(u, e)
  PROVE  IInv'
<1>1. /\ site' = site /\ now' = now /\ att' = att /\ told' = told /\ reg' = reg
      /\ dir' = dir /\ armed' = armed /\ active' = [active EXCEPT ![u] = @ \ {e}]
      /\ sent' = sent \/ sent' = sent \cup {<<e[1], e[2], u>>}
  BY ZenonT(30) DEF SessionEnds
<1>2. /\ site \in Sites /\ now \in Nat /\ Attempts(att, armed) /\ Sessions(att, armed, active, sent)
      /\ RegistryOk(reg, dir, told, sent) /\ Claims(att, active, reg, now, told)
  BY ZenonT(30) DEF IInv
<1>3. PICK i \in Att, y \in 0..site.chain - 1 : e = <<i, y>>
  BY <1>2 DEF Sessions, SourceOk
<1>4. /\ DOMAIN active' = site.units /\ active'[u] = active[u] \ {e}
      /\ \A v \in site.units : v # u => active'[v] = active[v]
  BY <1>1, <1>2, ZenonT(30) DEF Sessions
<1>5. sent \subseteq sent' /\ \A j, x, v : <<j, x, v>> \in sent' => <<j, x, v>> \in sent \/ (j = i /\ x = y /\ v = u)
  BY <1>1, <1>3, ZenonT(30)
<1>6. ASSUME NEW v \in site.units PROVE SourceOk(v, active'[v], armed, sent')
  <2>1. SourceOk(v, active[v], armed, sent) /\ active'[v] \subseteq active[v]
    BY <1>2, <1>4, ZenonT(30) DEF Sessions
  <2>2. ASSUME NEW j \in Att, NEW x \in 0..site.chain - 1, <<j, x>> \in active'[v]
        PROVE  <<j, x, v>> \notin sent'
    BY <1>3, <1>4, <1>5, <2>1, <2>2, ZenonT(30) DEF SourceOk
  <2> QED
    BY <2>1, <2>2, ZenonT(30) DEF SourceOk
<1>7. ASSUME NEW j \in Att, NEW v \in site.units, NEW x \in 0..site.chain - 1
      PROVE  Reached(j, att[j], active', sent', x, v)
  <2>1. Reached(j, att[j], active, sent, x, v)
    BY <1>2, ZenonT(30) DEF Sessions
  <2>2. Dispatched(active', sent', j, x, v) => Dispatched(active, sent, j, x, v)
    BY <1>3, <1>4, <1>5, ZenonT(30) DEF Dispatched
  <2> QED
    BY <2>1, <2>2, ZenonT(30) DEF Reached
<1>8. Sessions(att', armed', active', sent')
  BY <1>1, <1>4, <1>6, <1>7, ZenonT(30) DEF Sessions
<1>9. RegistryOk(reg', dir', told', sent')
  <2>1. \A v, k : Done(sent, v, k) => Done(sent', v, k)
    BY <1>5, ZenonT(30) DEF Done
  <2> QED
    BY <1>1, <1>2, <2>1, ZenonT(30) DEF RegistryOk
<1>10. Claims(att', active', reg', now', told')
  <2>1. \A j \in Att : Working(j, att[j], active') => Working(j, att[j], active)
    BY <1>4, ZenonT(30) DEF Working
  <2> QED
    BY <1>1, <1>2, <2>1, ClaimsKept, ZenonT(30)
<1> QED
  BY <1>1, <1>2, <1>8, <1>9, <1>10, Next_IInv, ZenonT(30)

(* Tick: an attempt that works makes its generation busy, whose claim and     *)
(* rows a prompt site does not let expire.                                    *)
LEMMA Tick_IInv ==
  ASSUME IInv, Tick
  PROVE  IInv'
<1>1. /\ site' = site /\ now' = now + 1 /\ att' = att /\ told' = told /\ reg' = reg
      /\ dir' = dir /\ armed' = armed /\ active' = active /\ sent' = sent
      /\ site.prompt => \A k \in Uuids : Busy(k) =>
           /\ k \in DOMAIN reg.claimed => reg.claimed[k] > now'
           /\ \A u \in RowsOf(reg, k) : reg.rows[u].expires > now'
  BY ZenonT(30) DEF Tick
<1>2. /\ site \in Sites /\ now \in Nat /\ Attempts(att, armed) /\ Sessions(att, armed, active, sent)
      /\ RegistryOk(reg, dir, told, sent) /\ Claims(att, active, reg, now, told)
  BY ZenonT(30) DEF IInv
<1>3. ASSUME Quiet, NEW i \in Att, Working(i, att[i], active)
      PROVE  HasClaim(reg, now', Uuid(i), i) /\ Uuid(i) \notin told
  <2>1. HasClaim(reg, now, Uuid(i), i) /\ Uuid(i) \notin told
    BY <1>2, <1>3, ZenonT(30) DEF Claims
  <2>2. Uuid(i) \in Uuids
    BY ZenonT(30) DEF Uuids
  <2>3. Busy(Uuid(i))
    <3>1. CASE att[i].pc \in {"arm", "plan", "send"}
      BY <3>1, ZenonT(30) DEF Busy, Started
    <3>2. CASE \E u \in site.units : \E x \in 0..site.chain - 1 : <<i, x>> \in active[u]
      <4>1. PICK u \in site.units, x \in 0..site.chain - 1 : <<i, x>> \in active[u]
        BY <3>2, ZenonT(30)
      <4>2. <<i, x>>[1] = i
        BY ZenonT(30)
      <4> QED
        BY <4>1, <4>2, ZenonT(30) DEF Busy
    <3> QED
      BY <1>3, <3>1, <3>2, ZenonT(30) DEF Working
  <2>4. /\ Uuid(i) \in DOMAIN reg.claimed => reg.claimed[Uuid(i)] > now'
        /\ \A u \in RowsOf(reg, Uuid(i)) : reg.rows[u].expires > now'
    BY <1>1, <1>3, <2>2, <2>3, ZenonT(30) DEF Quiet
  <2> QED
    BY <2>1, <2>4, ZenonT(30) DEF HasClaim, RowsOf
<1>4. Claims(att', active', reg', now', told')
  BY <1>1, <1>3, ZenonT(30) DEF Claims
<1>5. now' \in Nat
  BY <1>1, <1>2
<1> QED
  BY <1>1, <1>2, <1>4, <1>5, Next_IInv, ZenonT(30)

(* Stop, and steps that change nothing. *)
LEMMA Stop_IInv ==
  ASSUME IInv, Stop \/ UNCHANGED vars
  PROVE  IInv'
<1>1. /\ site' = site /\ now' = now /\ att' = att /\ told' = told /\ reg' = reg
      /\ dir' = dir /\ armed' = armed /\ active' = active /\ sent' = sent
  BY ZenonT(30) DEF Stop, vars
<1> QED
  BY <1>1, Next_IInv, ZenonT(30) DEF IInv

(* --------------------------------- the theorem ---------------------------- *)

(* It holds at the start. *)
LEMMA Init_IInv ==
  ASSUME Init
  PROVE  IInv
<1>1. /\ site \in Sites /\ now = 0 /\ dir = {} /\ reg = NewRegistry /\ sent = {} /\ told = {}
      /\ att = [i \in Att |-> [pc |-> "idle", idx |-> 0, tries |-> 0, arms |-> <<>>, sends |-> <<>>]]
      /\ armed = [d \in Dsts |-> {}] /\ active = [u \in site.units |-> {}]
  BY ZenonT(30) DEF Init
<1>2. site.chain \in Nat \ {0}
  BY <1>1, SiteFacts, ZenonT(30)
<1>3. ASSUME NEW i \in Att PROVE AttemptOk(i, att[i], armed)
  <2>1. att[i] = [pc |-> "idle", idx |-> 0, tries |-> 0, arms |-> <<>>, sends |-> <<>>]
    BY <1>1, ZenonT(30)
  <2> DEFINE a == att[i]
  <2> HIDE DEF a
  <2>2. /\ a = [pc |-> a.pc, idx |-> a.idx, tries |-> a.tries, arms |-> a.arms, sends |-> a.sends]
        /\ a.pc = "idle" /\ a.idx = 0
    BY <2>1 DEF a
  <2>3. AttemptOk(i, a, armed)
    BY <1>2, <2>2 DEF AttemptOk
  <2> QED
    BY <2>3, ZenonT(30) DEF a
<1>4. Attempts(att, armed)
  BY <1>1, <1>3, ZenonT(30) DEF Attempts
<1>5. Sessions(att, armed, active, sent)
  BY <1>1, ZenonT(30) DEF Sessions, SourceOk, Reached, Dispatched
<1>6. RegistryOk(reg, dir, told, sent)
  BY <1>1, NewShape, ZenonT(30) DEF RegistryOk
<1>7. Claims(att, active, reg, now, told)
  BY <1>1, ZenonT(30) DEF Claims, Working
<1> QED
  BY <1>1, <1>4, <1>5, <1>6, <1>7, ZenonT(30) DEF IInv

(* Every step keeps it. *)
LEMMA Step_IInv ==
  ASSUME IInv, [Next]_vars
  PROVE  IInv'
<1>1. CASE Progress
  BY <1>1, BuildPlan_IInv, Abandon_IInv, JoinArmers_IInv, JoinSenders_IInv, RecordStatus_IInv,
     ArmReceiver_IInv, DispatchSender_IInv, SessionEnds_IInv, ZenonT(30) DEF Progress
<1>2. CASE Stop \/ UNCHANGED vars
  BY <1>2, Stop_IInv, ZenonT(30)
<1>3. CASE Tick
  BY <1>3, Tick_IInv, ZenonT(30)
<1>4. CASE \E i \in Att : StartPoolReshard(i)
  BY <1>4, StartPoolReshard_IInv, ZenonT(30)
<1>5. CASE \E u \in site.units :
             \/ RegisterWorkUnit(u)
             \/ \E k \in Uuids : RegisterRequestBlocks(u, k) \/ CompleteRequestBlocks(u, k)
  BY <1>5, RegisterWorkUnit_IInv, RegisterRequestBlocks_IInv, CompleteRequestBlocks_IInv, ZenonT(30)
<1>6. CASE \E k \in Uuids : CancelRequestBlocks(k) \/ ReleaseRequestBlocks(k)
  BY <1>6, CancelRequestBlocks_IInv, ReleaseRequestBlocks_IInv, ZenonT(30)
<1> QED
  BY <1>1, <1>2, <1>3, <1>4, <1>5, <1>6, ZenonT(30) DEF Next

(* An attempt that holds a claim finds it standing. *)
LEMMA ClaimStands ==
  ASSUME NEW g, NEW t \in Nat, Shape(g), NEW k, NEW i, HasClaim(g, t, k, i)
  PROVE  Status(g, t, k) = "claimed"
<1> DEFINE h == Purged(g, t)
<1>1. HasClaim(h, t, k, i)
  BY PurgeKeeps, ZenonT(30)
<1> HIDE DEF h
<1>2. k \notin DOMAIN h.cancelled /\ k \in DOMAIN h.claimed
  BY <1>1, ZenonT(30) DEF HasClaim
<1> QED
  BY <1>2, ZenonT(30) DEF Status, h

(* It says what the three properties say. *)
LEMMA IInv_AttemptsSound ==
  ASSUME IInv
  PROVE  AttemptsSound
<1>1. /\ site \in Sites /\ now \in Nat /\ Attempts(att, armed) /\ Sessions(att, armed, active, sent)
      /\ RegistryOk(reg, dir, told, sent) /\ Claims(att, active, reg, now, told)
  BY ZenonT(30) DEF IInv
<1>2. ASSUME NEW i \in Att, AtWork(i) PROVE Working(i, att[i], active)
  <2>1. CASE \E u \in site.units : \E x \in active[u] : x[1] = i
    <3>0. PICK u \in site.units : \E x \in active[u] : x[1] = i
      BY <2>1, ZenonT(30)
    <3>1. PICK x \in active[u] : x[1] = i
      BY <3>0, ZenonT(30)
    <3>2. x \in Att \X (0..site.chain - 1)
      BY <1>1, ZenonT(30) DEF Sessions, SourceOk
    <3>3. x = <<i, x[2]>> /\ x[2] \in 0..site.chain - 1
      BY <3>1, <3>2
    <3> QED
      BY <3>1, <3>3, ZenonT(30) DEF Working
  <2> QED
    BY <1>2, <2>1, ZenonT(30) DEF AtWork, Working
<1>3. CancelFinal
  BY <1>1, <1>2, ZenonT(30) DEF CancelFinal, Claims, Quiet
<1>4. OffersKept
  <2>1. ASSUME Quiet, ~site.restart, NEW i \in Att, AtWork(i)
        PROVE  /\ site.units \subseteq RowsOf(reg, Uuid(i))
               /\ Status(reg, now, Uuid(i)) = "claimed" /\ i \in reg.owners[Uuid(i)]
    <3>1. HasClaim(reg, now, Uuid(i), i)
      BY <1>1, <1>2, <2>1, ZenonT(30) DEF Claims
    <3>2. Status(reg, now, Uuid(i)) = "claimed"
      BY <1>1, <3>1, ClaimStands, ZenonT(30) DEF RegistryOk
    <3> QED
      BY <2>1, <3>1, <3>2, ZenonT(30) DEF HasClaim, RowsOf
  <2> QED
    BY <2>1, ZenonT(30) DEF OffersKept, Quiet
<1>5. ArmedFirst
  <2>1. ASSUME NEW u \in site.units, NEW x \in active[u], NEW d \in Stage(x[1]).dst PROVE x \in armed[d]
    <3>1. SourceOk(u, active[u], armed, sent)
      BY <1>1, ZenonT(30) DEF Sessions
    <3>2. PICK i \in Att, y \in 0..site.chain - 1 : x = <<i, y>>
      BY <3>1 DEF SourceOk
    <3> QED
      BY <2>1, <3>1, <3>2, ZenonT(30) DEF SourceOk
  <2> QED
    BY <2>1, ZenonT(30) DEF ArmedFirst
<1> QED
  BY <1>3, <1>4, <1>5, ZenonT(30) DEF AttemptsSound

(* On every site: an attempt at work keeps its claim and its offers, a        *)
(* generation told cancelled is used by no attempt, and no sender is          *)
(* dispatched before all receivers are armed.                                 *)
THEOREM AttemptsSoundInvariant == Spec => []AttemptsSound
<1>1. Init => IInv
  BY Init_IInv, ZenonT(30)
<1>2. IInv /\ [Next]_vars => IInv'
  BY Step_IInv, ZenonT(30)
<1>3. IInv => AttemptsSound
  BY IInv_AttemptsSound, ZenonT(30)
<1> QED
  BY <1>1, <1>2, <1>3, PTL DEF Spec
=============================================================================
