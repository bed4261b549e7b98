------------------------- MODULE RemoteWriteProofs -------------------------
(***************************************************************************)
(* Proofs about RemoteWrite for every pair of stores: any batch, any       *)
(* number of offers of it, any hold, and any latency of the request that   *)
(* the margin covers.                                                      *)
(***************************************************************************)
EXTENDS RemoteWrite, FiniteSetTheorems, TLAPS

Pcs == {"idle", "offered", "accepted", "polling", "abandoned", "settled"}
Verdicts == [kind: {"none", "done", "failed", "error"}, existing: SUBSET Hashes]
Clients == [pc: Pcs, hold: Nat, verdict: Verdicts]
Messages == [kind: {"ack", "result"}, state: Terminal \cup {"accepted"}, existing: SUBSET Hashes]
Live == {"pending", "completing"}
Ops == [state: Terminal \cup Live \cup {"none", "gone"},
        step: {"idle", "recheck", "insert", "publish", "release", "done"},
        transfer: {"none", "running", "ok", "bad"}, read: {"none", "data", "torn"},
        deadline: Nat, blocks: {"none", "held", "freed", "kept"}, existing: SUBSET Hashes]

Types ==
  /\ site \in Sites /\ now \in Nat
  /\ client \in [Offers -> Clients]
  /\ caller \in {0, 1} /\ other \in {0, 1}
  /\ source \in {"data", "reused"}
  /\ call \in [Offers -> {"none", "requested", "refused", "open", "broken", "cancelled"}]
  /\ wire \in [Offers -> Seq(Messages)]
  /\ op \in [Offers -> Ops]
  /\ index \in [Hashes -> {"absent", "data", "torn"}] /\ stored \subseteq Hashes


\* The life of an operation: which steps, blocks and states go together.
Life(o) ==
  /\ op[o].step # "idle" => op[o].transfer \in {"ok", "bad"}
  /\ op[o].transfer \in {"ok", "bad"} => op[o].read # "none"
  /\ op[o].state = "none" => op[o] = NoOp
  /\ op[o].state = "pending" => op[o].step = "idle" /\ op[o].blocks = "held"
  /\ op[o].state = "completing" <=> op[o].step \in {"recheck", "insert", "publish"}
  /\ op[o].step \in {"recheck", "insert"} => op[o].blocks = "held"
  /\ op[o].step = "publish" => op[o].blocks = "kept"
  /\ op[o].state \in {"committed", "unregistered"} => op[o].blocks = "kept"
  /\ op[o].blocks = "held" => op[o].state # "gone"
  /\ op[o].blocks = "freed" => op[o].step = "done"
  /\ ~up => op[o].state \in {"none", "gone"}

\* The stream of an offer: a request has not been answered yet, an accepted
\* offer reads its ack first, and a result is sent only when the operation is
\* over.
Stream(o) ==
  /\ client[o].pc = "idle" => call[o] \in {"none", "broken"} /\ op[o].state = "none"
  /\ call[o] = "requested" => client[o].pc = "offered" /\ op[o].state = "none"
  /\ call[o] # "open" => wire[o] = <<>>
  /\ client[o].pc = "offered" /\ call[o] = "open" /\ op[o].state # "none" =>
       wire[o] # <<>> /\ Head(wire[o]).state = "accepted"
  /\ client[o].pc = "offered" /\ op[o].state \in Live \cup {"none"} => Len(wire[o]) <= 1
  /\ client[o].pc = "accepted" /\ op[o].state \in Live \cup {"none"} => wire[o] = <<>>

\* An operation ends before the hold does, and where nothing gets lost its
\* offer is in flight until then.
Cover(o) ==
  /\ op[o].state = "pending" => op[o].deadline <= client[o].hold
  /\ Delivers /\ client[o].pc = "offered" /\ op[o].state \in Live => call[o] = "open"
  /\ Delivers /\ alive /\ op[o].state = "pending" /\ now < op[o].deadline => InFlight(o)

\* What may still be committed was read while the source held it.
Fresh(o) ==
  alive /\ Delivers =>
    /\ op[o].step \in {"recheck", "insert"} => op[o].read = "data"
    /\ op[o].state = "pending" /\ op[o].transfer \in {"ok", "bad"} /\ now < op[o].deadline =>
         op[o].read = "data"

\* What is reported has been there.
Reported(state, existing) ==
  (state \in {"committed", "allexist"} => stored = Hashes) /\ existing \subseteq stored
Truth(o) ==
  /\ Reported(op[o].state, op[o].existing)
  /\ op[o].step = "publish" => stored = Hashes
  /\ \A k \in 1..Len(wire[o]) : Reported(wire[o][k].state, wire[o][k].existing)
  /\ client[o].verdict.kind = "done" => stored = Hashes
  /\ client[o].verdict.existing \subseteq stored

PerOffer(o) == Life(o) /\ Stream(o) /\ Cover(o) /\ Fresh(o) /\ Truth(o)

\* One offer is in flight, under the caller's pin and its own.
Pinned ==
  /\ \A o, p \in Offers : InFlight(o) /\ InFlight(p) => o = p
  /\ \A o \in Offers : InFlight(o) => alive /\ caller = 1 /\ source = "data"
  /\ alive => pins = caller + other + (IF \E o \in Offers : InFlight(o) THEN 1 ELSE 0)

\* The destination's index.
Genuine ==
  /\ alive /\ Delivers => \A h \in Hashes : index[h] # "torn"
  /\ \A h \in Hashes : index[h] # "absent" => h \in stored

RWInv == Types /\ Pinned /\ Genuine /\ \A o \in Offers : PerOffer(o)

-----------------------------------------------------------------------------
(* Lemmas. *)

\* Nothing is offered, running or indexed at the start.
LEMMA RWInit == Init => RWInv
<1> SUFFICES ASSUME Init PROVE RWInv
  BY ZenonT(30)
<1>1. \A o \in Offers : /\ client[o].pc = "idle" /\ client[o].verdict.kind = "none" /\ client[o].verdict.existing = {}
                        /\ call[o] = "none" /\ wire[o] = <<>> /\ op[o] = NoOp
  BY ZenonT(30) DEF Init, Verdict
<1>2. NoOp \in Ops /\ NoOp.state = "none" /\ NoOp.step = "idle" /\ NoOp.transfer = "none" /\ NoOp.existing = {}
      /\ NoOp.blocks = "none"
  BY ZenonT(30) DEF NoOp, Ops
<1>3. Types
  BY <1>2 DEF Init, Types, Clients, Verdicts, Verdict, Pcs
<1>4. Pinned
  BY <1>1 DEF Init, Pinned, InFlight
<1>5. Genuine
  BY ZenonT(30) DEF Init, Genuine
<1>6. ASSUME NEW o \in Offers PROVE PerOffer(o)
  <2>1. Life(o)
    BY <1>1, <1>2, ZenonT(30) DEF Init, Life
  <2>2. Stream(o)
    BY <1>1, <1>2, ZenonT(30) DEF Stream
  <2>3. Cover(o) /\ Fresh(o)
    BY <1>1, <1>2, ZenonT(30) DEF Cover, Fresh, Live
  <2>4. Truth(o)
    BY <1>1, <1>2 DEF Truth, Reported
  <2> QED
    BY <2>1, <2>2, <2>3, <2>4, ZenonT(30) DEF PerOffer
<1> QED
  BY <1>3, <1>4, <1>5, <1>6, ZenonT(30) DEF RWInv

\* The site does not change, nor does what is read from it.
LEMMA SiteFixed ==
  ASSUME site' = site
  PROVE  /\ Offers' = Offers /\ Hashes' = Hashes /\ Hold' = Hold
         /\ Clients' = Clients /\ Messages' = Messages /\ Ops' = Ops
         /\ Delivers' <=> Delivers
BY ZenonT(30) DEF Offers, Hashes, Hold, Clients, Verdicts, Messages, Ops, Delivers, LosesAcks, LosesPolls

\* The numbers of a site: the margin covers the latency of the request.
LEMMA SiteNumbers ==
  ASSUME site \in Sites
  PROVE  /\ Hold \in Nat /\ Margin \in Nat /\ Margin < Hold /\ Cap \in Nat
         /\ MaxLatency \in Nat /\ MaxLatency <= Margin
BY MarginAssumption, ZenonT(30) DEF Hold, Margin, Cap, MaxLatency

\* Appending a message to a stream.
LEMMA AppendMessage ==
  ASSUME NEW M, NEW w \in Seq(M), NEW m \in M
  PROVE  /\ Append(w, m) \in Seq(M) /\ Append(w, m) # <<>>
         /\ w # <<>> => Head(Append(w, m)) = Head(w)
         /\ \A k \in 1..Len(Append(w, m)) : (k \in 1..Len(w) /\ Append(w, m)[k] = w[k]) \/ Append(w, m)[k] = m
<1> DEFINE u == Append(w, m)
<1>1. u \in Seq(M) /\ Len(w) \in Nat /\ Len(u) = Len(w) + 1 /\ u[Len(w) + 1] = m /\ \A k \in 1..Len(w) : u[k] = w[k]
  OBVIOUS
<1> HIDE DEF u
<1>2. u # <<>> /\ (w # <<>> => Head(u) = Head(w))
  <2>1. u # <<>>
    BY <1>1
  <2>2. w # <<>> => 1 \in 1..Len(w) /\ Head(w) = w[1]
    OBVIOUS
  <2>3. Head(u) = u[1]
    BY <1>1, <2>1
  <2> QED
    BY <1>1, <2>1, <2>2, <2>3, ZenonT(30)
<1>3. \A k \in 1..Len(u) : (k \in 1..Len(w) /\ u[k] = w[k]) \/ u[k] = m
  BY <1>1
<1> QED
  BY <1>1, <1>2, <1>3, ZenonT(30) DEF u

\* Taking the first message of a stream.
LEMMA TakeMessage ==
  ASSUME NEW M, NEW w \in Seq(M), w # <<>>
  PROVE  /\ Head(w) \in M /\ Head(w) = w[1] /\ 1 \in 1..Len(w)
         /\ Tail(w) \in Seq(M) /\ Len(Tail(w)) = Len(w) - 1
         /\ Len(w) <= 1 => Tail(w) = <<>>
         /\ \A k \in 1..Len(Tail(w)) : k + 1 \in 1..Len(w) /\ Tail(w)[k] = w[k + 1]
OBVIOUS

\* A function changed at one offer.
LEMMA Change ==
  ASSUME NEW S, NEW T, NEW f \in [S -> T], NEW o \in S, NEW r \in T, NEW g, g = [f EXCEPT ![o] = r]
  PROVE  g \in [S -> T] /\ g[o] = r /\ \A p \in S \ {o} : g[p] = f[p]
BY ZenonT(30)

\* What a verdict says is what the state it comes from says.
LEMMA VerdictTrue ==
  ASSUME NEW state, NEW existing \in SUBSET Hashes
  PROVE  LET v == VerdictOf(state, existing)
         IN /\ v \in Verdicts /\ v.kind # "none"
            /\ v.kind = "done" => state \in {"committed", "allexist"}
            /\ v.existing \subseteq existing
BY ZenonT(30) DEF VerdictOf, Verdict, Verdicts

\* Settling ends the offer's flight ...
LEMMA SettleEffect ==
  ASSUME Types, NEW o \in Offers, NEW v \in Verdicts, Settle(o, v)
  PROVE  /\ client' \in [Offers -> Clients]
         /\ client'[o].pc = "settled" /\ client'[o].hold = client[o].hold /\ client'[o].verdict = v
         /\ \A p \in Offers \ {o} : client'[p] = client[p]
         /\ caller' \in {0, 1}
<1> DEFINE r == [client[o] EXCEPT !.pc = "settled", !.verdict = v]
<1>1. client \in [Offers -> Clients] /\ caller \in {0, 1}
  BY ZenonT(30) DEF Types
<1>2. r \in Clients /\ r.pc = "settled" /\ r.hold = client[o].hold /\ r.verdict = v
  BY <1>1, ZenonT(30) DEF Clients, Pcs
<1>3. client' = [client EXCEPT ![o] = r]
  BY <1>1, ZenonT(30) DEF Settle
<1> HIDE DEF r
<1>4. client' \in [Offers -> Clients] /\ client'[o] = r /\ \A p \in Offers \ {o} : client'[p] = client[p]
  BY <1>1, <1>2, <1>3, Change, ZenonT(30)
<1>5. caller' \in {0, 1}
  BY <1>1, ZenonT(30) DEF Settle
<1> QED
  BY <1>2, <1>4, <1>5, ZenonT(30)

\* ... and gives back its pin, with the caller's after success.
LEMMA SettlePinned ==
  ASSUME Types, Pinned, site' = site, NEW o \in Offers, InFlight(o), NEW v \in Verdicts, Settle(o, v),
         alive' = alive, other' = other, source' = source
  PROVE  Pinned'
<1>1. /\ client'[o].pc = "settled"
      /\ \A p \in Offers \ {o} : client'[p] = client[p]
  BY SettleEffect, ZenonT(30)
<1>2. \A p \in Offers : ~InFlight(p)'
  <2>1. \A p \in Offers \ {o} : ~InFlight(p)
    BY ZenonT(30) DEF Pinned
  <2> QED
    BY <1>1, <2>1, ZenonT(30) DEF InFlight
<1>3. alive /\ caller = 1 /\ pins = 1 + other + 1 /\ other \in {0, 1}
  BY ZenonT(30) DEF Pinned, Types
<1>4. pins' = caller' + other
  BY <1>3 DEF Settle, Less
<1>5. Offers' = Offers
  BY SiteFixed, ZenonT(30)
<1>6. caller' + other = caller' + other' + 0
  BY <1>3, SettleEffect
<1> QED
  BY <1>2, <1>4, <1>5, <1>6, ZenonT(30) DEF Pinned

\* A step that concerns one offer leaves the others as they were.
Others(o) ==
  \A p \in Offers \ {o} :
    client'[p] = client[p] /\ call'[p] = call[p] /\ wire'[p] = wire[p] /\ op'[p] = op[p]

LEMMA OfferKept ==
  ASSUME RWInv, site' = site, NEW p \in Offers, now' \in Nat, now <= now', up' = up, alive' = alive,
         client'[p] = client[p], call'[p] = call[p], wire'[p] = wire[p], op'[p] = op[p],
         stored \subseteq stored', stored' \subseteq Hashes
  PROVE  PerOffer(p)'
<1>1. PerOffer(p) /\ Hashes' = Hashes /\ (Delivers' <=> Delivers)
  BY SiteFixed, ZenonT(30) DEF RWInv
<1>2. op[p].deadline \in Nat /\ now \in Nat
  BY ZenonT(30) DEF RWInv, Types, Ops
<1>3. now' < op[p].deadline => now < op[p].deadline
  BY <1>2
<1>4. Life(p)'
  BY <1>1, ZenonT(30) DEF PerOffer, Life
<1>5. Stream(p)'
  BY <1>1, ZenonT(30) DEF PerOffer, Stream
<1>6. Cover(p)'
  BY <1>1, <1>3, ZenonT(30) DEF PerOffer, Cover, InFlight
<1>7. Fresh(p)'
  BY <1>1, <1>3, ZenonT(30) DEF PerOffer, Fresh
<1>8. Truth(p)'
  BY <1>1, ZenonT(30) DEF PerOffer, Truth, Reported
<1> QED
  BY <1>4, <1>5, <1>6, <1>7, <1>8, ZenonT(30) DEF PerOffer

LEMMA OthersKept ==
  ASSUME RWInv, site' = site, NEW o \in Offers, Others(o), now' = now, up' = up, alive' = alive,
         stored \subseteq stored', stored' \subseteq Hashes
  PROVE  \A p \in Offers \ {o} : PerOffer(p)'
<1>1. now \in Nat /\ now <= now
  BY DEF RWInv, Types
<1> QED
  BY <1>1, OfferKept, ZenonT(30) DEF Others

\* The invariant from its parts, after such a step.
LEMMA OneOffer ==
  ASSUME RWInv, site' = site, NEW o \in Offers, Others(o), now' = now, up' = up, alive' = alive,
         stored \subseteq stored', stored' \subseteq Hashes,
         Types', Pinned', Genuine', Life(o)', Stream(o)', Cover(o)', Fresh(o)', Truth(o)'
  PROVE  RWInv'
<1>1. \A p \in Offers \ {o} : PerOffer(p)'
  BY OthersKept, ZenonT(30)
<1>2. PerOffer(o)' /\ Offers' = Offers
  BY SiteFixed, ZenonT(30) DEF PerOffer
<1> QED
  BY <1>1, <1>2, ZenonT(30) DEF RWInv

\* What the invariant says of an offer, with the sets it is read from.
At(o) ==
  /\ Types /\ Pinned /\ Genuine
  /\ Life(o) /\ Stream(o) /\ Cover(o) /\ Fresh(o) /\ Truth(o)
  /\ site \in Sites /\ now \in Nat /\ stored \subseteq Hashes
  /\ client \in [Offers -> Clients] /\ client[o] \in Clients
  /\ wire \in [Offers -> Seq(Messages)] /\ wire[o] \in Seq(Messages)
  /\ op \in [Offers -> Ops] /\ op[o] \in Ops
  /\ Offers' = Offers /\ Hashes' = Hashes /\ Hold' = Hold
  /\ Clients' = Clients /\ Messages' = Messages /\ Ops' = Ops
  /\ Delivers' <=> Delivers

LEMMA AtOffer == ASSUME RWInv, site' = site, NEW o \in Offers PROVE At(o)
BY SiteFixed, ZenonT(30) DEF At, RWInv, PerOffer, Types

-----------------------------------------------------------------------------
(* The source's steps preserve the invariant. *)

\* SaveRemote.
LEMMA SaveRemoteStep ==
  ASSUME RWInv, site' = site, NEW o \in Offers, SaveRemote(o)
  PROVE  RWInv'
<1>0. At(o)
  BY AtOffer, ZenonT(30)
<1> USE <1>0 DEF At
<1> DEFINE r == [client[o] EXCEPT !.pc = "offered", !.hold = now + Hold]
<1>1. Hold \in Nat
  BY SiteNumbers, ZenonT(30)
<1>2. r \in Clients /\ r.pc = "offered" /\ r.hold = now + Hold /\ r.verdict = client[o].verdict
  <2>1. now + Hold \in Nat
    BY <1>1
  <2> QED
    BY <2>1, ZenonT(30) DEF Clients, Pcs
<1>3. client' = [client EXCEPT ![o] = r] /\ call' = [call EXCEPT ![o] = "requested"]
  BY ZenonT(30) DEF SaveRemote
<1> HIDE DEF r
<1>4. client' \in [Offers -> Clients] /\ client'[o] = r /\ \A p \in Offers \ {o} : client'[p] = client[p]
  BY <1>2, <1>3, Change, ZenonT(30)
<1>5. /\ alive /\ client[o].pc = "idle" /\ caller = 1 /\ source = "data" /\ pins' = pins + 1
      /\ \A p \in Offers : ~InFlight(p)
      /\ now' = now /\ caller' = caller /\ other' = other /\ source' = source /\ alive' = alive
      /\ wire' = wire /\ op' = op /\ index' = index /\ stored' = stored /\ up' = up
  BY ZenonT(30) DEF SaveRemote, dst
<1>6. /\ call' \in [Offers -> {"none", "requested", "refused", "open", "broken", "cancelled"}]
      /\ call'[o] = "requested" /\ \A p \in Offers \ {o} : call'[p] = call[p]
  BY <1>3, ZenonT(30) DEF Types
<1>7. op[o].state = "none" /\ wire[o] = <<>>
  BY <1>5, ZenonT(30) DEF Stream
<1>8. Others(o)
  BY <1>4, <1>5, <1>6, ZenonT(30) DEF Others
<1>9. Types'
  BY <1>4, <1>5, <1>6, ZenonT(30) DEF Types
<1>10. Pinned'
  <2>1. \A p \in Offers : InFlight(p)' <=> p = o
    BY <1>2, <1>4, <1>5, ZenonT(30) DEF InFlight
  <2>2. pins = caller + other + 0 /\ caller \in Nat /\ other \in Nat
    BY <1>5 DEF Pinned, Types
  <2> QED
    BY <1>5, <2>1, <2>2 DEF Pinned
<1>11. Genuine'
  BY <1>5, ZenonT(30) DEF Genuine
<1>12. Life(o)'
  BY <1>5, ZenonT(30) DEF Life
<1>13. Stream(o)'
  BY <1>2, <1>4, <1>5, <1>6, <1>7 DEF Stream
<1>14. Cover(o)'
  BY <1>5, <1>7, ZenonT(30) DEF Cover, Live
<1>15. Fresh(o)'
  BY <1>5, ZenonT(30) DEF Fresh
<1>16. Truth(o)'
  BY <1>2, <1>4, <1>5, ZenonT(30) DEF Truth, Reported
<1> QED
  BY <1>5, <1>8, <1>9, <1>10, <1>11, <1>12, <1>13, <1>14, <1>15, <1>16, OneOffer, ZenonT(30)

\* A step that settles an offer in flight, from what it does to the stream and
\* from why the operation can no longer be claimed.
LEMMA SettleStep ==
  ASSUME RWInv, site' = site, NEW o \in Offers, InFlight(o), NEW v \in Verdicts, Settle(o, v),
         now' = now, other' = other, source' = source, alive' = alive,
         op' = op, index' = index, stored' = stored, up' = up,
         v.kind = "done" => stored = Hashes, v.existing \subseteq stored,
         call' \in [Offers -> {"none", "requested", "refused", "open", "broken", "cancelled"}],
         wire' \in [Offers -> Seq(Messages)],
         \A p \in Offers \ {o} : call'[p] = call[p] /\ wire'[p] = wire[p],
         call'[o] # "requested", call'[o] # "open" => wire'[o] = <<>>,
         \A k \in 1..Len(wire'[o]) : \E j \in 1..Len(wire[o]) : wire'[o][k] = wire[o][j],
         Delivers /\ alive => ~(op[o].state = "pending" /\ now < op[o].deadline)
  PROVE  RWInv'
<1>0. At(o)
  BY AtOffer, ZenonT(30)
<1> USE <1>0 DEF At
<1>1. /\ client' \in [Offers -> Clients]
      /\ client'[o].pc = "settled" /\ client'[o].hold = client[o].hold /\ client'[o].verdict = v
      /\ \A p \in Offers \ {o} : client'[p] = client[p]
      /\ caller' \in {0, 1}
  BY SettleEffect, ZenonT(30)
<1>2. Others(o)
  BY <1>1, ZenonT(30) DEF Others
<1>3. Types'
  BY <1>1, ZenonT(30) DEF Types
<1>4. Pinned'
  BY SettlePinned, ZenonT(30)
<1>5. Genuine' /\ Life(o)' /\ Fresh(o)'
  BY ZenonT(30) DEF Genuine, Life, Fresh
<1>6. Stream(o)'
  BY <1>1, ZenonT(30) DEF Stream
<1>7. Cover(o)'
  BY <1>1, ZenonT(30) DEF Cover
<1>8. Truth(o)'
  <2>1. \A k \in 1..Len(wire'[o]) : Reported(wire'[o][k].state, wire'[o][k].existing)
    BY ZenonT(30) DEF Truth
  <2> QED
    BY <1>1, <2>1, ZenonT(30) DEF Truth, Reported
<1> QED
  BY <1>2, <1>3, <1>4, <1>5, <1>6, <1>7, <1>8, OneOffer, ZenonT(30)

\* Nothing can be claimed past the hold.
LEMMA HoldOver ==
  ASSUME RWInv, NEW o \in Offers, now >= client[o].hold
  PROVE  ~(op[o].state = "pending" /\ now < op[o].deadline)
<1>1. now \in Nat /\ client[o].hold \in Nat /\ op[o].deadline \in Nat
  BY ZenonT(30) DEF RWInv, Types, Clients, Ops
<1>2. op[o].state = "pending" => op[o].deadline <= client[o].hold
  BY ZenonT(30) DEF RWInv, PerOffer, Cover
<1> QED
  BY <1>1, <1>2

\* AckError.
LEMMA AckErrorStep ==
  ASSUME RWInv, site' = site, NEW o \in Offers, AckError(o)
  PROVE  RWInv'
<1>0. At(o)
  BY AtOffer, ZenonT(30)
<1> USE <1>0 DEF At
<1> DEFINE v == Verdict("error", {})
<1>1. v \in Verdicts /\ v.kind = "error" /\ v.existing = {}
  BY ZenonT(30) DEF Verdict, Verdicts
<1>2. Settle(o, v) /\ client[o].pc = "offered" /\ (call[o] \in {"refused", "broken", "cancelled"} \/ now >= client[o].hold)
  BY ZenonT(30) DEF AckError
<1> HIDE DEF v
<1>3. /\ now' = now /\ other' = other /\ source' = source /\ alive' = alive
      /\ op' = op /\ index' = index /\ stored' = stored /\ up' = up
  BY ZenonT(30) DEF AckError, dst
<1>4. /\ call' \in [Offers -> {"none", "requested", "refused", "open", "broken", "cancelled"}]
      /\ wire' \in [Offers -> Seq(Messages)] /\ call'[o] = "broken" /\ wire'[o] = <<>>
      /\ \A p \in Offers \ {o} : call'[p] = call[p] /\ wire'[p] = wire[p]
  BY DEF AckError, Types
<1>5. Delivers => ~(op[o].state = "pending" /\ now < op[o].deadline)
  BY <1>2, HoldOver, ZenonT(30) DEF Cover, Live
<1>6. InFlight(o)
  BY <1>2, ZenonT(30) DEF InFlight
<1>7. \A k \in 1..Len(wire'[o]) : \E j \in 1..Len(wire[o]) : wire'[o][k] = wire[o][j]
  BY <1>4
<1> QED
  BY <1>1, <1>2, <1>3, <1>4, <1>5, <1>6, <1>7, SettleStep, ZenonT(30)

\* AckArrives.
LEMMA AckArrivesStep ==
  ASSUME RWInv, site' = site, NEW o \in Offers, AckArrives(o)
  PROVE  RWInv'
<1>0. At(o)
  BY AtOffer, ZenonT(30)
<1> USE <1>0 DEF At
<1> DEFINE ack == Head(wire[o])
<1>1. /\ client[o].pc = "offered" /\ wire[o] # <<>> /\ wire' = [wire EXCEPT ![o] = Tail(wire[o])]
      /\ now' = now /\ other' = other /\ source' = source /\ alive' = alive /\ call' = call
      /\ op' = op /\ index' = index /\ stored' = stored /\ up' = up
  BY ZenonT(30) DEF AckArrives, dst
<1>2. /\ ack \in Messages /\ ack = wire[o][1] /\ 1 \in 1..Len(wire[o])
      /\ Tail(wire[o]) \in Seq(Messages)
      /\ Len(wire[o]) <= 1 => Tail(wire[o]) = <<>>
      /\ \A k \in 1..Len(Tail(wire[o])) : k + 1 \in 1..Len(wire[o]) /\ Tail(wire[o])[k] = wire[o][k + 1]
  BY <1>1, TakeMessage, ZenonT(30)
<1>3. /\ wire' \in [Offers -> Seq(Messages)] /\ wire'[o] = Tail(wire[o])
      /\ \A p \in Offers \ {o} : wire'[p] = wire[p]
  BY <1>1, <1>2, Change, ZenonT(30)
<1>4. call[o] = "open"
  BY <1>1, ZenonT(30) DEF Stream
<1>5. CASE ack.state = "accepted"
  <2>1. client' = [client EXCEPT ![o] = [client[o] EXCEPT !.pc = "accepted"]] /\ pins' = pins /\ caller' = caller
    BY <1>5, ZenonT(30) DEF AckArrives, Moves
  <2> DEFINE r == [client[o] EXCEPT !.pc = "accepted"]
  <2>2. r \in Clients /\ r.pc = "accepted" /\ r.hold = client[o].hold /\ r.verdict = client[o].verdict
    BY ZenonT(30) DEF Clients, Pcs
  <2> HIDE DEF r
  <2>3. client' \in [Offers -> Clients] /\ client'[o] = r /\ \A p \in Offers \ {o} : client'[p] = client[p]
    BY <2>1, <2>2, Change, ZenonT(30) DEF r
  <2>4. Others(o) /\ Types'
    BY <1>1, <1>3, <2>1, <2>3, ZenonT(30) DEF Others, Types
  <2>5. Pinned'
    <3>1. \A p \in Offers : InFlight(p)' <=> InFlight(p)
      BY <1>1, <2>2, <2>3, ZenonT(30) DEF InFlight
    <3> QED
      BY <1>1, <2>1, <3>1, ZenonT(30) DEF Pinned
  <2>6. Genuine' /\ Life(o)' /\ Fresh(o)'
    BY <1>1, ZenonT(30) DEF Genuine, Life, Fresh
  <2>7. Stream(o)'
    BY <1>1, <1>2, <1>3, <1>4, <2>2, <2>3, ZenonT(30) DEF Stream
  <2>8. Cover(o)'
    BY <1>1, <2>2, <2>3, ZenonT(30) DEF Cover, InFlight
  <2>9. Truth(o)'
    <3>1. \A k \in 1..Len(wire'[o]) : Reported(wire'[o][k].state, wire'[o][k].existing)
      BY <1>2, <1>3, ZenonT(30) DEF Truth
    <3> QED
      BY <1>1, <2>2, <2>3, <3>1, ZenonT(30) DEF Truth, Reported
  <2> QED
    BY <1>1, <2>4, <2>5, <2>6, <2>7, <2>8, <2>9, OneOffer, ZenonT(30)
<1>6. CASE ack.state # "accepted"
  <2> DEFINE v == VerdictOf(ack.state, ack.existing)
  <2>1. ack.existing \in SUBSET Hashes
    BY <1>2, ZenonT(30) DEF Messages
  <2>2. /\ v \in Verdicts /\ v.existing \subseteq ack.existing
        /\ v.kind = "done" => ack.state \in {"committed", "allexist"}
    BY <2>1, VerdictTrue, ZenonT(30)
  <2>3. Reported(ack.state, ack.existing)
    BY <1>2, ZenonT(30) DEF Truth
  <2>4. Settle(o, v)
    BY <1>6, ZenonT(30) DEF AckArrives
  <2>5. op[o].state # "pending"
    BY <1>1, <1>4, <1>6, ZenonT(30) DEF Stream
  <2>6. \A k \in 1..Len(wire'[o]) : \E j \in 1..Len(wire[o]) : wire'[o][k] = wire[o][j]
    BY <1>2, <1>3, ZenonT(30)
  <2>7. InFlight(o)
    BY <1>1, ZenonT(30) DEF InFlight
  <2>8. /\ call' \in [Offers -> {"none", "requested", "refused", "open", "broken", "cancelled"}]
        /\ \A p \in Offers \ {o} : call'[p] = call[p] /\ wire'[p] = wire[p]
        /\ call'[o] = "open"
    BY <1>1, <1>3, <1>4, ZenonT(30) DEF Types
  <2>9. (v.kind = "done" => stored = Hashes) /\ v.existing \subseteq stored
    BY <2>2, <2>3, ZenonT(30) DEF Reported
  <2> HIDE DEF v
  <2> QED
    BY <1>1, <1>3, <2>2, <2>4, <2>5, <2>6, <2>7, <2>8, <2>9, SettleStep, ZenonT(30)
<1> QED
  BY <1>5, <1>6, ZenonT(30)

\* ResultArrives.
LEMMA ResultArrivesStep ==
  ASSUME RWInv, site' = site, NEW o \in Offers, ResultArrives(o)
  PROVE  RWInv'
<1>0. At(o)
  BY AtOffer, ZenonT(30)
<1> USE <1>0 DEF At
<1> DEFINE res == Head(wire[o])
           v == VerdictOf(res.state, res.existing)
<1>1. /\ client[o].pc = "accepted" /\ wire[o] # <<>> /\ wire' = [wire EXCEPT ![o] = Tail(wire[o])]
      /\ now' = now /\ other' = other /\ source' = source /\ alive' = alive /\ call' = call
      /\ op' = op /\ index' = index /\ stored' = stored /\ up' = up
      /\ Settle(o, v)
  BY ZenonT(30) DEF ResultArrives, dst
<1>2. /\ res \in Messages /\ res = wire[o][1] /\ 1 \in 1..Len(wire[o]) /\ Tail(wire[o]) \in Seq(Messages)
      /\ \A k \in 1..Len(Tail(wire[o])) : k + 1 \in 1..Len(wire[o]) /\ Tail(wire[o])[k] = wire[o][k + 1]
  BY <1>1, TakeMessage, ZenonT(30)
<1>3. /\ wire' \in [Offers -> Seq(Messages)] /\ wire'[o] = Tail(wire[o])
      /\ \A p \in Offers \ {o} : wire'[p] = wire[p]
  BY <1>1, <1>2, Change, ZenonT(30)
<1>4. call[o] = "open"
  BY <1>1, ZenonT(30) DEF Stream
<1>5. res.existing \in SUBSET Hashes
  BY <1>2, ZenonT(30) DEF Messages
<1>6. /\ v \in Verdicts /\ v.existing \subseteq res.existing
      /\ v.kind = "done" => res.state \in {"committed", "allexist"}
  BY <1>5, VerdictTrue, ZenonT(30)
<1>7. Reported(res.state, res.existing)
  BY <1>2, ZenonT(30) DEF Truth
<1>8. op[o].state # "pending"
  BY <1>1, ZenonT(30) DEF Stream, Live
<1>9. \A k \in 1..Len(wire'[o]) : \E j \in 1..Len(wire[o]) : wire'[o][k] = wire[o][j]
  BY <1>2, <1>3, ZenonT(30)
<1>10. InFlight(o)
  BY <1>1, ZenonT(30) DEF InFlight
<1>11. /\ call' \in [Offers -> {"none", "requested", "refused", "open", "broken", "cancelled"}]
       /\ \A p \in Offers \ {o} : call'[p] = call[p] /\ wire'[p] = wire[p]
       /\ call'[o] = "open"
  BY <1>1, <1>3, <1>4, ZenonT(30) DEF Types
<1>12. (v.kind = "done" => stored = Hashes) /\ v.existing \subseteq stored
  BY <1>6, <1>7, ZenonT(30) DEF Reported
<1> HIDE DEF v
<1> QED
  BY <1>1, <1>3, <1>6, <1>8, <1>9, <1>10, <1>11, <1>12, SettleStep, ZenonT(30)

\* StreamError.
LEMMA StreamErrorStep ==
  ASSUME RWInv, site' = site, NEW o \in Offers, StreamError(o)
  PROVE  RWInv'
<1>0. At(o)
  BY AtOffer, ZenonT(30)
<1> USE <1>0 DEF At
<1>1. /\ client[o].pc = "accepted"
      /\ now' = now /\ other' = other /\ source' = source /\ alive' = alive
      /\ op' = op /\ index' = index /\ stored' = stored /\ up' = up
  BY ZenonT(30) DEF StreamError, dst
<1>2. /\ call' \in [Offers -> {"none", "requested", "refused", "open", "broken", "cancelled"}]
      /\ wire' \in [Offers -> Seq(Messages)] /\ call'[o] = "broken" /\ wire'[o] = <<>>
      /\ \A p \in Offers \ {o} : call'[p] = call[p] /\ wire'[p] = wire[p]
  BY DEF StreamError, Types
<1>3. CASE call[o] # "cancelled" /\ now >= client[o].hold
  <2> DEFINE v == Verdict("failed", {})
  <2>1. v \in Verdicts /\ v.kind = "failed" /\ v.existing = {}
    BY ZenonT(30) DEF Verdict, Verdicts
  <2>2. Settle(o, v)
    BY <1>3, ZenonT(30) DEF StreamError
  <2>3. ~(op[o].state = "pending" /\ now < op[o].deadline)
    BY <1>3, HoldOver, ZenonT(30)
  <2>4. InFlight(o)
    BY <1>1, ZenonT(30) DEF InFlight
  <2>5. \A k \in 1..Len(wire'[o]) : \E j \in 1..Len(wire[o]) : wire'[o][k] = wire[o][j]
    BY <1>2
  <2> HIDE DEF v
  <2> QED
    BY <1>1, <1>2, <2>1, <2>2, <2>3, <2>4, <2>5, SettleStep, ZenonT(30)
<1>4. CASE call[o] = "cancelled" \/ ~(now >= client[o].hold)
  <2>0. PICK pc \in {"polling", "abandoned"} : Moves(o, pc) /\ pins' = pins /\ caller' = caller
    BY <1>4, ZenonT(30) DEF StreamError
  <2> DEFINE r == [client[o] EXCEPT !.pc = pc]
  <2>1. client' = [client EXCEPT ![o] = r] /\ pins' = pins /\ caller' = caller
    BY <2>0, ZenonT(30) DEF Moves
  <2>2. r \in Clients /\ r.pc \in {"polling", "abandoned"} /\ r.hold = client[o].hold /\ r.verdict = client[o].verdict
    BY ZenonT(30) DEF Clients, Pcs
  <2> HIDE DEF r
  <2>3. client' \in [Offers -> Clients] /\ client'[o] = r /\ \A p \in Offers \ {o} : client'[p] = client[p]
    BY <2>1, <2>2, Change, ZenonT(30)
  <2>4. Others(o) /\ Types'
    BY <1>1, <1>2, <2>1, <2>3, ZenonT(30) DEF Others, Types
  <2>5. Pinned'
    <3>1. \A p \in Offers : InFlight(p)' <=> InFlight(p)
      BY <1>1, <2>2, <2>3, ZenonT(30) DEF InFlight
    <3> QED
      BY <1>1, <2>1, <3>1, ZenonT(30) DEF Pinned
  <2>6. Genuine' /\ Life(o)' /\ Fresh(o)'
    BY <1>1, ZenonT(30) DEF Genuine, Life, Fresh
  <2>7. Stream(o)'
    BY <1>1, <1>2, <2>2, <2>3, ZenonT(30) DEF Stream
  <2>8. Cover(o)'
    BY <1>1, <2>2, <2>3, ZenonT(30) DEF Cover, InFlight
  <2>9. Truth(o)'
    <3>1. \A k \in 1..Len(wire'[o]) : Reported(wire'[o][k].state, wire'[o][k].existing)
      BY <1>2
    <3> QED
      BY <1>1, <2>2, <2>3, <3>1, ZenonT(30) DEF Truth, Reported
  <2> QED
    BY <1>1, <2>4, <2>5, <2>6, <2>7, <2>8, <2>9, OneOffer, ZenonT(30)
<1> QED
  BY <1>3, <1>4, ZenonT(30)

\* PollAnswered and PollFailed.
LEMMA PollStep ==
  ASSUME RWInv, site' = site, NEW o \in Offers, PollAnswered(o) \/ PollFailed(o)
  PROVE  RWInv'
<1>0. At(o)
  BY AtOffer, ZenonT(30)
<1> USE <1>0 DEF At
<1>1. /\ client[o].pc = "polling" /\ call' = call /\ wire' = wire
      /\ now' = now /\ other' = other /\ source' = source /\ alive' = alive
      /\ op' = op /\ index' = index /\ stored' = stored /\ up' = up
  BY ZenonT(30) DEF PollAnswered, PollFailed, dst, net
<1>2. InFlight(o)
  BY <1>1, ZenonT(30) DEF InFlight
<1>3. /\ call' \in [Offers -> {"none", "requested", "refused", "open", "broken", "cancelled"}]
      /\ wire' \in [Offers -> Seq(Messages)]
      /\ \A p \in Offers \ {o} : call'[p] = call[p] /\ wire'[p] = wire[p]
      /\ call'[o] # "requested" /\ (call'[o] # "open" => wire'[o] = <<>>)
      /\ \A k \in 1..Len(wire'[o]) : \E j \in 1..Len(wire[o]) : wire'[o][k] = wire[o][j]
  BY <1>1, ZenonT(30) DEF Types, Stream
<1>4. CASE PollAnswered(o)
  <2> DEFINE v == VerdictOf(op[o].state, op[o].existing)
  <2>1. op[o].existing \in SUBSET Hashes
    BY ZenonT(30) DEF Ops
  <2>2. /\ v \in Verdicts /\ v.existing \subseteq op[o].existing
        /\ v.kind = "done" => op[o].state \in {"committed", "allexist"}
    BY <2>1, VerdictTrue, ZenonT(30)
  <2>3. (v.kind = "done" => stored = Hashes) /\ v.existing \subseteq stored
    BY <2>2, ZenonT(30) DEF Truth, Reported
  <2>4. Settle(o, v) /\ (op[o].state \in Terminal \cup {"gone"} \/ now >= client[o].hold)
    BY <1>4, ZenonT(30) DEF PollAnswered
  <2>5. ~(op[o].state = "pending" /\ now < op[o].deadline)
    BY <2>4, HoldOver, ZenonT(30) DEF Terminal
  <2> HIDE DEF v
  <2> QED
    BY <1>1, <1>2, <1>3, <2>2, <2>3, <2>4, <2>5, SettleStep, ZenonT(30)
<1>5. CASE PollFailed(o)
  <2> DEFINE v == Verdict("failed", {})
  <2>1. v \in Verdicts /\ v.kind = "failed" /\ v.existing = {}
    BY ZenonT(30) DEF Verdict, Verdicts
  <2>2. Settle(o, v) /\ (LosesPolls \/ ~up)
    BY <1>5, ZenonT(30) DEF PollFailed
  <2>3. Delivers => op[o].state # "pending"
    BY <2>2, ZenonT(30) DEF Delivers, Life
  <2> HIDE DEF v
  <2> QED
    BY <1>1, <1>2, <1>3, <2>1, <2>2, <2>3, SettleStep, ZenonT(30)
<1> QED
  BY <1>4, <1>5, ZenonT(30)

-----------------------------------------------------------------------------
(* The destination's steps preserve the invariant. *)

\* A step of the destination for one offer, from its parts.
LEMMA ServerStep ==
  ASSUME RWInv, site' = site, NEW o \in Offers, UNCHANGED src, now' = now, up' = up,
         op' \in [Offers -> Ops], wire' \in [Offers -> Seq(Messages)],
         call' \in [Offers -> {"none", "requested", "refused", "open", "broken", "cancelled"}],
         \A p \in Offers \ {o} : call'[p] = call[p] /\ wire'[p] = wire[p] /\ op'[p] = op[p],
         index' \in [Hashes -> {"absent", "data", "torn"}],
         stored \subseteq stored', stored' \subseteq Hashes,
         Genuine', Life(o)', Stream(o)', Cover(o)', Fresh(o)', Truth(o)'
  PROVE  RWInv'
<1>0. At(o)
  BY AtOffer, ZenonT(30)
<1> USE <1>0 DEF At
<1>1. /\ client' = client /\ pins' = pins /\ caller' = caller /\ other' = other
      /\ source' = source /\ alive' = alive
  BY ZenonT(30) DEF src
<1>2. Others(o) /\ Types'
  BY <1>1, ZenonT(30) DEF Others, Types
<1>3. Pinned'
  BY <1>1, ZenonT(30) DEF Pinned, InFlight
<1> QED
  BY <1>1, <1>2, <1>3, OneOffer, ZenonT(30)

\* Sending a message that is true.
LEMMA SendEffect ==
  ASSUME RWInv, NEW o \in Offers, NEW m \in Messages, Send(o, m), Reported(m.state, m.existing)
  PROVE  /\ wire' \in [Offers -> Seq(Messages)] /\ \A p \in Offers \ {o} : wire'[p] = wire[p]
         /\ call[o] # "open" => wire'[o] = wire[o]
         /\ wire[o] # <<>> => wire'[o] # <<>> /\ Head(wire'[o]) = Head(wire[o])
         /\ \A k \in 1..Len(wire'[o]) : Reported(wire'[o][k].state, wire'[o][k].existing)
<1>1. wire \in [Offers -> Seq(Messages)] /\ wire[o] \in Seq(Messages)
  BY ZenonT(30) DEF RWInv, Types
<1>2. \A k \in 1..Len(wire[o]) : Reported(wire[o][k].state, wire[o][k].existing)
  BY ZenonT(30) DEF RWInv, PerOffer, Truth
<1>3. CASE call[o] = "open"
  <2> DEFINE w == Append(wire[o], m)
  <2>1. /\ w \in Seq(Messages) /\ w # <<>>
        /\ wire[o] # <<>> => Head(w) = Head(wire[o])
        /\ \A k \in 1..Len(w) : (k \in 1..Len(wire[o]) /\ w[k] = wire[o][k]) \/ w[k] = m
    BY <1>1, AppendMessage, ZenonT(30)
  <2>2. wire' = [wire EXCEPT ![o] = w]
    BY <1>3, ZenonT(30) DEF Send
  <2> HIDE DEF w
  <2>3. wire' \in [Offers -> Seq(Messages)] /\ wire'[o] = w /\ \A p \in Offers \ {o} : wire'[p] = wire[p]
    BY <1>1, <2>1, <2>2, Change, ZenonT(30)
  <2>4. \A k \in 1..Len(w) : Reported(w[k].state, w[k].existing)
    BY <1>2, <2>1, ZenonT(30)
  <2> QED
    BY <1>3, <2>1, <2>3, <2>4, ZenonT(30)
<1>4. CASE call[o] # "open"
  <2>1. wire' = wire
    BY <1>1, <1>4, ZenonT(30) DEF Send
  <2> QED
    BY <1>1, <1>2, <2>1, ZenonT(30)
<1> QED
  BY <1>3, <1>4, ZenonT(30)

\* The end of an operation, with its result.
LEMMA FinishStep ==
  ASSUME RWInv, site' = site, NEW o \in Offers, NEW state \in Terminal, NEW existing \in SUBSET Hashes,
         Finish(o, state, existing), Reported(state, existing),
         op[o].state \in Live, op[o].transfer \in {"ok", "bad"},
         state \in {"committed", "unregistered"} => op[o].blocks = "kept",
         UNCHANGED src, now' = now, call' = call, index' = index, stored' = stored, up' = up
  PROVE  RWInv'
<1>0. At(o)
  BY AtOffer, ZenonT(30)
<1> USE <1>0 DEF At
<1> DEFINE r == [op[o] EXCEPT !.state = state, !.existing = existing, !.step = "release"]
           m == Result(state, existing)
<1>1. /\ r \in Ops /\ r.state = state /\ r.existing = existing /\ r.step = "release"
      /\ r.transfer = op[o].transfer /\ r.read = op[o].read /\ r.blocks = op[o].blocks
  BY ZenonT(30) DEF Ops
<1>2. m \in Messages /\ m.state = state /\ m.existing = existing
  BY ZenonT(30) DEF Result, Messages
<1>3. op' = [op EXCEPT ![o] = r] /\ Send(o, m)
  BY ZenonT(30) DEF Finish
<1> HIDE DEF r, m
<1>4. op' \in [Offers -> Ops] /\ op'[o] = r /\ \A p \in Offers \ {o} : op'[p] = op[p]
  BY <1>1, <1>3, Change, ZenonT(30)
<1>5. /\ wire' \in [Offers -> Seq(Messages)] /\ \A p \in Offers \ {o} : wire'[p] = wire[p]
      /\ call[o] # "open" => wire'[o] = wire[o]
      /\ wire[o] # <<>> => wire'[o] # <<>> /\ Head(wire'[o]) = Head(wire[o])
      /\ \A k \in 1..Len(wire'[o]) : Reported(wire'[o][k].state, wire'[o][k].existing)
  BY <1>2, <1>3, SendEffect, ZenonT(30)
<1>6. client' = client /\ alive' = alive
  BY ZenonT(30) DEF src
<1>7. state \notin {"none", "gone", "pending", "completing"} /\ op[o].state # "none"
  BY ZenonT(30) DEF Terminal, Live
<1>8. Life(o)'
  BY <1>1, <1>4, <1>7, ZenonT(30) DEF Life, Live
<1>9. Stream(o)'
  BY <1>1, <1>4, <1>5, <1>6, <1>7, ZenonT(30) DEF Stream, Live
<1>10. Cover(o)' /\ Fresh(o)'
  BY <1>1, <1>4, <1>7, ZenonT(30) DEF Cover, Fresh, Live
<1>11. Truth(o)'
  BY <1>1, <1>4, <1>5, <1>6, ZenonT(30) DEF Truth, Reported
<1>12. Genuine'
  BY <1>6, ZenonT(30) DEF Genuine
<1> QED
  BY <1>4, <1>5, <1>8, <1>9, <1>10, <1>11, <1>12, ServerStep, ZenonT(30) DEF Types

\* WriteRemote.
LEMMA WriteRemoteStep ==
  ASSUME RWInv, site' = site, NEW o \in Offers, WriteRemote(o)
  PROVE  RWInv'
<1>0. At(o)
  BY AtOffer, ZenonT(30)
<1> USE <1>0 DEF At
<1>1. /\ up /\ call[o] = "requested" /\ now + Hold <= client[o].hold + MaxLatency
      /\ now' = now /\ UNCHANGED src /\ index' = index /\ stored' = stored /\ up' = up
      /\ call' = [call EXCEPT ![o] = "open"]
  BY ZenonT(30) DEF WriteRemote
<1>2. client' = client /\ alive' = alive
  BY <1>1, ZenonT(30) DEF src
<1>3. client[o].pc = "offered" /\ op[o].state = "none" /\ wire[o] = <<>> /\ op[o] = NoOp
  BY <1>1, ZenonT(30) DEF Stream, Life
<1>4. /\ call' \in [Offers -> {"none", "requested", "refused", "open", "broken", "cancelled"}]
      /\ call'[o] = "open" /\ \A p \in Offers \ {o} : call'[p] = call[p]
  BY <1>1, ZenonT(30) DEF Types
<1>5. Genuine'
  BY <1>1, <1>2, ZenonT(30) DEF Genuine
<1>6. CASE Present # {}
  <2> DEFINE m == IF Present = Hashes THEN Ack("allexist", {}) ELSE Ack("partial", Present)
  <2>1. Present \subseteq stored /\ Present \subseteq Hashes
    BY ZenonT(30) DEF Genuine, Present
  <2>2. /\ m \in Messages /\ m.state \in {"allexist", "partial"} /\ m.state # "accepted"
        /\ m.state = "allexist" => stored = Hashes
        /\ m.existing \subseteq stored
    BY <2>1, ZenonT(30) DEF Ack, Messages, Terminal
  <2>3. op' = op /\ wire' = [wire EXCEPT ![o] = <<m>>]
    BY <1>6, ZenonT(30) DEF WriteRemote
  <2> HIDE DEF m
  <2>4. <<m>> \in Seq(Messages) /\ Len(<<m>>) = 1 /\ <<m>>[1] = m
    BY <2>2
  <2>5. wire' \in [Offers -> Seq(Messages)] /\ wire'[o] = <<m>> /\ \A p \in Offers \ {o} : wire'[p] = wire[p]
    BY <2>3, <2>4, Change, ZenonT(30)
  <2>6. Life(o)' /\ Fresh(o)'
    BY <1>1, <1>2, <2>3, ZenonT(30) DEF Life, Fresh
  <2>7. Stream(o)'
    BY <1>2, <1>3, <1>4, <2>3, <2>4, <2>5 DEF Stream
  <2>8. Cover(o)'
    BY <1>3, <2>3, ZenonT(30) DEF Cover, Live
  <2>9. Truth(o)'
    <3>1. \A k \in 1..Len(wire'[o]) : Reported(wire'[o][k].state, wire'[o][k].existing)
      BY <2>2, <2>4, <2>5 DEF Reported
    <3> QED
      BY <1>1, <1>2, <2>3, <3>1, ZenonT(30) DEF Truth, Reported
  <2> QED
    BY <1>1, <1>4, <1>5, <2>3, <2>5, <2>6, <2>7, <2>8, <2>9, ServerStep, ZenonT(30) DEF Types
<1>7. CASE Present = {}
  <2> DEFINE r == [NoOp EXCEPT !.state = "pending", !.transfer = "running",
                               !.blocks = "held", !.deadline = now + Grant]
             m == Ack("accepted", {})
  <2>1. /\ m \in Messages /\ m.state = "accepted" /\ m.existing = {}
    BY ZenonT(30) DEF Ack, Messages
  <2>2. /\ Hold \in Nat /\ Margin \in Nat /\ Margin < Hold /\ Cap \in Nat
        /\ MaxLatency \in Nat /\ MaxLatency <= Margin
    BY SiteNumbers, ZenonT(30)
  <2>3. client[o].hold \in Nat
    BY ZenonT(30) DEF Clients
  <2>4. now + Grant \in Nat /\ now + Grant <= client[o].hold
    BY <1>1, <2>2, <2>3 DEF Grant, Requested
  <2>5. /\ r \in Ops /\ r.state = "pending" /\ r.step = "idle" /\ r.transfer = "running" /\ r.blocks = "held"
        /\ r.deadline = now + Grant /\ r.existing = {}
    BY <2>4, ZenonT(30) DEF NoOp, Ops, Live
  <2>6. op' = [op EXCEPT ![o] = r] /\ wire' = [wire EXCEPT ![o] = <<m>>]
    BY <1>7, ZenonT(30) DEF WriteRemote
  <2> HIDE DEF r, m
  <2>7. op' \in [Offers -> Ops] /\ op'[o] = r /\ \A p \in Offers \ {o} : op'[p] = op[p]
    BY <2>5, <2>6, Change, ZenonT(30)
  <2>8. <<m>> \in Seq(Messages) /\ Len(<<m>>) = 1 /\ <<m>>[1] = m /\ Head(<<m>>) = m /\ <<m>> # <<>>
    BY <2>1
  <2>9. wire' \in [Offers -> Seq(Messages)] /\ wire'[o] = <<m>> /\ \A p \in Offers \ {o} : wire'[p] = wire[p]
    BY <2>6, <2>8, Change, ZenonT(30)
  <2>10. Life(o)'
    BY <1>1, <2>5, <2>7, ZenonT(30) DEF Life
  <2>11. Stream(o)'
    <3>1. client'[o].pc = "offered" /\ call'[o] = "open" /\ Len(wire'[o]) = 1
      BY <1>2, <1>3, <1>4, <2>8, <2>9, ZenonT(30)
    <3> QED
      BY <2>1, <2>8, <2>9, <3>1 DEF Stream
  <2>12. Cover(o)'
    BY <1>2, <1>3, <1>4, <2>4, <2>5, <2>7, ZenonT(30) DEF Cover, InFlight
  <2>13. Fresh(o)'
    BY <2>5, <2>7, ZenonT(30) DEF Fresh
  <2>14. Truth(o)'
    <3>1. \A k \in 1..Len(wire'[o]) : Reported(wire'[o][k].state, wire'[o][k].existing)
      BY <2>1, <2>8, <2>9 DEF Reported
    <3> QED
      BY <1>1, <1>2, <2>5, <2>7, <3>1, ZenonT(30) DEF Truth, Reported
  <2> QED
    BY <1>1, <1>4, <1>5, <2>7, <2>9, <2>10, <2>11, <2>12, <2>13, <2>14, ServerStep, ZenonT(30) DEF Types
<1> QED
  BY <1>6, <1>7, ZenonT(30)

\* WriteRemoteRefused, and a stream that breaks or is cancelled.
LEMMA CallEndsStep ==
  ASSUME RWInv, site' = site, NEW o \in Offers, WriteRemoteRefused(o) \/ Break(o) \/ Cancel(o)
  PROVE  RWInv'
<1>0. At(o)
  BY AtOffer, ZenonT(30)
<1> USE <1>0 DEF At
<1>1. /\ now' = now /\ UNCHANGED src /\ op' = op /\ index' = index /\ stored' = stored /\ up' = up
      /\ call[o] \in {"requested", "open"}
  BY ZenonT(30) DEF WriteRemoteRefused, Break, Cancel, CallEnds, dst
<1>2. client' = client /\ alive' = alive
  BY <1>1, ZenonT(30) DEF src
<1>3. /\ call' \in [Offers -> {"none", "requested", "refused", "open", "broken", "cancelled"}]
      /\ call'[o] \in {"refused", "broken", "cancelled"} /\ \A p \in Offers \ {o} : call'[p] = call[p]
  BY ZenonT(30) DEF WriteRemoteRefused, Break, Cancel, CallEnds, Types
<1>4. wire' \in [Offers -> Seq(Messages)] /\ wire'[o] = <<>> /\ \A p \in Offers \ {o} : wire'[p] = wire[p]
  <2>1. CASE WriteRemoteRefused(o)
    BY <2>1, ZenonT(30) DEF WriteRemoteRefused, Stream
  <2>2. CASE Break(o) \/ Cancel(o)
    <3>1. wire' = [wire EXCEPT ![o] = <<>>]
      BY <2>2, ZenonT(30) DEF Break, Cancel, CallEnds
    <3>2. <<>> \in Seq(Messages)
      OBVIOUS
    <3> QED
      BY <3>1, <3>2, Change, ZenonT(30)
  <2> QED
    BY <2>1, <2>2, ZenonT(30)
<1>5. Delivers /\ client[o].pc = "offered" => op[o].state = "none"
  <2>1. CASE WriteRemoteRefused(o)
    BY <2>1, ZenonT(30) DEF WriteRemoteRefused, Stream
  <2>2. CASE Break(o) \/ Cancel(o)
    BY <2>2, ZenonT(30) DEF Break, Cancel, CallEnds, Delivers
  <2> QED
    BY <2>1, <2>2, ZenonT(30)
<1>6. client[o].pc # "idle"
  BY <1>1, ZenonT(30) DEF Stream
<1>7. Genuine' /\ Life(o)' /\ Fresh(o)'
  BY <1>1, <1>2, ZenonT(30) DEF Genuine, Life, Fresh
<1>8. Stream(o)'
  <2>1. Len(wire'[o]) <= 1 /\ call'[o] # "open" /\ call'[o] # "requested"
    BY <1>3, <1>4
  <2> QED
    BY <1>1, <1>2, <1>4, <1>6, <2>1, ZenonT(30) DEF Stream
<1>9. Cover(o)'
  BY <1>1, <1>2, <1>5, ZenonT(30) DEF Cover, InFlight, Live
<1>10. Truth(o)'
  <2>1. \A k \in 1..Len(wire'[o]) : Reported(wire'[o][k].state, wire'[o][k].existing)
    BY <1>4
  <2> QED
    BY <1>1, <1>2, <2>1, ZenonT(30) DEF Truth, Reported
<1> QED
  BY <1>1, <1>3, <1>4, <1>7, <1>8, <1>9, <1>10, ServerStep, ZenonT(30) DEF Types

\* TransferEnds: what is read while the operation can be claimed is the data.
LEMMA TransferEndsStep ==
  ASSUME RWInv, site' = site, NEW o \in Offers, NEW good \in BOOLEAN, TransferEnds(o, good)
  PROVE  RWInv'
<1>0. At(o)
  BY AtOffer, ZenonT(30)
<1> USE <1>0 DEF At
<1> DEFINE r == [op[o] EXCEPT !.transfer = IF good THEN "ok" ELSE "bad",
                              !.read = IF source = "data" THEN "data" ELSE "torn"]
<1>1. /\ r \in Ops /\ r.state = op[o].state /\ r.step = op[o].step /\ r.transfer \in {"ok", "bad"}
      /\ r.read = (IF source = "data" THEN "data" ELSE "torn") /\ r.blocks = op[o].blocks
      /\ r.deadline = op[o].deadline /\ r.existing = op[o].existing
  BY ZenonT(30) DEF Ops
<1>2. /\ op[o].transfer = "running" /\ op' = [op EXCEPT ![o] = r]
      /\ now' = now /\ UNCHANGED src /\ call' = call /\ wire' = wire
      /\ index' = index /\ stored' = stored /\ up' = up
  BY ZenonT(30) DEF TransferEnds, net
<1> HIDE DEF r
<1>3. op' \in [Offers -> Ops] /\ op'[o] = r /\ \A p \in Offers \ {o} : op'[p] = op[p]
  BY <1>1, <1>2, Change, ZenonT(30)
<1>4. client' = client /\ alive' = alive
  BY <1>2, ZenonT(30) DEF src
<1>5. op[o].step = "idle" /\ op[o].state # "none"
  BY <1>2 DEF Life, NoOp
<1>6. Genuine'
  BY <1>2, <1>4, ZenonT(30) DEF Genuine
<1>7. Life(o)'
  BY <1>1, <1>2, <1>3, <1>5, ZenonT(30) DEF Life
<1>8. Stream(o)'
  BY <1>1, <1>2, <1>3, <1>4, ZenonT(30) DEF Stream
<1>9. Cover(o)'
  BY <1>1, <1>2, <1>3, <1>4, ZenonT(30) DEF Cover, InFlight
<1>10. Fresh(o)'
  <2>1. alive /\ Delivers /\ op[o].state = "pending" /\ now < op[o].deadline => source = "data"
    BY ZenonT(30) DEF Cover, Pinned
  <2> QED
    BY <1>1, <1>2, <1>3, <1>4, <1>5, <2>1, ZenonT(30) DEF Fresh
<1>11. Truth(o)'
  BY <1>1, <1>2, <1>3, <1>4, ZenonT(30) DEF Truth, Reported
<1> QED
  BY <1>2, <1>3, <1>6, <1>7, <1>8, <1>9, <1>10, <1>11, ServerStep, ZenonT(30) DEF Types

\* A step that moves an operation on without a message, its read and deadline
\* kept.
LEMMA MoveOn ==
  ASSUME RWInv, site' = site, NEW o \in Offers, NEW r \in Ops, op' = [op EXCEPT ![o] = r],
         UNCHANGED src, now' = now, UNCHANGED net, index' = index, stored' = stored, up' = up,
         r.deadline = op[o].deadline, r.existing = op[o].existing, r.state # "none", op[o].state # "none",
         r.state = "pending" => op[o].state = "pending" /\ r.transfer = op[o].transfer /\ r.read = op[o].read,
         r.state \in Live => op[o].state \in Live,
         r.state \in {"committed", "allexist"} => op[o].state \in {"committed", "allexist"},
         r.step = "publish" => op[o].step = "publish",
         r.step \in {"recheck", "insert"} => r.read = "data" \/ ~alive \/ ~Delivers,
         Life(o)'
  PROVE  RWInv'
<1>0. At(o)
  BY AtOffer, ZenonT(30)
<1> USE <1>0 DEF At
<1>1. op' \in [Offers -> Ops] /\ op'[o] = r /\ \A p \in Offers \ {o} : op'[p] = op[p]
  BY Change, ZenonT(30)
<1>2. client' = client /\ alive' = alive /\ call' = call /\ wire' = wire
  BY ZenonT(30) DEF src, net
<1>3. Genuine'
  BY <1>2, ZenonT(30) DEF Genuine
<1>4. Stream(o)'
  BY <1>1, <1>2, ZenonT(30) DEF Stream
<1>5. Cover(o)'
  BY <1>1, <1>2, ZenonT(30) DEF Cover, InFlight
<1>6. Fresh(o)'
  BY <1>1, <1>2, ZenonT(30) DEF Fresh
<1>7. Truth(o)'
  BY <1>1, <1>2, ZenonT(30) DEF Truth, Reported
<1> QED
  BY <1>1, <1>2, <1>3, <1>4, <1>5, <1>6, <1>7, ServerStep, ZenonT(30) DEF Types

\* Complete: the claim, in time, of what was read in time.
LEMMA CompleteStep ==
  ASSUME RWInv, site' = site, NEW o \in Offers, Complete(o)
  PROVE  RWInv'
<1>0. At(o)
  BY AtOffer, ZenonT(30)
<1> USE <1>0 DEF At
<1>1. /\ op[o].transfer \in {"ok", "bad"} /\ op[o].step = "idle"
      /\ now' = now /\ UNCHANGED src /\ call' = call /\ index' = index /\ stored' = stored /\ up' = up
  BY ZenonT(30) DEF Complete
<1>2. op[o].state # "none" /\ op[o].state # "completing"
  BY <1>1 DEF Life, NoOp
<1>3. CASE op[o].transfer = "ok" /\ op[o].state = "pending" /\ now < op[o].deadline
  <2> DEFINE r == [op[o] EXCEPT !.state = "completing", !.step = "recheck"]
  <2>1. /\ r \in Ops /\ r.state = "completing" /\ r.step = "recheck" /\ r.transfer = op[o].transfer
        /\ r.read = op[o].read /\ r.blocks = op[o].blocks /\ r.deadline = op[o].deadline
        /\ r.existing = op[o].existing
    BY ZenonT(30) DEF Ops, Live
  <2>2. op' = [op EXCEPT ![o] = r] /\ wire' = wire
    BY <1>3, ZenonT(30) DEF Complete
  <2> HIDE DEF r
  <2>3. op'[o] = r
    BY <2>1, <2>2, Change, ZenonT(30)
  <2>4. Life(o)'
    BY <1>1, <1>3, <2>1, <2>3, ZenonT(30) DEF Life
  <2>5. r.read = "data" \/ ~alive \/ ~Delivers
    BY <1>3, <2>1, ZenonT(30) DEF Fresh
  <2> QED
    BY <1>1, <1>2, <1>3, <2>1, <2>2, <2>4, <2>5, MoveOn, ZenonT(30) DEF net, Live
<1>4. CASE op[o].state = "pending" /\ ~(op[o].transfer = "ok" /\ now < op[o].deadline)
  <2>1. Finish(o, "failed", {})
    BY <1>4, ZenonT(30) DEF Complete
  <2>2. "failed" \in Terminal /\ {} \in SUBSET Hashes /\ Reported("failed", {}) /\ op[o].state \in Live
    BY <1>4, ZenonT(30) DEF Terminal, Live, Reported
  <2> QED
    BY <1>1, <2>1, <2>2, FinishStep, ZenonT(30)
<1>5. CASE op[o].state # "pending"
  <2> DEFINE r == [op[o] EXCEPT !.step = "release"]
  <2>1. /\ r \in Ops /\ r.state = op[o].state /\ r.step = "release" /\ r.transfer = op[o].transfer
        /\ r.read = op[o].read /\ r.blocks = op[o].blocks /\ r.deadline = op[o].deadline
        /\ r.existing = op[o].existing
    BY ZenonT(30) DEF Ops
  <2>2. op' = [op EXCEPT ![o] = r] /\ wire' = wire
    BY <1>5, ZenonT(30) DEF Complete
  <2> HIDE DEF r
  <2>3. op'[o] = r
    BY <2>1, <2>2, Change, ZenonT(30)
  <2>4. Life(o)'
    BY <1>1, <1>2, <1>5, <2>1, <2>3, ZenonT(30) DEF Life
  <2> QED
    BY <1>1, <1>2, <1>5, <2>1, <2>2, <2>4, MoveOn, ZenonT(30) DEF net
<1> QED
  BY <1>3, <1>4, <1>5, ZenonT(30)

\* Recheck.
LEMMA RecheckStep ==
  ASSUME RWInv, site' = site, NEW o \in Offers, Recheck(o)
  PROVE  RWInv'
<1>0. At(o)
  BY AtOffer, ZenonT(30)
<1> USE <1>0 DEF At
<1>1. /\ op[o].step = "recheck"
      /\ now' = now /\ UNCHANGED src /\ call' = call /\ index' = index /\ stored' = stored /\ up' = up
  BY ZenonT(30) DEF Recheck
<1>2. op[o].state = "completing" /\ op[o].transfer \in {"ok", "bad"} /\ op[o].blocks = "held"
  BY <1>1, ZenonT(30) DEF Life
<1>3. Present \subseteq stored /\ Present \in SUBSET Hashes
  BY ZenonT(30) DEF Genuine, Present
<1>4. CASE Present = {}
  <2> DEFINE r == [op[o] EXCEPT !.step = "insert"]
  <2>1. /\ r \in Ops /\ r.state = op[o].state /\ r.step = "insert" /\ r.transfer = op[o].transfer
        /\ r.read = op[o].read /\ r.blocks = op[o].blocks /\ r.deadline = op[o].deadline
        /\ r.existing = op[o].existing
    BY ZenonT(30) DEF Ops
  <2>2. op' = [op EXCEPT ![o] = r] /\ wire' = wire
    BY <1>4, ZenonT(30) DEF Recheck
  <2> HIDE DEF r
  <2>3. op'[o] = r
    BY <2>1, <2>2, Change, ZenonT(30)
  <2>4. Life(o)'
    BY <1>1, <1>2, <2>1, <2>3, ZenonT(30) DEF Life
  <2>5. r.read = "data" \/ ~alive \/ ~Delivers
    BY <1>1, <2>1, ZenonT(30) DEF Fresh
  <2> QED
    BY <1>1, <1>2, <2>1, <2>2, <2>4, <2>5, MoveOn, ZenonT(30) DEF net
<1>5. CASE Present # {} /\ Present = Hashes
  <2>1. Finish(o, "allexist", {})
    BY <1>5, ZenonT(30) DEF Recheck
  <2>2. "allexist" \in Terminal /\ {} \in SUBSET Hashes /\ Reported("allexist", {}) /\ op[o].state \in Live
    BY <1>2, <1>3, <1>5, ZenonT(30) DEF Terminal, Live, Reported
  <2> QED
    BY <1>1, <1>2, <2>1, <2>2, FinishStep, ZenonT(30)
<1>6. CASE Present # {} /\ Present # Hashes
  <2>1. Finish(o, "partial", Present)
    BY <1>6, ZenonT(30) DEF Recheck
  <2>2. "partial" \in Terminal /\ Reported("partial", Present) /\ op[o].state \in Live
    BY <1>2, <1>3, ZenonT(30) DEF Terminal, Live, Reported
  <2> QED
    BY <1>1, <1>2, <1>3, <2>1, <2>2, FinishStep, ZenonT(30)
<1> QED
  BY <1>4, <1>5, <1>6, ZenonT(30)

\* Insert: the index takes the batch.
LEMMA InsertStep ==
  ASSUME RWInv, site' = site, NEW o \in Offers, Insert(o)
  PROVE  RWInv'
<1>0. At(o)
  BY AtOffer, ZenonT(30)
<1> USE <1>0 DEF At
<1> DEFINE r == [op[o] EXCEPT !.step = "publish", !.blocks = "kept"]
<1>1. /\ r \in Ops /\ r.state = op[o].state /\ r.step = "publish" /\ r.transfer = op[o].transfer
      /\ r.read = op[o].read /\ r.blocks = "kept" /\ r.deadline = op[o].deadline
      /\ r.existing = op[o].existing
  BY ZenonT(30) DEF Ops
<1>2. /\ op[o].step = "insert" /\ op' = [op EXCEPT ![o] = r]
      /\ index' = [h \in Hashes |-> op[o].read] /\ stored' = Hashes
      /\ now' = now /\ UNCHANGED src /\ call' = call /\ wire' = wire /\ up' = up
  BY ZenonT(30) DEF Insert, net
<1> HIDE DEF r
<1>3. op[o].state = "completing" /\ op[o].transfer \in {"ok", "bad"} /\ up
  BY <1>2, ZenonT(30) DEF Life
<1>4. op' \in [Offers -> Ops] /\ op'[o] = r /\ \A p \in Offers \ {o} : op'[p] = op[p]
  BY <1>1, <1>2, Change, ZenonT(30)
<1>5. client' = client /\ alive' = alive
  BY <1>2, ZenonT(30) DEF src
<1>6. alive /\ Delivers => op[o].read = "data"
  BY <1>2, ZenonT(30) DEF Fresh
<1>7. op[o].read \in {"data", "torn"}
  BY <1>3, ZenonT(30) DEF Life, Ops
<1>8. index' \in [Hashes -> {"absent", "data", "torn"}]
  BY <1>2, <1>7, ZenonT(30)
<1>9. Genuine'
  BY <1>2, <1>5, <1>6, ZenonT(30) DEF Genuine
<1>10. Life(o)'
  BY <1>1, <1>2, <1>3, <1>4, ZenonT(30) DEF Life
<1>11. Stream(o)'
  BY <1>1, <1>2, <1>4, <1>5, ZenonT(30) DEF Stream
<1>12. Cover(o)' /\ Fresh(o)'
  BY <1>1, <1>2, <1>3, <1>4, <1>5, ZenonT(30) DEF Cover, InFlight, Fresh
<1>13. Truth(o)'
  <2>1. \A k \in 1..Len(wire[o]) : wire[o][k].existing \subseteq Hashes
    BY ZenonT(30) DEF Truth, Reported
  <2>2. \A k \in 1..Len(wire'[o]) : stored' = Hashes /\ wire'[o][k].existing \subseteq stored'
    BY <1>2, <2>1, ZenonT(30)
  <2> QED
    BY <1>1, <1>2, <1>4, <1>5, <2>2, ZenonT(30) DEF Truth, Reported
<1> QED
  BY <1>2, <1>4, <1>8, <1>9, <1>10, <1>11, <1>12, <1>13, ServerStep, ZenonT(30) DEF Types

\* InsertRefused and Publish.
LEMMA PublishStep ==
  ASSUME RWInv, site' = site, NEW o \in Offers,
         InsertRefused(o) \/ \E registered \in BOOLEAN : Publish(o, registered)
  PROVE  RWInv'
<1>0. At(o)
  BY AtOffer, ZenonT(30)
<1> USE <1>0 DEF At
<1>1. /\ now' = now /\ UNCHANGED src /\ call' = call /\ index' = index /\ stored' = stored /\ up' = up
      /\ op[o].step \in {"insert", "publish"}
  BY ZenonT(30) DEF InsertRefused, Publish
<1>2. op[o].state \in Live /\ op[o].transfer \in {"ok", "bad"}
  BY <1>1, ZenonT(30) DEF Life, Live
<1>3. CASE InsertRefused(o)
  <2>1. Finish(o, "failed", {})
    BY <1>3, ZenonT(30) DEF InsertRefused
  <2>2. "failed" \in Terminal /\ {} \in SUBSET Hashes /\ Reported("failed", {})
    BY ZenonT(30) DEF Terminal, Reported
  <2> QED
    BY <1>1, <1>2, <2>1, <2>2, FinishStep, ZenonT(30)
<1>4. ASSUME NEW registered \in BOOLEAN, Publish(o, registered) PROVE RWInv'
  <2> DEFINE st == IF registered THEN "committed" ELSE "unregistered"
  <2>1. Finish(o, st, {}) /\ op[o].step = "publish"
    BY <1>4, ZenonT(30) DEF Publish
  <2>2. op[o].blocks = "kept" /\ stored = Hashes
    BY <2>1, ZenonT(30) DEF Life, Truth
  <2>3. st \in Terminal /\ {} \in SUBSET Hashes /\ Reported(st, {})
    BY <2>2, ZenonT(30) DEF Terminal, Reported
  <2> HIDE DEF st
  <2> QED
    BY <1>1, <1>2, <2>1, <2>2, <2>3, FinishStep, ZenonT(30)
<1> QED
  BY <1>3, <1>4, ZenonT(30)

\* ReleaseLandingBlocks and Collect.
LEMMA ReleaseStep ==
  ASSUME RWInv, site' = site, NEW o \in Offers, ReleaseLandingBlocks(o) \/ Collect(o)
  PROVE  RWInv'
<1>0. At(o)
  BY AtOffer, ZenonT(30)
<1> USE <1>0 DEF At
<1>1. now' = now /\ UNCHANGED src /\ UNCHANGED net /\ index' = index /\ stored' = stored /\ up' = up
  BY ZenonT(30) DEF ReleaseLandingBlocks, Collect
<1>2. CASE ReleaseLandingBlocks(o)
  <2> DEFINE r == [op[o] EXCEPT !.step = "done", !.blocks = IF @ = "held" THEN "freed" ELSE @]
  <2>1. /\ r \in Ops /\ r.state = op[o].state /\ r.step = "done" /\ r.transfer = op[o].transfer
        /\ r.read = op[o].read /\ r.blocks = (IF op[o].blocks = "held" THEN "freed" ELSE op[o].blocks)
        /\ r.deadline = op[o].deadline /\ r.existing = op[o].existing
    BY ZenonT(30) DEF Ops
  <2>2. op' = [op EXCEPT ![o] = r] /\ op[o].step = "release"
    BY <1>2, ZenonT(30) DEF ReleaseLandingBlocks
  <2> HIDE DEF r
  <2>3. op'[o] = r
    BY <2>1, <2>2, Change, ZenonT(30)
  <2>4. op[o].state \notin {"none", "pending", "completing"}
    BY <2>2 DEF Life, NoOp
  <2>5. Life(o)'
    BY <1>1, <2>1, <2>2, <2>3, <2>4, ZenonT(30) DEF Life
  <2> QED
    BY <1>1, <2>1, <2>2, <2>4, <2>5, MoveOn, ZenonT(30)
<1>3. CASE Collect(o)
  <2> DEFINE r == [op[o] EXCEPT !.state = "gone"]
  <2>1. /\ r \in Ops /\ r.state = "gone" /\ r.step = op[o].step /\ r.transfer = op[o].transfer
        /\ r.read = op[o].read /\ r.blocks = op[o].blocks
        /\ r.deadline = op[o].deadline /\ r.existing = op[o].existing
    BY ZenonT(30) DEF Ops
  <2>2. /\ op' = [op EXCEPT ![o] = r] /\ op[o].state \in Terminal
        /\ op[o].blocks = "freed" \/ op[o].state \in {"committed", "unregistered"}
    BY <1>3, ZenonT(30) DEF Collect
  <2> HIDE DEF r
  <2>3. op'[o] = r
    BY <2>1, <2>2, Change, ZenonT(30)
  <2>4. op[o].state \notin {"none", "pending", "completing"}
    BY <2>2, ZenonT(30) DEF Terminal
  <2>5. Life(o)'
    BY <1>1, <2>1, <2>2, <2>3, <2>4, ZenonT(30) DEF Life
  <2>6. r.step \notin {"publish", "recheck", "insert"}
    BY <2>1, <2>4, ZenonT(30) DEF Life
  <2> QED
    BY <1>1, <2>1, <2>2, <2>4, <2>5, <2>6, MoveOn, ZenonT(30) DEF Live
<1> QED
  BY <1>2, <1>3, ZenonT(30)

\* DeadlineFires.
LEMMA DeadlineFiresStep ==
  ASSUME RWInv, site' = site, NEW o \in Offers, DeadlineFires(o)
  PROVE  RWInv'
<1>0. At(o)
  BY AtOffer, ZenonT(30)
<1> USE <1>0 DEF At
<1> DEFINE r == [op[o] EXCEPT !.state = "failed"]
           m == Result("failed", {})
<1>1. /\ r \in Ops /\ r.state = "failed" /\ r.step = op[o].step /\ r.transfer = op[o].transfer
      /\ r.read = op[o].read /\ r.blocks = op[o].blocks
      /\ r.deadline = op[o].deadline /\ r.existing = op[o].existing
  BY ZenonT(30) DEF Ops, Terminal
<1>2. m \in Messages /\ m.state = "failed" /\ m.existing = {}
  BY ZenonT(30) DEF Result, Messages, Terminal
<1>3. /\ op' = [op EXCEPT ![o] = r] /\ op[o].state = "pending" /\ Send(o, m)
      /\ now' = now /\ UNCHANGED src /\ call' = call /\ index' = index /\ stored' = stored /\ up' = up
  BY ZenonT(30) DEF DeadlineFires
<1> HIDE DEF r, m
<1>4. op' \in [Offers -> Ops] /\ op'[o] = r /\ \A p \in Offers \ {o} : op'[p] = op[p]
  BY <1>1, <1>3, Change, ZenonT(30)
<1>5. Reported(m.state, m.existing)
  BY <1>2, ZenonT(30) DEF Reported
<1>6. /\ wire' \in [Offers -> Seq(Messages)] /\ \A p \in Offers \ {o} : wire'[p] = wire[p]
      /\ call[o] # "open" => wire'[o] = wire[o]
      /\ wire[o] # <<>> => wire'[o] # <<>> /\ Head(wire'[o]) = Head(wire[o])
      /\ \A k \in 1..Len(wire'[o]) : Reported(wire'[o][k].state, wire'[o][k].existing)
  BY <1>2, <1>3, <1>5, SendEffect, ZenonT(30)
<1>7. client' = client /\ alive' = alive
  BY <1>3, ZenonT(30) DEF src
<1>8. Genuine'
  BY <1>3, <1>7, ZenonT(30) DEF Genuine
<1>9. Life(o)'
  BY <1>1, <1>3, <1>4, ZenonT(30) DEF Life
<1>10. Stream(o)'
  BY <1>1, <1>3, <1>4, <1>6, <1>7, ZenonT(30) DEF Stream, Live
<1>11. Cover(o)' /\ Fresh(o)'
  BY <1>1, <1>3, <1>4, <1>7, ZenonT(30) DEF Cover, Fresh, Live, Life
<1>12. Truth(o)'
  BY <1>1, <1>3, <1>4, <1>6, <1>7, ZenonT(30) DEF Truth, Reported
<1> QED
  BY <1>3, <1>4, <1>6, <1>8, <1>9, <1>10, <1>11, <1>12, ServerStep, ZenonT(30) DEF Types

-----------------------------------------------------------------------------
(* The steps that concern no single offer. *)

\* A step that leaves every offer as it was.
LEMMA NoOffer ==
  ASSUME RWInv, site' = site, now' \in Nat, now <= now', up' = up, alive' = alive,
         client' = client, call' = call, wire' = wire, op' = op,
         stored \subseteq stored', stored' \subseteq Hashes, Types', Pinned', Genuine'
  PROVE  RWInv'
<1>1. \A p \in Offers : PerOffer(p)'
  BY OfferKept, ZenonT(30)
<1> QED
  BY <1>1, SiteFixed, ZenonT(30) DEF RWInv

\* The callers, the other user, the evictor and the clock.
LEMMA SourceStep ==
  ASSUME RWInv, site' = site, CallerPin \/ CallerRelease \/ Reuse \/ OtherPin \/ Tick \/ UNCHANGED vars
  PROVE  RWInv'
<1>1. /\ client' = client /\ alive' = alive /\ call' = call /\ wire' = wire /\ op' = op
      /\ index' = index /\ stored' = stored /\ up' = up
  BY ZenonT(30) DEF CallerPin, CallerRelease, Reuse, OtherPin, Tick, vars, src, net, dst
<1>2. Types /\ Pinned /\ Genuine /\ now \in Nat /\ stored \subseteq Hashes
  BY ZenonT(30) DEF RWInv, Types
<1>3. now' \in Nat /\ now <= now'
  BY <1>2 DEF CallerPin, CallerRelease, Reuse, OtherPin, Tick, vars
<1>4. caller' \in {0, 1} /\ other' \in {0, 1} /\ source' \in {"data", "reused"}
  BY <1>2, ZenonT(30) DEF CallerPin, CallerRelease, Reuse, OtherPin, Tick, vars, src, Types
<1>5. Types'
  BY <1>1, <1>2, <1>3, <1>4, SiteFixed, ZenonT(30) DEF Types
<1>6. Genuine'
  BY <1>1, <1>2, SiteFixed, ZenonT(30) DEF Genuine
<1>7. \A o \in Offers : InFlight(o)' <=> InFlight(o)
  BY <1>1, ZenonT(30) DEF InFlight
<1>8. caller \in {0, 1} /\ other \in {0, 1}
  BY <1>2, ZenonT(30) DEF Types
<1>9. Pinned'
  <2> DEFINE n == IF \E o \in Offers : InFlight(o) THEN 1 ELSE 0
  <2>1. n \in {0, 1} /\ (alive => pins = caller + other + n)
    BY <1>2, ZenonT(30) DEF Pinned
  <2>2. alive' => pins' = caller' + other' + n
    <3>1. CASE CallerPin
      BY <1>8, <2>1, <3>1 DEF CallerPin
    <3>2. CASE CallerRelease
      BY <1>1, <1>8, <2>1, <3>2 DEF CallerRelease, Less
    <3>3. CASE Reuse
      BY <1>1, <2>1, <3>3 DEF Reuse
    <3>4. CASE OtherPin
      BY <1>1, <1>8, <2>1, <3>4 DEF OtherPin
    <3>5. CASE Tick \/ UNCHANGED vars
      BY <2>1, <3>5, ZenonT(30) DEF Tick, vars, src
    <3> QED
      BY <3>1, <3>2, <3>3, <3>4, <3>5, ZenonT(30)
  <2>3. ASSUME NEW o \in Offers, InFlight(o) PROVE alive' /\ caller' = 1 /\ source' = "data"
    <3>1. alive /\ caller = 1 /\ source = "data" /\ n = 1
      BY <1>2, <2>3, ZenonT(30) DEF Pinned
    <3>2. pins # 0
      BY <1>8, <2>1, <3>1
    <3> HIDE DEF n
    <3> QED
      BY <1>1, <2>3, <3>1, <3>2, ZenonT(30)
         DEF CallerPin, CallerRelease, Reuse, OtherPin, Tick, vars, src
  <2>4. \A o, p \in Offers : InFlight(o) /\ InFlight(p) => o = p
    BY <1>2, ZenonT(30) DEF Pinned
  <2> QED
    BY <1>7, <2>2, <2>3, <2>4, SiteFixed, ZenonT(30) DEF Pinned
<1> QED
  BY <1>1, <1>2, <1>3, <1>5, <1>6, <1>9, NoOffer, ZenonT(30)

\* The destination's own saves and evictions.
LEMMA IndexStep ==
  ASSUME RWInv, site' = site, NEW h \in Hashes, LocalSave(h) \/ Evict(h)
  PROVE  RWInv'
<1>1. /\ now' = now /\ UNCHANGED src /\ call' = call /\ wire' = wire /\ op' = op /\ up' = up
      /\ \/ index' = [index EXCEPT ![h] = "data"] /\ stored' = stored \cup {h}
         \/ index' = [index EXCEPT ![h] = "absent"] /\ stored' = stored
  BY ZenonT(30) DEF LocalSave, Evict, net
<1>2. /\ Types /\ Pinned /\ Genuine /\ now \in Nat /\ stored \subseteq Hashes
      /\ index \in [Hashes -> {"absent", "data", "torn"}]
  BY ZenonT(30) DEF RWInv, Types
<1>3. /\ client' = client /\ pins' = pins /\ caller' = caller /\ other' = other
      /\ source' = source /\ alive' = alive
  BY <1>1, ZenonT(30) DEF src
<1>4. /\ index' \in [Hashes -> {"absent", "data", "torn"}]
      /\ stored \subseteq stored' /\ stored' \subseteq Hashes
  BY <1>1, <1>2, ZenonT(30)
<1>5. Types'
  BY <1>1, <1>2, <1>3, <1>4, SiteFixed, ZenonT(30) DEF Types
<1>6. Pinned'
  BY <1>2, <1>3, SiteFixed, ZenonT(30) DEF Pinned, InFlight
<1>7. Genuine'
  BY <1>1, <1>2, <1>3, SiteFixed, ZenonT(30) DEF Genuine
<1> QED
  BY <1>1, <1>2, <1>3, <1>4, <1>5, <1>6, <1>7, NoOffer

\* The source store is destroyed.
LEMMA DestroyStep ==
  ASSUME RWInv, site' = site, Destroy
  PROVE  RWInv'
<1>1. /\ \A o \in Offers : client[o].pc # "offered"
      /\ ~alive' /\ now' = now /\ caller' = caller /\ other' = other /\ source' = source
      /\ op' = op /\ index' = index /\ stored' = stored /\ up' = up
      /\ client' = [o \in Offers |-> IF InFlight(o) THEN [client[o] EXCEPT !.pc = "settled"] ELSE client[o]]
      /\ call' = [o \in Offers |-> IF o \in active THEN "broken" ELSE call[o]]
      /\ wire' = [o \in Offers |-> IF o \in active THEN <<>> ELSE wire[o]]
  BY ZenonT(30) DEF Destroy, dst
<1>2. /\ Types /\ Genuine /\ client \in [Offers -> Clients] /\ wire \in [Offers -> Seq(Messages)]
      /\ call \in [Offers -> {"none", "requested", "refused", "open", "broken", "cancelled"}]
  BY ZenonT(30) DEF RWInv, Types
<1>3. ASSUME NEW o \in Offers
      PROVE  /\ client'[o] \in Clients /\ client'[o].pc \in {"idle", "settled"}
             /\ client'[o].pc = "idle" => client[o].pc = "idle"
             /\ client'[o].hold = client[o].hold /\ client'[o].verdict = client[o].verdict
  <2>1. client[o] \in Clients /\ client[o].pc \in Pcs
    BY <1>2, ZenonT(30) DEF Clients
  <2>2. CASE InFlight(o)
    <3> DEFINE r == [client[o] EXCEPT !.pc = "settled"]
    <3>1. r \in Clients /\ r.pc = "settled" /\ r.hold = client[o].hold /\ r.verdict = client[o].verdict
      BY <2>1, ZenonT(30) DEF Clients, Pcs
    <3>2. client'[o] = r
      BY <1>1, <2>2, ZenonT(30)
    <3> QED
      BY <3>1, <3>2, ZenonT(30)
  <2>3. CASE ~InFlight(o)
    <3>1. client'[o] = client[o]
      BY <1>1, <2>3, ZenonT(30)
    <3> QED
      BY <2>1, <2>3, <3>1, ZenonT(30) DEF InFlight, Pcs
  <2> QED
    BY <2>2, <2>3, ZenonT(30)
<1>4. ASSUME NEW o \in Offers
      PROVE  \/ call'[o] = call[o] /\ wire'[o] = wire[o]
             \/ call'[o] = "broken" /\ wire'[o] = <<>>
  BY <1>1, ZenonT(30)
<1>5. client' \in [Offers -> Clients]
  BY <1>1, <1>3, ZenonT(30)
<1>6. /\ call' \in [Offers -> {"none", "requested", "refused", "open", "broken", "cancelled"}]
      /\ wire' \in [Offers -> Seq(Messages)]
  BY <1>1, <1>2
<1>7. Types'
  BY <1>1, <1>2, <1>5, <1>6, SiteFixed, ZenonT(30) DEF Types
<1>8. Pinned'
  <2>1. \A o \in Offers : ~InFlight(o)'
    BY <1>3, ZenonT(30) DEF InFlight
  <2> QED
    BY <1>1, <2>1, SiteFixed, ZenonT(30) DEF Pinned
<1>9. Genuine'
  BY <1>1, <1>2, SiteFixed, ZenonT(30) DEF Genuine
<1>10. ASSUME NEW o \in Offers PROVE PerOffer(o)'
  <2>1. Life(o) /\ Stream(o) /\ Cover(o) /\ Truth(o) /\ Hashes' = Hashes
    BY SiteFixed, ZenonT(30) DEF RWInv, PerOffer
  <2>2. Life(o)'
    BY <1>1, <2>1, ZenonT(30) DEF Life
  <2>3. Stream(o)'
    BY <1>1, <1>3, <1>4, <2>1, ZenonT(30) DEF Stream
  <2>4. Cover(o)' /\ Fresh(o)'
    BY <1>1, <1>3, <2>1, ZenonT(30) DEF Cover, Fresh
  <2>5. Truth(o)'
    <3>1. \A k \in 1..Len(wire'[o]) : Reported(wire'[o][k].state, wire'[o][k].existing)
      BY <1>4, <2>1 DEF Truth
    <3> QED
      BY <1>1, <1>3, <2>1, <3>1, ZenonT(30) DEF Truth, Reported
  <2> QED
    BY <2>2, <2>3, <2>4, <2>5, ZenonT(30) DEF PerOffer
<1> QED
  BY <1>7, <1>8, <1>9, <1>10, SiteFixed, ZenonT(30) DEF RWInv

\* The destination goes away.
LEMMA DownStep ==
  ASSUME RWInv, site' = site, Down
  PROVE  RWInv'
<1>1. /\ now' = now /\ UNCHANGED src /\ stored' = stored /\ ~up'
      /\ op' = [o \in Offers |-> IF op[o].state = "none" THEN NoOp ELSE [NoOp EXCEPT !.state = "gone"]]
      /\ index' = [h \in Hashes |-> "absent"]
      /\ call' = [o \in Offers |-> IF call[o] = "none" THEN "none" ELSE "broken"]
      /\ wire' = [o \in Offers |-> <<>>]
  BY ZenonT(30) DEF Down
<1>2. /\ client' = client /\ pins' = pins /\ caller' = caller /\ other' = other
      /\ source' = source /\ alive' = alive
  BY <1>1, ZenonT(30) DEF src
<1>3. Types /\ Pinned
  BY ZenonT(30) DEF RWInv
<1> DEFINE gone == [NoOp EXCEPT !.state = "gone"]
<1>4. /\ NoOp \in Ops /\ NoOp.state = "none" /\ NoOp.step = "idle" /\ NoOp.transfer = "none" /\ NoOp.blocks = "none"
      /\ NoOp.existing = {}
      /\ gone \in Ops /\ gone.state = "gone" /\ gone.step = "idle" /\ gone.transfer = "none" /\ gone.blocks = "none"
      /\ gone.existing = {}
  BY ZenonT(30) DEF NoOp, Ops
<1>5. \A o \in Offers : op'[o] = IF op[o].state = "none" THEN NoOp ELSE gone
  BY <1>1, ZenonT(30)
<1> HIDE DEF gone
<1>6. op' \in [Offers -> Ops]
  BY <1>1, <1>4, <1>5, ZenonT(30)
<1>7. /\ call' \in [Offers -> {"none", "requested", "refused", "open", "broken", "cancelled"}]
      /\ wire' \in [Offers -> Seq(Messages)] /\ index' \in [Hashes -> {"absent", "data", "torn"}]
  BY <1>1
<1>8. Types'
  BY <1>1, <1>2, <1>3, <1>6, <1>7, SiteFixed, ZenonT(30) DEF Types
<1>9. Pinned'
  BY <1>2, <1>3, SiteFixed, ZenonT(30) DEF Pinned, InFlight
<1>10. Genuine'
  BY <1>1, SiteFixed, ZenonT(30) DEF Genuine
<1>11. ASSUME NEW o \in Offers PROVE PerOffer(o)'
  <2>1. Stream(o) /\ Truth(o) /\ Hashes' = Hashes
    BY SiteFixed, ZenonT(30) DEF RWInv, PerOffer
  <2>2. Life(o)'
    BY <1>4, <1>5, ZenonT(30) DEF Life
  <2>3. Stream(o)'
    <3>1. call'[o] = (IF call[o] = "none" THEN "none" ELSE "broken") /\ wire'[o] = <<>>
      BY <1>1, ZenonT(30)
    <3>2. op[o].state = "none" => op'[o].state = "none"
      BY <1>4, <1>5, ZenonT(30)
    <3> QED
      BY <1>2, <2>1, <3>1, <3>2 DEF Stream
  <2>4. Cover(o)' /\ Fresh(o)'
    BY <1>4, <1>5, ZenonT(30) DEF Cover, Fresh, Live
  <2>5. Truth(o)'
    <3>1. wire'[o] = <<>>
      BY <1>1, ZenonT(30)
    <3> QED
      BY <1>1, <1>2, <1>4, <1>5, <2>1, <3>1 DEF Truth, Reported
  <2> QED
    BY <2>2, <2>3, <2>4, <2>5, ZenonT(30) DEF PerOffer
<1> QED
  BY <1>8, <1>9, <1>10, <1>11, SiteFixed, ZenonT(30) DEF RWInv

-----------------------------------------------------------------------------
(* The results. *)

\* Every step preserves the invariant.
LEMMA RWStep == RWInv /\ [Next]_vars => RWInv'
<1> SUFFICES ASSUME RWInv, [Next]_vars PROVE RWInv'
  BY ZenonT(30)
<1>1. site' = site
  BY ZenonT(30) DEF Next, vars
<1>2. ASSUME NEW o \in Offers, ClientNext(o) PROVE RWInv'
  BY <1>1, <1>2, AckErrorStep, AckArrivesStep, ResultArrivesStep, StreamErrorStep, PollStep, ZenonT(30) DEF ClientNext
<1>3. ASSUME NEW o \in Offers, ServerNext(o) PROVE RWInv'
  BY <1>1, <1>3, WriteRemoteStep, CallEndsStep, TransferEndsStep, CompleteStep, RecheckStep, InsertStep,
     PublishStep, ReleaseStep, DeadlineFiresStep, ZenonT(30) DEF ServerNext
<1>4. ASSUME NEW o \in Offers, SaveRemote(o) \/ Break(o) \/ Cancel(o) PROVE RWInv'
  BY <1>1, <1>4, SaveRemoteStep, CallEndsStep, ZenonT(30)
<1>5. CASE CallerPin \/ CallerRelease \/ Reuse \/ OtherPin \/ Tick \/ UNCHANGED vars
  BY <1>1, <1>5, SourceStep, ZenonT(30)
<1>6. ASSUME NEW h \in Hashes, LocalSave(h) \/ Evict(h) PROVE RWInv'
  BY <1>1, <1>6, IndexStep, ZenonT(30)
<1>7. CASE Destroy \/ Down
  BY <1>1, <1>7, DestroyStep, DownStep, ZenonT(30)
<1> QED
  BY <1>2, <1>3, <1>4, <1>5, <1>6, <1>7, ZenonT(30) DEF Next

\* The invariant holds throughout.
LEMMA RWAlways == Spec => []RWInv
BY RWInit, RWStep, PTL DEF Spec

\* Where neither an ack nor a poll gets lost, the source's pin outlives every
\* pull that can still be committed: for any batch and any number of offers,
\* provided that the margin covers the latency of the request.
THEOREM PinCoversPullInvariant == Spec => []PinCoversPull
<1>1. RWInv => PinCoversPull
  BY ZenonT(30) DEF RWInv, PerOffer, Cover, PinCoversPull, PullsPinned
<1> QED
  BY <1>1, RWAlways, PTL

\* What a call holds, it gives back once, on every path.
THEOREM HoldsBalancedInvariant == Spec => []HoldsBalanced
<1>1. RWInv => HoldsBalanced
  <2> SUFFICES ASSUME RWInv PROVE HoldsBalanced
    BY ZenonT(30)
  <2> DEFINE F == {o \in Offers : InFlight(o)}
  <2>1. alive => pins = caller + other + Cardinality(F)
    <3>1. Pinned
      BY ZenonT(30) DEF RWInv
    <3>2. CASE \E o \in Offers : InFlight(o)
      <4>1. PICK o \in Offers : InFlight(o)
        BY <3>2, ZenonT(30)
      <4>2. F = {o}
        BY <3>1, <4>1, ZenonT(30) DEF Pinned
      <4>3. Cardinality(F) = 1
        BY <4>2, FS_Singleton, ZenonT(30)
      <4> QED
        BY <3>1, <3>2, <4>3, ZenonT(30) DEF Pinned
    <3>3. CASE ~\E o \in Offers : InFlight(o)
      <4>1. F = {}
        BY <3>3, ZenonT(30)
      <4>2. Cardinality(F) = 0
        BY <4>1, FS_EmptySet, ZenonT(30)
      <4> QED
        BY <3>1, <3>3, <4>2, ZenonT(30) DEF Pinned
    <3> QED
      BY <3>2, <3>3, ZenonT(30)
  <2>2. \A o \in Offers :
          /\ op[o].blocks = "freed" => op[o].transfer # "running" /\ op[o].state \notin {"committed", "unregistered"}
          /\ op[o].state = "gone" => op[o].blocks # "held"
    BY ZenonT(30) DEF RWInv, PerOffer, Life
  <2> QED
    BY <2>1, <2>2, ZenonT(30) DEF HoldsBalanced
<1> QED
  BY <1>1, RWAlways, PTL

\* The destination indexes only data that was read under the source's pin, and
\* no verdict reports a block the destination has never held.
THEOREM VerdictsTrueInvariant == Spec => []VerdictsTrue
<1>1. RWInv => VerdictsTrue
  BY ZenonT(30) DEF RWInv, PerOffer, Truth, Genuine, VerdictsTrue
<1> QED
  BY <1>1, RWAlways, PTL

\* A settled offer stays settled, with its verdict: no late ack, result, poll,
\* deadline or teardown revises what the caller was told.
THEOREM VerdictFinal ==
  Spec => [][\A o \in Offers : client[o].pc = "settled" => client'[o] = client[o]]_vars
<1>1. RWInv /\ [Next]_vars => [\A o \in Offers : client[o].pc = "settled" => client'[o] = client[o]]_vars
  <2> SUFFICES ASSUME RWInv, Next, NEW o \in Offers, client[o].pc = "settled" PROVE client'[o] = client[o]
    BY ZenonT(30)
  <2>1. client \in [Offers -> Clients]
    BY ZenonT(30) DEF RWInv, Types
  <2>2. ASSUME NEW p \in Offers, SaveRemote(p) \/ ClientNext(p) PROVE client'[o] = client[o]
    BY <2>1, <2>2, ZenonT(30) DEF SaveRemote, ClientNext, AckError, AckArrives, ResultArrives, StreamError, PollAnswered,
                      PollFailed, Settle, Moves
  <2>3. ASSUME NEW p \in Offers, ServerNext(p) \/ Break(p) \/ Cancel(p) PROVE client'[o] = client[o]
    BY <2>3, ZenonT(30) DEF ServerNext, Break, Cancel, CallEnds, WriteRemote, WriteRemoteRefused, TransferEnds, Complete, Recheck, Insert,
                InsertRefused, Publish, ReleaseLandingBlocks, DeadlineFires, Collect, src
  <2>4. CASE Destroy
    BY <2>4, ZenonT(30) DEF Destroy, InFlight
  <2>5. CASE CallerPin \/ CallerRelease \/ Reuse \/ OtherPin \/ Down \/ Tick \/ \E h \in Hashes : LocalSave(h) \/ Evict(h)
    BY <2>5, ZenonT(30) DEF CallerPin, CallerRelease, Reuse, OtherPin, Down, Tick, LocalSave, Evict, src
  <2> QED
    BY <2>2, <2>3, <2>4, <2>5, ZenonT(30) DEF Next
<1> QED
  BY <1>1, RWAlways, PTL DEF Spec
=============================================================================
