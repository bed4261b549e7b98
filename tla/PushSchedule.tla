----------------------------- MODULE PushSchedule -----------------------------
(***************************************************************************)
(* The push schedules of a weight-sync sender as they are encoded: folding *)
(* the entries of a shard into runs (job_entity.py), merging what a relay  *)
(* pushes into larger chunks (broadcast_engine.py), and deciding which     *)
(* host of the sender pushes which shard (raiden_controller.py).           *)
(*                                                                         *)
(* An entry is [peer, shard, dst, src, size, dblk, sblk, sstep, dstep, n,  *)
(* layer]: n runs of size bytes.  Offsets are absolute, as in every        *)
(* transfer of registered variables; block ids are labels.  An address is  *)
(* <<host, port>>.                                                         *)
(***************************************************************************)
EXTENDS Integers, Sequences, FiniteSets, SequencesExt, FiniteSetsExt

CONSTANTS
    EntryLists,    \* lists of entries of one shard
    Senders,       \* senders: [hosts, ctrl, data], see Owners
    MaxChunk       \* _RELAY_MAX_COALESCED_CHUNK_BYTES

VARIABLES
    work,          \* what is encoded: [kind, of]
    encoded        \* [done, out]: the result

pushVars == <<work, encoded>>

-----------------------------------------------------------------------------
(* _populate_schedule_proto_entries.                                       *)
Key(e) == [e EXCEPT !.peer = 0]

(* Entries that differ in their peer only become one with all the peers.   *)
Group(list) ==
    LET keys == FoldLeft(LAMBDA acc, e : IF Contains(acc, Key(e)) THEN acc
                                         ELSE Append(acc, Key(e)), <<>>, list)
    IN  [i \in DOMAIN keys |->
           [e |-> keys[i], peers |-> {list[k].peer : k \in {k \in DOMAIN list : Key(list[k]) = keys[i]}}]]

SameRun(a, b) ==
    /\ a.peers = b.peers
    /\ \A f \in {"shard", "size", "sstep", "dstep", "n", "layer"} : a.e[f] = b.e[f]

(* The entries from i on that continue the progression that i and i + 1    *)
(* begin; 1 when they begin none.                                          *)
RunLength(g, i) ==
    LET a == g[i].e
        b == g[i + 1].e
        ds == b.src - a.src
        dd == b.dst - a.dst
        begins == /\ i < Len(g) /\ a.n > 1 /\ SameRun(g[i], g[i + 1])
                  /\ b.sblk = a.sblk \/ ds > 0
                  /\ b.dblk = a.dblk \/ dd > 0
                  /\ ds >= 0 /\ dd >= 0 /\ (ds > 0 \/ dd > 0)
        fits(k) == /\ SameRun(g[i], g[k])
                   /\ g[k].e.dst = a.dst + (k - i) * dd
                   /\ g[k].e.src = a.src + (k - i) * ds
                   /\ g[k].e.sblk = a.sblk \/ ds > 0
                   /\ g[k].e.dblk = a.dblk \/ dd > 0
        stop == {k \in (i + 2)..Len(g) : ~fits(k)} \cup {Len(g) + 1}
    IN  IF begins THEN Min(stop) - i ELSE 1

(* A run becomes one entry with an outer count and outer strides.          *)
RECURSIVE FoldFrom(_, _)
FoldFrom(g, i) ==
    IF i > Len(g) THEN <<>>
    ELSE LET run == RunLength(g, i)
             step(f) == IF run > 1 THEN g[i + 1].e[f] - g[i].e[f] ELSE 0
         IN  <<[e |-> g[i].e, peers |-> g[i].peers, outer |-> run,
                osrc |-> step("src"), odst |-> step("dst")]>> \o FoldFrom(g, i + run)

FoldEntries(list) == FoldFrom(Group(list), 1)

-----------------------------------------------------------------------------
(* _coalesce_contiguous_relay_entries: contiguous strided entries become   *)
(* plain ones, then neighbours in the order of their offsets are joined up *)
(* to the chunk limit.                                                     *)
Normalize(e) ==
    IF e.n = 1 \/ (e.sstep = e.size /\ e.dstep = e.size)
    THEN LET all == e.n * e.size
         IN  [e EXCEPT !.size = all, !.sstep = all, !.dstep = all, !.n = 1]
    ELSE e

Lex(s, t) ==
    \E i \in DOMAIN s : s[i] < t[i] /\ \A k \in 1..(i - 1) : s[k] = t[k]

SortKey(e) == <<e.layer, e.peer, e.shard, e.sblk, e.dblk, e.src, e.dst>>

Joins(a, b) ==
    /\ a.n = 1 /\ b.n = 1
    /\ \A f \in {"peer", "shard", "sblk", "dblk", "layer"} : a[f] = b[f]
    /\ b.src = a.src + a.size /\ b.dst = a.dst + a.size
    /\ a.size + b.size <= MaxChunk

CoalesceEntries(list) ==
    LET sorted == SortSeq([i \in DOMAIN list |-> Normalize(list[i])],
                          LAMBDA a, b : Lex(SortKey(a), SortKey(b)))
        add(acc, e) ==
            IF acc # <<>> /\ Joins(Last(acc), e)
            THEN LET all == Last(acc).size + e.size
                 IN  Append(Front(acc), [Last(acc) EXCEPT !.size = all,
                                                          !.sstep = all, !.dstep = all])
            ELSE Append(acc, e)
    IN  FoldLeft(add, <<>>, sorted)

-----------------------------------------------------------------------------
(* Which shards, by index, an endpoint of the sender pushes.  ctrl lists   *)
(* its control endpoints, data the address of every shard, and hosts its   *)
(* host descriptors, [ctrl, shards].  An endpoint without an entry gets    *)
(* the schedules of all shards and pushes those it holds.                  *)
Distinct(s) == FoldLeft(LAMBDA acc, x : IF Contains(acc, x) THEN acc ELSE Append(acc, x), <<>>, s)

On(s, host) == SelectSeq(s, LAMBDA a : a[1] = host)

HostsOf(s) == {a[1] : a \in Range(s)}

At2(data, addrs) == {i \in DOMAIN data : data[i] \in addrs}

(* compute_endpoint_to_shards, from the addresses alone.                   *)
EndpointShards(ctrl, data) ==
    LET matched(h) == Len(On(ctrl, h)) = Len(On(Distinct(data), h))
        lone(h) == Len(On(ctrl, h)) = 1
        many == Cardinality(HostsOf(ctrl)) > 1
        owns(c) ==
            LET mine == On(ctrl, c[1])
            IN  IF matched(c[1])
                THEN At2(data, {On(Distinct(data), c[1])[CHOOSE i \in DOMAIN mine : mine[i] = c]})
                ELSE {i \in DOMAIN data : data[i][1] = c[1]}
    IN  IF \/ Len(ctrl) <= 1
           \/ ~(HostsOf(ctrl) \subseteq HostsOf(data))
           \/ \E h \in HostsOf(ctrl) : ~matched(h) /\ ~lone(h) /\ ~many
        THEN <<>>
        ELSE [c \in Range(ctrl) |-> owns(c)]

ByPosition(ctrl, data) == [i \in DOMAIN ctrl |-> Distinct(data)[i]]

Assigned(s) ==
    LET ctrl == Distinct(s.ctrl)
        described == {h \in Range(s.hosts) : h.ctrl # <<>> /\ h.shards # <<>>}
        useHosts == described # {} /\ ~(Len(s.hosts) = 1 /\ Len(s.hosts[1].ctrl) > 1)
        same(h) == Len(On(ctrl, h)) = Len(On(Distinct(s.data), h))
        byHost == /\ HostsOf(ctrl) = HostsOf(s.data)
                  /\ \A h \in HostsOf(ctrl) : same(h) \/ Len(On(ctrl, h)) = 1
        at(c) == CHOOSE i \in DOMAIN ctrl : ctrl[i] = c
    IN  IF useHosts
        THEN [c \in UNION {Range(h.ctrl) : h \in described} |->
                At2(s.data, UNION {Range(h.shards) : h \in {h \in described : c \in Range(h.ctrl)}})]
        ELSE IF Len(ctrl) = 1 THEN [c \in Range(ctrl) |-> DOMAIN s.data]
        ELSE IF Len(Distinct(s.data)) = Len(ctrl)
        THEN [c \in Range(ctrl) |-> At2(s.data, {ByPosition(ctrl, s.data)[at(c)]})]
        ELSE IF byHost THEN EndpointShards(ctrl, s.data)
        ELSE <<>>

Owners(s) ==
    LET base == EndpointShards(Distinct(s.ctrl), s.data)
        over == Assigned(s)
        taken == {c \in DOMAIN over : over[c] # {}}
    IN  [c \in DOMAIN base \cup taken |-> IF c \in taken THEN over[c] ELSE base[c]]

-----------------------------------------------------------------------------
PushInit ==
    /\ work \in {[kind |-> k, of |-> l] : k \in {"fold", "relay"}, l \in EntryLists}
             \cup {[kind |-> "own", of |-> s] : s \in Senders}
    /\ encoded = [done |-> FALSE, out |-> <<>>]

Encode ==
    /\ ~encoded.done
    /\ encoded' = [done |-> TRUE,
                   out |-> CASE work.kind = "fold" -> FoldEntries(work.of)
                             [] work.kind = "relay" -> CoalesceEntries(work.of)
                             [] work.kind = "own" -> Owners(work.of)]
    /\ UNCHANGED work

PushNext == Encode

-----------------------------------------------------------------------------
(* The bytes that an entry moves, as <<peer, shard, layer, from, to>>.     *)
Bytes(e, peers) ==
    {<<p, e.shard, e.layer, e.src + i * e.sstep + b, e.dst + i * e.dstep + b>> :
        p \in peers, i \in 0..(e.n - 1), b \in 0..(e.size - 1)}

Listed(list) == UNION {Bytes(list[i], {list[i].peer}) : i \in DOMAIN list}

Unfolded(f) ==
    UNION {Bytes([f.e EXCEPT !.src = @ + k * f.osrc, !.dst = @ + k * f.odst], f.peers) :
           k \in 0..(f.outer - 1)}

(* Folding and merging change how a schedule is written, never which byte  *)
(* goes where; and a merged chunk stays within the limit unless a single   *)
(* entry was larger.                                                       *)
SchedulesSameBytes ==
    encoded.done =>
      /\ work.kind = "fold" =>
            UNION {Unfolded(encoded.out[i]) : i \in DOMAIN encoded.out} = Listed(work.of)
      /\ work.kind = "relay" =>
            /\ Listed(encoded.out) = Listed(work.of)
            /\ \A i \in DOMAIN encoded.out : encoded.out[i].n = 1 =>
                  encoded.out[i].size <= Max({MaxChunk} \cup {e.n * e.size : e \in Range(work.of)})

(* The sender does not describe its hosts, has one endpoint per data       *)
(* address, and lists the two in orders that do not agree on the hosts:    *)
(* they are paired by position all the same, over the map by host.         *)
Crossed(s) ==
    LET ctrl == Distinct(s.ctrl)
        data == Distinct(s.data)
    IN  /\ s.hosts = <<>> /\ Len(ctrl) = Len(data)
        /\ \E p \in DOMAIN ctrl : ctrl[p][1] # data[p][1]

(* When hosts are told apart, every shard is pushed by an endpoint on its  *)
(* own host, and by one only, where the host has one endpoint, or has one  *)
(* per data address and the sender does not describe its hosts (the        *)
(* endpoints of a described host all get its shards).  Where the orders    *)
(* cross, a shard has one endpoint still, but it may be another host's.    *)
ShardsOwned ==
    work.kind = "own" /\ encoded.done /\ DOMAIN encoded.out # {} =>
      \A i \in DOMAIN work.of.data :
        LET host == work.of.data[i][1]
            owners == {c \in DOMAIN encoded.out : i \in encoded.out[c]}
            ctrl == On(Distinct(work.of.ctrl), host)
            lone == \/ Len(ctrl) = 1
                    \/ work.of.hosts = <<>> /\ Len(ctrl) = Len(On(Distinct(work.of.data), host))
        IN  /\ Crossed(work.of) \/ \A c \in owners : c[1] = host
            /\ ctrl # <<>> => owners # {}
            /\ Crossed(work.of) \/ lone => Cardinality(owners) = 1
=============================================================================
