------------------------------ MODULE JobEntity ------------------------------
(***************************************************************************)
(* The hosts of one job as job_entity.py keeps them, and the registry      *)
(* mirrors that the controller keeps beside it.                            *)
(*                                                                         *)
(* The entity is a record that the methods transform, because they call    *)
(* each other and each ends by calling back into the controller            *)
(* (_sync_from_entity).  Endpoints are sets; shards are sequences, because *)
(* a shard's global index is its position.  A lookup of endpoints that     *)
(* finds none waits on a future that all waiters of the replica share.     *)
(***************************************************************************)
EXTENDS Naturals, Sequences, SequencesExt

CONSTANTS
    Reps,          \* replica ids, numbers: hosts are ordered by them
    EpSets,        \* sets of control-plane endpoints a host may have
    ShardLists,    \* shard address lists a host may serve
    Attachments,   \* what attach_host may pass: [shards, eps], either one empty
    Waiters,       \* calls of resolve_endpoints
    MaxEntityOps   \* bound: registrations, attachments and removals

VARIABLES
    ent,           \* the JobEntity
    regEps,        \* the controller's _registered_control_plane_endpoints
    regShards,     \* the controller's _registered_shards
    pending,       \* replica -> its endpoint future: "none", "open", "cancelled"
    waiters,       \* what each waiter is doing
    last,          \* ghost: replica -> what it registered last
    entOps         \* ghost: operations made

entVars == <<ent, regEps, regShards, pending, waiters, last, entOps>>

(* A unit of this job is named by its replica id; 0 is the entity itself.  *)
EntityUnit == 0

NewEntity == [endpoints |-> {}, shards |-> <<>>, hosts |-> <<>>,
              epsByRep |-> <<>>, shardsByRep |-> <<>>,
              epsByUnit |-> <<>>, shardsByUnit |-> <<>>]

EntInit ==
    /\ ent = NewEntity
    /\ regEps = <<>>
    /\ regShards = <<>>
    /\ pending = [r \in Reps |-> "none"]
    /\ waiters = [w \in Waiters |-> [pc |-> "idle", rep |-> 0]]
    /\ last = <<>>
    /\ entOps = 0

With(f, k, v) == [x \in DOMAIN f \cup {k} |-> IF x = k THEN v ELSE f[x]]
Without(f, k) == [x \in DOMAIN f \ {k} |-> f[x]]
At0(f, k, default) == IF k \in DOMAIN f THEN f[k] ELSE default

(* _rebuild_host_descriptors: with replicas, the aggregates follow their   *)
(* order, and keep their old value when the new one would be empty.        *)
Rebuild(e) ==
    LET order == SetToSortSeq(DOMAIN e.hosts, <)
        eps == UNION {At0(e.epsByRep, r, {}) : r \in DOMAIN e.hosts}
        all == FlattenSeq([i \in DOMAIN order |-> At0(e.shardsByRep, order[i], <<>>)])
    IN  IF e.hosts = <<>> THEN e
        ELSE [e EXCEPT !.endpoints = IF eps = {} THEN @ ELSE eps,
                       !.shards = IF all = <<>> THEN @ ELSE all]

(* _sync_from_entity: the mirrors get the non-empty endpoints and shards   *)
(* of every replica; a job without any is mirrored under its own name.     *)
SyncEps(e, m) ==
    IF e.epsByRep # <<>>
    THEN LET u == {r \in DOMAIN e.epsByRep : At0(e.epsByUnit, r, e.epsByRep[r]) # {}}
         IN  [x \in DOMAIN m \cup u |->
                IF x \in u THEN At0(e.epsByUnit, x, e.epsByRep[x]) ELSE m[x]]
    ELSE IF e.endpoints = {} THEN m ELSE With(m, EntityUnit, e.endpoints)

SyncShards(e, m) ==
    IF e.epsByRep # <<>>
    THEN LET held(r) == At0(e.shardsByUnit, r, At0(e.shardsByRep, r, <<>>))
             u == {r \in DOMAIN e.epsByRep : held(r) # <<>>}
         IN  [x \in DOMAIN m \cup u |-> IF x \in u THEN held(x) ELSE m[x]]
    ELSE IF e.shards = <<>> THEN m ELSE With(m, EntityUnit, e.shards)

(* The entity with the mirrors, as one value that the methods thread.      *)
Synced(c) == [e |-> c.e, eps |-> SyncEps(c.e, c.eps), shards |-> SyncShards(c.e, c.shards)]

(* register_host_endpoint for a replica.                                   *)
RegisterEndpoint(c, ep, r) ==
    LET mine == At0(c.e.epsByRep, r, {}) \cup {ep}
        host == [addr |-> mine,
                 shards |-> IF r \in DOMAIN c.e.hosts THEN c.e.hosts[r].shards
                            ELSE At0(c.e.shardsByRep, r, <<>>)]
    IN  Synced([c EXCEPT !.e = Rebuild([@ EXCEPT
            !.epsByRep = With(@, r, mine), !.hosts = With(@, r, host),
            !.endpoints = @ \cup {ep}])])

RegisterAll(c, eps, r) ==
    FoldLeft(LAMBDA acc, ep : RegisterEndpoint(acc, ep, r), c, SetToSeq(eps))

(* unregister_host_endpoints: an endpoint that another replica uses stays. *)
Unregister_KeepsEndpoints(c, r) ==
    Synced([c EXCEPT !.e = Rebuild([@ EXCEPT
        !.epsByRep = Without(@, r), !.hosts = Without(@, r), !.epsByUnit = Without(@, r)])])

Unregister(c, r) ==
    LET rest == Without(c.e.epsByRep, r)
        used == UNION {rest[x] : x \in DOMAIN rest}
    IN  Synced([c EXCEPT !.e = Rebuild([@ EXCEPT
            !.epsByRep = rest, !.hosts = Without(@, r), !.epsByUnit = Without(@, r),
            !.endpoints = @ \ (At0(c.e.epsByRep, r, {}) \ used)])])

(* update_registration for a unit of replica r.                            *)
UpdateRegistration(c, r, shards, eps) ==
    LET c1 == [c EXCEPT !.e.shardsByUnit = With(@, r, shards),
                        !.e.epsByUnit = With(@, r, eps)]
        c2 == Unregister(c1, r)
        c3 == [c2 EXCEPT !.e = [@ EXCEPT
                 !.epsByUnit = With(@, r, eps), !.shardsByRep = With(@, r, shards),
                 !.epsByRep = With(@, r, eps),
                 !.hosts = With(@, r, [addr |-> eps, shards |-> shards])]]
    IN  Synced([RegisterAll(c3, eps, r) EXCEPT !.e = Rebuild(@)])

(* attach_host: absent shards or endpoints keep what the replica has.      *)
AttachTo(c, r, shards, eps) ==
    LET e1 == IF shards = <<>> THEN c.e
              ELSE [c.e EXCEPT !.shardsByRep = With(@, r, shards),
                               !.shardsByUnit = With(@, r, shards)]
        e2 == IF eps = {} THEN e1
              ELSE [e1 EXCEPT !.epsByRep = With(@, r, eps), !.epsByUnit = With(@, r, eps)]
        e3 == [e2 EXCEPT !.hosts = With(@, r,
                 [addr |-> At0(e2.epsByRep, r, eps), shards |-> At0(e2.shardsByRep, r, shards)])]
    IN  Synced([RegisterAll([c EXCEPT !.e = e3], eps, r) EXCEPT !.e = Rebuild(@)])

-----------------------------------------------------------------------------
Now == [e |-> ent, eps |-> regEps, shards |-> regShards]

(* A registration resolves the future of its replica.                      *)
Resolve(eps, r) ==
    IF eps = {} \/ pending[r] # "open" THEN UNCHANGED <<pending, waiters>>
    ELSE /\ pending' = [pending EXCEPT ![r] = "none"]
         /\ waiters' = [w \in Waiters |->
               IF waiters[w] = [pc |-> "waiting", rep |-> r]
               THEN [waiters[w] EXCEPT !.pc = "resolved"] ELSE waiters[w]]

Became(c) == /\ ent' = c.e
             /\ regEps' = c.eps
             /\ regShards' = c.shards

MoreOps == entOps < MaxEntityOps /\ entOps' = entOps + 1

(* register_work_unit: an identical registration only registers its        *)
(* endpoints again; otherwise the entity is updated and the mirrors set.   *)
RegisterUnit(r, shards, eps) ==
    /\ MoreOps
    /\ LET same == At0(regShards, r, <<>>) = shards /\ At0(regEps, r, {}) = eps
           c == UpdateRegistration(Now, r, shards, eps)
       IN  IF same THEN Became(RegisterAll(Now, eps, r))
           ELSE Became([c EXCEPT !.eps = With(@, r, eps), !.shards = With(@, r, shards)])
    /\ last' = With(last, r, [eps |-> eps, shards |-> shards])
    /\ Resolve(eps, r)

(* The controller's attach_host.                                           *)
AttachUnit(r, shards, eps) ==
    /\ MoreOps
    /\ LET c == AttachTo(Now, r, shards, eps)
           held == At0(c.e.shardsByUnit, r, At0(c.e.shardsByRep, r, c.e.shards))
       IN  Became([c EXCEPT
               !.shards = IF held = <<>> THEN @ ELSE With(@, r, held),
               !.eps = With(@, r, At0(c.e.epsByRep, r, c.e.endpoints))])
    /\ last' = With(last, r, [eps |-> IF eps = {} THEN At0(last, r, [eps |-> {}]).eps ELSE eps,
                              shards |-> shards])
    /\ Resolve(eps, r)

RemoveHost(r) ==
    /\ MoreOps
    /\ r \in DOMAIN ent.hosts
    /\ Became(Unregister(Now, r))
    /\ last' = Without(last, r)
    /\ UNCHANGED <<pending, waiters>>

(* resolve_endpoints: the replica's endpoints, or all of a job without     *)
(* replicas, or the shared future.  A cancelled future stays in the map.   *)
ResolveEndpoints(w, r) ==
    /\ waiters[w].pc = "idle"
    /\ LET known == At0(ent.epsByRep, r, {})
           now == IF known # {} THEN "resolved"
                  ELSE IF ent.endpoints # {} /\ ent.epsByRep = <<>> THEN "resolved"
                  ELSE IF pending[r] = "cancelled" THEN "cancelled" ELSE "waiting"
       IN  /\ waiters' = [waiters EXCEPT ![w] = [pc |-> now, rep |-> r]]
           /\ pending' = IF now = "waiting" THEN [pending EXCEPT ![r] = "open"] ELSE pending
    /\ UNCHANGED <<ent, regEps, regShards, last, entOps>>

(* asyncio.wait_for cancels the shared future: the other waiters of the    *)
(* replica end with a CancelledError.                                      *)
ResolveTimeout(w) ==
    /\ waiters[w].pc = "waiting"
    /\ pending' = [pending EXCEPT ![waiters[w].rep] = "cancelled"]
    /\ waiters' = [x \in Waiters |->
          IF x = w THEN [waiters[x] EXCEPT !.pc = "timeout"]
          ELSE IF waiters[x] = waiters[w] THEN [waiters[x] EXCEPT !.pc = "cancelled"]
          ELSE waiters[x]]
    /\ UNCHANGED <<ent, regEps, regShards, last, entOps>>

EntNext ==
    \/ \E r \in Reps, s \in ShardLists, eps \in EpSets : RegisterUnit(r, s, eps)
    \/ \E r \in Reps, a \in Attachments : AttachUnit(r, a.shards, a.eps)
    \/ \E r \in Reps : RemoveHost(r)
    \/ \E w \in Waiters, r \in Reps : ResolveEndpoints(w, r)
    \/ \E w \in Waiters : ResolveTimeout(w)

-----------------------------------------------------------------------------
(* get_entity_rpc_addresses for a unit of this job.                        *)
AddressOf(r) ==
    IF r \in DOMAIN ent.epsByRep /\ ent.epsByRep[r] # {}
    THEN IF At0(ent.epsByUnit, r, {}) # {} THEN ent.epsByUnit[r] ELSE ent.epsByRep[r]
    ELSE IF At0(ent.epsByUnit, r, {}) # {} THEN ent.epsByUnit[r]
    ELSE At0(regEps, r, {})

(* A replica is addressed at the endpoints it registered last, whatever    *)
(* other replicas of the job registered, attached or removed meanwhile,    *)
(* even when replicas share an endpoint; and the endpoints that a shutdown *)
(* reaches are those of the attached replicas.  The shard indices of the   *)
(* job follow the order of its replicas.                                   *)
HostsRouted ==
    LET order == SetToSortSeq(DOMAIN ent.hosts, <)
        all == FlattenSeq([i \in DOMAIN order |-> ent.hosts[order[i]].shards])
    IN
    /\ \A r \in DOMAIN last : last[r].eps # {} => AddressOf(r) = last[r].eps
    /\ ent.endpoints = UNION {ent.epsByRep[r] : r \in DOMAIN ent.epsByRep}
    /\ all # <<>> => ent.shards = all
=============================================================================
