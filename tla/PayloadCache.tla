----------------------------- MODULE PayloadCache -----------------------------
(***************************************************************************)
(* encode_start_transfer of job_entity.py for a weight-sync sender: the    *)
(* serialized StartTransferRequest of one (target, address, schedule       *)
(* signature) is cached on the schedule that all its transfers share.      *)
(*                                                                         *)
(* A call names a uuid, a request id and skip_d2h.  Payloads are kept      *)
(* under two keys, with the request id and without it, and one request     *)
(* object is kept as a template: a later call overwrites its three fields  *)
(* and serializes it again.  Calls run on threads of an executor, without  *)
(* a lock, so the field assignments of two calls interleave.               *)
(***************************************************************************)
EXTENDS WeightController

CONSTANTS
    Encoders,     \* executor threads
    Transfers,    \* what a call names: [uuid, req, skip]
    KeepKeys,     \* keys remembered before payloads are evicted (4 in the code)
    MaxEncodes,   \* bound: calls
    MaxClears     \* bound: registrations that clear the cache

ASSUME PayAssumption ==
    /\ MaxEncodes \in Nat /\ KeepKeys \in Nat /\ Transfers # {}
    /\ \A c \in Transfers : c = [uuid |-> c.uuid, req |-> c.req, skip |-> c.skip]

VARIABLES
    store,        \* cached_serialized_payloads: key -> payload
    template,     \* the object under the template key, or 0
    prev,         \* the list under __prev_keys__
    requests,     \* request objects, one per call that built one
    encoders,     \* what each thread is doing
    encodes,      \* ghost: calls made
    clears        \* ghost: clears made

payVars == <<store, template, prev, requests, encoders, encodes, clears>>

Objects == 1..MaxEncodes

Free == [pc |-> "idle", call |-> CHOOSE c \in Transfers : TRUE, obj |-> 0,
         bytes |-> <<>>, raced |-> FALSE]

CacheKey(c) == <<c.uuid, c.req, c.skip>>

SteadyKey(c) == <<c.uuid, c.skip>>

Blank == [uuid |-> 0, req |-> 0, skip |-> FALSE]

PayInit ==
    /\ store = <<>>
    /\ template = 0
    /\ prev = <<>>
    /\ requests = [o \in Objects |-> Blank]
    /\ encoders = [e \in Encoders |-> Free]
    /\ encodes = 0
    /\ clears = 0

Put(f, k, v) == [x \in DOMAIN f \cup {k} |-> IF x = k THEN v ELSE f[x]]

SetEncoder(e, rec) == encoders' = [encoders EXCEPT ![e] = rec]

(* The three lookups: the exact key, the key without the request id, the   *)
(* template; otherwise the request is built.                               *)
Lookup(e, c) ==
    /\ encoders[e].pc = "idle"
    /\ encodes < MaxEncodes
    /\ encodes' = encodes + 1
    /\ LET now == [Free EXCEPT !.call = c]
           hit == IF CacheKey(c) \in DOMAIN store THEN CacheKey(c) ELSE SteadyKey(c)
       IN  SetEncoder(e,
             IF hit \in DOMAIN store
             THEN [now EXCEPT !.pc = "sent", !.bytes = store[hit].bytes,
                              !.raced = store[hit].raced]
             ELSE IF template # 0 THEN [now EXCEPT !.pc = "uuid", !.obj = template]
             ELSE [now EXCEPT !.pc = "build", !.obj = encodes'])
    /\ UNCHANGED <<store, template, prev, requests, clears>>

(* Another thread patches the same object while this one does.             *)
Contended(e) == \E o \in Encoders \ {e} :
    encoders[o].obj = encoders[e].obj /\ encoders[o].pc \in {"uuid", "req", "skip", "bytes"}

(* The field assignments of the template path, one step each.              *)
PatchStep(e, pc, field, next) ==
    /\ encoders[e].pc = pc
    /\ requests' = [requests EXCEPT ![encoders[e].obj][field] = encoders[e].call[field]]
    /\ encoders' = [x \in Encoders |->
          IF x = e THEN [encoders[e] EXCEPT !.pc = next,
                                            !.raced = encoders[e].raced \/ Contended(e)]
          ELSE IF /\ encoders[x].obj = encoders[e].obj
                  /\ encoders[x].pc \in {"uuid", "req", "skip", "bytes"}
          THEN [encoders[x] EXCEPT !.raced = TRUE]
          ELSE encoders[x]]
    /\ UNCHANGED <<store, template, prev, encodes, clears>>

Patch(e) ==
    \/ PatchStep(e, "uuid", "uuid", "req")
    \/ PatchStep(e, "req", "req", "skip")
    \/ PatchStep(e, "skip", "skip", "bytes")

Serialize(e) ==
    /\ encoders[e].pc = "bytes"
    /\ SetEncoder(e, [encoders[e] EXCEPT !.bytes = requests[encoders[e].obj], !.pc = "store"])
    /\ UNCHANGED <<store, template, prev, requests, encodes, clears>>

Build(e) ==
    /\ encoders[e].pc = "build"
    /\ LET c == encoders[e].call
       IN  /\ requests' = [requests EXCEPT ![encoders[e].obj] = c]
           /\ SetEncoder(e, [encoders[e] EXCEPT !.bytes = c, !.pc = "storeNew"])
    /\ UNCHANGED <<store, template, prev, encodes, clears>>

(* What is left of the cache when the pairs before the last KeepKeys are   *)
(* evicted: a key that a later pair repeats stays.                         *)
Evict(f, list) ==
    LET last == {list[i] : i \in {n \in DOMAIN list : n > Len(list) - KeepKeys}}
        old == {list[i] : i \in {n \in DOMAIN list : n <= Len(list) - KeepKeys}}
        gone == ({CacheKey(c) : c \in old} \ {CacheKey(c) : c \in last})
                \cup ({SteadyKey(c) : c \in old} \ {SteadyKey(c) : c \in last})
    IN  [k \in DOMAIN f \ gone |-> f[k]]

(* The payload under both keys, a built request as the template, and the   *)
(* pair at the end of the list.                                            *)
StorePayload(e) ==
    /\ encoders[e].pc \in {"store", "storeNew"}
    /\ LET c == encoders[e].call
           p == [bytes |-> encoders[e].bytes, raced |-> encoders[e].raced]
           list == Append(prev, c)
       IN  /\ store' = Evict(Put(Put(store, CacheKey(c), p), SteadyKey(c), p), list)
           /\ prev' = IF Len(list) > KeepKeys
                      THEN SubSeq(list, Len(list) - KeepKeys + 1, Len(list)) ELSE list
    /\ SetEncoder(e, [encoders[e] EXCEPT !.pc = "sent"])
    /\ template' = IF encoders[e].pc = "storeNew" THEN encoders[e].obj ELSE template
    /\ UNCHANGED <<requests, encodes, clears>>

Send(e) ==
    /\ encoders[e].pc = "sent"
    /\ SetEncoder(e, Free)
    /\ UNCHANGED <<store, template, prev, requests, encodes, clears>>

(* register_work_unit clears the dictionary in place.                      *)
ClearPayloads ==
    /\ clears < MaxClears
    /\ clears' = clears + 1
    /\ store' = <<>>
    /\ template' = 0
    /\ prev' = <<>>
    /\ UNCHANGED <<requests, encoders, encodes>>

PayNext ==
    \/ ClearPayloads
    \/ \E e \in Encoders :
          \/ \E c \in Transfers : Lookup(e, c)
          \/ Patch(e) \/ Serialize(e) \/ Build(e)
          \/ StorePayload(e) \/ Send(e)

(* The payload sent for a transfer carries the uuid and the skip_d2h of    *)
(* that transfer, however it was found or made, unless two threads patched *)
(* the template at the same time; and the cache holds payloads of the      *)
(* remembered calls only, so it does not grow with the transfers.          *)
PayloadNamesTransfer ==
    /\ DOMAIN store \subseteq
          UNION {{CacheKey(prev[i]), SteadyKey(prev[i])} : i \in DOMAIN prev}
    /\ \A e \in Encoders : encoders[e].pc = "sent" =>
          \/ encoders[e].raced
          \/ /\ encoders[e].bytes.uuid = encoders[e].call.uuid
             /\ encoders[e].bytes.skip = encoders[e].call.skip

(* A cached schedule follows the registrations it was computed from, and a *)
(* cached payload names the transfer it is sent for.                       *)
CachesTrue == ScheduleFresh /\ PayloadNamesTransfer
=============================================================================
