--------------------------- MODULE ReshardControl ---------------------------
(* The reshard control plane: ReshardService's commands, the work unit        *)
(* directory, the request block registry and ReshardCoordinator's attempts    *)
(* (kv_cache/reshard/).  One request is followed through one or two           *)
(* generations (uuids); a consumer starts an attempt per destination stage,   *)
(* and one more when an attempt failed.  The workers that attempts arm and    *)
(* dispatch, and the producers that register, vote and cancel, are the        *)
(* environment.  A site fixes the work units, the stages and what can happen. *)
EXTENDS RequestBlockRegistry, FiniteSets, Sequences

CONSTANTS Sites, MaxNow,
          ArmAttempts           \* kChainArmAttempts

(* A site of work units, whose stages take their sources from them and whose  *)
(* attempts name a stage and a generation.                                    *)
ASSUME SitesAssumption ==
  \A s \in Sites :
    /\ s.units # {} /\ s.chain \in Nat \ {0}
    /\ \A n \in DOMAIN s.stages : s.stages[n].src \subseteq s.units
    /\ \A i \in DOMAIN s.attempts :
         s.attempts[i] \in [stage : DOMAIN s.stages, uuid : Nat]

VARIABLES site, now,
          dir,          \* units the WorkUnitDirectory knows
          reg,          \* the registry
          att,          \* the coordinator's attempts
          armed,        \* destination -> sub-plans it holds a session for
          active,       \* source -> sub-plans it is sending
          sent,         \* <<attempt, sub-plan, source>> sent to the end
          status,       \* transfer_status_ of the request
          stopping, faults,
          told          \* generations a cancellation was told TRUE for

vars == <<site, now, dir, reg, att, armed, active, sent, status, stopping,
          faults, told>>

(* site: units, stages (each [dst, src]: the destinations of a stage and the  *)
(* sources whose layers it needs), attempts (each [stage, uuid]), chain (the  *)
(* sub-transfers of a request), empty (units with nothing to send), and the   *)
(* events it allows.                                                          *)
Att == DOMAIN site.attempts
Uuid(i) == site.attempts[i].uuid
Stage(i) == site.stages[site.attempts[i].stage]
Uuids == {Uuid(i) : i \in Att}
Senders(i) == Stage(i).src \ site.empty
Dsts == UNION {st.dst : st \in {site.stages[n] : n \in DOMAIN site.stages}}

Started(i) == att[i].pc \notin {"idle", "failed", "done"}
(* The attempt is yet to dispatch a sender, or one of its senders is reading  *)
(* the blocks it claimed.                                                     *)
AtWork(i) ==
  \/ att[i].pc = "arm" \/ (att[i].pc = "plan" /\ att[i].idx > 0)
  \/ att[i].pc = "send" /\ \E u \in Senders(i) : att[i].sends[u] = "none"
  \/ \E u \in site.units : \E x \in active[u] : x[1] = i

(* A fault of the network or of a worker. *)
Fault == faults < site.faults /\ faults' = faults + 1

Init ==
  /\ site \in Sites
  /\ now = 0 /\ dir = {} /\ reg = NewRegistry /\ stopping = FALSE
  /\ att = [i \in Att |-> [pc |-> "idle", idx |-> 0, tries |-> 0,
                           arms |-> <<>>, sends |-> <<>>]]
  /\ armed = [d \in Dsts |-> {}] /\ active = [u \in site.units |-> {}]
  /\ sent = {} /\ status = "not_started" /\ faults = 0 /\ told = {}

(* ------------------------------- the producers ---------------------------- *)

(* COMMAND_REGISTER_WORK_UNIT: the record is replaced and, in the same        *)
(* critical section, the unit's rows go.  Again after a restart of the worker,*)
(* whose sessions died with it.                                               *)
RegisterWorkUnit(u) ==
  /\ u \in dir => Fault /\ site.restart
  /\ u \notin dir => UNCHANGED faults
  /\ dir' = dir \cup {u}
  /\ reg' = InvalidateUnit(reg, u)
  /\ active' = [active EXCEPT ![u] = {}]
  /\ UNCHANGED <<site, now, att, armed, sent, status, stopping, told>>

(* COMMAND_REGISTER_REQUEST_BLOCKS.  A producer moves to a later generation   *)
(* when it was told that the earlier one is cancelled, and does not register  *)
(* one it was told so of; a notice to register may still be under way, but    *)
(* never for longer than the tombstone lives.                                 *)
RegisterRequestBlocks(u, k) ==
  /\ \A k2 \in Uuids : k2 < k => k2 \in told
  /\ k \in told => k \in DOMAIN reg.cancelled /\ reg.cancelled[k] > now
  /\ reg' = Register(reg, now, k, u, u \notin site.empty, u \in dir).g
  /\ UNCHANGED <<site, now, dir, att, armed, active, sent, status, stopping,
                 faults, told>>

(* COMMAND_COMPLETE_REQUEST_BLOCKS: a producer votes when it has nothing to   *)
(* send, or has sent its part of every stage.                                 *)
CompleteRequestBlocks(u, k) ==
  /\ \/ u \in site.empty
     \/ /\ active[u] = {}
        /\ \A n \in DOMAIN site.stages :
             u \in site.stages[n].src =>
               \E i \in Att : /\ site.attempts[i] = [stage |-> n, uuid |-> k]
                              /\ \A x \in 0..site.chain - 1 : <<i, x, u>> \in sent
  /\ reg' = Complete(reg, now, k, u).g
  /\ UNCHANGED <<site, now, dir, att, armed, active, sent, status, stopping,
                 faults, told>>

(* COMMAND_CANCEL_REQUEST_BLOCKS_IF_UNCLAIMED *)
CancelRequestBlocks(k) ==
  /\ site.cancel
  /\ LET r == CancelIfUnclaimed(reg, now, k)
     IN reg' = r.g /\ told' = IF r.ok THEN told \cup {k} ELSE told
  /\ UNCHANGED <<site, now, dir, att, armed, active, sent, status, stopping,
                 faults>>

(* COMMAND_RELEASE_REQUEST_BLOCKS with force set. *)
ReleaseRequestBlocks(k) ==
  /\ site.release
  /\ reg' = Release(reg, now, k).g
  /\ UNCHANGED <<site, now, dir, att, armed, active, sent, status, stopping,
                 faults, told>>

(* --------------------------- the coordinator's attempts ------------------- *)

(* StartPoolReshard and ExecutePoolReshard up to the first sub-plan: the      *)
(* metadata of both sides is read once.  A consumer tries a stage again when  *)
(* its attempt failed.                                                        *)
StartPoolReshard(i) ==
  /\ att[i].pc = "idle"
  /\ \A j \in 1..i - 1 : site.attempts[j] = site.attempts[i] => att[j].pc = "failed"
  /\ status' = "in_progress"
  /\ \/ /\ att' = [att EXCEPT ![i].pc = IF site.units \subseteq dir THEN "plan"
                                        ELSE "fail"]
        /\ UNCHANGED faults
     \/ Fault /\ att' = [att EXCEPT ![i].pc = "fail"]    \* QueryRemoteMetadata
  /\ UNCHANGED <<site, now, dir, reg, armed, active, sent, stopping, told>>

(* RunSubPlan: the plan is built around the claim.  The claim may be refused  *)
(* or the plan fail after it; the first sub-plan then gives its claim up.     *)
BuildPlan(i) ==
  /\ att[i].pc = "plan"
  /\ LET r == LookupAndClaim(reg, now, Uuid(i), site.units, i)
         fail == IF att[i].idx = 0 THEN "abandon" ELSE "fail"
     IN /\ reg' = r.g
        /\ \/ /\ r.ok /\ Senders(i) # {}
              /\ att' = [att EXCEPT
                   ![i].pc = "arm", ![i].tries = 1,
                   ![i].arms = [d \in Stage(i).dst |-> "none"],
                   ![i].sends = [u \in Senders(i) |-> "none"]]
              /\ UNCHANGED faults
           \/ /\ ~r.ok \/ Senders(i) = {}
              /\ att' = [att EXCEPT ![i].pc = fail]
              /\ UNCHANGED faults
           \/ r.ok /\ Fault /\ att' = [att EXCEPT ![i].pc = fail]
  /\ UNCHANGED <<site, now, dir, armed, active, sent, status, stopping, told>>

Abandon(i) ==
  /\ att[i].pc = "abandon"
  /\ reg' = AbandonClaim(reg, Uuid(i), i)
  /\ att' = [att EXCEPT ![i].pc = "fail"]
  /\ UNCHANGED <<site, now, dir, armed, active, sent, status, stopping, faults,
                 told>>

(* A destination or a source holds a session for this sub-plan's uuid. *)
Holds(S, i) == \E x \in S : Uuid(x[1]) = Uuid(i) /\ x[2] = att[i].idx

(* One armer thread: its RPC arms the destination, is refused, finds the      *)
(* staging arena busy, or loses its answer after arming.                      *)
ArmReceiver(i, d) ==
  /\ att[i].pc = "arm" /\ d \in Stage(i).dst /\ att[i].arms[d] = "none"
  /\ \E out \in {"ok", "lost", "busy", "refused"} :
       /\ Holds(armed[d], i) => out = "refused"
       /\ IF out = "ok" \/ Holds(armed[d], i) THEN UNCHANGED faults ELSE Fault
       /\ att' = [att EXCEPT ![i].arms[d] = out]
       /\ armed' = IF out \in {"ok", "lost"}
                   THEN [armed EXCEPT ![d] = @ \cup {<<i, att[i].idx>>}]
                   ELSE armed
  /\ UNCHANGED <<site, now, dir, reg, active, sent, status, stopping, told>>

(* The armers are joined.  A later sub-plan tries the busy ones again; any    *)
(* other refusal ends the attempt before a sender is dispatched.              *)
JoinArmers(i) ==
  /\ att[i].pc = "arm"
  /\ \A d \in Stage(i).dst : att[i].arms[d] # "none"
  /\ LET left == {d \in Stage(i).dst : att[i].arms[d] # "ok"}
         again == /\ att[i].idx > 0 /\ att[i].tries < ArmAttempts /\ ~stopping
                  /\ \A d \in left : att[i].arms[d] = "busy"
     IN att' = IF left = {} THEN [att EXCEPT ![i].pc = "send"]
               ELSE IF again
               THEN [att EXCEPT ![i].tries = @ + 1,
                       ![i].arms = [d \in Stage(i).dst |->
                                      IF d \in left THEN "none" ELSE "ok"]]
               ELSE [att EXCEPT ![i].pc = IF att[i].idx = 0 THEN "abandon"
                                          ELSE "fail"]
  /\ UNCHANGED <<site, now, dir, reg, armed, active, sent, status, stopping,
                 faults, told>>

(* One sender's RPC: it starts the session, is refused, or loses its answer   *)
(* after starting it.                                                         *)
DispatchSender(i, u) ==
  /\ att[i].pc = "send" /\ u \in Senders(i) /\ att[i].sends[u] = "none"
  /\ \E out \in {"ok", "lost", "refused"} :
       /\ Holds(active[u], i) => out = "refused"
       /\ IF out = "ok" \/ Holds(active[u], i) THEN UNCHANGED faults ELSE Fault
       /\ att' = [att EXCEPT ![i].sends[u] = out]
       /\ active' = IF out = "refused" THEN active
                    ELSE [active EXCEPT ![u] = @ \cup {<<i, att[i].idx>>}]
  /\ UNCHANGED <<site, now, dir, reg, armed, sent, status, stopping, told>>

(* The senders are joined: a failure ends the attempt with its claim held,    *)
(* for a sender may be running.  Then StartChain's thread runs the next       *)
(* sub-plan unless the coordinator is stopping.                               *)
JoinSenders(i) ==
  /\ att[i].pc = "send"
  /\ \A u \in Senders(i) : att[i].sends[u] # "none"
  /\ att' = IF \E u \in Senders(i) : att[i].sends[u] # "ok"
            THEN [att EXCEPT ![i].pc = "fail"]
            ELSE IF att[i].idx + 1 = site.chain THEN [att EXCEPT ![i].pc = "ok"]
            ELSE IF stopping THEN [att EXCEPT ![i].pc = "fail"]
            ELSE [att EXCEPT ![i].pc = "plan", ![i].idx = @ + 1]
  /\ UNCHANGED <<site, now, dir, reg, armed, active, sent, status, stopping,
                 faults, told>>

(* transfer_status_ gets the outcome, from the call or from the chain. *)
RecordStatus(i) ==
  /\ att[i].pc \in {"ok", "fail"}
  /\ status' = IF att[i].pc = "ok" THEN "completed" ELSE "failed"
  /\ att' = [att EXCEPT ![i].pc = IF @ = "ok" THEN "done" ELSE "failed"]
  /\ UNCHANGED <<site, now, dir, reg, armed, active, sent, stopping, faults,
                 told>>

(* ~ReshardCoordinator: chains stop at their next sub-plan. *)
Stop ==
  /\ site.stop /\ ~stopping /\ stopping' = TRUE
  /\ UNCHANGED <<site, now, dir, reg, att, armed, active, sent, status, faults,
                 told>>

(* ------------------------------ workers and time -------------------------- *)

(* A sender's session ends: all sent, or failed. *)
SessionEnds(u, x) ==
  /\ x \in active[u]
  /\ active' = [active EXCEPT ![u] = @ \ {x}]
  /\ \/ sent' = sent \cup {<<x[1], x[2], u>>} /\ UNCHANGED faults
     \/ Fault /\ UNCHANGED sent
  /\ UNCHANGED <<site, now, dir, reg, att, armed, status, stopping, told>>

Busy(k) == \/ \E i \in Att : Uuid(i) = k /\ Started(i)
           \/ \E u \in site.units : \E x \in active[u] : Uuid(x[1]) = k

(* A prompt site ends what it started before its claim and rows expire. *)
Tick ==
  /\ now < MaxNow /\ now' = now + 1
  /\ site.prompt => \A k \in Uuids : Busy(k) =>
       /\ k \in DOMAIN reg.claimed => reg.claimed[k] > now'
       /\ \A u \in RowsOf(reg, k) : reg.rows[u].expires > now'
  /\ UNCHANGED <<site, dir, reg, att, armed, active, sent, status, stopping,
                 faults, told>>

(* What the coordinator's threads and the workers must do. *)
Progress ==
  \/ \E i \in Att : \/ BuildPlan(i) \/ Abandon(i) \/ JoinArmers(i)
                    \/ JoinSenders(i) \/ RecordStatus(i)
                    \/ \E d \in Dsts : ArmReceiver(i, d)
                    \/ \E u \in site.units : DispatchSender(i, u)
  \/ \E u \in site.units : \E x \in active[u] : SessionEnds(u, x)

Next ==
  \/ Progress \/ Stop \/ Tick
  \/ \E i \in Att : StartPoolReshard(i)
  \/ \E u \in site.units :
       \/ RegisterWorkUnit(u)
       \/ \E k \in Uuids : RegisterRequestBlocks(u, k) \/ CompleteRequestBlocks(u, k)
  \/ \E k \in Uuids : CancelRequestBlocks(k) \/ ReleaseRequestBlocks(k)

Spec == Init /\ [][Next]_vars /\ WF_vars(Progress)

(* -------------------------------- properties ------------------------------ *)

(* No stage of a generation is tried twice. *)
Once == \A i, j \in Att : site.attempts[i] = site.attempts[j] => i = j

(* Whoever is told that an unclaimed generation is cancelled may reuse its    *)
(* blocks: no attempt is arming or sending under it, nor will one, and no     *)
(* source is reading them.                                                    *)
CancelFinal ==
  site.prompt /\ ~site.release /\ Once =>
    \A i \in Att : AtWork(i) => Uuid(i) \notin told

(* While an attempt that claimed a generation is at work, every unit it       *)
(* claimed still has its row of that generation: votes retire it no earlier   *)
(* than the last unit is done, a sibling's abandon takes nothing.             *)
OffersKept ==
  site.prompt /\ ~site.release /\ ~site.restart /\ Once =>
    \A i \in Att :
      AtWork(i) => /\ site.units \subseteq RowsOf(reg, Uuid(i))
                   /\ Status(reg, now, Uuid(i)) = "claimed"
                   /\ i \in reg.owners[Uuid(i)]

(* "Receivers must be armed before any sender can put bytes on the wire":     *)
(* a source that is sending a sub-plan finds every destination of it armed.   *)
ArmedFirst ==
  \A u \in site.units : \A x \in active[u] :
    \A d \in Stage(x[1]).dst : x \in armed[d]

(* An attempt at work keeps its offers and its claim, a generation that was   *)
(* told cancelled is used by no attempt, and no sender is dispatched before   *)
(* all receivers are armed.                                                   *)
AttemptsSound == CancelFinal /\ OffersKept /\ ArmedFirst

(* Every attempt ends, and the request's status with it. *)
Trying == \E i \in Att : Started(i)
AttemptsEnd == Trying ~> ~Trying
=============================================================================
