---------------------------- MODULE CopyPipeline ----------------------------
(***************************************************************************)
(* The chunked transfers of KVCacheManagerBase: H2dWrite, H2dRead,         *)
(* D2hWrite, D2hWriteToBackend and H2dReadFromBackend.  Each chunk passes  *)
(* its stages on its own (a device copy, a push, a pull, a store or a      *)
(* load), and TransferPipelinedState turns the chunks' ends into one       *)
(* promise with atomics only.  One chunk is one block.                     *)
(***************************************************************************)
EXTENDS Naturals, Sequences, FiniteSets

CONSTANTS PipeJobs    \* the calls: [kind, lists, backends, staged, faults]

VARIABLES job,        \* the call that runs
          call,       \* the caller: "idle", "issue", "attached", "returned"
          at,         \* chunk -> its step
          stage,      \* chunk -> stages that have landed
          completed,  \* completed_chunks
          hasFailed,  \* has_failed
          fulfilled,  \* promise_fulfilled
          promise,    \* answers given, in order
          mishaps     \* faults still to come

pipeVars == <<job, call, at, stage, completed, hasFailed, fulfilled, promise, mishaps>>

-----------------------------------------------------------------------------
(* The five calls.  "checks": the stages that a chunk skips once has_failed  *)
(* is set; "inline": a single chunk is moved on the caller's thread;         *)
(* "emptyFirst": an empty list is answered before the lengths are compared.  *)

H2dWrite == [stages |-> <<"push">>, checks |-> {1}, inline |-> TRUE,
             emptyFirst |-> TRUE, backend |-> FALSE]
H2dRead == [stages |-> <<"pull", "h2d">>, checks |-> {1, 2}, inline |-> TRUE,
            emptyFirst |-> TRUE, backend |-> FALSE]
D2hWrite == [stages |-> <<"d2h", "push">>, checks |-> {2}, inline |-> TRUE,
             emptyFirst |-> TRUE, backend |-> FALSE]
D2hWriteToBackend == [stages |-> <<"d2h", "store">>, checks |-> {}, inline |-> FALSE,
                      emptyFirst |-> FALSE, backend |-> TRUE]
H2dReadFromBackend == [stages |-> <<"load", "h2d">>, checks |-> {}, inline |-> FALSE,
                       emptyFirst |-> FALSE, backend |-> TRUE]

KindOf(name) == CASE name = "H2dWrite" -> H2dWrite
                  [] name = "H2dRead" -> H2dRead
                  [] name = "D2hWrite" -> D2hWrite
                  [] name = "D2hWriteToBackend" -> D2hWriteToBackend
                  [] name = "H2dReadFromBackend" -> H2dReadFromBackend

ASSUME PipeJobsAssumption ==
  \A j \in PipeJobs :
    /\ j.kind \in {"H2dWrite", "H2dRead", "D2hWrite", "D2hWriteToBackend", "H2dReadFromBackend"}
    /\ j.lists \in Seq(Nat) /\ j.lists # <<>>
    /\ j.faults \in Nat

Kind == KindOf(job.kind)
Count == job.lists[1]
Chunks == 1..Count
Stages == Len(Kind.stages)
Inline == Kind.inline /\ Count = 1

\* A call that starts with device copies submits them itself, one by one.
SubmitsFirst == Kind.stages[1] = "d2h"

SameLengths == \A i \in DOMAIN job.lists : job.lists[i] = Count

PipeInit ==
  /\ job \in PipeJobs
  /\ call = "idle"
  /\ at = [c \in 1..job.lists[1] |-> "none"]
  /\ stage = [c \in 1..job.lists[1] |-> 0]
  /\ completed = 0 /\ hasFailed = FALSE /\ fulfilled = FALSE
  /\ promise = <<>>
  /\ mishaps = job.faults

Mishap == mishaps > 0 /\ mishaps' = mishaps - 1

\* The checks of the arguments; ResolveBlockSlices finds every staging block.
Refused ==
  \/ Kind.backend /\ job.backends # 1
  \/ ~SameLengths /\ ~(Kind.emptyFirst /\ Count = 0)
  \/ Kind.backend /\ Count > 0 /\ ~job.staged

Call ==
  /\ call = "idle"
  /\ IF Refused \/ Count = 0
     THEN /\ call' = "returned"
          /\ promise' = <<IF Refused THEN "refused" ELSE "ok">>
          /\ UNCHANGED at
     ELSE /\ call' = IF SubmitsFirst THEN "issue" ELSE "attached"
          /\ at' = IF SubmitsFirst THEN at ELSE [c \in Chunks |-> "ready"]
          /\ UNCHANGED promise
  /\ UNCHANGED <<job, stage, completed, hasFailed, fulfilled, mishaps>>

\* DispatchD2hChunks for the next chunk; a failure returns at once and leaves
\* the copies of the chunks before it running.
Submit(c) ==
  /\ call = "issue" /\ at[c] = "none"
  /\ \A d \in 1..(c - 1) : at[d] # "none"
  /\ \/ /\ at' = [at EXCEPT ![c] = "run"]
        /\ UNCHANGED <<call, promise, mishaps>>
     \/ /\ Mishap
        /\ call' = "returned"
        /\ promise' = <<"error">>
        /\ UNCHANGED at
  /\ UNCHANGED <<job, stage, completed, hasFailed, fulfilled>>

\* The state exists and every copy has its callback.
Attach ==
  /\ call = "issue" /\ \A c \in Chunks : at[c] # "none"
  /\ call' = "attached"
  /\ UNCHANGED <<job, at, stage, completed, hasFailed, fulfilled, promise, mishaps>>

\* A chunk enters its next stage, or skips the rest.
Begin(c) ==
  /\ at[c] = "ready"
  /\ at' = [at EXCEPT ![c] = IF stage[c] + 1 \in Kind.checks /\ hasFailed /\ ~Inline
                             THEN "mark" ELSE "run"]
  /\ UNCHANGED <<job, call, stage, completed, hasFailed, fulfilled, promise, mishaps>>

\* A stage ends; the callback of a copy runs when it is attached.  A copy whose
\* call has already failed has none.
StageOk(c) ==
  /\ at[c] = "run"
  /\ call = "attached" \/ (call = "returned" /\ promise = <<"error">> /\ ~fulfilled)
  /\ stage' = [stage EXCEPT ![c] = @ + 1]
  /\ at' = [at EXCEPT ![c] = IF call = "returned" THEN "done"
                             ELSE IF stage[c] + 1 < Stages THEN "ready" ELSE "mark"]
  /\ UNCHANGED <<job, call, completed, hasFailed, fulfilled, promise, mishaps>>

StageFails(c) ==
  /\ at[c] = "run" /\ call = "attached"
  /\ Mishap
  /\ at' = [at EXCEPT ![c] = "error"]
  /\ UNCHANGED <<job, call, stage, completed, hasFailed, fulfilled, promise>>

\* One chunk on the caller's thread: the call returns what the stage returned.
InlineEnd(c) ==
  /\ Inline /\ at[c] \in {"error", "mark"}
  /\ promise' = <<IF at[c] = "error" THEN "error" ELSE "ok">>
  /\ at' = [at EXCEPT ![c] = "done"]
  /\ UNCHANGED <<job, call, stage, completed, hasFailed, fulfilled, mishaps>>

-----------------------------------------------------------------------------
(* TransferPipelinedState *)

\* SetError stores the error and the flag, then tries to win the promise.
SetErrorFlag(c) ==
  /\ ~Inline /\ at[c] = "error"
  /\ hasFailed' = TRUE
  /\ at' = [at EXCEPT ![c] = "error_cas"]
  /\ UNCHANGED <<job, call, stage, completed, fulfilled, promise, mishaps>>

SetError(c) ==
  /\ at[c] = "error_cas"
  /\ at' = [at EXCEPT ![c] = "mark"]
  /\ fulfilled' = TRUE
  /\ promise' = IF fulfilled THEN promise ELSE Append(promise, "error")
  /\ UNCHANGED <<job, call, stage, completed, hasFailed, mishaps>>

\* Mutant: compares the count before its own chunk is in it.
MarkChunkComplete_Prev(c) ==
  /\ ~Inline /\ at[c] = "mark"
  /\ completed' = completed + 1
  /\ at' = [at EXCEPT ![c] = IF completed = Count THEN "last" ELSE "done"]
  /\ UNCHANGED <<job, call, stage, hasFailed, fulfilled, promise, mishaps>>

\* MarkChunkComplete counts the chunk; the last one settles the promise.
MarkChunkComplete(c) ==
  /\ ~Inline /\ at[c] = "mark"
  /\ completed' = completed + 1
  /\ at' = [at EXCEPT ![c] = IF completed + 1 = Count THEN "last" ELSE "done"]
  /\ UNCHANGED <<job, call, stage, hasFailed, fulfilled, promise, mishaps>>

\* Mutant: the last chunk sets the promise whoever has set it.
SettlePromise_NoCas(c) ==
  /\ at[c] = "last"
  /\ at' = [at EXCEPT ![c] = "done"]
  /\ fulfilled' = TRUE
  /\ promise' = Append(promise, IF hasFailed THEN "error" ELSE "ok")
  /\ UNCHANGED <<job, call, stage, completed, hasFailed, mishaps>>

SettlePromise(c) ==
  /\ at[c] = "last"
  /\ at' = [at EXCEPT ![c] = "done"]
  /\ fulfilled' = TRUE
  /\ promise' = IF fulfilled THEN promise ELSE Append(promise, IF hasFailed THEN "error" ELSE "ok")
  /\ UNCHANGED <<job, call, stage, completed, hasFailed, mishaps>>

PipeNext ==
  \/ Call \/ Attach
  \/ \E c \in Chunks : \/ Submit(c) \/ Begin(c) \/ StageOk(c) \/ StageFails(c) \/ InlineEnd(c)
                       \/ SetErrorFlag(c) \/ SetError(c) \/ MarkChunkComplete(c) \/ SettlePromise(c)

PipeSpec == PipeInit /\ [][PipeNext]_pipeVars

-----------------------------------------------------------------------------
(* Properties *)

\* A transfer is answered at most once; with success only when every chunk has
\* passed every stage, and then nothing of it is still running; with an error
\* only when a stage or a submission failed; a refused one moves nothing.
PromiseTrue ==
  /\ Len(promise) <= 1
  /\ promise = <<"ok">> => \A c \in Chunks : stage[c] = Stages /\ at[c] \notin {"ready", "run"}
  /\ promise = <<"error">> => mishaps < job.faults
  /\ promise = <<"refused">> => \A c \in Chunks : at[c] = "none"

\* Every transfer is answered and every chunk's work ends.
PipeOver == /\ promise # <<>>
            /\ \A c \in Chunks : at[c] \in {"none", "done"}
=============================================================================
