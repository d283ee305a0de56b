------------------------------ MODULE BulkWriter ------------------------------
(***************************************************************************)
(* The bulk-writer stage, `write_batches` of indexer.rs: up to Concurrency *)
(* `_bulk` requests run at once, and their results are confirmed in        *)
(* submission order, so that the resume checkpoint in the progress index   *)
(* never passes a batch that is still in flight or that failed.            *)
(*                                                                         *)
(* A batch is its ordinal, 0 .. NumBatches - 1, in the order in which the  *)
(* processor put it on the channel; maxBlock[i] is the highest block of    *)
(* batch i.  A microfork replays earlier numbers, so maxBlock is any       *)
(* function.  The documents of a batch are abstracted to the fate of its   *)
(* request at Elasticsearch.                                               *)
(***************************************************************************)
EXTENDS Integers, FiniteSets

CONSTANTS
    NumBatches,     \* batches the processor produces in one run
    Concurrency,    \* indexer.writer_concurrency
    QueueCap,       \* capacity of the batch channel (2 in the code)
    MaxHeight       \* highest block number

ASSUME WriterAssumption ==
    /\ NumBatches \in Nat
    /\ Concurrency \in Nat \ {0}
    /\ QueueCap \in Nat \ {0}
    /\ MaxHeight \in Nat \ {0}

Batch == 0 .. NumBatches - 1

VARIABLES
    maxBlock,       \* highest block of each batch
    queued,         \* batches the processor has put on the channel
    inputClosed,    \* the processor has dropped its sender
    submitted,      \* batches taken from the channel and handed to a job
    completed,      \* batches confirmed: the ordinal awaited next
    jobs,           \* ordinals of the tasks in the JoinSet
    ready,          \* ordinals joined and waiting to be confirmed
    request,        \* the fate of each batch's request at Elasticsearch
    answer,         \* what each job's task returned
    checkpoint,     \* the loop's local checkpoint
    closed,         \* the loop has seen the channel closed
    pc,             \* where the loop is
    stored          \* block_num of the checkpoint document, 0 when there is none

input == <<maxBlock, queued, inputClosed>>
vars == <<maxBlock, queued, inputClosed, submitted, completed, jobs, ready,
          request, answer, checkpoint, closed, pc, stored>>

TypeOK ==
    /\ maxBlock \in [Batch -> 1 .. MaxHeight]
    /\ queued \in 0 .. NumBatches
    /\ inputClosed \in BOOLEAN
    /\ submitted \in 0 .. NumBatches
    /\ completed \in 0 .. NumBatches
    /\ jobs \in SUBSET Batch
    /\ ready \in SUBSET Batch
    /\ request \in [Batch -> {"unsent", "wire", "applied", "rejected"}]
    /\ answer \in [Batch -> {"none", "ok", "err", "panic"}]
    /\ checkpoint \in 0 .. MaxHeight
    /\ closed \in BOOLEAN
    /\ pc \in {"loop", "put", "done", "failed"}
    /\ stored \in 0 .. MaxHeight

Init ==
    /\ maxBlock \in [Batch -> 1 .. MaxHeight]
    /\ queued = 0
    /\ inputClosed = FALSE
    /\ submitted = 0
    /\ completed = 0
    /\ jobs = {}
    /\ ready = {}
    /\ request = [i \in Batch |-> "unsent"]
    /\ answer = [i \in Batch |-> "none"]
    /\ checkpoint = 0
    /\ closed = FALSE
    /\ pc = "loop"
    /\ stored = 0

-----------------------------------------------------------------------------
(* The other end of the batch channel: process_blocks sends and, when its   *)
(* own input ends, drops the sender.  It may end after any number of        *)
(* batches.                                                                 *)

SendBatch ==
    /\ pc \in {"loop", "put"}
    /\ ~inputClosed
    /\ queued < NumBatches
    /\ queued - submitted < QueueCap
    /\ queued' = queued + 1
    /\ UNCHANGED <<maxBlock, inputClosed, submitted, completed, jobs, ready,
                   request, answer, checkpoint, closed, pc, stored>>

CloseInput ==
    /\ ~inputClosed
    /\ inputClosed' = TRUE
    /\ UNCHANGED <<maxBlock, queued, submitted, completed, jobs, ready,
                   request, answer, checkpoint, closed, pc, stored>>

-----------------------------------------------------------------------------
(* Elasticsearch, and the task of one bulk request.                         *)

\* Every document of the batch is written, or was superseded by a higher
\* version (409).  A request outlives the task that sent it.
EsApply(i) ==
    /\ request[i] = "wire"
    /\ request' = [request EXCEPT ![i] = "applied"]
    /\ UNCHANGED <<input, submitted, completed, jobs, ready, answer,
                   checkpoint, closed, pc, stored>>

\* The request, or some of its items, is refused.
EsReject(i) ==
    /\ request[i] = "wire"
    /\ request' = [request EXCEPT ![i] = "rejected"]
    /\ UNCHANGED <<input, submitted, completed, jobs, ready, answer,
                   checkpoint, closed, pc, stored>>

\* `es.bulk` returned no failed item.
JobOk(i) ==
    /\ i \in jobs
    /\ answer[i] = "none"
    /\ request[i] = "applied"
    /\ answer' = [answer EXCEPT ![i] = "ok"]
    /\ UNCHANGED <<input, submitted, completed, jobs, ready, request,
                   checkpoint, closed, pc, stored>>

\* `es.bulk` returned failed items or an error: a transport error says
\* nothing about the fate of the request.
JobErr(i) ==
    /\ i \in jobs
    /\ answer[i] = "none"
    /\ answer' = [answer EXCEPT ![i] = "err"]
    /\ UNCHANGED <<input, submitted, completed, jobs, ready, request,
                   checkpoint, closed, pc, stored>>

\* The task itself dies, which join_next reports as a JoinError.
JobPanic(i) ==
    /\ i \in jobs
    /\ answer[i] = "none"
    /\ answer' = [answer EXCEPT ![i] = "panic"]
    /\ UNCHANGED <<input, submitted, completed, jobs, ready, request,
                   checkpoint, closed, pc, stored>>

-----------------------------------------------------------------------------
(* The loop.  ready.remove(&completed) comes first; select! is reached only *)
(* when the awaited result is not there.                                    *)

\* Mutant: without the return when closed and idle.
AtSelectNoReturn == pc = "loop" /\ completed \notin ready

AtSelect ==
    /\ pc = "loop"
    /\ completed \notin ready
    /\ ~(closed /\ jobs = {})

\* Mutant: a result held back does not count.
MayReceiveJobsOnly == ~closed /\ Cardinality(jobs) < Concurrency

MayReceive == ~closed /\ Cardinality(jobs) + Cardinality(ready) < Concurrency

\* Leave the loop: dropping the JoinSet aborts the tasks still running.
Leave(how) ==
    /\ pc' = how
    /\ jobs' = {}

\* Mutant: no batch was there.
SubmitUnasked ==
    /\ AtSelect
    /\ MayReceive
    /\ submitted' = submitted + 1
    /\ jobs' = jobs \cup {submitted}
    /\ request' = [request EXCEPT ![submitted] = "wire"]
    /\ UNCHANGED <<input, completed, ready, answer, checkpoint, closed, pc,
                   stored>>

Submit ==
    /\ AtSelect
    /\ MayReceive
    /\ submitted < queued
    /\ submitted' = submitted + 1
    /\ jobs' = jobs \cup {submitted}
    /\ request' = [request EXCEPT ![submitted] = "wire"]
    /\ UNCHANGED <<input, completed, ready, answer, checkpoint, closed, pc,
                   stored>>

SeeClosed ==
    /\ AtSelect
    /\ MayReceive
    /\ inputClosed
    /\ submitted = queued
    /\ closed' = TRUE
    /\ UNCHANGED <<input, submitted, completed, jobs, ready, request, answer,
                   checkpoint, pc, stored>>

JoinNext(i) ==
    /\ AtSelect
    /\ i \in jobs
    /\ answer[i] \in {"ok", "err"}
    /\ jobs' = jobs \ {i}
    /\ ready' = ready \cup {i}
    /\ UNCHANGED <<input, submitted, completed, request, answer, checkpoint,
                   closed, pc, stored>>

\* Mutant: a task that died is forgotten.
JoinPanickedForgotten(i) ==
    /\ AtSelect
    /\ i \in jobs
    /\ answer[i] = "panic"
    /\ jobs' = jobs \ {i}
    /\ UNCHANGED <<input, submitted, completed, ready, request, answer,
                   checkpoint, closed, pc, stored>>

JoinPanicked(i) ==
    /\ AtSelect
    /\ i \in jobs
    /\ answer[i] = "panic"
    /\ Leave("failed")
    /\ UNCHANGED <<input, submitted, completed, ready, request, answer,
                   checkpoint, closed, stored>>

\* Mutant: results are confirmed as they come in.
ConfirmAnyReady ==
    \E i \in ready :
        /\ pc = "loop"
        /\ answer[i] = "ok"
        /\ ready' = ready \ {i}
        /\ completed' = completed + 1
        /\ IF maxBlock[i] > checkpoint
             THEN checkpoint' = maxBlock[i] /\ pc' = "put"
             ELSE UNCHANGED <<checkpoint, pc>>
        /\ UNCHANGED <<input, submitted, jobs, request, answer, closed, stored>>

\* Mutant: the result itself is not looked at.
ConfirmUnchecked ==
    /\ pc = "loop"
    /\ completed \in ready
    /\ ready' = ready \ {completed}
    /\ completed' = completed + 1
    /\ IF maxBlock[completed] > checkpoint
         THEN checkpoint' = maxBlock[completed] /\ pc' = "put"
         ELSE UNCHANGED <<checkpoint, pc>>
    /\ UNCHANGED <<input, submitted, jobs, request, answer, closed, stored>>

Confirm ==
    /\ pc = "loop"
    /\ completed \in ready
    /\ answer[completed] = "ok"
    /\ ready' = ready \ {completed}
    /\ completed' = completed + 1
    /\ IF maxBlock[completed] > checkpoint
         THEN checkpoint' = maxBlock[completed] /\ pc' = "put"
         ELSE UNCHANGED <<checkpoint, pc>>
    /\ UNCHANGED <<input, submitted, jobs, request, answer, closed, stored>>

\* Mutant: a failed batch is skipped.
ConfirmFailedSkips ==
    /\ pc = "loop"
    /\ completed \in ready
    /\ answer[completed] = "err"
    /\ ready' = ready \ {completed}
    /\ completed' = completed + 1
    /\ UNCHANGED <<input, submitted, jobs, request, answer, checkpoint,
                   closed, pc, stored>>

ConfirmFailed ==
    /\ pc = "loop"
    /\ completed \in ready
    /\ answer[completed] = "err"
    /\ ready' = ready \ {completed}
    /\ Leave("failed")
    /\ UNCHANGED <<input, submitted, completed, request, answer, checkpoint,
                   closed, stored>>

PutCheckpoint ==
    /\ pc = "put"
    /\ stored' = checkpoint
    /\ pc' = "loop"
    /\ UNCHANGED <<input, submitted, completed, jobs, ready, request, answer,
                   checkpoint, closed>>

\* The PUT fails for the client; the document may have been written.
PutFailed ==
    /\ pc = "put"
    /\ stored' \in {stored, checkpoint}
    /\ Leave("failed")
    /\ UNCHANGED <<input, submitted, completed, ready, request, answer,
                   checkpoint, closed>>

Return ==
    /\ pc = "loop"
    /\ completed \notin ready
    /\ closed
    /\ jobs = {}
    /\ pc' = "done"
    /\ UNCHANGED <<input, submitted, completed, jobs, ready, request, answer,
                   checkpoint, closed, stored>>

\* Another stage failed or the process stopped: `run` drops the task, in the
\* middle of a PUT too.
Abort ==
    /\ pc \in {"loop", "put"}
    /\ stored' \in IF pc = "put" THEN {stored, checkpoint} ELSE {stored}
    /\ Leave("failed")
    /\ UNCHANGED <<input, submitted, completed, ready, request, answer,
                   checkpoint, closed>>

Loop ==
    \/ Submit
    \/ SeeClosed
    \/ \E i \in Batch : JoinNext(i) \/ JoinPanicked(i)
    \/ Confirm
    \/ ConfirmFailed
    \/ PutCheckpoint
    \/ PutFailed
    \/ Return

Job(i) == JobOk(i) \/ JobErr(i) \/ JobPanic(i)

Es(i) == EsApply(i) \/ EsReject(i)

Next ==
    \/ SendBatch
    \/ CloseInput
    \/ \E i \in Batch : Es(i) \/ Job(i)
    \/ Loop
    \/ Abort

Spec == Init /\ [][Next]_vars

\* tokio polls the loop whenever an arm is ready, and a bulk request ends, by
\* an answer or a connection error.  The HTTP client sets no timeout: that
\* every request ends is Elasticsearch's and TCP's doing.
Fairness ==
    /\ WF_vars(Loop)
    /\ \A i \in Batch : WF_vars(Es(i)) /\ WF_vars(Job(i))

FairSpec == Spec /\ Fairness

-----------------------------------------------------------------------------
(* Safety.                                                                  *)

\* The confirmed batches, the results waiting and the running jobs split the
\* submitted ordinals: nothing is lost, joined twice or confirmed early.
Partition ==
    /\ jobs \cap ready = {}
    /\ pc # "failed" => jobs \cup ready = completed .. submitted - 1

\* indexer.rs:119 and 408: never more than Concurrency batches between the
\* confirmed prefix and the channel, whatever order the results come in.  A
\* result held back behind a slow request keeps its slot.
WindowBound == submitted - completed <= Concurrency

\* select! panics when both its arms are disabled; whenever the loop gets
\* there, it can receive or has a job to join.
SelectHasArm == AtSelect => MayReceive \/ jobs # {}

\* indexer.rs:380-385: the stored checkpoint is the highest block of a batch
\* that landed with every batch submitted before it, even when later batches
\* landed first, requests failed or the run was aborted during a PUT.
CheckpointBacked ==
    stored = 0
    \/ \E i \in Batch :
        /\ maxBlock[i] = stored
        /\ \A j \in 0 .. i : request[j] = "applied"

\* A stream without forks: each batch ends above the one before.
InOrder == \A i, j \in Batch : i < j => maxBlock[i] < maxBlock[j]

\* indexer.rs:298-302: on a stream without forks everything at or below the
\* stored checkpoint is in Elasticsearch, so resuming above it is safe.
CheckpointDurable ==
    InOrder => \A i \in Batch : maxBlock[i] <= stored => request[i] = "applied"

\* README.md:126-127: a batch whose request did not land stops the indexed
\* position below it for good, and lets at most Concurrency - 1 later batches
\* out.
FailureWindow ==
    \A i \in Batch :
        request[i] = "rejected" =>
            /\ completed <= i
            /\ \A j \in Batch : j >= i + Concurrency => request[j] = "unsent"

\* A run that returns Ok has confirmed every batch it was given and stored
\* the highest block among them.
CleanEnd ==
    pc = "done" =>
        /\ completed = queued
        /\ \A i \in 0 .. queued - 1 : request[i] = "applied" /\ maxBlock[i] <= stored

(* Action properties.                                                       *)

\* Within a run the checkpoint document only grows, and only by a PUT of
\* what has been confirmed.
CheckpointAdvances ==
    [][stored' # stored => stored' > stored /\ stored' = checkpoint]_vars

(* Liveness.                                                                *)

Ended == pc \in {"done", "failed"}

\* Once its input is closed the writer ends: the drain never hangs on a
\* result held back in `ready`.
Drains == inputClosed ~> Ended

\* A failed batch ends the run even while later requests succeed.
FailureSurfaces ==
    \A i \in Batch : (answer[i] \in {"err", "panic"}) ~> Ended

(* Refinement.                                                              *)

Applied == {i \in Batch : request[i] = "applied"}

Log == INSTANCE ConfirmedLog WITH applied <- Applied

\* indexer.rs:380-385: whatever the interleaving of tasks, answers and PUTs,
\* the run looks from outside like a log whose checkpoint is only moved over
\* landed prefixes.
ImplementsLog == Log!Spec
=============================================================================
