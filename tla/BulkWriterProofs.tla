--------------------------- MODULE BulkWriterProofs ---------------------------
(***************************************************************************)
(* Proofs about BulkWriter for every number of batches, every concurrency  *)
(* and every assignment of blocks to batches.                              *)
(***************************************************************************)
EXTENDS BulkWriter, FiniteSetTheorems, TLAPS

(* The inductive invariant.  The counters bracket the window of batches;    *)
(* each batch's request and answer tell on which side of the window it is;  *)
(* the checkpoint is the highest block of the confirmed prefix.             *)

Counters ==
    /\ completed <= submitted
    /\ submitted <= queued
    /\ submitted - completed <= Concurrency
    /\ closed => inputClosed /\ submitted = queued

Window ==
    /\ \A i \in ready : answer[i] \in {"ok", "err"}
    /\ \A i \in Batch : i < completed => answer[i] = "ok"
    /\ \A i \in Batch : answer[i] = "ok" => request[i] = "applied"
    /\ \A i \in Batch : i >= submitted => request[i] = "unsent" /\ answer[i] = "none"

LocalCheckpoint ==
    /\ \A i \in Batch : i < completed => maxBlock[i] <= checkpoint
    /\ checkpoint = 0 \/ \E i \in Batch : i < completed /\ maxBlock[i] = checkpoint

StoredCheckpoint ==
    /\ stored <= checkpoint
    /\ stored = 0 \/ \E i \in Batch : i < completed /\ maxBlock[i] = stored
    /\ pc = "put" => stored < checkpoint
    /\ pc \in {"loop", "done"} => stored = checkpoint

Returned ==
    /\ pc = "done" => closed /\ jobs = {} /\ completed \notin ready
    /\ pc = "failed" => jobs = {}

IInv ==
    /\ TypeOK
    /\ Counters
    /\ Partition
    /\ Window
    /\ LocalCheckpoint
    /\ StoredCheckpoint
    /\ Returned

-----------------------------------------------------------------------------
(* The guard of the receive arm is about the window of ordinals: the jobs    *)
(* and the waiting results are as many as the ordinals from completed up to  *)
(* submitted.                                                                *)

LEMMA WindowCardinality ==
    ASSUME TypeOK, Counters, Partition, pc # "failed"
    PROVE  Cardinality(jobs) + Cardinality(ready) = submitted - completed
<1>1. /\ completed \in Int
      /\ submitted \in Int
      /\ submitted - 1 \in Int
      /\ completed <= submitted
    BY WriterAssumption DEF TypeOK, Counters
<1>2. /\ IsFiniteSet(completed .. submitted - 1)
      /\ Cardinality(completed .. submitted - 1) = submitted - completed
  <2>1. /\ IsFiniteSet(completed .. submitted - 1)
        /\ Cardinality(completed .. submitted - 1) =
             IF completed > submitted - 1 THEN 0 ELSE submitted - 1 - completed + 1
    BY <1>1, FS_Interval, Zenon
  <2>2. (IF completed > submitted - 1 THEN 0 ELSE submitted - 1 - completed + 1)
          = submitted - completed
    BY <1>1
  <2> QED
    BY <2>1, <2>2
<1>3. /\ jobs \cup ready = completed .. submitted - 1
      /\ jobs \cap ready = {}
    BY DEF Partition
<1>4. /\ jobs \in SUBSET (completed .. submitted - 1)
      /\ ready \in SUBSET (completed .. submitted - 1)
    BY <1>3
<1>5. IsFiniteSet(jobs) /\ IsFiniteSet(ready)
    BY <1>2, <1>4, FS_Subset
<1>6. Cardinality(jobs \cup ready) =
        Cardinality(jobs) + Cardinality(ready) - Cardinality(jobs \cap ready)
    BY <1>5, FS_Union
<1>7. Cardinality({}) = 0
    BY FS_EmptySet
<1>8. Cardinality(jobs) \in Nat /\ Cardinality(ready) \in Nat
    BY <1>5, FS_CardinalityType
<1>9. Cardinality(jobs \cap ready) = 0
    BY <1>3, <1>7, Zenon
<1>10. Cardinality(jobs \cup ready) = submitted - completed
    BY <1>2, <1>3, Zenon
<1> QED
    BY <1>6, <1>8, <1>9, <1>10

\* When the receive arm's guard holds (indexer.rs:410), one more submission
\* stays within the window.
LEMMA RoomToReceive ==
    ASSUME TypeOK, Counters, Partition, pc = "loop", MayReceive
    PROVE  submitted - completed < Concurrency
BY WindowCardinality DEF MayReceive

\* The loop's initial counters, sets and checkpoint (indexer.rs:393-398)
\* satisfy the invariant.
LEMMA InitIInv == Init => IInv
<1> SUFFICES ASSUME Init
             PROVE  IInv
    OBVIOUS
<1> USE WriterAssumption DEF Init
<1>1. TypeOK
  <2>1. /\ request \in [Batch -> {"unsent", "wire", "applied", "rejected"}]
        /\ answer \in [Batch -> {"none", "ok", "err", "panic"}]
    OBVIOUS
  <2>2. jobs \in SUBSET Batch /\ ready \in SUBSET Batch
    OBVIOUS
  <2>3. /\ queued \in 0 .. NumBatches
        /\ submitted \in 0 .. NumBatches
        /\ completed \in 0 .. NumBatches
        /\ checkpoint \in 0 .. MaxHeight
        /\ stored \in 0 .. MaxHeight
    OBVIOUS
  <2>4. /\ maxBlock \in [Batch -> 1 .. MaxHeight]
        /\ inputClosed \in BOOLEAN
        /\ closed \in BOOLEAN
        /\ pc \in {"loop", "put", "done", "failed"}
    OBVIOUS
  <2> QED
    BY <2>1, <2>2, <2>3, <2>4, Zenon DEF TypeOK
<1>2. Counters /\ StoredCheckpoint /\ Returned
    BY DEF Counters, StoredCheckpoint, Returned
<1>3. Partition
    BY DEF Partition
<1>4. Window /\ LocalCheckpoint
    BY DEF Window, LocalCheckpoint, Batch
<1> QED
    BY <1>1, <1>2, <1>3, <1>4 DEF IInv

\* Every step of the loop, of its tasks, of Elasticsearch and of the processor
\* keeps the invariant, an abort in the middle of a PUT included.
THEOREM Inductive == IInv /\ [Next]_vars => IInv'
<1> SUFFICES ASSUME IInv, [Next]_vars
             PROVE  IInv'
    OBVIOUS
<1> USE WriterAssumption
    DEF IInv, TypeOK, Counters, Partition, Window, LocalCheckpoint,
        StoredCheckpoint, Returned, Batch, input
<1>1. CASE SendBatch
    BY <1>1 DEF SendBatch
<1>2. CASE CloseInput
    BY <1>2 DEF CloseInput
<1>3. ASSUME NEW i \in Batch, EsApply(i)
      PROVE  IInv'
    BY <1>3 DEF EsApply
<1>4. ASSUME NEW i \in Batch, EsReject(i)
      PROVE  IInv'
    BY <1>4 DEF EsReject
<1>5. ASSUME NEW i \in Batch, JobOk(i)
      PROVE  IInv'
    BY <1>5 DEF JobOk
<1>6. ASSUME NEW i \in Batch, JobErr(i)
      PROVE  IInv'
  <2>1. TypeOK'
    BY <1>6 DEF JobErr
  <2>2. Counters' /\ Partition'
    BY <1>6 DEF JobErr
  <2>3. Window'
    <3>1. i \notin ready /\ ~(i < completed) /\ ~(i >= submitted)
      BY <1>6 DEF JobErr
    <3>2. /\ \A j \in Batch : j # i => answer'[j] = answer[j]
          /\ answer'[i] \in {"err", "panic"}
          /\ UNCHANGED <<ready, completed, submitted, request>>
      BY <1>6 DEF JobErr
    <3>3. \A j \in ready' : answer'[j] \in {"ok", "err"}
      BY <3>1, <3>2
    <3>4. \A j \in Batch : j < completed' => answer'[j] = "ok"
      BY <3>1, <3>2
    <3>5. \A j \in Batch : answer'[j] = "ok" => request'[j] = "applied"
      BY <3>2
    <3>6. \A j \in Batch : j >= submitted' => request'[j] = "unsent" /\ answer'[j] = "none"
      BY <3>1, <3>2
    <3> QED
      BY <3>3, <3>4, <3>5, <3>6
  <2>4. LocalCheckpoint' /\ StoredCheckpoint' /\ Returned'
    BY <1>6 DEF JobErr
  <2> QED
    BY <2>1, <2>2, <2>3, <2>4
<1>7. ASSUME NEW i \in Batch, JobPanic(i)
      PROVE  IInv'
  <2>1. TypeOK'
    BY <1>7 DEF JobPanic
  <2>2. Counters' /\ Partition'
    BY <1>7 DEF JobPanic
  <2>3. Window'
    <3>1. i \notin ready /\ ~(i < completed) /\ ~(i >= submitted)
      BY <1>7 DEF JobPanic
    <3>2. /\ \A j \in Batch : j # i => answer'[j] = answer[j]
          /\ answer'[i] \in {"err", "panic"}
          /\ UNCHANGED <<ready, completed, submitted, request>>
      BY <1>7 DEF JobPanic
    <3>3. \A j \in ready' : answer'[j] \in {"ok", "err"}
      BY <3>1, <3>2
    <3>4. \A j \in Batch : j < completed' => answer'[j] = "ok"
      BY <3>1, <3>2
    <3>5. \A j \in Batch : answer'[j] = "ok" => request'[j] = "applied"
      BY <3>2
    <3>6. \A j \in Batch : j >= submitted' => request'[j] = "unsent" /\ answer'[j] = "none"
      BY <3>1, <3>2
    <3> QED
      BY <3>3, <3>4, <3>5, <3>6
  <2>4. LocalCheckpoint' /\ StoredCheckpoint' /\ Returned'
    BY <1>7 DEF JobPanic
  <2> QED
    BY <2>1, <2>2, <2>3, <2>4
<1>8. CASE Submit
  <2>1. TypeOK'
    BY <1>8 DEF Submit, AtSelect
  <2>2. Counters'
    BY <1>8, RoomToReceive, SMTT(20) DEF Submit, AtSelect
  <2>3. Partition'
    BY <1>8 DEF Submit, AtSelect
  <2>4. Window'
    BY <1>8 DEF Submit, AtSelect
  <2>5. LocalCheckpoint' /\ StoredCheckpoint' /\ Returned'
    BY <1>8 DEF Submit, AtSelect
  <2> QED
    BY <2>1, <2>2, <2>3, <2>4, <2>5
<1>9. CASE SeeClosed
    BY <1>9 DEF SeeClosed, AtSelect
<1>10. ASSUME NEW i \in Batch, JoinNext(i)
       PROVE  IInv'
  <2>1. TypeOK'
    BY <1>10 DEF JoinNext, AtSelect
  <2>2. Counters'
    BY <1>10 DEF JoinNext, AtSelect
  <2>3. Partition'
    BY <1>10 DEF JoinNext, AtSelect
  <2>4. Window'
    BY <1>10 DEF JoinNext, AtSelect
  <2>5. LocalCheckpoint' /\ StoredCheckpoint' /\ Returned'
    BY <1>10 DEF JoinNext, AtSelect
  <2> QED
    BY <2>1, <2>2, <2>3, <2>4, <2>5
<1>11. ASSUME NEW i \in Batch, JoinPanicked(i)
       PROVE  IInv'
    BY <1>11 DEF JoinPanicked, AtSelect, Leave
<1>12. CASE Confirm
  <2>1. TypeOK'
    BY <1>12 DEF Confirm
  <2>2. Counters'
    BY <1>12 DEF Confirm
  <2>3. Partition'
    BY <1>12 DEF Confirm
  <2>4. Window'
    BY <1>12 DEF Confirm
  <2>5. completed \in Batch /\ maxBlock' = maxBlock /\ completed' = completed + 1
    BY <1>12 DEF Confirm
  <2>6. LocalCheckpoint'
    <3>1. CASE maxBlock[completed] > checkpoint
      BY <1>12, <2>5, <3>1, SMTT(20) DEF Confirm
    <3>2. CASE ~(maxBlock[completed] > checkpoint)
      BY <1>12, <2>5, <3>2 DEF Confirm
    <3> QED
      BY <3>1, <3>2
  <2>7. StoredCheckpoint'
    BY <1>12, <2>5 DEF Confirm
  <2>8. Returned'
    BY <1>12 DEF Confirm
  <2> QED
    BY <2>1, <2>2, <2>3, <2>4, <2>6, <2>7, <2>8
<1>13. CASE ConfirmFailed
    BY <1>13 DEF ConfirmFailed, Leave
<1>14. CASE PutCheckpoint
    BY <1>14 DEF PutCheckpoint
<1>15. CASE PutFailed
    BY <1>15 DEF PutFailed, Leave
<1>16. CASE Return
    BY <1>16 DEF Return
<1>17. CASE Abort
    BY <1>17 DEF Abort, Leave
<1>18. CASE UNCHANGED vars
    BY <1>18 DEF vars
<1> QED
    BY <1>1, <1>2, <1>3, <1>4, <1>5, <1>6, <1>7, <1>8, <1>9, <1>10, <1>11,
       <1>12, <1>13, <1>14, <1>15, <1>16, <1>17, <1>18
    DEF Next, Es, Job, Loop

-----------------------------------------------------------------------------
(* The theorems.                                                             *)

\* The invariant holds in every reachable state of write_batches.
THEOREM Invariance == Spec => []IInv
BY InitIInv, Inductive, PTL DEF Spec

\* Every variable keeps its type, for every value of the constants.
THEOREM TypeCorrect == Spec => []TypeOK
<1>1. IInv => TypeOK
    BY DEF IInv
<1> QED
    BY <1>1, Invariance, PTL

\* Jobs and waiting results are exactly the ordinals between the confirmed
\* prefix and the last submission (indexer.rs:399-451).
THEOREM NothingLost == Spec => []Partition
<1>1. IInv => Partition
    BY DEF IInv
<1> QED
    BY <1>1, Invariance, PTL

\* The writer never runs more than writer_concurrency batches past the
\* confirmed prefix (indexer.rs:410).
THEOREM Bounded == Spec => []WindowBound
<1>1. IInv => WindowBound
    BY DEF IInv, Counters, WindowBound
<1> QED
    BY <1>1, Invariance, PTL

\* select! never finds both of its arms disabled, which would panic
\* (indexer.rs:409-450).
THEOREM NoSelectPanic == Spec => []SelectHasArm
<1>1. ASSUME IInv, AtSelect, jobs = {}
      PROVE  MayReceive
  <2>1. ready = completed .. submitted - 1 /\ completed \notin ready /\ ~closed
    BY <1>1 DEF IInv, Partition, AtSelect
  <2>2. completed = submitted
    BY <1>1, <2>1, WriterAssumption DEF IInv, TypeOK, Counters
  <2>3. ready = {}
    BY <1>1, <2>1, <2>2, WriterAssumption DEF IInv, TypeOK
  <2>4. Cardinality({}) = 0
    BY FS_EmptySet
  <2>5. Cardinality(jobs) = 0 /\ Cardinality(ready) = 0
    BY <1>1, <2>3, <2>4, Zenon
  <2> QED
    BY <2>1, <2>5, WriterAssumption DEF MayReceive
<1>2. IInv => SelectHasArm
    BY <1>1 DEF SelectHasArm
<1> QED
    BY <1>2, Invariance, PTL

\* What IInv says of the confirmed prefix: all of it has landed.
LEMMA ConfirmedLanded ==
    ASSUME IInv, NEW i \in Batch, i < completed
    PROVE  request[i] = "applied"
BY DEF IInv, Window

\* The stored checkpoint names a batch that landed with all before it
\* (indexer.rs:380-385).
LEMMA BackedByIInv == IInv => CheckpointBacked
<1> SUFFICES ASSUME IInv, stored # 0
             PROVE  \E i \in Batch :
                        /\ maxBlock[i] = stored
                        /\ \A j \in 0 .. i : request[j] = "applied"
    BY DEF CheckpointBacked
<1>1. PICK i \in Batch : i < completed /\ maxBlock[i] = stored
    BY DEF IInv, StoredCheckpoint
<1>2. ASSUME NEW j \in 0 .. i
      PROVE  request[j] = "applied"
  <2>1. j \in Batch /\ j < completed
    BY <1>1, WriterAssumption DEF Batch, IInv, TypeOK
  <2> QED
    BY <2>1, ConfirmedLanded
<1> QED
    BY <1>1, <1>2

THEOREM CheckpointSafe == Spec => []CheckpointBacked
BY BackedByIInv, Invariance, PTL

\* On a stream without forks nothing at or below the checkpoint is missing
\* from Elasticsearch: the next run may start above it (indexer.rs:298-302).
THEOREM ResumeSafe == Spec => []CheckpointDurable
<1>1. ASSUME IInv, InOrder, NEW i \in Batch, maxBlock[i] <= stored
      PROVE  request[i] = "applied"
  <2>1. /\ maxBlock \in [Batch -> 1 .. MaxHeight]
        /\ stored \in 0 .. MaxHeight
        /\ MaxHeight \in Nat
    BY <1>1, WriterAssumption DEF IInv, TypeOK
  <2>2. stored # 0
    BY <1>1, <2>1
  <2>3. PICK n \in Batch :
            maxBlock[n] = stored /\ \A j \in 0 .. n : request[j] = "applied"
    BY <1>1, <2>2, BackedByIInv DEF CheckpointBacked
  <2>4. i <= n
    <3>1. ~(n < i)
      BY <1>1, <2>1, <2>3 DEF InOrder
    <3> QED
      BY <3>1, WriterAssumption DEF Batch
  <2> QED
    BY <2>3, <2>4, WriterAssumption DEF Batch
<1>2. IInv => CheckpointDurable
    BY <1>1 DEF CheckpointDurable
<1> QED
    BY <1>2, Invariance, PTL

\* A batch that is refused holds the confirmed prefix below it and lets no
\* batch further than the window out (README.md:126-127).
THEOREM FailureContained == Spec => []FailureWindow
<1>1. ASSUME IInv, NEW i \in Batch, request[i] = "rejected"
      PROVE  /\ completed <= i
             /\ \A j \in Batch : j >= i + Concurrency => request[j] = "unsent"
  <2>1. completed <= i
    BY <1>1, ConfirmedLanded, WriterAssumption DEF IInv, TypeOK, Batch
  <2> QED
    BY <1>1, <2>1, WriterAssumption DEF IInv, TypeOK, Counters, Window, Batch
<1>2. IInv => FailureWindow
    BY <1>1 DEF FailureWindow
<1> QED
    BY <1>2, Invariance, PTL

\* A run that ends with Ok has stored the highest block of all its batches,
\* every one of which has landed (indexer.rs:404-406).
THEOREM CleanEndComplete == Spec => []CleanEnd
<1>1. ASSUME IInv, pc = "done"
      PROVE  completed = queued
  <2>1. ready = completed .. submitted - 1 /\ completed \notin ready
    BY <1>1 DEF IInv, Partition, Returned
  <2> QED
    BY <1>1, <2>1, WriterAssumption DEF IInv, TypeOK, Counters, Returned
<1>2. ASSUME IInv, pc = "done", NEW i \in 0 .. queued - 1
      PROVE  request[i] = "applied" /\ maxBlock[i] <= stored
  <2>1. i \in Batch /\ i < completed
    BY <1>1, <1>2, WriterAssumption DEF IInv, TypeOK, Batch
  <2> QED
    BY <1>2, <2>1, ConfirmedLanded DEF IInv, LocalCheckpoint, StoredCheckpoint
<1>3. IInv => CleanEnd
    BY <1>1, <1>2 DEF CleanEnd
<1> QED
    BY <1>3, Invariance, PTL

-----------------------------------------------------------------------------
(* The checkpoint document within a run.                                     *)

\* No step takes the checkpoint document backwards.
THEOREM CheckpointMonotone == Spec => CheckpointAdvances
<1>1. ASSUME IInv, [Next]_vars, stored' # stored
      PROVE  pc = "put" /\ stored' = checkpoint
  <2> USE <1>1
  <2>1. CASE PutCheckpoint
    BY <2>1 DEF PutCheckpoint
  <2>2. CASE PutFailed
    BY <2>2 DEF PutFailed
  <2>3. CASE Abort
    BY <2>3 DEF Abort
  <2>4. CASE UNCHANGED stored
    BY <2>4
  <2> QED
    BY <2>1, <2>2, <2>3, <2>4
    DEF Next, Loop, Es, Job, SendBatch, CloseInput, EsApply, EsReject, JobOk,
        JobErr, JobPanic, Submit, SeeClosed, JoinNext, JoinPanicked, Confirm,
        ConfirmFailed, Return, vars
<1>2. IInv /\ [Next]_vars => [stored' # stored => stored' > stored /\ stored' = checkpoint]_vars
    BY <1>1, WriterAssumption DEF IInv, TypeOK, StoredCheckpoint
<1> QED
    BY <1>2, Invariance, PTL DEF Spec, CheckpointAdvances

-----------------------------------------------------------------------------
(* Refinement: the detailed writer implements ConfirmedLog.                  *)

\* The writer starts as an empty log.
LEMMA InitLog == Init => Log!Init
BY DEF Init, Log!Init, Applied, Batch

\* A request applied by Elasticsearch is a Land step, a changed checkpoint
\* document is a Persist step, and every other step leaves the log alone.
LEMMA StepLog == IInv /\ [Next]_vars => [Log!Next]_(Log!vars)
<1> SUFFICES ASSUME IInv, [Next]_vars
             PROVE  [Log!Next]_(Log!vars)
    OBVIOUS
<1>1. ASSUME NEW i \in Batch, EsApply(i)
      PROVE  Log!Next
  <2>1. request \in [Batch -> {"unsent", "wire", "applied", "rejected"}]
    BY DEF IInv, TypeOK
  <2>2. Applied' = Applied \cup {i}
    BY <1>1, <2>1 DEF EsApply, Applied
  <2>3. UNCHANGED <<maxBlock, stored>>
    BY <1>1 DEF EsApply, input
  <2> QED
    BY <2>2, <2>3 DEF Log!Next, Log!Land, Batch
<1>2. CASE stored' # stored
  <2>1. pc = "put" /\ stored' = checkpoint /\ UNCHANGED <<maxBlock, request>>
    <3> USE <1>2
    <3>1. CASE PutCheckpoint
      BY <3>1 DEF PutCheckpoint, input
    <3>2. CASE PutFailed
      BY <3>2 DEF PutFailed, input
    <3>3. CASE Abort
      BY <3>3 DEF Abort, input
    <3> QED
      BY <3>1, <3>2, <3>3
      DEF Next, Loop, Es, Job, SendBatch, CloseInput, EsApply, EsReject, JobOk,
          JobErr, JobPanic, Submit, SeeClosed, JoinNext, JoinPanicked, Confirm,
          ConfirmFailed, Return, vars
  <2>2. /\ stored < checkpoint
        /\ stored \in Nat
        /\ completed \in Nat
    BY <2>1, WriterAssumption DEF IInv, StoredCheckpoint, TypeOK
  <2>3. PICK n \in Batch : n < completed /\ maxBlock[n] = checkpoint
    BY <2>2, WriterAssumption DEF IInv, LocalCheckpoint, TypeOK
  <2>4. 0 .. n \subseteq Applied
    BY <2>3, <2>2, ConfirmedLanded, WriterAssumption DEF Applied, Batch
  <2>5. Applied' = Applied
    BY <2>1 DEF Applied
  <2>6. Log!Persist(n)
    BY <2>1, <2>2, <2>3, <2>4, <2>5 DEF Log!Persist
  <2> QED
    BY <2>6 DEF Log!Next, Batch
<1>3. ASSUME stored' = stored, ~ \E i \in Batch : EsApply(i)
      PROVE  UNCHANGED Log!vars
  <2>1. maxBlock' = maxBlock
    BY DEF Next, Loop, Es, Job, SendBatch, CloseInput, EsApply, EsReject, JobOk,
           JobErr, JobPanic, Submit, SeeClosed, JoinNext, JoinPanicked, Confirm,
           ConfirmFailed, PutCheckpoint, PutFailed, Return, Abort, vars, input
  <2>2. Applied' = Applied
    <3>1. CASE Submit
      <4>1. /\ request[submitted] = "unsent"
            /\ request' = [request EXCEPT ![submitted] = "wire"]
        BY <3>1, WriterAssumption DEF Submit, IInv, Window, TypeOK, Batch
      <4> QED
        BY <4>1 DEF Applied, IInv, TypeOK
    <3>2. ASSUME NEW i \in Batch, EsReject(i)
          PROVE  Applied' = Applied
      BY <3>2 DEF EsReject, Applied, IInv, TypeOK
    <3>3. CASE UNCHANGED request
      BY <3>3 DEF Applied
    <3> QED
      BY <1>3, <3>1, <3>2, <3>3
      DEF Next, Loop, Es, Job, SendBatch, CloseInput, JobOk, JobErr, JobPanic,
          SeeClosed, JoinNext, JoinPanicked, Confirm, ConfirmFailed,
          PutCheckpoint, PutFailed, Return, Abort, vars
  <2> QED
    BY <1>3, <2>1, <2>2 DEF Log!vars
<1> QED
    BY <1>1, <1>2, <1>3

\* The writer, with all its tasks and failures, implements the confirmed log.
THEOREM Implements == Spec => ImplementsLog
BY InitLog, StepLog, Invariance, PTL DEF Spec, ImplementsLog, Log!Spec
=============================================================================
