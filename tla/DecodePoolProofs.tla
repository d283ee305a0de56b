--------------------------- MODULE DecodePoolProofs ---------------------------
(***************************************************************************)
(* Proofs about DecodePool for every number of frames and workers, every   *)
(* set of malformed frames and every order in which the workers finish.    *)
(***************************************************************************)
EXTENDS DecodePool, FiniteSetTheorems, TLAPS

(* The inductive invariant.                                                 *)

Counters ==
    /\ emitted <= submitted
    /\ submitted <= arrived
    /\ closed => inputClosed /\ submitted = arrived

\* The awaited result is in the loop's hand exactly while it is being sent.
Hand ==
    pc = "send" => emitted < submitted /\ result[emitted] = "ok"

Results ==
    /\ \A i \in Frame : i < emitted => result[i] = "ok"
    /\ \A i \in ready : result[i] \in {"ok", "err"}
    /\ \A i \in Frame : result[i] = "ok" => i \notin malformed
    /\ \A i \in Frame : i >= submitted => result[i] = "none"

Received ==
    /\ Len(processed) + Len(out) <= emitted
    /\ Len(out) <= OutCap

Returned == pc = "done" => closed /\ jobs = {} /\ emitted \notin ready

IInv ==
    /\ TypeOK
    /\ Counters
    /\ Partition
    /\ Hand
    /\ Results
    /\ ArrivalOrder
    /\ PoolBound
    /\ Received
    /\ Returned

-----------------------------------------------------------------------------
\* At the select the jobs and the waiting results are as many as the ordinals
\* from emitted up to submitted (indexer.rs:194).
LEMMA WindowCardinality ==
    ASSUME TypeOK, Counters, Partition, pc \in {"loop", "done"}
    PROVE  Cardinality(jobs) + Cardinality(ready) = submitted - emitted
<1>1. /\ emitted \in Int
      /\ submitted \in Int
      /\ submitted - 1 \in Int
      /\ emitted <= submitted
    BY PoolAssumption DEF TypeOK, Counters
<1>2. /\ IsFiniteSet(emitted .. submitted - 1)
      /\ Cardinality(emitted .. submitted - 1) = submitted - emitted
  <2>1. /\ IsFiniteSet(emitted .. submitted - 1)
        /\ Cardinality(emitted .. submitted - 1) =
             IF emitted > submitted - 1 THEN 0 ELSE submitted - 1 - emitted + 1
    BY <1>1, FS_Interval, Zenon
  <2>2. (IF emitted > submitted - 1 THEN 0 ELSE submitted - 1 - emitted + 1)
          = submitted - emitted
    BY <1>1
  <2> QED
    BY <2>1, <2>2
<1>3. /\ jobs \cup ready = emitted .. submitted - 1
      /\ jobs \cap ready = {}
    BY DEF Partition, InHand
<1>4. /\ jobs \in SUBSET (emitted .. submitted - 1)
      /\ ready \in SUBSET (emitted .. submitted - 1)
    BY <1>3
<1>5. IsFiniteSet(jobs) /\ IsFiniteSet(ready)
    BY <1>2, <1>4, FS_Subset
<1>6. Cardinality(jobs \cup ready) =
        Cardinality(jobs) + Cardinality(ready) - Cardinality(jobs \cap ready)
    BY <1>5, FS_Union
<1>7. Cardinality({}) = 0
    BY FS_EmptySet
<1>8. Cardinality(jobs) \in Nat /\ Cardinality(ready) \in Nat
    BY <1>5, FS_CardinalityType
<1>9. Cardinality(jobs \cap ready) = 0
    BY <1>3, <1>7, Zenon
<1>10. Cardinality(jobs \cup ready) = submitted - emitted
    BY <1>2, <1>3, Zenon
<1> QED
    BY <1>6, <1>8, <1>9, <1>10

\* When the receive arm's guard holds, one more frame stays within the pool.
LEMMA RoomToReceive ==
    ASSUME TypeOK, Counters, Partition, pc = "loop", MayReceive
    PROVE  submitted - emitted < Workers
BY WindowCardinality DEF MayReceive

\* The pool starts empty (indexer.rs:177-181).
LEMMA InitIInv == Init => IInv
<1> SUFFICES ASSUME Init
             PROVE  IInv
    OBVIOUS
<1> USE PoolAssumption DEF Init
<1>1. TypeOK
  <2>1. result \in [Frame -> {"none", "ok", "err", "panic"}]
    OBVIOUS
  <2>2. /\ jobs \in SUBSET Frame
        /\ ready \in SUBSET Frame
        /\ malformed \in SUBSET Frame
    OBVIOUS
  <2>3. /\ arrived \in 0 .. NumFrames
        /\ submitted \in 0 .. NumFrames
        /\ emitted \in 0 .. NumFrames
    OBVIOUS
  <2>4. out \in Seq(Frame) /\ processed \in Seq(Frame)
    OBVIOUS
  <2>5. /\ inputClosed \in BOOLEAN
        /\ closed \in BOOLEAN
        /\ outOpen \in BOOLEAN
        /\ pc \in {"loop", "send", "done", "failed"}
    OBVIOUS
  <2> QED
    BY <2>1, <2>2, <2>3, <2>4, <2>5, Zenon DEF TypeOK
<1>2. Counters /\ Hand /\ Received /\ Returned /\ PoolBound /\ ArrivalOrder
    BY DEF Counters, Hand, Received, Returned, PoolBound, ArrivalOrder
<1>3. Partition
    BY DEF Partition, InHand
<1>4. Results
    BY DEF Results, Frame
<1> QED
    BY <1>1, <1>2, <1>3, <1>4 DEF IInv

\* Every step of the loop, of the tasks and of the stages at both ends keeps
\* the invariant.
THEOREM Inductive == IInv /\ [Next]_vars => IInv'
<1> SUFFICES ASSUME IInv, [Next]_vars
             PROVE  IInv'
    OBVIOUS
<1> USE PoolAssumption
    DEF IInv, TypeOK, Counters, Partition, InHand, Hand, Results, ArrivalOrder,
        PoolBound, Received, Returned, Frame
<1>1. CASE Arrive
  <2>1. TypeOK'
    BY <1>1 DEF Arrive
  <2>2. Counters' /\ PoolBound' /\ Received'
    BY <1>1 DEF Arrive
  <2>3. Partition'
    BY <1>1 DEF Arrive
  <2>4. Hand' /\ Results' /\ Returned'
    BY <1>1 DEF Arrive
  <2>5. ArrivalOrder'
    BY <1>1 DEF Arrive
  <2> QED
    BY <2>1, <2>2, <2>3, <2>4, <2>5
<1>2. CASE CloseInput
  <2>1. TypeOK'
    BY <1>2 DEF CloseInput
  <2>2. Counters' /\ PoolBound' /\ Received'
    BY <1>2 DEF CloseInput
  <2>3. Partition'
    BY <1>2 DEF CloseInput
  <2>4. Hand' /\ Results' /\ Returned'
    BY <1>2 DEF CloseInput
  <2>5. ArrivalOrder'
    BY <1>2 DEF CloseInput
  <2> QED
    BY <2>1, <2>2, <2>3, <2>4, <2>5
<1>3. CASE Process
  <2>1. TypeOK'
    BY <1>3 DEF Process
  <2>2. Counters' /\ PoolBound' /\ Received'
    BY <1>3 DEF Process
  <2>3. Partition'
    BY <1>3 DEF Process
  <2>4. Hand' /\ Results' /\ Returned'
    BY <1>3 DEF Process
  <2>5. ArrivalOrder'
    <3>1. /\ out \in Seq(Nat) /\ processed \in Seq(Nat) /\ Len(out) >= 1
          /\ processed' = Append(processed, out[1])
          /\ out' = Tail(out)
      BY <1>3 DEF Process
    <3>2. /\ Len(processed') = Len(processed) + 1
          /\ \A k \in 1 .. Len(processed) : processed'[k] = processed[k]
          /\ processed'[Len(processed) + 1] = out[1]
      BY <3>1
    <3>3. /\ Len(out') = Len(out) - 1
          /\ \A k \in 1 .. Len(out') : out'[k] = out[k + 1]
      BY <3>1
    <3>4. \A k \in 1 .. Len(processed') : processed'[k] = k - 1
      BY <3>1, <3>2
    <3>5. \A k \in 1 .. Len(out') : out'[k] = Len(processed') + k - 1
      BY <3>1, <3>2, <3>3
    <3>6. outOpen' => Len(processed') + Len(out') = emitted'
      <4>1. emitted' = emitted /\ Len(processed) + Len(out) = emitted
        BY <1>3 DEF Process
      <4>2. Len(processed) \in Nat /\ Len(out) \in Nat
        BY <3>1
      <4> HIDE DEF IInv
      <4> QED
        BY <3>2, <3>3, <4>1, <4>2
    <3> QED
      BY <3>4, <3>5, <3>6
  <2> QED
    BY <2>1, <2>2, <2>3, <2>4, <2>5
<1>4. CASE DropReceiver
  <2>1. TypeOK'
    <3>1. out' = <<>> /\ <<>> \in Seq(Frame)
      BY <1>4 DEF DropReceiver
    <3> HIDE DEF Frame
    <3>2. out' \in Seq(Frame)
      BY <3>1, Zenon
    <3> USE DEF Frame
    <3> QED
      BY <1>4, <3>2 DEF DropReceiver
  <2>2. Counters' /\ PoolBound' /\ Received'
    BY <1>4 DEF DropReceiver
  <2>3. Partition'
    BY <1>4 DEF DropReceiver
  <2>4. Hand' /\ Results' /\ Returned'
    BY <1>4 DEF DropReceiver
  <2>5. ArrivalOrder'
    BY <1>4 DEF DropReceiver
  <2> QED
    BY <2>1, <2>2, <2>3, <2>4, <2>5
<1>5. ASSUME NEW i \in Frame, Decode(i)
      PROVE  IInv'
  <2>1. TypeOK'
    BY <1>5 DEF Decode, Unfinished
  <2>2. Counters' /\ PoolBound' /\ Received'
    BY <1>5 DEF Decode, Unfinished
  <2>3. Partition'
    BY <1>5 DEF Decode, Unfinished
  <2>4. Hand' /\ Results' /\ Returned'
    BY <1>5 DEF Decode, Unfinished
  <2>5. ArrivalOrder'
    BY <1>5 DEF Decode, Unfinished
  <2> QED
    BY <2>1, <2>2, <2>3, <2>4, <2>5
<1>6. ASSUME NEW i \in Frame, Panic(i)
      PROVE  IInv'
  <2>1. TypeOK'
    BY <1>6 DEF Panic, Unfinished
  <2>2. Counters' /\ PoolBound' /\ Received'
    BY <1>6 DEF Panic, Unfinished
  <2>3. Partition'
    BY <1>6 DEF Panic, Unfinished
  <2>4. Hand' /\ Results' /\ Returned'
    BY <1>6 DEF Panic, Unfinished
  <2>5. ArrivalOrder'
    BY <1>6 DEF Panic, Unfinished
  <2> QED
    BY <2>1, <2>2, <2>3, <2>4, <2>5
<1>7. CASE Submit
  <2>1. TypeOK'
    BY <1>7 DEF Submit, AtSelect
  <2>2. Counters' /\ PoolBound' /\ Received'
    BY <1>7, RoomToReceive DEF Submit, AtSelect
  <2>3. Partition'
    BY <1>7 DEF Submit, AtSelect
  <2>4. Hand' /\ Results' /\ Returned'
    BY <1>7 DEF Submit, AtSelect
  <2>5. ArrivalOrder'
    BY <1>7 DEF Submit, AtSelect
  <2> QED
    BY <2>1, <2>2, <2>3, <2>4, <2>5
<1>8. CASE SeeClosed
  <2>1. TypeOK'
    BY <1>8 DEF SeeClosed, AtSelect
  <2>2. Counters' /\ PoolBound' /\ Received'
    BY <1>8 DEF SeeClosed, AtSelect
  <2>3. Partition'
    BY <1>8 DEF SeeClosed, AtSelect
  <2>4. Hand' /\ Results' /\ Returned'
    BY <1>8 DEF SeeClosed, AtSelect
  <2>5. ArrivalOrder'
    BY <1>8 DEF SeeClosed, AtSelect
  <2> QED
    BY <2>1, <2>2, <2>3, <2>4, <2>5
<1>9. ASSUME NEW i \in Frame, JoinNext(i)
      PROVE  IInv'
  <2>1. TypeOK'
    BY <1>9 DEF JoinNext, AtSelect
  <2>2. Counters' /\ PoolBound' /\ Received'
    BY <1>9 DEF JoinNext, AtSelect
  <2>3. Partition'
    BY <1>9 DEF JoinNext, AtSelect
  <2>4. Hand' /\ Results' /\ Returned'
    BY <1>9 DEF JoinNext, AtSelect
  <2>5. ArrivalOrder'
    BY <1>9 DEF JoinNext, AtSelect
  <2> QED
    BY <2>1, <2>2, <2>3, <2>4, <2>5
<1>10. ASSUME NEW i \in Frame, JoinPanicked(i)
      PROVE  IInv'
  <2>1. TypeOK'
    BY <1>10 DEF JoinPanicked, AtSelect
  <2>2. Counters' /\ PoolBound' /\ Received'
    BY <1>10 DEF JoinPanicked, AtSelect
  <2>3. Partition'
    BY <1>10 DEF JoinPanicked, AtSelect
  <2>4. Hand' /\ Results' /\ Returned'
    BY <1>10 DEF JoinPanicked, AtSelect
  <2>5. ArrivalOrder'
    BY <1>10 DEF JoinPanicked, AtSelect
  <2> QED
    BY <2>1, <2>2, <2>3, <2>4, <2>5
<1>11. CASE TakeReady
  <2>1. TypeOK'
    BY <1>11 DEF TakeReady
  <2>2. Counters' /\ PoolBound' /\ Received'
    BY <1>11 DEF TakeReady
  <2>3. Partition'
    BY <1>11 DEF TakeReady
  <2>4. Hand' /\ Results' /\ Returned'
    BY <1>11 DEF TakeReady
  <2>5. ArrivalOrder'
    BY <1>11 DEF TakeReady
  <2> QED
    BY <2>1, <2>2, <2>3, <2>4, <2>5
<1>12. CASE TakeError
  <2>1. TypeOK'
    BY <1>12 DEF TakeError
  <2>2. Counters' /\ PoolBound' /\ Received'
    BY <1>12 DEF TakeError
  <2>3. Partition'
    BY <1>12 DEF TakeError
  <2>4. Hand' /\ Results' /\ Returned'
    BY <1>12 DEF TakeError
  <2>5. ArrivalOrder'
    BY <1>12 DEF TakeError
  <2> QED
    BY <2>1, <2>2, <2>3, <2>4, <2>5
<1>13. CASE Send
  <2>1. TypeOK'
    BY <1>13 DEF Send
  <2>2. Counters' /\ PoolBound' /\ Received'
    BY <1>13 DEF Send
  <2>3. Partition'
    BY <1>13 DEF Send
  <2>4. Hand' /\ Results' /\ Returned'
    BY <1>13 DEF Send
  <2>5. ArrivalOrder'
    <3>1. /\ out \in Seq(Nat)
          /\ out' = Append(out, emitted)
          /\ Len(processed) + Len(out) = emitted
          /\ processed' = processed /\ emitted' = emitted + 1
      BY <1>13 DEF Send
    <3>2. /\ Len(out') = Len(out) + 1
          /\ \A k \in 1 .. Len(out) : out'[k] = out[k]
          /\ out'[Len(out) + 1] = emitted
      BY <3>1
    <3>3. \A k \in 1 .. Len(out') : out'[k] = Len(processed') + k - 1
      <4>1. \A k \in 1 .. Len(out) : out[k] = Len(processed) + k - 1
        OBVIOUS
      <4>2. /\ Len(processed) \in Nat /\ Len(out) \in Nat
            /\ Len(processed') = Len(processed)
            /\ Len(processed) + Len(out) = emitted
        BY <3>1
      <4> HIDE DEF IInv
      <4> TAKE k \in 1 .. Len(out')
      <4>3. CASE k \in 1 .. Len(out)
        BY <3>2, <4>1, <4>2, <4>3
      <4>4. CASE k = Len(out) + 1
        BY <3>2, <4>2, <4>4
      <4> QED
        BY <3>2, <4>2, <4>3, <4>4
    <3>4. \A k \in 1 .. Len(processed') : processed'[k] = k - 1
      <4>1. \A k \in 1 .. Len(processed) : processed[k] = k - 1
        OBVIOUS
      <4> HIDE DEF IInv
      <4> QED
        BY <3>1, <4>1
    <3>5. Len(processed') + Len(out') = emitted'
      <4>1. Len(processed) \in Nat /\ Len(out) \in Nat
        BY <3>1
      <4> HIDE DEF IInv
      <4> QED
        BY <3>1, <3>2, <4>1
    <3> QED
      BY <3>3, <3>4, <3>5
  <2> QED
    BY <2>1, <2>2, <2>3, <2>4, <2>5
<1>14. CASE SendFails
  <2>1. TypeOK'
    BY <1>14 DEF SendFails
  <2>2. Counters' /\ PoolBound' /\ Received'
    BY <1>14 DEF SendFails
  <2>3. Partition'
    BY <1>14 DEF SendFails
  <2>4. Hand' /\ Results' /\ Returned'
    BY <1>14 DEF SendFails
  <2>5. ArrivalOrder'
    BY <1>14 DEF SendFails
  <2> QED
    BY <2>1, <2>2, <2>3, <2>4, <2>5
<1>15. CASE Return
  <2>1. TypeOK'
    BY <1>15 DEF Return
  <2>2. Counters' /\ PoolBound' /\ Received'
    BY <1>15 DEF Return
  <2>3. Partition'
    BY <1>15 DEF Return
  <2>4. Hand' /\ Results' /\ Returned'
    BY <1>15 DEF Return
  <2>5. ArrivalOrder'
    BY <1>15 DEF Return
  <2> QED
    BY <2>1, <2>2, <2>3, <2>4, <2>5
<1>16. CASE Abort
  <2>1. TypeOK'
    <3>1. out' = <<>> /\ <<>> \in Seq(Frame)
      BY <1>16 DEF Abort
    <3> HIDE DEF Frame
    <3>2. out' \in Seq(Frame)
      BY <3>1, Zenon
    <3> USE DEF Frame
    <3> QED
      BY <1>16, <3>2 DEF Abort
  <2>2. Counters' /\ PoolBound' /\ Received'
    BY <1>16 DEF Abort
  <2>3. Partition'
    BY <1>16 DEF Abort
  <2>4. Hand' /\ Results' /\ Returned'
    BY <1>16 DEF Abort
  <2>5. ArrivalOrder'
    BY <1>16 DEF Abort
  <2> QED
    BY <2>1, <2>2, <2>3, <2>4, <2>5
<1>17. CASE UNCHANGED vars
    BY <1>17 DEF vars
<1> QED
    BY <1>1, <1>2, <1>3, <1>4, <1>5, <1>6, <1>7, <1>8, <1>9,
       <1>10, <1>11, <1>12, <1>13, <1>14, <1>15, <1>16, <1>17
    DEF Next, Task, Loop

-----------------------------------------------------------------------------
(* The theorems.                                                             *)

\* The invariant holds in every reachable state of decode_blocks.
THEOREM Invariance == Spec => []IInv
BY InitIInv, Inductive, PTL DEF Spec

\* Every variable keeps its type.
THEOREM TypeCorrect == Spec => []TypeOK
<1>1. IInv => TypeOK
    BY DEF IInv
<1> QED
    BY <1>1, Invariance, PTL

\* A frame taken from the reader is in a job, in `ready` or in the loop's hand,
\* and in one of them only (indexer.rs:182-213).
THEOREM NothingLost == Spec => []Partition
<1>1. IInv => Partition
    BY DEF IInv
<1> QED
    BY <1>1, Invariance, PTL

\* The processor receives every frame once, in arrival order
\* (README.md:113-117).
THEOREM InOrder == Spec => []ArrivalOrder
<1>1. IInv => ArrivalOrder
    BY DEF IInv
<1> QED
    BY <1>1, Invariance, PTL

\* At most Workers frames are being decoded or held back, and at most OutCap
\* decoded blocks wait for the processor (indexer.rs:164, README.md:117-119).
THEOREM Bounded == Spec => []PoolBound
<1>1. IInv => PoolBound
    BY DEF IInv
<1> QED
    BY <1>1, Invariance, PTL

\* select! never finds both of its arms disabled (indexer.rs:190-212).
THEOREM NoSelectPanic == Spec => []SelectHasArm
<1>1. ASSUME IInv, AtSelect, jobs = {}
      PROVE  MayReceive
  <2>1. ready = emitted .. submitted - 1 /\ emitted \notin ready /\ ~closed
    BY <1>1 DEF IInv, Partition, InHand, AtSelect
  <2>2. emitted = submitted
    BY <1>1, <2>1, PoolAssumption DEF IInv, TypeOK, Counters
  <2>3. ready = {}
    BY <1>1, <2>1, <2>2, PoolAssumption DEF IInv, TypeOK
  <2>4. Cardinality({}) = 0
    BY FS_EmptySet
  <2>5. Cardinality(jobs) = 0 /\ Cardinality(ready) = 0
    BY <1>1, <2>3, <2>4, Zenon
  <2> QED
    BY <2>1, <2>5, PoolAssumption DEF MayReceive
<1>2. IInv => SelectHasArm
    BY <1>1 DEF SelectHasArm
<1> QED
    BY <1>2, Invariance, PTL

\* Neither a frame that does not decode nor anything after it reaches the
\* processor (README.md:119).
THEOREM ErrorsStop == Spec => []NothingPastMalformed
<1>1. ASSUME IInv, NEW i \in malformed, NEW k \in 1 .. Len(processed)
      PROVE  processed[k] < i
  <2>1. i \in Frame /\ i \in Nat
    BY <1>1, PoolAssumption DEF IInv, TypeOK, Frame
  <2>2. emitted <= i
    BY <1>1, <2>1, PoolAssumption DEF IInv, TypeOK, Results
  <2>3. /\ processed[k] = k - 1
        /\ Len(processed) \in Nat
        /\ Len(out) \in Nat
        /\ Len(processed) + Len(out) <= emitted
        /\ emitted \in Nat
    BY <1>1, PoolAssumption DEF IInv, TypeOK, ArrivalOrder, Received
  <2> QED
    BY <2>1, <2>2, <2>3
<1>2. IInv => NothingPastMalformed
    BY <1>1 DEF NothingPastMalformed
<1> QED
    BY <1>2, Invariance, PTL

\* The pool returns Ok only after it has sent every frame that arrived
\* (indexer.rs:188-190).
THEOREM CleanEndComplete == Spec => []CleanEnd
<1>1. ASSUME IInv, pc = "done"
      PROVE  emitted = arrived /\ ready = {} /\ inputClosed
  <2>1. ready = emitted .. submitted - 1 /\ emitted \notin ready
    BY <1>1 DEF IInv, Partition, InHand, Returned
  <2>2. emitted = submitted
    BY <1>1, <2>1, PoolAssumption DEF IInv, TypeOK, Counters
  <2> QED
    BY <1>1, <2>1, <2>2, PoolAssumption DEF IInv, TypeOK, Counters, Returned
<1>2. IInv => CleanEnd
    BY <1>1 DEF CleanEnd
<1> QED
    BY <1>2, Invariance, PTL

-----------------------------------------------------------------------------
(* Refinement: the pool implements FrameChannel.                             *)

\* The pool starts as an empty channel.
LEMMA InitChannel == Init => Channel!Init
BY DEF Init, Channel!Init

\* Submit takes a frame, Process delivers one, and no other step is visible.
LEMMA StepChannel == IInv /\ [Next]_vars => [Channel!Next]_(Channel!vars)
<1> SUFFICES ASSUME IInv, [Next]_vars
             PROVE  [Channel!Next]_(Channel!vars)
    OBVIOUS
<1>1. CASE Submit
  <2>1. submitted - emitted < Workers
    BY <1>1, RoomToReceive DEF IInv, Submit, AtSelect
  <2>2. /\ submitted < NumFrames
        /\ submitted \in Nat /\ emitted \in Nat
        /\ Len(processed) \in Nat
        /\ emitted - Len(processed) <= OutCap
        /\ submitted' = submitted + 1
        /\ processed' = processed
    BY <1>1, PoolAssumption DEF Submit, IInv, TypeOK, PoolBound
  <2>3. submitted - Len(processed) < Workers + OutCap
    BY <2>1, <2>2, PoolAssumption
  <2> QED
    BY <2>2, <2>3 DEF Channel!Next, Channel!Take
<1>2. CASE Process
  <2>1. /\ out \in Seq(Nat) /\ Len(out) >= 1
        /\ Len(processed) \in Nat
        /\ processed' = Append(processed, Head(out))
        /\ submitted' = submitted
    BY <1>2, PoolAssumption DEF Process, IInv, TypeOK, Frame
  <2>2. Head(out) = Len(processed)
    BY <2>1 DEF IInv, ArrivalOrder
  <2>3. Len(processed) < submitted
    BY <2>1, PoolAssumption DEF IInv, TypeOK, Counters, Received
  <2> QED
    BY <2>1, <2>2, <2>3 DEF Channel!Next, Channel!Deliver
<1>3. CASE UNCHANGED <<submitted, processed>>
    BY <1>3 DEF Channel!vars
<1> QED
    BY <1>1, <1>2, <1>3
    DEF Next, Task, Loop, Arrive, CloseInput, DropReceiver, Decode, Panic,
        SeeClosed, JoinNext, JoinPanicked, TakeReady, TakeError, Send, SendFails,
        Return, Abort, vars

\* The pool, with all its tasks and failures, implements an order-preserving
\* channel that holds at most Workers + OutCap frames.
THEOREM Implements == Spec => ImplementsChannel
BY InitChannel, StepChannel, Invariance, PTL
DEF Spec, ImplementsChannel, Channel!Spec
=============================================================================
