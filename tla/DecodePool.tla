------------------------------ MODULE DecodePool ------------------------------
(***************************************************************************)
(* The decoder pool, `decode_blocks` of indexer.rs: frames of the SHIP     *)
(* stream are decoded by up to Workers blocking tasks, and their results   *)
(* are handed to the processor in arrival order.                           *)
(*                                                                         *)
(* A frame is its ordinal in the stream; a microfork repeats block numbers *)
(* but never ordinals, so block numbers are left out.  Whether a frame     *)
(* decodes is a property of the frame: `malformed` is chosen by Init.      *)
(***************************************************************************)
EXTENDS Integers, Sequences, FiniteSets

CONSTANTS
    NumFrames,      \* frames the stream may deliver
    Workers,        \* indexer.decode_workers, when it is not 0
    InCap,          \* capacity of the reader's channel (max_messages_in_flight)
    OutCap          \* capacity of the processor's channel (2 in the code)

ASSUME PoolAssumption ==
    /\ NumFrames \in Nat
    /\ Workers \in Nat \ {0}
    /\ InCap \in Nat \ {0}
    /\ OutCap \in Nat \ {0}

Frame == 0 .. NumFrames - 1

VARIABLES
    malformed,      \* frames that do not decode
    arrived,        \* frames the reader has put on the input channel
    inputClosed,    \* the reader has dropped its sender
    submitted,      \* frames taken from the input channel
    emitted,        \* results put on the output channel: the ordinal awaited
    jobs,           \* ordinals in the JoinSet, running or finished
    result,         \* what each blocking task produced
    ready,          \* ordinals joined and waiting for an earlier one
    closed,         \* the loop has seen the input closed
    out,            \* the output channel
    outOpen,        \* the processor still holds its receiver
    processed,      \* what the processor has received, in order
    pc              \* where the loop is

vars == <<malformed, arrived, inputClosed, submitted, emitted, jobs, result,
          ready, closed, out, outOpen, processed, pc>>

TypeOK ==
    /\ malformed \in SUBSET Frame
    /\ arrived \in 0 .. NumFrames
    /\ inputClosed \in BOOLEAN
    /\ submitted \in 0 .. NumFrames
    /\ emitted \in 0 .. NumFrames
    /\ jobs \in SUBSET Frame
    /\ result \in [Frame -> {"none", "ok", "err", "panic"}]
    /\ ready \in SUBSET Frame
    /\ closed \in BOOLEAN
    /\ out \in Seq(Frame)
    /\ outOpen \in BOOLEAN
    /\ processed \in Seq(Frame)
    /\ pc \in {"loop", "send", "done", "failed"}

Init ==
    /\ malformed \in SUBSET Frame
    /\ arrived = 0
    /\ inputClosed = FALSE
    /\ submitted = 0
    /\ emitted = 0
    /\ jobs = {}
    /\ result = [i \in Frame |-> "none"]
    /\ ready = {}
    /\ closed = FALSE
    /\ out = <<>>
    /\ outOpen = TRUE
    /\ processed = <<>>
    /\ pc = "loop"

Running == pc \in {"loop", "send"}

-----------------------------------------------------------------------------
(* The stages at both ends.                                                  *)

Arrive ==
    /\ Running
    /\ ~inputClosed
    /\ arrived < NumFrames
    /\ arrived - submitted < InCap
    /\ arrived' = arrived + 1
    /\ UNCHANGED <<malformed, inputClosed, submitted, emitted, jobs, result,
                   ready, closed, out, outOpen, processed, pc>>

CloseInput ==
    /\ ~inputClosed
    /\ inputClosed' = TRUE
    /\ UNCHANGED <<malformed, arrived, submitted, emitted, jobs, result,
                   ready, closed, out, outOpen, processed, pc>>

\* BlockInput::recv of the processor; what is in the channel stays receivable
\* after the pool has ended.
Process ==
    /\ outOpen
    /\ out # <<>>
    /\ processed' = Append(processed, Head(out))
    /\ out' = Tail(out)
    /\ UNCHANGED <<malformed, arrived, inputClosed, submitted, emitted, jobs,
                   result, ready, closed, outOpen, pc>>

\* The processor ends on an error of its own and drops the receiver.
DropReceiver ==
    /\ outOpen
    /\ outOpen' = FALSE
    /\ out' = <<>>
    /\ UNCHANGED <<malformed, arrived, inputClosed, submitted, emitted, jobs,
                   result, ready, closed, processed, pc>>

-----------------------------------------------------------------------------
(* A blocking task.  spawn_blocking cannot be aborted: the task runs to its  *)
(* end even after the pool has left.                                         *)

Unfinished(i) == i < submitted /\ result[i] = "none"

Decode(i) ==
    /\ Unfinished(i)
    /\ result' = [result EXCEPT ![i] = IF i \in malformed THEN "err" ELSE "ok"]
    /\ UNCHANGED <<malformed, arrived, inputClosed, submitted, emitted, jobs,
                   ready, closed, out, outOpen, processed, pc>>

\* `decode` panics on this frame.
Panic(i) ==
    /\ Unfinished(i)
    /\ i \in malformed
    /\ result' = [result EXCEPT ![i] = "panic"]
    /\ UNCHANGED <<malformed, arrived, inputClosed, submitted, emitted, jobs,
                   ready, closed, out, outOpen, processed, pc>>

-----------------------------------------------------------------------------
(* The loop.                                                                 *)

\* Mutant: without the return when closed and idle.
AtSelectNoReturn == pc = "loop" /\ emitted \notin ready

AtSelect ==
    /\ pc = "loop"
    /\ emitted \notin ready
    /\ ~(closed /\ jobs = {})

\* Mutant: a result held back does not count.
MayReceiveJobsOnly == ~closed /\ Cardinality(jobs) < Workers

MayReceive == ~closed /\ Cardinality(jobs) + Cardinality(ready) < Workers

Submit ==
    /\ AtSelect
    /\ MayReceive
    /\ submitted < arrived
    /\ submitted' = submitted + 1
    /\ jobs' = jobs \cup {submitted}
    /\ UNCHANGED <<malformed, arrived, inputClosed, emitted, result, ready,
                   closed, out, outOpen, processed, pc>>

SeeClosed ==
    /\ AtSelect
    /\ MayReceive
    /\ inputClosed
    /\ submitted = arrived
    /\ closed' = TRUE
    /\ UNCHANGED <<malformed, arrived, inputClosed, submitted, emitted, jobs,
                   result, ready, out, outOpen, processed, pc>>

JoinNext(i) ==
    /\ AtSelect
    /\ i \in jobs
    /\ result[i] \in {"ok", "err"}
    /\ jobs' = jobs \ {i}
    /\ ready' = ready \cup {i}
    /\ UNCHANGED <<malformed, arrived, inputClosed, submitted, emitted, result,
                   closed, out, outOpen, processed, pc>>

\* A panic ends the pool at once, ahead of the frames before it.
JoinPanicked(i) ==
    /\ AtSelect
    /\ i \in jobs
    /\ result[i] = "panic"
    /\ pc' = "failed"
    /\ UNCHANGED <<malformed, arrived, inputClosed, submitted, emitted, jobs,
                   result, ready, closed, out, outOpen, processed>>

\* Mutant: an error is sent on like a block.
TakeReadyUnchecked ==
    /\ pc = "loop"
    /\ emitted \in ready
    /\ ready' = ready \ {emitted}
    /\ pc' = "send"
    /\ UNCHANGED <<malformed, arrived, inputClosed, submitted, emitted, jobs,
                   result, closed, out, outOpen, processed>>

\* ready.remove(&emitted) yields a decoded block: send it.
TakeReady ==
    /\ pc = "loop"
    /\ emitted \in ready
    /\ result[emitted] = "ok"
    /\ ready' = ready \ {emitted}
    /\ pc' = "send"
    /\ UNCHANGED <<malformed, arrived, inputClosed, submitted, emitted, jobs,
                   result, closed, out, outOpen, processed>>

\* Mutant: a malformed frame is skipped.
TakeErrorSkips ==
    /\ pc = "loop"
    /\ emitted \in ready
    /\ result[emitted] = "err"
    /\ ready' = ready \ {emitted}
    /\ emitted' = emitted + 1
    /\ UNCHANGED <<malformed, arrived, inputClosed, submitted, jobs,
                   result, closed, out, outOpen, processed, pc>>

\* ... or an error, which `decoded?` returns.
TakeError ==
    /\ pc = "loop"
    /\ emitted \in ready
    /\ result[emitted] = "err"
    /\ ready' = ready \ {emitted}
    /\ pc' = "failed"
    /\ UNCHANGED <<malformed, arrived, inputClosed, submitted, emitted, jobs,
                   result, closed, out, outOpen, processed>>

Send ==
    /\ pc = "send"
    /\ outOpen
    /\ Len(out) < OutCap
    /\ out' = Append(out, emitted)
    /\ emitted' = emitted + 1
    /\ pc' = "loop"
    /\ UNCHANGED <<malformed, arrived, inputClosed, submitted, jobs, result,
                   ready, closed, outOpen, processed>>

SendFails ==
    /\ pc = "send"
    /\ ~outOpen
    /\ pc' = "failed"
    /\ UNCHANGED <<malformed, arrived, inputClosed, submitted, emitted, jobs,
                   result, ready, closed, out, outOpen, processed>>

\* Mutant: the jobs still running are not waited for.
ReturnEarly ==
    /\ pc = "loop"
    /\ emitted \notin ready
    /\ closed
    /\ pc' = "done"
    /\ UNCHANGED <<malformed, arrived, inputClosed, submitted, emitted, jobs,
                   result, ready, closed, out, outOpen, processed>>

Return ==
    /\ pc = "loop"
    /\ emitted \notin ready
    /\ closed
    /\ jobs = {}
    /\ pc' = "done"
    /\ UNCHANGED <<malformed, arrived, inputClosed, submitted, emitted, jobs,
                   result, ready, closed, out, outOpen, processed>>

\* Another stage failed or the process stopped: `run` drops the pool and the
\* processor.
Abort ==
    /\ Running
    /\ pc' = "failed"
    /\ outOpen' = FALSE
    /\ out' = <<>>
    /\ UNCHANGED <<malformed, arrived, inputClosed, submitted, emitted, jobs,
                   result, ready, closed, processed>>

Loop ==
    \/ Submit
    \/ SeeClosed
    \/ \E i \in Frame : JoinNext(i) \/ JoinPanicked(i)
    \/ TakeReady
    \/ TakeError
    \/ Send
    \/ SendFails
    \/ Return

Task(i) == Decode(i) \/ Panic(i)

Next ==
    \/ Arrive
    \/ CloseInput
    \/ Process
    \/ DropReceiver
    \/ \E i \in Frame : Task(i)
    \/ Loop
    \/ Abort

Spec == Init /\ [][Next]_vars

\* tokio polls the loop and the processor whenever they can go on, and
\* decoding a frame takes a finite time.  Nothing is assumed of the reader.
Fairness ==
    /\ WF_vars(Loop)
    /\ WF_vars(Process)
    /\ \A i \in Frame : WF_vars(Task(i))

FairSpec == Spec /\ Fairness

-----------------------------------------------------------------------------
(* Safety.                                                                   *)

\* Frames taken from the reader and not yet sent are in a job, waiting in
\* `ready`, or in the loop's hand: each in exactly one place.
InHand == IF pc = "send" THEN {emitted} ELSE {}

Partition ==
    /\ jobs \cap ready = {}
    /\ (jobs \cup ready) \cap InHand = {}
    /\ pc # "failed" => jobs \cup ready \cup InHand = emitted .. submitted - 1

\* README.md:113-117: the processor sees the frames in SHIP arrival order,
\* none missing and none twice, however the workers finish.
ArrivalOrder ==
    /\ \A k \in 1 .. Len(processed) : processed[k] = k - 1
    /\ \A k \in 1 .. Len(out) : out[k] = Len(processed) + k - 1
    /\ outOpen => Len(processed) + Len(out) = emitted

\* indexer.rs:164: "Bound running jobs AND completed results waiting for an
\* earlier block"; README.md:117-119: "another two decoded blocks can wait
\* for the processor".
PoolBound ==
    /\ submitted - emitted <= Workers
    /\ emitted - Len(processed) <= OutCap

\* select! panics when both its arms are disabled.
SelectHasArm == AtSelect => MayReceive \/ jobs # {}

\* A frame that does not decode, and everything after it, never reaches the
\* processor, even when later frames were decoded first.
NothingPastMalformed ==
    \A i \in malformed, k \in 1 .. Len(processed) : processed[k] < i

\* The pool returns Ok only when every frame that arrived was sent.
CleanEnd == pc = "done" => emitted = arrived /\ ready = {} /\ inputClosed

(* Liveness.                                                                 *)

\* Without a malformed frame, a receiver that stays and an input that closes,
\* everything that arrived is processed.
AllProcessed ==
    (inputClosed /\ malformed = {}) ~> (Len(processed) = arrived \/ ~outOpen)

\* A malformed frame that was submitted ends the pool, whatever the input does.
ErrorSurfaces ==
    \A i \in Frame : (i \in malformed /\ i < submitted) ~> pc = "failed"

-----------------------------------------------------------------------------
(* Refinement: seen from its ends the pool is a channel that holds at most   *)
(* Workers + OutCap frames.                                                  *)

Channel == INSTANCE FrameChannel WITH
    Cap <- Workers + OutCap,
    taken <- submitted,
    delivered <- processed

\* indexer.rs:4 and 164-165: the stages see an order-preserving bounded channel.
ImplementsChannel == Channel!Spec
=============================================================================
