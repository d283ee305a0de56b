------------------------------- MODULE Pipeline -------------------------------
(***************************************************************************)
(* One run of the indexer, `run` of indexer.rs, from the SHIP socket to    *)
(* the confirmed batches: the reader and its credit, the bounded channels, *)
(* the decoder pool (as the order-preserving channel that DecodePool       *)
(* implements), the processor, the writer (as the in-order confirmations   *)
(* that BulkWriter implements), and the JoinSet that ends them together.   *)
(*                                                                         *)
(* A frame is [num, pos]: the block number, which a microfork repeats, and *)
(* the position in the stream.  SHIP sends Start .. Stop; Stop > 0.  A run *)
(* that resumes above a checkpoint at Stop asks for no block.              *)
(***************************************************************************)
EXTENDS Integers, Sequences, FiniteSets, SequencesExt

CONSTANTS
    Start,          \* start_block_num of the request
    Stop,           \* indexer.stop_block
    MaxReplays,     \* bound: microforks during the run
    MaxInFlight,    \* indexer.max_messages_in_flight
    PoolCap,        \* frames inside the decoder pool and its output channel
    BatchSize,      \* indexer.batch_size, in blocks here
    QueueCap,       \* capacity of the batch channel (2 in the code)
    Concurrency     \* indexer.writer_concurrency

ASSUME PipelineAssumption ==
    /\ Start \in Nat \ {0}
    /\ Stop \in Nat \ {0}
    /\ Start <= Stop + 1
    /\ MaxReplays \in Nat
    /\ MaxInFlight \in Nat \ {0}
    /\ PoolCap \in Nat \ {0}
    /\ BatchSize \in Nat \ {0}
    /\ QueueCap \in Nat \ {0}
    /\ Concurrency \in Nat \ {0}

Stage == {"reader", "pool", "processor", "writer"}

VARIABLES
    \* the SHIP server and the socket
    next,       \* block number the server sends next
    sent,       \* every frame the server sent, in order
    replays,    \* microforks so far
    credit,     \* messages the server may still send
    acks,       \* credit on its way to the server
    wire,       \* frames on their way to the reader
    socket,     \* "open", "closed" by the server, or "broken"
    \* the run
    stage,      \* each stage: "run", "ok", "err" or "aborted"
    joined,     \* stages the JoinSet has handed back
    outcome,    \* what `run` returned: "none", "ok" or "err"
    hand,       \* the frame the reader is about to push, as a sequence
    mustAck,    \* the reader has pushed a frame and not yet acknowledged it
    chan,       \* the raw-block channel
    pool,       \* the decoder pool and its output channel
    batch,      \* frames in the processor's batch
    queue,      \* the batch channel
    writing,    \* batches submitted and not confirmed, oldest first
    confirmed   \* frames of confirmed batches

ship == <<next, sent, replays, credit, acks, wire, socket>>
reading == <<hand, mustAck>>
vars == <<ship, stage, joined, outcome, reading, chan, pool, batch, queue,
          writing, confirmed>>

Frames == [num : Start .. Stop, pos : Nat]

Init ==
    /\ next = Start
    /\ sent = <<>>
    /\ replays = 0
    /\ credit = MaxInFlight
    /\ acks = 0
    /\ wire = <<>>
    /\ socket = "open"
    /\ stage = [s \in Stage |-> "run"]
    /\ joined = {}
    /\ outcome = "none"
    /\ hand = <<>>
    /\ mustAck = FALSE
    /\ chan = <<>>
    /\ pool = <<>>
    /\ batch = <<>>
    /\ queue = <<>>
    /\ writing = <<>>
    /\ confirmed = <<>>

-----------------------------------------------------------------------------
(* The server: what max_messages_in_flight and end_block_num of the request  *)
(* mean to it.                                                               *)

\* The socket belongs to the reader, and goes down with it.
Connected == socket = "open" /\ stage["reader"] = "run"

ServerSends ==
    /\ Connected
    /\ credit > 0
    /\ next <= Stop
    /\ LET frame == [num |-> next, pos |-> Len(sent) + 1] IN
        /\ sent' = Append(sent, frame)
        /\ wire' = Append(wire, frame)
    /\ credit' = credit - 1
    /\ next' = next + 1
    /\ UNCHANGED <<replays, acks, socket, stage, joined, outcome, reading, chan,
                   pool, batch, queue, writing, confirmed>>

ServerForks ==
    /\ Connected
    /\ replays < MaxReplays
    /\ next' \in Start .. next - 1
    /\ replays' = replays + 1
    /\ UNCHANGED <<sent, credit, acks, wire, socket, stage, joined, outcome,
                   reading, chan, pool, batch, queue, writing, confirmed>>

ServerGetsAck ==
    /\ acks > 0
    /\ acks' = acks - 1
    /\ credit' = credit + 1
    /\ UNCHANGED <<next, sent, replays, wire, socket, stage, joined, outcome,
                   reading, chan, pool, batch, queue, writing, confirmed>>

\* A close handshake, after which the frames already sent still arrive.
ServerCloses ==
    /\ Connected
    /\ socket' = "closed"
    /\ UNCHANGED <<next, sent, replays, credit, acks, wire, stage, joined, outcome,
                   reading, chan, pool, batch, queue, writing, confirmed>>

SocketBreaks ==
    /\ Connected
    /\ socket' = "broken"
    /\ wire' = <<>>
    /\ UNCHANGED <<next, sent, replays, credit, acks, stage, joined, outcome,
                   reading, chan, pool, batch, queue, writing, confirmed>>

-----------------------------------------------------------------------------
(* The reader task.                                                          *)

Ends(s, how) == stage' = [stage EXCEPT ![s] = how]

AtRecv == stage["reader"] = "run" /\ hand = <<>> /\ ~mustAck

\* `done`: this is the last block wanted.
IsLast(frame) == frame.num >= Stop

ReaderReceives ==
    /\ AtRecv
    /\ wire # <<>>
    /\ hand' = <<Head(wire)>>
    /\ wire' = Tail(wire)
    /\ UNCHANGED <<next, sent, replays, credit, acks, socket, stage, joined,
                   outcome, mustAck, chan, pool, batch, queue, writing, confirmed>>

\* Mutant: every end of the stream is a clean one.
ReaderSeesCleanEnd ==
    /\ AtRecv
    /\ wire = <<>>
    /\ socket # "open"
    /\ Ends("reader", "ok")
    /\ UNCHANGED <<ship, joined, outcome, reading, chan, pool, batch, queue,
                   writing, confirmed>>

\* ShipError::Closed ends the reader with Ok, any other error with Err.
ReaderSeesEnd ==
    /\ AtRecv
    /\ wire = <<>>
    /\ socket # "open"
    /\ Ends("reader", IF socket = "closed" THEN "ok" ELSE "err")
    /\ UNCHANGED <<ship, joined, outcome, reading, chan, pool, batch, queue,
                   writing, confirmed>>

\* Mutant: an unbounded channel.
ReaderPushesUnbounded ==
    /\ stage["reader"] = "run"
    /\ hand # <<>>
    /\ stage["pool"] = "run"
    /\ chan' = Append(chan, Head(hand))
    /\ hand' = <<>>
    /\ IF IsLast(Head(hand))
         THEN Ends("reader", "ok") /\ UNCHANGED mustAck
         ELSE mustAck' = TRUE /\ UNCHANGED stage
    /\ UNCHANGED <<ship, joined, outcome, pool, batch, queue, writing, confirmed>>

\* tx.send(block): waits for room, then stops after the last block.
ReaderPushes ==
    /\ stage["reader"] = "run"
    /\ hand # <<>>
    /\ stage["pool"] = "run"
    /\ Len(chan) < MaxInFlight
    /\ chan' = Append(chan, Head(hand))
    /\ hand' = <<>>
    /\ IF IsLast(Head(hand))
         THEN Ends("reader", "ok") /\ UNCHANGED mustAck
         ELSE mustAck' = TRUE /\ UNCHANGED stage
    /\ UNCHANGED <<ship, joined, outcome, pool, batch, queue, writing, confirmed>>

\* The receiver is gone: the reader ends with Ok, and loses the frame.
ReaderFindsClosed ==
    /\ stage["reader"] = "run"
    /\ hand # <<>>
    /\ stage["pool"] # "run"
    /\ Ends("reader", "ok")
    /\ UNCHANGED <<ship, joined, outcome, reading, chan, pool, batch, queue,
                   writing, confirmed>>

\* Mutant: the credit of two messages is given back.
ReaderAcksTwice ==
    /\ stage["reader"] = "run"
    /\ mustAck
    /\ acks' = acks + 2
    /\ mustAck' = FALSE
    /\ UNCHANGED <<next, sent, replays, credit, wire, socket, stage, joined,
                   outcome, hand, chan, pool, batch, queue, writing, confirmed>>

\* Mutant: the credit is not given back.
ReaderForgetsAck ==
    /\ stage["reader"] = "run"
    /\ mustAck
    /\ mustAck' = FALSE
    /\ UNCHANGED <<ship, stage, joined, outcome, hand, chan, pool, batch, queue,
                   writing, confirmed>>

\* A write on a socket that is already down fails.
ReaderAcks ==
    /\ stage["reader"] = "run"
    /\ mustAck
    /\ \/ /\ acks' = acks + 1
          /\ mustAck' = FALSE
          /\ UNCHANGED stage
       \/ /\ socket # "open"
          /\ Ends("reader", "err")
          /\ UNCHANGED <<acks, mustAck>>
    /\ UNCHANGED <<next, sent, replays, credit, wire, socket, joined, outcome,
                   hand, chan, pool, batch, queue, writing, confirmed>>

\* A reader that is cancelled takes the socket with it.
ReaderDropped ==
    /\ stage["reader"] = "run"
    /\ Ends("reader", "aborted")
    /\ hand' = <<>>
    /\ mustAck' = FALSE
    /\ socket' = "broken"
    /\ wire' = <<>>
    /\ UNCHANGED <<next, sent, replays, credit, acks, joined, outcome, chan, pool,
                   batch, queue, writing, confirmed>>

-----------------------------------------------------------------------------
(* The decoder pool, by what DecodePool promises of it.                      *)

PoolTakes ==
    /\ stage["pool"] = "run"
    /\ chan # <<>>
    /\ Len(pool) < PoolCap
    /\ pool' = Append(pool, Head(chan))
    /\ chan' = Tail(chan)
    /\ UNCHANGED <<ship, stage, joined, outcome, reading, batch, queue, writing,
                   confirmed>>

\* The sender is dropped and the channel is drained.
PoolEnds ==
    /\ stage["pool"] = "run"
    /\ chan = <<>>
    /\ stage["reader"] # "run"
    /\ stage["processor"] = "run" \/ pool = <<>>
    /\ Ends("pool", "ok")
    /\ UNCHANGED <<ship, joined, outcome, reading, chan, pool, batch, queue,
                   writing, confirmed>>

\* A pool that stops short loses the frames it has not handed on.
PoolStops(how) ==
    /\ stage["pool"] = "run"
    /\ Ends("pool", how)
    /\ chan' = <<>>
    /\ \E n \in 0 .. Len(pool) : pool' = SubSeq(pool, 1, n)
    /\ UNCHANGED <<ship, joined, outcome, reading, batch, queue, writing, confirmed>>

\* Mutant: a malformed frame is passed over.
PoolSkipsBad ==
    /\ stage["pool"] = "run"
    /\ chan # <<>>
    /\ chan' = Tail(chan)
    /\ UNCHANGED <<ship, stage, joined, outcome, reading, pool, batch, queue,
                   writing, confirmed>>

\* A malformed frame, a panic, or a processor that is gone.
PoolFails == (chan # <<>> \/ pool # <<>>) /\ PoolStops("err")

-----------------------------------------------------------------------------
(* The processor task.                                                       *)

InputOver == pool = <<>> /\ stage["pool"] # "run"

ProcessorTakes ==
    /\ stage["processor"] = "run"
    /\ pool # <<>>
    /\ Len(batch) < BatchSize
    /\ batch' = Append(batch, Head(pool))
    /\ pool' = Tail(pool)
    /\ UNCHANGED <<ship, stage, joined, outcome, reading, chan, queue, writing,
                   confirmed>>

\* The batch is full, the flush interval has passed, or the input is over.
ProcessorFlushes ==
    /\ stage["processor"] = "run"
    /\ batch # <<>>
    /\ stage["writer"] = "run"
    /\ Len(queue) < QueueCap
    /\ queue' = Append(queue, batch)
    /\ batch' = <<>>
    /\ UNCHANGED <<ship, stage, joined, outcome, reading, chan, pool, writing,
                   confirmed>>

ProcessorEnds ==
    /\ stage["processor"] = "run"
    /\ InputOver
    /\ batch = <<>>
    /\ Ends("processor", "ok")
    /\ UNCHANGED <<ship, joined, outcome, reading, chan, pool, batch, queue,
                   writing, confirmed>>

\* A processor that stops short drops its batch and the frames in its input
\* channel, and not those still with the decoders.
ProcessorStops(how) ==
    /\ stage["processor"] = "run"
    /\ Ends("processor", how)
    /\ \E n \in 1 .. Len(pool) + 1 : pool' = SubSeq(pool, n, Len(pool))
    /\ batch' = <<>>
    /\ UNCHANGED <<ship, joined, outcome, reading, chan, queue, writing, confirmed>>

\* The writer is gone and tx.send fails, or a block cannot be processed (the
\* decoding itself, when decode_workers is 0).
ProcessorFails ==
    /\ (batch # <<>> /\ stage["writer"] # "run") \/ pool # <<>>
    /\ ProcessorStops("err")

-----------------------------------------------------------------------------
(* The writer task, by what BulkWriter promises of it.                       *)

WriterTakes ==
    /\ stage["writer"] = "run"
    /\ queue # <<>>
    /\ Len(writing) < Concurrency
    /\ writing' = Append(writing, Head(queue))
    /\ queue' = Tail(queue)
    /\ UNCHANGED <<ship, stage, joined, outcome, reading, chan, pool, batch,
                   confirmed>>

WriterConfirms ==
    /\ stage["writer"] = "run"
    /\ writing # <<>>
    /\ confirmed' = confirmed \o Head(writing)
    /\ writing' = Tail(writing)
    /\ UNCHANGED <<ship, stage, joined, outcome, reading, chan, pool, batch, queue>>

WriterStops(how) ==
    /\ stage["writer"] = "run"
    /\ Ends("writer", how)
    /\ queue' = <<>>
    /\ UNCHANGED <<ship, joined, outcome, reading, chan, pool, batch, writing,
                   confirmed>>

WriterFails == writing # <<>> /\ WriterStops("err")

WriterEnds ==
    /\ stage["writer"] = "run"
    /\ queue = <<>>
    /\ writing = <<>>
    /\ stage["processor"] # "run"
    /\ Ends("writer", "ok")
    /\ UNCHANGED <<ship, joined, outcome, reading, chan, pool, batch, queue,
                   writing, confirmed>>

-----------------------------------------------------------------------------
(* `run`: stages.join_next() until one fails or all are back.                *)

JoinOk(s) ==
    /\ outcome = "none"
    /\ stage[s] = "ok"
    /\ s \notin joined
    /\ joined' = joined \cup {s}
    /\ outcome' = IF joined' = Stage THEN "ok" ELSE "none"
    /\ UNCHANGED <<ship, stage, reading, chan, pool, batch, queue, writing, confirmed>>

\* Mutant: the other tasks are waited for.
JoinErrLast(s) ==
    /\ joined = Stage \ {s}
    /\ stage[s] = "err"
    /\ outcome = "none"
    /\ joined' = Stage
    /\ outcome' = "err"
    /\ UNCHANGED <<ship, stage, reading, chan, pool, batch, queue, writing, confirmed>>

\* result?? returns the error and drops the JoinSet.
JoinErr(s) ==
    /\ outcome = "none"
    /\ stage[s] = "err"
    /\ joined' = joined \cup {s}
    /\ outcome' = "err"
    /\ UNCHANGED <<ship, stage, reading, chan, pool, batch, queue, writing, confirmed>>

\* Which only asks the other tasks to stop: each goes on, or even ends, until
\* the runtime finds it waiting and drops it.
Cancelled ==
    /\ outcome = "err"
    /\ \/ ReaderDropped
       \/ PoolStops("aborted")
       \/ ProcessorStops("aborted")
       \/ WriterStops("aborted")

Server ==
    \/ ServerSends
    \/ ServerForks
    \/ ServerGetsAck
    \/ ServerCloses
    \/ SocketBreaks

Reader ==
    \/ ReaderReceives
    \/ ReaderSeesEnd
    \/ ReaderPushes
    \/ ReaderFindsClosed
    \/ ReaderAcks

Pool == PoolTakes \/ PoolEnds \/ PoolFails

Processor ==
    \/ ProcessorTakes
    \/ ProcessorFlushes
    \/ ProcessorEnds
    \/ ProcessorFails

Writer == WriterTakes \/ WriterConfirms \/ WriterFails \/ WriterEnds

Join == \E s \in Stage : JoinOk(s) \/ JoinErr(s)

Next == Server \/ Reader \/ Pool \/ Processor \/ Writer \/ Join \/ Cancelled

Spec == Init /\ [][Next]_vars

\* The server uses its credit and the socket delivers; tokio polls every task
\* that can go on; bulk requests end.
Fairness ==
    /\ WF_vars(ServerSends) /\ WF_vars(ServerGetsAck)
    /\ WF_vars(Reader)
    /\ WF_vars(PoolTakes) /\ WF_vars(PoolEnds)
    /\ WF_vars(Processor)
    /\ WF_vars(Writer)
    /\ WF_vars(Join)

FairSpec == Spec /\ Fairness

-----------------------------------------------------------------------------
(* Safety.                                                                   *)

Count(b) == IF b THEN 1 ELSE 0

\* indexer.rs:83-85: credit is never lost and never granted twice: what the
\* server may send, what it has sent and what is on its way back add up to
\* max_messages_in_flight while the reader runs on an open socket.
CreditConserved ==
    stage["reader"] = "run" /\ socket # "broken" =>
        credit + acks + Len(wire) + Len(hand) + Count(mustAck) = MaxInFlight

\* README.md:32-33: end-to-end backpressure.  When Elasticsearch stalls, SHIP
\* gets ahead of the confirmed blocks by no more than the stages can hold,
\* however long the chain is.
Backpressure ==
    (\A s \in Stage : stage[s] # "err") =>
        Len(sent) - Len(confirmed) <=
            2 * MaxInFlight + PoolCap + BatchSize * (1 + QueueCap + Concurrency)

\* `run` returns Ok only when every frame that SHIP sent up to the last one
\* wanted is confirmed, none missing in between: a stage that ends quietly never
\* hides a loss.  And nothing after the first frame at or above stop_block is
\* ever indexed, even when a microfork has more frames on the wire.
OkIsComplete ==
    /\ outcome = "ok" =>
        /\ IsPrefix(confirmed, sent)
        /\ \/ confirmed # <<>> /\ IsLast(Last(confirmed))
           \/ socket = "closed" /\ confirmed = sent
    /\ \A k \in 1 .. Len(confirmed) - 1 : ~IsLast(confirmed[k])

\* Whatever fails, and however the stages that go on around a failed or a
\* cancelled one empty their channels (indexer.rs:99, 120-147), no frame is
\* confirmed past one that was dropped, and none twice: the checkpoint stands
\* for everything SHIP sent before it.
NothingSkipped == IsPrefix(confirmed, sent)

(* Liveness.                                                                 *)

\* With a stop_block the run ends: no stage waits forever for another, on
\* credit, on room in a channel, or on a sender that is never dropped.
Ended == <>(outcome # "none")

\* One failed stage ends the whole run, however the others are blocked.
FailureSpreads ==
    \A s \in Stage : (stage[s] = "err") ~> (outcome = "err")
=============================================================================
