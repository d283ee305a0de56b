---------------------------- MODULE PipelineProofs ----------------------------
(***************************************************************************)
(* Proofs about Pipeline for every block range, every number of microforks *)
(* and every capacity of the stages.                                       *)
(*                                                                         *)
(* Frames are told apart by their position in the stream.  The invariant   *)
(* says where each of them is: as long as nothing downstream has failed or *)
(* been cancelled, the stages hold consecutive pieces of `sent`, the       *)
(* oldest confirmed and the youngest on the wire.  A stage that stops      *)
(* short drops frames, and what the stages after it still hold remains a   *)
(* piece of `sent`.                                                        *)
(***************************************************************************)
EXTENDS Pipeline, SequenceTheorems, TLAPS

\* The batches between the processor and their confirmation, oldest first.
Flight == writing \o queue

Batches == Seq(Frames) \ {<<>>}

TypeOK ==
    /\ next \in Start .. Stop + 1
    /\ sent \in Seq(Frames)
    /\ replays \in 0 .. MaxReplays
    /\ credit \in Nat
    /\ acks \in Nat
    /\ wire \in Seq(Frames)
    /\ socket \in {"open", "closed", "broken"}
    /\ stage \in [Stage -> {"run", "ok", "err", "aborted"}]
    /\ joined \in SUBSET Stage
    /\ outcome \in {"none", "ok", "err"}
    /\ hand \in Seq(Frames)
    /\ mustAck \in BOOLEAN
    /\ chan \in Seq(Frames)
    /\ pool \in Seq(Frames)
    /\ batch \in Seq(Frames)
    /\ queue \in Seq(Batches)
    /\ writing \in Seq(Batches)
    /\ confirmed \in Seq(Frames)

\* No stage holds more than its channel or its buffer has room for.
Capacities ==
    /\ Len(hand) <= 1
    /\ mustAck => hand = <<>>
    /\ Len(chan) <= MaxInFlight
    /\ Len(pool) <= PoolCap
    /\ Len(batch) <= BatchSize
    /\ Len(queue) <= QueueCap
    /\ Len(writing) <= Concurrency

\* What the end of a stage says of the others and of the JoinSet.
Stages ==
    /\ stage["pool"] = "ok" => stage["reader"] # "run" /\ chan = <<>>
    /\ stage["pool"] \in {"err", "aborted"} => chan = <<>>
    /\ stage["processor"] = "ok" => stage["pool"] # "run" /\ pool = <<>> /\ batch = <<>>
    /\ stage["writer"] = "ok" => stage["processor"] # "run" /\ queue = <<>> /\ writing = <<>>
    /\ outcome # "err" => \A s \in joined : stage[s] = "ok"
    /\ outcome # "err" => \A s \in Stage : stage[s] # "aborted"
    /\ outcome = "ok" => joined = Stage
    /\ outcome = "err" => \E s \in Stage : stage[s] = "err"

-----------------------------------------------------------------------------
(* Where the frames are.                                                     *)

\* A frame of the stream s, with no frame before it at or above stop_block.
Wanted(s, f) ==
    /\ f.pos \in 1 .. Len(s)
    /\ f = s[f.pos]
    /\ \A j \in 1 .. f.pos - 1 : ~IsLast(s[j])

AllWanted(s, X) == \A k \in 1 .. Len(X) : Wanted(s, X[k])

\* The frames of X are those at positions b + 1, b + 2 and so on.
Follows(X, b) == \A k \in 1 .. Len(X) : X[k].pos = b + k

\* With c confirmed, the frames up to the i-th of the batches F.
EndOf(c, F, i) == IF i = 0 THEN Len(c) ELSE F[i][Len(F[i])].pos

Stream ==
    /\ \A k \in 1 .. Len(sent) : sent[k].pos = k
    /\ Len(wire) <= Len(sent)
    /\ \A k \in 1 .. Len(wire) : wire[k] = sent[Len(sent) - Len(wire) + k]
    /\ socket = "broken" => wire = <<>>

Genuine ==
    /\ AllWanted(sent, hand)
    /\ AllWanted(sent, chan)
    /\ AllWanted(sent, pool)
    /\ AllWanted(sent, batch)
    /\ \A i \in 1 .. Len(Flight) : AllWanted(sent, Flight[i])
    /\ AllWanted(sent, confirmed)

InFlight ==
    /\ Follows(confirmed, 0)
    /\ \A i \in 1 .. Len(Flight) : Follows(Flight[i], EndOf(confirmed, Flight, i - 1))

Flushed == EndOf(confirmed, Flight, Len(Flight))
Processed == Flushed + Len(batch)
Decoded == Processed + Len(pool)
Pushed == Decoded + Len(chan)
Received == Pushed + Len(hand)

\* A stage that has neither failed nor been cancelled.
Sound(s) == stage[s] \in {"run", "ok"}

WriterUp == Sound("writer")
ProcessorUp == WriterUp /\ Sound("processor")
PoolUp == ProcessorUp /\ Sound("pool")

\* As long as nothing downstream has stopped short, the stages hold consecutive
\* pieces of the stream.
Consecutive ==
    /\ WriterUp => Follows(batch, Flushed)
    /\ ProcessorUp => Follows(pool, Processed) /\ Follows(chan, Decoded)
    /\ PoolUp => Follows(hand, Pushed)
    /\ PoolUp /\ socket # "broken" => Received + Len(wire) = Len(sent)

\* The reader has not yet passed a frame at or above stop_block, or it has
\* stopped for a reason.
ReaderAt ==
    /\ stage["reader"] = "run" /\ socket # "broken" =>
        IF hand = <<>>
          THEN \A j \in 1 .. Len(sent) - Len(wire) : ~IsLast(sent[j])
          ELSE hand[1].pos = Len(sent) - Len(wire)
    /\ stage["reader"] = "ok" /\ PoolUp =>
        /\ hand = <<>>
        /\ \/ Received \in 1 .. Len(sent) /\ IsLast(sent[Received])
           \/ socket = "closed" /\ wire = <<>>

\* A batch holds at most BatchSize blocks, and so do any of them together.
Spread ==
    \A i \in 0 .. Len(Flight) : \A j \in i .. Len(Flight) :
        EndOf(confirmed, Flight, j) <= EndOf(confirmed, Flight, i) + BatchSize * (j - i)

\* What the server sent beyond the frames received is covered by the credit,
\* also after the reader has stopped and after the socket has broken.
CreditCovers ==
    PoolUp => Len(sent) - Received + Len(hand) + Count(mustAck) + credit + acks
                <= MaxInFlight

IInv ==
    /\ TypeOK
    /\ Capacities
    /\ Stages
    /\ CreditConserved
    /\ Stream
    /\ Genuine
    /\ InFlight
    /\ Consecutive
    /\ ReaderAt
    /\ Spread
    /\ CreditCovers

-----------------------------------------------------------------------------
(* The steps, those that cancel a stage with those in which it fails.        *)

PoolLost == \E how \in {"err", "aborted"} :
                PoolStops(how) /\ (how = "aborted" => outcome = "err")

ProcessorLost == \E how \in {"err", "aborted"} :
                    ProcessorStops(how) /\ (how = "aborted" => outcome = "err")

WriterLost == \E how \in {"err", "aborted"} :
                WriterStops(how) /\ (how = "aborted" => outcome = "err")

LEMMA Actions ==
    ASSUME [Next]_vars
    PROVE  \/ ServerSends \/ ServerForks \/ ServerGetsAck \/ ServerCloses
           \/ SocketBreaks \/ ReaderReceives \/ ReaderSeesEnd \/ ReaderPushes
           \/ ReaderFindsClosed \/ ReaderAcks \/ PoolTakes \/ PoolEnds \/ PoolLost
           \/ ProcessorTakes \/ ProcessorFlushes \/ ProcessorEnds \/ ProcessorLost
           \/ WriterTakes \/ WriterConfirms \/ WriterLost \/ WriterEnds
           \/ Join \/ UNCHANGED vars
           \/ ReaderDropped /\ outcome = "err"
<1>1. \A how \in {"err", "aborted"} : (how = "aborted" => outcome = "err") =>
            /\ PoolStops(how) => PoolLost
            /\ ProcessorStops(how) => ProcessorLost
            /\ WriterStops(how) => WriterLost
    BY Zenon DEF PoolLost, ProcessorLost, WriterLost
<1>2. "err" # "aborted"
    OBVIOUS
<1>3. /\ PoolFails => PoolLost
      /\ ProcessorFails => ProcessorLost
      /\ WriterFails => WriterLost
    BY <1>1, <1>2, Zenon DEF PoolFails, ProcessorFails, WriterFails
<1>4. Cancelled => \/ ReaderDropped /\ outcome = "err"
                   \/ PoolLost \/ ProcessorLost \/ WriterLost
    BY <1>1, Zenon DEF Cancelled
<1> QED
    BY <1>3, <1>4, Zenon DEF Next, Server, Reader, Pool, Processor, Writer

-----------------------------------------------------------------------------
LEMMA ConcatSeq ==
    ASSUME NEW S, NEW a \in Seq(S), NEW b \in Seq(S)
    PROVE  /\ a \o b \in Seq(S)
           /\ Len(a \o b) = Len(a) + Len(b)
           /\ \A i \in 1 .. Len(a) : (a \o b)[i] = a[i]
           /\ \A i \in 1 .. Len(b) : (a \o b)[Len(a) + i] = b[i]
BY SMT

LEMMA ConcatTakes ==
    ASSUME NEW S, NEW a \in Seq(S), NEW b \in Seq(S), b # <<>>
    PROVE  Append(a, Head(b)) \o Tail(b) = a \o b
BY SMT

LEMMA ConcatConfirms ==
    ASSUME NEW S, NEW a \in Seq(S), NEW b \in Seq(S), a # <<>>
    PROVE  Tail(a) \o b = Tail(a \o b) /\ (a \o b)[1] = Head(a)
BY SMT

LEMMA ConcatFlushes ==
    ASSUME NEW S, NEW a \in Seq(S), NEW b \in Seq(S), NEW e \in S
    PROVE  a \o Append(b, e) = Append(a \o b, e)
BY SMT

LEMMA ConcatFails ==
    ASSUME NEW S, NEW a \in Seq(S)
    PROVE  a \o <<>> = a
BY ConcatEmptySeq

LEMMA TypeInit == Init => TypeOK
<1> SUFFICES ASSUME Init PROVE TypeOK
    OBVIOUS
<1>1. stage \in [Stage -> {"run", "ok", "err", "aborted"}]
    BY DEF Init
<1>2. next \in Start .. Stop + 1 /\ replays \in 0 .. MaxReplays /\ credit \in Nat
    BY PipelineAssumption DEF Init
<1>3. <<>> \in Seq(Frames) /\ <<>> \in Seq(Batches)
    BY EmptySeq
<1>4. joined \in SUBSET Stage /\ mustAck \in BOOLEAN /\ acks \in Nat
    BY DEF Init
<1> QED
    BY <1>1, <1>2, <1>3, <1>4 DEF Init, TypeOK

LEMMA TypeStep == TypeOK /\ [Next]_vars => TypeOK'
<1> SUFFICES ASSUME TypeOK, [Next]_vars PROVE TypeOK'
    OBVIOUS
<1> USE PipelineAssumption DEF TypeOK, Ends, ship, reading
<1>1. CASE ServerSends
  <2>1. [num |-> next, pos |-> Len(sent) + 1] \in Frames
    BY <1>1 DEF ServerSends, Frames
  <2>2. sent' \in Seq(Frames) /\ wire' \in Seq(Frames)
    BY <2>1, <1>1 DEF ServerSends
  <2>3. next' \in Start .. Stop + 1 /\ credit' \in Nat
    BY <1>1 DEF ServerSends
  <2> QED
    BY <2>2, <2>3, <1>1 DEF ServerSends
<1>2. CASE ServerForks
    BY <1>2 DEF ServerForks
<1>3. CASE ServerGetsAck
    BY <1>3 DEF ServerGetsAck
<1>4. CASE ServerCloses
    BY <1>4 DEF ServerCloses
<1>5. CASE SocketBreaks
    BY <1>5 DEF SocketBreaks
<1>6. CASE ReaderReceives
    BY <1>6 DEF ReaderReceives
<1>7. CASE ReaderSeesEnd
    BY <1>7 DEF ReaderSeesEnd
<1>8. CASE ReaderPushes
  <2>1. chan' \in Seq(Frames)
    BY <1>8 DEF ReaderPushes
  <2>2. mustAck' \in BOOLEAN /\ stage' \in [Stage -> {"run", "ok", "err", "aborted"}]
    BY <1>8 DEF ReaderPushes
  <2> QED
    BY <2>1, <2>2, <1>8 DEF ReaderPushes
<1>9. CASE ReaderFindsClosed
    BY <1>9 DEF ReaderFindsClosed
<1>10. CASE ReaderAcks
  <2>0. acks' = acks + 1 \/ acks' = acks
    BY <1>10, Zenon DEF ReaderAcks
  <2>1. acks' \in Nat
    BY <2>0
  <2>2. mustAck' \in BOOLEAN
    BY <1>10 DEF ReaderAcks
  <2>3. stage' \in [Stage -> {"run", "ok", "err", "aborted"}]
    BY <1>10 DEF ReaderAcks
  <2>4. /\ next' = next /\ sent' = sent /\ replays' = replays
        /\ credit' = credit /\ wire' = wire /\ socket' = socket
        /\ joined' = joined /\ outcome' = outcome /\ hand' = hand
        /\ chan' = chan /\ pool' = pool /\ batch' = batch
        /\ queue' = queue /\ writing' = writing /\ confirmed' = confirmed
    BY <1>10 DEF ReaderAcks
  <2> QED
    BY <2>1, <2>2, <2>3, <2>4
<1>11. CASE PoolTakes
    BY <1>11 DEF PoolTakes
<1>12. CASE PoolEnds
    BY <1>12 DEF PoolEnds
<1>13. CASE PoolLost
  <2>1. pool' \in Seq(Frames)
    BY <1>13 DEF PoolLost, PoolStops
  <2>2. stage' \in [Stage -> {"run", "ok", "err", "aborted"}]
    BY <1>13 DEF PoolLost, PoolStops
  <2> QED
    BY <2>1, <2>2, <1>13 DEF PoolLost, PoolStops
<1>14. CASE ProcessorTakes
    BY <1>14 DEF ProcessorTakes
<1>15. CASE ProcessorFlushes
  <2>1. batch \in Batches
    BY <1>15 DEF ProcessorFlushes, Batches
  <2>2. queue' \in Seq(Batches)
    BY <2>1, <1>15 DEF ProcessorFlushes
  <2> QED
    BY <2>2, <1>15 DEF ProcessorFlushes
<1>16. CASE ProcessorEnds
    BY <1>16 DEF ProcessorEnds
<1>17. CASE ProcessorLost
  <2>1. pool' \in Seq(Frames)
    BY <1>17 DEF ProcessorLost, ProcessorStops
  <2>2. stage' \in [Stage -> {"run", "ok", "err", "aborted"}]
    BY <1>17 DEF ProcessorLost, ProcessorStops
  <2> QED
    BY <2>1, <2>2, <1>17 DEF ProcessorLost, ProcessorStops
<1>18. CASE WriterTakes
    BY <1>18 DEF WriterTakes
<1>19. CASE WriterConfirms
    BY <1>19 DEF WriterConfirms, Batches
<1>20. CASE WriterLost
  <2>1. stage' \in [Stage -> {"run", "ok", "err", "aborted"}]
    BY <1>20 DEF WriterLost, WriterStops
  <2> QED
    BY <2>1, <1>20 DEF WriterLost, WriterStops
<1>21. CASE WriterEnds
    BY <1>21 DEF WriterEnds
<1>22. CASE Join
    BY <1>22 DEF Join, JoinOk, JoinErr
<1>23. CASE UNCHANGED vars
    BY <1>23 DEF vars
<1>24. CASE ReaderDropped /\ outcome = "err"
  <2>1. stage' \in [Stage -> {"run", "ok", "err", "aborted"}]
    BY <1>24 DEF ReaderDropped
  <2>2. hand' \in Seq(Frames) /\ wire' \in Seq(Frames) /\ mustAck' \in BOOLEAN
    BY <1>24, EmptySeq DEF ReaderDropped
  <2> QED
    BY <2>1, <2>2, <1>24 DEF ReaderDropped
<1> QED
    BY <1>1, <1>2, <1>3, <1>4, <1>5, <1>6, <1>7, <1>8, <1>9, <1>10, <1>11, <1>12,
       <1>13, <1>14, <1>15, <1>16, <1>17, <1>18, <1>19, <1>20, <1>21, <1>22, <1>23, <1>24,
       Actions
LEMMA CapacityStep == TypeOK /\ Capacities /\ [Next]_vars => Capacities'
<1> SUFFICES ASSUME TypeOK, Capacities, [Next]_vars PROVE Capacities'
    OBVIOUS
<1> USE PipelineAssumption DEF TypeOK, Capacities, Ends, ship, reading
<1>1. CASE ServerSends
    BY <1>1 DEF ServerSends
<1>2. CASE ServerForks
    BY <1>2 DEF ServerForks
<1>3. CASE ServerGetsAck
    BY <1>3 DEF ServerGetsAck
<1>4. CASE ServerCloses
    BY <1>4 DEF ServerCloses
<1>5. CASE SocketBreaks
    BY <1>5 DEF SocketBreaks
<1>6. CASE ReaderReceives
  <2>1. hand' = <<Head(wire)>> /\ mustAck' = mustAck
    BY <1>6, Zenon DEF ReaderReceives
  <2>2. ~mustAck
    BY <1>6, Zenon DEF ReaderReceives, AtRecv
  <2>3. Len(hand') = 1
    BY <2>1
  <2>4. ~mustAck'
    BY <2>1, <2>2
  <2>5. /\ chan' = chan /\ pool' = pool /\ batch' = batch
        /\ queue' = queue /\ writing' = writing
    BY <1>6 DEF ReaderReceives
  <2> QED
    BY <2>3, <2>4, <2>5
<1>7. CASE ReaderSeesEnd
  <2>1. /\ hand' = hand /\ mustAck' = mustAck
        /\ chan' = chan /\ pool' = pool /\ batch' = batch
        /\ queue' = queue /\ writing' = writing
    BY <1>7, Zenon DEF ReaderSeesEnd
  <2> QED
    BY <2>1
<1>8. CASE ReaderPushes
    BY <1>8 DEF ReaderPushes
<1>9. CASE ReaderFindsClosed
    BY <1>9 DEF ReaderFindsClosed
<1>10. CASE ReaderAcks
    BY <1>10 DEF ReaderAcks
<1>11. CASE PoolTakes
    BY <1>11 DEF PoolTakes
<1>12. CASE PoolEnds
    BY <1>12 DEF PoolEnds
<1>13. CASE PoolLost
    BY <1>13 DEF PoolLost, PoolStops
<1>14. CASE ProcessorTakes
    BY <1>14 DEF ProcessorTakes
<1>15. CASE ProcessorFlushes
    BY <1>15 DEF ProcessorFlushes
<1>16. CASE ProcessorEnds
  <2>1. /\ hand' = hand /\ mustAck' = mustAck
        /\ chan' = chan /\ pool' = pool /\ batch' = batch
        /\ queue' = queue /\ writing' = writing
    BY <1>16, Zenon DEF ProcessorEnds
  <2> QED
    BY <2>1
<1>17. CASE ProcessorLost
    BY <1>17 DEF ProcessorLost, ProcessorStops
<1>18. CASE WriterTakes
    BY <1>18 DEF WriterTakes
<1>19. CASE WriterConfirms
    BY <1>19 DEF WriterConfirms
<1>20. CASE WriterLost
    BY <1>20 DEF WriterLost, WriterStops
<1>21. CASE WriterEnds
    BY <1>21 DEF WriterEnds
<1>22. CASE Join
    BY <1>22 DEF Join, JoinOk, JoinErr
<1>23. CASE UNCHANGED vars
    BY <1>23 DEF vars
<1>24. CASE ReaderDropped /\ outcome = "err"
    BY <1>24 DEF ReaderDropped
<1> QED
    BY <1>1, <1>2, <1>3, <1>4, <1>5, <1>6, <1>7, <1>8, <1>9, <1>10, <1>11, <1>12,
       <1>13, <1>14, <1>15, <1>16, <1>17, <1>18, <1>19, <1>20, <1>21, <1>22, <1>23, <1>24,
       Actions

LEMMA StagesStep == TypeOK /\ Stages /\ [Next]_vars => Stages'
<1> SUFFICES ASSUME TypeOK, Stages, [Next]_vars PROVE Stages'
    OBVIOUS
<1> USE PipelineAssumption DEF TypeOK, Stages, Stage, Ends, ship, reading
<1>1. CASE ServerSends
    BY <1>1 DEF ServerSends
<1>2. CASE ServerForks
    BY <1>2 DEF ServerForks
<1>3. CASE ServerGetsAck
    BY <1>3 DEF ServerGetsAck
<1>4. CASE ServerCloses
    BY <1>4 DEF ServerCloses
<1>5. CASE SocketBreaks
    BY <1>5 DEF SocketBreaks
<1>6. CASE ReaderReceives
    BY <1>6 DEF ReaderReceives
<1>7. CASE ReaderSeesEnd
  <2>1. \/ stage' = [stage EXCEPT !["reader"] = "ok"]
        \/ stage' = [stage EXCEPT !["reader"] = "err"]
    BY <1>7 DEF ReaderSeesEnd
  <2>2. stage["reader"] = "run"
    BY <1>7 DEF ReaderSeesEnd, AtRecv
  <2>3. /\ joined' = joined /\ outcome' = outcome /\ chan' = chan /\ pool' = pool
        /\ batch' = batch /\ queue' = queue /\ writing' = writing
    BY <1>7, Zenon DEF ReaderSeesEnd
  <2> QED
    BY <2>1, <2>2, <2>3
<1>8. CASE ReaderPushes
    BY <1>8 DEF ReaderPushes
<1>9. CASE ReaderFindsClosed
    BY <1>9 DEF ReaderFindsClosed
<1>10. CASE ReaderAcks
    BY <1>10 DEF ReaderAcks
<1>11. CASE PoolTakes
    BY <1>11 DEF PoolTakes
<1>12. CASE PoolEnds
    BY <1>12 DEF PoolEnds
<1>13. CASE PoolLost
  <2>1. /\ stage["pool"] = "run" /\ joined' = joined /\ outcome' = outcome
        /\ chan' = <<>> /\ batch' = batch /\ queue' = queue /\ writing' = writing
        /\ \E n \in 0 .. Len(pool) : pool' = SubSeq(pool, 1, n)
    BY <1>13, Zenon DEF PoolLost, PoolStops
  <2>2. PICK how \in {"err", "aborted"} :
            stage' = [stage EXCEPT !["pool"] = how] /\ (how = "aborted" => outcome = "err")
    BY <1>13, Zenon DEF PoolLost, PoolStops
  <2> QED
    BY <2>1, <2>2
<1>14. CASE ProcessorTakes
    BY <1>14 DEF ProcessorTakes
<1>15. CASE ProcessorFlushes
    BY <1>15 DEF ProcessorFlushes
<1>16. CASE ProcessorEnds
    BY <1>16 DEF ProcessorEnds, InputOver
<1>17. CASE ProcessorLost
  <2>1. /\ stage["processor"] = "run" /\ joined' = joined /\ outcome' = outcome
        /\ chan' = chan /\ batch' = <<>> /\ queue' = queue /\ writing' = writing
        /\ \E n \in 1 .. Len(pool) + 1 : pool' = SubSeq(pool, n, Len(pool))
    BY <1>17, Zenon DEF ProcessorLost, ProcessorStops
  <2>2. PICK how \in {"err", "aborted"} :
            stage' = [stage EXCEPT !["processor"] = how] /\ (how = "aborted" => outcome = "err")
    BY <1>17, Zenon DEF ProcessorLost, ProcessorStops
  <2> QED
    BY <2>1, <2>2
<1>18. CASE WriterTakes
    BY <1>18 DEF WriterTakes
<1>19. CASE WriterConfirms
    BY <1>19 DEF WriterConfirms
<1>20. CASE WriterLost
  <2>1. /\ stage["writer"] = "run" /\ joined' = joined /\ outcome' = outcome
        /\ chan' = chan /\ pool' = pool /\ batch' = batch
        /\ queue' = <<>> /\ writing' = writing
    BY <1>20, Zenon DEF WriterLost, WriterStops
  <2>2. PICK how \in {"err", "aborted"} :
            stage' = [stage EXCEPT !["writer"] = how] /\ (how = "aborted" => outcome = "err")
    BY <1>20, Zenon DEF WriterLost, WriterStops
  <2> QED
    BY <2>1, <2>2
<1>21. CASE WriterEnds
    BY <1>21 DEF WriterEnds
<1>22. CASE Join
  <2>1. PICK s \in Stage : JoinOk(s) \/ JoinErr(s)
    BY <1>22 DEF Join
  <2>2. CASE JoinOk(s)
    BY <2>2 DEF JoinOk
  <2>3. CASE JoinErr(s)
    <3>1. stage' = stage
      BY <2>3, Zenon DEF JoinErr
    <3>2. /\ chan' = chan /\ pool' = pool /\ batch' = batch /\ queue' = queue
          /\ writing' = writing /\ outcome' = "err" /\ joined' = joined \cup {s}
          /\ stage[s] = "err"
      BY <2>3, Zenon DEF JoinErr
    <3>3. joined' \subseteq Stage
      BY <3>2
    <3> QED
      BY <3>1, <3>2, <3>3
  <2> QED
    BY <2>1, <2>2, <2>3
<1>23. CASE UNCHANGED vars
    BY <1>23 DEF vars
<1>24. CASE ReaderDropped /\ outcome = "err"
    BY <1>24 DEF ReaderDropped
<1> QED
    BY <1>1, <1>2, <1>3, <1>4, <1>5, <1>6, <1>7, <1>8, <1>9, <1>10, <1>11, <1>12,
       <1>13, <1>14, <1>15, <1>16, <1>17, <1>18, <1>19, <1>20, <1>21, <1>22, <1>23, <1>24,
       Actions

LEMMA IsOne ==
    ASSUME NEW n \in Nat, n >= 1, n <= 1
    PROVE  n = 1
OBVIOUS

LEMMA HandHoldsOne ==
    ASSUME TypeOK, Capacities, hand # <<>>
    PROVE  Len(hand) = 1 /\ ~mustAck
<1>1. Len(hand) \in Nat /\ Len(hand) >= 1 /\ Len(hand) <= 1
    BY EmptySeq DEF TypeOK, Capacities
<1>3. Len(hand) = 1
    BY <1>1, IsOne, Zenon
<1>2. ~mustAck
    BY Zenon DEF Capacities
<1> QED
    BY <1>2, <1>3

LEMMA CreditStep ==
    TypeOK /\ Capacities /\ CreditConserved /\ [Next]_vars => CreditConserved'
<1> SUFFICES ASSUME TypeOK, Capacities, CreditConserved, [Next]_vars PROVE CreditConserved'
    OBVIOUS
<1> USE PipelineAssumption DEF TypeOK, Capacities, CreditConserved, Count, Stage, Ends, ship, reading
<1>1. CASE ServerSends
  <2>1. /\ Len(wire') = Len(wire) + 1
        /\ credit' = credit - 1
    BY <1>1 DEF ServerSends
  <2>2. /\ acks' = acks /\ hand' = hand /\ mustAck' = mustAck
        /\ stage' = stage /\ socket' = socket
    BY <1>1, Zenon DEF ServerSends
  <2> QED
    BY <2>1, <2>2, SMTT(20)
<1>2. CASE ServerForks
    BY <1>2 DEF ServerForks
<1>3. CASE ServerGetsAck
  <2>1. /\ acks' = acks - 1 /\ credit' = credit + 1
        /\ wire' = wire /\ hand' = hand /\ mustAck' = mustAck
        /\ stage' = stage /\ socket' = socket
    BY <1>3, Zenon DEF ServerGetsAck
  <2> QED
    BY <2>1
<1>4. CASE ServerCloses
    BY <1>4 DEF ServerCloses, Connected
<1>5. CASE SocketBreaks
    BY <1>5 DEF SocketBreaks
<1>6. CASE ReaderReceives
  <2>1. /\ hand = <<>> /\ wire # <<>>
        /\ hand' = <<Head(wire)>> /\ wire' = Tail(wire)
        /\ mustAck' = mustAck /\ credit' = credit /\ acks' = acks
        /\ stage' = stage /\ socket' = socket
    BY <1>6, Zenon DEF ReaderReceives, AtRecv
  <2>2. Len(hand) = 0 /\ Len(hand') = 1 /\ Len(wire') = Len(wire) - 1
    BY <2>1
  <2> QED
    BY <2>1, <2>2
<1>7. CASE ReaderSeesEnd
    BY <1>7 DEF ReaderSeesEnd
<1>8. CASE ReaderPushes
  <2>1. /\ hand # <<>> /\ hand' = <<>>
        /\ wire' = wire /\ credit' = credit /\ acks' = acks
        /\ socket' = socket
    BY <1>8, Zenon DEF ReaderPushes
  <2>2. \/ stage' = [stage EXCEPT !["reader"] = "ok"]
        \/ stage' = stage /\ mustAck'
    BY <1>8, Zenon DEF ReaderPushes
  <2>3. Len(hand) = 1 /\ ~mustAck
    BY <2>1, HandHoldsOne, Zenon
  <2>4. CASE stage' = [stage EXCEPT !["reader"] = "ok"]
    BY <2>4
  <2>5. CASE stage' = stage /\ mustAck'
    <3>1. Count(mustAck) = 0 /\ Count(mustAck') = 1
        BY <2>3, <2>5, Zenon DEF Count
    <3>2. Len(hand') = 0
        BY <2>1, EmptySeq
    <3>3. /\ stage["reader"] = "run" /\ socket # "broken" =>
                credit + acks + Len(wire) + Len(hand) + 0 = MaxInFlight
          /\ stage' = stage
        BY <3>1, <2>5, Zenon DEF CreditConserved
    <3>4. credit + acks + Len(wire) + 1 + 0 = credit + acks + Len(wire) + 0 + 1
        BY DEF TypeOK
    <3>5. ASSUME stage["reader"] = "run", socket # "broken"
          PROVE  credit' + acks' + Len(wire') + Len(hand') + Count(mustAck') = MaxInFlight
      <4>1. credit + acks + Len(wire) + 1 + 0 = MaxInFlight
        BY <2>3, <3>3, <3>5, Zenon
      <4>2. credit' + acks' + Len(wire') + Len(hand') + Count(mustAck')
              = credit + acks + Len(wire) + 0 + 1
        BY <2>1, <3>1, <3>2, Zenon
      <4> QED
        BY <3>4, <4>1, <4>2, Zenon
    <3> QED
        BY <2>1, <3>3, <3>5, Zenon DEF CreditConserved
  <2> QED
    BY <2>2, <2>4, <2>5
<1>9. CASE ReaderFindsClosed
    BY <1>9 DEF ReaderFindsClosed
<1>10. CASE ReaderAcks
  <2>1. \/ acks' = acks + 1 /\ ~mustAck' /\ mustAck /\ stage' = stage
        \/ stage' = [stage EXCEPT !["reader"] = "err"]
    BY <1>10, Zenon DEF ReaderAcks
  <2>2. /\ wire' = wire /\ credit' = credit /\ hand' = hand
        /\ socket' = socket
    BY <1>10, Zenon DEF ReaderAcks
  <2>3. CASE acks' = acks + 1 /\ ~mustAck' /\ mustAck /\ stage' = stage
    BY <2>2, <2>3
  <2>4. CASE stage' = [stage EXCEPT !["reader"] = "err"]
    BY <2>2, <2>4
  <2> QED
    BY <2>1, <2>3, <2>4
<1>11. CASE PoolTakes
    BY <1>11 DEF PoolTakes
<1>12. CASE PoolEnds
    BY <1>12 DEF PoolEnds
<1>13. CASE PoolLost
    BY <1>13 DEF PoolLost, PoolStops
<1>14. CASE ProcessorTakes
    BY <1>14 DEF ProcessorTakes
<1>15. CASE ProcessorFlushes
    BY <1>15 DEF ProcessorFlushes
<1>16. CASE ProcessorEnds
    BY <1>16 DEF ProcessorEnds
<1>17. CASE ProcessorLost
    BY <1>17 DEF ProcessorLost, ProcessorStops
<1>18. CASE WriterTakes
    BY <1>18 DEF WriterTakes
<1>19. CASE WriterConfirms
    BY <1>19 DEF WriterConfirms
<1>20. CASE WriterLost
    BY <1>20 DEF WriterLost, WriterStops
<1>21. CASE WriterEnds
    BY <1>21 DEF WriterEnds
<1>22. CASE Join
  <2>1. /\ credit' = credit /\ acks' = acks /\ wire' = wire
        /\ socket' = socket /\ hand' = hand /\ mustAck' = mustAck
    BY <1>22, Zenon DEF Join, JoinOk, JoinErr
  <2>2. stage'["reader"] = "run" => stage["reader"] = "run"
    BY <1>22 DEF Join, JoinOk, JoinErr
  <2> QED
    BY <2>1, <2>2
<1>23. CASE UNCHANGED vars
    BY <1>23 DEF vars
<1>24. CASE ReaderDropped /\ outcome = "err"
    BY <1>24 DEF ReaderDropped
<1> QED
    BY <1>1, <1>2, <1>3, <1>4, <1>5, <1>6, <1>7, <1>8, <1>9, <1>10, <1>11, <1>12,
       <1>13, <1>14, <1>15, <1>16, <1>17, <1>18, <1>19, <1>20, <1>21, <1>22, <1>23, <1>24,
       Actions

-----------------------------------------------------------------------------
(* Pieces of the stream.                                                     *)

LEMMA FollowsAppend ==
    ASSUME NEW X \in Seq(Frames), NEW b \in Nat, NEW f \in Frames,
           Follows(X, b), f.pos = b + Len(X) + 1
    PROVE  Follows(Append(X, f), b)
BY DEF Follows, Frames

LEMMA FollowsTail ==
    ASSUME NEW X \in Seq(Frames), NEW b \in Nat, Follows(X, b), X # <<>>
    PROVE  Head(X).pos = b + 1 /\ Follows(Tail(X), b + 1)
<1>1. Head(X) = X[1] /\ Len(X) \in Nat /\ Len(X) >= 1
    BY EmptySeq
<1>2. /\ Len(Tail(X)) = Len(X) - 1
      /\ \A k \in 1 .. Len(Tail(X)) : Tail(X)[k] = X[k + 1]
    BY HeadTailProperties
<1>3. \A k \in 1 .. Len(X) : X[k].pos = b + k
    BY DEF Follows
<1>4. Head(X).pos = b + 1
    BY <1>1, <1>3
<1>5. \A k \in 1 .. Len(Tail(X)) : Tail(X)[k].pos = (b + 1) + k
    BY <1>1, <1>2, <1>3
<1> QED
    BY <1>4, <1>5 DEF Follows

LEMMA FollowsPrefix ==
    ASSUME NEW X \in Seq(Frames), NEW b \in Nat, Follows(X, b), NEW n \in 0 .. Len(X)
    PROVE  Follows(SubSeq(X, 1, n), b) /\ Len(SubSeq(X, 1, n)) = n
BY DEF Follows

LEMMA FollowsConcat ==
    ASSUME NEW X \in Seq(Frames), NEW Y \in Seq(Frames), NEW b \in Nat,
           Follows(X, b), Follows(Y, b + Len(X))
    PROVE  Follows(X \o Y, b)
<1>1. /\ Len(X \o Y) = Len(X) + Len(Y)
      /\ \A k \in 1 .. Len(X) + Len(Y) :
            (X \o Y)[k] = IF k <= Len(X) THEN X[k] ELSE Y[k - Len(X)]
    BY ConcatProperties
<1>2. SUFFICES ASSUME NEW k \in 1 .. Len(X) + Len(Y) PROVE (X \o Y)[k].pos = b + k
    BY <1>1 DEF Follows
<1>3. CASE k <= Len(X)
    BY <1>1, <1>3 DEF Follows
<1>4. CASE k > Len(X)
  <2>1. k - Len(X) \in 1 .. Len(Y) /\ (X \o Y)[k] = Y[k - Len(X)]
    BY <1>1, <1>4
  <2>2. Y[k - Len(X)].pos = b + Len(X) + (k - Len(X))
    BY <2>1 DEF Follows
  <2> QED
    BY <2>1, <2>2
<1> QED
    BY <1>3, <1>4

LEMMA FollowsLast ==
    ASSUME NEW X \in Batches, NEW b \in Nat, Follows(X, b)
    PROVE  Len(X) \in 1 .. Len(X) /\ X[Len(X)].pos = b + Len(X)
<1>1. Len(X) \in 1 .. Len(X)
    BY EmptySeq DEF Batches
<1> QED
    BY <1>1 DEF Follows

LEMMA AllWantedAppend ==
    ASSUME NEW s, NEW X \in Seq(Frames), NEW f \in Frames, AllWanted(s, X), Wanted(s, f)
    PROVE  AllWanted(s, Append(X, f))
BY DEF AllWanted

LEMMA AllWantedTail ==
    ASSUME NEW s, NEW X \in Seq(Frames), AllWanted(s, X), X # <<>>
    PROVE  Wanted(s, Head(X)) /\ AllWanted(s, Tail(X))
<1>1. Head(X) = X[1] /\ Len(X) \in Nat /\ Len(X) >= 1
    BY EmptySeq
<1>2. /\ Len(Tail(X)) = Len(X) - 1
      /\ \A k \in 1 .. Len(Tail(X)) : Tail(X)[k] = X[k + 1]
    BY HeadTailProperties
<1> QED
    BY <1>1, <1>2 DEF AllWanted

LEMMA AllWantedSubSeq ==
    ASSUME NEW s, NEW X \in Seq(Frames), AllWanted(s, X),
           NEW m \in Nat \ {0}, NEW n \in 0 .. Len(X)
    PROVE  AllWanted(s, SubSeq(X, m, n))
BY DEF AllWanted

LEMMA AllWantedConcat ==
    ASSUME NEW s, NEW X \in Seq(Frames), NEW Y \in Seq(Frames),
           AllWanted(s, X), AllWanted(s, Y)
    PROVE  AllWanted(s, X \o Y)
<1>1. /\ Len(X \o Y) = Len(X) + Len(Y)
      /\ \A k \in 1 .. Len(X) + Len(Y) :
            (X \o Y)[k] = IF k <= Len(X) THEN X[k] ELSE Y[k - Len(X)]
    BY ConcatProperties
<1>2. SUFFICES ASSUME NEW k \in 1 .. Len(X) + Len(Y) PROVE Wanted(s, (X \o Y)[k])
    BY <1>1 DEF AllWanted
<1>3. CASE k <= Len(X)
    BY <1>1, <1>3 DEF AllWanted
<1>4. CASE k > Len(X)
  <2>1. k - Len(X) \in 1 .. Len(Y) /\ (X \o Y)[k] = Y[k - Len(X)]
    BY <1>1, <1>4
  <2> QED
    BY <2>1 DEF AllWanted
<1> QED
    BY <1>3, <1>4

\* The server only appends.
LEMMA AllWantedGrows ==
    ASSUME NEW s \in Seq(Frames), NEW g \in Frames, NEW X \in Seq(Frames), AllWanted(s, X)
    PROVE  AllWanted(Append(s, g), X)
<1> SUFFICES ASSUME NEW k \in 1 .. Len(X) PROVE Wanted(Append(s, g), X[k])
    BY DEF AllWanted
<1>1. Wanted(s, X[k])
    BY DEF AllWanted
<1>2. /\ Len(Append(s, g)) = Len(s) + 1
      /\ \A j \in 1 .. Len(s) : Append(s, g)[j] = s[j]
    BY AppendProperties
<1>3. X[k].pos \in 1 .. Len(s) /\ Len(s) \in Nat
    BY <1>1 DEF Wanted
<1>4. X[k].pos \in 1 .. Len(Append(s, g))
    BY <1>2, <1>3
<1>5. X[k] = Append(s, g)[X[k].pos]
    BY <1>1, <1>2, <1>3 DEF Wanted
<1>6. \A j \in 1 .. X[k].pos - 1 : j \in 1 .. Len(s) /\ ~IsLast(s[j])
    BY <1>1, <1>3 DEF Wanted
<1> QED
    BY <1>2, <1>4, <1>5, <1>6 DEF Wanted

-----------------------------------------------------------------------------
(* The batches in flight.                                                    *)

LEMMA EndsAppend ==
    ASSUME NEW c, NEW F \in Seq(Batches), NEW b \in Batches
    PROVE  /\ \A i \in 0 .. Len(F) : EndOf(c, Append(F, b), i) = EndOf(c, F, i)
           /\ EndOf(c, Append(F, b), Len(F) + 1) = b[Len(b)].pos
<1>1. /\ \A i \in 1 .. Len(F) : Append(F, b)[i] = F[i]
      /\ Append(F, b)[Len(F) + 1] = b
      /\ Len(F) \in Nat
    BY AppendProperties, LenProperties
<1> QED
    BY <1>1 DEF EndOf

LEMMA EndsTail ==
    ASSUME NEW c \in Seq(Frames), NEW F \in Seq(Batches), F # <<>>,
           Follows(F[1], Len(c))
    PROVE  \A i \in 0 .. Len(F) - 1 : EndOf(c \o F[1], Tail(F), i) = EndOf(c, F, i + 1)
<1>1. /\ Len(F) \in Nat /\ Len(F) >= 1
      /\ F[1] \in Batches /\ F[1] \in Seq(Frames)
    BY EmptySeq DEF Batches
<1>2. \A k \in 1 .. Len(F) - 1 : Tail(F)[k] = F[k + 1]
    BY HeadTailProperties
<1>3. Len(c \o F[1]) = Len(c) + Len(F[1])
    BY <1>1, ConcatProperties
<1>4. F[1][Len(F[1])].pos = Len(c) + Len(F[1])
    BY <1>1, FollowsLast
<1>5. EndOf(c \o F[1], Tail(F), 0) = EndOf(c, F, 1)
    BY <1>3, <1>4 DEF EndOf
<1>6. \A i \in 1 .. Len(F) - 1 : EndOf(c \o F[1], Tail(F), i) = EndOf(c, F, i + 1)
    BY <1>1, <1>2 DEF EndOf
<1> QED
    BY <1>1, <1>5, <1>6

LEMMA EndsNat ==
    ASSUME NEW c \in Seq(Frames), NEW F \in Seq(Batches), NEW i \in 0 .. Len(F)
    PROVE  EndOf(c, F, i) \in Nat
<1>1. CASE i = 0
    BY <1>1 DEF EndOf
<1>2. CASE i # 0
  <2>1. F[i] \in Seq(Frames) /\ F[i] # <<>>
    BY <1>2 DEF Batches
  <2>2. Len(F[i]) \in 1 .. Len(F[i])
    BY <2>1, EmptySeq
  <2>3. F[i][Len(F[i])] \in Frames
    BY <2>1, <2>2, ElementOfSeq
  <2> QED
    BY <1>2, <2>3 DEF EndOf, Frames
<1> QED
    BY <1>1, <1>2

-----------------------------------------------------------------------------
(* What a step does to the frames and to the batches in flight.              *)

LEMMA FrameSteps ==
    ASSUME [Next]_vars
    PROVE  \/ ServerSends \/ SocketBreaks \/ ReaderDropped \/ ReaderReceives \/ ReaderPushes
           \/ PoolTakes \/ PoolLost
           \/ ProcessorTakes \/ ProcessorFlushes \/ ProcessorLost
           \/ WriterTakes \/ WriterConfirms \/ WriterLost
           \/ UNCHANGED <<sent, wire, hand, chan, pool, batch, queue, writing, confirmed>>
BY Actions, Zenon DEF Join, vars, ship, reading,
    ServerForks, ServerGetsAck, ServerCloses, ReaderSeesEnd, ReaderFindsClosed,
    ReaderAcks, PoolEnds, ProcessorEnds, WriterEnds, JoinOk, JoinErr

\* A stage that has failed stays so.
LEMMA UpSteps ==
    ASSUME TypeOK, [Next]_vars
    PROVE  /\ WriterUp' => WriterUp
           /\ ProcessorUp' => ProcessorUp
           /\ PoolUp' => PoolUp
<1> SUFFICES \A s \in Stage : stage[s] \in {"err", "aborted"} => stage'[s] = stage[s]
  <2>1. \A s \in Stage : stage[s] \in {"run", "ok", "err", "aborted"}
    BY DEF TypeOK
  <2> QED
    BY <2>1 DEF WriterUp, ProcessorUp, PoolUp, Sound, Stage
<1>0. stage \in [Stage -> {"run", "ok", "err", "aborted"}]
    BY DEF TypeOK
<1> USE DEF Ends, ship, reading
<1>1. CASE ServerSends
    BY <1>1, <1>0 DEF ServerSends
<1>2. CASE ServerForks
    BY <1>2, <1>0 DEF ServerForks
<1>3. CASE ServerGetsAck
    BY <1>3, <1>0 DEF ServerGetsAck
<1>4. CASE ServerCloses
    BY <1>4, <1>0 DEF ServerCloses
<1>5. CASE SocketBreaks
    BY <1>5, <1>0 DEF SocketBreaks
<1>6. CASE ReaderReceives
    BY <1>6, <1>0 DEF ReaderReceives
<1>7. CASE ReaderSeesEnd
  <2>1. \/ stage' = [stage EXCEPT !["reader"] = "ok"]
        \/ stage' = [stage EXCEPT !["reader"] = "err"]
    BY <1>7 DEF ReaderSeesEnd
  <2>2. stage["reader"] = "run"
    BY <1>7 DEF ReaderSeesEnd, AtRecv
  <2> QED
    BY <2>1, <2>2, <1>0
<1>8. CASE ReaderPushes
    BY <1>8, <1>0 DEF ReaderPushes
<1>9. CASE ReaderFindsClosed
    BY <1>9, <1>0 DEF ReaderFindsClosed
<1>10. CASE ReaderAcks
    BY <1>10, <1>0 DEF ReaderAcks
<1>11. CASE PoolTakes
    BY <1>11, <1>0 DEF PoolTakes
<1>12. CASE PoolEnds
    BY <1>12, <1>0 DEF PoolEnds
<1>13. CASE PoolLost
    BY <1>13, <1>0 DEF PoolLost, PoolStops
<1>14. CASE ProcessorTakes
    BY <1>14, <1>0 DEF ProcessorTakes
<1>15. CASE ProcessorFlushes
    BY <1>15, <1>0 DEF ProcessorFlushes
<1>16. CASE ProcessorEnds
    BY <1>16, <1>0 DEF ProcessorEnds
<1>17. CASE ProcessorLost
    BY <1>17, <1>0 DEF ProcessorLost, ProcessorStops
<1>18. CASE WriterTakes
    BY <1>18, <1>0 DEF WriterTakes
<1>19. CASE WriterConfirms
    BY <1>19, <1>0 DEF WriterConfirms
<1>20. CASE WriterLost
    BY <1>20, <1>0 DEF WriterLost, WriterStops
<1>21. CASE WriterEnds
    BY <1>21, <1>0 DEF WriterEnds
<1>22. CASE Join
    BY <1>22, <1>0 DEF Join, JoinOk, JoinErr
<1>23. CASE UNCHANGED vars
    BY <1>23, <1>0 DEF vars
<1>24. CASE ReaderDropped /\ outcome = "err"
    BY <1>24, <1>0 DEF ReaderDropped
<1> QED
    BY <1>1, <1>2, <1>3, <1>4, <1>5, <1>6, <1>7, <1>8, <1>9, <1>10, <1>11, <1>12,
       <1>13, <1>14, <1>15, <1>16, <1>17, <1>18, <1>19, <1>20, <1>21, <1>22, <1>23, <1>24,
       Actions

LEMMA FlightType ==
    ASSUME TypeOK
    PROVE  /\ Flight \in Seq(Batches)
           /\ Len(Flight) = Len(writing) + Len(queue)
           /\ \A i \in 1 .. Len(Flight) : Flight[i] \in Batches /\ Flight[i] \in Seq(Frames)
BY ConcatSeq, ElementOfSeq DEF TypeOK, Flight, Batches

LEMMA FlightFlushes ==
    ASSUME TypeOK, ProcessorFlushes
    PROVE  /\ batch \in Batches
           /\ Flight' = Append(Flight, batch)
           /\ confirmed' = confirmed
<1>1. /\ writing \in Seq(Batches) /\ queue \in Seq(Batches) /\ batch \in Batches
      /\ queue' = Append(queue, batch) /\ writing' = writing /\ confirmed' = confirmed
    BY DEF ProcessorFlushes, TypeOK, Batches
<1> QED
    BY <1>1, ConcatFlushes DEF Flight

LEMMA FlightTakes ==
    ASSUME TypeOK, WriterTakes
    PROVE  Flight' = Flight /\ confirmed' = confirmed
<1>1. /\ writing \in Seq(Batches) /\ queue \in Seq(Batches) /\ queue # <<>>
      /\ writing' = Append(writing, Head(queue)) /\ queue' = Tail(queue)
      /\ confirmed' = confirmed
    BY DEF WriterTakes, TypeOK
<1> QED
    BY <1>1, ConcatTakes DEF Flight

LEMMA FlightConfirms ==
    ASSUME TypeOK, WriterConfirms
    PROVE  /\ Flight # <<>>
           /\ Flight' = Tail(Flight)
           /\ confirmed' = confirmed \o Flight[1]
<1>1. /\ writing \in Seq(Batches) /\ queue \in Seq(Batches) /\ writing # <<>>
      /\ writing' = Tail(writing) /\ queue' = queue
      /\ confirmed' = confirmed \o Head(writing)
    BY DEF WriterConfirms, TypeOK
<1>2. Flight # <<>>
    BY <1>1, ConcatEqualIffEmpty DEF Flight
<1>3. Flight' = Tail(Flight) /\ Flight[1] = Head(writing)
    BY <1>1, ConcatConfirms DEF Flight
<1> QED
    BY <1>1, <1>2, <1>3

\* What is left in flight is a prefix of what was.
LEMMA FlightFails ==
    ASSUME TypeOK, WriterLost
    PROVE  /\ Flight' \in Seq(Batches)
           /\ Len(Flight') <= Len(Flight)
           /\ \A i \in 1 .. Len(Flight') : Flight'[i] = Flight[i]
           /\ \A i \in 0 .. Len(Flight') :
                EndOf(confirmed', Flight', i) = EndOf(confirmed, Flight, i)
<1>1. /\ writing \in Seq(Batches) /\ queue \in Seq(Batches)
      /\ writing' = writing /\ queue' = <<>> /\ confirmed' = confirmed
    BY DEF WriterLost, WriterStops, TypeOK
<1>2. Flight' = writing
    BY <1>1, ConcatFails DEF Flight
<1>3. /\ Len(writing) <= Len(Flight)
      /\ \A i \in 1 .. Len(writing) : writing[i] = Flight[i]
    BY <1>1, ConcatSeq DEF Flight
<1> QED
    BY <1>1, <1>2, <1>3 DEF EndOf

LEMMA FlightSteps ==
    ASSUME TypeOK, [Next]_vars
    PROVE  \/ ProcessorFlushes \/ WriterConfirms \/ WriterLost
           \/ Flight' = Flight /\ confirmed' = confirmed
<1>1. CASE WriterTakes
    BY <1>1, FlightTakes
<1>2. CASE UNCHANGED <<queue, writing, confirmed>>
    BY <1>2 DEF Flight
<1>3. \/ ProcessorFlushes \/ WriterTakes \/ WriterConfirms \/ WriterLost
      \/ UNCHANGED <<queue, writing, confirmed>>
    BY FrameSteps, Zenon DEF ServerSends, SocketBreaks, ReaderDropped, ReaderReceives, ReaderPushes,
        PoolTakes, PoolLost, PoolStops, ProcessorTakes, ProcessorLost, ProcessorStops, ship, reading
<1> QED
    BY <1>1, <1>2, <1>3

-----------------------------------------------------------------------------
(* Each part of the invariant over a step.                                   *)

LEMMA StreamStep == TypeOK /\ Stream /\ [Next]_vars => Stream'
<1> SUFFICES ASSUME TypeOK, Stream, [Next]_vars PROVE Stream'
    OBVIOUS
<1>1. CASE ServerSends
  <2> DEFINE f == [num |-> next, pos |-> Len(sent) + 1]
  <2>1. /\ f \in Frames /\ f.pos = Len(sent) + 1
        /\ sent \in Seq(Frames) /\ wire \in Seq(Frames)
    BY <1>1 DEF ServerSends, TypeOK, Frames
  <2>2. /\ sent' = Append(sent, f) /\ wire' = Append(wire, f)
        /\ socket' = socket /\ socket # "broken"
    BY <1>1 DEF ServerSends, Connected
  <2> HIDE DEF f
  <2>3. /\ Len(sent') = Len(sent) + 1
        /\ sent'[Len(sent) + 1] = f
        /\ \A k \in 1 .. Len(sent) : sent'[k] = sent[k]
    BY <2>1, <2>2, AppendProperties
  <2>4. /\ Len(wire') = Len(wire) + 1
        /\ wire'[Len(wire) + 1] = f
        /\ \A k \in 1 .. Len(wire) : wire'[k] = wire[k]
    BY <2>1, <2>2, AppendProperties
  <2>5. Len(sent) \in Nat /\ Len(wire) \in Nat
    BY <2>1
  <2>6. \A k \in 1 .. Len(sent') : sent'[k].pos = k
    <3> SUFFICES ASSUME NEW k \in 1 .. Len(sent') PROVE sent'[k].pos = k
        OBVIOUS
    <3>1. CASE k \in 1 .. Len(sent)
        BY <2>3, <3>1 DEF Stream
    <3>2. CASE k = Len(sent) + 1
        BY <2>1, <2>3, <3>2
    <3> QED
        BY <2>3, <2>5, <3>1, <3>2
  <2>7. Len(wire') <= Len(sent')
    BY <2>3, <2>4, <2>5 DEF Stream
  <2>8. \A k \in 1 .. Len(wire') : wire'[k] = sent'[Len(sent') - Len(wire') + k]
    <3> SUFFICES ASSUME NEW k \in 1 .. Len(wire')
                 PROVE  wire'[k] = sent'[Len(sent') - Len(wire') + k]
        OBVIOUS
    <3>1. CASE k \in 1 .. Len(wire)
      <4>1. /\ Len(sent') - Len(wire') + k = Len(sent) - Len(wire) + k
            /\ Len(sent) - Len(wire) + k \in 1 .. Len(sent)
        BY <2>3, <2>4, <2>5, <3>1 DEF Stream
      <4>2. wire[k] = sent[Len(sent) - Len(wire) + k]
        BY <3>1 DEF Stream
      <4> QED
        BY <2>3, <2>4, <3>1, <4>1, <4>2
    <3>2. CASE k = Len(wire) + 1
      <4>1. Len(sent') - Len(wire') + k = Len(sent) + 1
        BY <2>3, <2>4, <2>5, <3>2
      <4> QED
        BY <2>3, <2>4, <3>2, <4>1
    <3> QED
        BY <2>4, <2>5, <3>1, <3>2
  <2> QED
    BY <2>2, <2>6, <2>7, <2>8 DEF Stream
<1>2. CASE ReaderReceives
  <2>1. /\ wire \in Seq(Frames) /\ wire # <<>> /\ wire' = Tail(wire)
        /\ sent' = sent /\ sent \in Seq(Frames) /\ socket' = socket
    BY <1>2 DEF ReaderReceives, TypeOK
  <2>2. /\ Len(wire) \in Nat /\ Len(wire') = Len(wire) - 1
        /\ Len(wire) >= 1 /\ Len(sent) \in Nat
        /\ \A k \in 1 .. Len(wire) - 1 : wire'[k] = wire[k + 1]
    BY <2>1, HeadTailProperties, EmptySeq
  <2>3. \A k \in 1 .. Len(wire') : wire'[k] = sent'[Len(sent') - Len(wire') + k]
    BY <2>1, <2>2 DEF Stream
  <2> QED
    BY <2>1, <2>2, <2>3 DEF Stream
<1>3. CASE SocketBreaks
    BY <1>3, EmptySeq DEF SocketBreaks, Stream, TypeOK
<1>6. CASE ReaderDropped
    BY <1>6, EmptySeq DEF ReaderDropped, Stream, TypeOK
<1>4. CASE UNCHANGED <<sent, wire>> /\ (socket' = "broken" => socket = "broken")
    BY <1>4 DEF Stream
<1>5. \/ ServerSends \/ ReaderReceives \/ SocketBreaks \/ ReaderDropped
      \/ UNCHANGED <<sent, wire>> /\ (socket' = "broken" => socket = "broken")
  <2>1. CASE ServerCloses
    BY <2>1 DEF ServerCloses
  <2>2. CASE UNCHANGED <<sent, wire, socket>>
    BY <2>2
  <2>3. \/ ServerSends \/ ReaderReceives \/ SocketBreaks \/ ServerCloses
        \/ ReaderDropped
        \/ UNCHANGED <<sent, wire, socket>>
    BY Actions, Zenon DEF Join, vars, ship, reading,
        ServerForks, ServerGetsAck, ReaderSeesEnd, ReaderPushes, ReaderFindsClosed,
        ReaderAcks, PoolTakes, PoolEnds, PoolLost, PoolStops, ProcessorTakes, ProcessorFlushes,
        ProcessorEnds, ProcessorLost, ProcessorStops, WriterTakes, WriterConfirms, WriterLost, WriterStops,
        WriterEnds, JoinOk, JoinErr
  <2> QED
    BY <2>1, <2>2, <2>3
<1> QED
    BY <1>1, <1>2, <1>3, <1>4, <1>5, <1>6

LEMMA GenuineStep ==
    TypeOK /\ Stream /\ Genuine /\ ReaderAt /\ [Next]_vars => Genuine'
<1> SUFFICES ASSUME TypeOK, Stream, Genuine, ReaderAt, [Next]_vars PROVE Genuine'
    OBVIOUS
<1>1. /\ sent \in Seq(Frames) /\ wire \in Seq(Frames) /\ hand \in Seq(Frames)
      /\ chan \in Seq(Frames) /\ pool \in Seq(Frames) /\ batch \in Seq(Frames)
      /\ confirmed \in Seq(Frames)
    BY DEF TypeOK
<1>2. /\ AllWanted(sent', hand) /\ AllWanted(sent', chan) /\ AllWanted(sent', pool)
      /\ AllWanted(sent', batch) /\ AllWanted(sent', confirmed)
      /\ \A i \in 1 .. Len(Flight) : AllWanted(sent', Flight[i])
  <2>1. CASE ServerSends
    <3>1. PICK g \in Frames : sent' = Append(sent, g)
      <4>1. [num |-> next, pos |-> Len(sent) + 1] \in Frames
        BY <2>1 DEF ServerSends, TypeOK, Frames
      <4> QED
        BY <2>1, <4>1 DEF ServerSends
    <3> QED
        BY <1>1, <3>1, AllWantedGrows, FlightType DEF Genuine
  <2>2. CASE sent' = sent
    BY <2>2 DEF Genuine
  <2> QED
    BY <2>1, <2>2, FrameSteps, Zenon DEF SocketBreaks, ReaderDropped, ReaderReceives, ReaderPushes,
        PoolTakes, PoolLost, PoolStops, ProcessorTakes, ProcessorFlushes, ProcessorLost, ProcessorStops,
        WriterTakes, WriterConfirms, WriterLost, WriterStops, ship
<1>3. /\ \A i \in 1 .. Len(Flight') : AllWanted(sent', Flight'[i])
      /\ AllWanted(sent', confirmed')
  <2>0. Flight \in Seq(Batches) /\ \A i \in 1 .. Len(Flight) : Flight[i] \in Seq(Frames)
    BY FlightType
  <2>1. CASE ProcessorFlushes
    <3>1. batch \in Batches /\ Flight' = Append(Flight, batch) /\ confirmed' = confirmed
        BY <2>1, FlightFlushes
    <3>2. /\ Len(Flight') = Len(Flight) + 1
          /\ Flight'[Len(Flight) + 1] = batch
          /\ \A i \in 1 .. Len(Flight) : Flight'[i] = Flight[i]
        BY <2>0, <3>1, AppendProperties
    <3> QED
        BY <1>2, <2>0, <3>1, <3>2
  <2>2. CASE WriterConfirms
    <3>1. /\ Flight # <<>> /\ Flight' = Tail(Flight)
          /\ confirmed' = confirmed \o Flight[1]
        BY <2>2, FlightConfirms
    <3>2. /\ Len(Flight) \in Nat /\ Len(Flight) >= 1 /\ Len(Flight') = Len(Flight) - 1
          /\ \A i \in 1 .. Len(Flight') : Flight'[i] = Flight[i + 1]
        BY <2>0, <3>1, HeadTailProperties, EmptySeq
    <3>3. AllWanted(sent', confirmed')
        BY <1>1, <1>2, <2>0, <3>1, <3>2, AllWantedConcat
    <3> QED
        BY <1>2, <3>2, <3>3
  <2>3. CASE WriterLost
    <3>1. confirmed' = confirmed
        BY <2>3 DEF WriterLost, WriterStops
    <3> QED
        BY <1>2, <2>0, <2>3, <3>1, FlightFails
  <2>4. CASE Flight' = Flight /\ confirmed' = confirmed
    BY <1>2, <2>4
  <2> QED
    BY <2>1, <2>2, <2>3, <2>4, FlightSteps
<1>4. /\ AllWanted(sent', hand') /\ AllWanted(sent', chan')
      /\ AllWanted(sent', pool') /\ AllWanted(sent', batch')
  <2>0. /\ AllWanted(sent', <<>>)
        /\ \A X \in Seq(Frames) : X # <<>> => Head(X) \in Frames
    BY EmptySeq, HeadTailProperties DEF AllWanted
  <2>1. CASE ReaderReceives
    <3>1. /\ hand' = <<Head(wire)>> /\ wire # <<>> /\ sent' = sent
          /\ hand = <<>> /\ stage["reader"] = "run"
          /\ chan' = chan /\ pool' = pool /\ batch' = batch
        BY <2>1, Zenon DEF ReaderReceives, AtRecv
    <3>2. Head(wire) = wire[1] /\ Len(wire) \in Nat /\ Len(wire) >= 1 /\ Len(sent) \in Nat
        BY <1>1, <3>1, EmptySeq
    <3> DEFINE p == Len(sent) - Len(wire) + 1
    <3>3. p \in 1 .. Len(sent) /\ Head(wire) = sent[p] /\ sent[p].pos = p
        BY <3>2 DEF Stream
    <3>4. \A j \in 1 .. p - 1 : ~IsLast(sent[j])
        BY <3>1, <3>2 DEF ReaderAt, Stream
    <3> HIDE DEF p
    <3>5. Wanted(sent, Head(wire))
        BY <3>3, <3>4 DEF Wanted
    <3>6. AllWanted(sent', hand')
        BY <3>1, <3>5 DEF AllWanted
    <3> QED
        BY <1>2, <3>1, <3>6
  <2>2. CASE ReaderPushes
    <3>1. /\ hand # <<>> /\ hand' = <<>> /\ chan' = Append(chan, Head(hand))
          /\ pool' = pool /\ batch' = batch
        BY <2>2, Zenon DEF ReaderPushes
    <3> QED
        BY <1>1, <1>2, <2>0, <3>1, AllWantedAppend, AllWantedTail
  <2>3. CASE PoolTakes
    <3>1. /\ chan # <<>> /\ pool' = Append(pool, Head(chan)) /\ chan' = Tail(chan)
          /\ hand' = hand /\ batch' = batch
        BY <2>3, Zenon DEF PoolTakes, reading
    <3> QED
        BY <1>1, <1>2, <2>0, <3>1, AllWantedAppend, AllWantedTail
  <2>4. CASE PoolLost
    <3>1. /\ chan' = <<>> /\ hand' = hand /\ batch' = batch
          /\ \E n \in 0 .. Len(pool) : pool' = SubSeq(pool, 1, n)
        BY <2>4, Zenon DEF PoolLost, PoolStops, reading
    <3> QED
        BY <1>1, <1>2, <2>0, <3>1, AllWantedSubSeq
  <2>5. CASE ProcessorTakes
    <3>1. /\ pool # <<>> /\ batch' = Append(batch, Head(pool)) /\ pool' = Tail(pool)
          /\ hand' = hand /\ chan' = chan
        BY <2>5, Zenon DEF ProcessorTakes, reading
    <3> QED
        BY <1>1, <1>2, <2>0, <3>1, AllWantedAppend, AllWantedTail
  <2>6. CASE ProcessorFlushes
    BY <1>2, <2>0, <2>6, Zenon DEF ProcessorFlushes, reading
  <2>7. CASE ProcessorLost
    <3>1. PICK n \in 1 .. Len(pool) + 1 : pool' = SubSeq(pool, n, Len(pool))
        BY <2>7, Zenon DEF ProcessorLost, ProcessorStops
    <3>2. hand' = hand /\ chan' = chan /\ batch' = <<>>
        BY <2>7, Zenon DEF ProcessorLost, ProcessorStops, reading
    <3>3. n \in Nat \ {0} /\ Len(pool) \in 0 .. Len(pool)
        BY <1>1
    <3> QED
        BY <1>1, <1>2, <2>0, <3>1, <3>2, <3>3, AllWantedSubSeq
  <2>9. CASE ReaderDropped
    <3>1. hand' = <<>> /\ chan' = chan /\ pool' = pool /\ batch' = batch
        BY <2>9, Zenon DEF ReaderDropped
    <3> QED
        BY <1>2, <2>0, <3>1
  <2>8. CASE UNCHANGED <<hand, chan, pool, batch>>
    BY <1>2, <2>8
  <2> QED
    BY <2>1, <2>2, <2>3, <2>4, <2>5, <2>6, <2>7, <2>8, <2>9, FrameSteps, Zenon
    DEF ServerSends, SocketBreaks, WriterTakes, WriterConfirms, WriterLost, WriterStops, reading
<1> QED
    BY <1>3, <1>4 DEF Genuine

LEMMA FlushedNat ==
    ASSUME TypeOK
    PROVE  /\ Flushed \in Nat
           /\ \A i \in 0 .. Len(Flight) : EndOf(confirmed, Flight, i) \in Nat
<1>1. /\ Flight \in Seq(Batches) /\ confirmed \in Seq(Frames)
      /\ Len(Flight) \in 0 .. Len(Flight)
    BY FlightType DEF TypeOK
<1> QED
    BY <1>1, EndsNat DEF Flushed

\* The ends of the batches that are left, once the oldest is confirmed.
LEMMA ConfirmedEnds ==
    ASSUME TypeOK, InFlight, WriterConfirms
    PROVE  /\ Len(Flight) \in Nat /\ Len(Flight) >= 1
           /\ Len(Flight') = Len(Flight) - 1
           /\ \A i \in 1 .. Len(Flight') : Flight'[i] = Flight[i + 1]
           /\ \A i \in 0 .. Len(Flight') :
                EndOf(confirmed', Flight', i) = EndOf(confirmed, Flight, i + 1)
<1>1. /\ Flight \in Seq(Batches) /\ confirmed \in Seq(Frames)
      /\ Flight # <<>> /\ Flight' = Tail(Flight) /\ confirmed' = confirmed \o Flight[1]
    BY FlightType, FlightConfirms DEF TypeOK
<1>2. /\ Len(Flight) \in Nat /\ Len(Flight) >= 1
      /\ Len(Flight') = Len(Flight) - 1
      /\ \A i \in 1 .. Len(Flight') : Flight'[i] = Flight[i + 1]
    BY <1>1, HeadTailProperties, EmptySeq
<1>3. Follows(Flight[1], Len(confirmed))
    BY <1>2 DEF InFlight, EndOf
<1> QED
    BY <1>1, <1>2, <1>3, EndsTail

LEMMA InFlightStep ==
    TypeOK /\ InFlight /\ Consecutive /\ [Next]_vars => InFlight'
<1> SUFFICES ASSUME TypeOK, InFlight, Consecutive, [Next]_vars PROVE InFlight'
    OBVIOUS
<1>1. /\ Flight \in Seq(Batches) /\ Len(Flight) \in Nat /\ confirmed \in Seq(Frames)
      /\ \A i \in 1 .. Len(Flight) : Flight[i] \in Batches /\ Flight[i] \in Seq(Frames)
    BY FlightType DEF TypeOK
<1>2. CASE ProcessorFlushes
  <2>1. batch \in Batches /\ Flight' = Append(Flight, batch) /\ confirmed' = confirmed
    BY <1>2, FlightFlushes
  <2>2. /\ Len(Flight') = Len(Flight) + 1
        /\ Flight'[Len(Flight) + 1] = batch
        /\ \A i \in 1 .. Len(Flight) : Flight'[i] = Flight[i]
    BY <1>1, <2>1, AppendProperties
  <2>3. \A i \in 0 .. Len(Flight) :
            EndOf(confirmed', Flight', i) = EndOf(confirmed, Flight, i)
    BY <1>1, <2>1, EndsAppend
  <2>4. Follows(batch, Flushed)
    BY <1>2 DEF ProcessorFlushes, Consecutive, WriterUp, Sound
  <2>5. ASSUME NEW i \in 1 .. Len(Flight')
        PROVE  Follows(Flight'[i], EndOf(confirmed', Flight', i - 1))
    <3>1. i - 1 \in 0 .. Len(Flight)
        BY <1>1, <2>2
    <3>2. CASE i \in 1 .. Len(Flight)
        BY <2>2, <2>3, <3>1, <3>2 DEF InFlight
    <3>3. CASE i = Len(Flight) + 1
      <4>1. i - 1 = Len(Flight)
        BY <1>1, <3>3
      <4> QED
        BY <2>2, <2>3, <2>4, <3>1, <3>3, <4>1 DEF Flushed
    <3> QED
        BY <1>1, <2>2, <3>2, <3>3
  <2> QED
    BY <2>1, <2>5 DEF InFlight
<1>3. CASE WriterConfirms
  <2>1. /\ Len(Flight) >= 1 /\ Len(Flight') = Len(Flight) - 1
        /\ \A i \in 1 .. Len(Flight') : Flight'[i] = Flight[i + 1]
        /\ \A i \in 0 .. Len(Flight') :
              EndOf(confirmed', Flight', i) = EndOf(confirmed, Flight, i + 1)
        /\ confirmed' = confirmed \o Flight[1]
    BY <1>3, ConfirmedEnds, FlightConfirms
  <2>2. Follows(confirmed', 0)
    <3>1. Follows(Flight[1], 0 + Len(confirmed)) /\ Flight[1] \in Seq(Frames)
        BY <1>1, <2>1 DEF InFlight, EndOf
    <3> QED
        BY <1>1, <2>1, <3>1, FollowsConcat DEF InFlight
  <2>3. ASSUME NEW i \in 1 .. Len(Flight')
        PROVE  Follows(Flight'[i], EndOf(confirmed', Flight', i - 1))
    <3>1. i - 1 \in 0 .. Len(Flight') /\ i + 1 \in 1 .. Len(Flight)
          /\ (i - 1) + 1 = i /\ (i + 1) - 1 = i
        BY <1>1, <2>1
    <3>2. EndOf(confirmed', Flight', i - 1) = EndOf(confirmed, Flight, i)
        BY <2>1, <3>1
    <3>3. Follows(Flight[i + 1], EndOf(confirmed, Flight, i))
        BY <3>1 DEF InFlight
    <3> QED
        BY <2>1, <3>2, <3>3
  <2> QED
    BY <2>2, <2>3 DEF InFlight
<1>4. CASE WriterLost
  <2>1. confirmed' = confirmed
    BY <1>4 DEF WriterLost, WriterStops
  <2>2. /\ Flight' \in Seq(Batches) /\ Len(Flight') <= Len(Flight)
        /\ \A i \in 1 .. Len(Flight') : Flight'[i] = Flight[i]
        /\ \A i \in 0 .. Len(Flight') :
              EndOf(confirmed', Flight', i) = EndOf(confirmed, Flight, i)
    BY <1>4, FlightFails
  <2>3. ASSUME NEW i \in 1 .. Len(Flight')
        PROVE  Follows(Flight'[i], EndOf(confirmed', Flight', i - 1))
    <3>1. i - 1 \in 0 .. Len(Flight') /\ i \in 1 .. Len(Flight)
        BY <1>1, <2>2
    <3> QED
        BY <2>2, <3>1 DEF InFlight
  <2> QED
    BY <2>1, <2>3 DEF InFlight
<1>5. CASE Flight' = Flight /\ confirmed' = confirmed
    BY <1>5 DEF InFlight
<1> QED
    BY <1>2, <1>3, <1>4, <1>5, FlightSteps

LEMMA OneMoreBatch ==
    ASSUME NEW n \in Nat, NEW i \in 0 .. n
    PROVE  BatchSize * (n + 1 - i) = BatchSize * (n - i) + BatchSize
<1>1. BatchSize \in Nat /\ n - i \in Nat
    BY PipelineAssumption
<1>2. \A m \in Nat : BatchSize * (m + 1) = BatchSize * m + BatchSize
    BY <1>1
<1>3. n + 1 - i = (n - i) + 1
    OBVIOUS
<1> QED
    BY <1>1, <1>2, <1>3

LEMMA SpreadStep ==
    TypeOK /\ Capacities /\ InFlight /\ Consecutive /\ Spread /\ [Next]_vars => Spread'
<1> SUFFICES ASSUME TypeOK, Capacities, InFlight, Consecutive, Spread, [Next]_vars
             PROVE  Spread'
    OBVIOUS
<1>1. /\ Flight \in Seq(Batches) /\ Len(Flight) \in Nat /\ batch \in Seq(Frames)
      /\ \A i \in 0 .. Len(Flight) : EndOf(confirmed, Flight, i) \in Nat
    BY FlightType, FlushedNat DEF TypeOK
<1>2. CASE ProcessorFlushes
  <2>1. batch \in Batches /\ Flight' = Append(Flight, batch) /\ confirmed' = confirmed
    BY <1>2, FlightFlushes
  <2>2. Len(Flight') = Len(Flight) + 1
    BY <1>1, <2>1, AppendProperties
  <2>3. \A i \in 0 .. Len(Flight) :
            EndOf(confirmed', Flight', i) = EndOf(confirmed, Flight, i)
    BY <1>1, <2>1, EndsAppend
  <2>4. EndOf(confirmed', Flight', Len(Flight) + 1) = Flushed + Len(batch)
    <3>1. Follows(batch, Flushed) /\ Flushed \in Nat
        BY <1>2, FlushedNat DEF ProcessorFlushes, Consecutive, WriterUp, Sound
    <3> QED
        BY <1>1, <2>1, <3>1, EndsAppend, FollowsLast
  <2>5. Len(batch) <= BatchSize /\ Len(batch) \in Nat
    BY <1>1 DEF Capacities
  <2>6. ASSUME NEW i \in 0 .. Len(Flight'), NEW j \in i .. Len(Flight')
        PROVE  EndOf(confirmed', Flight', j)
                 <= EndOf(confirmed', Flight', i) + BatchSize * (j - i)
    <3>1. CASE j <= Len(Flight)
      <4>1. i \in 0 .. Len(Flight) /\ j \in i .. Len(Flight) /\ j \in 0 .. Len(Flight)
        BY <1>1, <2>2, <3>1
      <4> QED
        BY <2>3, <4>1 DEF Spread
    <3>2. CASE i <= Len(Flight) /\ j = Len(Flight) + 1
      <4>1. i \in 0 .. Len(Flight) /\ Len(Flight) \in i .. Len(Flight)
        BY <1>1, <2>2, <3>2
      <4>2. Flushed <= EndOf(confirmed, Flight, i) + BatchSize * (Len(Flight) - i)
        BY <4>1 DEF Spread, Flushed
      <4>3. BatchSize * (j - i) = BatchSize * (Len(Flight) - i) + BatchSize
        <5>1. j - i = Len(Flight) + 1 - i
            BY <3>2
        <5> QED
            BY <1>1, <4>1, <5>1, OneMoreBatch
      <4>4. EndOf(confirmed', Flight', i) = EndOf(confirmed, Flight, i)
        BY <2>3, <4>1
      <4>5. /\ Flushed \in Nat /\ EndOf(confirmed, Flight, i) \in Nat
            /\ BatchSize * (Len(Flight) - i) \in Int /\ BatchSize \in Nat
        BY <1>1, <4>1, FlushedNat, PipelineAssumption
      <4> QED
        BY <2>4, <2>5, <3>2, <4>2, <4>3, <4>4, <4>5
    <3>3. CASE i = Len(Flight) + 1 /\ j = Len(Flight) + 1
      <4>1. BatchSize * (j - i) = 0
        BY <1>1, <3>3, PipelineAssumption
      <4>2. EndOf(confirmed', Flight', i) \in Nat
        BY <2>4, <2>5, <3>3, FlushedNat
      <4> QED
        BY <3>3, <4>1, <4>2
    <3> QED
        BY <1>1, <2>2, <3>1, <3>2, <3>3
  <2> QED
    BY <2>6 DEF Spread
<1>3. CASE WriterConfirms
  <2>1. /\ Len(Flight') = Len(Flight) - 1
        /\ \A i \in 0 .. Len(Flight') :
              EndOf(confirmed', Flight', i) = EndOf(confirmed, Flight, i + 1)
    BY <1>3, ConfirmedEnds
  <2>2. ASSUME NEW i \in 0 .. Len(Flight'), NEW j \in i .. Len(Flight')
        PROVE  EndOf(confirmed', Flight', j)
                 <= EndOf(confirmed', Flight', i) + BatchSize * (j - i)
    <3>1. /\ i + 1 \in 0 .. Len(Flight) /\ j + 1 \in i + 1 .. Len(Flight)
          /\ j \in 0 .. Len(Flight') /\ (j + 1) - (i + 1) = j - i
        BY <1>1, <2>1
    <3>2. EndOf(confirmed, Flight, j + 1)
            <= EndOf(confirmed, Flight, i + 1) + BatchSize * ((j + 1) - (i + 1))
        BY <3>1 DEF Spread
    <3> QED
        BY <2>1, <3>1, <3>2
  <2> QED
    BY <2>2 DEF Spread
<1>4. CASE WriterLost
  <2>1. /\ Len(Flight') <= Len(Flight) /\ Len(Flight') \in Nat
        /\ \A i \in 0 .. Len(Flight') :
              EndOf(confirmed', Flight', i) = EndOf(confirmed, Flight, i)
    BY <1>4, FlightFails, LenProperties
  <2>2. ASSUME NEW i \in 0 .. Len(Flight'), NEW j \in i .. Len(Flight')
        PROVE  EndOf(confirmed', Flight', j)
                 <= EndOf(confirmed', Flight', i) + BatchSize * (j - i)
    <3>1. /\ i \in 0 .. Len(Flight) /\ j \in i .. Len(Flight) /\ j \in 0 .. Len(Flight')
        BY <1>1, <2>1
    <3> QED
        BY <2>1, <3>1 DEF Spread
  <2> QED
    BY <2>2 DEF Spread
<1>5. CASE Flight' = Flight /\ confirmed' = confirmed
    BY <1>5 DEF Spread
<1> QED
    BY <1>2, <1>3, <1>4, <1>5, FlightSteps

LEMMA Counts ==
    ASSUME TypeOK
    PROVE  /\ Flushed \in Nat /\ Processed \in Nat /\ Decoded \in Nat
           /\ Pushed \in Nat /\ Received \in Nat
           /\ Len(sent) \in Nat /\ Len(wire) \in Nat /\ Len(hand) \in Nat
           /\ Len(chan) \in Nat /\ Len(pool) \in Nat /\ Len(batch) \in Nat
<1>1. /\ Len(sent) \in Nat /\ Len(wire) \in Nat /\ Len(hand) \in Nat
      /\ Len(chan) \in Nat /\ Len(pool) \in Nat /\ Len(batch) \in Nat
    BY LenProperties DEF TypeOK
<1>2. Flushed \in Nat
    BY FlushedNat
<1> QED
    BY <1>1, <1>2 DEF Processed, Decoded, Pushed, Received

LEMMA FlushedFlushes ==
    ASSUME TypeOK, Consecutive, ProcessorFlushes
    PROVE  Flushed' = Flushed + Len(batch)
<1>1. /\ Flight \in Seq(Batches) /\ Len(Flight) \in Nat /\ batch \in Batches
      /\ Flight' = Append(Flight, batch) /\ confirmed' = confirmed
    BY FlightType, FlightFlushes
<1>2. Len(Flight') = Len(Flight) + 1
    BY <1>1, AppendProperties
<1>3. Follows(batch, Flushed) /\ Flushed \in Nat
    BY FlushedNat DEF ProcessorFlushes, Consecutive, WriterUp, Sound
<1>4. EndOf(confirmed', Flight', Len(Flight) + 1) = Flushed + Len(batch)
    BY <1>1, <1>3, EndsAppend, FollowsLast
<1> QED
    BY <1>2, <1>4 DEF Flushed

LEMMA FlushedConfirms ==
    ASSUME TypeOK, InFlight, WriterConfirms
    PROVE  Flushed' = Flushed
<1>1. /\ Len(Flight) \in Nat /\ Len(Flight) >= 1 /\ Len(Flight') = Len(Flight) - 1
      /\ \A i \in 0 .. Len(Flight') :
            EndOf(confirmed', Flight', i) = EndOf(confirmed, Flight, i + 1)
    BY ConfirmedEnds
<1>2. Len(Flight') \in 0 .. Len(Flight') /\ Len(Flight') + 1 = Len(Flight)
    BY <1>1
<1> QED
    BY <1>1, <1>2 DEF Flushed

LEMMA SocketSteps ==
    ASSUME [Next]_vars, socket' # "broken"
    PROVE  socket # "broken"
<1>1. CASE UNCHANGED socket
    BY <1>1
<1>2. CASE socket = "open"
    BY <1>2
<1> QED
    BY <1>1, <1>2, Actions, Zenon DEF Connected, ReaderDropped, Join, vars,
        ship, reading, ServerSends, ServerForks, ServerGetsAck, ServerCloses,
        SocketBreaks, ReaderReceives, ReaderSeesEnd, ReaderPushes, ReaderFindsClosed,
        ReaderAcks, PoolTakes, PoolEnds, PoolLost, PoolStops, ProcessorTakes, ProcessorFlushes,
        ProcessorEnds, ProcessorLost, ProcessorStops, WriterTakes, WriterConfirms, WriterLost, WriterStops,
        WriterEnds, JoinOk, JoinErr

LEMMA ConsecutiveStep ==
    TypeOK /\ Capacities /\ Stream /\ InFlight /\ Consecutive /\ [Next]_vars
        => Consecutive'
<1> SUFFICES ASSUME TypeOK, Capacities, Stream, InFlight, Consecutive, [Next]_vars
             PROVE  Consecutive'
    OBVIOUS
<1>1. /\ sent \in Seq(Frames) /\ wire \in Seq(Frames) /\ hand \in Seq(Frames)
      /\ chan \in Seq(Frames) /\ pool \in Seq(Frames) /\ batch \in Seq(Frames)
    BY DEF TypeOK
<1>2. /\ Flushed \in Nat /\ Processed \in Nat /\ Decoded \in Nat
      /\ Pushed \in Nat /\ Received \in Nat
      /\ Len(sent) \in Nat /\ Len(wire) \in Nat /\ Len(hand) \in Nat
      /\ Len(chan) \in Nat /\ Len(pool) \in Nat /\ Len(batch) \in Nat
    BY Counts
<1>3. /\ WriterUp' => WriterUp
      /\ ProcessorUp' => ProcessorUp
      /\ PoolUp' => PoolUp
      /\ socket' # "broken" => socket # "broken"
    BY UpSteps, SocketSteps
<1>4. /\ ProcessorUp => WriterUp
      /\ PoolUp => ProcessorUp
    BY DEF ProcessorUp, PoolUp
<1>5. /\ \A b : Follows(<<>>, b)
      /\ \A X \in Seq(Frames) : X # <<>> => Head(X) \in Frames
    BY HeadTailProperties, EmptySeq DEF Follows
<1> USE DEF Consecutive, Processed, Decoded, Pushed, Received
<1>6. CASE ServerSends
  <2>1. /\ Len(sent') = Len(sent) + 1 /\ Len(wire') = Len(wire) + 1
    <3>1. [num |-> next, pos |-> Len(sent) + 1] \in Frames
        BY <1>6 DEF ServerSends, TypeOK, Frames
    <3> QED
        BY <1>1, <1>6, <3>1, AppendProperties DEF ServerSends
  <2>2. /\ Flushed' = Flushed
        /\ hand' = hand /\ chan' = chan /\ pool' = pool /\ batch' = batch
    BY <1>6, Zenon DEF ServerSends, reading, Flushed, Flight
  <2> QED
    BY <1>2, <1>3, <2>1, <2>2
<1>7. CASE SocketBreaks
  <2>1. /\ Flushed' = Flushed /\ socket' = "broken"
        /\ hand' = hand /\ chan' = chan /\ pool' = pool /\ batch' = batch
    BY <1>7, Zenon DEF SocketBreaks, reading, Flushed, Flight
  <2> QED
    BY <1>3, <2>1
<1>19. CASE ReaderDropped
  <2>1. /\ Flushed' = Flushed /\ socket' = "broken" /\ hand' = <<>>
        /\ chan' = chan /\ pool' = pool /\ batch' = batch
    BY <1>19, Zenon DEF ReaderDropped, Flushed, Flight
  <2> QED
    BY <1>3, <1>5, <2>1
<1>8. CASE ReaderReceives
  <2>1. /\ wire # <<>> /\ hand' = <<Head(wire)>> /\ wire' = Tail(wire) /\ hand = <<>>
        /\ Flushed' = Flushed
        /\ chan' = chan /\ pool' = pool /\ batch' = batch /\ sent' = sent
    BY <1>8, Zenon DEF ReaderReceives, AtRecv, Flushed, Flight
  <2>2. /\ Len(hand) = 0 /\ Len(wire) >= 1 /\ Len(wire') = Len(wire) - 1
        /\ Len(hand') = 1 /\ hand'[1] = wire[1]
    BY <1>1, <2>1, EmptySeq, HeadTailProperties
  <2>3. socket # "broken"
    BY <2>1 DEF Stream
  <2>4. wire[1].pos = Len(sent) - Len(wire) + 1
    BY <1>2, <2>2, SMTT(20) DEF Stream
  <2>5. PoolUp => Follows(hand', Pushed')
    BY <1>2, <2>1, <2>2, <2>3, <2>4, SMTT(20) DEF Follows
  <2> QED
    BY <1>2, <1>3, <2>1, <2>2, <2>3, <2>5
<1>9. CASE ReaderPushes
  <2>1. /\ hand # <<>> /\ hand' = <<>> /\ chan' = Append(chan, Head(hand))
        /\ stage["pool"] = "run"
        /\ Flushed' = Flushed
        /\ pool' = pool /\ batch' = batch /\ wire' = wire /\ sent' = sent
    BY <1>9, Zenon DEF ReaderPushes, ship, Flushed, Flight
  <2>2. /\ Len(chan') = Len(chan) + 1 /\ Len(hand') = 0 /\ Len(hand) = 1
        /\ Head(hand) \in Frames
    <3>1. Head(hand) \in Frames
        BY <1>1, <1>5, <2>1
    <3>2. Len(chan') = Len(chan) + 1 /\ Len(hand') = 0
        BY <1>1, <2>1, <3>1, EmptySeq, AppendProperties
    <3>3. Len(hand) = 1
        BY <2>1, HandHoldsOne
    <3> QED
        BY <3>1, <3>2, <3>3
  <2>3. ProcessorUp => PoolUp
    BY <2>1 DEF PoolUp, Sound
  <2>4. ProcessorUp => Follows(chan', Decoded)
    <3>1. ProcessorUp => Head(hand).pos = Decoded + Len(chan) + 1
        BY <1>1, <1>2, <2>1, <2>3, FollowsTail
    <3> QED
        BY <1>1, <1>2, <2>1, <2>2, <3>1, FollowsAppend
  <2> QED
    BY <1>2, <1>3, <1>4, <1>5, <2>1, <2>2, <2>4
<1>10. CASE PoolTakes
  <2>1. /\ chan # <<>> /\ pool' = Append(pool, Head(chan)) /\ chan' = Tail(chan)
        /\ Flushed' = Flushed
        /\ hand' = hand /\ batch' = batch /\ wire' = wire /\ sent' = sent
    BY <1>10, Zenon DEF PoolTakes, ship, reading, Flushed, Flight
  <2>2. Head(chan) \in Frames
    BY <1>1, <1>5, <2>1
  <2>3. Len(pool') = Len(pool) + 1 /\ Len(chan') = Len(chan) - 1
    BY <1>1, <2>1, <2>2, HeadTailProperties, AppendProperties
  <2>4. ProcessorUp => Head(chan).pos = Decoded + 1 /\ Follows(chan', Decoded + 1)
    BY <1>1, <1>2, <2>1, FollowsTail
  <2>5. ProcessorUp => Follows(pool', Processed)
    BY <1>1, <1>2, <2>1, <2>2, <2>4, FollowsAppend
  <2>6. Decoded' = Decoded + 1
    BY <1>2, <2>1, <2>3
  <2> QED
    BY <1>2, <1>3, <2>1, <2>3, <2>4, <2>5, <2>6
<1>11. CASE PoolLost
  <2>1. /\ chan' = <<>> /\ Flushed' = Flushed /\ batch' = batch
        /\ \E how \in {"err", "aborted"} : stage' = [stage EXCEPT !["pool"] = how]
    BY <1>11, Zenon DEF PoolLost, PoolStops, Ends, Flushed, Flight
  <2>2. PICK n \in 0 .. Len(pool) : pool' = SubSeq(pool, 1, n)
    BY <1>11, Zenon DEF PoolLost, PoolStops
  <2>3. ~PoolUp'
    BY <2>1 DEF PoolUp, Sound, TypeOK, Stage
  <2>4. ProcessorUp => Follows(pool', Processed)
    BY <1>1, <1>2, <2>2, FollowsPrefix
  <2> QED
    BY <1>3, <1>5, <2>1, <2>3, <2>4
<1>12. CASE ProcessorTakes
  <2>1. /\ pool # <<>> /\ batch' = Append(batch, Head(pool)) /\ pool' = Tail(pool)
        /\ stage["processor"] = "run"
        /\ Flushed' = Flushed
        /\ hand' = hand /\ chan' = chan /\ wire' = wire /\ sent' = sent
    BY <1>12, Zenon DEF ProcessorTakes, ship, reading, Flushed, Flight
  <2>2. Head(pool) \in Frames
    BY <1>1, <1>5, <2>1
  <2>3. Len(batch') = Len(batch) + 1 /\ Len(pool') = Len(pool) - 1
    BY <1>1, <2>1, <2>2, HeadTailProperties, AppendProperties
  <2>4. WriterUp => ProcessorUp
    BY <2>1 DEF ProcessorUp, Sound
  <2>5. WriterUp => Head(pool).pos = Processed + 1 /\ Follows(pool', Processed + 1)
    BY <1>1, <1>2, <2>1, <2>4, FollowsTail
  <2>6. WriterUp => Follows(batch', Flushed)
    BY <1>1, <1>2, <2>1, <2>2, <2>5, FollowsAppend
  <2>7. Processed' = Processed + 1 /\ Decoded' = Decoded
    BY <1>2, <2>1, <2>3
  <2> QED
    BY <1>2, <1>3, <1>4, <2>1, <2>3, <2>5, <2>6, <2>7
<1>13. CASE ProcessorFlushes
  <2>1. /\ batch' = <<>> /\ Flushed' = Flushed + Len(batch)
        /\ hand' = hand /\ chan' = chan /\ pool' = pool
        /\ wire' = wire /\ sent' = sent
    BY <1>13, FlushedFlushes, Zenon DEF ProcessorFlushes, ship, reading
  <2>2. Len(batch') = 0
    BY <2>1, EmptySeq
  <2>3. Processed' = Processed
    BY <1>2, <2>1, <2>2
  <2> QED
    BY <1>2, <1>3, <1>5, <2>1, <2>3
<1>14. CASE ProcessorLost
  <2>1. /\ Flushed' = Flushed /\ batch' = <<>>
        /\ \E how \in {"err", "aborted"} : stage' = [stage EXCEPT !["processor"] = how]
    BY <1>14, Zenon DEF ProcessorLost, ProcessorStops, Ends, Flushed, Flight
  <2>2. ~ProcessorUp' /\ ~PoolUp'
    BY <2>1 DEF ProcessorUp, PoolUp, Sound, TypeOK, Stage
  <2> QED
    BY <1>3, <1>5, <2>1, <2>2
<1>15. CASE WriterTakes
  <2>1. /\ hand' = hand /\ chan' = chan /\ pool' = pool /\ batch' = batch
        /\ wire' = wire /\ sent' = sent
    BY <1>15, Zenon DEF WriterTakes, ship, reading
  <2>2. Flushed' = Flushed
    BY <1>15, FlightTakes DEF Flushed
  <2> QED
    BY <1>3, <2>1, <2>2
<1>16. CASE WriterConfirms
  <2>1. /\ hand' = hand /\ chan' = chan /\ pool' = pool /\ batch' = batch
        /\ wire' = wire /\ sent' = sent
    BY <1>16, Zenon DEF WriterConfirms, ship, reading
  <2>2. Flushed' = Flushed
    BY <1>16, FlushedConfirms
  <2> QED
    BY <1>3, <2>1, <2>2
<1>17. CASE WriterLost
  <2>1. \E how \in {"err", "aborted"} : stage' = [stage EXCEPT !["writer"] = how]
    BY <1>17, Zenon DEF WriterLost, WriterStops, Ends
  <2>2. ~WriterUp' /\ ~ProcessorUp' /\ ~PoolUp'
    BY <2>1 DEF WriterUp, ProcessorUp, PoolUp, Sound, TypeOK, Stage
  <2> QED
    BY <2>2
<1>18. CASE UNCHANGED <<sent, wire, hand, chan, pool, batch, queue, writing, confirmed>>
  <2>1. Flushed' = Flushed
    BY <1>18 DEF Flushed, Flight
  <2> QED
    BY <1>3, <1>18, <2>1
<1> QED
    BY <1>6, <1>7, <1>8, <1>9, <1>10, <1>11, <1>12, <1>13, <1>14, <1>15, <1>16, <1>17,
       <1>18, <1>19, FrameSteps

LEMMA ReceivedSteps ==
    ASSUME TypeOK, Capacities, Stream, InFlight, Consecutive, [Next]_vars, PoolUp'
    PROVE  \/ ReaderReceives
           \/ ReaderDropped /\ Received' = Received - Len(hand)
           \/ Received' = Received
<1>1. /\ sent \in Seq(Frames) /\ wire \in Seq(Frames) /\ hand \in Seq(Frames)
      /\ chan \in Seq(Frames) /\ pool \in Seq(Frames) /\ batch \in Seq(Frames)
    BY DEF TypeOK
<1>2. /\ Flushed \in Nat /\ Processed \in Nat /\ Decoded \in Nat
      /\ Pushed \in Nat /\ Received \in Nat
      /\ Len(sent) \in Nat /\ Len(wire) \in Nat /\ Len(hand) \in Nat
      /\ Len(chan) \in Nat /\ Len(pool) \in Nat /\ Len(batch) \in Nat
    BY Counts
<1>5. \A X \in Seq(Frames) : X # <<>> => Head(X) \in Frames
    BY HeadTailProperties
<1> USE DEF Processed, Decoded, Pushed, Received
<1>6. CASE UNCHANGED <<hand, chan, pool, batch, queue, writing, confirmed>>
    BY <1>6 DEF Flushed, Flight
<1>7. CASE ReaderDropped
  <2>1. /\ hand' = <<>> /\ Flushed' = Flushed
        /\ chan' = chan /\ pool' = pool /\ batch' = batch
    BY <1>7, Zenon DEF ReaderDropped, Flushed, Flight
  <2>2. Len(hand') = 0
    BY <2>1, EmptySeq
  <2> QED
    BY <1>2, <1>7, <2>1, <2>2
<1>9. CASE ReaderPushes
  <2>1. /\ hand # <<>> /\ hand' = <<>> /\ chan' = Append(chan, Head(hand))
        /\ Flushed' = Flushed
        /\ pool' = pool /\ batch' = batch
    BY <1>9, Zenon DEF ReaderPushes, Flushed, Flight
  <2>2. Len(hand) = 1
    BY <2>1, HandHoldsOne
  <2>3. Len(chan') = Len(chan) + 1 /\ Len(hand') = 0
    BY <1>1, <1>5, <2>1, EmptySeq, AppendProperties
  <2> QED
    BY <1>2, <2>1, <2>2, <2>3
<1>10. CASE PoolTakes
  <2>1. /\ chan # <<>> /\ pool' = Append(pool, Head(chan)) /\ chan' = Tail(chan)
        /\ Flushed' = Flushed /\ hand' = hand /\ batch' = batch
    BY <1>10, Zenon DEF PoolTakes, reading, Flushed, Flight
  <2>3. Len(pool') = Len(pool) + 1 /\ Len(chan') = Len(chan) - 1
    BY <1>1, <1>5, <2>1, HeadTailProperties, AppendProperties
  <2> QED
    BY <1>2, <2>1, <2>3
<1>12. CASE ProcessorTakes
  <2>1. /\ pool # <<>> /\ batch' = Append(batch, Head(pool)) /\ pool' = Tail(pool)
        /\ Flushed' = Flushed /\ hand' = hand /\ chan' = chan
    BY <1>12, Zenon DEF ProcessorTakes, reading, Flushed, Flight
  <2>3. Len(batch') = Len(batch) + 1 /\ Len(pool') = Len(pool) - 1
    BY <1>1, <1>5, <2>1, HeadTailProperties, AppendProperties
  <2> QED
    BY <1>2, <2>1, <2>3
<1>13. CASE ProcessorFlushes
  <2>1. /\ batch' = <<>> /\ Flushed' = Flushed + Len(batch)
        /\ hand' = hand /\ chan' = chan /\ pool' = pool
    BY <1>13, FlushedFlushes, Zenon DEF ProcessorFlushes, reading
  <2>2. Len(batch') = 0
    BY <2>1, EmptySeq
  <2> QED
    BY <1>2, <2>1, <2>2
<1>15. CASE WriterTakes
  <2>1. /\ hand' = hand /\ chan' = chan /\ pool' = pool /\ batch' = batch
    BY <1>15, Zenon DEF WriterTakes, reading
  <2>2. Flushed' = Flushed
    BY <1>15, FlightTakes DEF Flushed
  <2> QED
    BY <2>1, <2>2
<1>16. CASE WriterConfirms
  <2>1. /\ hand' = hand /\ chan' = chan /\ pool' = pool /\ batch' = batch
    BY <1>16, Zenon DEF WriterConfirms, reading
  <2>2. Flushed' = Flushed
    BY <1>16, FlushedConfirms
  <2> QED
    BY <2>1, <2>2
<1>17. ~PoolLost /\ ~ProcessorLost /\ ~WriterLost
  <2>1. ~PoolLost
    BY DEF PoolLost, PoolStops, Ends, PoolUp, Sound, TypeOK, Stage
  <2>2. ~ProcessorLost
    BY DEF ProcessorLost, ProcessorStops, Ends, PoolUp, ProcessorUp, Sound, TypeOK, Stage
  <2>3. ~WriterLost
    BY DEF WriterLost, WriterStops, Ends, PoolUp, ProcessorUp, WriterUp, Sound, TypeOK, Stage
  <2> QED
    BY <2>1, <2>2, <2>3
<1> QED
    BY <1>6, <1>7, <1>9, <1>10, <1>12, <1>13, <1>15, <1>16, <1>17, FrameSteps, Zenon
    DEF ServerSends, SocketBreaks, reading

LEMMA HandSteps ==
    ASSUME [Next]_vars
    PROVE  \/ ServerSends \/ SocketBreaks \/ ReaderDropped \/ ReaderReceives \/ ReaderPushes
           \/ UNCHANGED <<sent, wire, hand>>
BY FrameSteps, Zenon DEF PoolTakes, PoolLost, PoolStops, ProcessorTakes, ProcessorFlushes,
    ProcessorLost, ProcessorStops, WriterTakes, WriterConfirms, WriterLost, WriterStops, ship, reading

LEMMA ReaderStageSteps ==
    ASSUME TypeOK, [Next]_vars
    PROVE  /\ stage'["reader"] = "run" => stage["reader"] = "run"
           /\ stage'["reader"] = "ok" =>
                \/ stage["reader"] = "ok"
                \/ ReaderSeesEnd \/ ReaderPushes \/ ReaderFindsClosed
<1>0. stage \in [Stage -> {"run", "ok", "err", "aborted"}]
    BY DEF TypeOK
<1> USE DEF Ends, Stage, AtRecv, ship, reading
<1>1. CASE ServerSends
    BY <1>1, <1>0 DEF ServerSends
<1>2. CASE ServerForks
    BY <1>2, <1>0 DEF ServerForks
<1>3. CASE ServerGetsAck
    BY <1>3, <1>0 DEF ServerGetsAck
<1>4. CASE ServerCloses
    BY <1>4, <1>0 DEF ServerCloses
<1>5. CASE SocketBreaks
    BY <1>5, <1>0 DEF SocketBreaks
<1>6. CASE ReaderReceives
    BY <1>6, <1>0 DEF ReaderReceives
<1>7. CASE ReaderSeesEnd
    BY <1>7, <1>0 DEF ReaderSeesEnd
<1>8. CASE ReaderPushes
    BY <1>8, <1>0 DEF ReaderPushes
<1>9. CASE ReaderFindsClosed
    BY <1>9, <1>0 DEF ReaderFindsClosed
<1>10. CASE ReaderAcks
    BY <1>10, <1>0 DEF ReaderAcks
<1>11. CASE PoolTakes
    BY <1>11, <1>0 DEF PoolTakes
<1>12. CASE PoolEnds
    BY <1>12, <1>0 DEF PoolEnds
<1>13. CASE PoolLost
    BY <1>13, <1>0 DEF PoolLost, PoolStops
<1>14. CASE ProcessorTakes
    BY <1>14, <1>0 DEF ProcessorTakes
<1>15. CASE ProcessorFlushes
    BY <1>15, <1>0 DEF ProcessorFlushes
<1>16. CASE ProcessorEnds
    BY <1>16, <1>0 DEF ProcessorEnds
<1>17. CASE ProcessorLost
    BY <1>17, <1>0 DEF ProcessorLost, ProcessorStops
<1>18. CASE WriterTakes
    BY <1>18, <1>0 DEF WriterTakes
<1>19. CASE WriterConfirms
    BY <1>19, <1>0 DEF WriterConfirms
<1>20. CASE WriterLost
    BY <1>20, <1>0 DEF WriterLost, WriterStops
<1>21. CASE WriterEnds
    BY <1>21, <1>0 DEF WriterEnds
<1>22. CASE Join
    BY <1>22, <1>0 DEF Join, JoinOk, JoinErr
<1>23. CASE UNCHANGED vars
    BY <1>23, <1>0 DEF vars
<1>24. CASE ReaderDropped /\ outcome = "err"
    BY <1>24, <1>0 DEF ReaderDropped
<1> QED
    BY <1>1, <1>2, <1>3, <1>4, <1>5, <1>6, <1>7, <1>8, <1>9, <1>10, <1>11, <1>12,
       <1>13, <1>14, <1>15, <1>16, <1>17, <1>18, <1>19, <1>20, <1>21, <1>22, <1>23, <1>24,
       Actions

LEMMA ReceivedHand ==
    ASSUME TypeOK, ReaderReceives
    PROVE  Received' = Received + 1 /\ Len(hand') = 1 /\ Len(hand) = 0
<1>1. /\ wire # <<>> /\ hand' = <<Head(wire)>> /\ hand = <<>>
      /\ Flushed' = Flushed
      /\ chan' = chan /\ pool' = pool /\ batch' = batch
    BY Zenon DEF ReaderReceives, AtRecv, Flushed, Flight
<1>2. Len(hand) = 0 /\ Len(hand') = 1
    BY <1>1
<1> QED
    BY <1>1, <1>2, Counts DEF Received, Pushed, Decoded, Processed

LEMMA ReaderAtStep ==
    TypeOK /\ Capacities /\ Stages /\ Stream /\ Genuine /\ InFlight /\ Consecutive
      /\ ReaderAt /\ [Next]_vars => ReaderAt'
<1> SUFFICES ASSUME TypeOK, Capacities, Stages, Stream, Genuine, InFlight, Consecutive,
                    ReaderAt, [Next]_vars
             PROVE  ReaderAt'
    OBVIOUS
<1>1. /\ sent \in Seq(Frames) /\ wire \in Seq(Frames) /\ hand \in Seq(Frames)
      /\ Len(sent) \in Nat /\ Len(wire) \in Nat /\ Received \in Nat
      /\ Len(wire) <= Len(sent)
    BY Counts DEF TypeOK, Stream
<1>2. /\ PoolUp' => PoolUp
      /\ socket' # "broken" => socket # "broken"
    BY UpSteps, SocketSteps
<1>3. ServerSends => /\ Len(sent') = Len(sent) + 1
                     /\ Len(wire') = Len(wire) + 1
                     /\ \A j \in 1 .. Len(sent) : sent'[j] = sent[j]
                     /\ hand' = hand
                     /\ socket = "open"
  <2> SUFFICES ASSUME ServerSends
               PROVE  /\ Len(sent') = Len(sent) + 1
                      /\ Len(wire') = Len(wire) + 1
                      /\ \A j \in 1 .. Len(sent) : sent'[j] = sent[j]
                      /\ hand' = hand
                      /\ socket = "open"
    OBVIOUS
  <2>1. [num |-> next, pos |-> Len(sent) + 1] \in Frames
    BY DEF ServerSends, TypeOK, Frames
  <2>2. hand' = hand /\ socket = "open"
    BY Zenon DEF ServerSends, Connected, reading
  <2> QED
    BY <1>1, <2>1, <2>2, AppendProperties DEF ServerSends
<1>4. ASSUME stage'["reader"] = "run", socket' # "broken"
      PROVE  IF hand' = <<>>
               THEN \A j \in 1 .. Len(sent') - Len(wire') : ~IsLast(sent'[j])
               ELSE hand'[1].pos = Len(sent') - Len(wire')
  <2>1. stage["reader"] = "run" /\ socket # "broken"
    BY <1>2, <1>4, ReaderStageSteps
  <2>2. IF hand = <<>>
          THEN \A j \in 1 .. Len(sent) - Len(wire) : ~IsLast(sent[j])
          ELSE hand[1].pos = Len(sent) - Len(wire)
    BY <2>1 DEF ReaderAt
  <2>3. CASE ServerSends
    <3>1. Len(sent') - Len(wire') = Len(sent) - Len(wire)
      <4>1. Len(sent') = Len(sent) + 1 /\ Len(wire') = Len(wire) + 1
        BY <1>3, <2>3
      <4>2. \A a, b \in Nat : (a + 1) - (b + 1) = a - b
        OBVIOUS
      <4> QED
        BY <1>1, <4>1, <4>2, Zenon
    <3>2. \A j \in 1 .. Len(sent) - Len(wire) : j \in 1 .. Len(sent) /\ sent'[j] = sent[j]
        BY <1>1, <1>3, <2>3
    <3>3. hand' = hand
        BY <1>3, <2>3
    <3> QED
        BY <2>2, <3>1, <3>2, <3>3
  <2>4. CASE SocketBreaks
    BY <1>4, <2>4 DEF SocketBreaks
  <2>8. CASE ReaderDropped
    BY <1>4, <2>8 DEF ReaderDropped
  <2>5. CASE ReaderReceives
    <3>1. /\ wire # <<>> /\ hand' = <<Head(wire)>> /\ wire' = Tail(wire) /\ sent' = sent
        BY <2>5, Zenon DEF ReaderReceives
    <3>2. /\ Len(wire) >= 1 /\ Len(wire') = Len(wire) - 1
          /\ hand' # <<>> /\ hand'[1] = wire[1]
        BY <1>1, <3>1, EmptySeq, HeadTailProperties
    <3>3. wire[1].pos = Len(sent) - Len(wire) + 1
      <4>1. wire[1] = sent[Len(sent) - Len(wire) + 1]
        BY <3>2 DEF Stream
      <4>2. Len(sent) - Len(wire) + 1 \in 1 .. Len(sent)
        BY <1>1, <3>2
      <4> QED
        BY <4>1, <4>2 DEF Stream
    <3> QED
        BY <1>1, <3>1, <3>2, <3>3
  <2>6. CASE ReaderPushes
    <3>1. hand # <<>> /\ hand' = <<>> /\ wire' = wire /\ sent' = sent
        BY <2>6, Zenon DEF ReaderPushes, ship
    <3>2. ~IsLast(Head(hand))
        BY <1>4, <2>6 DEF ReaderPushes, Ends, TypeOK, Stage
    <3>3. Len(hand) = 1 /\ Head(hand) = hand[1]
        BY <3>1, HandHoldsOne
    <3>4. Wanted(sent, hand[1])
        BY <3>3 DEF Genuine, AllWanted
    <3>5. hand[1].pos = Len(sent) - Len(wire)
        BY <2>2, <3>1
    <3>6. ~IsLast(sent[Len(sent) - Len(wire)])
        BY <3>2, <3>3, <3>4, <3>5 DEF Wanted
    <3>7. \A j \in 1 .. (Len(sent) - Len(wire)) - 1 : ~IsLast(sent[j])
        BY <3>4, <3>5 DEF Wanted
    <3> QED
        BY <1>1, <3>1, <3>6, <3>7
  <2>7. CASE UNCHANGED <<sent, wire, hand>>
    BY <2>2, <2>7
  <2> QED
    BY <2>3, <2>4, <2>5, <2>6, <2>7, <2>8, HandSteps
<1>5. ASSUME stage'["reader"] = "ok", PoolUp'
      PROVE  /\ hand' = <<>>
             /\ \/ Received' \in 1 .. Len(sent') /\ IsLast(sent'[Received'])
                \/ socket' = "closed" /\ wire' = <<>>
  <2>1. CASE ReaderSeesEnd
    <3>1. /\ hand' = hand /\ wire' = wire /\ socket' = socket
          /\ hand = <<>> /\ wire = <<>>
          /\ stage' = [stage EXCEPT !["reader"] = IF socket = "closed" THEN "ok" ELSE "err"]
        BY <2>1, Zenon DEF ReaderSeesEnd, AtRecv, Ends, ship, reading
    <3>2. socket = "closed"
        BY <1>5, <3>1 DEF TypeOK, Stage
    <3> QED
        BY <3>1, <3>2
  <2>2. CASE ReaderFindsClosed
    <3>1. stage["reader"] = "run" /\ stage["pool"] = "ok"
        BY <1>2, <1>5, <2>2 DEF ReaderFindsClosed, PoolUp, Sound
    <3> QED
        BY <3>1 DEF Stages
  <2>3. CASE ReaderPushes /\ stage["reader"] # "ok"
    <3>1. hand # <<>> /\ hand' = <<>> /\ sent' = sent
        BY <2>3, Zenon DEF ReaderPushes, ship
    <3>2. IsLast(Head(hand))
        BY <1>5, <2>3, Zenon DEF ReaderPushes
    <3>3. Len(hand) = 1 /\ Head(hand) = hand[1]
        BY <3>1, HandHoldsOne
    <3>4. Received' = Received
      <4>1. ~ReaderReceives /\ ~ReaderDropped
        BY <1>5, <3>1 DEF ReaderReceives, AtRecv, ReaderDropped, Ends, TypeOK, Stage
      <4> QED
        BY <1>5, <4>1, ReceivedSteps
    <3>5. hand[1].pos = Received
      <4>1. Follows(hand, Pushed) /\ Pushed \in Nat
        BY <1>2, <1>5, Counts DEF Consecutive
      <4> QED
        BY <3>3, <4>1 DEF Follows, Received
    <3>6. Wanted(sent, hand[1])
        BY <3>3 DEF Genuine, AllWanted
    <3>7. Received \in 1 .. Len(sent) /\ IsLast(sent[Received])
        BY <3>2, <3>3, <3>5, <3>6 DEF Wanted
    <3> QED
        BY <3>1, <3>4, <3>7
  <2>4. CASE stage["reader"] = "ok"
    <3>1. /\ hand = <<>>
          /\ \/ Received \in 1 .. Len(sent) /\ IsLast(sent[Received])
             \/ socket = "closed" /\ wire = <<>>
        BY <1>2, <1>5, <2>4 DEF ReaderAt
    <3>2. ~ReaderReceives /\ ~ReaderPushes /\ ~ReaderDropped
        BY <2>4 DEF ReaderReceives, AtRecv, ReaderPushes, ReaderDropped
    <3>3. Received' = Received
        BY <1>5, <3>2, ReceivedSteps
    <3>4. hand' = hand /\ (socket = "closed" => wire' = wire)
        BY <1>3, <3>2, HandSteps DEF SocketBreaks, Connected, reading
    <3>5. socket = "closed" => socket' = "closed"
        BY <3>2, Actions, Zenon DEF Join, vars, Connected,
            ship, reading, ServerSends, ServerForks, ServerGetsAck, ServerCloses,
            SocketBreaks, ReaderReceives, ReaderSeesEnd, ReaderPushes, ReaderFindsClosed,
            ReaderAcks, PoolTakes, PoolEnds, PoolLost, PoolStops, ProcessorTakes, ProcessorFlushes,
            ProcessorEnds, ProcessorLost, ProcessorStops, WriterTakes, WriterConfirms, WriterLost, WriterStops,
            WriterEnds, JoinOk, JoinErr
    <3>6. Received \in 1 .. Len(sent) =>
            Received \in 1 .. Len(sent') /\ sent'[Received] = sent[Received]
      <4>1. CASE ServerSends
        BY <1>1, <1>3, <4>1
      <4>2. CASE sent' = sent
        BY <4>2
      <4> QED
        BY <3>2, <4>1, <4>2, HandSteps DEF SocketBreaks
    <3> QED
        BY <3>1, <3>3, <3>4, <3>5, <3>6
  <2> QED
    BY <1>5, <2>1, <2>2, <2>3, <2>4, ReaderStageSteps
<1> QED
    BY <1>4, <1>5 DEF ReaderAt

LEMMA CreditCoversStep ==
    TypeOK /\ Capacities /\ Stream /\ InFlight /\ Consecutive /\ CreditCovers
      /\ [Next]_vars => CreditCovers'
<1> SUFFICES ASSUME TypeOK, Capacities, Stream, InFlight, Consecutive, CreditCovers,
                    [Next]_vars, PoolUp'
             PROVE  Len(sent') - Received' + Len(hand') + Count(mustAck') + credit' + acks'
                      <= MaxInFlight
    BY DEF CreditCovers
<1>1. /\ Len(sent) \in Nat /\ Received \in Nat /\ Len(hand) \in Nat
      /\ credit \in Nat /\ acks \in Nat /\ MaxInFlight \in Nat
    BY Counts, PipelineAssumption DEF TypeOK
<1>2. Count(mustAck) \in {0, 1}
    BY Zenon DEF Count
<1>3. Len(sent) - Received + Len(hand) + Count(mustAck) + credit + acks <= MaxInFlight
    BY UpSteps DEF CreditCovers
<1>4. CASE ServerSends
  <2>1. Len(sent') = Len(sent) + 1 /\ credit' = credit - 1
    <3>1. [num |-> next, pos |-> Len(sent) + 1] \in Frames
        BY <1>4 DEF ServerSends, TypeOK, Frames
    <3> QED
        BY <1>4, <3>1, AppendProperties DEF ServerSends, TypeOK
  <2>2. hand' = hand /\ mustAck' = mustAck /\ acks' = acks
    BY <1>4, Zenon DEF ServerSends, reading
  <2>3. Received' = Received
    BY <1>4, Zenon DEF ServerSends, reading, Received, Pushed, Decoded, Processed,
        Flushed, Flight
  <2> QED
    BY <1>1, <1>2, <1>3, <2>1, <2>2, <2>3
<1>5. CASE ServerGetsAck
  <2>1. /\ acks' = acks - 1 /\ credit' = credit + 1
        /\ sent' = sent /\ hand' = hand /\ mustAck' = mustAck
    BY <1>5, Zenon DEF ServerGetsAck, reading
  <2>2. Received' = Received
    BY <1>5, Zenon DEF ServerGetsAck, reading, Received, Pushed, Decoded, Processed,
        Flushed, Flight
  <2> QED
    BY <1>1, <1>2, <1>3, <2>1, <2>2
<1>6. CASE ReaderReceives
  <2>1. sent' = sent /\ mustAck' = mustAck /\ credit' = credit /\ acks' = acks
    BY <1>6, Zenon DEF ReaderReceives
  <2>2. Received' = Received + 1 /\ Len(hand') = 1 /\ Len(hand) = 0
    BY <1>6, ReceivedHand
  <2> QED
    BY <1>1, <1>2, <1>3, <2>1, <2>2
<1>11. CASE ReaderDropped
  <2>1. hand' = <<>> /\ mustAck' = FALSE /\ sent' = sent /\ credit' = credit /\ acks' = acks
    BY <1>11, Zenon DEF ReaderDropped
  <2>2. Count(mustAck') = 0 /\ Len(hand') = 0
    BY <2>1, EmptySeq, Zenon DEF Count
  <2>3. Received' = Received - Len(hand)
    <3>1. CASE Received' = Received - Len(hand)
        BY <3>1
    <3>2. CASE ReaderReceives \/ Received' = Received
      <4>1. Flushed' = Flushed /\ chan' = chan /\ pool' = pool /\ batch' = batch
        BY <1>11, Zenon DEF ReaderDropped, Flushed, Flight
      <4> QED
        BY <2>2, <4>1, Counts DEF Received, Pushed, Decoded, Processed
    <3> QED
        BY <3>1, <3>2, ReceivedSteps
  <2> QED
    BY <1>1, <1>2, <1>3, <2>1, <2>2, <2>3
<1>7. CASE ReaderPushes
  <2>1. /\ hand # <<>> /\ hand' = <<>>
        /\ sent' = sent /\ credit' = credit /\ acks' = acks
    BY <1>7, Zenon DEF ReaderPushes, ship
  <2>2. Len(hand) = 1 /\ ~mustAck /\ Len(hand') = 0
    BY <2>1, HandHoldsOne, EmptySeq
  <2>3. Count(mustAck') \in {0, 1} /\ Count(mustAck) = 0
    BY <2>2, Zenon DEF Count
  <2>4. Received' = Received
    <3>1. ~ReaderReceives /\ ~ReaderDropped
        BY <1>7, <2>1 DEF ReaderReceives, AtRecv, ReaderPushes, ReaderDropped, Ends, TypeOK,
            Stage
    <3> QED
        BY <3>1, ReceivedSteps
  <2> QED
    BY <1>1, <1>3, <2>1, <2>2, <2>3, <2>4
<1>8. CASE ReaderAcks
  <2>1. /\ sent' = sent /\ hand' = hand /\ credit' = credit
    BY <1>8, Zenon DEF ReaderAcks
  <2>2. Received' = Received
    BY <1>8, Zenon DEF ReaderAcks, Received, Pushed, Decoded, Processed, Flushed, Flight
  <2>3. \/ acks' = acks + 1 /\ mustAck /\ ~mustAck'
        \/ acks' = acks /\ mustAck' = mustAck
    BY <1>8, Zenon DEF ReaderAcks
  <2>4. \/ acks' = acks + 1 /\ Count(mustAck) = 1 /\ Count(mustAck') = 0
        \/ acks' = acks /\ Count(mustAck') = Count(mustAck)
    <3>1. CASE acks' = acks + 1 /\ mustAck /\ ~mustAck'
        BY <3>1, Zenon DEF Count
    <3>2. CASE acks' = acks /\ mustAck' = mustAck
        BY <3>2, Zenon
    <3> QED
        BY <2>3, <3>1, <3>2, Zenon
  <2> QED
    BY <1>1, <1>2, <1>3, <2>1, <2>2, <2>4
<1>9. CASE /\ ~ReaderReceives /\ ~ReaderDropped
           /\ UNCHANGED <<sent, hand, mustAck, credit, acks>>
  <2>1. Received' = Received
    BY <1>9, ReceivedSteps
  <2> QED
    BY <1>1, <1>2, <1>3, <1>9, <2>1, Zenon
<1>10. \/ ServerSends \/ ServerGetsAck \/ ReaderReceives \/ ReaderPushes \/ ReaderAcks
       \/ ReaderDropped
       \/ UNCHANGED <<sent, hand, mustAck, credit, acks>>
    BY Actions, Zenon DEF Join, vars, ship, reading,
        ServerForks, ServerCloses, SocketBreaks, ReaderSeesEnd, ReaderFindsClosed,
        PoolTakes, PoolEnds, PoolLost, PoolStops, ProcessorTakes, ProcessorFlushes,
        ProcessorEnds, ProcessorLost, ProcessorStops, WriterTakes, WriterConfirms, WriterLost, WriterStops,
        WriterEnds, JoinOk, JoinErr
<1> QED
    BY <1>4, <1>5, <1>6, <1>7, <1>8, <1>9, <1>10, <1>11

-----------------------------------------------------------------------------
LEMMA InvInit == Init => IInv
<1> SUFFICES ASSUME Init PROVE IInv
    OBVIOUS
<1>1. TypeOK
    BY TypeInit
<1>2. /\ sent = <<>> /\ wire = <<>> /\ hand = <<>> /\ chan = <<>> /\ pool = <<>>
      /\ batch = <<>> /\ queue = <<>> /\ writing = <<>> /\ confirmed = <<>>
      /\ credit = MaxInFlight /\ acks = 0 /\ mustAck = FALSE
      /\ socket = "open" /\ outcome = "none" /\ joined = {}
      /\ stage = [s \in Stage |-> "run"]
    BY Zenon DEF Init
<1>3. Len(<<>>) = 0 /\ MaxInFlight \in Nat \ {0}
    BY PipelineAssumption
<1>4. Flight = <<>> /\ Len(Flight) = 0
    BY <1>2 DEF Flight
<1>5. Count(mustAck) = 0
    BY <1>2, Zenon DEF Count
<1>6. /\ Flushed = 0 /\ Processed = 0 /\ Decoded = 0 /\ Pushed = 0 /\ Received = 0
      /\ EndOf(confirmed, Flight, 0) = 0
    BY <1>2, <1>3, <1>4 DEF Flushed, Processed, Decoded, Pushed, Received, EndOf
<1>7. Capacities
    BY <1>2, <1>3, PipelineAssumption DEF Capacities
<1>8. Stages
    BY <1>2 DEF Stages, Stage
<1>9. CreditConserved
    BY <1>2, <1>3, <1>5 DEF CreditConserved
<1>10. Stream
    BY <1>2, <1>3 DEF Stream
<1>11. Genuine
    BY <1>2, <1>3, <1>4 DEF Genuine, AllWanted
<1>12. InFlight
    BY <1>2, <1>3, <1>4 DEF InFlight, Follows
<1>13. Consecutive
    BY <1>2, <1>3, <1>6 DEF Consecutive, Follows
<1>14. ReaderAt
    BY <1>2, <1>3 DEF ReaderAt, Stage
<1>15. Spread
  <2>1. BatchSize * 0 = 0
    BY PipelineAssumption
  <2> QED
    BY <1>4, <1>6, <2>1 DEF Spread
<1>16. CreditCovers
    BY <1>2, <1>3, <1>5, <1>6 DEF CreditCovers
<1> QED
    BY <1>1, <1>7, <1>8, <1>9, <1>10, <1>11, <1>12, <1>13, <1>14, <1>15, <1>16 DEF IInv

\* The indexer's one run keeps every frame of the stream where the invariant
\* says it is, whatever the server, the socket and the stages do.
THEOREM Invariance == Spec => []IInv
<1>1. Init => IInv
    BY InvInit
<1>2. IInv /\ [Next]_vars => IInv'
    BY TypeStep, CapacityStep, StagesStep, CreditStep, StreamStep, GenuineStep,
       InFlightStep, ConsecutiveStep, ReaderAtStep, SpreadStep, CreditCoversStep
    DEF IInv
<1> QED
    BY <1>1, <1>2, PTL DEF Spec

\* indexer.rs:83-85: no message of credit is lost or granted twice while the
\* reader runs on an open socket.
THEOREM CreditSafety == Spec => []CreditConserved
<1>1. IInv => CreditConserved
    BY DEF IInv
<1> QED
    BY <1>1, Invariance, PTL

\* README.md:32-33: SHIP gets ahead of the confirmed blocks by no more than the
\* stages can hold.
THEOREM BackpressureSafety == Spec => []Backpressure
<1>1. IInv => Backpressure
  <2> SUFFICES ASSUME IInv, \A s \in Stage : stage[s] # "err"
               PROVE  Len(sent) - Len(confirmed) <=
                        2 * MaxInFlight + PoolCap + BatchSize * (1 + QueueCap + Concurrency)
    BY DEF Backpressure
  <2>0. /\ TypeOK /\ Capacities /\ Spread /\ CreditCovers
        /\ PoolUp
    <3>1. \A s \in Stage : Sound(s)
        BY DEF IInv, TypeOK, Stages, Sound
    <3> QED
        BY <3>1 DEF IInv, PoolUp, ProcessorUp, WriterUp, Stage
  <2> DEFINE n == Len(writing) + Len(queue)
  <2>1. /\ Flushed \in Nat /\ Len(sent) \in Nat /\ Len(confirmed) \in Nat
        /\ Len(hand) \in Nat /\ Len(chan) \in Nat /\ Len(pool) \in Nat /\ Len(batch) \in Nat
        /\ Len(writing) \in Nat /\ Len(queue) \in Nat
        /\ n \in Nat /\ Len(Flight) = n
    BY <2>0, Counts, FlightType, LenProperties DEF TypeOK
  <2>2. Flushed <= Len(confirmed) + BatchSize * n
    <3>1. 0 \in 0 .. Len(Flight) /\ Len(Flight) \in 0 .. Len(Flight) /\ n - 0 = n
        BY <2>1
    <3>2. EndOf(confirmed, Flight, Len(Flight))
            <= EndOf(confirmed, Flight, 0) + BatchSize * (Len(Flight) - 0)
        BY <2>0, <3>1 DEF Spread
    <3> QED
        BY <2>1, <3>1, <3>2 DEF Flushed, EndOf
  <2>3. BatchSize * n + BatchSize <= BatchSize * (1 + QueueCap + Concurrency)
    <3> HIDE DEF n
    <3>1. n <= QueueCap + Concurrency /\ n \in Nat
        BY <2>0, <2>1, PipelineAssumption DEF Capacities, n
    <3>2. \A a, b, c \in Nat : b <= c => a * b <= a * c
        OBVIOUS
    <3>3. BatchSize * n + BatchSize = BatchSize * (n + 1)
        BY <3>1, PipelineAssumption
    <3>4. n + 1 <= 1 + QueueCap + Concurrency
        BY <3>1, PipelineAssumption
    <3>5. n + 1 \in Nat /\ 1 + QueueCap + Concurrency \in Nat /\ BatchSize \in Nat
        BY <3>1, PipelineAssumption
    <3> QED
        BY <3>2, <3>3, <3>4, <3>5
  <2>4. Len(sent) - Received + Len(hand) <= MaxInFlight
    <3>1. Count(mustAck) \in Nat /\ credit \in Nat /\ acks \in Nat /\ Received \in Nat
        BY <2>0, Counts, Zenon DEF Count, TypeOK
    <3> QED
        BY <2>0, <2>1, <3>1, PipelineAssumption, SMTT(20) DEF CreditCovers
  <2>5. Received = Flushed + Len(batch) + Len(pool) + Len(chan) + Len(hand)
    BY <2>1 DEF Received, Pushed, Decoded, Processed
  <2>6. Len(batch) <= BatchSize /\ Len(pool) <= PoolCap /\ Len(chan) <= MaxInFlight
    BY <2>0 DEF Capacities
  <2>7. /\ BatchSize * n \in Nat /\ BatchSize * (1 + QueueCap + Concurrency) \in Nat
        /\ BatchSize \in Nat /\ PoolCap \in Nat /\ MaxInFlight \in Nat
    BY <2>1, PipelineAssumption
  <2>8. \A s, c, f, h, x, y \in Nat :
            /\ f <= c + x
            /\ x + BatchSize <= y
            /\ s - (f + Len(batch) + Len(pool) + Len(chan) + h) + h <= MaxInFlight
            => s - c <= 2 * MaxInFlight + PoolCap + y
    BY <2>1, <2>6, <2>7
  <2> HIDE DEF n
  <2> QED
    BY <2>1, <2>2, <2>3, <2>4, <2>5, <2>7, <2>8
<1> QED
    BY <1>1, Invariance, PTL

LEMMA ConfirmedIsPrefix ==
    ASSUME TypeOK, Genuine, InFlight
    PROVE  IsPrefix(confirmed, sent)
<1>1. /\ confirmed \in Seq(Frames) /\ sent \in Seq(Frames)
      /\ Len(confirmed) \in Nat /\ Len(sent) \in Nat
    BY DEF TypeOK
<1>2. \A k \in 1 .. Len(confirmed) : k \in 1 .. Len(sent) /\ confirmed[k] = sent[k]
    BY <1>1 DEF Genuine, AllWanted, InFlight, Follows, Wanted
<1>3. Len(confirmed) <= Len(sent)
  <2>1. CASE Len(confirmed) = 0
    BY <1>1, <2>1
  <2>2. CASE Len(confirmed) # 0
    <3>1. Len(confirmed) \in 1 .. Len(confirmed)
        BY <1>1, <2>2
    <3> QED
        BY <1>1, <1>2, <3>1
  <2> QED
    BY <2>1, <2>2
<1> QED
    BY <1>1, <1>2, <1>3 DEF IsPrefix

\* A run that returns Ok has confirmed every frame sent up to the last one
\* wanted, and no run confirms a frame after the first at or above stop_block.
THEOREM OkCompleteness == Spec => []OkIsComplete
<1>1. IInv => OkIsComplete
  <2> SUFFICES ASSUME IInv PROVE OkIsComplete
    OBVIOUS
  <2>0. TypeOK /\ Stages /\ Stream /\ Genuine /\ InFlight /\ Consecutive /\ ReaderAt
    BY DEF IInv
  <2>1. confirmed \in Seq(Frames) /\ Len(confirmed) \in Nat /\ sent \in Seq(Frames)
    BY <2>0 DEF TypeOK
  <2>5. IsPrefix(confirmed, sent)
    BY <2>0, ConfirmedIsPrefix
  <2>2. \A k \in 1 .. Len(confirmed) : confirmed[k] = sent[k] /\ Wanted(sent, confirmed[k])
                                        /\ confirmed[k].pos = k
    BY <2>0, <2>1 DEF Genuine, AllWanted, InFlight, Follows, Wanted
  <2>3. \A k \in 1 .. Len(confirmed) - 1 : ~IsLast(confirmed[k])
    <3> SUFFICES ASSUME NEW k \in 1 .. Len(confirmed) - 1 PROVE ~IsLast(confirmed[k])
        OBVIOUS
    <3>1. /\ Len(confirmed) \in 1 .. Len(confirmed)
          /\ k \in 1 .. Len(confirmed) /\ k \in 1 .. Len(confirmed) - 1
        BY <2>1
    <3>2. \A j \in 1 .. Len(confirmed) - 1 : ~IsLast(sent[j])
        BY <2>2, <3>1 DEF Wanted
    <3> QED
        BY <2>2, <3>1, <3>2
  <2>4. ASSUME outcome = "ok"
        PROVE  \/ confirmed # <<>> /\ IsLast(Last(confirmed))
               \/ socket = "closed" /\ confirmed = sent
    <3>1. \A s \in Stage : stage[s] = "ok"
        BY <2>0, <2>4 DEF Stages
    <3>2. /\ queue = <<>> /\ writing = <<>> /\ batch = <<>> /\ pool = <<>> /\ chan = <<>>
        BY <2>0, <3>1 DEF Stages, Stage
    <3>3. PoolUp /\ stage["reader"] = "ok"
        BY <3>1 DEF PoolUp, ProcessorUp, WriterUp, Sound, Stage
    <3>4. /\ hand = <<>>
          /\ \/ Received \in 1 .. Len(sent) /\ IsLast(sent[Received])
             \/ socket = "closed" /\ wire = <<>>
        BY <2>0, <3>3 DEF ReaderAt
    <3>5. Received = Len(confirmed)
      <4>1. Flight = <<>> /\ Len(Flight) = 0
        BY <3>2 DEF Flight
      <4>2. Flushed = Len(confirmed)
        BY <4>1 DEF Flushed, EndOf
      <4>3. Len(batch) = 0 /\ Len(pool) = 0 /\ Len(chan) = 0 /\ Len(hand) = 0
        BY <3>2, <3>4
      <4> QED
        BY <2>1, <4>2, <4>3 DEF Received, Pushed, Decoded, Processed
    <3>6. CASE Received \in 1 .. Len(sent) /\ IsLast(sent[Received])
      <4>1. Len(confirmed) \in 1 .. Len(confirmed)
        BY <2>1, <3>5, <3>6
      <4>2. confirmed # <<>> /\ Last(confirmed) = confirmed[Len(confirmed)]
        BY <2>1, <4>1 DEF Last
      <4> QED
        BY <2>2, <3>5, <3>6, <4>1, <4>2
    <3>7. CASE socket = "closed" /\ wire = <<>>
      <4>1. Len(confirmed) = Len(sent)
        BY <2>0, <2>1, <3>3, <3>5, <3>7 DEF Consecutive
      <4> QED
        BY <2>1, <2>2, <3>7, <4>1, SeqEqual
    <3> QED
        BY <3>4, <3>6, <3>7
  <2> QED
    BY <2>3, <2>4, <2>5 DEF OkIsComplete
<1> QED
    BY <1>1, Invariance, PTL

\* indexer.rs:99, 120-147: whatever fails, and however a run that has returned
\* is taken down, no frame is confirmed past one that was dropped.
THEOREM PrefixSafety == Spec => []NothingSkipped
<1>1. IInv => NothingSkipped
    BY ConfirmedIsPrefix DEF IInv, NothingSkipped
<1> QED
    BY <1>1, Invariance, PTL
=============================================================================
