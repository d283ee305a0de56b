------------------------------- MODULE Indexer --------------------------------
(***************************************************************************)
(* Runs of the indexer against a SHIP node and an Elasticsearch that       *)
(* outlive them: where a run starts, what a block becomes, how documents   *)
(* are batched and versioned, in which order batches land, what the        *)
(* checkpoint says, and what a crash leaves behind.                        *)
(*                                                                         *)
(* The reader and the decoders are an order-preserving channel here (see   *)
(* DecodePool, FrameChannel), so a block is taken from the chain at the    *)
(* moment it is processed.  The writer is the window of BulkWriter with    *)
(* its jobs and its waiting results in one sequence, in submission order;  *)
(* a confirmation and its PUT are one step, but for the PUT that a crash   *)
(* leaves on the wire.                                                     *)
(***************************************************************************)
EXTENDS Integers, Sequences, FiniteSets, FiniteSetsExt, Elastic

CONSTANTS
    MaxHeight,      \* bound: blocks of the chain
    MaxForks,       \* bound: forks of the chain
    MaxFaults,      \* bound: crashes, refused requests and forks together
    Contents,       \* what a block may do to the entity: sequences of ops
    StartBlock,     \* indexer.start_block, 0 for automatic
    BatchSize,      \* indexer.batch_size, in documents
    QueueCap,       \* capacity of the batch channel (2 in the code)
    Concurrency,    \* indexer.writer_concurrency
    SeqSpan         \* versions of one block (2^32 in the code)

ASSUME IndexerAssumption ==
    /\ MaxHeight \in Nat \ {0}
    /\ MaxForks \in Nat
    /\ MaxFaults \in Nat
    /\ Contents # {}
    /\ \A ops \in Contents : ops \in Seq({"index", "delete"}) /\ Len(ops) < SeqSpan
    /\ StartBlock \in Nat
    /\ BatchSize \in Nat \ {0}
    /\ QueueCap \in Nat \ {0}
    /\ Concurrency \in Nat \ {0}
    /\ SeqSpan \in Nat \ {0}

Height == 1 .. MaxHeight
Branch == 0 .. MaxForks

ASSUME NoValueAssumption == NoValue \notin Height \X Branch

\* A document of the block index per height, and one entity (a permission or
\* a token balance) that blocks overwrite and delete.
BlockId(h) == <<"block", h>>
Entity == <<"entity", 0>>
Id == {BlockId(h) : h \in Height} \cup {Entity}

VARIABLES
    chain,      \* the node's chain: [branch, ops] by height
    branch,     \* the number of forks so far
    docs,       \* Elasticsearch's documents
    progress,   \* block_num of the checkpoint document, 0 when there is none
    stray,      \* item lists on the wire whose run is over
    latePuts,   \* checkpoint PUTs on the wire whose run is over
    faults,     \* crashes, refusals and forks so far
    up,         \* a run is in progress
    start,      \* the block it started at
    source,     \* where resolve_start_block found it
    fellBack,   \* history: some run started above the highest indexed block
    confirmed,  \* history: the blocks <<height, branch>> of confirmed batches
    next,       \* the next block SHIP sends
    batch,      \* the processor's BulkBatch: [items, maxBlock]
    queue,      \* batches in the channel
    window,     \* batches submitted and not confirmed, oldest first
    checkpoint  \* the writer's local checkpoint

origin == <<start, source, fellBack>>
node == <<chain, branch>>
store == <<docs, progress, stray, latePuts>>
run == <<up, origin, next, batch, queue, window, checkpoint>>
vars == <<node, store, faults, run, confirmed>>

EmptyBatch == [items |-> <<>>, maxBlock |-> 0]

Init ==
    /\ chain = <<>>
    /\ branch = 0
    /\ docs = [id \in Id |-> Absent]
    /\ progress = 0
    /\ stray = {}
    /\ latePuts = {}
    /\ faults = 0
    /\ up = FALSE
    /\ start = 0
    /\ source = "none"
    /\ fellBack = FALSE
    /\ confirmed = {}
    /\ next = 1
    /\ batch = EmptyBatch
    /\ queue = <<>>
    /\ window = <<>>
    /\ checkpoint = 0

-----------------------------------------------------------------------------
(* The node.  A block applied below the position of the stream takes the     *)
(* stream back to it, below the start of the run too: the replay the indexer *)
(* calls a microfork.                                                        *)

\* The first block the deployment indexes.
Floor == Max({StartBlock, 1})

\* The entity exists after the last block of the chain.
Alive ==
    \E h \in DOMAIN chain :
        /\ chain[h].ops # <<>>
        /\ Last(chain[h].ops) = "index"
        /\ \A g \in h + 1 .. Len(chain) : chain[g].ops = <<>>

\* A chain only removes a row it has.
Legal(ops) == ops # <<>> /\ Head(ops) = "delete" => Alive

Produce ==
    /\ Len(chain) < MaxHeight
    /\ \E ops \in Contents :
        /\ Legal(ops)
        /\ chain' = Append(chain, [branch |-> branch, ops |-> ops])
    /\ next' = IF up /\ Len(chain) + 1 < next /\ Len(chain) + 1 >= Floor
                 THEN Len(chain) + 1 ELSE next
    /\ UNCHANGED <<branch, store, faults, up, origin, batch, queue,
                   window, checkpoint, confirmed>>

Fork ==
    /\ branch < MaxForks
    /\ faults < MaxFaults
    /\ \E h \in 1 .. Len(chain) : chain' = SubSeq(chain, 1, h - 1)
    /\ branch' = branch + 1
    /\ faults' = faults + 1
    /\ UNCHANGED <<store, run, confirmed>>

-----------------------------------------------------------------------------
(* The start of a run.                                                       *)

IndexedBlocks == {h \in Height : Live(docs[BlockId(h)])}

\* Mutant: the checkpoint block is taken for the next one.
ResolvedPastNext ==
    IF StartBlock > 0 THEN [block |-> StartBlock, source |-> "config"]
    ELSE IF progress > 0 THEN [block |-> progress + 2, source |-> "checkpoint"]
    ELSE IF IndexedBlocks # {}
           THEN [block |-> Max(IndexedBlocks) + 1, source |-> "index"]
    ELSE [block |-> 1, source |-> "genesis"]

\* Of the two indices that are asked in turn this is the first one that has a
\* document: that of blocks, or, where fetch_block is off, that of actions, with
\* BlockId for the actions of the block.  Action documents without any block
\* document beside them (all refused in a first run) are left out.
Resolved ==
    IF StartBlock > 0 THEN [block |-> StartBlock, source |-> "config"]
    ELSE IF progress > 0 THEN [block |-> progress + 1, source |-> "checkpoint"]
    ELSE IF IndexedBlocks # {}
           THEN [block |-> Max(IndexedBlocks) + 1, source |-> "index"]
    ELSE [block |-> 1, source |-> "genesis"]

Start ==
    /\ ~up
    /\ up' = TRUE
    /\ start' = Resolved.block
    /\ source' = Resolved.source
    /\ fellBack' = (fellBack \/ Resolved.source = "index")
    /\ next' = Resolved.block
    /\ batch' = EmptyBatch
    /\ queue' = <<>>
    /\ window' = <<>>
    /\ checkpoint' = 0
    /\ UNCHANGED <<node, store, faults, confirmed>>

-----------------------------------------------------------------------------
(* The processor: documents of a block and their versions.                   *)

\* Mutant: the position in the block is left out.
VersionOfBlock(h, seq) == h * SeqSpan

Version(h, seq) == h * SeqSpan + seq

\* The block document, then the entity's changes in the order of the deltas.
BlockItems(h) ==
    LET block == chain[h]
        value == <<h, block.branch>>
    IN  <<[op |-> "index", id |-> BlockId(h), version |-> Version(h, 0), value |-> value]>>
        \o [k \in 1 .. Len(block.ops) |->
              [op |-> block.ops[k], id |-> Entity, version |-> Version(h, k), value |-> value]]

ProcessBlock ==
    /\ up
    /\ next <= Len(chain)
    /\ Len(batch.items) < BatchSize
    /\ batch' = [items |-> batch.items \o BlockItems(next),
                 maxBlock |-> Max({batch.maxBlock, next})]
    /\ next' = next + 1
    /\ UNCHANGED <<node, store, faults, up, origin, queue, window, checkpoint, confirmed>>

\* The batch is full, or the flush interval has passed.
Flush ==
    /\ up
    /\ batch.items # <<>>
    /\ Len(queue) < QueueCap
    /\ queue' = Append(queue, batch)
    /\ batch' = EmptyBatch
    /\ UNCHANGED <<node, store, faults, up, origin, next, window, checkpoint, confirmed>>

-----------------------------------------------------------------------------
(* The writer and Elasticsearch.                                             *)

Submit ==
    /\ up
    /\ queue # <<>>
    /\ Len(window) < Concurrency
    /\ window' = Append(window, [batch |-> Head(queue), fate |-> "wire"])
    /\ queue' = Tail(queue)
    /\ UNCHANGED <<node, store, faults, up, origin, next, batch, checkpoint, confirmed>>

\* Elasticsearch carries a request out; what `bulk` makes of the statuses is
\* the fate of the batch.
EsApply(k) ==
    /\ window[k].fate = "wire"
    /\ LET result == BulkResult(docs, window[k].batch.items) IN
        /\ docs' = result.docs
        /\ window' = [window EXCEPT ![k].fate =
                        IF BulkFailures(result.status) = 0 THEN "applied" ELSE "failed"]
    /\ UNCHANGED <<node, progress, stray, latePuts, faults, up, origin, next,
                   batch, queue, checkpoint, confirmed>>

\* Some items are refused (a shard is down, a mapping conflicts), the others
\* are applied: `_bulk` is not atomic.
EsRefuse(k) ==
    /\ window[k].fate = "wire"
    /\ faults < MaxFaults
    /\ \E refused \in (SUBSET {window[k].batch.items[n].id :
                               n \in DOMAIN window[k].batch.items}) \ {{}} :
        docs' = [id \in Id |-> IF id \in refused THEN docs[id]
                               ELSE BulkResult(docs, window[k].batch.items).docs[id]]
    /\ window' = [window EXCEPT ![k].fate = "refused"]
    /\ faults' = faults + 1
    /\ UNCHANGED <<node, progress, stray, latePuts, up, origin, next, batch,
                   queue, checkpoint, confirmed>>

\* Mutant: a request that was answered counts as landed.
HeadAnswered == window # <<>> /\ Head(window).fate # "wire"

HeadLanded == window # <<>> /\ Head(window).fate = "applied"

\* The block documents of the oldest batch, as <<height, branch>>.
HeadBlocks ==
    {item.value : item \in {i \in ToSet(Head(window).batch.items) : i.op = "index"}}

\* The oldest batch is confirmed, and the checkpoint stored when it grows.
Confirm ==
    /\ up
    /\ HeadLanded
    /\ window' = Tail(window)
    /\ IF Head(window).batch.maxBlock > checkpoint
         THEN /\ checkpoint' = Head(window).batch.maxBlock
              /\ progress' = Head(window).batch.maxBlock
         ELSE UNCHANGED <<checkpoint, progress>>
    /\ confirmed' = confirmed \cup HeadBlocks
    /\ UNCHANGED <<node, docs, stray, latePuts, faults, up, origin, next, batch, queue>>

\* A run that ends leaves requests on the wire.
Stop ==
    /\ up' = FALSE
    /\ start' = 0
    /\ source' = "none"
    /\ next' = 1
    /\ stray' = stray \cup {window[k].batch.items :
                              k \in {n \in DOMAIN window : window[n].fate = "wire"}}
    /\ batch' = EmptyBatch
    /\ queue' = <<>>
    /\ window' = <<>>
    /\ checkpoint' = 0
    /\ UNCHANGED <<node, docs, progress, fellBack>>

\* Mutant: failed items do not end the run.
RunFailsUnlessCounted ==
    /\ up
    /\ window # <<>>
    /\ Head(window).fate = "refused"
    /\ Stop
    /\ UNCHANGED <<faults, latePuts, confirmed>>

\* The oldest batch failed: write_batches returns its error, `run` aborts the
\* other stages and the process exits.
RunFails ==
    /\ up
    /\ window # <<>>
    /\ Head(window).fate \in {"failed", "refused"}
    /\ Stop
    /\ UNCHANGED <<faults, latePuts, confirmed>>

\* The process dies, or another stage of the run fails.
Crash ==
    /\ up
    /\ faults < MaxFaults
    /\ Stop
    /\ faults' = faults + 1
    /\ UNCHANGED <<latePuts, confirmed>>

\* The run ends while its checkpoint PUT is on the wire: the process dies, or
\* the PUT fails for the client.
CrashInPut ==
    /\ up
    /\ HeadLanded
    /\ Head(window).batch.maxBlock > checkpoint
    /\ faults < MaxFaults
    /\ Stop
    /\ faults' = faults + 1
    /\ latePuts' = latePuts \cup {Head(window).batch.maxBlock}
    /\ confirmed' = confirmed \cup HeadBlocks

\* Elasticsearch still carries out, or loses, a request of an earlier run.
StrayApply ==
    \E items \in stray :
        /\ docs' = BulkResult(docs, items).docs
        /\ stray' = stray \ {items}
        /\ UNCHANGED <<node, progress, latePuts, faults, run, confirmed>>

StrayLost ==
    \E items \in stray :
        /\ stray' = stray \ {items}
        /\ UNCHANGED <<node, docs, progress, latePuts, faults, run, confirmed>>

\* Elasticsearch carries out a checkpoint PUT of an earlier run, over
\* whatever later runs have stored, or loses it.
LatePut ==
    \E block \in latePuts :
        /\ progress' \in {block, progress}
        /\ latePuts' = latePuts \ {block}
        /\ UNCHANGED <<node, docs, stray, faults, run, confirmed>>

Applying == \E k \in DOMAIN window : EsApply(k)

Refusing == \E k \in DOMAIN window : EsRefuse(k)

Next ==
    \/ Produce
    \/ Fork
    \/ Start
    \/ ProcessBlock
    \/ Flush
    \/ Submit
    \/ Applying
    \/ Refusing
    \/ Confirm
    \/ RunFails
    \/ Crash
    \/ CrashInPut
    \/ StrayApply
    \/ StrayLost
    \/ LatePut

Spec == Init /\ [][Next]_vars

\* docker-compose.yml restarts the indexer unless it is stopped; tokio polls
\* every stage that can go on; the flush interval passes; Elasticsearch
\* carries requests out.
Fairness ==
    /\ WF_vars(Start)
    /\ WF_vars(ProcessBlock)
    /\ WF_vars(Flush)
    /\ WF_vars(Submit)
    /\ WF_vars(Applying)
    /\ WF_vars(Confirm)
    /\ WF_vars(RunFails)

FairSpec == Spec /\ Fairness

-----------------------------------------------------------------------------
(* What the documents should be.                                             *)

\* Where the blocks Floor .. n of the chain write a document: the height and
\* the position among the items of its block.
WritesOf(id, n) ==
    {w \in (Floor .. n) \X (1 .. SeqSpan) :
        w[2] <= Len(BlockItems(w[1])) /\ BlockItems(w[1])[w[2]].id = id}

Later(v, w) ==
    \/ v[1] > w[1]
    \/ v[1] = w[1] /\ v[2] > w[2]

\* The document is what the last of those writes leaves.
MirrorsUpTo(id, n) ==
    \/ WritesOf(id, n) = {} /\ docs[id].value = NoValue
    \/ \E w \in WritesOf(id, n) :
        /\ \A v \in WritesOf(id, n) : ~Later(v, w)
        /\ LET item == BlockItems(w[1])[w[2]] IN
            docs[id].value = IF item.op = "delete" THEN NoValue ELSE item.value

\* Everything the node has is indexed and confirmed by the current run.
Idle ==
    /\ up
    /\ next > Len(chain)
    /\ batch = EmptyBatch
    /\ queue = <<>>
    /\ window = <<>>

CaughtUp == Idle /\ stray = {}

Mirrored == \A id \in Id : MirrorsUpTo(id, Len(chain))

-----------------------------------------------------------------------------
(* Safety.                                                                   *)

\* indexer.rs:298-302, elastic.rs:135: at or below the checkpoint every write
\* of the chain has reached Elasticsearch; it can only have been replaced by a
\* later one.
CheckpointCovers ==
    branch = 0 /\ ~fellBack =>
        \A h \in Floor .. Min({progress, Len(chain)}) :
            \A item \in ToSet(BlockItems(h)) : docs[item.id].version >= item.version

Resume == Start /\ source' = "checkpoint" /\ ~fellBack

\* Every block of the chain below the start was part of a confirmed batch.
ConfirmedBelow(block) ==
    \A h \in Floor .. Min({block - 1, Len(chain)}) : <<h, chain[h].branch>> \in confirmed

\* ... so that without forks a run that starts above the checkpoint leaves no
\* block of the chain out.
ResumesAboveConfirmed ==
    [][Resume /\ branch = 0 => ConfirmedBelow(start')]_vars

\* A run that starts above the highest indexed block leaves no block out.
FallbackSkipsNothing ==
    up /\ source = "index" =>
        \A h \in Floor .. Min({start - 1, Len(chain)}) : Live(docs[BlockId(h)])

\* README.md:61-63: replays after crashes, refusals and late requests are
\* idempotent: when the indexer has caught up with a chain without forks, the
\* documents are those of one clean pass over it.
Converges == CaughtUp /\ branch = 0 /\ ~fellBack => Mirrored

\* elastic.rs:83-88: a request whose items were all applied or superseded is
\* never counted as failed.
ReplayIsNoFailure == \A k \in DOMAIN window : window[k].fate # "failed"

\* Forks or not, no height at or below the checkpoint is without a block
\* document.
HeightsCovered ==
    ~fellBack => \A h \in Floor .. progress : Live(docs[BlockId(h)])

\* README.md:61-63: microforks overwrite stale documents.
ForkReplaces ==
    CaughtUp =>
        \A h \in Floor .. Len(chain) :
            docs[BlockId(h)].value = <<h, chain[h].branch>>

(* Liveness.                                                                 *)

\* The indexer catches up with a chain that stops growing, whatever crashed
\* before.
EventuallyCaughtUp ==
    <>fellBack \/ <>[](Idle /\ Mirrored)
=============================================================================
