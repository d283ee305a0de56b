# A TLA+ model of hyperion-rs

hyperion-rs reads blocks of an Antelope chain from a state-history (SHIP) node
and indexes them in Elasticsearch. This directory holds TLA+ modules of the
parts of it that are hard to test: the concurrent stages of the indexing
pipeline, the checkpoint a restart resumes from, the versions that make replays
idempotent, the ABI cache, the binary codecs, the documents a block becomes, and
the answers that the HTTP API makes of them. TLC checks them on small instances,
and TLAPS proves the most important invariants for every size.

Line numbers in the modules refer to `crates/hyperion/src/` unless another path
is given; `README.md` in a comment is the README of the repository.

## The system

| Component | State | Operations | Hard behaviour | What makes it correct |
|---|---|---|---|---|
| reader task (`run`, indexer.rs; `ShipClient`) | socket, credit, the frame in hand | receive, push, acknowledge, stop after the last block, end on close | credit and channel room must not wait for each other; close against break of the socket | credit is conserved; Ok never hides a loss |
| decoder pool (`decode_blocks`) | JoinSet, `ready` map, `submitted`, `emitted` | take, spawn, join, send in order | decoders finish in any order, frames may be malformed or panic the decoder, `select!` with two guarded arms | arrival order, bounded memory, nothing past an error, always an enabled arm |
| processor (`process_blocks`, processor.rs) | batch, last block, ABI cache | process a block, flush on size or time | microforks replay numbers; ABIs change inside a block | versions order the writes; decoding uses the active ABI |
| bulk writer (`write_batches`) | JoinSet, `ready` map, `submitted`, `completed`, `checkpoint` | take, send, join, confirm in order, store the checkpoint | answers in any order, failures after later successes, crash inside the PUT | the checkpoint never passes a batch that has not landed |
| run (`run`) | JoinSet of the stages | spawn, join, cancel | a stage fails while the others are blocked on it; they are cancelled one by one and go on until then | one failure ends all; nothing is confirmed past a frame that was dropped |
| resume (`resolve_start_block`) | checkpoint document, indices | pick the first block of a run | what an earlier run left, forks since | no block is left out |
| ABI cache (abis.rs) | entries (negative ones too), prepared decoders | update, get_or_fetch, decoder | the chain API is ahead of the stream and may fail; forks | the ABI of the block in hand |
| Elasticsearch client (elastic.rs) | none | bulk, checkpoint, max_block_num, search | `_bulk` is not atomic, items may be superseded | superseded is not failed |
| SHIP types (types.rs), Antelope codecs | position of a reader | decoding of frames, rows, packed ABIs; names, assets, varuints as text and back | frames that end anywhere; hand-written layouts against the ABI of the node; boundaries of integers | the hand-written decoders read what the ABI says; nothing is taken for something shorter |
| documents (processor.rs) | none but the ABI cache | actions grouped by digest; account, permission and contract rows; index and delete with versions | notifications, equal actions, ABIs that change in mid-transaction, removals that land out of order | every receipt in one document; documents are what the chain had |
| HTTP API (api/) | `lib_cache` | queries, health | two requests refresh the cache at once, get_info fails; pages turned while batches land | pages without gaps or repetitions, lookups that say what the chain did, young answers |
| configuration, main | none | parsing | none | |

The reader, the pool, the processor and the writer are tokio tasks of one
JoinSet, connected by bounded channels: reader → (max_messages_in_flight) →
pool → (2) → processor → (2) → writer. The processor awaits the chain API on a
miss of the ABI cache. The writer's requests are tasks of a JoinSet of its own.
Elasticsearch and the node outlive every run. The API is a process of its own: it
reads what the indexer has written, and asks the chain API for the head.

## The modules

| Module | Models | Its state and actions in the code |
|---|---|---|
| `BulkWriter` | `write_batches` | One action per arm of the loop: `Submit` and `SeeClosed` are `rx.recv()`, `JoinNext` and `JoinPanicked` are `jobs.join_next()`, `Confirm` and `ConfirmFailed` are `ready.remove(&completed)`, `PutCheckpoint` and `PutFailed` are the awaited PUT. `request` is what Elasticsearch did and `answer` what the task returned: a transport error (`JobErr`) says nothing about the request. `Abort` is the JoinSet of `run` dropping the task, inside a PUT too. |
| `ConfirmedLog` | the promise of the writer | Batches land in any order; the checkpoint moves only to a batch all of whose predecessors landed, and only up. |
| `DecodePool` | `decode_blocks` | As `BulkWriter`, with `Send` into the processor's channel in the place of the PUT. A blocking task cannot be aborted and goes on after the pool has left. |
| `FrameChannel` | what the processor relies on | A bounded FIFO of frames. |
| `Pipeline` | `run`, all stages of one run, and the SHIP server | Each stage has a status that the JoinSet collects. `JoinErr` returns the error and no more: dropping the JoinSet only asks tokio to cancel what is left, so `Cancelled` takes the other stages down afterwards, one by one in any order, and until its turn comes a stage goes on, fails or ends. The socket goes down with the reader. Pool and writer are reduced to what `DecodePool` and `BulkWriter` implement: an order-preserving buffer, and confirmations in submission order. |
| `Elastic` | external versions, `_bulk`, `Elastic::bulk`, and searches (`search_sources`) | `DocsAfter` are the documents after each item of a request, `BulkResult` applies them all and gives their statuses, as Elasticsearch does (external); `BulkFailures` is the count that `bulk` returns. `Search` gives what matches, in the order of its sort, a page of it. |
| `Indexer` | runs over the same Elasticsearch and node | `Start` is `resolve_start_block` and the stream request; `ProcessBlock` and `Flush` the processor; `Submit`, `EsApply`, `EsRefuse`, `Confirm` and `RunFails` the writer, with `window` for its jobs and results; `Crash` and `CrashInPut` end a run anywhere; `StrayApply`, `StrayLost` and `LatePut` are what its requests do afterwards. |
| `AbiCache` | abis.rs and its callers | The processor takes one item of a block per step: `SetAbi` and `AccountRow` are the two feeds of the cache, `Decode` the use of it, by `Hit`, `Cached`, `Fetch` or `FetchFails`. A trace whose act_digest an earlier one of its transaction has is `Collapsed` into it and processed no more (processor.rs:211-225). `active` is the ABI that was in force on the chain. |
| `Reader` | `ByteReader`, the readers of keys and signatures | A layout is the sequence of reads that a decoder makes (`Fixed`, `Varuint`, `Bytes`, `Opt`, `Ext`, `Many` ...); `Read` of a layout on bytes gives the position and the fields read, or one failure. |
| `ShipTypes` | the decoders of types.rs and `Abi::from_bin` | One layout per decoder, field by field in the order of its reads. |
| `AbiDecoder` | decoder.rs | `DecodeType` is `decode_type`: aliases, bases, variants, optionals, arrays, extensions and the depth limit, over an ABI that is data. |
| `NodeosAbi` | external: the state-history ABI of nodeos | The ABI as a value, and `Samples`: encodings in which every alternative of every variant, optional, list, extension and key type occurs. |
| `Text` | name.rs, asset.rs, `parse_asset`, `push_varuint32` | Conversions by what they do, with widths as constants. |
| `Codecs` | the above at work | One action per decoder, each behaviour gives one of them one input. |
| `Documents` | processor.rs | `Groups` is the collapse by act_digest, `ProcessGroup` the document of an action, `ProcessDelta` the rows, `ProcessBlock` a block with the ABI cache, `Versioned` what process_blocks adds. |
| `Queries` | the endpoints of api/ | One operator per endpoint, with its filter, order, page and limit, over `Search` of `Elastic`. |
| `History` | node, indexer, Elasticsearch and API in one line | `Produce` executes a transaction and processes its block, `Land` is Elasticsearch carrying out the bulk request of some block (external): any of those in flight, as `BulkWriter` allows. |
| `ChainInfo` | `ApiState::chain_info`, `get_info`, `health` | A request goes through `ReadCache`, `GetInfo`, `Store` and `Respond`; the lock is held within `ReadCache` and `Store` only, as in the code. |
| `MCIndexer`, `MCAbiCache`, `MCCodecs`, `MCHistory` | | Values of the constants for TLC. |
| `BulkWriterProofs`, `DecodePoolProofs`, `PipelineProofs`, `ElasticProofs`, `IndexerProofs`, `AbiCacheProofs`, `ChainInfoProofs`, `HistoryProofs` | | Theorems about the module of that name. |

A definition named `Mutant` in its comment is a plausible mistake in the action
below it; no specification uses it. Each property of each run is violated when
the mutant listed for it in PROJECT.json takes the place of the definition.

## What is checked

`CHECK_DEADLOCK FALSE` is set everywhere because every one of these systems may
really stop: a run returns, a chain bound is reached. That nothing hangs where it
should not is stated by liveness properties and by `SelectHasArm`.

Runs that hold:

| Run | Bounds | Shows |
|---|---|---|
| `bulk_writer` | 3 batches, 2 requests, channel of 2, heights 1..3 in any assignment | `CheckpointBacked`, `CheckpointDurable` and `FailureWindow` for every order of answers, failures, panics and aborts; the window bounds what is out (`FailureWindow`, and `WindowBound`, proved as a theorem); the writer implements `ConfirmedLog`, so that the checkpoint only grows within a run; `Drains` and `FailureSurfaces`: it ends when its input closes and when a request fails. Three batches with two requests are the smallest instance with a held-back result, a full window and a batch waiting outside it; heights 1..3 give rising, repeated and falling batches. |
| `decode_pool` | 4 frames, 2 workers, channels of 1 (2 in the code: with 1 the frames outnumber the places) | errors, liveness, and the refinement of `FrameChannel`: order of arrival, and a capacity that is the bound on memory (`PoolBound`, proved as a theorem). Any subset of the frames is malformed. |
| `indexer` | 3 blocks, 2 faults (one of them may be a fork), batches of 3 documents or of the block that exceeds them, 2 requests, resume from the checkpoint | `CheckpointCovers`, `ResumesAboveConfirmed` and `Converges` as long as the chain has not forked, `HeightsCovered` with forks too. Blocks write one entity, or write and remove it, so late and replayed writes meet deletions and two changes of one block. |
| `indexer_midchain` | start_block 2, 1 fault, no fork, blocks that write, delete, replace or leave the entity | `EventuallyCaughtUp`: restarts that always replay, whatever failed before, end with the documents of one clean pass. |
| `pipeline` | stop_block 4, 1 microfork, every buffer, batch and the credit of size 1 | `CreditConserved`; `OkIsComplete`: a run that returns Ok has confirmed the frames of the stream from the first to the last one wanted, without a gap; `NothingSkipped`: what is confirmed is a prefix of what was sent, also when the stages around a failed one empty their channels before they are cancelled; `Backpressure`: the stream is longer than all buffers together, so the bound is reached, and one less is violated; `Ended` and `FailureSpreads`: buffers of one are where stages block each other most. |
| `abi_cache` | 3 blocks, 1 restart at any block, 1 fork; blocks that deploy and use, upgrade between two actions, set the same ABI in two transactions and twice within one, clear, break | `StreamExact`: from the first update that the stream brings on, decoding is exact, until a fork or a repeated `setabi` (see below); `FetchHeals`: an ABI of the API that is ahead is followed by the update that ends the mismatch. |
| `codecs` | every sample of every frame, row and ABI (see `NodeosAbi`), cut at each byte, changed in each byte, one byte longer; names of 5 characters over 5, varuints of 4 bytes over 8, all assets of 6 bits with 8 precisions, lists of 3 definitions | `ShapesTrackAbi`: the hand-written decoders agree with the ABI decoder on the ABI of nodeos, on intact and on damaged bytes; `FramesWhole`: what is cut is refused; `VaruintExact`, `NameExact`, `AssetExact` against reference definitions over all values of the small widths. |
| `history` | 3 blocks, 2 on their way, 2 holders with 2 tokens, 2 keys, 4 ABIs (none, unreadable, without and with the table), pages and limits of 2 | `ReceiptsOnce` and `NothingInvented` at every moment; once all writes have landed, in whatever order, `StateExact`: the permissions and balances stored are those of the chain, and `PagesExact` and `LookupsExact`: the queries answer what the chain did; `PagesStable` while they land in theirs. Limits of 2 are exceeded by the permissions and actions of three blocks. |
| `chain_info` | 2 requests, 2 ticks to live, a call of 1 tick, 3 blocks | `FreshAnswers` whichever request stores last, `HonestHealth`, and `Recovers`: failures that were cached go away. |

Runs that show a disagreement between the code and what is written about it:

| Run | What TLC finds |
|---|---|
| `fork_overwrite` | A fork replaces block h. The new block document has version (h, 0), as has the old one; Elasticsearch rejects it as a duplicate and `bulk` takes the 409 for a superseded write. The abandoned block stays. |
| `first_run_crash` | Without a checkpoint document yet, a run ends with block 2 written and block 1 not; the fallback resumes at 3. |
| `replay_delete` | On a replay, one superseded item makes the response carry `errors`, and then a 404 of a delete that found nothing counts as a failure and ends the run. (`indexer_midchain` shows that the restarts get past it.) |

Further divergences limit a property that holds, and are stated in its
condition or its instance rather than by a run:

* The checkpoint may have been stored for a branch that a fork has replaced since
  (indexer.rs:298-309). The next run resumes above it and never asks for the new
  blocks below, when the fork happened while the indexer was down or the replay
  had not been confirmed. `ResumesAboveConfirmed` and `Converges` speak of chains
  without forks; `HeightsCovered` is what remains with them. It speaks of heights
  only, and documents of the abandoned branch satisfy it.
* A failed request to the chain API becomes a negative entry (abis.rs:61), though
  abis.rs:16 says that `None` means "known to have no (usable) ABI". No later
  miss asks again. It ends with the first update that the stream brings:
  `StreamExact` says that decoding is exact from there. `FetchHeals` speaks of
  answers of the API only.
* A fork that takes back an ABI update leaves it in the cache (abis.rs:3-5 says
  that the cache "always reflects the chain state at the block being
  processed"). `StreamExact` therefore speaks of entries that come from the
  present chain; without that condition, `Fork` violates it.
* The traces of a transaction with one act_digest are processed once, where the
  first of them stands (processor.rs:211-225). A transaction that sets an ABI,
  another one and the first one again leaves the cache at the second, and the
  actions after it are decoded with that although the first is active, against
  README.md:34-37 (the ABI "that was active at that block"). The account row at
  the end of the block mends the entry, or else the next update. The mark `repeat`
  of `source` in `AbiCache` says that this has happened, and `StreamExact` speaks
  of the time before it and after the next update. Without that condition, the
  block `Set b, Set a, Set b, Act` of the instance violates it.
* process_deltas passes over account rows without an ABI (processor.rs:353), so
  that with `fetch_traces = false` a cleared ABI stays in the cache, though
  abis.rs:30-31 provides for it. `abi_cache` has `FetchTraces = TRUE`; with
  `FALSE`, `StreamExact` does not hold.
* A run that resumes from a checkpoint at `stop_block` asks SHIP for no block
  and waits for one (indexer.rs:71, 93). `Pipeline` allows it
  (`Start = Stop + 1`); `Ended` does not hold then, and the instance starts below.
* A health report calls the node OK when get_info answers with an error body
  (chain_client.rs:91 does not look at the status), with head 0 and a warning
  for the indexer. `Recovers` says that this passes.
* A cleared or unreadable ABI has no document, so that get_abi_snapshot gives the
  one before it; `LookupsExact` is stated so.
* With a negative `pos`, v1 get_actions counts account_action_seq from 0
  (v1.rs:46); `PagesExact` states it for other values of `pos` only.
* get_deltas sorts by block_num alone, so that the order of the rows of one block
  is open; `LookupsExact` compares those of one block as a set.

### Assumptions about the environment

* Elasticsearch applies an item whose external version is higher than that of
  the document, deleted ones included, and answers 409 otherwise. It forgets the
  versions of deleted documents after `index.gc_deletes`; the model does not.
* Where the fallback of `resolve_start_block` finds no block document it asks the
  index of actions as well. `Resolved` asks one index: with `fetch_block` off,
  the actions of a block stand in the place of its block document.
* A request whose client is gone may still be carried out at any later time.
* A search sees what has been written before it (index refresh is left out), and
  documents that its sort does not tell apart come in an order that is fixed but
  arbitrary.
* get_info answers or fails within `Latency`. The HTTP client sets no timeout, so
  this is an assumption about the node; without it no age is bounded.
* The state of the chain changes by the transactions of `History` only, one per
  block; newaccount is an action of the system account. The indexer of `History`
  is not behind the node when it asks for an ABI: that case is `AbiCache`'s.
* SHIP sends a block per credit, in order, and goes back to a block that a fork
  replaces.

### Fairness

* `BulkWriter`, `DecodePool`, `Pipeline`: weak fairness of each task's steps.
  tokio polls a task whose future can go on, and `select!` picks at random among
  the arms that are ready. Weak fairness of a loop as a whole is enough: the
  order among its arms is left open.
* A bulk request ends. The HTTP client sets no timeout, so this is an assumption
  about Elasticsearch and TCP, not about the code.
* The server uses its credit and the acknowledgements arrive; it need not close
  the socket. Nothing is assumed of the batches and frames that feed
  `BulkWriter` and `DecodePool`: their inputs may stay open forever.
* `Indexer`: a run is started again after it ended (`restart: unless-stopped` in
  docker-compose.yml), and the flush interval passes. Crashes and refusals are
  not fair and bounded, together with forks, by `MaxFaults`; late requests may stay on the wire.
* `ChainInfo`: time passes (strong fairness: requests near their bound hold the
  clock back), and the steps of a request are taken. The chain API may fail as
  long as it likes; `Recovers` is about the time after it stays up.
* No safety property needs fairness, and `AbiCache`, `History` and `Codecs` state
  none.

### Bounds

`MaxHeight`, `NumBatches` and `NumFrames` bound the stream; `MaxForks`,
`MaxReplays`, `MaxFaults` and `MaxRestarts` bound the environment; they occur in
guards only. A version has room for 4 documents of a block (`SeqSpan`) in the
place of 2^32; a block of the model has at most 3. In `History` a
block has at most 10 documents (`Versions`, a guard of `Produce`). Block numbers and
ordinals are far from their widths (u32, u64) and are plain numbers.

The widths of the codecs are constants: a varuint byte has 2 payload bits in the
place of 7, 3 bytes in the place of 5 and 5 bits of value in the place of 32, so
that the last byte has bits that do not fit, as in the code; a name has four
characters, the last of which has one bit less than the others, in the place of
13 and five bits with four; digests, points and signatures have a few bytes, all
of different lengths, so that reading one in the place of another is seen; an
asset has 6 bits and radix 2. `MaxDepth` is that of the code.

## What is proved

The theorems hold for every value of the constants: any number of batches,
frames, heights, forks, faults and documents, every window and every capacity,
under the assumptions named in the modules. Those say that counts are naturals,
that concurrency, capacities, batch sizes and heights are positive, that the
value of a document is not the mark of its absence (`NoValueAssumption`, in
`HistoryProofs` the hypotheses `AbsenceMarked`, `DataMarked`, `RecordsMarked` and
`CreationMarked`, which also tell rows and ABIs from unreadable data), that the holders
of `History` are finitely many, names of accounts numbers (u64 in the code; `*` is
none) and their supply a natural, that the limits of `Queries` are numbers, the one of
hits without a page positive (1000 in the code), and that a block has no more documents than versions (`SeqSpan`,
`Versions`, 2^32 in the code).

* `BulkWriterProofs`: `TypeCorrect`, `NothingLost`, `Bounded`, `NoSelectPanic`,
  `CheckpointSafe`, `ResumeSafe`, `FailureContained`, `CleanEndComplete`,
  `CheckpointMonotone`, and `Implements`, the refinement of `ConfirmedLog`.
  None of the invariants is inductive by itself. `IInv` adds to them what ties
  the parts together: which ordinals are where (jobs and held-back results are
  exactly completed .. submitted - 1 while the loop runs), that an "ok" answer
  means an applied request, that every confirmed ordinal is applied, that
  requests beyond `submitted` are unsent, and that the local checkpoint is the
  highest block of the confirmed prefix, with the stored one never ahead of it.
  `NoSelectPanic` then is a count: if the window is full of results alone, the
  awaited one is among them.
* `DecodePoolProofs`: the same invariants of the pool, order of delivery,
  and the refinement of `FrameChannel`.
* `PipelineProofs`: `CreditSafety`, `BackpressureSafety`, `OkCompleteness` and
  `PrefixSafety`. `Backpressure` is a bound on a difference of two lengths and says
  nothing about where the frames between are; `IInv` does. Frames are identified
  by their position in `sent`. From the confirmed ones up to the first stage that has
  failed or was cancelled (`WriterUp`, `ProcessorUp`, `PoolUp`), window, queue, batch,
  pool, channel, hand and socket hold consecutive pieces of `sent`; every batch but the one being filled ends
  `BatchSize` frames after the one before, or sooner (`Spread`), so that the
  number of batches bounds the frames in them; and the credit, in use or on its
  way, covers what the socket holds (`CreditCovers`), also after the socket broke
  or the reader stopped. `OkIsComplete` follows from the same pieces: when all
  stages are empty, what was confirmed is what was sent. `NothingSkipped` is the part
  that remains whatever stops: the batches on their way to Elasticsearch continue the
  confirmed frames (`InFlight`), since a pool that stops short loses the last
  frames it holds and not the first, and nothing passes a processor or a writer that has
  stopped.
* `ElasticProofs`: what a `_bulk` request leaves, for any documents and any items.
  `HighestVersionWins`: under each id the highest version among what was there
  and what was written. `ReplayIdempotent`: after any
  number of requests, any one of them carried out again changes no document; its items
  are superseded by what it left itself or by what came after it, and versions of stored
  documents do not fall. `LandingOrder`: two requests leave the same
  documents in either order, when writes of one id and version are one write; that is
  the case without forks, and `fork_overwrite` shows the case where it is not. Its
  second half is about searches: a sort lists what matches once and in order
  (`OrderedEnumerates`), and the pages of a list are its pieces (`PagesAre`).
* `IndexerProofs`: `HeightSafety`, `CheckpointSafety`, `Convergence` and
  `ResumeSafety`, over all runs that share an Elasticsearch. `IInv` has two
  arguments. `Covered` follows heights, with forks and without: every block from
  the floor to the position of the run is confirmed, or its items are in a request
  on the wire, in the queue or in the batch, in order, so that a confirmation or a
  crash at any point leaves no gap below the checkpoint. `Straight` follows
  writes, without forks: every list of items anywhere (in a batch, on the wire of
  this run, of an earlier one, or stored) is made of whole blocks of the
  chain as it is. So whatever lands late is a write of the chain, and the versions
  order those as the chain does; that the last one is there is `Covered`.
  Neither holds for a run that fell back on the indices, as `first_run_crash` shows.
* `AbiCacheProofs`: `NeverStale`, a prepared decoder is that of the cached ABI, in
  every configuration; `StreamDecoding` (`StreamExact`) and `Healed` (`FetchHeals`)
  where `setabi` traces reach the cache, that is with `fetch_traces` and without
  skipping them. What is left of the block in hand is a chain of items, each of
  which starts with the ABI that the one before it leaves (`Chained`), up to the
  ABI after the block; an item moves the ABI in force as it moves the cached entry,
  so that once the entry came from the stream the two stay together (`Follows`). An item
  that is passed over because an earlier one has its act_digest moves only the ABI in
  force; where that parts the two, the entry is taken out of `Follows` until the next
  update that reaches the cache.
  For `FetchHeals`, a fetched entry is the ABI of the head or an update is to come
  (`Healing`), which needs that a `setabi` that reaches the cache precedes the account
  rows and the repetitions of its block (`Announced`, `FirstOf`) and that without forks the stream has not passed the
  head (`Reached`).
* `ChainInfoProofs`: `Fresh` and `Honest`, for any number of requests, any time
  to live and any latency. Neither is inductive: an answer is young because the
  entry it comes from was, so `IInv` bounds the age of a cached entry by its time
  in the cache and one call, and the age of an answer that waits to be stored by
  the time its request has waited. `Truthful` adds what an age means: the chain
  has grown by at most one block per tick since. `Honest` is arithmetic from it.

* `HistoryProofs`: `NothingInventedSafety`, `ReceiptsSafety`, `StateSafety`,
  `PagesStability`, `PagesSafety`, `AccountsSafety` and `LookupsSafety`, for every chain that
  the transactions of `History` can make, any window and any order of landing. `IInv`
  follows a block on its way. The processor's part is about one block and needs no
  state: the groups of a transaction hold each trace with a receipt once, with those
  of its act (`Grouped`); the rows of a block say what the state after it is
  (`TrueRow`); the loop over both (`AccAfter`) appends documents that are true of the block
  (`Says`) and leaves out no action that is not skipped (`HasDoc`). `IInv` keeps that
  for the items that are flying and, by `HighestVersionWins`, for what is stored: its
  version names the block of which it is true, since a version divided by `Versions`
  is the height. That is all of `NothingInvented`. For `ReceiptsOnce`, the
  sequences of receipts never repeat along the chain (`ChainOK`, `Growing`), so that an
  id belongs to one group of one block; two documents of a transaction differ in
  contract or name because no transaction of `History` has two actions of one name that
  differ in their data; and no action is missing since those of a block that is not
  flying are stored (`Landed`).

  `StateExact` needs that nothing is missing among documents that are written many
  times. A block touches the documents of the permissions and balances it changes
  (`Touched`), and makes those and no others (`StateDocs`). For balances that
  depends on the ABI: a row is decoded with the entry of the cache, which is the ABI
  before or after the block (`Near`) during its actions and the one after it when its
  rows come (`Knows`), because `setabi` passes first. This is where an operator who
  skips `setabi` loses documents, so the theorem has `Operated` as a hypothesis:
  `setabi` is not in `SkipActions`, and the system contract is not the token. `SInv` says
  of each document that a block which touched it left it so (`StateLeft`), and that it
  is no older than any landed block that touched it (`StateThere`). Once all have landed
  it is of the last one that touched it (`LastWriter`), and what no block touches stays
  as it is on the chain (`PermsUntouched`, `TokenWriters`).

  The pages of an account are about order. What a search gives holds what matches, each
  once, by the key of its sort (`OrderedEnumerates`, from the fold that inserts one element after
  the other), and there is one such list when no two keys are equal (`OneOrder`). So the
  pages of any size, one after the other, are that list (`WalkIs`), those of `desc` its
  reverse (`DescendingIs`), and the last ones of v1 its end (`LastOnes`). `PagesStable` needs besides
  that the sequences of a block are above those of the blocks before it
  (`LaterBlock`): what lands in order comes after what is there (`SameStart`).
  For `PagesExact` the list must be that of the chain: the documents of an account and
  the first receipts of its actions correspond one to one (`FirstOf`, `DocOfFirst`), and
  a document's sequence lies among those of its action, which are apart from those of
  the other actions of the block (`Apart`). The last is why a document may be sorted by the
  first receipt of its group although the account was notified by a later one: a
  transaction runs an action for all its receivers before the next action.
  `PagesSafety` has the hypothesis that `max_limit` is not 0, which the configuration
  allows and with which every page is empty.

  The endpoints of accounts search the permissions and balances, of which `StateSafety`
  says what is stored: a list in order with nothing twice is then made of the owners of
  the matches (`OwnersFound`, `Dedup`), so that `AccountsSafety` is about the cut at
  `MaxHits` only, below which the answer is exact.

  The other lookups read what is written once: ABI snapshots, contract rows, actions.
  `RInv` says that each tells what the block did whose id it has, and that none of a landed
  block is missing (`RecordInvariance`); its part about one block is again the loop
  (`RecordsSoFar`), which numbers the contract rows in their order. From it,
  `get_abi_snapshot` gives the highest usable ABI at or below the height
  (`SnapshotsFound`: of a sorted search the first match), and `get_deltas` one
  row for a balance that changed and none for the others (`DeltasFound`).
  `get_transaction` returns all actions, as those of a transaction are two
  different ones at most (`FewActions`); this is where the hypothesis that a search
  returns two hits or more comes from, with 1000 in the code. For `get_creator` it must
  be known that an account is not created twice: once created it has an active permission
  that nothing deletes (`Born`), and a creation needs that it has none (`BInv`).
  `LookupsSafety` has the hypotheses of `StateSafety` and `PagesSafety`, and that `newaccount` is not in
  `SkipActions`: an operator who skips it has no creators to look up.

The maximum of a set of heights, FlattenSeq and the recursions of `DocsAfter` and
`AccAfter` need induction, and the induction theorems of the library take an operator, which no prover here
can instantiate. The proofs argue instead about the least number for which a
claim fails (`LeastNat`, from the well-foundedness of the naturals), and the
equations of a recursive function from the existence of its finite prefixes
(`AfterExists`, `FlatExists`, `LoopExists`, `FoldExists`).

Each inductive invariant was checked with TLC on the instance of the module's run
before it was proved.

Only model-checked: liveness (`Drains`, `FailureSurfaces`, `Ended`,
`FailureSpreads`, `EventuallyCaughtUp`, `Recovers` and those of the pool), since
neither fairness nor ENABLED is in reach of the prover; and the five properties of the
codecs. Their readers are RECURSIVE operators, and their widths are powers: the provers
have no law of exponentiation, not even that a power of 2 is a natural, and the
induction over data that would give one is out of reach. Every other invariant and
action property of a passing run is a theorem.

## What is not modelled, and the plan

Left out for good: logging and metrics, the mappings of the indices, TOML and
command-line parsing, base58 text and checksums of keys, the text of times,
floats, the two example programs. Of the API: ranges of timestamps, the full-text
match of memos, hit totals, the layout of answers. Index creation, the SHIP
handshake and `get_status` run before the stages and have no state of the program.

Planned, in this order:

1. `NameExact`, `AssetExact` and `VaruintExact` for every width, with widths given by a
   function that has the laws of powers in the place of `^`, and readers as recursive
   functions.
2. Queries while the indexer restarts and replays: `History` over `Indexer` in
   the place of its one pass.

Abstract specifications worth adding with them: a document store that holds the
last write of a prefix of the chain, implemented by `Indexer` without forks and
read by `History`.
