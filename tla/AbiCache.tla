------------------------------- MODULE AbiCache -------------------------------
(***************************************************************************)
(* With which ABI the processor decodes: the ABI cache of abis.rs, fed in  *)
(* block order by `setabi` traces and by account rows of the state-history *)
(* deltas (processor.rs), and by the chain API on a miss, which answers    *)
(* with the ABI at the head of the chain, ahead of the block in hand.      *)
(*                                                                         *)
(* The cache is keyed by account and the entries do not influence each     *)
(* other: this is one contract account.  A block is what its traces do to  *)
(* the account, in order: "setabi" with an ABI, or "act", an action of the *)
(* contract.  `tx` is the item's transaction and `rest` whatever else tells *)
(* two actions apart, so that within a block equal items are those of one  *)
(* transaction with one act_digest.  Every block also changes one row of   *)
(* the contract.                                                           *)
(***************************************************************************)
EXTENDS Integers, Sequences, FiniteSetsExt

CONSTANTS
    Abis,           \* ABIs that parse
    Blocks,         \* what a block may hold: sequences of trace items
    MaxHeight,      \* bound: blocks of the chain
    MaxForks,       \* bound: forks of the chain
    MaxRestarts,    \* bound: restarts of the indexer
    FetchTraces,    \* indexer.fetch_traces
    FetchDeltas,    \* indexer.fetch_deltas
    SkipSetAbi,     \* skip_actions names the system account's setabi
    FetchMayFail    \* the chain API may be out of reach

\* On chain: no ABI (never set, or cleared), or bytes that do not parse.
CONSTANTS Cleared, Broken

\* In the cache: no entry; `NoAbi` is the negative entry, None in the code.
CONSTANTS Missing, NoAbi

OnChain == Abis \cup {Cleared, Broken}

TraceItem ==
    [kind : {"act"}, tx : Nat, rest : Nat]
        \cup [kind : {"setabi"}, abi : OnChain, tx : Nat, rest : Nat]

ASSUME AbiAssumption ==
    /\ Blocks \subseteq Seq(TraceItem)
    /\ MaxHeight \in Nat \ {0}
    /\ MaxForks \in Nat
    /\ MaxRestarts \in Nat
    /\ {FetchTraces, FetchDeltas, SkipSetAbi, FetchMayFail} \subseteq BOOLEAN
    /\ Cleared # Broken /\ Missing # NoAbi
    /\ Abis \cap {Cleared, Broken, Missing, NoAbi} = {}

VARIABLES
    chain,      \* the node's blocks
    forks,      \* forks so far
    next,       \* the next block of the stream
    todo,       \* what is left to process of the block in hand
    abis,       \* the cache's entry for the account
    decoder,    \* the prepared decoder of the account
    source,     \* history: where the entry came from, "fork" for a chain
                \* that was left since, "repeat" when a setabi of the stream
                \* was passed over since
    used,       \* history: the ABI the last action or row was decoded with
    active,     \* history: the ABI that was active for it on the chain
    restarts    \* restarts so far

node == <<chain, forks>>
cache == <<abis, decoder, source>>
outcome == <<used, active>>
vars == <<node, next, todo, cache, outcome, restarts>>

-----------------------------------------------------------------------------
(* The chain.                                                               *)

\* Those of the first n trace items that set the ABI.
Setting(items, n) == {k \in 1 .. n : items[k].kind = "setabi"}

\* The ABI after the first n trace items, `before` being the one they start
\* with.
AbiAfter(items, n, before) ==
    LET set == Setting(items, n) IN
        IF set = {} THEN before ELSE items[Max(set)].abi

\* The block sets the ABI.
Updates(block) == Setting(block, Len(block)) # {}

\* The ABI after the first h blocks.
AbiAt(h) ==
    LET updates == {g \in 1 .. h : Updates(chain[g])}
        last == chain[Max(updates)]
    IN  IF updates = {} THEN Cleared ELSE AbiAfter(last, Len(last), Cleared)

\* What an ABI on the chain is worth to a decoder.
Usable(abi) == IF abi \in Abis THEN abi ELSE NoAbi

\* An item with the act_digest of an earlier one of its transaction.
Repeated(items, k) == \E j \in 1 .. k - 1 : items[j] = items[k]

\* The items of a block in the order the processor meets them: the traces,
\* then the account row when the block set the ABI, then the contract row.
\* `active` and `abi` are the ABI before and after the item on the chain,
\* `fork` says which chain this is.
Work(h) ==
    LET items == chain[h]
        after(k) == AbiAfter(items, k, AbiAt(h - 1))
        traces == [k \in 1 .. Len(items) |->
            [kind |-> items[k].kind, repeat |-> Repeated(items, k), fork |-> forks,
             active |-> after(k - 1), abi |-> after(k)]]
        delta(kind) ==
            <<[kind |-> kind, repeat |-> FALSE, fork |-> forks,
               active |-> AbiAt(h), abi |-> AbiAt(h)]>>
        account == IF Updates(items) THEN delta("account") ELSE <<>>
    IN  (IF FetchTraces THEN traces ELSE <<>>)
        \o (IF FetchDeltas THEN account \o delta("row") ELSE <<>>)

Init ==
    /\ chain = <<>>
    /\ forks = 0
    /\ next \in 1 .. MaxHeight
    /\ todo = <<>>
    /\ abis = Missing
    /\ decoder = Missing
    /\ source = "none"
    /\ used = NoAbi
    /\ active = Cleared
    /\ restarts = 0

\* A block applied below the position of the stream takes the stream back.
Produce ==
    /\ Len(chain) < MaxHeight
    /\ \E block \in Blocks : chain' = Append(chain, block)
    /\ next' = IF forks > 0 /\ Len(chain) + 1 < next THEN Len(chain) + 1 ELSE next
    /\ UNCHANGED <<forks, todo, cache, outcome, restarts>>

Fork ==
    /\ forks < MaxForks
    /\ \E h \in 1 .. Len(chain) : chain' = SubSeq(chain, 1, h - 1)
    /\ forks' = forks + 1
    /\ source' = IF source = "none" THEN "none" ELSE "fork"
    /\ UNCHANGED <<next, todo, abis, decoder, outcome, restarts>>

-----------------------------------------------------------------------------
(* The cache.                                                               *)

\* The stream has sent the item for the chain as it is.
Current == Head(todo).fork = forks

OfStream == IF Current THEN "stream" ELSE "fork"

\* Mutant: bytes that do not parse, or a clear, leave the entry alone.
UpdateOnlyParsed(abi) ==
    /\ decoder' = Missing
    /\ abis' = IF abi \in Abis THEN abi ELSE abis
    /\ source' = OfStream

\* `update`: the prepared decoder goes, and the entry is replaced.
Update(abi) ==
    /\ decoder' = Missing
    /\ abis' = Usable(abi)
    /\ source' = OfStream

\* `decoder` after `get_or_fetch` found or made the entry.
Prepare(entry) ==
    /\ abis' = entry
    /\ decoder' = IF entry = NoAbi THEN Missing ELSE entry
    /\ used' = entry

Hit ==
    /\ decoder # Missing
    /\ used' = decoder
    /\ UNCHANGED cache

Cached ==
    /\ decoder = Missing
    /\ abis # Missing
    /\ Prepare(abis)
    /\ UNCHANGED source

\* The chain API answers with the ABI at the head, "no ABI" included.
Fetch ==
    /\ decoder = Missing
    /\ abis = Missing
    /\ Prepare(Usable(AbiAt(Len(chain))))
    /\ source' = "api"

\* `fetched.ok()`: an error becomes the negative entry.
FetchFails ==
    /\ FetchMayFail
    /\ decoder = Missing
    /\ abis = Missing
    /\ Prepare(NoAbi)
    /\ source' = "failure"

-----------------------------------------------------------------------------
(* The processor, item by item.                                             *)

TakeBlock ==
    /\ todo = <<>>
    /\ next <= Len(chain)
    /\ todo' = Work(next)
    /\ next' = next + 1
    /\ UNCHANGED <<node, cache, outcome, restarts>>

NextIs(kinds) ==
    /\ todo # <<>>
    /\ ~Head(todo).repeat
    /\ Head(todo).kind \in kinds

\* Mutant: a clear is taken for an update without content.
SetAbiNonEmpty ==
    /\ NextIs({"setabi"})
    /\ IF SkipSetAbi \/ Head(todo).abi = Cleared
         THEN UNCHANGED cache ELSE Update(Head(todo).abi)
    /\ todo' = Tail(todo)
    /\ UNCHANGED <<node, next, outcome, restarts>>

\* apply_setabi, unless the action is skipped.
SetAbi ==
    /\ NextIs({"setabi"})
    /\ IF SkipSetAbi THEN UNCHANGED cache ELSE Update(Head(todo).abi)
    /\ todo' = Tail(todo)
    /\ UNCHANGED <<node, next, outcome, restarts>>

\* Traces are grouped by act_digest, and a group is processed once, where its
\* first trace stands: a repeated action is not decoded again, and a repeated
\* setabi does not reach the cache, whatever was set in between.
Collapsed ==
    /\ todo # <<>>
    /\ Head(todo).repeat
    /\ source' = IF source = "stream" /\ Head(todo).abi # Head(todo).active
                 THEN "repeat" ELSE source
    /\ todo' = Tail(todo)
    /\ UNCHANGED <<node, next, abis, decoder, outcome, restarts>>

\* An account row of the deltas; one without an ABI is passed over.
AccountRow ==
    /\ NextIs({"account"})
    /\ IF Head(todo).abi = Cleared THEN UNCHANGED cache ELSE Update(Head(todo).abi)
    /\ todo' = Tail(todo)
    /\ UNCHANGED <<node, next, outcome, restarts>>

\* decode_action_data and process_contract_row ask for the decoder.
Decode ==
    /\ NextIs({"act", "row"})
    /\ Hit \/ Cached \/ Fetch \/ FetchFails
    /\ active' = Head(todo).active
    /\ todo' = Tail(todo)
    /\ UNCHANGED <<node, next, restarts>>

\* A new run: an empty cache, at or below the block of the old one.
Restart ==
    /\ restarts < MaxRestarts
    /\ restarts' = restarts + 1
    /\ next' \in 1 .. next
    /\ todo' = <<>>
    /\ abis' = Missing
    /\ decoder' = Missing
    /\ source' = "none"
    /\ used' = NoAbi
    /\ active' = Cleared
    /\ UNCHANGED node

Next ==
    \/ Produce
    \/ Fork
    \/ TakeBlock
    \/ SetAbi
    \/ Collapsed
    \/ AccountRow
    \/ Decode
    \/ Restart

Spec == Init /\ [][Next]_vars

-----------------------------------------------------------------------------
(* Safety.                                                                  *)

\* README.md:40-41: a prepared decoder is that of the cached ABI, so that an
\* update is never followed by a decode with the ABI before it.
DecoderFresh == decoder # Missing => decoder = abis

\* abis.rs:3-7, README.md:34-37: once the stream has brought an ABI of the
\* account, every action and row that is decoded is decoded with the ABI that
\* was active for it, several updates in one block and clears included.  There
\* are two ways out of it: a fork, and a transaction that repeats a setabi
\* after another one (processor.rs:211-225), which is against the README.  From
\* either the next update that the stream brings leads back.
StreamExact ==
    [][Decode /\ source = "stream" => used' = Usable(active')]_vars

UpdateAhead ==
    \/ \E k \in DOMAIN todo :
        todo[k].kind \in {"setabi", "account"} /\ ~todo[k].repeat
    \/ \E h \in next .. Len(chain) : Updates(chain[h])

\* abis.rs:5-7: an ABI of the chain API can be ahead of the block in hand, but
\* then the stream brings an update that ends the mismatch.
FetchHeals ==
    [][Decode /\ Current /\ source' = "api" /\ used' # Usable(active')
         => UpdateAhead]_vars

=============================================================================
