------------------------------- MODULE Documents ------------------------------
(* What a block becomes (crates/hyperion/src/processor.rs): its transactions *)
(* and table deltas, decoded with the contract ABIs known at that point, as  *)
(* documents of Elasticsearch.  A document is an item of Elastic without its *)
(* version; its id is <<kind, key>>.                                         *)
(*                                                                           *)
(* An ABI is the set of the action and table names it describes, {} where    *)
(* there is none, Garbage where from_bin fails; what it describes decodes.   *)
(* The cache of ABIs is that of module AbiCache while its processor is not   *)
(* behind the node.  An act_digest is the action itself: equal actions have  *)
(* equal digests.                                                            *)
EXTENDS Elastic

CONSTANTS
    System,      \* chain.system_account
    SkipActions, \* indexer.skip_actions, as pairs
    Garbage      \* what does not parse

Usable(abi) == IF abi = Garbage THEN {} ELSE abi

Index(kind, key, value) == [op |-> "index", id |-> <<kind, key>>, value |-> value]
Delete(kind, key) == [op |-> "delete", id |-> <<kind, key>>, value |-> NoValue]

\* The elements of s at some positions, in order.
Pick(s, positions) ==
    FlattenSeq([k \in DOMAIN s |-> IF k \in positions THEN <<s[k]>> ELSE <<>>])

Receipted(tx) == Pick(tx.traces, {k \in DOMAIN tx.traces : tx.traces[k].receipt})

-----------------------------------------------------------------------------
(* Transactions.                                                             *)

\* Mutant: every trace is an action of its own.
GroupsOfOne(tx) ==
    LET kept == Receipted(tx) IN [k \in DOMAIN kept |-> <<kept[k]>>]

\* The traces with a receipt, by digest, in the order of their first ones.
Groups(tx) ==
    LET kept == Receipted(tx)
        Alike(k) == {j \in DOMAIN kept : kept[j].act = kept[k].act}
    IN  Pick([k \in DOMAIN kept |-> Pick(kept, Alike(k))],
             {k \in DOMAIN kept : \A j \in Alike(k) : k <= j})

Primary(group) ==
    LET own == {k \in DOMAIN group : group[k].receiver = group[k].act.account} IN
    group[IF own = {} THEN 1 ELSE CHOOSE k \in own : \A j \in own : k <= j]

\* `apply_setabi`, for an action of the system account.
ApplySetabi(abis, act) ==
    IF act.account = System /\ act.name = "setabi"
      THEN [abis EXCEPT ![act.data.account] = Usable(act.data.abi)] ELSE abis

\* `decode_action_data`; hex where the contract's ABI does not help.
Decoded(abis, account, name, data) ==
    IF name \in abis[account] THEN data ELSE NoValue

\* `extract_action_fields`, of any contract's action of that name.
Extract(name, data) ==
    LET Fields(must, may) ==
            IF data # NoValue /\ must \subseteq DOMAIN data
              THEN [f \in (must \cup may) \cap DOMAIN data |-> data[f]] ELSE NoValue
    IN  IF name = "transfer" THEN Fields({"from", "to"}, {"quantity", "memo"})
        ELSE IF name = "newaccount" THEN Fields({"name"}, {"creator"})
        ELSE NoValue

ActionDoc(height, tx, group, data) ==
    LET primary == Primary(group) IN
    [global_sequence |-> primary.sequence,
     block_num |-> height,
     trx_id |-> tx.id,
     account |-> primary.act.account, name |-> primary.act.name, data |-> data,
     notified |-> {group[k].receiver : k \in DOMAIN group},
     receipts |-> [k \in DOMAIN group |->
                      [receiver |-> group[k].receiver, sequence |-> group[k].sequence]],
     signatures |-> IF primary.creator = 0 THEN tx.signatures ELSE {},
     extract |-> Extract(primary.act.name, data)]

\* The body of the loop over the groups.  acc: the documents so far, the ABIs
\* known, and the rows seen in contract tables.
ProcessGroup(height, tx, acc, group) ==
    LET primary == Primary(group)
        act == primary.act
        abis == ApplySetabi(acc.abis, act)
        data == Decoded(abis, act.account, act.name, act.data)
        doc == Index("action", primary.sequence, ActionDoc(height, tx, group, data))
    IN  IF <<act.account, act.name>> \in SkipActions THEN acc
        ELSE [docs |-> Append(acc.docs, doc), abis |-> abis, ordinal |-> acc.ordinal]

\* `process_transaction`: only what was executed.
ActionWork(tx) ==
    LET groups == Groups(tx) IN
    IF tx.status # 0 THEN <<>>
    ELSE [k \in DOMAIN groups |-> [kind |-> "action", tx |-> tx, group |-> groups[k]]]

-----------------------------------------------------------------------------
(* Table deltas: a row is [present, data].                                   *)

\* A row without an ABI is left alone, one that does not parse clears it.
ProcessAccountRow(height, acc, row) ==
    LET abi == Usable(row.data.abi)
        doc == Index("abi", <<height, row.data.name>>,
                     [block_num |-> height, account |-> row.data.name, abi |-> abi])
    IN  IF ~row.present \/ row.data.abi = {} THEN acc
        ELSE [docs |-> IF abi = {} THEN acc.docs ELSE Append(acc.docs, doc),
              abis |-> [acc.abis EXCEPT ![row.data.name] = abi],
              ordinal |-> acc.ordinal]

\* Mutant: a removed permission is written with what it was.
ProcessPermissionRowKeeps(acc, row) ==
    [docs |-> Append(acc.docs, Index("perm", <<row.data.owner, row.data.name>>, row.data)),
     abis |-> acc.abis, ordinal |-> acc.ordinal]

ProcessPermissionRow(acc, row) ==
    LET key == <<row.data.owner, row.data.name>>
        doc == IF row.present THEN Index("perm", key, row.data) ELSE Delete("perm", key)
    IN  [docs |-> Append(acc.docs, doc), abis |-> acc.abis, ordinal |-> acc.ordinal]

TokenDoc(height, row, data) ==
    LET key == <<row.data.code, row.data.scope, data.symbol>> IN
    IF row.present
      THEN Index("token", key, [block_num |-> height, code |-> row.data.code,
                 scope |-> row.data.scope, symbol |-> data.symbol, amount |-> data.amount])
      ELSE Delete("token", key)

\* `process_contract_row`: a delta, and the balance if the table is a token's.
ProcessContractRow(height, acc, row) ==
    LET cr == row.data
        data == Decoded(acc.abis, cr.code, cr.table, cr.value)
        delta == Index("delta", <<height, acc.ordinal>>,
            [block_num |-> height, code |-> cr.code, scope |-> cr.scope, table |-> cr.table,
             present |-> row.present, data |-> data])
        balance == data # NoValue /\ cr.table = "accounts" /\ {"symbol", "amount"} \subseteq DOMAIN data
        docs == Append(acc.docs, delta)
    IN  [docs |-> IF balance THEN Append(docs, TokenDoc(height, row, data)) ELSE docs,
         abis |-> acc.abis,
         ordinal |-> acc.ordinal + 1]

\* `process_deltas`: rows that do not decode are passed over, without an ordinal.
RowWork(delta) ==
    LET rows == Pick(delta.rows, {k \in DOMAIN delta.rows : delta.rows[k].data # Garbage}) IN
    [k \in DOMAIN rows |-> [kind |-> delta.name, row |-> rows[k]]]

-----------------------------------------------------------------------------
(* A block.                                                                  *)

\* What the loops of process_decoded go through, one after the other.
Work(block) ==
    FlattenSeq([n \in DOMAIN block.traces |-> ActionWork(block.traces[n])])
    \o FlattenSeq([n \in DOMAIN block.deltas |-> RowWork(block.deltas[n])])

Process(height, acc, item) ==
    IF item.kind = "action" THEN ProcessGroup(height, item.tx, acc, item.group)
    ELSE IF item.kind = "account" THEN ProcessAccountRow(height, acc, item.row)
    ELSE IF item.kind = "permission" THEN ProcessPermissionRow(acc, item.row)
    ELSE IF item.kind = "contract_row" THEN ProcessContractRow(height, acc, item.row)
    ELSE acc

\* acc after the first k items, for every k.
AccAfter(height, acc, work) ==
    LET after[k \in 0 .. Len(work)] ==
            IF k = 0 THEN acc ELSE Process(height, after[k - 1], work[k])
    IN  after

\* `process_decoded`: the documents of a block and the ABIs known after it.
\* A block whose signed block was not fetched or does not decode has no header.
ProcessBlock(height, block, abis) ==
    LET header == IF block.header THEN <<Index("block", height, [block_num |-> height])>> ELSE <<>>
        work == Work(block)
    IN  AccAfter(height, [docs |-> header, abis |-> abis, ordinal |-> 0], work)[Len(work)]

\* Mutant: the version is the place in the block only.
VersionedInBlock(height, most, docs) ==
    [k \in DOMAIN docs |->
        [op |-> docs[k].op, id |-> docs[k].id, version |-> k, value |-> docs[k].value]]

\* The loop of process_blocks over the documents of a block; `most` is 2^32.
Versioned(height, most, docs) ==
    [k \in DOMAIN docs |->
        [op |-> docs[k].op, id |-> docs[k].id, version |-> height * most + k - 1,
         value |-> docs[k].value]]
=============================================================================
