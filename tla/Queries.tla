-------------------------------- MODULE Queries -------------------------------
(* The answers of the history and state endpoints (crates/hyperion/src/api), *)
(* by searches of the documents of Elasticsearch.                            *)
EXTENDS Documents, FiniteSetsExt

CONSTANTS
    MaxHits,   \* 1000: hits of the endpoints without a page
    MaxLimit,  \* api.max_limit
    Wild        \* `*` of a filter, and a parameter that was left out

ASSUME QueriesAssumption == MaxHits \in Nat \ {0} /\ MaxLimit \in Nat /\ Wild \notin Int

Allows(param, value) == param \in {Wild, value}

\* `range_filters`, on heights.
InRange(doc, p) ==
    /\ p.after = Wild \/ doc.block_num >= p.after
    /\ p.before = Wild \/ doc.block_num <= p.before

-----------------------------------------------------------------------------
(* Actions.                                                                  *)

\* `clamp_limit`.
ClampLimit(limit) ==
    LET wanted == IF limit = Wild THEN 100 ELSE limit IN
    IF wanted < MaxLimit THEN wanted ELSE MaxLimit

\* `filter_clause`: one of the pairs <<code, action>>.
InFilter(filter, doc) ==
    filter # Wild =>
        \E pair \in filter : Allows(pair[1], doc.account) /\ Allows(pair[2], doc.name)

Notified(docs, account) ==
    {id \in Ids(docs, "action") : account = Wild \/ account \in docs[id].value.notified}

\* Mutant: asc is not understood.
GetActionsDesc(docs, p) ==
    Search(docs, Notified(docs, p.account), Desc("global_sequence"), p.skip, ClampLimit(p.limit))

\* `get_actions`; the filters on @transfer are as those on the account.
GetActions(docs, p) ==
    LET matches == {id \in Notified(docs, p.account) :
                       InFilter(p.filter, docs[id].value) /\ InRange(docs[id].value, p)}
    IN  Search(docs, matches,
               IF p.sort = "asc" THEN Asc("global_sequence") ELSE Desc("global_sequence"),
               p.skip, ClampLimit(p.limit))

\* Mutant: the page starts one action late.
V1GetActionsSkips(docs, account, pos, offset) ==
    LET size == IF offset > MaxHits THEN MaxHits ELSE IF offset < 1 THEN 1 ELSE offset
        hits == Search(docs, Notified(docs, account), Asc("global_sequence"), pos + 1, size)
    IN  [k \in DOMAIN hits |-> [account_action_seq |-> pos + k - 1, action |-> hits[k]]]

\* `v1::get_actions`: a page from `pos`, or the last ones, numbered from 0.
V1GetActions(docs, account, pos, offset) ==
    LET matches == Notified(docs, account)
        asked == IF pos < 0 /\ offset < 0 THEN -offset ELSE offset
        least == IF pos < 0 THEN 0 ELSE 1
        size == IF asked > MaxHits THEN MaxHits ELSE IF asked < least THEN least ELSE asked
        from == IF pos < 0 THEN 0 ELSE pos
        hits == IF pos < 0 THEN Reverse(Search(docs, matches, Desc("global_sequence"), from, size))
                ELSE Search(docs, matches, Asc("global_sequence"), from, size)
    IN  [k \in DOMAIN hits |-> [account_action_seq |-> from + k - 1, action |-> hits[k]]]

\* `get_transaction`, of v2 and of v1, where no hit is NOT_FOUND.
GetTransaction(docs, id) ==
    Search(docs, {a \in Ids(docs, "action") : docs[a].value.trx_id = id},
           Asc("global_sequence"), 0, MaxHits)

NewAccounts(docs) ==
    {id \in Ids(docs, "action") : docs[id].value.name = "newaccount"
                                  /\ docs[id].value.extract # NoValue}

\* `get_created_accounts` and `get_creator`.
GetCreatedAccounts(docs, creator) ==
    LET matches == {id \in NewAccounts(docs) :
                       "creator" \in DOMAIN docs[id].value.extract
                       /\ docs[id].value.extract.creator = creator}
        hits == Search(docs, matches, Desc("global_sequence"), 0, 100)
    IN  [k \in DOMAIN hits |-> hits[k].data.name]

GetCreator(docs, account) ==
    LET matches == {id \in NewAccounts(docs) : docs[id].value.extract.name = account}
        hits == Search(docs, matches, Asc("global_sequence"), 0, 1)
    IN  IF hits = <<>> THEN NoValue ELSE hits[1].data.creator

-----------------------------------------------------------------------------
(* ABIs, deltas and the state of accounts.                                   *)

Snapshots(docs, contract, block) ==
    {id \in Ids(docs, "abi") : docs[id].value.account = contract
                               /\ (block = Wild \/ docs[id].value.block_num <= block)}

\* Mutant: the oldest one.
GetAbiSnapshotOldest(docs, contract, block) ==
    LET hits == Search(docs, Snapshots(docs, contract, block), Asc("block_num"), 0, 1)
    IN  IF hits = <<>> THEN {} ELSE hits[1].abi

\* `get_abi_snapshot`; {} where none is present.
GetAbiSnapshot(docs, contract, block) ==
    LET hits == Search(docs, Snapshots(docs, contract, block), Desc("block_num"), 0, 1)
    IN  IF hits = <<>> THEN {} ELSE hits[1].abi

GetDeltas(docs, p) ==
    LET Matches(doc) == /\ Allows(p.code, doc.code) /\ Allows(p.scope, doc.scope)
                        /\ Allows(p.table, doc.table) /\ Allows(p.present, doc.present)
                        /\ InRange(doc, p)
    IN  Search(docs, {id \in Ids(docs, "delta") : Matches(docs[id].value)},
               IF p.sort = "asc" THEN Asc("block_num") ELSE Desc("block_num"),
               p.skip, ClampLimit(p.limit))

\* account_names.dedup(): neighbours only.
Dedup(s) ==
    LET firsts == {k \in DOMAIN s : k = 1 \/ s[k] # s[k - 1]} IN
    [n \in 1 .. Cardinality(firsts) |->
        s[CHOOSE k \in firsts : Cardinality({j \in firsts : j <= k}) = n]]

\* Owners are numbers, in the order of their names.
Owners(docs, matches) ==
    LET hits == Search(docs, matches, Asc("owner"), 0, MaxHits) IN
    Dedup([k \in DOMAIN hits |-> hits[k].owner])

\* `get_key_accounts`, of v2 and of v1, and `get_controlled_accounts`.
GetKeyAccounts(docs, key) == Owners(docs, {id \in Ids(docs, "perm") : key \in docs[id].value.keys})

GetControlledAccounts(docs, account) ==
    Owners(docs, {id \in Ids(docs, "perm") :
                     \E level \in docs[id].value.accounts : level[1] = account})

\* `fetch_tokens` and `get_account`.
GetTokens(docs, account) ==
    Search(docs, {id \in Ids(docs, "token") : docs[id].value.scope = account},
           Desc("amount"), 0, MaxHits)

GetAccount(docs, account) == [
    tokens |-> GetTokens(docs, account),
    actions |-> Search(docs, Notified(docs, account), Desc("global_sequence"), 0, 20),
    permissions |-> Search(docs, {id \in Ids(docs, "perm") : docs[id].value.owner = account},
                           Unsorted, 0, 100)]
=============================================================================
