-------------------------------- MODULE History -------------------------------
(* From the chain to the answers of the API: a node that executes            *)
(* transactions and reports traces and table deltas, the documents that the  *)
(* indexer makes of each block, their writes, which may land in any order    *)
(* (module BulkWriter), and the queries over what has landed.                *)
EXTENDS Queries

CONSTANTS
    Token,      \* a token contract
    Holders,    \* accounts with balances and permissions
    NewName,    \* an account that may be created
    Keys,
    Auths,      \* [keys, accounts] of a permission
    Abis,       \* ABIs the token contract may be given
    Supply,     \* balance of the first holder
    MaxHeight,  \* bound: blocks
    Window,     \* bound: blocks whose documents are on their way
    Versions    \* bound: documents of a block, 2^32 in the code

ASSUME HistoryAssumption ==
    /\ IsFiniteSet(Holders) /\ Holders \subseteq Nat /\ NewName \in Nat /\ Supply \in Nat
    /\ MaxHeight \in Nat /\ Versions \in Nat \ {0}

VARIABLES
    chain,  \* blocks and the state after each
    abis,   \* the ABI cache of the processor
    docs,   \* Elasticsearch's documents
    flying  \* [height, items] of blocks being written
vars == <<chain, abis, docs, flying>>

First == CHOOSE a \in Holders : \A b \in Holders : a <= b

Genesis == [perms |-> {}, balance |-> [a \in Holders |-> IF a = First THEN Supply ELSE 0],
            abi |-> {}, sequence |-> 0]

After(h) == IF h = 0 THEN Genesis ELSE chain[h].after
Current == After(Len(chain))

SystemAbi == {"setabi", "newaccount", "updateauth", "deleteauth"}

Init ==
    /\ chain = <<>>
    /\ abis = [a \in {System, Token} |-> IF a = System THEN SystemAbi ELSE {}]
    /\ docs = [id \in {} |-> Absent]
    /\ flying = {}

-----------------------------------------------------------------------------
(* The node.  A transaction is its status and its actions, each with the     *)
(* accounts it notifies.                                                     *)

Act(account, name, data) == [account |-> account, name |-> name, data |-> data]
Step(act, notify) == [act |-> act, receivers |-> <<act.account>> \o notify]

Transaction(steps, after) == [status |-> 0, steps |-> steps, after |-> after]

Transfer(from, to) ==
    Step(Act(Token, "transfer", [from |-> from, to |-> to, quantity |-> 1]), <<from, to>>)

SetAbi(abi) == Step(Act(System, "setabi", [account |-> Token, abi |-> abi]), <<>>)

Move(s, from, to, n) ==
    [s EXCEPT !.balance = [a \in Holders |->
        IF a = from THEN s.balance[a] - n ELSE IF a = to THEN s.balance[a] + n ELSE s.balance[a]]]

Perm(owner, name, auth) ==
    [owner |-> owner, name |-> name, keys |-> auth.keys, accounts |-> auth.accounts]

Others(s, owner, name) == {p \in s.perms : p.owner # owner \/ p.name # name}

\* n transfers of one token, alike in everything.
Transfers(s) ==
    {Transaction([k \in 1 .. t[3] |-> Transfer(t[1], t[2])], Move(s, t[1], t[2], t[3])) :
        t \in {u \in Holders \X Holders \X (1 .. 2) : u[1] # u[2] /\ u[3] <= s.balance[u[1]]}}

Creation(s, creator, key) ==
    Transaction(<<Step(Act(System, "newaccount", [creator |-> creator, name |-> NewName]), <<>>)>>,
                [s EXCEPT !.perms = @ \cup {Perm(NewName, "active", [keys |-> {key}, accounts |-> {}])}])

Creations(s) ==
    IF \E p \in s.perms : p.owner = NewName THEN {}
    ELSE {Creation(s, u[1], u[2]) : u \in Holders \X Keys}

Update(s, owner, auth) ==
    Transaction(<<Step(Act(System, "updateauth", [owner |-> owner, auth |-> auth]), <<>>)>>,
                [s EXCEPT !.perms = Others(s, owner, "extra") \cup {Perm(owner, "extra", auth)}])

Updates(s) == {Update(s, u[1], u[2]) : u \in Holders \X Auths}

Deletions(s) ==
    {Transaction(<<Step(Act(System, "deleteauth", [owner |-> o]), <<>>)>>,
                 [s EXCEPT !.perms = Others(s, o, "extra")]) :
        o \in {p.owner : p \in {q \in s.perms : q.name = "extra"}}}

\* A contract's new ABI, alone or with its first use in the same transaction.
Deployments(s) ==
    UNION {{Transaction(<<SetAbi(abi)>>, [s EXCEPT !.abi = abi])} \cup
           {Transaction(<<SetAbi(abi), t.steps[1]>>, [t.after EXCEPT !.abi = abi]) : t \in Transfers(s)} :
           abi \in Abis \ {s.abi}}

\* An action the operator skips, and a transaction that failed.
Unindexed(s) ==
    {Transaction(<<Step(Act(Token, "ping", [memo |-> 0]), <<First>>)>>, s),
     [status |-> 1, steps |-> <<Transfer(First, First)>>, after |-> s]}

TracesOf(tx, first) ==
    LET Runs(step) == [k \in DOMAIN step.receivers |->
                          [act |-> step.act, receiver |-> step.receivers[k]]]
        runs == FlattenSeq([n \in DOMAIN tx.steps |-> Runs(tx.steps[n])])
    IN  [k \in DOMAIN runs |->
            [act |-> runs[k].act, receiver |-> runs[k].receiver, receipt |-> tx.status = 0,
             sequence |-> first + k, creator |-> 0]]

\* The rows that differ between two states; a removed row has its last value.
Row(present, data) == [present |-> present, data |-> data]

AccountRows(s, t) ==
    IF s.abi = t.abi THEN <<>> ELSE <<Row(TRUE, [name |-> Token, abi |-> t.abi])>>

PermissionRows(s, t) ==
    LET gone == {p \in s.perms : ~\E q \in t.perms : q.owner = p.owner /\ q.name = p.name} IN
    SetToSeq({Row(TRUE, p) : p \in t.perms \ s.perms} \cup {Row(FALSE, p) : p \in gone})

BalanceRow(s, t, a) ==
    Row(t.balance[a] > 0,
        [code |-> Token, scope |-> a, table |-> "accounts",
         value |-> [symbol |-> "TOK",
                    amount |-> IF t.balance[a] > 0 THEN t.balance[a] ELSE s.balance[a]]])

ContractRows(s, t) ==
    <<Row(TRUE, Garbage)>> \o
    SetToSeq({BalanceRow(s, t, a) : a \in {b \in Holders : s.balance[b] # t.balance[b]}})

DeltasOf(s, t) ==
    <<[name |-> "account", rows |-> AccountRows(s, t)],
      [name |-> "permission", rows |-> PermissionRows(s, t)],
      [name |-> "resource_usage", rows |-> <<Row(TRUE, [name |-> Token])>>],
      [name |-> "contract_row", rows |-> ContractRows(s, t)]>>

\* What the node reports of a block with one transaction in state s, and what
\* the chain is then.
Reported(height, s, tx) ==
    [header |-> tx.status = 0,
     traces |-> <<[id |-> height, status |-> tx.status, traces |-> TracesOf(tx, s.sequence),
                   signatures |-> {}]>>,
     deltas |-> DeltasOf(s, tx.after)]

Executed(s, tx) ==
    LET traces == IF tx.status = 0 THEN TracesOf(tx, s.sequence) ELSE <<>> IN
    [traces |-> traces, after |-> [tx.after EXCEPT !.sequence = @ + Len(traces)]]

\* A block, and its documents on their way to Elasticsearch.
Produce(txs) ==
    /\ Len(chain) < MaxHeight
    /\ Cardinality(flying) < Window
    /\ \E tx \in txs :
        LET height == Len(chain) + 1
            made == ProcessBlock(height, Reported(height, Current, tx), abis)
        IN  /\ Len(made.docs) <= Versions
            /\ chain' = Append(chain, Executed(Current, tx))
            /\ abis' = made.abis
            /\ flying' = flying \cup {[height |-> height,
                                       items |-> Versioned(height, Versions, made.docs)]}
    /\ UNCHANGED docs

\* The documents, with an absent one under every other id of the items.
Opened(items) ==
    [id \in DOMAIN docs \cup {items[k].id : k \in DOMAIN items} |->
        IF id \in DOMAIN docs THEN docs[id] ELSE Absent]

\* The bulk request of some block is applied.
Land(w) ==
    /\ docs' = BulkResult(Opened(w.items), w.items).docs
    /\ flying' = flying \ {w}
    /\ UNCHANGED <<chain, abis>>

Next ==
    \/ Produce(Transfers(Current)) \/ Produce(Creations(Current))
    \/ Produce(Updates(Current)) \/ Produce(Deletions(Current))
    \/ Produce(Deployments(Current)) \/ Produce(Unindexed(Current))
    \/ \E w \in flying : Land(w)

Spec == Init /\ [][Next]_vars

-----------------------------------------------------------------------------
Settled == flying = {}

\* Every receipt that the chain gave an action nobody skips.
Receipts ==
    UNION {{[height |-> h, trace |-> chain[h].traces[k]] : k \in DOMAIN chain[h].traces} :
           h \in DOMAIN chain}
Indexed == {r \in Receipts : <<r.trace.act.account, r.trace.act.name>> \notin SkipActions}

DocsOf(kind) == Ids(docs, kind)
LiveDocs(kind) == {docs[id].value : id \in DocsOf(kind)}

\* What a document, and a trace of block h, say of a receipt.
ReceiptsOf(doc) ==
    {[height |-> doc.block_num, account |-> doc.account, name |-> doc.name,
      receipt |-> doc.receipts[k]] : k \in DOMAIN doc.receipts}
ReceiptOf(h, trace) ==
    [height |-> h, account |-> trace.act.account, name |-> trace.act.name,
     receipt |-> [receiver |-> trace.receiver, sequence |-> trace.sequence]]

\* processor.rs:207: notifications are collapsed into the action they are of:
\* every receipt is in one action document, with the block and the action it
\* belongs to, and no document has a receipt the chain did not give.
ReceiptsOnce ==
    LET wanted == {ReceiptOf(r.height, r.trace) : r \in Indexed}
        actions == LiveDocs("action")
        found == UNION {ReceiptsOf(doc) : doc \in actions}
    IN  /\ found \subseteq wanted
        /\ \A doc, other \in actions : doc # other =>
               /\ ReceiptsOf(doc) \cap ReceiptsOf(other) = {}
               /\ doc.trx_id = other.trx_id => doc.account # other.account
                                               \/ doc.name # other.name \/ doc.data # other.data
        /\ Settled => found = wanted

\* The actions that ran on account a, each action of a transaction once, in
\* the order in which they ran.
Actions(a) ==
    LET ran == {r \in Indexed : r.trace.receiver = a}
        firsts == {r \in ran : ~\E q \in ran : q.height = r.height /\ q.trace.act = r.trace.act
                                                /\ q.trace.sequence < r.trace.sequence}
        order == Ordered(firsts, [r \in firsts |-> r.trace.sequence])
    IN  [k \in DOMAIN order |-> <<order[k].height, order[k].trace.act.name>>]

Params(a, skip, limit, sort) ==
    [account |-> a, filter |-> Wild, after |-> Wild, before |-> Wild,
     skip |-> skip, limit |-> limit, sort |-> sort]

\* The pages of `limit` actions one after the other.
Walk(stored, a, limit, sort) ==
    FlattenSeq([n \in 1 .. Cardinality(Ids(stored, "action")) |->
        GetActions(stored, Params(a, (n - 1) * limit, limit, sort))])

Shown(actions) == [k \in DOMAIN actions |-> <<actions[k].block_num, actions[k].name>>]

\* Walking the pages of get_actions, or those of v1 by `pos`, gives every
\* action that ran on an account once, in order, with its place in it.
PagesExact ==
    Settled => \A a \in Holders :
        LET all == Walk(docs, a, MaxLimit, "asc")
            v1(pos, offset) == V1GetActions(docs, a, pos, offset)
        IN  /\ Shown(all) = Actions(a)
            /\ \A limit \in 1 .. MaxLimit :
                   /\ Walk(docs, a, limit, "asc") = all
                   /\ Walk(docs, a, limit, "desc") = Reverse(all)
            /\ \A pos \in 0 .. Len(all), n \in 1 .. MaxHits :
                   v1(pos, n) = [k \in DOMAIN Page(all, pos, n) |->
                       [account_action_seq |-> pos + k - 1, action |-> all[pos + k]]]
            /\ \A n \in 1 .. MaxHits :
                   LET last == v1(-1, -n) IN
                   [k \in DOMAIN last |-> last[k].action] =
                       SubSeq(all, Max({1, Len(all) - n + 1}), Len(all))

\* While blocks land in their order, a page of `asc` that is full stays what
\* it is: a client may go on where it was.
InOrder ==
    \E w \in flying : flying' = flying \ {w} /\ \A v \in flying : v.height >= w.height
Extends ==
    \A a \in Holders :
        IsPrefix(Walk(docs, a, MaxLimit, "asc"), Walk(docs', a, MaxLimit, "asc"))
SettledBelow == \A w \in flying : \A id \in DocsOf("action") : docs[id].value.block_num < w.height
PagesStable == [][(InOrder /\ SettledBelow) => Extends]_vars

\* The block whose rows say what the token documents show of a: the last one
\* that changed its balance under an ABI that describes the table.
TokenSeen(a) ==
    LET hs == {h \in DOMAIN chain : /\ After(h).balance[a] # After(h - 1).balance[a]
                                    /\ "accounts" \in Usable(After(h).abi)}
    IN  IF hs = {} THEN 0 ELSE After(Max(hs)).balance[a]

TokensOf(a) == {id \in DocsOf("token") : docs[id].value.scope = a}

\* Once all writes landed, in whatever order, the permissions stored are those
\* of the chain's last block, each under its owner and name, and each holder
\* has the one token document that the chain last had a reason to write.
StateExact ==
    Settled =>
        /\ LiveDocs("perm") = Current.perms
        /\ \A id \in DocsOf("perm") : id[2] = <<docs[id].value.owner, docs[id].value.name>>
        /\ \A a \in Holders :
               IF TokenSeen(a) = 0 THEN TokensOf(a) = {}
               ELSE \E id \in TokensOf(a) : /\ TokensOf(a) = {id}
                                            /\ docs[id].value.amount = TokenSeen(a)

\* Before that, a document is what the chain had after the block it is of.
NothingInvented ==
    /\ \A id \in DocsOf("perm") : docs[id].value \in After(docs[id].version \div Versions).perms
    /\ \A doc \in LiveDocs("token") :
           doc.amount > 0 /\ doc.amount = After(doc.block_num).balance[doc.scope]

Sorted(S) == Ordered(S, [x \in S |-> x])

\* The owners a query gives are those of the chain, each once, unless there
\* are more permissions than a search returns: then they are some of them.
Answers(owners, perms) ==
    IF Cardinality(perms) <= MaxHits THEN owners = Sorted({p.owner : p \in perms})
    ELSE /\ Range(owners) \subseteq {p.owner : p \in perms}
         /\ IsInjective(owners)

\* get_key_accounts, get_controlled_accounts and get_account say what the
\* chain's last block left.
AccountsExact ==
    LET perms == Current.perms IN
    /\ \A key \in Keys : Answers(GetKeyAccounts(docs, key), {p \in perms : key \in p.keys})
    /\ \A a \in Holders :
           /\ Answers(GetControlledAccounts(docs, a),
                      {p \in perms : \E level \in p.accounts : level[1] = a})
           /\ LET account == GetAccount(docs, a) IN
              /\ {account.permissions[k] : k \in DOMAIN account.permissions}
                     = {p \in perms : p.owner = a}
              /\ IF TokenSeen(a) = 0 THEN account.tokens = <<>>
                 ELSE Len(account.tokens) = 1 /\ account.tokens[1].amount = TokenSeen(a)

\* get_abi_snapshot, get_deltas, get_transaction, get_creator and
\* get_created_accounts say what the chain did, block by block; the
\* snapshot passes over a cleared or unreadable ABI.  The endpoints of
\* accounts say what is.
LookupsExact ==
    Settled =>
        LET Set(h) == After(h).abi # After(h - 1).abi /\ Usable(After(h).abi) # {}
            Abi(b) == LET hs == {h \in 1 .. b : Set(h)} IN
                      IF hs = {} THEN {} ELSE After(Max(hs)).abi
            Deltas(a, h) == GetDeltas(docs, [code |-> Token, scope |-> a, table |-> "accounts",
                present |-> Wild, after |-> h, before |-> h, skip |-> 0, limit |-> Wild,
                sort |-> "asc"])
            made == {r \in Receipts : r.trace.act.name = "newaccount"}
        IN  /\ AccountsExact
            /\ \A b \in DOMAIN chain : GetAbiSnapshot(docs, Token, b) = Abi(b)
            /\ GetAbiSnapshot(docs, Token, Wild) = Abi(Len(chain))
            /\ \A a \in Holders, h \in DOMAIN chain :
                   IF After(h).balance[a] = After(h - 1).balance[a] THEN Deltas(a, h) = <<>>
                   ELSE /\ Len(Deltas(a, h)) = 1
                        /\ Deltas(a, h)[1].present = (After(h).balance[a] > 0)
            /\ \A h \in DOMAIN chain :
                   {doc.global_sequence : doc \in Range(GetTransaction(docs, h))} =
                   {doc.global_sequence : doc \in {d \in LiveDocs("action") : d.block_num = h}}
            /\ GetCreator(docs, NewName) =
                   IF made = {} THEN NoValue ELSE (CHOOSE r \in made : TRUE).trace.act.data.creator
            /\ \A c \in Holders : GetCreatedAccounts(docs, c) =
                   IF \E r \in made : r.trace.act.data.creator = c THEN <<NewName>> ELSE <<>>
=============================================================================
