------------------------------ MODULE ShipTypes -------------------------------
(* The hand-written codecs of the state-history wire types                   *)
(* (crates/ship/src/types.rs) and of packed ABIs (crates/antelope/src/abi.rs),*)
(* as layouts: what each `read` or `decode` reads, in its order.  A value    *)
(* that is read and dropped keeps the name the comments of the code give it. *)
EXTENDS Reader

Pair(a, s, b, t) == Rec(<<F(a, s), F(b, t)>>)
Extensions == Many(Pair("type", U16, "data", Blob))

BlockPosition == Pair("block_num", U32, "block_id", Digest)

StatusResult == Rec(<<
    F("head", BlockPosition), F("last_irreversible", BlockPosition),
    F("trace_begin_block", U32), F("trace_end_block", U32),
    F("chain_state_begin_block", U32), F("chain_state_end_block", U32),
    F("chain_id", Ext(Digest))>>)

\* Mutant: the deltas are read before the traces.
BlocksResultSwapped == Rec(<<
    F("head", BlockPosition), F("last_irreversible", BlockPosition),
    F("this_block", Opt(BlockPosition)), F("prev_block", Opt(BlockPosition)),
    F("block", Opt(Blob)), F("deltas", Opt(Blob)), F("traces", Opt(Blob))>>)

BlocksResult == Rec(<<
    F("head", BlockPosition), F("last_irreversible", BlockPosition),
    F("this_block", Opt(BlockPosition)), F("prev_block", Opt(BlockPosition)),
    F("block", Opt(Blob)), F("traces", Opt(Blob)), F("deltas", Opt(Blob))>>)

ShipResult == Alt(<<StatusResult, BlocksResult>>)

-----------------------------------------------------------------------------
(* Transaction traces.                                                       *)

Action == Rec(<<
    F("account", U64), F("name", U64),
    F("authorization", Many(Pair("actor", U64, "permission", U64))),
    F("data", Blob)>>)

ActionReceipt == Alt(<<Rec(<<
    F("receiver", U64), F("act_digest", Digest),
    F("global_sequence", U64), F("recv_sequence", U64),
    F("auth_sequence", Many(Pair("account", U64, "sequence", U64))),
    F("code_sequence", Var), F("abi_sequence", Var)>>)>>)

AccountDelta == Pair("account", U64, "delta", U64)

\* Version 1 differs from version 0 by the return value.
ActionTrace ==
    LET v0 == <<
            F("action_ordinal", Var), F("creator_action_ordinal", Var),
            F("receipt", Opt(ActionReceipt)), F("receiver", U64), F("act", Action),
            F("context_free", U8), F("elapsed", U64), F("console", Blob),
            F("account_ram_deltas", Many(AccountDelta)),
            F("except", Opt(Blob)), F("error_code", Opt(U64))>>
    IN  Alt(<<Rec(v0), Rec(Append(v0, F("return_value", Blob)))>>)

\* `read_prunable`.
PrunableData ==
    LET signatures == F("signatures", Many(Signature))
        segment == Alt(<<Digest, Blob>>)
    IN  Alt(<<Rec(<<signatures, F("packed_context_free_data", Blob)>>),
              Rec(<<F("prunable_digest", Digest)>>),
              Rec(<<signatures, F("context_free_segments", Many(segment))>>),
              Rec(<<signatures, F("context_free_segments", Many(Blob))>>)>>)

PartialTransaction ==
    LET both == <<
            F("expiration", U32), F("ref_block_num", U16), F("ref_block_prefix", U32),
            F("max_net_usage_words", Var), F("max_cpu_usage_ms", U8), F("delay_sec", Var),
            F("transaction_extensions", Extensions)>>
    IN  Alt(<<Rec(both \o <<F("signatures", Many(Signature)),
                            F("context_free_data", Many(Blob))>>),
              Rec(both \o <<F("prunable_data", Opt(PrunableData))>>)>>)

TransactionTrace == Alt(<<Rec(<<
    F("id", Digest), F("status", U8), F("cpu_usage_us", U32), F("net_usage_words", Var),
    F("elapsed", U64), F("net_usage", U64), F("scheduled", U8),
    F("action_traces", Many(ActionTrace)),
    F("account_ram_delta", Opt(AccountDelta)),
    F("except", Opt(Blob)), F("error_code", Opt(U64)),
    F("failed_dtrx_trace", Opt(Ref("transaction_trace"))),
    F("partial", Opt(PartialTransaction))>>)>>)

Recursive == [transaction_trace |-> TransactionTrace]

-----------------------------------------------------------------------------
(* Table deltas and the rows in them.                                        *)

TableDelta == Alt(<<Rec(<<
    F("name", Blob), F("rows", Many(Pair("present", U8, "data", Blob)))>>)>>)

ContractRow == Alt(<<Rec(<<
    F("code", U64), F("scope", U64), F("table", U64), F("primary_key", U64),
    F("payer", U64), F("value", Blob)>>)>>)

AccountRow == Alt(<<Rec(<<F("name", U64), F("creation_date", U32), F("abi", Blob)>>)>>)

PermissionRow == Alt(<<Rec(<<
    F("owner", U64), F("name", U64), F("parent", U64), F("last_updated", U64),
    F("threshold", U32),
    F("keys", Many(Pair("key", PublicKey, "weight", U16))),
    F("accounts", Many(Rec(<<F("actor", U64), F("permission", U64), F("weight", U16)>>))),
    F("waits", Many(Pair("wait_sec", U32, "weight", U16)))>>)>>)

-----------------------------------------------------------------------------
(* The signed block, up to its receipts.                                     *)

Receipt == Rec(<<
    F("status", U8), F("cpu_usage_us", U32), F("net_usage_words", Var),
    F("trx", Alt(<<Digest,
                   Rec(<<F("signatures", Many(Signature)), F("compression", U8),
                         F("packed_context_free_data", Blob), F("packed_trx", Blob)>>)>>))>>)

BlockHeader == Rec(<<
    F("timestamp", U32), F("producer", U64), F("confirmed", U16),
    F("previous", Digest), F("transaction_mroot", Digest), F("action_mroot", Digest),
    F("schedule_version", U32),
    F("new_producers", Opt(Pair("version", U32, "producers",
        Many(Pair("producer_name", U64, "block_signing_key", PublicKey))))),
    F("header_extensions", Extensions), F("producer_signature", Signature),
    F("transactions", Many(Receipt))>>)

-----------------------------------------------------------------------------
(* `Abi::from_bin`.                                                          *)

AbiDef ==
    LET text(a, b) == Pair(a, Blob, b, Blob) IN Rec(<<
    F("version", Blob),
    F("types", Many(text("new_type_name", "type"))),
    F("structs", Many(Rec(<<F("name", Blob), F("base", Blob),
                            F("fields", Many(text("name", "type")))>>))),
    F("actions", Many(Rec(<<F("name", U64), F("type", Blob), F("ricardian_contract", Blob)>>))),
    F("tables", Many(Rec(<<F("name", U64), F("index_type", Blob), F("key_names", Many(Blob)),
                           F("key_types", Many(Blob)), F("type", Blob)>>))),
    F("ricardian_clauses", Many(text("id", "body"))),
    F("error_messages", Many(Pair("error_code", U64, "error_msg", Blob))),
    F("abi_extensions", Extensions),
    F("variants", Ext(Many(Pair("name", Blob, "types", Many(Blob)))))>>)

\* What each entry point reads: `ShipResult::decode`, `decode_traces`,
\* `decode_deltas`, the `decode` of the rows and of the block, `from_bin`.
Layout == [
    result |-> ShipResult,
    traces |-> Many(TransactionTrace),
    deltas |-> Many(TableDelta),
    contract_row |-> ContractRow,
    account |-> AccountRow,
    permission |-> PermissionRow,
    block |-> BlockHeader,
    abi_def |-> AbiDef]

\* The typed decoder of entry point `kind` on stream s.
Decode(kind, s) == Read(Recursive, Layout[kind], kind, s, 0)
=============================================================================
