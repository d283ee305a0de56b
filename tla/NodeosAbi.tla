------------------------------- MODULE NodeosAbi ------------------------------
(* What nodeos writes: the part of the Leap state-history ABI (and of the    *)
(* abi_def of setabi) that hyperion-rs reads, and the encodings of samples.  *)
(* types.rs:3-5 says that the hand-written codecs track this ABI.  It is not *)
(* part of the repository; client.rs:36 receives it and keeps it unused.     *)
EXTENDS AbiDecoder

T(name) == TypeName(name, <<>>)
A(name) == TypeName(name, <<"[]">>)
O(name) == TypeName(name, <<"?">>)
X(name, mods) == TypeName(name, Append(mods, "$"))

Struct(name, base, fields) == [name |-> name, base |-> base, fields |-> fields]
Variant(name, types) == [name |-> name, types |-> types]

FrameStructs == <<
    Struct("block_position", "", <<F("block_num", T("uint32")), F("block_id", T("checksum256"))>>),
    Struct("get_status_result_v0", "", <<
        F("head", T("block_position")), F("last_irreversible", T("block_position")),
        F("trace_begin_block", T("uint32")), F("trace_end_block", T("uint32")),
        F("chain_state_begin_block", T("uint32")), F("chain_state_end_block", T("uint32")),
        F("chain_id", X("checksum256", <<>>))>>),
    Struct("get_blocks_result_v0", "", <<
        F("head", T("block_position")), F("last_irreversible", T("block_position")),
        F("this_block", O("block_position")), F("prev_block", O("block_position")),
        F("block", O("bytes")), F("traces", O("bytes")), F("deltas", O("bytes"))>>),
    Struct("row", "", <<F("present", T("bool")), F("data", T("bytes"))>>),
    Struct("table_delta_v0", "", <<F("name", T("string")), F("rows", A("row"))>>)>>

TraceStructs ==
    LET trace == <<
            F("action_ordinal", T("varuint32")), F("creator_action_ordinal", T("varuint32")),
            F("receipt", O("action_receipt")), F("receiver", T("name")), F("act", T("action")),
            F("context_free", T("bool")), F("elapsed", T("int64")), F("console", T("string")),
            F("account_ram_deltas", A("account_delta")), F("except", O("string")),
            F("error_code", O("uint64"))>>
        partial == <<
            F("expiration", T("time_point_sec")), F("ref_block_num", T("uint16")),
            F("ref_block_prefix", T("uint32")), F("max_net_usage_words", T("varuint32")),
            F("max_cpu_usage_ms", T("uint8")), F("delay_sec", T("varuint32")),
            F("transaction_extensions", A("extension"))>>
    IN <<
    Struct("extension", "", <<F("type", T("uint16")), F("data", T("bytes"))>>),
    Struct("permission_level", "", <<F("actor", T("name")), F("permission", T("name"))>>),
    Struct("account_auth_sequence", "", <<F("account", T("name")), F("sequence", T("uint64"))>>),
    Struct("account_delta", "", <<F("account", T("name")), F("delta", T("int64"))>>),
    Struct("action", "", <<F("account", T("name")), F("name", T("name")),
        F("authorization", A("permission_level")), F("data", T("bytes"))>>),
    Struct("action_receipt_v0", "", <<
        F("receiver", T("name")), F("act_digest", T("checksum256")),
        F("global_sequence", T("uint64")), F("recv_sequence", T("uint64")),
        F("auth_sequence", A("account_auth_sequence")),
        F("code_sequence", T("varuint32")), F("abi_sequence", T("varuint32"))>>),
    Struct("action_trace_v0", "", trace),
    Struct("action_trace_v1", "", Append(trace, F("return_value", T("bytes")))),
    Struct("prunable_data_full_legacy", "", <<
        F("signatures", A("signature")), F("packed_context_free_data", T("bytes"))>>),
    Struct("prunable_data_none", "", <<F("prunable_digest", T("checksum256"))>>),
    Struct("prunable_data_partial", "", <<
        F("signatures", A("signature")),
        F("context_free_segments", A("context_free_segment_type"))>>),
    Struct("prunable_data_full", "", <<
        F("signatures", A("signature")), F("context_free_segments", A("bytes"))>>),
    Struct("prunable_data_type", "", <<F("prunable_data", T("prunable_data_t"))>>),
    Struct("partial_transaction_v0", "", partial \o <<
        F("signatures", A("signature")), F("context_free_data", A("bytes"))>>),
    Struct("partial_transaction_v1", "", partial \o <<
        F("prunable_data", O("prunable_data_type"))>>),
    Struct("transaction_trace_v0", "", <<
        F("id", T("checksum256")), F("status", T("uint8")), F("cpu_usage_us", T("uint32")),
        F("net_usage_words", T("varuint32")), F("elapsed", T("int64")),
        F("net_usage", T("uint64")), F("scheduled", T("bool")),
        F("action_traces", A("action_trace")), F("account_ram_delta", O("account_delta")),
        F("except", O("string")), F("error_code", O("uint64")),
        F("failed_dtrx_trace", O("transaction_trace")),
        F("partial", O("partial_transaction"))>>)>>

RowStructs == <<
    Struct("contract_row_v0", "", <<
        F("code", T("name")), F("scope", T("name")), F("table", T("name")),
        F("primary_key", T("uint64")), F("payer", T("name")), F("value", T("bytes"))>>),
    Struct("account_v0", "", <<
        F("name", T("name")), F("creation_date", T("block_timestamp_type")),
        F("abi", T("bytes"))>>),
    Struct("key_weight", "", <<F("key", T("public_key")), F("weight", T("uint16"))>>),
    Struct("permission_level_weight", "", <<
        F("permission", T("permission_level")), F("weight", T("uint16"))>>),
    Struct("wait_weight", "", <<F("wait_sec", T("uint32")), F("weight", T("uint16"))>>),
    Struct("authority", "", <<
        F("threshold", T("uint32")), F("keys", A("key_weight")),
        F("accounts", A("permission_level_weight")), F("waits", A("wait_weight"))>>),
    Struct("permission_v0", "", <<
        F("owner", T("name")), F("name", T("name")), F("parent", T("name")),
        F("last_updated", T("time_point")), F("auth", T("authority"))>>)>>

BlockStructs == <<
    Struct("producer_key", "", <<
        F("producer_name", T("name")), F("block_signing_key", T("public_key"))>>),
    Struct("producer_schedule", "", <<
        F("version", T("uint32")), F("producers", A("producer_key"))>>),
    Struct("transaction_receipt_header", "", <<
        F("status", T("uint8")), F("cpu_usage_us", T("uint32")),
        F("net_usage_words", T("varuint32"))>>),
    Struct("packed_transaction", "", <<
        F("signatures", A("signature")), F("compression", T("uint8")),
        F("packed_context_free_data", T("bytes")), F("packed_trx", T("bytes"))>>),
    Struct("transaction_receipt", "transaction_receipt_header", <<
        F("trx", T("transaction_variant"))>>),
    Struct("block_header", "", <<
        F("timestamp", T("block_timestamp_type")), F("producer", T("name")),
        F("confirmed", T("uint16")), F("previous", T("checksum256")),
        F("transaction_mroot", T("checksum256")), F("action_mroot", T("checksum256")),
        F("schedule_version", T("uint32")), F("new_producers", O("producer_schedule")),
        F("header_extensions", A("extension"))>>),
    Struct("signed_block_header", "block_header", <<F("producer_signature", T("signature"))>>),
    Struct("signed_block", "signed_block_header", <<
        F("transactions", A("transaction_receipt"))>>)>>

AbiDefStructs == <<
    Struct("type_def", "", <<F("new_type_name", T("string")), F("type", T("string"))>>),
    Struct("field_def", "", <<F("name", T("string")), F("type", T("string"))>>),
    Struct("struct_def", "", <<
        F("name", T("string")), F("base", T("string")), F("fields", A("field_def"))>>),
    Struct("action_def", "", <<
        F("name", T("name")), F("type", T("string")), F("ricardian_contract", T("string"))>>),
    Struct("table_def", "", <<
        F("name", T("name")), F("index_type", T("string")), F("key_names", A("string")),
        F("key_types", A("string")), F("type", T("string"))>>),
    Struct("clause_pair", "", <<F("id", T("string")), F("body", T("string"))>>),
    Struct("error_message", "", <<F("error_code", T("uint64")), F("error_msg", T("string"))>>),
    Struct("variant_def", "", <<F("name", T("string")), F("types", A("string"))>>),
    Struct("abi_def", "", <<
        F("version", T("string")), F("types", A("type_def")), F("structs", A("struct_def")),
        F("actions", A("action_def")), F("tables", A("table_def")),
        F("ricardian_clauses", A("clause_pair")), F("error_messages", A("error_message")),
        F("abi_extensions", A("extension")), F("variants", X("variant_def", <<"[]">>))>>)>>

Nodeos == [
    types |-> <<F("transaction_id", T("checksum256"))>>,
    structs |-> FrameStructs \o TraceStructs \o RowStructs \o BlockStructs \o AbiDefStructs,
    variants |-> <<
        Variant("result", <<T("get_status_result_v0"), T("get_blocks_result_v0")>>),
        Variant("table_delta", <<T("table_delta_v0")>>),
        Variant("action_receipt", <<T("action_receipt_v0")>>),
        Variant("action_trace", <<T("action_trace_v0"), T("action_trace_v1")>>),
        Variant("prunable_data_t", <<T("prunable_data_full_legacy"), T("prunable_data_none"),
            T("prunable_data_partial"), T("prunable_data_full")>>),
        Variant("context_free_segment_type", <<T("checksum256"), T("bytes")>>),
        Variant("partial_transaction", <<T("partial_transaction_v0"), T("partial_transaction_v1")>>),
        Variant("transaction_trace", <<T("transaction_trace_v0")>>),
        Variant("contract_row", <<T("contract_row_v0")>>),
        Variant("account", <<T("account_v0")>>),
        Variant("permission", <<T("permission_v0")>>),
        Variant("transaction_variant", <<T("transaction_id"), T("packed_transaction")>>)>>]

\* The type of what each entry point of the codecs is given.
Root == [
    result |-> T("result"), traces |-> A("transaction_trace"), deltas |-> A("table_delta"),
    contract_row |-> T("contract_row"), account |-> T("account"),
    permission |-> T("permission"), block |-> T("signed_block"), abi_def |-> T("abi_def")]

-----------------------------------------------------------------------------
(* Samples: every alternative of every variant, optional, list and key type  *)
(* occurs in some encoding.  The samples of a struct take the choices of its *)
(* fields side by side, not in every combination.                            *)

Concat(parts) == FoldLeft(LAMBDA acc, part : acc \o part, <<>>, parts)

SideBySide(parts) ==
    LET most == FoldLeft(LAMBDA acc, part : IF Len(part) > acc THEN Len(part) ELSE acc, 1, parts)
    IN  [n \in 1 .. most |->
            Concat([k \in DOMAIN parts |-> parts[k][((n - 1) % Len(parts[k])) + 1]])]

RECURSIVE LayoutSamples(_)
LayoutSamples(t) ==
    CASE t.kind = "fixed"   -> <<[k \in 1 .. t.of |-> 1]>>
      [] t.kind = "varuint" -> <<<<1>>, <<Base + 1, 1>>>>
      [] t.kind = "bytes"   -> <<<<0>>, <<2, 1, 1>>>>
      [] t.kind = "record"  -> SideBySide([k \in DOMAIN t.of |-> LayoutSamples(t.of[k].type)])
      [] t.kind = "tag"     ->
           Concat([k \in DOMAIN t.of |->
               LET inner == LayoutSamples(t.of[k]) IN
               [n \in DOMAIN inner |-> <<k - 1>> \o inner[n]]])

\* `open` are the types around this one; within itself a type is sampled by
\* its shortest value only.
RECURSIVE Samples(_, _, _)
Samples(t, open, short) ==
    LET inner == Samples([t EXCEPT !.mods = Front(t.mods)], open, short \/ t.name \in open)
        struct == LastOf(Nodeos.structs, t.name)
        variant == LastOf(Nodeos.variants, t.name)
        Prefixed(n, samples) == [k \in DOMAIN samples |-> <<n>> \o samples[k]]
        around == open \cup {t.name}
    IN  CASE t.mods # <<>> /\ Last(t.mods) = "$" -> IF short THEN <<<<>>>> ELSE <<<<>>>> \o inner
          [] t.mods # <<>> /\ Last(t.mods) = "?" ->
               IF short THEN <<<<0>>>> ELSE <<<<0>>>> \o Prefixed(1, inner)
          [] t.mods # <<>> /\ Last(t.mods) = "[]" ->
               IF short THEN <<<<0>>>>
               ELSE <<<<0>>>> \o Prefixed(1, inner) \o <<<<2>> \o Head(inner) \o Last(inner)>>
          [] t.mods = <<>> /\ t.name \in DOMAIN Builtin ->
               IF short THEN <<Head(LayoutSamples(Builtin[t.name]))>>
               ELSE LayoutSamples(Builtin[t.name])
          [] t.mods = <<>> /\ t.name \notin DOMAIN Builtin /\ struct # 0 ->
               LET def == Nodeos.structs[struct]
                   base == IF def.base = "" THEN <<<<>>>> ELSE Samples(T(def.base), around, short)
               IN  SideBySide(<<base>> \o
                     [k \in DOMAIN def.fields |-> Samples(def.fields[k].type, around, short)])
          [] t.mods = <<>> /\ t.name \notin DOMAIN Builtin /\ struct = 0 /\ variant # 0 ->
               LET types == Nodeos.variants[variant].types IN
               IF short THEN Prefixed(0, Samples(types[1], around, TRUE))
               ELSE Concat([k \in DOMAIN types |-> Prefixed(k - 1, Samples(types[k], around, FALSE))])
          [] OTHER -> Samples(Nodeos.types[LastOf(Nodeos.types, t.name)].type, around, short)
=============================================================================
