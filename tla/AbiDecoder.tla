------------------------------ MODULE AbiDecoder ------------------------------
(* The generic decoder of actions, rows and frames                           *)
(* (crates/antelope/src/decoder.rs).  The name of a type is its plain name   *)
(* and its suffixes, outermost last: `foo[]?` is name foo, mods <<"[]","?">>.*)
EXTENDS Reader

CONSTANT MaxDepth  \* MAX_DEPTH: 64

TypeName(name, mods) == [name |-> name, mods |-> mods]

\* The layouts of the built-in types; `decode_builtin`.
Builtin ==
    LET asset == Fixed(16) IN [
    bool |-> U8, int8 |-> U8, uint8 |-> U8, int16 |-> U16, uint16 |-> U16,
    int32 |-> U32, uint32 |-> U32, int64 |-> U64, uint64 |-> U64,
    int128 |-> Fixed(16), uint128 |-> Fixed(16), varuint32 |-> Var, varint32 |-> Var,
    float32 |-> U32, float64 |-> U64, float128 |-> Fixed(16),
    time_point |-> U64, time_point_sec |-> U32, block_timestamp_type |-> U32,
    name |-> U64, bytes |-> Blob, string |-> Blob,
    checksum160 |-> Fixed(20), checksum256 |-> Digest, checksum512 |-> Fixed(64),
    public_key |-> PublicKey, signature |-> Signature,
    symbol |-> U64, symbol_code |-> U64, asset |-> asset,
    extended_asset |-> Rec(<<F("quantity", asset), F("contract", U64)>>)]

\* The tables of `build`: a map of the names to indices, filled in the order
\* of the definitions, so that the last of one name stays.
LastOf(defs, name) ==
    LET is == {k \in DOMAIN defs : defs[k].name = name} IN
    IF is = {} THEN 0 ELSE CHOOSE k \in is : \A j \in is : j <= k

\* Actions and tables are filled in reverse.
FirstOf(defs, name) ==
    LET k == LastOf(Reverse(defs), name) IN
    IF k = 0 THEN 0 ELSE Len(defs) + 1 - k

\* `decode_type` and `decode_struct`.  The object of a base is merged into the
\* struct; what a base that is no struct reads is dropped.
RECURSIVE DecodeType(_, _, _, _, _, _)
DecodeType(abi, t, f, s, p, depth) ==
    LET inner == [t EXCEPT !.mods = Front(t.mods)]
        Below(u, at) == DecodeType(abi, u, f, s, at, depth + 1)
        Then(head, u) ==
            LET rest == Below(u, head.pos) IN
            IF rest.ok THEN Done(Leaf(f, head.leaves) \o rest.leaves, rest.pos) ELSE Fail
        Each(fields, head) ==
            FoldLeft(LAMBDA acc, field :
                       LET r == DecodeType(abi, field.type, field.name, s, acc.pos, depth + 1) IN
                       IF acc.ok /\ r.ok THEN Done(acc.leaves \o r.leaves, r.pos) ELSE Fail,
                     head, fields)
        struct == LastOf(abi.structs, t.name)
        variant == LastOf(abi.variants, t.name)
        alias == LastOf(abi.types, t.name)
        flag == Exact(s, p, 1)
        number == Varuint(s, p)
    IN  CASE depth > MaxDepth -> Fail
          [] t.mods # <<>> /\ Last(t.mods) = "$" ->
               IF p = Len(s) THEN Done(<<>>, p) ELSE Below(inner, p)
          [] t.mods # <<>> /\ Last(t.mods) = "?" ->
               IF ~flag.ok THEN Fail
               ELSE IF flag.leaves[1] = 0 THEN Done(Leaf(f, <<0>>), flag.pos)
               ELSE Then([flag EXCEPT !.leaves = <<1>>], inner)
          [] t.mods # <<>> /\ Last(t.mods) = "[]" ->
               IF ~number.ok THEN Fail
               ELSE Each([k \in 1 .. number.leaves[1] |-> F(f, inner)],
                         Done(Leaf(f, number.leaves), number.pos))
          [] t.mods = <<>> /\ t.name \in DOMAIN Builtin ->
               Read(<<>>, Builtin[t.name], f, s, p)
          [] t.mods = <<>> /\ t.name \notin DOMAIN Builtin /\ struct # 0 ->
               LET def == abi.structs[struct]
                   base == IF def.base = "" THEN Done(<<>>, p)
                           ELSE Below(TypeName(def.base, <<>>), p)
               IN  IF base.ok THEN Each(def.fields, base) ELSE Fail
          [] t.mods = <<>> /\ t.name \notin DOMAIN Builtin /\ struct = 0 /\ variant # 0 ->
               LET types == abi.variants[variant].types IN
               IF number.ok /\ number.leaves[1] < Len(types)
                 THEN Then(number, types[number.leaves[1] + 1]) ELSE Fail
          [] t.mods = <<>> /\ t.name \notin DOMAIN Builtin /\ struct = 0 /\ variant = 0 /\ alias # 0 ->
               Below(abi.types[alias].type, p)
          [] OTHER -> Fail

\* `decode`: trailing bytes are left.
DecodeAs(abi, t, f, s) == DecodeType(abi, t, f, s, 0, 0)

\* `decode_action` and `decode_table_row`.
DecodeNamed(abi, defs, name, s) ==
    LET k == FirstOf(defs, name) IN
    IF k = 0 THEN Fail ELSE DecodeAs(abi, defs[k].type, name, s)
=============================================================================
