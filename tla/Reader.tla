------------------------------- MODULE Reader ---------------------------------
(* ByteReader (crates/antelope/src/reader.rs), the keys and signatures read  *)
(* with it (crates/antelope/src/keys.rs), and a small language of layouts in *)
(* which the codecs of the other modules are written: a layout is the        *)
(* sequence of reads a decoder makes.                                        *)
(*                                                                           *)
(* A stream is a sequence of bytes, a reader a position in it.  The outcome  *)
(* of a read is the position after it and the leaves read on the way, each   *)
(* with the name of its field.  A decoder only moves forward and gives up at *)
(* its first error, so that every failure is the same outcome.               *)
EXTENDS Integers, Sequences, SequencesExt

CONSTANTS
    Base,        \* the values of the payload bits of a varuint byte: 128
    VarintBytes, \* bytes before `shift` reaches 35: 5
    MaxU32,      \* what a u32 holds
    Width        \* bytes of a digest, of the points and of the signatures

Byte == 0 .. 2 * Base - 1

ASSUME ReaderAssumption ==
    /\ Base \in Nat /\ Base > 1
    /\ VarintBytes \in Nat \ {0}
    /\ MaxU32 \in Nat
    /\ \A w \in DOMAIN Width : Width[w] \in Nat \ {0}

Fail == [ok |-> FALSE, pos |-> 0, leaves |-> <<>>]
Done(leaves, pos) == [ok |-> TRUE, pos |-> pos, leaves |-> leaves]
Leaf(f, v) == <<[field |-> f, value |-> v]>>

-----------------------------------------------------------------------------
(* Primitive reads, of stream s at position p.                               *)

\* Mutant: what is left will do.
ExactTakesRest(s, p, n) ==
    IF Len(s) - p < n THEN Done(SubSeq(s, p + 1, Len(s)) \o [k \in 1 .. p + n - Len(s) |-> 0], Len(s))
    ELSE Done(SubSeq(s, p + 1, p + n), p + n)

\* `read_exact`.
Exact(s, p, n) ==
    IF Len(s) - p < n THEN Fail ELSE Done(SubSeq(s, p + 1, p + n), p + n)

\* The loop of `read_varuint32` after `groups` bytes, and its u32::try_from.
RECURSIVE VaruintFrom(_, _, _, _)
VaruintFrom(s, p, groups, value) ==
    IF p >= Len(s) THEN Fail
    ELSE LET byte == s[p + 1]
             v == value + (byte % Base) * Base ^ groups
         IN  IF byte < Base
               THEN IF v > MaxU32 THEN Fail ELSE Done(<<v>>, p + 1)
               ELSE IF groups + 1 >= VarintBytes THEN Fail
               ELSE VaruintFrom(s, p + 1, groups + 1, v)

\* Mutant: the five groups are cut to 32 bits.
VaruintWraps(s, p) ==
    LET used == {k \in 1 .. VarintBytes : p + k <= Len(s) /\ s[p + k] < Base}
        k == CHOOSE k \in used : \A j \in used : k <= j
        v == FoldRight(LAMBDA byte, acc : acc * Base + (byte % Base),
                       SubSeq(s, p + 1, p + k), 0)
    IN  IF used = {} THEN Fail ELSE Done(<<v % (MaxU32 + 1)>>, p + k)

Varuint(s, p) == VaruintFrom(s, p, 0, 0)

\* `read_bytes`, and `read_string`, whose lossy UTF-8 is left out.
Bytes(s, p) ==
    LET len == Varuint(s, p) IN
    IF len.ok THEN Exact(s, len.pos, len.leaves[1]) ELSE Fail

-----------------------------------------------------------------------------
(* Layouts.                                                                  *)

Fixed(n) == [kind |-> "fixed", of |-> n]
U8 == Fixed(1)
U16 == Fixed(2)
U32 == Fixed(4)
U64 == Fixed(8)
Digest == Fixed(Width.digest)
Var == [kind |-> "varuint"]
Blob == [kind |-> "bytes"]
Opt(t) == [kind |-> "optional", of |-> t]     \* a bool, then t if it is set
Many(t) == [kind |-> "many", of |-> t]        \* for _ in 0..r.read_varuint32()?
Ext(t) == [kind |-> "extension", of |-> t]    \* t unless r.is_empty()
Alt(ts) == [kind |-> "variant", of |-> ts]    \* match r.read_varuint32()?
Tag(ts) == [kind |-> "tag", of |-> ts]        \* match r.read_u8()?
Rec(fs) == [kind |-> "record", of |-> fs]
Ref(name) == [kind |-> "ref", of |-> name]    \* a type that contains itself
F(name, t) == [name |-> name, type |-> t]

\* Reads layout t for the field f; Types gives the recursive layouts.
RECURSIVE Read(_, _, _, _, _)
Read(Types, t, f, s, p) ==
    LET Then(head, layout) ==
            LET rest == Read(Types, layout, f, s, head.pos) IN
            IF rest.ok THEN Done(Leaf(f, head.leaves) \o rest.leaves, rest.pos) ELSE Fail
        Each(fields, head) ==
            FoldLeft(LAMBDA acc, field :
                       LET r == Read(Types, field.type, field.name, s, acc.pos) IN
                       IF acc.ok /\ r.ok THEN Done(acc.leaves \o r.leaves, r.pos) ELSE Fail,
                     head, fields)
        Select(tag) ==
            IF tag.ok /\ tag.leaves[1] < Len(t.of)
              THEN Then(tag, t.of[tag.leaves[1] + 1]) ELSE Fail
        Whole(r) == IF r.ok THEN Done(Leaf(f, r.leaves), r.pos) ELSE Fail
    IN  CASE t.kind = "fixed"     -> Whole(Exact(s, p, t.of))
          [] t.kind = "varuint"   -> Whole(Varuint(s, p))
          [] t.kind = "bytes"     -> Whole(Bytes(s, p))
          [] t.kind = "extension" ->
               IF p = Len(s) THEN Done(<<>>, p) ELSE Read(Types, t.of, f, s, p)
          [] t.kind = "optional"  ->
               LET flag == Exact(s, p, 1) IN
               IF ~flag.ok THEN Fail
               ELSE IF flag.leaves[1] = 0 THEN Whole(flag)
               ELSE Then([flag EXCEPT !.leaves = <<1>>], t.of)
          [] t.kind = "many"      ->
               LET count == Varuint(s, p) IN
               IF ~count.ok THEN Fail
               ELSE Each([k \in 1 .. count.leaves[1] |-> F(f, t.of)],
                         Done(Leaf(f, count.leaves), count.pos))
          [] t.kind = "variant"   -> Select(Varuint(s, p))
          [] t.kind = "tag"       -> Select(Exact(s, p, 1))
          [] t.kind = "record"    -> Each(t.of, Done(<<>>, p))
          [] t.kind = "ref"       -> Read(Types, Types[t.of], f, s, p)

-----------------------------------------------------------------------------
(* Keys and signatures.  Tags 0, 1: K1 and R1; 2: WA; 3, 4, 5: ML-DSA 44,    *)
(* 65 and 87.  Another tag is BadKeyType.  Their text is left out.           *)

PublicKey ==
    LET point == Fixed(Width.point) IN
    Tag(<<point, point,
          Rec(<<F("point", point), F("user_presence", U8), F("rpid", Blob)>>),
          Fixed(Width.mldsa44), Fixed(Width.mldsa65), Fixed(Width.mldsa87)>>)

\* The envelope of an ML-DSA signature starts with the public key.
Signature ==
    LET compact == Fixed(Width.compact) IN
    Tag(<<compact, compact,
          Rec(<<F("compact", compact), F("auth_data", Blob), F("client_json", Blob)>>),
          Fixed(Width.mldsa44 + Width.detached44),
          Fixed(Width.mldsa65 + Width.detached65),
          Fixed(Width.mldsa87 + Width.detached87)>>)
=============================================================================
