--------------------------------- MODULE Text ---------------------------------
(* Names, token amounts and varints (crates/antelope/src/name.rs, asset.rs,  *)
(* reader.rs; parse_asset of processor.rs; push_varuint32 of ship/types.rs), *)
(* with every width a constant.  A character is the number of its symbol; a  *)
(* string of digits is the sequence of them.                                 *)
EXTENDS Reader

CONSTANTS
    NameLen,    \* characters of a name: 13
    CharBits,   \* bits of each character but the last: 5
    LastBits,   \* bits of the last one: 4
    Radix,      \* 10
    MaxAmount,  \* i64::MAX
    CodeLen,    \* characters of a symbol code: 7
    Letters     \* values of its upper-case letters

ASSUME TextAssumption ==
    /\ NameLen \in Nat \ {0} /\ CharBits \in Nat \ {0}
    /\ LastBits \in 1 .. CharBits
    /\ Radix \in Nat \ {0, 1} /\ MaxAmount \in Nat \ {0}
    /\ CodeLen \in Nat \ {0} /\ Letters \subseteq Nat \ {0}

Failed == [ok |-> FALSE, value |-> 0]
Parsed(value) == [ok |-> TRUE, value |-> value]

Positional(digits, radix) == FoldLeft(LAMBDA acc, d : acc * radix + d, 0, digits)

-----------------------------------------------------------------------------
(* Names.  Symbol 0 is the dot; a symbol of 2^CharBits or more stands for a  *)
(* character that is in no name.                                             *)

NameValues == 0 .. 2 ^ (CharBits * (NameLen - 1) + LastBits) - 1

\* Mutant: the last character is cut to its bits.
ParseNameCuts(s) ==
    IF Len(s) > NameLen \/ \E k \in DOMAIN s : s[k] >= 2 ^ CharBits THEN Failed
    ELSE LET At(k) == IF k <= Len(s) THEN s[k] ELSE 0 IN
         Parsed(Positional([k \in 1 .. NameLen - 1 |-> At(k)], 2 ^ CharBits) * 2 ^ LastBits
                + (At(NameLen) % (2 ^ LastBits)))

\* `Name::from_str`: missing characters are dots.
ParseName(s) ==
    IF \/ Len(s) > NameLen
       \/ \E k \in DOMAIN s : s[k] >= 2 ^ CharBits
       \/ Len(s) = NameLen /\ s[NameLen] >= 2 ^ LastBits
    THEN Failed
    ELSE LET At(k) == IF k <= Len(s) THEN s[k] ELSE 0 IN
         Parsed(Positional([k \in 1 .. NameLen - 1 |-> At(k)], 2 ^ CharBits) * 2 ^ LastBits
                + At(NameLen))

\* trim_end_matches('.')
TrimDots(s) ==
    LET kept == {k \in DOMAIN s : s[k] # 0} IN
    SubSeq(s, 1, IF kept = {} THEN 0 ELSE CHOOSE k \in kept : \A j \in kept : j <= k)

\* `Name::to_string_lossy`.
ShowName(n) ==
    TrimDots([k \in 1 .. NameLen |->
        IF k = NameLen THEN n % (2 ^ LastBits)
        ELSE (n \div 2 ^ (LastBits + CharBits * (NameLen - 1 - k))) % (2 ^ CharBits)])

-----------------------------------------------------------------------------
(* Varints.                                                                  *)

\* `push_varuint32`.
RECURSIVE PushVaruint(_)
PushVaruint(v) ==
    IF v \div Base = 0 THEN <<v % Base>>
    ELSE <<(v % Base) + Base>> \o PushVaruint(v \div Base)

\* `read_varint32`: the zigzag of an unsigned value.
Zigzag(v) == IF v % 2 = 0 THEN v \div 2 ELSE -(v \div 2) - 1

-----------------------------------------------------------------------------
(* Symbols and assets.  The text of an amount has a sign, the digits before  *)
(* the point as a number, those after it as a sequence.                      *)

\* `SymbolCode`: Display stops at the first zero byte; from_str wants 1..7
\* upper-case letters.
ShowCode(code) ==
    LET ends == {k \in DOMAIN code : code[k] = 0} IN
    IF ends = {} THEN code ELSE SubSeq(code, 1, (CHOOSE k \in ends : \A j \in ends : k <= j) - 1)

ParseCode(s) ==
    IF s = <<>> \/ Len(s) > CodeLen \/ \E k \in DOMAIN s : s[k] \notin Letters
      THEN Failed ELSE Parsed(s)

Asset(amount, precision, code) ==
    [amount |-> amount, precision |-> precision, code |-> code]

Digits(n, places) ==
    [k \in 1 .. places |-> (n \div Radix ^ (places - k)) % Radix]

\* Display of an asset.  10u64.checked_pow fails above twice i64::MAX.
ShowAsset(asset) ==
    LET abs == IF asset.amount < 0 THEN -asset.amount ELSE asset.amount
        plain == [negative |-> asset.amount < 0, int |-> abs, frac |-> <<>>,
                  code |-> ShowCode(asset.code)]
        divisor == Radix ^ asset.precision
    IN  IF asset.precision = 0 \/ divisor > 2 * MaxAmount + 1 THEN plain
        ELSE [plain EXCEPT !.int = abs \div divisor,
                           !.frac = Digits(abs % divisor, asset.precision)]

\* Mutant: the sign is that of the number before the point.
ParseAssetSignOfInt(s) ==
    LET scale == Radix ^ Len(s.frac)
        magnitude == s.int * scale + Positional(s.frac, Radix)
    IN  IF ~ParseCode(s.code).ok \/ s.int > MaxAmount \/ scale > MaxAmount
           \/ magnitude > MaxAmount
          THEN Failed
          ELSE Parsed(Asset(IF s.negative /\ s.int > 0 THEN -magnitude ELSE magnitude,
                            Len(s.frac), s.code))

\* `parse_asset`: i64 before and after the point, and checked arithmetic.  The
\* sign is that of the text, so that it is kept when the number before the
\* point is zero.  i64::MIN, whose absolute value is none, is left out.
ParseAsset(s) ==
    LET scale == Radix ^ Len(s.frac)
        magnitude == s.int * scale + Positional(s.frac, Radix)
    IN  IF ~ParseCode(s.code).ok \/ s.int > MaxAmount \/ scale > MaxAmount
           \/ magnitude > MaxAmount
          THEN Failed
          ELSE Parsed(Asset(IF s.negative THEN -magnitude ELSE magnitude,
                            Len(s.frac), s.code))
=============================================================================
