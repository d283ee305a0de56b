-------------------------------- MODULE Codecs --------------------------------
(* The decoders of hyperion-rs at work: each behaviour gives one of them one *)
(* input.  The frames are what nodeos writes, and what an interrupted or     *)
(* incompatible one might: cut short, with one byte changed, or with a byte  *)
(* too many.                                                                 *)
EXTENDS ShipTypes, NodeosAbi, Text

CONSTANTS Kinds, Amounts, Precisions, Codes

VARIABLES job, out
vars == <<job, out>>

Encoded == [kind \in Kinds |-> Samples(Root[kind], {}, FALSE)]

FrameJobs ==
    UNION {UNION {
        LET size == Len(Encoded[kind][n])
            Edits(edit, places) ==
                {[codec |-> "frame", kind |-> kind, n |-> n, edit |-> edit, at |-> k] : k \in places}
        IN  Edits("none", {size}) \cup Edits("longer", {size}) \cup
            Edits("cut", 0 .. size - 1) \cup Edits("changed", 1 .. size)
        : n \in DOMAIN Encoded[kind]} : kind \in Kinds}

Original(j) == Encoded[j.kind][j.n]

Frame(j) ==
    LET s == Original(j) IN
    CASE j.edit = "none"    -> s
      [] j.edit = "longer"  -> Append(s, 1)
      [] j.edit = "cut"     -> SubSeq(s, 1, j.at)
      [] j.edit = "changed" -> [s EXCEPT ![j.at] = (@ + 1) % (2 * Base)]

StringsOver(S, n) == UNION {[1 .. k -> S] : k \in 0 .. n}

NameJobs == {[codec |-> "name", text |-> s] : s \in StringsOver(0 .. 2 ^ CharBits, NameLen + 1)}

VaruintJobs == {[codec |-> "varuint", bytes |-> s] : s \in StringsOver(Byte, VarintBytes + 1)}

AssetJobs ==
    {[codec |-> "asset", asset |-> Asset(amount, precision, code)] :
        amount \in Amounts, precision \in Precisions, code \in Codes}

\* Two lists of at most three actions over two names and two types.
ActionLists == StringsOver({F(n, T(t)) : n \in {"transfer", "issue"}, t \in {"uint8", "uint16"}}, 3)

LookupJobs == {[codec |-> "lookup", defs |-> defs] : defs \in ActionLists}

Init ==
    /\ job \in FrameJobs \cup NameJobs \cup VaruintJobs \cup AssetJobs \cup LookupJobs
    /\ out = <<>>

Given(codec) == out = <<>> /\ job.codec = codec /\ UNCHANGED job

\* A codec of types.rs, and the ABI decoder with the ABI of nodeos.
DecodeFrame ==
    /\ Given("frame")
    /\ out' = <<[hand |-> Decode(job.kind, Frame(job)),
                 abi |-> DecodeAs(Nodeos, Root[job.kind], job.kind, Frame(job))]>>

ConvertName ==
    /\ Given("name")
    /\ out' = <<ParseName(job.text)>>

ReadVaruint ==
    /\ Given("varuint")
    /\ out' = <<Varuint(job.bytes, 0)>>

ConvertAsset ==
    /\ Given("asset")
    /\ out' = <<ParseAsset(ShowAsset(job.asset))>>

\* `decode_action` of action "transfer", one byte of data more than it needs.
DecodeLookup ==
    /\ Given("lookup")
    /\ out' = <<DecodeNamed([Nodeos EXCEPT !.structs = <<>>], job.defs, "transfer", <<1, 1, 1>>)>>

Next == DecodeFrame \/ ConvertName \/ ReadVaruint \/ ConvertAsset \/ DecodeLookup

Spec == Init /\ [][Next]_vars

-----------------------------------------------------------------------------
Answered(codec) == out # <<>> /\ job.codec = codec

\* types.rs:3-6: the hand-written codecs track the ABI of nodeos, and what is
\* none of its versions is an error: on every frame, intact or not, they read
\* the fields that the ABI says, in its order, or fail as it does.  The ABI
\* decoder takes the first of several definitions, as Abi::action_type does.
ShapesTrackAbi ==
    /\ Answered("frame") => out[1].hand = out[1].abi
    /\ Answered("lookup") =>
        LET named == SelectSeq(job.defs, LAMBDA d : d.name = "transfer") IN
        IF named = <<>> THEN ~out[1].ok
        ELSE out[1].ok /\ out[1].pos = IF named[1].type.name = "uint8" THEN 1 ELSE 2

\* A frame that nodeos wrote decodes, to its last byte, and what a later nodeos
\* adds after it is left, where no extension may begin.  A frame that was cut
\* is an error, unless it was cut where an extension begins: no decoder takes
\* part of a list for all of it.
FramesWhole ==
    Answered("frame") =>
        LET hand == out[1].hand
            whole == Decode(job.kind, Original(job))
            rest == SubSeq(whole.leaves, Len(hand.leaves) + 1, Len(whole.leaves))
        IN  /\ \/ job.edit = "none"
               \/ job.edit = "longer" /\ job.kind \notin {"result", "abi_def"}
               => hand.ok /\ hand.pos = Len(Original(job))
            /\ job.edit = "cut" /\ hand.ok =>
                   /\ IsPrefix(hand.leaves, whole.leaves)
                   /\ rest # <<>> /\ rest[1].field \in {"chain_id", "variants"}

\* A varuint is accepted when it ends within VarintBytes bytes and fits a u32;
\* it then has the value of its groups, and what push_varuint32 writes for
\* that value reads back as it.
VaruintExact ==
    Answered("varuint") =>
        LET s == job.bytes
            ends == {k \in DOMAIN s : s[k] < Base}
            n == CHOOSE k \in ends : \A j \in ends : k <= j
            sum == Positional(Reverse([k \in 1 .. n |-> s[k] % Base]), Base)
        IN  IF ends = {} \/ n > VarintBytes \/ sum > MaxU32 THEN ~out[1].ok
            ELSE /\ out[1] = Done(<<sum>>, n)
                 /\ Varuint(PushVaruint(sum), 0) = Done(<<sum>>, Len(PushVaruint(sum)))
                 /\ \A v \in 0 .. MaxU32 : Zigzag(v) = Zigzag(sum) => v = sum

\* Names and their values are one to one up to trailing dots: a name in a
\* document id or a query means one account.
NameExact ==
    Answered("name") =>
        IF out[1].ok THEN /\ out[1].value \in NameValues
                          /\ ShowName(out[1].value) = TrimDots(job.text)
        ELSE \A n \in NameValues : ShowName(n) # job.text

\* The balance and transfer amounts that parse_asset takes back from the text
\* of the decoder are the ones on the chain, negative fractions included, for
\* every precision whose power fits; a greater one never gives a wrong amount
\* with a fraction.
AssetExact ==
    Answered("asset") =>
        LET back == out[1] IN
        /\ Radix ^ job.asset.precision <= MaxAmount => back = Parsed(job.asset)
        /\ back.ok /\ back.value # job.asset =>
               back.value.precision = 0 /\ back.value.amount = job.asset.amount
=============================================================================
