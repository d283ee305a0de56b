---------------------------- MODULE IndexerProofs -----------------------------
(***************************************************************************)
(* Proofs of Indexer's safety properties, for every chain length, number   *)
(* of forks and faults, batch size, queue and window.                      *)
(*                                                                         *)
(* The argument has two halves.  Covered follows heights: every height     *)
(* below the stream's position is confirmed, in a batch in flight, or in   *)
(* the batch being filled, and a batch only holds a checkpoint back by     *)
(* what is before it; so a checkpoint is written over confirmed heights    *)
(* only, by this run or by a PUT of an earlier one.  It needs no           *)
(* assumption on forks.  Straight follows writes: without a fork every     *)
(* item list anywhere, in a batch, on the wire or left behind by a dead    *)
(* run, consists of whole blocks of the chain, so that whatever lands,     *)
(* however late and however often, can only be one of the chain's writes,  *)
(* and versions put those in chain order.                                  *)
(***************************************************************************)
EXTENDS Indexer, ElasticProofs, SequenceTheorems

Value == Height \X Branch

Item == ItemOf(Id, Value)

Batch == [items : Seq(Item), maxBlock : Nat]

Flying == [batch : Batch, fate : {"wire", "applied", "failed", "refused"}]

-----------------------------------------------------------------------------
(* The inductive invariant.                                                  *)

TypeOK ==
    /\ branch \in Branch
    /\ chain \in Seq([branch : Branch, ops : Contents])
    /\ Len(chain) <= MaxHeight
    /\ docs \in [Id -> DocOf(Value)]
    /\ progress \in Nat
    /\ stray \subseteq Seq(Item)
    /\ latePuts \subseteq Nat
    /\ faults \in 0 .. MaxFaults
    /\ up \in BOOLEAN
    /\ start \in Nat
    /\ source \in {"none", "config", "checkpoint", "index", "genesis"}
    /\ fellBack \in BOOLEAN
    /\ confirmed \subseteq Value
    /\ next \in Nat \ {0}
    /\ batch \in Batch
    /\ queue \in Seq(Batch)
    /\ window \in Seq(Flying)
    /\ checkpoint \in Nat

BatchesOf(w) == [k \in 1 .. Len(w) |-> w[k].batch]

\* The batches the processor has handed over, oldest first.
Flight == BatchesOf(window) \o queue

\* Every list of items that is somewhere: being filled, in flight, or on the
\* wire of a run that is over.
Lists == {batch.items} \cup {Flight[k].items : k \in 1 .. Len(Flight)} \cup stray

\* The documents of the chain's blocks.
Blocks == [h \in 1 .. Len(chain) |-> BlockItems(h)]

\* BlockItems of a block that is given.
ItemsOfBlock(block, h) ==
    LET value == <<h, block.branch>> IN
    <<[op |-> "index", id |-> BlockId(h), version |-> Version(h, 0), value |-> value]>>
    \o [k \in 1 .. Len(block.ops) |->
          [op |-> block.ops[k], id |-> Entity, version |-> Version(h, k), value |-> value]]

\* Items come with the block document of their block, and only the entity is
\* ever deleted.
Request(items, br) ==
    \A n \in 1 .. Len(items) :
        /\ items[n].version > 0
        /\ items[n].value[2] <= br
        /\ items[n].id # Entity =>
             items[n].op = "index" /\ items[n].id = BlockId(items[n].value[1])
        /\ \E m \in 1 .. Len(items) : items[m].id = BlockId(items[n].value[1])

\* The items are whole blocks of the chain whose documents C are.
Whole(items, C) ==
    \A n \in 1 .. Len(items) :
        LET h == items[n].value[1] IN
        /\ h \in Floor .. Len(C)
        /\ \E k \in 1 .. Len(C[h]) : items[n] = C[h][k]
        /\ \A k \in 1 .. Len(C[h]) : \E m \in 1 .. Len(items) : items[m] = C[h][k]

\* Every write of the list has reached the store, or a newer one has.
Landed(d, items) == \A n \in 1 .. Len(items) : d[items[n].id].version >= items[n].version

\* The list holds the block document of height h.
Carries(items, h) == \E n \in 1 .. Len(items) : items[n].id = BlockId(h)

\* A block at height h was part of a confirmed batch.
Done(conf, h) == \E c \in conf : c[1] = h

Requests == \A items \in Lists : Request(items, branch)

Stored ==
    \A id \in Id :
        /\ docs[id].version = 0 => docs[id] = Absent
        /\ docs[id].version # 0 /\ id # Entity => Live(docs[id])

Fates == \A k \in 1 .. Len(window) :
            window[k].fate = "applied" => Landed(docs, window[k].batch.items)

Confirmations ==
    \A c \in confirmed : c[2] <= branch /\ docs[BlockId(c[1])].version # 0

Reach ==
    /\ up => next >= Floor
    /\ \A h \in 1 .. Len(chain) : chain[h].branch <= branch

DoneUpTo(conf, b) == \A h \in Floor .. b : Done(conf, h)

\* What is at or below the last block of a batch is in it or before it.
InOrder(conf, F) ==
    \A k \in 1 .. Len(F) : \A h \in Floor .. F[k].maxBlock :
        Done(conf, h) \/ \E j \in 1 .. k : Carries(F[j].items, h)

\* Height h is somewhere between the processor and the confirmed.
Held(conf, F, items, h) ==
    \/ Done(conf, h)
    \/ Carries(items, h)
    \/ \E j \in 1 .. Len(F) : Carries(F[j].items, h)

Covered ==
    ~fellBack =>
        /\ DoneUpTo(confirmed, progress)
        /\ \A b \in latePuts : DoneUpTo(confirmed, b)
        /\ InOrder(confirmed, Flight)
        /\ \A h \in Floor .. batch.maxBlock : Held(confirmed, Flight, batch.items, h)
        /\ \A h \in Floor .. next - 1 : Held(confirmed, Flight, batch.items, h)

Straight ==
    branch = 0 =>
        /\ \A items \in Lists : Whole(items, Blocks)
        /\ \A id \in Id : docs[id].version # 0 =>
             \E h \in Floor .. Len(chain) : \E k \in 1 .. Len(Blocks[h]) :
                Blocks[h][k].id = id /\ docs[id] = Leaves(Blocks[h][k])
        /\ \A c \in confirmed : c[1] \in Floor .. Len(chain) /\ Landed(docs, Blocks[c[1]])

IInv ==
    /\ TypeOK
    /\ Requests
    /\ Stored
    /\ Fates
    /\ Confirmations
    /\ Reach
    /\ Covered
    /\ Straight

-----------------------------------------------------------------------------
(* Numbers, ids and sequences.                                               *)

LEMMA MaxOfTwo ==
    ASSUME NEW a \in Nat, NEW b \in Nat
    PROVE  /\ Max({a, b}) \in Nat
           /\ Max({a, b}) \in {a, b}
           /\ Max({a, b}) >= a
           /\ Max({a, b}) >= b
<1>1. \E x \in {a, b} : \A y \in {a, b} : x >= y
  <2>1. a >= b \/ b >= a
    OBVIOUS
  <2> QED
    BY <2>1
<1> QED
    BY <1>1 DEF Max

LEMMA MinOfTwo ==
    ASSUME NEW a \in Nat, NEW b \in Nat
    PROVE  Min({a, b}) \in Nat /\ Min({a, b}) <= a /\ Min({a, b}) <= b
<1>1. \E x \in {a, b} : \A y \in {a, b} : x =< y
  <2>1. a <= b \/ b <= a
    OBVIOUS
  <2> QED
    BY <2>1
<1> QED
    BY <1>1 DEF Min

LEMMA MaxOfHeights ==
    ASSUME NEW S \in SUBSET Height, S # {}
    PROVE  Max(S) \in S
<1> DEFINE T == {MaxHeight - x : x \in S}
<1>1. MaxHeight \in Nat /\ Height = 1 .. MaxHeight
    BY IndexerAssumption DEF Height
<1>2. T \in SUBSET Nat /\ T # {}
  <2>1. \A x \in S : MaxHeight - x \in Nat
    BY <1>1
  <2> QED
    BY <2>1
<1>3. PICK m \in T : \A n \in T : m <= n
    BY <1>2, LeastNat
<1>4. PICK x \in S : m = MaxHeight - x
    BY <1>3
<1>5. \A y \in S : MaxHeight - x <= MaxHeight - y
    BY <1>3, <1>4
<1>6. \A y \in S : x >= y
    BY <1>1, <1>5
<1> QED
    BY <1>6 DEF Max

LEMMA FloorIs ==
    /\ Floor \in Nat
    /\ Floor >= 1
    /\ StartBlock > 0 => Floor = StartBlock
    /\ StartBlock = 0 => Floor = 1
<1>1. StartBlock \in Nat
    BY IndexerAssumption
<1>2. Floor = Max({StartBlock, 1})
    BY DEF Floor
<1>3. Floor \in Nat /\ Floor \in {StartBlock, 1} /\ Floor >= StartBlock /\ Floor >= 1
    BY <1>1, <1>2, MaxOfTwo
<1> QED
    BY <1>1, <1>3

LEMMA ItemIds ==
    /\ Entity \in Id
    /\ \A h \in Height : BlockId(h) \in Id
    /\ \A h : BlockId(h) # Entity
    /\ \A g : \A h : BlockId(g) = BlockId(h) => g = h
    /\ \A id \in Id : id # Entity => \E h \in Height : id = BlockId(h)
BY DEF Id, Entity, BlockId

LEMMA SeqElement ==
    ASSUME NEW S, NEW s \in Seq(S), NEW i \in 1 .. Len(s)
    PROVE  s[i] \in S
OBVIOUS

LEMMA Prefix ==
    ASSUME NEW S, NEW s \in Seq(S), NEW n \in 0 .. Len(s)
    PROVE  /\ SubSeq(s, 1, n) \in Seq(S)
           /\ Len(SubSeq(s, 1, n)) = n
           /\ \A i \in 1 .. n : SubSeq(s, 1, n)[i] = s[i]
OBVIOUS

LEMMA ConcatSeq ==
    ASSUME NEW S, NEW a \in Seq(S), NEW b \in Seq(S)
    PROVE  /\ a \o b \in Seq(S)
           /\ Len(a \o b) = Len(a) + Len(b)
           /\ \A i \in 1 .. Len(a) : (a \o b)[i] = a[i]
           /\ \A i \in 1 .. Len(b) : (a \o b)[Len(a) + i] = b[i]
BY SMT

\* c has the elements of a and b.
Merges(c, a, b) ==
    /\ \A i \in 1 .. Len(a) : \E j \in 1 .. Len(c) : c[j] = a[i]
    /\ \A i \in 1 .. Len(b) : \E j \in 1 .. Len(c) : c[j] = b[i]
    /\ \A j \in 1 .. Len(c) :
        \/ \E i \in 1 .. Len(a) : c[j] = a[i]
        \/ \E i \in 1 .. Len(b) : c[j] = b[i]

LEMMA ConcatElements ==
    ASSUME NEW S, NEW a \in Seq(S), NEW b \in Seq(S)
    PROVE  Merges(a \o b, a, b)
<1>1. Len(a) \in Nat /\ Len(b) \in Nat /\ Len(a \o b) = Len(a) + Len(b)
    BY ConcatSeq
<1>2. /\ \A i \in 1 .. Len(a) : (a \o b)[i] = a[i]
      /\ \A i \in 1 .. Len(b) : (a \o b)[Len(a) + i] = b[i]
    BY ConcatSeq
<1>3. \A i \in 1 .. Len(a) : \E j \in 1 .. Len(a \o b) : (a \o b)[j] = a[i]
    BY <1>1, <1>2
<1>4. ASSUME NEW i \in 1 .. Len(b)
      PROVE  \E j \in 1 .. Len(a \o b) : (a \o b)[j] = b[i]
  <2>1. Len(a) + i \in 1 .. Len(a \o b)
    BY <1>1
  <2> QED
    BY <1>2, <2>1
<1>5. ASSUME NEW j \in 1 .. Len(a \o b)
      PROVE  \/ \E i \in 1 .. Len(a) : (a \o b)[j] = a[i]
             \/ \E i \in 1 .. Len(b) : (a \o b)[j] = b[i]
  <2>1. CASE j <= Len(a)
    BY <1>1, <1>2, <2>1
  <2>2. CASE j > Len(a)
    <3>1. j - Len(a) \in 1 .. Len(b) /\ Len(a) + (j - Len(a)) = j
      BY <1>1, <2>2
    <3> QED
      BY <1>2, <3>1
  <2> QED
    BY <1>1, <2>1, <2>2
<1> QED
    BY <1>3, <1>4, <1>5 DEF Merges

-----------------------------------------------------------------------------
(* The documents of a block.                                                 *)

LEMMA Span == SeqSpan \in Nat /\ SeqSpan >= 1
BY IndexerAssumption

\* Multiples of a number grow by it at least.
LEMMA Multiple ==
    ASSUME NEW n \in Nat
    PROVE  /\ \A a \in Nat : a * n \in Nat
           /\ \A a \in Nat, b \in Nat : a > b => a * n >= b * n + n
OBVIOUS

\* Versions are naturals, positive from block 1 on.
LEMMA VersionBound ==
    /\ \A h \in Nat, k \in Nat : Version(h, k) \in Nat
    /\ \A h \in Nat, k \in Nat : h >= 1 => Version(h, k) >= 1
<1>1. ASSUME NEW h \in Nat, NEW k \in Nat
      PROVE  Version(h, k) \in Nat /\ (h >= 1 => Version(h, k) >= 1)
  <2>1. h * SeqSpan \in Nat /\ (h >= 1 => h * SeqSpan >= 0 * SeqSpan + SeqSpan)
    BY Span, Multiple
  <2> QED
    BY <2>1, Span DEF Version
<1> QED
    BY <1>1

LEMMA BlockShape ==
    ASSUME chain \in Seq([branch : Branch, ops : Contents]), Len(chain) <= MaxHeight,
           NEW h \in 1 .. Len(chain)
    PROVE  /\ BlockItems(h) \in Seq(Item)
           /\ Len(BlockItems(h)) \in 1 .. SeqSpan
           /\ h \in Height
           /\ \A k \in 1 .. Len(BlockItems(h)) :
                /\ BlockItems(h)[k].version = Version(h, k - 1)
                /\ BlockItems(h)[k].value = <<h, chain[h].branch>>
                /\ k = 1 => BlockItems(h)[k].op = "index" /\ BlockItems(h)[k].id = BlockId(h)
                /\ k # 1 => BlockItems(h)[k].id = Entity
<1> DEFINE ops == chain[h].ops
           value == <<h, chain[h].branch>>
           doc == [op |-> "index", id |-> BlockId(h), version |-> Version(h, 0), value |-> value]
           rest == [k \in 1 .. Len(ops) |->
                      [op |-> ops[k], id |-> Entity, version |-> Version(h, k), value |-> value]]
<1>1. chain[h] \in [branch : Branch, ops : Contents]
    BY SeqElement
<1>2. ops \in Seq({"index", "delete"}) /\ Len(ops) \in Nat /\ Len(ops) < SeqSpan
    BY <1>1, IndexerAssumption
<1>3. h \in Height
    BY IndexerAssumption DEF Height
<1>4. value \in Value
    BY <1>1, <1>3 DEF Value
<1>5. \A k \in Nat : Version(h, k) \in Nat
  <2>1. h \in Nat
    BY <1>3, IndexerAssumption DEF Height
  <2> QED
    BY <2>1, VersionBound
<1> HIDE DEF value
<1>6. doc \in Item
    BY <1>3, <1>4, <1>5, ItemIds DEF Item, ItemOf
<1>7. \A k \in 1 .. Len(ops) : rest[k] \in Item
  <2> SUFFICES ASSUME NEW k \in 1 .. Len(ops) PROVE rest[k] \in Item
    OBVIOUS
  <2>1. ops[k] \in {"index", "delete"} /\ Entity \in Id /\ Version(h, k) \in Nat
    <3>1. ops[k] \in {"index", "delete"}
      <4> HIDE DEF ops
      <4> QED
        BY <1>2, SeqElement
    <3> QED
      BY <1>5, <3>1, ItemIds
  <2>2. rest[k] = [op |-> ops[k], id |-> Entity, version |-> Version(h, k), value |-> value]
    OBVIOUS
  <2> HIDE DEF rest
  <2> QED
    BY <1>4, <2>1, <2>2 DEF Item, ItemOf
<1>8. rest \in Seq(Item) /\ Len(rest) = Len(ops)
  <2>1. rest = [k \in 1 .. Len(ops) |-> rest[k]]
    OBVIOUS
  <2> HIDE DEF rest
  <2>2. rest \in [1 .. Len(ops) -> Item]
    BY <1>7, <2>1
  <2>3. rest \in Seq(Item)
    BY <1>2, <2>2
  <2> QED
    BY <1>2, <2>2, <2>3, LenProperties
<1>9. <<doc>> \in Seq(Item) /\ Len(<<doc>>) = 1 /\ <<doc>>[1] = doc
    BY <1>6
<1>10. BlockItems(h) = <<doc>> \o rest
    BY DEF BlockItems, value
<1>11. /\ doc.version = Version(h, 0) /\ doc.value = value
       /\ doc.op = "index" /\ doc.id = BlockId(h)
    OBVIOUS
<1>12. \A k \in 1 .. Len(ops) :
         rest[k].version = Version(h, k) /\ rest[k].value = value /\ rest[k].id = Entity
    OBVIOUS
<1> HIDE DEF doc, rest
<1>13. /\ BlockItems(h) \in Seq(Item)
       /\ Len(BlockItems(h)) = 1 + Len(ops)
       /\ \A i \in 1 .. 1 : BlockItems(h)[i] = <<doc>>[i]
       /\ \A i \in 1 .. Len(ops) : BlockItems(h)[1 + i] = rest[i]
    BY <1>8, <1>9, <1>10, ConcatSeq
<1>14. Len(BlockItems(h)) \in 1 .. SeqSpan
    BY <1>2, <1>13, Span
<1>15. ASSUME NEW k \in 1 .. Len(BlockItems(h))
       PROVE  /\ BlockItems(h)[k].version = Version(h, k - 1)
              /\ BlockItems(h)[k].value = value
              /\ k = 1 => BlockItems(h)[k].op = "index" /\ BlockItems(h)[k].id = BlockId(h)
              /\ k # 1 => BlockItems(h)[k].id = Entity
  <2>1. CASE k = 1
    BY <2>1, <1>9, <1>11, <1>13
  <2>2. CASE k # 1
    <3>1. k - 1 \in 1 .. Len(ops) /\ 1 + (k - 1) = k
      BY <2>2, <1>2, <1>13
    <3> QED
      BY <2>2, <3>1, <1>12, <1>13
  <2> QED
    BY <2>1, <2>2
<1> QED
    BY <1>3, <1>13, <1>14, <1>15 DEF value

-----------------------------------------------------------------------------
(* The type invariant.                                                       *)

LEMMA TypeInit == Init => TypeOK
<1> SUFFICES ASSUME Init PROVE TypeOK
    OBVIOUS
<1>1. docs \in [Id -> DocOf(Value)]
  <2>1. Absent \in DocOf(Value)
    BY DEF Absent, DocOf
  <2> QED
    BY <2>1 DEF Init
<1>2. branch \in Branch /\ faults \in 0 .. MaxFaults
    BY IndexerAssumption DEF Init, Branch
<1>3. batch \in Batch
    BY DEF Init, EmptyBatch, Batch
<1>4. up \in BOOLEAN /\ fellBack \in BOOLEAN
    BY DEF Init
<1>5. Len(chain) <= MaxHeight
    BY IndexerAssumption DEF Init
<1> QED
    BY <1>1, <1>2, <1>3, <1>4, <1>5 DEF Init, TypeOK

\* The node's parts of the state.
LEMMA NodeSteps ==
    ASSUME [Next]_vars
    PROVE  \/ Produce
           \/ Fork
           \/ chain' = chain /\ branch' = branch
BY Zenon DEF Next, vars, node, Start, ProcessBlock, Flush, Submit, Applying, Refusing, EsApply,
   EsRefuse, Confirm, RunFails, Crash, CrashInPut, Stop, StrayApply, StrayLost, LatePut

LEMMA BooleanSteps ==
    ASSUME TypeOK, [Next]_vars
    PROVE  up' \in BOOLEAN /\ fellBack' \in BOOLEAN
<1>1. up \in BOOLEAN /\ fellBack \in BOOLEAN
    BY DEF TypeOK
<1>2. CASE Start
    BY <1>2, Zenon DEF Start
<1>3. CASE RunFails \/ Crash \/ CrashInPut
    BY <1>1, <1>3, Zenon DEF RunFails, Crash, CrashInPut, Stop
<1>4. (up' = up /\ fellBack' = fellBack) \/ Start \/ RunFails \/ Crash \/ CrashInPut
    BY Zenon DEF Next, vars, node, run, origin, Produce, Fork, ProcessBlock, Flush, Submit,
       Applying, Refusing, EsApply, EsRefuse, Confirm, StrayApply, StrayLost, LatePut
<1> QED
    BY <1>1, <1>2, <1>3, <1>4, Zenon

LEMMA BulkTyped ==
    ASSUME TypeOK, NEW items \in Seq(Item)
    PROVE  BulkResult(docs, items).docs \in [Id -> DocOf(Value)]
BY BulkMerges DEF TypeOK, Item

LEMMA WindowTyped ==
    ASSUME TypeOK, NEW k \in DOMAIN window
    PROVE  /\ k \in 1 .. Len(window)
           /\ window[k] \in Flying
           /\ window[k].batch \in Batch
           /\ window[k].batch.items \in Seq(Item)
<1>1. k \in 1 .. Len(window)
    BY DEF TypeOK
<1>2. window[k] \in Flying
    BY <1>1, SeqElement DEF TypeOK
<1> QED
    BY <1>1, <1>2 DEF Flying, Batch

\* The window after the k-th request got its answer.
WithFate(w, k, fate) == [w EXCEPT ![k].fate = fate]

LEMMA FateTyped ==
    ASSUME TypeOK, NEW k \in DOMAIN window, NEW fate \in {"wire", "applied", "failed", "refused"}
    PROVE  /\ WithFate(window, k, fate) \in Seq(Flying)
           /\ Len(WithFate(window, k, fate)) = Len(window)
           /\ \A n \in 1 .. Len(window) : WithFate(window, k, fate)[n].batch = window[n].batch
           /\ \A n \in 1 .. Len(window) : n # k => WithFate(window, k, fate)[n] = window[n]
           /\ WithFate(window, k, fate)[k].fate = fate
<1>1. window \in Seq(Flying) /\ k \in 1 .. Len(window)
    BY WindowTyped DEF TypeOK
<1>2. WithFate(window, k, fate) = [window EXCEPT ![k] = [window[k] EXCEPT !.fate = fate]]
    BY DEF WithFate
<1>3. window[k] \in Flying
    BY <1>1, SeqElement
<1>4. /\ [window[k] EXCEPT !.fate = fate] \in Flying
      /\ [window[k] EXCEPT !.fate = fate].batch = window[k].batch
      /\ [window[k] EXCEPT !.fate = fate].fate = fate
    BY <1>3 DEF Flying
<1> DEFINE e == [window[k] EXCEPT !.fate = fate]
<1> HIDE DEF e
<1>5. /\ [window EXCEPT ![k] = e] \in Seq(Flying)
      /\ Len([window EXCEPT ![k] = e]) = Len(window)
      /\ \A n \in 1 .. Len(window) : n # k => [window EXCEPT ![k] = e][n] = window[n]
      /\ [window EXCEPT ![k] = e][k] = e
    BY <1>1, <1>4, ExceptSeq DEF e
<1> QED
    BY <1>1, <1>2, <1>4, <1>5 DEF e

\* The one step that changes a fate.
LEMMA FateSteps ==
    ASSUME TypeOK, NEW k \in DOMAIN window, EsApply(k) \/ EsRefuse(k)
    PROVE  \E fate \in {"wire", "applied", "failed", "refused"} :
             /\ window' = WithFate(window, k, fate)
             /\ fate = "applied" => EsApply(k)
BY DEF EsApply, EsRefuse, WithFate

LEMMA StopTyped ==
    ASSUME TypeOK, Stop
    PROVE  /\ start' \in Nat
           /\ source' = "none"
           /\ next' = 1
           /\ stray' \subseteq Seq(Item)
           /\ batch' \in Batch
           /\ queue' \in Seq(Batch)
           /\ window' \in Seq(Flying)
           /\ checkpoint' \in Nat
           /\ chain' = chain
           /\ branch' = branch
           /\ docs' = docs
           /\ progress' = progress
<1>1. ASSUME NEW k \in 1 .. Len(window) PROVE window[k].batch.items \in Seq(Item)
  <2>1. window[k] \in Flying
    BY SeqElement DEF TypeOK
  <2> QED
    BY <2>1 DEF Flying, Batch
<1>2. stray' \subseteq Seq(Item)
  <2>1. stray' = stray \cup {window[k].batch.items :
                               k \in {n \in DOMAIN window : window[n].fate = "wire"}}
    BY DEF Stop
  <2>2. stray \subseteq Seq(Item) /\ DOMAIN window = 1 .. Len(window)
    BY DEF TypeOK
  <2> QED
    BY <1>1, <2>1, <2>2
<1>3. EmptyBatch \in Batch
    BY DEF EmptyBatch, Batch
<1> QED
    BY <1>2, <1>3 DEF Stop, node

LEMMA HeadTyped ==
    ASSUME TypeOK, window # <<>>
    PROVE  /\ Head(window) \in Flying
           /\ Head(window) = window[1]
           /\ 1 \in 1 .. Len(window)
           /\ Head(window).batch \in Batch
           /\ Head(window).batch.maxBlock \in Nat
           /\ Head(window).batch.items \in Seq(Item)
           /\ HeadBlocks \subseteq Value
<1>1. /\ Head(window) = window[1]
      /\ 1 \in 1 .. Len(window)
    BY DEF TypeOK
<1>2. Head(window) \in Flying
    BY <1>1, SeqElement DEF TypeOK
<1>3. /\ Head(window).batch \in Batch
      /\ Head(window).batch.maxBlock \in Nat
      /\ Head(window).batch.items \in Seq(Item)
    BY <1>2 DEF Flying, Batch
<1>4. HeadBlocks \subseteq Value
  <2>1. \A i \in ToSet(Head(window).batch.items) : i \in Item
    BY <1>3 DEF ToSet
  <2>2. \A i \in Item : i.value \in Value
    BY DEF Item, ItemOf
  <2> QED
    BY <2>1, <2>2 DEF HeadBlocks
<1> QED
    BY <1>1, <1>2, <1>3, <1>4

LEMMA TypeStep == TypeOK /\ [Next]_vars => TypeOK'
<1> SUFFICES ASSUME TypeOK, [Next]_vars PROVE TypeOK'
    OBVIOUS
<1>b. up' \in BOOLEAN /\ fellBack' \in BOOLEAN
    BY BooleanSteps
<1>s. branch \in Branch /\ MaxForks \in Nat /\ Len(chain) \in Nat
    BY IndexerAssumption DEF TypeOK
<1>1. CASE Produce
  <2>1. PICK ops \in Contents : chain' = Append(chain, [branch |-> branch, ops |-> ops])
    BY <1>1 DEF Produce
  <2>2. [branch |-> branch, ops |-> ops] \in [branch : Branch, ops : Contents]
    BY <1>s
  <2>3. chain' \in Seq([branch : Branch, ops : Contents]) /\ Len(chain') = Len(chain) + 1
    BY <2>1, <2>2, AppendProperties DEF TypeOK
  <2>4. Len(chain') <= MaxHeight
    BY <1>1, <2>3, IndexerAssumption DEF Produce, TypeOK
  <2>5. next' \in Nat \ {0}
    <3>1. next' = Len(chain) + 1 \/ next' = next
      BY <1>1, Zenon DEF Produce
    <3> QED
      BY <1>s, <3>1 DEF TypeOK
  <2>6. /\ branch' = branch /\ docs' = docs /\ progress' = progress /\ stray' = stray
        /\ latePuts' = latePuts /\ faults' = faults /\ start' = start /\ source' = source
        /\ batch' = batch /\ queue' = queue /\ window' = window
        /\ checkpoint' = checkpoint /\ confirmed' = confirmed
    BY <1>1, Zenon DEF Produce, store, origin
  <2> QED
    BY <1>b, <2>3, <2>4, <2>5, <2>6 DEF TypeOK
<1>2. CASE Fork
  <2>1. PICK h \in 1 .. Len(chain) : chain' = SubSeq(chain, 1, h - 1)
    BY <1>2 DEF Fork
  <2>2. chain' \in Seq([branch : Branch, ops : Contents]) /\ Len(chain') = h - 1
    <3>1. chain \in Seq([branch : Branch, ops : Contents])
      BY DEF TypeOK
    <3>2. h - 1 \in 0 .. Len(chain)
      BY <1>s
    <3> QED
      BY <2>1, <3>1, <3>2, Prefix
  <2>3. Len(chain') <= MaxHeight /\ branch' \in Branch /\ faults' \in 0 .. MaxFaults
    BY <1>2, <1>s, <2>2, IndexerAssumption DEF Fork, Branch, TypeOK
  <2>4. /\ next' = next /\ docs' = docs /\ progress' = progress /\ stray' = stray
        /\ latePuts' = latePuts /\ start' = start /\ source' = source
        /\ batch' = batch /\ queue' = queue /\ window' = window
        /\ checkpoint' = checkpoint /\ confirmed' = confirmed
    BY <1>2, Zenon DEF Fork, store, origin, run
  <2> QED
    BY <1>b, <2>2, <2>3, <2>4 DEF TypeOK
<1>3. CASE Start
  <2>1. Resolved.block \in Nat \ {0} /\ Resolved.source \in {"config", "checkpoint", "index", "genesis"}
    <3>1. IndexedBlocks # {} => Max(IndexedBlocks) \in Nat
      BY MaxOfHeights DEF IndexedBlocks, Height
    <3> QED
      BY <3>1, IndexerAssumption DEF Resolved, TypeOK
  <2>2. /\ start' = Resolved.block /\ source' = Resolved.source /\ next' = Resolved.block
        /\ batch' = EmptyBatch /\ queue' = <<>> /\ window' = <<>> /\ checkpoint' = 0
        /\ chain' = chain /\ branch' = branch /\ docs' = docs /\ progress' = progress
        /\ stray' = stray /\ latePuts' = latePuts /\ faults' = faults /\ confirmed' = confirmed
    BY <1>3, Zenon DEF Start, store, node
  <2>3. EmptyBatch \in Batch
    BY DEF EmptyBatch, Batch
  <2> HIDE DEF Resolved
  <2> QED
    BY <1>b, <2>1, <2>2, <2>3 DEF TypeOK
<1>4. CASE ProcessBlock
  <2>1. batch' = [items |-> batch.items \o BlockItems(next),
                  maxBlock |-> Max({batch.maxBlock, next})]
        /\ next' = next + 1
    BY <1>4, Zenon DEF ProcessBlock
  <2>2. batch.items \in Seq(Item) /\ batch.maxBlock \in Nat
    BY DEF TypeOK, Batch
  <2>3. BlockItems(next) \in Seq(Item)
    <3>1. next \in 1 .. Len(chain)
      BY <1>4 DEF ProcessBlock, TypeOK
    <3> QED
      BY <3>1, BlockShape DEF TypeOK
  <2>4. batch' \in Batch
    BY <2>1, <2>2, <2>3, MaxOfTwo, ConcatSeq DEF Batch, TypeOK
  <2>5. /\ start' = start /\ source' = source
        /\ queue' = queue /\ window' = window /\ checkpoint' = checkpoint
        /\ chain' = chain /\ branch' = branch /\ docs' = docs /\ progress' = progress
        /\ stray' = stray /\ latePuts' = latePuts /\ faults' = faults /\ confirmed' = confirmed
    BY <1>4, Zenon DEF ProcessBlock, store, node, origin
  <2> QED
    BY <1>b, <2>1, <2>4, <2>5 DEF TypeOK
<1>5. CASE Flush
  <2>1. batch' = EmptyBatch /\ queue' = Append(queue, batch)
    BY <1>5, Zenon DEF Flush
  <2>2. batch' \in Batch /\ queue' \in Seq(Batch)
    BY <2>1, AppendProperties DEF EmptyBatch, Batch, TypeOK
  <2>3. /\ start' = start /\ source' = source /\ next' = next
        /\ window' = window /\ checkpoint' = checkpoint
        /\ chain' = chain /\ branch' = branch /\ docs' = docs /\ progress' = progress
        /\ stray' = stray /\ latePuts' = latePuts /\ faults' = faults /\ confirmed' = confirmed
    BY <1>5, Zenon DEF Flush, store, node, origin
  <2> QED
    BY <1>b, <2>2, <2>3 DEF TypeOK
<1>6. CASE Submit
  <2>1. window' = Append(window, [batch |-> Head(queue), fate |-> "wire"])
        /\ queue' = Tail(queue) /\ queue # <<>>
    BY <1>6, Zenon DEF Submit
  <2>2. Head(queue) \in Batch /\ queue' \in Seq(Batch)
    BY <2>1, HeadTailProperties DEF TypeOK
  <2>3. window' \in Seq(Flying)
    <3>1. [batch |-> Head(queue), fate |-> "wire"] \in Flying
      BY <2>2 DEF Flying
    <3> QED
      BY <2>1, <3>1, AppendProperties DEF TypeOK
  <2>4. /\ start' = start /\ source' = source /\ next' = next
        /\ batch' = batch /\ checkpoint' = checkpoint
        /\ chain' = chain /\ branch' = branch /\ docs' = docs /\ progress' = progress
        /\ stray' = stray /\ latePuts' = latePuts /\ faults' = faults /\ confirmed' = confirmed
    BY <1>6, Zenon DEF Submit, store, node, origin
  <2> QED
    BY <1>b, <2>2, <2>3, <2>4 DEF TypeOK
<1>7. CASE Applying
  <2>1. PICK k \in DOMAIN window : EsApply(k)
    BY <1>7 DEF Applying
  <2>2. window[k].batch.items \in Seq(Item) /\ k \in 1 .. Len(window)
    BY <2>1, WindowTyped
  <2>3. docs' \in [Id -> DocOf(Value)]
    BY <2>1, <2>2, BulkTyped DEF EsApply
  <2>4. window' \in Seq(Flying)
    BY <2>1, FateSteps, FateTyped
  <2>5. /\ start' = start /\ source' = source /\ next' = next
        /\ batch' = batch /\ queue' = queue /\ checkpoint' = checkpoint
        /\ chain' = chain /\ branch' = branch /\ progress' = progress
        /\ stray' = stray /\ latePuts' = latePuts /\ faults' = faults /\ confirmed' = confirmed
    BY <2>1, Zenon DEF EsApply, node, origin
  <2> QED
    BY <1>b, <2>3, <2>4, <2>5 DEF TypeOK
<1>8. CASE Refusing
  <2>1. PICK k \in DOMAIN window : EsRefuse(k)
    BY <1>8 DEF Refusing
  <2>2. window[k].batch.items \in Seq(Item) /\ k \in 1 .. Len(window)
    BY <2>1, WindowTyped
  <2>3. docs' \in [Id -> DocOf(Value)]
    <3>1. BulkResult(docs, window[k].batch.items).docs \in [Id -> DocOf(Value)]
      BY <2>2, BulkTyped
    <3>2. docs \in [Id -> DocOf(Value)]
      BY DEF TypeOK
    <3>3. PICK refused :
            docs' = [id \in Id |-> IF id \in refused THEN docs[id]
                                   ELSE BulkResult(docs, window[k].batch.items).docs[id]]
      BY <2>1, Zenon DEF EsRefuse
    <3> HIDE DEF BulkResult
    <3> QED
      BY <3>1, <3>2, <3>3
  <2>4. window' \in Seq(Flying)
    BY <2>1, FateSteps, FateTyped
  <2>5. faults' \in 0 .. MaxFaults
    <3>1. faults < MaxFaults /\ faults' = faults + 1
      BY <2>1, Zenon DEF EsRefuse
    <3>2. faults \in 0 .. MaxFaults
      BY DEF TypeOK
    <3> QED
      BY <3>1, <3>2, IndexerAssumption
  <2>6. /\ start' = start /\ source' = source /\ next' = next
        /\ batch' = batch /\ queue' = queue /\ checkpoint' = checkpoint
        /\ chain' = chain /\ branch' = branch /\ progress' = progress
        /\ stray' = stray /\ latePuts' = latePuts /\ confirmed' = confirmed
    BY <2>1, Zenon DEF EsRefuse, node, origin
  <2> QED
    BY <1>b, <2>3, <2>4, <2>5, <2>6 DEF TypeOK
<1>9. CASE Confirm
  <2>1. window # <<>>
    BY <1>9, Zenon DEF Confirm, HeadLanded
  <2>2. Head(window).batch.maxBlock \in Nat /\ HeadBlocks \subseteq Value
    BY <2>1, HeadTyped
  <2>3. window' = Tail(window) /\ confirmed' = confirmed \cup HeadBlocks
    BY <1>9, Zenon DEF Confirm
  <2>4. window' \in Seq(Flying) /\ confirmed' \subseteq Value
    BY <2>1, <2>2, <2>3, HeadTailProperties DEF TypeOK
  <2>5. \/ checkpoint' = Head(window).batch.maxBlock /\ progress' = Head(window).batch.maxBlock
        \/ checkpoint' = checkpoint /\ progress' = progress
    BY <1>9, Zenon DEF Confirm
  <2>6. checkpoint' \in Nat /\ progress' \in Nat
    BY <2>2, <2>5 DEF TypeOK
  <2>7. /\ start' = start /\ source' = source /\ next' = next
        /\ batch' = batch /\ queue' = queue /\ docs' = docs
        /\ chain' = chain /\ branch' = branch
        /\ stray' = stray /\ latePuts' = latePuts /\ faults' = faults
    BY <1>9, Zenon DEF Confirm, node, origin
  <2> QED
    BY <1>b, <2>4, <2>6, <2>7 DEF TypeOK
<1>10. CASE RunFails
  <2>1. Stop /\ faults' = faults /\ latePuts' = latePuts /\ confirmed' = confirmed
    BY <1>10, Zenon DEF RunFails
  <2> QED
    BY <1>b, <2>1, StopTyped DEF TypeOK
<1>11. CASE Crash
  <2>1. Stop /\ latePuts' = latePuts /\ confirmed' = confirmed
    BY <1>11, Zenon DEF Crash
  <2>2. faults' \in 0 .. MaxFaults
    BY <1>11, IndexerAssumption DEF Crash, TypeOK
  <2> QED
    BY <1>b, <2>1, <2>2, StopTyped DEF TypeOK
<1>12. CASE CrashInPut
  <2>1. /\ Stop
        /\ latePuts' = latePuts \cup {Head(window).batch.maxBlock}
        /\ confirmed' = confirmed \cup HeadBlocks
        /\ window # <<>>
    BY <1>12, Zenon DEF CrashInPut, HeadLanded
  <2>2. faults' \in 0 .. MaxFaults
    <3>1. faults < MaxFaults /\ faults' = faults + 1
      BY <1>12, Zenon DEF CrashInPut
    <3>2. faults \in 0 .. MaxFaults
      BY DEF TypeOK
    <3> QED
      BY <3>1, <3>2, IndexerAssumption
  <2>3. latePuts' \subseteq Nat /\ confirmed' \subseteq Value
    BY <2>1, HeadTyped DEF TypeOK
  <2>4. /\ start' \in Nat /\ source' = "none" /\ next' = 1 /\ stray' \subseteq Seq(Item)
        /\ batch' \in Batch /\ queue' \in Seq(Batch) /\ window' \in Seq(Flying)
        /\ checkpoint' \in Nat
        /\ chain' = chain /\ branch' = branch /\ docs' = docs /\ progress' = progress
    BY <2>1, StopTyped
  <2> QED
    BY <1>b, <2>2, <2>3, <2>4 DEF TypeOK
<1>13. CASE StrayApply
  <2>1. PICK items \in stray :
          docs' = BulkResult(docs, items).docs /\ stray' = stray \ {items}
    BY <1>13 DEF StrayApply
  <2>2. docs' \in [Id -> DocOf(Value)] /\ stray' \subseteq Seq(Item)
    BY <2>1, BulkTyped DEF TypeOK
  <2>3. /\ start' = start /\ source' = source /\ next' = next
        /\ batch' = batch /\ queue' = queue /\ window' = window /\ checkpoint' = checkpoint
        /\ chain' = chain /\ branch' = branch /\ progress' = progress
        /\ latePuts' = latePuts /\ faults' = faults /\ confirmed' = confirmed
    BY <1>13, Zenon DEF StrayApply, node, run, origin
  <2> QED
    BY <1>b, <2>2, <2>3 DEF TypeOK
<1>14. CASE StrayLost
  <2>1. stray' \subseteq Seq(Item)
    BY <1>14 DEF StrayLost, TypeOK
  <2>2. /\ start' = start /\ source' = source /\ next' = next /\ docs' = docs
        /\ batch' = batch /\ queue' = queue /\ window' = window /\ checkpoint' = checkpoint
        /\ chain' = chain /\ branch' = branch /\ progress' = progress
        /\ latePuts' = latePuts /\ faults' = faults /\ confirmed' = confirmed
    BY <1>14, Zenon DEF StrayLost, node, run, origin
  <2> QED
    BY <1>b, <2>1, <2>2 DEF TypeOK
<1>15. CASE LatePut
  <2>1. progress' \in Nat /\ latePuts' \subseteq Nat
    BY <1>15 DEF LatePut, TypeOK
  <2>2. /\ start' = start /\ source' = source /\ next' = next /\ docs' = docs
        /\ batch' = batch /\ queue' = queue /\ window' = window /\ checkpoint' = checkpoint
        /\ chain' = chain /\ branch' = branch /\ stray' = stray
        /\ faults' = faults /\ confirmed' = confirmed
    BY <1>15, Zenon DEF LatePut, node, run, origin
  <2> QED
    BY <1>b, <2>1, <2>2 DEF TypeOK
<1>16. CASE UNCHANGED vars
  <2>1. /\ start' = start /\ source' = source /\ next' = next /\ docs' = docs
        /\ batch' = batch /\ queue' = queue /\ window' = window /\ checkpoint' = checkpoint
        /\ chain' = chain /\ branch' = branch /\ stray' = stray /\ progress' = progress
        /\ latePuts' = latePuts /\ faults' = faults /\ confirmed' = confirmed
    BY <1>16, Zenon DEF vars, node, store, run, origin
  <2> QED
    BY <1>b, <2>1 DEF TypeOK
<1> QED
    BY <1>1, <1>2, <1>3, <1>4, <1>5, <1>6, <1>7, <1>8, <1>9, <1>10, <1>11, <1>12, <1>13,
       <1>14, <1>15, <1>16
    DEF Next

-----------------------------------------------------------------------------
(* The batches in flight and the item lists anywhere, over a step.           *)

LEMMA BatchesOfType ==
    ASSUME NEW w \in Seq(Flying)
    PROVE  /\ BatchesOf(w) \in Seq(Batch)
           /\ Len(BatchesOf(w)) = Len(w)
           /\ \A k \in 1 .. Len(w) : BatchesOf(w)[k] = w[k].batch
<1>1. \A k \in 1 .. Len(w) : w[k].batch \in Batch
  <2> SUFFICES ASSUME NEW k \in 1 .. Len(w) PROVE w[k].batch \in Batch
    OBVIOUS
  <2>1. w[k] \in Flying
    BY SeqElement
  <2> QED
    BY <2>1 DEF Flying
<1>2. Len(w) \in Nat
    OBVIOUS
<1>3. BatchesOf(w) \in [1 .. Len(w) -> Batch]
    BY <1>1 DEF BatchesOf
<1>4. BatchesOf(w) \in Seq(Batch)
    BY <1>2, <1>3
<1> QED
    BY <1>2, <1>3, <1>4, LenProperties DEF BatchesOf

LEMMA SameBatches ==
    ASSUME NEW v \in Seq(Flying), NEW w \in Seq(Flying), Len(v) = Len(w),
           \A k \in 1 .. Len(w) : v[k].batch = w[k].batch
    PROVE  BatchesOf(v) = BatchesOf(w)
BY DEF BatchesOf

LEMMA BatchesOfAppend ==
    ASSUME NEW w \in Seq(Flying), NEW e \in Flying
    PROVE  BatchesOf(Append(w, e)) = Append(BatchesOf(w), e.batch)
<1> DEFINE l == BatchesOf(Append(w, e))
           r == Append(BatchesOf(w), e.batch)
<1>1. Append(w, e) \in Seq(Flying) /\ e.batch \in Batch /\ Len(w) \in Nat
    BY AppendProperties DEF Flying
<1>2. l \in Seq(Batch) /\ Len(l) = Len(w) + 1
    BY <1>1, BatchesOfType, AppendProperties
<1>3. r \in Seq(Batch) /\ Len(r) = Len(w) + 1
    BY <1>1, BatchesOfType, AppendProperties
<1>4. ASSUME NEW k \in 1 .. Len(w) + 1 PROVE l[k] = r[k]
  <2>1. l[k] = Append(w, e)[k].batch
    <3>1. Len(Append(w, e)) = Len(w) + 1
      BY AppendProperties
    <3>2. k \in 1 .. Len(Append(w, e))
      BY <3>1
    <3> QED
      BY <1>1, <3>2, BatchesOfType
  <2>2. CASE k = Len(w) + 1
    BY <2>1, <2>2, <1>1, BatchesOfType, AppendProperties
  <2>3. CASE k # Len(w) + 1
    <3>1. k \in 1 .. Len(w)
      BY <1>1, <2>3
    <3>2. BatchesOf(w) \in Seq(Batch) /\ Len(BatchesOf(w)) = Len(w)
          /\ BatchesOf(w)[k] = w[k].batch
      BY <3>1, BatchesOfType
    <3>3. r[k] = BatchesOf(w)[k]
      BY <1>1, <3>1, <3>2, AppendProperties
    <3>4. Append(w, e)[k] = w[k]
      BY <3>1, AppendProperties
    <3> QED
      BY <2>1, <3>2, <3>3, <3>4
  <2> QED
    BY <2>2, <2>3
<1> HIDE DEF l, r
<1>5. l = r
    BY <1>2, <1>3, <1>4, SeqEqual
<1> QED
    BY <1>5 DEF l, r

LEMMA BatchesOfTail ==
    ASSUME NEW w \in Seq(Flying), w # <<>>
    PROVE  /\ BatchesOf(w) # <<>>
           /\ BatchesOf(Tail(w)) = Tail(BatchesOf(w))
           /\ Head(BatchesOf(w)) = Head(w).batch
<1> DEFINE l == BatchesOf(Tail(w))
           r == Tail(BatchesOf(w))
<1>1. Tail(w) \in Seq(Flying) /\ Len(Tail(w)) = Len(w) - 1 /\ Len(w) \in Nat /\ Len(w) >= 1
    BY HeadTailProperties
<1>2. /\ BatchesOf(w) \in Seq(Batch)
      /\ Len(BatchesOf(w)) = Len(w)
      /\ \A k \in 1 .. Len(w) : BatchesOf(w)[k] = w[k].batch
    BY BatchesOfType
<1>3. BatchesOf(w) # <<>>
    BY <1>1, <1>2
<1>4. l \in Seq(Batch) /\ Len(l) = Len(w) - 1
    BY <1>1, BatchesOfType
<1>5. r \in Seq(Batch) /\ Len(r) = Len(w) - 1
    BY <1>2, <1>3, HeadTailProperties
<1>6. ASSUME NEW k \in 1 .. Len(w) - 1 PROVE l[k] = r[k]
  <2>1. l[k] = Tail(w)[k].batch
    BY <1>1, BatchesOfType
  <2>2. Tail(w)[k] = w[k + 1]
    BY <1>1, HeadTailProperties
  <2>3. r[k] = BatchesOf(w)[k + 1]
    BY <1>2, <1>3, <1>5, HeadTailProperties
  <2>4. k + 1 \in 1 .. Len(w)
    BY <1>1
  <2> QED
    BY <1>2, <2>1, <2>2, <2>3, <2>4
<1> HIDE DEF l, r
<1>7. l = r
    BY <1>4, <1>5, <1>6, SeqEqual
<1>8. Head(BatchesOf(w)) = Head(w).batch
    BY <1>1, <1>2, <1>3
<1> QED
    BY <1>3, <1>7, <1>8 DEF l, r

LEMMA ConcatTakes ==
    ASSUME NEW S, NEW a \in Seq(S), NEW b \in Seq(S), b # <<>>
    PROVE  Append(a, Head(b)) \o Tail(b) = a \o b
BY SMT

LEMMA ConcatConfirms ==
    ASSUME NEW S, NEW a \in Seq(S), NEW b \in Seq(S), a # <<>>
    PROVE  /\ Tail(a) \o b = Tail(a \o b)
           /\ (a \o b)[1] = Head(a)
           /\ a \o b # <<>>
BY SMT

LEMMA ConcatFlushes ==
    ASSUME NEW S, NEW a \in Seq(S), NEW b \in Seq(S), NEW e \in S
    PROVE  a \o Append(b, e) = Append(a \o b, e)
BY SMT

LEMMA FlightType ==
    ASSUME TypeOK
    PROVE  /\ Flight \in Seq(Batch)
           /\ Len(Flight) \in Nat
           /\ Len(window) \in Nat
           /\ Len(window) <= Len(Flight)
           /\ \A k \in 1 .. Len(Flight) :
                Flight[k].items \in Seq(Item) /\ Flight[k].maxBlock \in Nat
           /\ \A k \in 1 .. Len(window) : Flight[k] = window[k].batch
<1>1. window \in Seq(Flying) /\ queue \in Seq(Batch)
    BY DEF TypeOK
<1>2. /\ Flight \in Seq(Batch)
      /\ Len(Flight) = Len(window) + Len(queue)
      /\ \A k \in 1 .. Len(window) : Flight[k] = window[k].batch
  <2>1. /\ BatchesOf(window) \in Seq(Batch)
        /\ Len(BatchesOf(window)) = Len(window)
        /\ \A k \in 1 .. Len(window) : BatchesOf(window)[k] = window[k].batch
    BY <1>1, BatchesOfType
  <2> DEFINE b == BatchesOf(window)
  <2>2. Flight = b \o queue
    BY DEF Flight
  <2> HIDE DEF b
  <2>3. b \in Seq(Batch)
    BY <2>1 DEF b
  <2>4. /\ Flight \in Seq(Batch)
        /\ Len(Flight) = Len(b) + Len(queue)
        /\ \A k \in 1 .. Len(b) : Flight[k] = b[k]
    BY <1>1, <2>2, <2>3, ConcatSeq
  <2> QED
    BY <2>1, <2>4 DEF b
<1>3. \A k \in 1 .. Len(Flight) : Flight[k] \in Batch
    BY <1>2, SeqElement
<1> QED
    BY <1>1, <1>2, <1>3 DEF Batch

\* What a step does to the batches in flight.
LEMMA FlightSteps ==
    ASSUME TypeOK, [Next]_vars
    PROVE  \/ Flight' = Flight /\ batch' = batch
           \/ Flight' = Flight /\ ProcessBlock
           \/ Flush /\ Flight' = Append(Flight, batch) /\ batch' = EmptyBatch
           \/ /\ Confirm
              /\ batch' = batch
              /\ Flight # <<>>
              /\ Flight[1] = Head(window).batch
              /\ Flight' = Tail(Flight)
           \/ Flight' = <<>> /\ batch' = EmptyBatch /\ (Start \/ RunFails \/ Crash \/ CrashInPut)
<1> USE DEF Flight
<1>t. window \in Seq(Flying) /\ queue \in Seq(Batch) /\ batch \in Batch
    BY DEF TypeOK
<1>1. CASE Start \/ RunFails \/ Crash \/ CrashInPut
  <2>1. window' = <<>> /\ queue' = <<>> /\ batch' = EmptyBatch
    BY <1>1, Zenon DEF Start, RunFails, Crash, CrashInPut, Stop
  <2>2. BatchesOf(<<>>) = <<>>
    BY DEF BatchesOf
  <2>3. Flight' = <<>> \o <<>>
    BY <2>1, <2>2
  <2> QED
    BY <1>1, <2>1, <2>3
<1>2. CASE ProcessBlock
  <2>1. window' = window /\ queue' = queue
    BY <1>2, Zenon DEF ProcessBlock
  <2> QED
    BY <1>2, <2>1
<1>3. CASE Flush
  <2>1. window' = window /\ queue' = Append(queue, batch) /\ batch' = EmptyBatch
    BY <1>3, Zenon DEF Flush
  <2>2. BatchesOf(window) \in Seq(Batch)
    BY <1>t, BatchesOfType
  <2>3. Flight' = Append(Flight, batch)
    BY <1>t, <2>1, <2>2, ConcatFlushes
  <2> QED
    BY <1>3, <2>1, <2>3
<1>4. CASE Submit
  <2>1. /\ window' = Append(window, [batch |-> Head(queue), fate |-> "wire"])
        /\ queue' = Tail(queue) /\ queue # <<>> /\ batch' = batch
    BY <1>4, Zenon DEF Submit
  <2>2. Head(queue) \in Batch
    BY <1>t, <2>1, HeadTailProperties
  <2>3. [batch |-> Head(queue), fate |-> "wire"] \in Flying
    BY <2>2 DEF Flying
  <2>4. BatchesOf(window') = Append(BatchesOf(window), Head(queue))
    BY <1>t, <2>1, <2>3, BatchesOfAppend
  <2>5. BatchesOf(window) \in Seq(Batch)
    BY <1>t, BatchesOfType
  <2>6. Flight' = Flight
    BY <1>t, <2>1, <2>4, <2>5, ConcatTakes
  <2> QED
    BY <2>1, <2>6
<1>5. CASE Applying \/ Refusing
  <2>1. PICK k \in DOMAIN window : EsApply(k) \/ EsRefuse(k)
    BY <1>5, Zenon DEF Applying, Refusing
  <2>2. queue' = queue /\ batch' = batch
    BY <2>1, Zenon DEF EsApply, EsRefuse
  <2>3. /\ window' \in Seq(Flying)
        /\ Len(window') = Len(window)
        /\ \A n \in 1 .. Len(window) : window'[n].batch = window[n].batch
    <3>1. PICK fate \in {"wire", "applied", "failed", "refused"} :
            window' = WithFate(window, k, fate)
      BY <2>1, FateSteps
    <3>2. /\ WithFate(window, k, fate) \in Seq(Flying)
          /\ Len(WithFate(window, k, fate)) = Len(window)
          /\ \A n \in 1 .. Len(window) :
               WithFate(window, k, fate)[n].batch = window[n].batch
      BY FateTyped
    <3> QED
      BY <3>1, <3>2, Zenon
  <2>4. BatchesOf(window') = BatchesOf(window)
    BY <1>t, <2>3, SameBatches
  <2> QED
    BY <2>2, <2>4
<1>6. CASE Confirm
  <2>1. window' = Tail(window) /\ queue' = queue /\ batch' = batch /\ window # <<>>
    BY <1>6, Zenon DEF Confirm, HeadLanded
  <2>2. /\ BatchesOf(window) # <<>>
        /\ BatchesOf(window') = Tail(BatchesOf(window))
        /\ Head(BatchesOf(window)) = Head(window).batch
    BY <1>t, <2>1, BatchesOfTail
  <2>3. BatchesOf(window) \in Seq(Batch)
    BY <1>t, BatchesOfType
  <2>4. /\ Flight # <<>>
        /\ Flight[1] = Head(window).batch
        /\ Flight' = Tail(Flight)
    BY <1>t, <2>1, <2>2, <2>3, ConcatConfirms
  <2> QED
    BY <1>6, <2>1, <2>4
<1>7. CASE window' = window /\ queue' = queue /\ batch' = batch
    BY <1>7
<1>8. \/ Start \/ RunFails \/ Crash \/ CrashInPut
      \/ ProcessBlock \/ Flush \/ Submit \/ Applying \/ Refusing \/ Confirm
      \/ window' = window /\ queue' = queue /\ batch' = batch
    BY Zenon DEF Next, vars, run, Produce, Fork, StrayApply, StrayLost, LatePut
<1> QED
    BY <1>1, <1>2, <1>3, <1>4, <1>5, <1>6, <1>7, <1>8

LEMMA ListsTyped ==
    ASSUME TypeOK
    PROVE  /\ Lists \subseteq Seq(Item)
           /\ batch.items \in Seq(Item)
           /\ batch.maxBlock \in Nat
BY FlightType DEF Lists, TypeOK, Batch

\* A step makes no new list but the one the processor is filling.
LEMMA ListsSteps ==
    ASSUME TypeOK, [Next]_vars, NEW items \in Lists'
    PROVE  \/ items \in Lists
           \/ items = <<>>
           \/ ProcessBlock /\ items = batch.items \o BlockItems(next)
<1>e. EmptyBatch.items = <<>>
    BY DEF EmptyBatch
<1>1. CASE items = batch'.items
  <2>1. CASE ProcessBlock
    BY <1>1, <2>1 DEF ProcessBlock
  <2>2. batch' = batch \/ batch' = EmptyBatch \/ ProcessBlock
    BY FlightSteps
  <2> QED
    BY <1>1, <1>e, <2>1, <2>2 DEF Lists
<1>2. CASE \E k \in 1 .. Len(Flight') : items = Flight'[k].items
  <2>1. PICK k \in 1 .. Len(Flight') : items = Flight'[k].items
    BY <1>2
  <2>2. Flight \in Seq(Batch) /\ Len(Flight) \in Nat /\ batch \in Batch
    BY FlightType DEF TypeOK
  <2>3. CASE Flight' = Flight
    BY <2>1, <2>3 DEF Lists
  <2>4. CASE Flight' = Append(Flight, batch)
    <3>1. Flight'[k] = batch \/ (k \in 1 .. Len(Flight) /\ Flight'[k] = Flight[k])
      <4>1. /\ Len(Flight') = Len(Flight) + 1
            /\ \A i \in 1 .. Len(Flight) : Flight'[i] = Flight[i]
            /\ Flight'[Len(Flight) + 1] = batch
        BY <2>2, <2>4, AppendProperties
      <4>2. k \in 1 .. Len(Flight) \/ k = Len(Flight) + 1
        BY <2>2, <4>1
      <4> QED
        BY <4>1, <4>2
    <3> QED
      BY <2>1, <3>1 DEF Lists
  <2>5. CASE Flight # <<>> /\ Flight' = Tail(Flight)
    <3>1. k + 1 \in 1 .. Len(Flight) /\ Flight'[k] = Flight[k + 1]
      BY <2>1, <2>2, <2>5, HeadTailProperties
    <3> QED
      BY <2>1, <3>1 DEF Lists
  <2>6. CASE Flight' = <<>>
    BY <2>1, <2>6
  <2> QED
    BY <2>3, <2>4, <2>5, <2>6, FlightSteps
<1>3. CASE items \in stray'
  <2>1. CASE RunFails \/ Crash \/ CrashInPut
    <3>1. stray' = stray \cup {window[k].batch.items :
                                 k \in {n \in DOMAIN window : window[n].fate = "wire"}}
      BY <2>1, Zenon DEF RunFails, Crash, CrashInPut, Stop
    <3>2. CASE items \in stray
      BY <3>2 DEF Lists
    <3>3. CASE items \notin stray
      <4>1. PICK k \in DOMAIN window : items = window[k].batch.items
        BY <1>3, <3>1, <3>3
      <4>2. k \in 1 .. Len(Flight) /\ items = Flight[k].items
        BY <4>1, FlightType, WindowTyped
      <4> QED
        BY <4>2 DEF Lists
    <3> QED
      BY <3>2, <3>3
  <2>2. CASE stray' \subseteq stray
    BY <1>3, <2>2 DEF Lists
  <2>3. CASE StrayApply \/ StrayLost
    <3>1. stray' \subseteq stray
      BY <2>3 DEF StrayApply, StrayLost
    <3> QED
      BY <2>2, <3>1
  <2>4. stray' = stray \/ StrayApply \/ StrayLost \/ RunFails \/ Crash \/ CrashInPut
    BY Zenon DEF Next, vars, store, Produce, Fork, Start, ProcessBlock, Flush, Submit, Applying,
       Refusing, EsApply, EsRefuse, Confirm, LatePut
  <2> QED
    BY <2>1, <2>2, <2>3, <2>4
<1> QED
    BY <1>1, <1>2, <1>3 DEF Lists

-----------------------------------------------------------------------------
(* The documents over a step.                                                *)

\* e is what a request, or a part of it, makes of the documents d.
Touched(d, e, items) ==
    \A id \in Id : e[id] = d[id] \/ e[id] = BulkResult(d, items).docs[id]

LEMMA ItemTyped ==
    ASSUME NEW items \in Seq(Item), NEW n \in 1 .. Len(items)
    PROVE  /\ items[n] \in Item
           /\ items[n].id \in Id
           /\ items[n].op \in {"index", "delete"}
           /\ items[n].version \in Nat
           /\ items[n].value \in Value
           /\ items[n].value[1] \in Height
           /\ items[n].value[2] \in Branch
<1>1. items[n] \in Item
    BY SeqElement
<1> QED
    BY <1>1 DEF Item, ItemOf, Value

LEMMA TouchedIs ==
    ASSUME NEW d \in [Id -> DocOf(Value)], NEW e \in [Id -> DocOf(Value)],
           NEW items \in Seq(Item), Touched(d, e, items), NEW id \in Id
    PROVE  /\ e[id].version >= d[id].version
           /\ \/ e[id] = d[id]
              \/ \E n \in 1 .. Len(items) :
                    /\ items[n].id = id
                    /\ items[n].version > d[id].version
                    /\ e[id] = Leaves(items[n])
<1> DEFINE after == BulkResult(d, items).docs
<1>1. after \in [Id -> DocOf(Value)] /\ Merged(after, d, items, Len(items), Id)
    BY BulkMerges DEF Item
<1>2. e[id] = d[id] \/ e[id] = after[id]
    BY DEF Touched
<1> HIDE DEF after
<1>3. d[id].version \in Nat
    BY DEF DocOf
<1> QED
    BY <1>1, <1>2, <1>3 DEF Merged

LEMMA DocSteps ==
    ASSUME TypeOK, [Next]_vars
    PROVE  docs' = docs \/ \E items \in Lists : Touched(docs, docs', items)
<1>1. CASE Applying
  <2>1. PICK k \in DOMAIN window : EsApply(k)
    BY <1>1 DEF Applying
  <2>2. docs' = BulkResult(docs, window[k].batch.items).docs
    BY <2>1 DEF EsApply
  <2>3. window[k].batch.items \in Lists
    BY FlightType, WindowTyped DEF Lists
  <2> QED
    BY <2>2, <2>3 DEF Touched
<1>2. CASE Refusing
  <2>1. PICK k \in DOMAIN window : EsRefuse(k)
    BY <1>2 DEF Refusing
  <2>2. PICK refused :
          docs' = [id \in Id |-> IF id \in refused THEN docs[id]
                                 ELSE BulkResult(docs, window[k].batch.items).docs[id]]
    BY <2>1, Zenon DEF EsRefuse
  <2>3. window[k].batch.items \in Lists
    BY FlightType, WindowTyped DEF Lists
  <2>4. Touched(docs, docs', window[k].batch.items)
    BY <2>2 DEF Touched
  <2> QED
    BY <2>3, <2>4
<1>3. CASE StrayApply
  <2>1. PICK items \in stray : docs' = BulkResult(docs, items).docs
    BY <1>3 DEF StrayApply
  <2> QED
    BY <2>1 DEF Touched, Lists
<1>4. docs' = docs \/ Applying \/ Refusing \/ StrayApply
    BY Zenon DEF Next, vars, store, Produce, Fork, Start, ProcessBlock, Flush, Submit,
       Confirm, RunFails, Crash, CrashInPut, Stop, StrayLost, LatePut
<1> QED
    BY <1>1, <1>2, <1>3, <1>4

\* Elasticsearch never goes back to an older version.
LEMMA DocsGrow ==
    ASSUME TypeOK, [Next]_vars, NEW id \in Id
    PROVE  /\ docs[id].version \in Nat
           /\ docs'[id].version \in Nat
           /\ docs'[id].version >= docs[id].version
<1>1. docs \in [Id -> DocOf(Value)] /\ docs' \in [Id -> DocOf(Value)]
    BY TypeStep DEF TypeOK
<1>2. docs[id].version \in Nat /\ docs'[id].version \in Nat
    BY <1>1 DEF DocOf
<1>3. CASE docs' = docs
    BY <1>2, <1>3
<1>4. CASE \E items \in Lists : Touched(docs, docs', items)
  <2>1. PICK items \in Lists : Touched(docs, docs', items)
    BY <1>4
  <2>2. items \in Seq(Item)
    BY ListsTyped
  <2> QED
    BY <1>1, <1>2, <2>1, <2>2, TouchedIs
<1> QED
    BY <1>2, <1>3, <1>4, DocSteps

LEMMA LandedStays ==
    ASSUME TypeOK, [Next]_vars, NEW items \in Seq(Item), Landed(docs, items)
    PROVE  Landed(docs', items)
<1> SUFFICES ASSUME NEW n \in 1 .. Len(items)
             PROVE  docs'[items[n].id].version >= items[n].version
    BY DEF Landed
<1>1. items[n].id \in Id /\ items[n].version \in Nat
    BY ItemTyped
<1>2. docs[items[n].id].version >= items[n].version
    BY DEF Landed
<1> QED
    BY <1>1, <1>2, DocsGrow

-----------------------------------------------------------------------------
(* Each part of the invariant over a step.                                   *)

\* What ProcessBlock appends to the batch.
LEMMA ProcessedBlock ==
    ASSUME TypeOK, ProcessBlock
    PROVE  /\ next \in 1 .. Len(chain)
           /\ BlockItems(next) \in Seq(Item)
           /\ batch.items \in Seq(Item)
           /\ batch'.items = batch.items \o BlockItems(next)
           /\ next' = next + 1
<1>1. next \in 1 .. Len(chain)
    BY DEF ProcessBlock, TypeOK
<1>2. BlockItems(next) \in Seq(Item)
    BY <1>1, BlockShape DEF TypeOK
<1> QED
    BY <1>1, <1>2, ListsTyped DEF ProcessBlock

LEMMA BranchGrows ==
    ASSUME TypeOK, [Next]_vars
    PROVE  branch \in Nat /\ branch' \in Nat /\ branch <= branch'
<1>1. branch \in Nat
    BY DEF TypeOK, Branch
<1>2. branch' = branch \/ branch' = branch + 1
    BY NodeSteps DEF Produce, Fork
<1> QED
    BY <1>1, <1>2

LEMMA BlockRequest ==
    ASSUME TypeOK, Reach, NEW h \in 1 .. Len(chain)
    PROVE  Request(BlockItems(h), branch)
<1> DEFINE items == BlockItems(h)
<1>1. /\ items \in Seq(Item)
      /\ Len(items) \in 1 .. SeqSpan
      /\ h \in Height
      /\ \A k \in 1 .. Len(items) :
           /\ items[k].version = Version(h, k - 1)
           /\ items[k].value = <<h, chain[h].branch>>
           /\ k = 1 => items[k].op = "index" /\ items[k].id = BlockId(h)
           /\ k # 1 => items[k].id = Entity
    BY BlockShape DEF TypeOK
<1> HIDE DEF items
<1>2. chain[h].branch <= branch
    BY DEF Reach
<1>3. 1 \in 1 .. Len(items) /\ items[1].id = BlockId(h)
    BY <1>1, Span
<1> SUFFICES ASSUME NEW n \in 1 .. Len(items)
             PROVE  /\ items[n].version > 0
                    /\ items[n].value[2] <= branch
                    /\ items[n].id # Entity =>
                         items[n].op = "index" /\ items[n].id = BlockId(items[n].value[1])
                    /\ \E m \in 1 .. Len(items) : items[m].id = BlockId(items[n].value[1])
    BY DEF Request, items
<1>4. items[n].version > 0
  <2>1. items[n].version = Version(h, n - 1)
    BY <1>1
  <2>2. n - 1 \in Nat /\ h >= 1 /\ h \in Nat
    BY <1>1, IndexerAssumption DEF Height
  <2>3. Version(h, n - 1) \in Nat /\ Version(h, n - 1) >= 1
    BY <2>2, VersionBound
  <2> QED
    BY <2>1, <2>3
<1>5. items[n].value[1] = h /\ items[n].value[2] = chain[h].branch
    BY <1>1
<1>6. items[n].id # Entity => items[n].op = "index" /\ items[n].id = BlockId(h)
    BY <1>1
<1> QED
    BY <1>2, <1>3, <1>4, <1>5, <1>6

LEMMA RequestConcat ==
    ASSUME NEW a \in Seq(Item), NEW b \in Seq(Item), NEW br,
           Request(a, br), Request(b, br)
    PROVE  Request(a \o b, br)
<1> DEFINE c == a \o b
<1>1. Merges(c, a, b)
    BY ConcatElements
<1> HIDE DEF c
<1>2. ASSUME NEW s \in {a, b}, NEW i \in 1 .. Len(s), NEW j \in 1 .. Len(c), c[j] = s[i]
      PROVE  /\ c[j].version > 0
             /\ c[j].value[2] <= br
             /\ c[j].id # Entity =>
                  c[j].op = "index" /\ c[j].id = BlockId(c[j].value[1])
             /\ \E m \in 1 .. Len(c) : c[m].id = BlockId(c[j].value[1])
  <2>1. /\ s[i].version > 0
        /\ s[i].value[2] <= br
        /\ s[i].id # Entity =>
             s[i].op = "index" /\ s[i].id = BlockId(s[i].value[1])
        /\ \E m \in 1 .. Len(s) : s[m].id = BlockId(s[i].value[1])
    <3>1. Request(s, br)
      OBVIOUS
    <3> QED
      BY <3>1 DEF Request
  <2>2. PICK m \in 1 .. Len(s) : s[m].id = BlockId(s[i].value[1])
    BY <2>1
  <2>3. PICK l \in 1 .. Len(c) : c[l] = s[m]
    BY <1>1 DEF Merges
  <2> QED
    BY <1>2, <2>1, <2>2, <2>3
<1>3. ASSUME NEW j \in 1 .. Len(c)
      PROVE  /\ c[j].version > 0
             /\ c[j].value[2] <= br
             /\ c[j].id # Entity =>
                  c[j].op = "index" /\ c[j].id = BlockId(c[j].value[1])
             /\ \E m \in 1 .. Len(c) : c[m].id = BlockId(c[j].value[1])
  <2>1. PICK s \in {a, b} : \E i \in 1 .. Len(s) : c[j] = s[i]
    BY <1>1 DEF Merges
  <2> QED
    BY <1>2, <2>1
<1> QED
    BY <1>3 DEF Request, c

LEMMA RequestsStep ==
    TypeOK /\ Requests /\ Reach /\ [Next]_vars => Requests'
<1> SUFFICES ASSUME TypeOK, Requests, Reach, [Next]_vars, NEW items \in Lists'
             PROVE  Request(items, branch')
    BY DEF Requests
<1>1. CASE items \in Lists
  <2>1. Request(items, branch)
    BY <1>1 DEF Requests
  <2>2. items \in Seq(Item)
    BY <1>1, ListsTyped
  <2>3. \A n \in 1 .. Len(items) : items[n].value[2] \in Nat
    BY <2>2, ItemTyped DEF Branch
  <2>4. \A n \in 1 .. Len(items) : items[n].value[2] <= branch'
    BY <2>1, <2>3, BranchGrows DEF Request
  <2> QED
    BY <2>1, <2>4 DEF Request
<1>2. CASE items = <<>>
    BY <1>2 DEF Request
<1>3. CASE ProcessBlock /\ items = batch.items \o BlockItems(next)
  <2>1. next \in 1 .. Len(chain) /\ BlockItems(next) \in Seq(Item) /\ batch.items \in Seq(Item)
    BY <1>3, ProcessedBlock
  <2>2. Request(BlockItems(next), branch)
    BY <2>1, BlockRequest
  <2>3. Request(batch.items, branch)
    BY DEF Requests, Lists
  <2>4. branch' = branch
    BY <1>3 DEF ProcessBlock, node
  <2> QED
    BY <1>3, <2>1, <2>2, <2>3, <2>4, RequestConcat
<1> QED
    BY <1>1, <1>2, <1>3, ListsSteps

LEMMA StoredStep ==
    TypeOK /\ Requests /\ Stored /\ [Next]_vars => Stored'
<1> SUFFICES ASSUME TypeOK, Requests, Stored, [Next]_vars, NEW id \in Id
             PROVE  /\ docs'[id].version = 0 => docs'[id] = Absent
                    /\ docs'[id].version # 0 /\ id # Entity => Live(docs'[id])
    BY DEF Stored
<1>1. CASE docs'[id] = docs[id]
    BY <1>1 DEF Stored
<1>2. CASE docs'[id] # docs[id]
  <2>1. PICK items \in Lists : Touched(docs, docs', items)
    BY <1>2, DocSteps
  <2>2. items \in Seq(Item) /\ docs \in [Id -> DocOf(Value)] /\ docs' \in [Id -> DocOf(Value)]
    BY ListsTyped, TypeStep DEF TypeOK
  <2>3. PICK n \in 1 .. Len(items) : items[n].id = id /\ docs'[id] = Leaves(items[n])
    BY <1>2, <2>1, <2>2, TouchedIs
  <2>4. /\ items[n].version > 0
        /\ items[n].id # Entity => items[n].op = "index"
    BY DEF Requests, Request
  <2>5. items[n].version \in Nat /\ items[n].value \in Value
    BY <2>2, ItemTyped
  <2>6. docs'[id].version # 0
    BY <2>3, <2>4, <2>5 DEF Leaves
  <2>7. ASSUME id # Entity PROVE Live(docs'[id])
    <3>1. docs'[id].value = items[n].value
      BY <2>3, <2>4, <2>7 DEF Leaves
    <3> QED
      BY <2>5, <3>1, NoValueAssumption DEF Live, Value
  <2> QED
    BY <2>6, <2>7
<1> QED
    BY <1>1, <1>2

\* What the head of the window is when its request has landed.
LEMMA HeadFacts ==
    ASSUME TypeOK, Requests, Fates, HeadLanded
    PROVE  /\ Head(window).batch.items \in Seq(Item)
           /\ Head(window).batch.items \in Lists
           /\ Request(Head(window).batch.items, branch)
           /\ Landed(docs, Head(window).batch.items)
           /\ 1 \in 1 .. Len(Flight)
           /\ Flight[1] = Head(window).batch
           /\ \A c \in HeadBlocks : \E n \in 1 .. Len(Head(window).batch.items) :
                c = Head(window).batch.items[n].value
           /\ \A n \in 1 .. Len(Head(window).batch.items) :
                Head(window).batch.items[n].op = "index"
                => Head(window).batch.items[n].value \in HeadBlocks
<1> DEFINE items == Head(window).batch.items
<1>1. window # <<>> /\ Head(window).fate = "applied"
    BY DEF HeadLanded
<1>2. Head(window) = window[1] /\ 1 \in 1 .. Len(window) /\ items \in Seq(Item)
    BY <1>1, HeadTyped
<1>3. Landed(docs, items)
    BY <1>1, <1>2 DEF Fates
<1>4. 1 \in 1 .. Len(Flight) /\ Flight[1] = Head(window).batch
    BY <1>2, FlightType
<1>5. items \in Lists
    BY <1>4 DEF Lists
<1>6. Request(items, branch)
    BY <1>5 DEF Requests
<1>7. ToSet(items) = {items[n] : n \in 1 .. Len(items)}
    BY <1>2 DEF ToSet
<1>8. HeadBlocks = {item.value : item \in {i \in ToSet(items) : i.op = "index"}}
    BY DEF HeadBlocks
<1> HIDE DEF items
<1>9. \A c \in HeadBlocks : \E n \in 1 .. Len(items) : c = items[n].value
    BY <1>7, <1>8
<1>10. \A n \in 1 .. Len(items) : items[n].op = "index" => items[n].value \in HeadBlocks
    BY <1>7, <1>8
<1> QED
    BY <1>2, <1>3, <1>4, <1>5, <1>6, <1>9, <1>10 DEF items

LEMMA ConfirmedSteps ==
    ASSUME TypeOK, [Next]_vars
    PROVE  \/ confirmed' = confirmed
           \/ /\ Confirm \/ CrashInPut
              /\ HeadLanded
              /\ confirmed' = confirmed \cup HeadBlocks
BY Zenon DEF Next, vars, Produce, Fork, Start, ProcessBlock, Flush, Submit, Applying, Refusing,
   EsApply, EsRefuse, Confirm, RunFails, Crash, CrashInPut, StrayApply, StrayLost, LatePut

LEMMA FatesStep ==
    TypeOK /\ Fates /\ [Next]_vars => Fates'
<1> SUFFICES ASSUME TypeOK, Fates, [Next]_vars, NEW k \in 1 .. Len(window'),
                    window'[k].fate = "applied"
             PROVE  Landed(docs', window'[k].batch.items)
    BY DEF Fates
<1>1. ASSUME NEW n \in 1 .. Len(window), window'[k] = window[n]
      PROVE  Landed(docs', window'[k].batch.items)
  <2>1. window[n].batch.items \in Seq(Item)
    BY WindowTyped DEF TypeOK
  <2>2. Landed(docs, window[n].batch.items)
    BY <1>1 DEF Fates
  <2> QED
    BY <1>1, <2>1, <2>2, LandedStays
<1>2. CASE window' = window
    BY <1>1, <1>2
<1>3. CASE window' = <<>>
    BY <1>3
<1>4. CASE Submit
  <2>1. /\ window' = Append(window, [batch |-> Head(queue), fate |-> "wire"])
        /\ queue # <<>>
    BY <1>4, Zenon DEF Submit
  <2>2. Head(queue) \in Batch
    BY <2>1, HeadTailProperties DEF TypeOK
  <2>3. [batch |-> Head(queue), fate |-> "wire"] \in Flying
    BY <2>2 DEF Flying
  <2>4. /\ Len(window') = Len(window) + 1
        /\ \A i \in 1 .. Len(window) : window'[i] = window[i]
        /\ window'[Len(window) + 1].fate = "wire"
        /\ Len(window) \in Nat
    BY <2>1, <2>3, AppendProperties DEF TypeOK
  <2>5. k \in 1 .. Len(window) \/ k = Len(window) + 1
    BY <2>4
  <2> QED
    BY <1>1, <2>4, <2>5
<1>5. CASE Applying \/ Refusing
  <2>1. PICK n \in DOMAIN window : EsApply(n) \/ EsRefuse(n)
    BY <1>5, Zenon DEF Applying, Refusing
  <2>2. PICK fate \in {"wire", "applied", "failed", "refused"} :
          /\ window' = WithFate(window, n, fate)
          /\ fate = "applied" => EsApply(n)
    BY <2>1, FateSteps
  <2>3. /\ Len(window') = Len(window)
        /\ \A i \in 1 .. Len(window) : window'[i].batch = window[i].batch
        /\ \A i \in 1 .. Len(window) : i # n => window'[i] = window[i]
        /\ window'[n].fate = fate
    <3>1. /\ Len(WithFate(window, n, fate)) = Len(window)
          /\ \A i \in 1 .. Len(window) : WithFate(window, n, fate)[i].batch = window[i].batch
          /\ \A i \in 1 .. Len(window) : i # n => WithFate(window, n, fate)[i] = window[i]
          /\ WithFate(window, n, fate)[n].fate = fate
      BY FateTyped
    <3> QED
      BY <2>2, <3>1, Zenon
  <2>4. CASE k # n
    BY <1>1, <2>3, <2>4
  <2>5. CASE k = n
    <3>1. EsApply(n)
      BY <2>2, <2>3, <2>5
    <3> DEFINE items == window[n].batch.items
    <3>2. docs' = BulkResult(docs, items).docs
      BY <3>1 DEF EsApply
    <3>3. items \in Seq(Item)
      BY WindowTyped
    <3>4. Merged(docs', docs, items, Len(items), Id)
      BY <3>2, <3>3, BulkMerges DEF Item, TypeOK
    <3>5. Landed(docs', items)
      BY <3>4 DEF Merged, Landed
    <3>6. window'[k].batch.items = items
      BY <2>3, <2>5
    <3> QED
      BY <3>5, <3>6
  <2> QED
    BY <2>4, <2>5
<1>6. CASE Confirm
  <2>1. window' = Tail(window) /\ window # <<>>
    BY <1>6, Zenon DEF Confirm, HeadLanded
  <2>2. k + 1 \in 1 .. Len(window) /\ window'[k] = window[k + 1]
    BY <2>1, HeadTailProperties DEF TypeOK
  <2> QED
    BY <1>1, <2>2
<1>7. \/ window' = window \/ window' = <<>>
      \/ Submit \/ Applying \/ Refusing \/ Confirm
    BY Zenon DEF Next, vars, run, Produce, Fork, Start, ProcessBlock, Flush, RunFails, Crash,
       CrashInPut, Stop, StrayApply, StrayLost, LatePut
<1> QED
    BY <1>2, <1>3, <1>4, <1>5, <1>6, <1>7

LEMMA ConfirmationsStep ==
    TypeOK /\ Requests /\ Fates /\ Confirmations /\ [Next]_vars => Confirmations'
<1> SUFFICES ASSUME TypeOK, Requests, Fates, Confirmations, [Next]_vars, NEW c \in confirmed'
             PROVE  c[2] <= branch' /\ docs'[BlockId(c[1])].version # 0
    BY DEF Confirmations
<1>1. c \in Value /\ c[1] \in Height /\ c[2] \in Nat
  <2>1. confirmed' \subseteq Value
    BY TypeStep DEF TypeOK
  <2> QED
    BY <2>1 DEF Value, Branch
<1>2. BlockId(c[1]) \in Id
    BY <1>1, ItemIds
<1>3. c[2] <= branch /\ docs[BlockId(c[1])].version # 0
  <2>1. CASE c \in confirmed
    BY <2>1 DEF Confirmations
  <2>2. CASE c \notin confirmed
    <3> DEFINE items == Head(window).batch.items
    <3>1. HeadLanded /\ c \in HeadBlocks
      BY <2>2, ConfirmedSteps
    <3>2. items \in Seq(Item) /\ Request(items, branch) /\ Landed(docs, items)
      BY <3>1, HeadFacts
    <3>3. PICK n \in 1 .. Len(items) : c = items[n].value
      BY <3>1, HeadFacts
    <3> HIDE DEF items
    <3>4. c[2] <= branch
      BY <3>2, <3>3 DEF Request
    <3>5. PICK m \in 1 .. Len(items) : items[m].id = BlockId(c[1])
      BY <3>2, <3>3 DEF Request
    <3>6. items[m].version > 0 /\ docs[items[m].id].version >= items[m].version
      BY <3>2 DEF Request, Landed
    <3>7. items[m].version \in Nat /\ docs[items[m].id].version \in Nat
      BY <1>2, <3>2, <3>5, ItemTyped, DocsGrow
    <3> QED
      BY <3>4, <3>5, <3>6, <3>7
  <2> QED
    BY <2>1, <2>2
<1>4. c[2] <= branch'
    BY <1>1, <1>3, BranchGrows
<1>5. docs'[BlockId(c[1])].version # 0
    BY <1>2, <1>3, DocsGrow
<1> QED
    BY <1>4, <1>5

\* A run starts at Floor or above.
LEMMA StartsAboveFloor ==
    ASSUME TypeOK
    PROVE  Resolved.block >= Floor
<1>1. IndexedBlocks # {} => Max(IndexedBlocks) \in Nat
    BY MaxOfHeights DEF IndexedBlocks, Height
<1> QED
    BY <1>1, FloorIs, IndexerAssumption DEF Resolved, TypeOK

LEMMA ReachStep ==
    TypeOK /\ Reach /\ [Next]_vars => Reach'
<1> SUFFICES ASSUME TypeOK, Reach, [Next]_vars PROVE Reach'
    OBVIOUS
<1>n. next \in Nat /\ Len(chain) \in Nat
    BY DEF TypeOK
<1>r. up => next >= Floor
    BY DEF Reach
<1>1. ASSUME up' PROVE next' >= Floor
  <2>1. CASE Start
    BY <2>1, StartsAboveFloor DEF Start
  <2>2. CASE ~Start
    <3>1. \/ next' = next /\ up
          \/ next' = next + 1 /\ up
          \/ next' = Len(chain) + 1 /\ Len(chain) + 1 >= Floor
      BY <1>1, <2>2, Zenon DEF Next, vars, run, Produce, Fork, ProcessBlock, Flush, Submit,
         Applying, Refusing, EsApply, EsRefuse, Confirm, RunFails, Crash, CrashInPut, Stop,
         StrayApply, StrayLost, LatePut
    <3> QED
      BY <1>n, <1>r, <3>1, FloorIs
  <2> QED
    BY <2>1, <2>2
<1>2. ASSUME NEW h \in 1 .. Len(chain') PROVE chain'[h].branch <= branch'
  <2>1. \A g \in 1 .. Len(chain) : chain[g].branch <= branch /\ chain[g].branch \in Nat
    <3> SUFFICES ASSUME NEW g \in 1 .. Len(chain)
                 PROVE  chain[g].branch <= branch /\ chain[g].branch \in Nat
      OBVIOUS
    <3>1. chain[g] \in [branch : Branch, ops : Contents]
      BY SeqElement DEF TypeOK
    <3> QED
      BY <3>1 DEF Reach, Branch
  <2>2. branch \in Nat /\ branch' \in Nat /\ branch <= branch'
    BY BranchGrows
  <2>3. (h \in 1 .. Len(chain) /\ chain'[h] = chain[h]) \/ chain'[h].branch = branch
    <3>1. CASE Produce
      <4>1. PICK ops \in Contents : chain' = Append(chain, [branch |-> branch, ops |-> ops])
        BY <3>1 DEF Produce
      <4>2. [branch |-> branch, ops |-> ops] \in [branch : Branch, ops : Contents]
        BY DEF TypeOK
      <4>3. /\ Len(chain') = Len(chain) + 1
            /\ \A i \in 1 .. Len(chain) : chain'[i] = chain[i]
            /\ chain'[Len(chain) + 1] = [branch |-> branch, ops |-> ops]
        BY <4>1, <4>2, AppendProperties DEF TypeOK
      <4>4. h \in 1 .. Len(chain) \/ h = Len(chain) + 1
        BY <1>n, <4>3
      <4> QED
        BY <4>3, <4>4
    <3>2. CASE Fork
      <4>1. PICK g \in 1 .. Len(chain) : chain' = SubSeq(chain, 1, g - 1)
        BY <3>2 DEF Fork
      <4>2. chain \in Seq([branch : Branch, ops : Contents]) /\ g - 1 \in 0 .. Len(chain)
        BY <1>n DEF TypeOK
      <4>3. Len(chain') = g - 1 /\ \A i \in 1 .. g - 1 : chain'[i] = chain[i]
        BY <4>1, <4>2, Prefix
      <4> QED
        BY <1>n, <4>3
    <3> QED
      BY <3>1, <3>2, NodeSteps
  <2> QED
    BY <2>1, <2>2, <2>3
<1> QED
    BY <1>1, <1>2 DEF Reach

LEMMA DoneGrows ==
    ASSUME TypeOK, [Next]_vars, NEW h, Done(confirmed, h)
    PROVE  Done(confirmed', h)
BY ConfirmedSteps DEF Done

\* A confirmed batch leaves its blocks done.
LEMMA HeadDone ==
    ASSUME TypeOK, Requests, Fates, HeadLanded, confirmed' = confirmed \cup HeadBlocks,
           NEW h, Carries(Head(window).batch.items, h)
    PROVE  Done(confirmed', h)
<1> DEFINE items == Head(window).batch.items
<1>1. /\ Request(items, branch)
      /\ \A n \in 1 .. Len(items) : items[n].op = "index" => items[n].value \in HeadBlocks
    BY HeadFacts
<1>2. PICK n \in 1 .. Len(items) : items[n].id = BlockId(h)
    BY DEF Carries
<1> HIDE DEF items
<1>3. items[n].op = "index" /\ items[n].id = BlockId(items[n].value[1])
    BY <1>1, <1>2, ItemIds DEF Request
<1>4. items[n].value[1] = h
    BY <1>2, <1>3, ItemIds
<1>5. items[n].value \in confirmed'
    BY <1>1, <1>3
<1> QED
    BY <1>4, <1>5 DEF Done

\* ... and everything at or below its last block.
LEMMA HeadDoneUpTo ==
    ASSUME TypeOK, Requests, Fates, HeadLanded, [Next]_vars,
           confirmed' = confirmed \cup HeadBlocks, InOrder(confirmed, Flight)
    PROVE  DoneUpTo(confirmed', Head(window).batch.maxBlock)
<1> SUFFICES ASSUME NEW h \in Floor .. Head(window).batch.maxBlock
             PROVE  Done(confirmed', h)
    BY DEF DoneUpTo
<1>1. 1 \in 1 .. Len(Flight) /\ Flight[1] = Head(window).batch
    BY HeadFacts
<1>2. Done(confirmed, h) \/ \E j \in 1 .. 1 : Carries(Flight[j].items, h)
    BY <1>1 DEF InOrder
<1>3. Done(confirmed, h) \/ Carries(Head(window).batch.items, h)
  <2>1. \A j \in 1 .. 1 : j = 1
    OBVIOUS
  <2> QED
    BY <1>1, <1>2, <2>1
<1> QED
    BY <1>3, DoneGrows, HeadDone

LEMMA ConfirmsHead ==
    ASSUME Confirm \/ CrashInPut
    PROVE  HeadLanded /\ confirmed' = confirmed \cup HeadBlocks
BY Zenon DEF Confirm, CrashInPut

LEMMA CarriesConcat ==
    ASSUME NEW a \in Seq(Item), NEW b \in Seq(Item), NEW h
    PROVE  Carries(a \o b, h) <=> Carries(a, h) \/ Carries(b, h)
<1> DEFINE c == a \o b
<1>1. Merges(c, a, b)
    BY ConcatElements
<1> HIDE DEF c
<1>2. ASSUME Carries(c, h) PROVE Carries(a, h) \/ Carries(b, h)
  <2>1. PICK j \in 1 .. Len(c) : c[j].id = BlockId(h)
    BY <1>2 DEF Carries
  <2>2. \/ \E i \in 1 .. Len(a) : c[j] = a[i]
        \/ \E i \in 1 .. Len(b) : c[j] = b[i]
    BY <1>1 DEF Merges
  <2> QED
    BY <2>1, <2>2 DEF Carries
<1>3. ASSUME NEW s \in {a, b}, Carries(s, h) PROVE Carries(c, h)
  <2>1. PICK n \in 1 .. Len(s) : s[n].id = BlockId(h)
    BY <1>3 DEF Carries
  <2>2. PICK m \in 1 .. Len(c) : c[m] = s[n]
    BY <1>1 DEF Merges
  <2> QED
    BY <2>1, <2>2 DEF Carries
<1> QED
    BY <1>2, <1>3 DEF c

\* While a run goes on, no block gets lost between the processor and the
\* confirmed.
LEMMA HeldStays ==
    ASSUME TypeOK, Requests, Fates, [Next]_vars,
           ~(Start \/ RunFails \/ Crash \/ CrashInPut),
           NEW h, Held(confirmed, Flight, batch.items, h)
    PROVE  Held(confirmed', Flight', batch'.items, h)
<1>1. CASE Done(confirmed, h)
    BY <1>1, DoneGrows DEF Held
<1>2. CASE Carries(batch.items, h)
  <2>1. CASE batch' = batch
    BY <1>2, <2>1 DEF Held
  <2>2. CASE ProcessBlock
    <3>1. /\ BlockItems(next) \in Seq(Item)
          /\ batch.items \in Seq(Item)
          /\ batch'.items = batch.items \o BlockItems(next)
      BY <2>2, ProcessedBlock
    <3>2. Carries(batch'.items, h)
      BY <1>2, <3>1, CarriesConcat
    <3> QED
      BY <3>2 DEF Held
  <2>3. CASE Flight' = Append(Flight, batch)
    <3>1. Len(Flight) + 1 \in 1 .. Len(Flight') /\ Flight'[Len(Flight) + 1] = batch
      <4>1. Flight \in Seq(Batch) /\ batch \in Batch /\ Len(Flight) \in Nat
        BY FlightType DEF TypeOK
      <4> QED
        BY <2>3, <4>1, AppendProperties
    <3> QED
      BY <1>2, <3>1 DEF Held
  <2> QED
    BY <2>1, <2>2, <2>3, FlightSteps
<1>3. CASE \E j \in 1 .. Len(Flight) : Carries(Flight[j].items, h)
  <2>0. PICK j \in 1 .. Len(Flight) : Carries(Flight[j].items, h)
    BY <1>3
  <2>t. Flight \in Seq(Batch) /\ batch \in Batch /\ Len(Flight) \in Nat
    BY FlightType DEF TypeOK
  <2>1. CASE Flight' = Flight
    BY <2>0, <2>1 DEF Held
  <2>2. CASE Flight' = Append(Flight, batch)
    <3>1. j \in 1 .. Len(Flight') /\ Flight'[j] = Flight[j]
      BY <2>2, <2>t, AppendProperties
    <3> QED
      BY <2>0, <3>1 DEF Held
  <2>3. CASE Confirm /\ Flight # <<>> /\ Flight[1] = Head(window).batch /\ Flight' = Tail(Flight)
    <3>1. CASE j = 1
      <4>1. HeadLanded /\ confirmed' = confirmed \cup HeadBlocks
        BY <2>3, ConfirmsHead
      <4>2. Carries(Head(window).batch.items, h)
        BY <2>0, <2>3, <3>1
      <4>3. Done(confirmed', h)
        BY <4>1, <4>2, HeadDone
      <4> QED
        BY <4>3 DEF Held
    <3>2. CASE j # 1
      <4>1. j - 1 \in 1 .. Len(Flight') /\ Flight'[j - 1] = Flight[j]
        BY <2>3, <2>t, <3>2, HeadTailProperties
      <4> QED
        BY <2>0, <4>1 DEF Held
    <3> QED
      BY <3>1, <3>2
  <2> QED
    BY <2>1, <2>2, <2>3, FlightSteps
<1> QED
    BY <1>1, <1>2, <1>3 DEF Held

LEMMA InOrderStep ==
    ASSUME TypeOK, Requests, Fates, [Next]_vars, InOrder(confirmed, Flight),
           \A h \in Floor .. batch.maxBlock : Held(confirmed, Flight, batch.items, h)
    PROVE  InOrder(confirmed', Flight')
<1> SUFFICES ASSUME NEW k \in 1 .. Len(Flight'), NEW h \in Floor .. Flight'[k].maxBlock
             PROVE  Done(confirmed', h) \/ \E j \in 1 .. k : Carries(Flight'[j].items, h)
    BY DEF InOrder
<1>t. Flight \in Seq(Batch) /\ batch \in Batch /\ Len(Flight) \in Nat
    BY FlightType DEF TypeOK
<1>1. CASE Flight' = Flight
    BY <1>1, DoneGrows DEF InOrder
<1>2. CASE Flight' = Append(Flight, batch)
  <2>1. /\ Len(Flight') = Len(Flight) + 1
        /\ \A i \in 1 .. Len(Flight) : Flight'[i] = Flight[i]
        /\ Flight'[Len(Flight) + 1] = batch
    BY <1>2, <1>t, AppendProperties
  <2>2. CASE k \in 1 .. Len(Flight)
    <3>1. \A j \in 1 .. k : Flight'[j] = Flight[j]
      BY <1>t, <2>1, <2>2
    <3>2. h \in Floor .. Flight[k].maxBlock
      BY <2>1, <2>2
    <3>3. Done(confirmed, h) \/ \E j \in 1 .. k : Carries(Flight[j].items, h)
      BY <2>2, <3>2 DEF InOrder
    <3> QED
      BY <3>1, <3>3, DoneGrows
  <2>3. CASE k = Len(Flight) + 1
    <3>1. Held(confirmed, Flight, batch.items, h)
      BY <2>1, <2>3
    <3>2. CASE Carries(batch.items, h)
      <4>1. k \in 1 .. k /\ Flight'[k] = batch
        BY <1>t, <2>1, <2>3
      <4> QED
        BY <3>2, <4>1
    <3>3. CASE \E j \in 1 .. Len(Flight) : Carries(Flight[j].items, h)
      <4>1. PICK j \in 1 .. Len(Flight) : Carries(Flight[j].items, h)
        BY <3>3
      <4>2. j \in 1 .. k /\ Flight'[j] = Flight[j]
        BY <1>t, <2>1, <2>3
      <4> QED
        BY <4>1, <4>2
    <3> QED
      BY <3>1, <3>2, <3>3, DoneGrows DEF Held
  <2> QED
    BY <1>t, <2>1, <2>2, <2>3
<1>3. CASE Confirm /\ Flight # <<>> /\ Flight[1] = Head(window).batch /\ Flight' = Tail(Flight)
  <2>1. k + 1 \in 1 .. Len(Flight) /\ \A i \in 1 .. Len(Flight') : Flight'[i] = Flight[i + 1]
    BY <1>3, <1>t, HeadTailProperties
  <2>2. h \in Floor .. Flight[k + 1].maxBlock
    BY <2>1
  <2>3. Done(confirmed, h) \/ \E j \in 1 .. k + 1 : Carries(Flight[j].items, h)
    BY <2>1, <2>2 DEF InOrder
  <2>4. CASE Done(confirmed, h)
    BY <2>4, DoneGrows
  <2>5. CASE \E j \in 1 .. k + 1 : Carries(Flight[j].items, h)
    <3>1. PICK j \in 1 .. k + 1 : Carries(Flight[j].items, h)
      BY <2>5
    <3>2. CASE j = 1
      <4>1. HeadLanded /\ confirmed' = confirmed \cup HeadBlocks
        BY <1>3, ConfirmsHead
      <4>2. Carries(Head(window).batch.items, h)
        BY <1>3, <3>1, <3>2
      <4> QED
        BY <4>1, <4>2, HeadDone
    <3>3. CASE j # 1
      <4>1. j - 1 \in 1 .. k /\ j - 1 \in 1 .. Len(Flight') /\ (j - 1) + 1 = j
        BY <1>t, <3>3
      <4>2. Flight'[j - 1] = Flight[j]
        BY <2>1, <4>1
      <4> QED
        BY <3>1, <4>1, <4>2
    <3> QED
      BY <3>2, <3>3
  <2> QED
    BY <2>3, <2>4, <2>5
<1>4. CASE Flight' = <<>>
    BY <1>4
<1> QED
    BY <1>1, <1>2, <1>3, <1>4, FlightSteps

LEMMA FellBackSteps ==
    ASSUME [Next]_vars, ~fellBack'
    PROVE  ~fellBack /\ (Start => Resolved.source # "index")
<1>1. CASE Start
  <2>1. fellBack' = (fellBack \/ Resolved.source = "index")
    BY <1>1, Zenon DEF Start
  <2>2. ~(fellBack \/ Resolved.source = "index")
    BY <2>1
  <2> QED
    BY <2>2, Zenon
<1>2. CASE ~Start
  <2>1. fellBack' = fellBack
    BY <1>2, Zenon DEF Next, vars, run, origin, Produce, Fork, ProcessBlock, Flush, Submit,
       Applying, Refusing, EsApply, EsRefuse, Confirm, RunFails, Crash, CrashInPut, Stop,
       StrayApply, StrayLost, LatePut
  <2> QED
    BY <1>2, <2>1, Zenon
<1> QED
    BY <1>1, <1>2

LEMMA CoveredStep ==
    TypeOK /\ Requests /\ Fates /\ Covered /\ [Next]_vars => Covered'
<1> SUFFICES ASSUME TypeOK, Requests, Fates, Covered, [Next]_vars, ~fellBack'
             PROVE  /\ DoneUpTo(confirmed', progress')
                    /\ \A b \in latePuts' : DoneUpTo(confirmed', b)
                    /\ InOrder(confirmed', Flight')
                    /\ \A h \in Floor .. batch'.maxBlock :
                         Held(confirmed', Flight', batch'.items, h)
                    /\ \A h \in Floor .. next' - 1 :
                         Held(confirmed', Flight', batch'.items, h)
    BY Zenon DEF Covered
<1>0. ~fellBack /\ (Start => Resolved.source # "index")
    BY FellBackSteps
<1>c. /\ DoneUpTo(confirmed, progress)
      /\ \A b \in latePuts : DoneUpTo(confirmed, b)
      /\ InOrder(confirmed, Flight)
      /\ \A h \in Floor .. batch.maxBlock : Held(confirmed, Flight, batch.items, h)
      /\ \A h \in Floor .. next - 1 : Held(confirmed, Flight, batch.items, h)
    BY <1>0, Zenon DEF Covered
<1>n. next \in Nat /\ batch.maxBlock \in Nat /\ Floor \in Nat /\ Floor >= 1 /\ progress \in Nat
    BY ListsTyped, FloorIs DEF TypeOK
<1>g. \A b : DoneUpTo(confirmed, b) => DoneUpTo(confirmed', b)
    BY DoneGrows DEF DoneUpTo
<1>1. DoneUpTo(confirmed', progress')
  <2>1. CASE progress' = progress
    BY <1>c, <1>g, <2>1
  <2>2. CASE Confirm /\ progress' = Head(window).batch.maxBlock
    BY <1>c, <2>2, ConfirmsHead, HeadDoneUpTo
  <2>3. CASE progress' \in latePuts
    BY <1>c, <1>g, <2>3
  <2>4. progress' \in latePuts \/ progress' = progress \/ ~LatePut
    BY DEF LatePut
  <2>5. \/ progress' = progress
        \/ Confirm /\ progress' = Head(window).batch.maxBlock
        \/ LatePut
    BY Zenon DEF Next, vars, store, Produce, Fork, Start, ProcessBlock, Flush, Submit, Applying,
       Refusing, EsApply, EsRefuse, Confirm, RunFails, Crash, CrashInPut, Stop, StrayApply,
       StrayLost
  <2> QED
    BY <2>1, <2>2, <2>3, <2>4, <2>5
<1>2. ASSUME NEW b \in latePuts' PROVE DoneUpTo(confirmed', b)
  <2>1. CASE b \in latePuts
    BY <1>c, <1>g, <2>1
  <2>2. CASE CrashInPut /\ b = Head(window).batch.maxBlock
    BY <1>c, <2>2, ConfirmsHead, HeadDoneUpTo
  <2>3. CASE LatePut
    <3>1. latePuts' \subseteq latePuts
      BY <2>3 DEF LatePut
    <3> QED
      BY <2>1, <3>1
  <2>4. CASE CrashInPut
    <3>1. latePuts' = latePuts \cup {Head(window).batch.maxBlock}
      BY <2>4, Zenon DEF CrashInPut
    <3> QED
      BY <2>1, <2>2, <2>4, <3>1
  <2>5. latePuts' = latePuts \/ LatePut \/ CrashInPut
    BY Zenon DEF Next, vars, store, Produce, Fork, Start, ProcessBlock, Flush, Submit, Applying,
       Refusing, EsApply, EsRefuse, Confirm, RunFails, Crash, StrayApply, StrayLost
  <2> QED
    BY <2>1, <2>3, <2>4, <2>5
<1>3. InOrder(confirmed', Flight')
    BY <1>c, InOrderStep
<1>4. CASE Start \/ RunFails \/ Crash \/ CrashInPut
  <2>1. batch' = EmptyBatch
    BY <1>4, Zenon DEF Start, RunFails, Crash, CrashInPut, Stop
  <2>2. \A h \in Floor .. batch'.maxBlock : FALSE
    BY <1>n, <2>1 DEF EmptyBatch
  <2>3. ASSUME NEW h \in Floor .. next' - 1
        PROVE  Done(confirmed', h)
    <3>1. CASE Start
      <4>1. next' = Resolved.block /\ confirmed' = confirmed /\ Resolved.source # "index"
        BY <1>0, <3>1, Zenon DEF Start
      <4>2. \/ Resolved.block = Floor
            \/ Resolved.block = progress + 1
        BY <4>1, FloorIs, IndexerAssumption DEF Resolved
      <4>3. h \in Floor .. progress
        BY <1>n, <4>1, <4>2
      <4> QED
        BY <1>c, <4>1, <4>3 DEF DoneUpTo
    <3>2. CASE RunFails \/ Crash \/ CrashInPut
      <4>1. next' = 1
        BY <3>2, Zenon DEF RunFails, Crash, CrashInPut, Stop
      <4> QED
        BY <1>n, <4>1
    <3> QED
      BY <1>4, <3>1, <3>2
  <2> QED
    BY <1>1, <1>2, <1>3, <2>2, <2>3 DEF Held
<1>5. CASE ~(Start \/ RunFails \/ Crash \/ CrashInPut)
  <2>1. \A h : Held(confirmed, Flight, batch.items, h)
             => Held(confirmed', Flight', batch'.items, h)
    BY <1>5, HeldStays
  <2>2. CASE ProcessBlock
    <3>1. /\ next \in 1 .. Len(chain)
          /\ BlockItems(next) \in Seq(Item)
          /\ batch.items \in Seq(Item)
          /\ batch'.items = batch.items \o BlockItems(next)
          /\ next' = next + 1
      BY <2>2, ProcessedBlock
    <3>2. batch'.maxBlock = Max({batch.maxBlock, next})
      BY <2>2 DEF ProcessBlock
    <3>3. batch'.maxBlock = batch.maxBlock \/ batch'.maxBlock = next
      BY <1>n, <3>2, MaxOfTwo
    <3>4. Held(confirmed', Flight', batch'.items, next)
      <4>1. 1 \in 1 .. Len(BlockItems(next)) /\ BlockItems(next)[1].id = BlockId(next)
        <5>1. /\ Len(BlockItems(next)) \in 1 .. SeqSpan
              /\ \A k \in 1 .. Len(BlockItems(next)) :
                   k = 1 => BlockItems(next)[k].id = BlockId(next)
          BY <3>1, BlockShape DEF TypeOK
        <5>2. 1 \in 1 .. Len(BlockItems(next))
          BY <5>1, Span
        <5> QED
          BY <5>1, <5>2
      <4>2. Carries(BlockItems(next), next)
        BY <4>1 DEF Carries
      <4>3. Carries(batch'.items, next)
        BY <3>1, <4>2, CarriesConcat
      <4> QED
        BY <4>3 DEF Held
    <3>5. \A h \in Floor .. next' - 1 : h \in Floor .. next - 1 \/ h = next
      BY <1>n, <3>1
    <3>6. \A h \in Floor .. batch'.maxBlock :
            h \in Floor .. batch.maxBlock \/ h \in Floor .. next - 1 \/ h = next
      BY <1>n, <3>3
    <3>7. \A h \in Floor .. next' - 1 : Held(confirmed', Flight', batch'.items, h)
      BY <1>c, <2>1, <3>4, <3>5
    <3>8. \A h \in Floor .. batch'.maxBlock : Held(confirmed', Flight', batch'.items, h)
      BY <1>c, <2>1, <3>4, <3>6
    <3> QED
      BY <1>1, <1>2, <1>3, <3>7, <3>8
  <2>3. CASE ~ProcessBlock
    <3>1. batch' = batch \/ batch' = EmptyBatch
      BY <1>5, <2>3, FlightSteps
    <3>2. \A h \in Floor .. batch'.maxBlock : h \in Floor .. batch.maxBlock
      BY <1>n, <3>1 DEF EmptyBatch
    <3>3. \/ next' = next
          \/ next' = Len(chain) + 1 /\ Len(chain) + 1 < next
      BY <1>5, <2>3, Zenon DEF Next, vars, run, Produce, Fork, Flush, Submit, Applying,
         Refusing, EsApply, EsRefuse, Confirm, StrayApply, StrayLost, LatePut
    <3>4. Len(chain) \in Nat
      BY DEF TypeOK
    <3>5. \A h \in Floor .. next' - 1 : h \in Floor .. next - 1
      BY <1>n, <3>3, <3>4
    <3> QED
      BY <1>1, <1>2, <1>3, <1>c, <2>1, <3>2, <3>5
  <2> QED
    BY <2>2, <2>3
<1> QED
    BY <1>4, <1>5

\* Without a fork the chain only grows.
LEMMA BlocksStay ==
    ASSUME TypeOK, [Next]_vars, branch' = 0
    PROVE  /\ branch = 0
           /\ Len(chain) \in Nat
           /\ Len(Blocks) = Len(chain)
           /\ Len(Blocks') = Len(chain')
           /\ Len(chain) <= Len(chain')
           /\ Len(chain') \in Nat
           /\ \A h \in 1 .. Len(chain) : Blocks'[h] = Blocks[h]
<1>1. branch \in Nat /\ branch <= branch' /\ branch' \in Nat
    BY BranchGrows
<1>2. branch = 0
    BY <1>1
<1>3. ~Fork
    BY <1>1, <1>2 DEF Fork
<1>4. /\ Len(chain) \in Nat
      /\ Len(chain') \in Nat
      /\ Len(chain) <= Len(chain')
      /\ \A h \in 1 .. Len(chain) : chain'[h] = chain[h]
  <2>1. CASE Produce
    <3>1. PICK ops \in Contents : chain' = Append(chain, [branch |-> branch, ops |-> ops])
      BY <2>1 DEF Produce
    <3>2. [branch |-> branch, ops |-> ops] \in [branch : Branch, ops : Contents]
      BY DEF TypeOK
    <3> QED
      BY <3>1, <3>2, AppendProperties DEF TypeOK
  <2>2. CASE chain' = chain
    BY <2>2 DEF TypeOK
  <2> QED
    BY <1>3, <2>1, <2>2, NodeSteps
<1>5. ASSUME NEW h \in 1 .. Len(chain) PROVE Blocks'[h] = Blocks[h]
  <2>1. Blocks[h] = ItemsOfBlock(chain[h], h)
    BY DEF Blocks, BlockItems, ItemsOfBlock
  <2>2. h \in 1 .. Len(chain')
    BY <1>4
  <2>3. Blocks'[h] = ItemsOfBlock(chain'[h], h)
    BY <2>2 DEF Blocks, BlockItems, ItemsOfBlock
  <2> QED
    BY <1>4, <2>1, <2>3
<1>6. Len(Blocks) = Len(chain) /\ Len(Blocks') = Len(chain')
    BY <1>4 DEF Blocks
<1> QED
    BY <1>2, <1>4, <1>5, <1>6

LEMMA BlockTyped ==
    ASSUME TypeOK, NEW h \in 1 .. Len(chain)
    PROVE  /\ Blocks[h] = BlockItems(h)
           /\ Blocks[h] \in Seq(Item)
BY BlockShape DEF TypeOK, Blocks

LEMMA BlockWhole ==
    ASSUME TypeOK, NEW h \in Floor .. Len(chain)
    PROVE  Whole(BlockItems(h), Blocks)
<1>1. h \in 1 .. Len(chain) /\ Len(chain) \in Nat /\ Floor \in Nat
    BY FloorIs DEF TypeOK
<1>2. Blocks[h] = BlockItems(h)
    BY <1>1, BlockTyped
<1>3. \A n \in 1 .. Len(BlockItems(h)) : BlockItems(h)[n].value = <<h, chain[h].branch>>
    BY <1>1, BlockShape DEF TypeOK
<1>4. \A n \in 1 .. Len(BlockItems(h)) : BlockItems(h)[n].value[1] = h
    BY <1>3
<1>5. Len(Blocks) = Len(chain)
    BY <1>1 DEF Blocks
<1> HIDE DEF BlockItems
<1> QED
    BY <1>1, <1>2, <1>4, <1>5 DEF Whole

LEMMA WholeConcat ==
    ASSUME NEW a \in Seq(Item), NEW b \in Seq(Item), NEW C, Whole(a, C), Whole(b, C)
    PROVE  Whole(a \o b, C)
<1> DEFINE c == a \o b
<1>1. Merges(c, a, b)
    BY ConcatElements
<1> HIDE DEF c
<1>2. ASSUME NEW s \in {a, b}, NEW i \in 1 .. Len(s), NEW j \in 1 .. Len(c), c[j] = s[i]
      PROVE  LET h == c[j].value[1] IN
             /\ h \in Floor .. Len(C)
             /\ \E k \in 1 .. Len(C[h]) : c[j] = C[h][k]
             /\ \A k \in 1 .. Len(C[h]) : \E m \in 1 .. Len(c) : c[m] = C[h][k]
  <2> DEFINE h == c[j].value[1]
  <2>1. Whole(s, C)
    OBVIOUS
  <2>2. /\ h \in Floor .. Len(C)
        /\ \E k \in 1 .. Len(C[h]) : c[j] = C[h][k]
        /\ \A k \in 1 .. Len(C[h]) : \E m \in 1 .. Len(s) : s[m] = C[h][k]
    <3> DEFINE g == s[i].value[1]
    <3>1. /\ g \in Floor .. Len(C)
          /\ \E k \in 1 .. Len(C[g]) : s[i] = C[g][k]
          /\ \A k \in 1 .. Len(C[g]) : \E m \in 1 .. Len(s) : s[m] = C[g][k]
      BY <2>1 DEF Whole
    <3>2. h = g
      BY <1>2
    <3> HIDE DEF g, h
    <3> QED
      BY <1>2, <3>1, <3>2
  <2>3. ASSUME NEW k \in 1 .. Len(C[h]) PROVE \E m \in 1 .. Len(c) : c[m] = C[h][k]
    <3>1. PICK m \in 1 .. Len(s) : s[m] = C[h][k]
      BY <2>2
    <3>2. PICK l \in 1 .. Len(c) : c[l] = s[m]
      BY <1>1 DEF Merges
    <3> QED
      BY <3>1, <3>2
  <2> QED
    BY <2>2, <2>3
<1>3. ASSUME NEW j \in 1 .. Len(c)
      PROVE  LET h == c[j].value[1] IN
             /\ h \in Floor .. Len(C)
             /\ \E k \in 1 .. Len(C[h]) : c[j] = C[h][k]
             /\ \A k \in 1 .. Len(C[h]) : \E m \in 1 .. Len(c) : c[m] = C[h][k]
  <2>1. PICK s \in {a, b} : \E i \in 1 .. Len(s) : c[j] = s[i]
    BY <1>1 DEF Merges
  <2>2. PICK i \in 1 .. Len(s) : c[j] = s[i]
    BY <2>1
  <2> QED
    BY <1>2, <2>2
<1> QED
    BY <1>3 DEF Whole, c

\* The same list, seen from a longer chain.
LEMMA WholeStays ==
    ASSUME NEW items, NEW C, NEW D, Len(C) \in Nat, Len(D) \in Nat, Len(C) <= Len(D),
           \A h \in 1 .. Len(C) : D[h] = C[h], Whole(items, C)
    PROVE  Whole(items, D)
<1> SUFFICES ASSUME NEW n \in 1 .. Len(items)
             PROVE  LET h == items[n].value[1] IN
                    /\ h \in Floor .. Len(D)
                    /\ \E k \in 1 .. Len(D[h]) : items[n] = D[h][k]
                    /\ \A k \in 1 .. Len(D[h]) : \E m \in 1 .. Len(items) : items[m] = D[h][k]
    BY DEF Whole
<1> DEFINE h == items[n].value[1]
<1>1. /\ h \in Floor .. Len(C)
      /\ \E k \in 1 .. Len(C[h]) : items[n] = C[h][k]
      /\ \A k \in 1 .. Len(C[h]) : \E m \in 1 .. Len(items) : items[m] = C[h][k]
    BY DEF Whole
<1> HIDE DEF h
<1>2. h \in 1 .. Len(C) /\ h \in Floor .. Len(D)
    BY <1>1, FloorIs
<1>3. D[h] = C[h]
    BY <1>2
<1> QED
    BY <1>1, <1>2, <1>3 DEF h

LEMMA StraightStep ==
    TypeOK /\ Requests /\ Fates /\ Reach /\ Straight /\ [Next]_vars => Straight'
<1> SUFFICES ASSUME TypeOK, Requests, Fates, Reach, Straight, [Next]_vars, branch' = 0
             PROVE  /\ \A items \in Lists' : Whole(items, Blocks')
                    /\ \A id \in Id : docs'[id].version # 0 =>
                         \E h \in Floor .. Len(chain') : \E k \in 1 .. Len(Blocks'[h]) :
                            Blocks'[h][k].id = id /\ docs'[id] = Leaves(Blocks'[h][k])
                    /\ \A c \in confirmed' :
                         c[1] \in Floor .. Len(chain') /\ Landed(docs', Blocks'[c[1]])
    BY DEF Straight
<1>b. /\ branch = 0
      /\ Len(chain) \in Nat
      /\ Len(Blocks) = Len(chain)
      /\ Len(Blocks') = Len(chain')
      /\ Len(chain) <= Len(chain')
      /\ Len(chain') \in Nat
      /\ \A h \in 1 .. Len(chain) : Blocks'[h] = Blocks[h]
    BY BlocksStay
<1>s. /\ \A items \in Lists : Whole(items, Blocks)
      /\ \A id \in Id : docs[id].version # 0 =>
           \E h \in Floor .. Len(chain) : \E k \in 1 .. Len(Blocks[h]) :
              Blocks[h][k].id = id /\ docs[id] = Leaves(Blocks[h][k])
      /\ \A c \in confirmed : c[1] \in Floor .. Len(chain) /\ Landed(docs, Blocks[c[1]])
    BY <1>b DEF Straight
<1>h. \A h \in Floor .. Len(chain) :
        h \in 1 .. Len(chain) /\ h \in Floor .. Len(chain') /\ Blocks'[h] = Blocks[h]
    BY <1>b, FloorIs
<1>1. ASSUME NEW items \in Lists' PROVE Whole(items, Blocks')
  <2>1. CASE Whole(items, Blocks)
    BY <1>b, <2>1, WholeStays
  <2>2. CASE items \in Lists
    BY <1>s, <2>1, <2>2
  <2>3. CASE items = <<>>
    BY <2>3 DEF Whole
  <2>4. CASE ProcessBlock /\ items = batch.items \o BlockItems(next)
    <3>1. next \in 1 .. Len(chain) /\ BlockItems(next) \in Seq(Item) /\ batch.items \in Seq(Item)
      BY <2>4, ProcessedBlock
    <3>2. next >= Floor
      BY <2>4 DEF ProcessBlock, Reach
    <3>3. next \in Floor .. Len(chain)
      BY <3>1, <3>2, FloorIs
    <3>4. Whole(BlockItems(next), Blocks)
      BY <3>3, BlockWhole
    <3>5. Whole(batch.items, Blocks)
      BY <1>s DEF Lists
    <3>6. Whole(items, Blocks)
      BY <2>4, <3>1, <3>4, <3>5, WholeConcat
    <3> QED
      BY <2>1, <3>6
  <2> QED
    BY <2>2, <2>3, <2>4, ListsSteps
<1>2. ASSUME NEW id \in Id, docs'[id].version # 0
      PROVE  \E h \in Floor .. Len(chain') : \E k \in 1 .. Len(Blocks'[h]) :
                Blocks'[h][k].id = id /\ docs'[id] = Leaves(Blocks'[h][k])
  <2>1. ASSUME NEW h \in Floor .. Len(chain), NEW k \in 1 .. Len(Blocks[h]),
               Blocks[h][k].id = id, docs'[id] = Leaves(Blocks[h][k])
        PROVE  \E g \in Floor .. Len(chain') : \E l \in 1 .. Len(Blocks'[g]) :
                  Blocks'[g][l].id = id /\ docs'[id] = Leaves(Blocks'[g][l])
    <3>1. h \in Floor .. Len(chain') /\ Blocks'[h] = Blocks[h]
      BY <1>h
    <3>2. k \in 1 .. Len(Blocks'[h]) /\ Blocks'[h][k] = Blocks[h][k]
      BY <3>1
    <3> QED
      BY <2>1, <3>1, <3>2
  <2>2. CASE docs'[id] = docs[id]
    <3>1. PICK h \in Floor .. Len(chain) : \E k \in 1 .. Len(Blocks[h]) :
            Blocks[h][k].id = id /\ docs[id] = Leaves(Blocks[h][k])
      BY <1>2, <1>s, <2>2
    <3> QED
      BY <2>1, <2>2, <3>1
  <2>3. CASE docs'[id] # docs[id]
    <3>1. PICK items \in Lists : Touched(docs, docs', items)
      BY <2>3, DocSteps
    <3>2. items \in Seq(Item) /\ docs \in [Id -> DocOf(Value)] /\ docs' \in [Id -> DocOf(Value)]
      BY ListsTyped, TypeStep DEF TypeOK
    <3>3. PICK n \in 1 .. Len(items) : items[n].id = id /\ docs'[id] = Leaves(items[n])
      BY <2>3, <3>1, <3>2, TouchedIs
    <3>4. Whole(items, Blocks)
      BY <1>s
    <3> DEFINE h == items[n].value[1]
    <3>5. h \in Floor .. Len(chain) /\ \E k \in 1 .. Len(Blocks[h]) : items[n] = Blocks[h][k]
      BY <1>b, <3>4 DEF Whole
    <3> HIDE DEF h
    <3>6. PICK k \in 1 .. Len(Blocks[h]) : items[n] = Blocks[h][k]
      BY <3>5
    <3> QED
      BY <2>1, <3>3, <3>5, <3>6
  <2> QED
    BY <2>2, <2>3
<1>3. ASSUME NEW c \in confirmed'
      PROVE  c[1] \in Floor .. Len(chain') /\ Landed(docs', Blocks'[c[1]])
  <2>1. c[1] \in Floor .. Len(chain) /\ Landed(docs, Blocks[c[1]])
    <3>1. CASE c \in confirmed
      BY <1>s, <3>1
    <3>2. CASE c \notin confirmed
      <4> DEFINE items == Head(window).batch.items
      <4>1. HeadLanded /\ c \in HeadBlocks
        BY <3>2, ConfirmedSteps
      <4>2. items \in Lists /\ Landed(docs, items)
        BY <4>1, HeadFacts
      <4>3. PICK n \in 1 .. Len(items) : c = items[n].value
        BY <4>1, HeadFacts
      <4> HIDE DEF items
      <4>4. Whole(items, Blocks)
        BY <1>s, <4>2
      <4>5. /\ c[1] \in Floor .. Len(chain)
            /\ \A k \in 1 .. Len(Blocks[c[1]]) :
                 \E m \in 1 .. Len(items) : items[m] = Blocks[c[1]][k]
        BY <1>b, <4>3, <4>4 DEF Whole
      <4>6. Landed(docs, Blocks[c[1]])
        BY <4>2, <4>5 DEF Landed
      <4> QED
        BY <4>5, <4>6
    <3> QED
      BY <3>1, <3>2
  <2>2. Blocks[c[1]] \in Seq(Item)
    BY <1>h, <2>1, BlockTyped
  <2>3. Landed(docs', Blocks[c[1]])
    BY <2>1, <2>2, LandedStays
  <2>4. c[1] \in Floor .. Len(chain') /\ Blocks'[c[1]] = Blocks[c[1]]
    BY <1>h, <2>1
  <2> QED
    BY <2>3, <2>4
<1> QED
    BY <1>1, <1>2, <1>3

LEMMA InvInit == Init => IInv
<1> SUFFICES ASSUME Init PROVE IInv
    OBVIOUS
<1>1. TypeOK
    BY TypeInit
<1>2. /\ chain = <<>> /\ branch = 0 /\ progress = 0 /\ stray = {} /\ latePuts = {}
      /\ up = FALSE /\ confirmed = {} /\ next = 1 /\ batch = EmptyBatch
      /\ queue = <<>> /\ window = <<>> /\ docs = [id \in Id |-> Absent]
    BY DEF Init
<1>3. Len(Flight) = 0 /\ Flight = <<>>
  <2>1. BatchesOf(<<>>) = <<>>
    BY DEF BatchesOf
  <2> QED
    BY <1>2, <2>1 DEF Flight
<1>4. \A items \in Lists : items = <<>>
    BY <1>2, <1>3 DEF Lists, EmptyBatch
<1>5. Requests
    BY <1>4 DEF Requests, Request
<1>6. Stored
    BY <1>2 DEF Stored, Absent
<1>7. Fates
    BY <1>2 DEF Fates
<1>8. Confirmations
    BY <1>2 DEF Confirmations
<1>9. Reach
    BY <1>2 DEF Reach
<1>10. Covered
    BY <1>2, <1>3, FloorIs DEF Covered, DoneUpTo, InOrder, EmptyBatch
<1>11. Straight
  <2>1. \A items \in Lists : Whole(items, Blocks)
    BY <1>4 DEF Whole
  <2>2. \A id \in Id : docs[id].version = 0
    BY <1>2 DEF Absent
  <2> QED
    BY <1>2, <2>1, <2>2 DEF Straight
<1> QED
    BY <1>1, <1>5, <1>6, <1>7, <1>8, <1>9, <1>10, <1>11 DEF IInv

\* Every part of the invariant holds in every reachable state of the
\* deployment, over any number of runs, crashes and forks.
THEOREM Invariance == Spec => []IInv
<1>1. Init => IInv
    BY InvInit
<1>2. IInv /\ [Next]_vars => IInv'
    BY TypeStep, RequestsStep, StoredStep, FatesStep, ConfirmationsStep, ReachStep,
       CoveredStep, StraightStep DEF IInv
<1> QED
    BY <1>1, <1>2, PTL DEF Spec

-----------------------------------------------------------------------------
(* The properties.                                                           *)

\* HeightsCovered: in every reachable state, forks or not, every height from
\* the first to the checkpoint's has its block document in Elasticsearch.
THEOREM HeightSafety == Spec => []HeightsCovered
<1>1. IInv => HeightsCovered
  <2> SUFFICES ASSUME IInv, ~fellBack, NEW h \in Floor .. progress
               PROVE  Live(docs[BlockId(h)])
    BY DEF HeightsCovered
  <2>1. Done(confirmed, h)
    BY DEF IInv, Covered, DoneUpTo
  <2>2. PICK c \in confirmed : c[1] = h
    BY <2>1 DEF Done
  <2>3. h \in Height
    BY <2>2 DEF IInv, TypeOK, Value
  <2>4. docs[BlockId(h)].version # 0
    BY <2>2 DEF IInv, Confirmations
  <2>5. BlockId(h) \in Id /\ BlockId(h) # Entity
    BY <2>3, ItemIds
  <2> QED
    BY <2>4, <2>5 DEF IInv, Stored
<1> QED
    BY <1>1, Invariance, PTL

\* The heights that are done are confirmed in the chain's own blocks, and
\* have landed, as long as there was no fork.
LEMMA DoneLanded ==
    ASSUME IInv, branch = 0, NEW h, Done(confirmed, h)
    PROVE  /\ h \in Floor .. Len(chain)
           /\ h \in 1 .. Len(chain)
           /\ Landed(docs, BlockItems(h))
           /\ <<h, chain[h].branch>> \in confirmed
<1>1. PICK c \in confirmed : c[1] = h
    BY DEF Done
<1>2. h \in Floor .. Len(chain) /\ Landed(docs, Blocks[h])
    BY <1>1 DEF IInv, Straight
<1>3. Len(chain) \in Nat
    BY DEF IInv, TypeOK
<1>4. h \in 1 .. Len(chain)
    BY <1>2, <1>3, FloorIs
<1>5. Blocks[h] = BlockItems(h)
    BY <1>4, BlockTyped DEF IInv
<1>6. c[2] \in Nat /\ c[2] <= 0 /\ c = <<c[1], c[2]>>
    BY DEF IInv, TypeOK, Confirmations, Value, Branch
<1>7. c = <<h, 0>>
    BY <1>1, <1>6
<1>8. chain[h].branch = 0
  <2>1. chain[h] \in [branch : Branch, ops : Contents]
    BY <1>4, SeqElement DEF IInv, TypeOK
  <2>2. chain[h].branch <= branch
    BY <1>4 DEF IInv, Reach
  <2> QED
    BY <2>1, <2>2 DEF Branch
<1> QED
    BY <1>2, <1>4, <1>5, <1>7, <1>8

\* CheckpointCovers: on a chain without forks, every write of every block at
\* or below the checkpoint has reached Elasticsearch.
THEOREM CheckpointSafety == Spec => []CheckpointCovers
<1>1. IInv => CheckpointCovers
  <2> SUFFICES ASSUME IInv, branch = 0, ~fellBack,
                      NEW h \in Floor .. Min({progress, Len(chain)}),
                      NEW item \in ToSet(BlockItems(h))
               PROVE  docs[item.id].version >= item.version
    BY DEF CheckpointCovers
  <2>1. progress \in Nat /\ Len(chain) \in Nat
    BY DEF IInv, TypeOK
  <2>2. h \in Floor .. progress
    BY <2>1, MinOfTwo, FloorIs
  <2>3. Done(confirmed, h)
    BY <2>2 DEF IInv, Covered, DoneUpTo
  <2>4. Landed(docs, BlockItems(h)) /\ h \in 1 .. Len(chain)
    BY <2>3, DoneLanded
  <2>5. BlockItems(h) \in Seq(Item)
    BY <2>4, BlockShape DEF IInv, TypeOK
  <2>6. PICK n \in 1 .. Len(BlockItems(h)) : item = BlockItems(h)[n]
    BY <2>5 DEF ToSet
  <2> QED
    BY <2>4, <2>6 DEF Landed
<1> QED
    BY <1>1, Invariance, PTL

\* A later write has a higher version.
LEMMA VersionsOrder ==
    ASSUME NEW g \in Nat, NEW h \in Nat, NEW k \in 0 .. SeqSpan - 1, NEW l \in 0 .. SeqSpan - 1,
           Version(g, k) <= Version(h, l)
    PROVE  ~(g > h \/ (g = h /\ k > l))
<1>1. k \in Nat /\ l \in Nat /\ l < SeqSpan /\ SeqSpan \in Nat
    BY Span
<1>2. g * SeqSpan \in Nat /\ h * SeqSpan \in Nat /\ g * SeqSpan + k <= h * SeqSpan + l
    BY <1>1, Multiple DEF Version
<1>3. CASE g = h
    BY <1>1, <1>2, <1>3
<1>4. CASE g > h
  <2>1. g * SeqSpan >= h * SeqSpan + SeqSpan
    BY <1>1, <1>4, Multiple
  <2> QED
    BY <1>1, <1>2, <1>4, <2>1
<1>5. CASE g < h
    BY <1>5
<1> QED
    BY <1>3, <1>4, <1>5

\* Converges: once everything is confirmed, whatever crashed, was refused,
\* replayed or landed late before, every document is what the last of the
\* chain's writes leaves.
THEOREM Convergence == Spec => []Converges
<1>1. IInv => Converges
  <2> SUFFICES ASSUME IInv, Idle, branch = 0, ~fellBack, NEW id \in Id
               PROVE  MirrorsUpTo(id, Len(chain))
    BY DEF Converges, CaughtUp, Mirrored
  <2>t. TypeOK /\ Len(chain) \in Nat /\ next \in Nat /\ docs \in [Id -> DocOf(Value)]
    BY DEF IInv, TypeOK
  <2>1. ASSUME NEW h \in Floor .. Len(chain)
        PROVE  h \in 1 .. Len(chain) /\ Landed(docs, BlockItems(h))
    <3>1. next > Len(chain) /\ batch = EmptyBatch /\ queue = <<>> /\ window = <<>>
      BY DEF Idle
    <3>2. h \in Floor .. next - 1
      BY <2>t, <3>1, FloorIs
    <3>3. Held(confirmed, Flight, batch.items, h)
      BY <3>2 DEF IInv, Covered
    <3>4. Flight = <<>>
      <4>1. BatchesOf(<<>>) = <<>>
        BY DEF BatchesOf
      <4> QED
        BY <3>1, <4>1 DEF Flight
    <3>5. Done(confirmed, h)
      BY <3>1, <3>3, <3>4 DEF Held, Carries, EmptyBatch
    <3> QED
      BY <3>5, DoneLanded
  <2>2. ASSUME NEW v \in WritesOf(id, Len(chain))
        PROVE  /\ v[1] \in Floor .. Len(chain)
               /\ v[1] \in 1 .. Len(chain)
               /\ v[2] \in 1 .. SeqSpan
               /\ v[2] \in 1 .. Len(BlockItems(v[1]))
               /\ BlockItems(v[1])[v[2]].id = id
               /\ BlockItems(v[1])[v[2]].version = Version(v[1], v[2] - 1)
               /\ docs[id].version >= Version(v[1], v[2] - 1)
    <3>1. /\ v[1] \in Floor .. Len(chain)
          /\ v[2] \in 1 .. SeqSpan
          /\ v[2] <= Len(BlockItems(v[1]))
          /\ BlockItems(v[1])[v[2]].id = id
      BY DEF WritesOf
    <3>2. v[1] \in 1 .. Len(chain) /\ Landed(docs, BlockItems(v[1]))
      BY <2>1, <3>1
    <3>3. Len(BlockItems(v[1])) \in 1 .. SeqSpan
      BY <2>t, <3>2, BlockShape DEF TypeOK
    <3>4. v[2] \in 1 .. Len(BlockItems(v[1]))
      BY <3>1, <3>3, Span
    <3>5. BlockItems(v[1])[v[2]].version = Version(v[1], v[2] - 1)
      BY <2>t, <3>2, <3>4, BlockShape DEF TypeOK
    <3>6. docs[id].version >= Version(v[1], v[2] - 1)
      BY <3>1, <3>2, <3>4, <3>5 DEF Landed
    <3> QED
      BY <3>1, <3>2, <3>4, <3>5, <3>6
  <2>3. CASE docs[id].version = 0
    <3>1. docs[id].value = NoValue
      BY <2>3 DEF IInv, Stored, Absent
    <3>2. ASSUME NEW v \in WritesOf(id, Len(chain)) PROVE FALSE
      <4>1. 0 >= Version(v[1], v[2] - 1) /\ v[1] >= 1 /\ v[2] >= 1 /\ v[1] \in Nat /\ v[2] \in Nat
        BY <2>2, <2>3
      <4> QED
        <5>1. v[2] - 1 \in Nat
          BY <4>1
        <5>2. Version(v[1], v[2] - 1) \in Nat /\ Version(v[1], v[2] - 1) >= 1
          BY <4>1, <5>1, VersionBound
        <5> QED
          BY <4>1, <5>2
    <3> QED
      BY <3>1, <3>2 DEF MirrorsUpTo
  <2>4. CASE docs[id].version # 0
    <3>1. PICK h \in Floor .. Len(chain) : \E k \in 1 .. Len(Blocks[h]) :
            Blocks[h][k].id = id /\ docs[id] = Leaves(Blocks[h][k])
      BY <2>4 DEF IInv, Straight
    <3>2. h \in 1 .. Len(chain) /\ Blocks[h] = BlockItems(h)
      BY <2>1, <2>t, BlockTyped
    <3>3. PICK k \in 1 .. Len(BlockItems(h)) :
            BlockItems(h)[k].id = id /\ docs[id] = Leaves(BlockItems(h)[k])
      BY <3>1, <3>2
    <3> DEFINE w == <<h, k>>
    <3>4. Len(BlockItems(h)) \in 1 .. SeqSpan /\ BlockItems(h)[k].version = Version(h, k - 1)
      BY <2>t, <3>2, BlockShape DEF TypeOK
    <3>5. k \in 1 .. SeqSpan /\ k <= Len(BlockItems(h))
      BY <3>4, Span
    <3>6. w \in WritesOf(id, Len(chain)) /\ w[1] = h /\ w[2] = k
      BY <3>3, <3>5 DEF WritesOf
    <3>7. docs[id].version = Version(h, k - 1)
      BY <3>3, <3>4 DEF Leaves
    <3>8. ASSUME NEW v \in WritesOf(id, Len(chain)) PROVE ~Later(v, w)
      <4>1. /\ v[1] \in Nat /\ v[2] \in 1 .. SeqSpan
            /\ Version(v[1], v[2] - 1) <= Version(h, k - 1)
        <5>1. v[1] \in 1 .. Len(chain) /\ v[2] \in 1 .. SeqSpan
              /\ docs[id].version >= Version(v[1], v[2] - 1)
          BY <2>2
        <5> QED
          BY <3>7, <5>1
      <4>2. v[2] - 1 \in 0 .. SeqSpan - 1 /\ k - 1 \in 0 .. SeqSpan - 1 /\ h \in Nat
        BY <3>2, <3>5, <4>1, Span
      <4>3. ~(v[1] > h \/ (v[1] = h /\ v[2] - 1 > k - 1))
        BY <4>1, <4>2, VersionsOrder
      <4> QED
        BY <3>5, <3>6, <4>1, <4>3 DEF Later
    <3>9. docs[id].value = IF BlockItems(h)[k].op = "delete" THEN NoValue
                           ELSE BlockItems(h)[k].value
      BY <3>3 DEF Leaves
    <3> HIDE DEF w
    <3> QED
      BY <3>6, <3>8, <3>9 DEF MirrorsUpTo
  <2> QED
    BY <2>3, <2>4
<1> QED
    BY <1>1, Invariance, PTL

\* ResumesAboveConfirmed: a run that resumes above the checkpoint of a chain
\* without forks starts above confirmed blocks only, so that it skips none.
THEOREM ResumeSafety == Spec => ResumesAboveConfirmed
<1>1. IInv /\ [Next]_vars => (Resume /\ branch = 0 => ConfirmedBelow(start'))
  <2> SUFFICES ASSUME IInv, Resume, branch = 0, [Next]_vars PROVE ConfirmedBelow(start')
    OBVIOUS
  <2>1. /\ start' = Resolved.block
        /\ source' = Resolved.source
        /\ source' = "checkpoint"
        /\ ~fellBack
    BY Zenon DEF Resume, Start
  <2>2. progress \in Nat /\ Len(chain) \in Nat
    BY DEF IInv, TypeOK
  <2>3. start' = progress + 1
    BY <2>1 DEF Resolved
  <2> SUFFICES ASSUME NEW h \in Floor .. Min({start' - 1, Len(chain)})
               PROVE  <<h, chain[h].branch>> \in confirmed
    BY DEF ConfirmedBelow
  <2>4. start' - 1 = progress
    BY <2>2, <2>3
  <2>5. h \in Floor .. progress
    BY <2>2, <2>4, MinOfTwo, FloorIs
  <2>6. Done(confirmed, h)
    BY <2>1, <2>5 DEF IInv, Covered, DoneUpTo
  <2> QED
    BY <2>6, DoneLanded
<1> QED
    BY <1>1, Invariance, PTL DEF Spec, ResumesAboveConfirmed
=============================================================================
