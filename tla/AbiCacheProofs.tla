---------------------------- MODULE AbiCacheProofs ----------------------------
(***************************************************************************)
(* The processor decodes with the ABI that was active on the chain.        *)
(*                                                                         *)
(* NeverStale holds for every configuration.  The other theorems are about *)
(* a stream whose `setabi` traces reach the cache (Fed): with              *)
(* fetch_traces = false a cleared ABI stays in it, and with a skipped      *)
(* setabi every update, so that decoding is not exact then.                *)
(*                                                                         *)
(* The argument: what is left of the block in hand is a chain of items,    *)
(* each of which starts with the ABI that the one before it leaves         *)
(* (Chained), up to the ABI after the block.  So there is one ABI that is  *)
(* active where the processor stands (Position), an item moves it as it    *)
(* moves the cached entry, and once the entry came from the stream the two *)
(* stay together.  A repeated setabi moves the first without the second,   *)
(* unless it sets what is active already: there the entry stops being one  *)
(* of the stream, until the next update that is not passed over.  Such a   *)
(* one stands before every item that is (Announced), so that an entry of   *)
(* the chain API never waits for a repeated one alone.                     *)
(***************************************************************************)
EXTENDS AbiCache, WellFoundedInduction, NaturalsInduction, SequenceTheorems, TLAPS

Fed == FetchTraces /\ ~SkipSetAbi

-----------------------------------------------------------------------------
(* The invariant.                                                            *)

WorkItem ==
    [kind : {"act", "setabi", "account", "row"}, repeat : BOOLEAN, fork : Nat,
     abi : OnChain, active : OnChain]

TypeOK ==
    /\ chain \in Seq(Blocks)
    /\ forks \in Nat
    /\ next \in Nat \ {0}
    /\ todo \in Seq(WorkItem)
    /\ abis \in Abis \cup {NoAbi, Missing}
    /\ decoder \in Abis \cup {Missing}
    /\ source \in {"none", "stream", "api", "failure", "fork", "repeat"}

\* Each item starts with the ABI that the one before it leaves, the last
\* leaves `end`.
Chained(items, end) ==
    \A k \in 1 .. Len(items) :
        /\ items[k].abi = IF k = Len(items) THEN end ELSE items[k + 1].active
        /\ items[k].kind # "setabi" => items[k].abi = items[k].active
        /\ \/ items[k].active = end
           \/ \E j \in k .. Len(items) : items[j].kind = "setabi"

\* A setabi that reaches the cache.
Brings(item) == item.kind = "setabi" /\ ~item.repeat

\* An item that comes after one: the account row that it made, or a repeat.
Late(item) == item.kind = "account" \/ (item.kind = "setabi" /\ item.repeat)

Announced(items) ==
    \A k \in 1 .. Len(items) : Late(items[k]) => \E j \in 1 .. k - 1 : Brings(items[j])

OneChain == \A k \in 1 .. Len(todo) : todo[k].fork = Head(todo).fork /\ todo[k].fork <= forks

InHand ==
    todo # <<>> /\ Current => next - 1 <= Len(chain) /\ Chained(todo, AbiAt(next - 1))

\* The ABI on the chain where the processor stands.
Position == IF todo = <<>> THEN AbiAt(next - 1) ELSE Head(todo).active

EntryKnown ==
    /\ source = "none" <=> abis = Missing
    /\ decoder # Missing => decoder = abis

\* An entry from the stream follows the chain.
Follows ==
    source = "stream" =>
        /\ next - 1 <= Len(chain)
        /\ todo # <<>> => Current
        /\ abis = Usable(Position)

\* Without forks the stream ends with the chain.
Reached == (source # "none" \/ todo # <<>>) /\ forks = 0 => next - 1 <= Len(chain)

RowsAnnounced == source \notin {"stream", "fork", "repeat"} => Announced(todo)

\* An entry from the chain API is that of the head, or an update is to come.
Healing == source = "api" => abis = Usable(AbiAt(Len(chain))) \/ UpdateAhead

IInv ==
    /\ TypeOK
    /\ OneChain
    /\ InHand
    /\ EntryKnown
    /\ Follows
    /\ Reached
    /\ RowsAnnounced
    /\ Healing

-----------------------------------------------------------------------------
(* The last of some numbers.                                                 *)

LEMMA LeastNat ==
    ASSUME NEW T \in SUBSET Nat, T # {}
    PROVE  \E m \in T : \A n \in T : m <= n
<1>1. IsWellFoundedOn(OpToRel(<, Nat), Nat)
    BY NatLessThanWellFounded
<1>2. PICK m \in T : \A n \in T : ~(<<n, m>> \in OpToRel(<, Nat))
    BY <1>1, WFMin
<1>3. ASSUME NEW n \in T PROVE m <= n
  <2>1. <<n, m>> \in Nat \X Nat
    OBVIOUS
  <2> QED
    BY <1>2, <2>1 DEF OpToRel
<1> QED
    BY <1>3

LEMMA MaxOf ==
    ASSUME NEW n \in Nat, NEW S \in SUBSET (1 .. n), S # {}
    PROVE  Max(S) \in S /\ \A y \in S : Max(S) >= y
<1> DEFINE T == {n - x : x \in S}
<1>1. T \in SUBSET Nat /\ T # {}
  <2>1. \A x \in S : n - x \in Nat
    OBVIOUS
  <2> QED
    BY <2>1
<1>2. PICK m \in T : \A k \in T : m <= k
    BY <1>1, LeastNat
<1>3. PICK x \in S : m = n - x
    BY <1>2
<1>4. \A y \in S : n - x <= n - y
    BY <1>2, <1>3
<1>5. \A y \in S : x >= y
    BY <1>4
<1> QED
    BY <1>5 DEF Max

\* With the greatest number in it, a set's maximum is that one.
LEMMA MaxIs ==
    ASSUME NEW n \in Nat \ {0}, NEW S \in SUBSET (1 .. n), n \in S
    PROVE  Max(S) = n
<1>1. Max(S) \in S /\ Max(S) >= n
    BY MaxOf
<1>2. Max(S) \in 1 .. n
    BY <1>1
<1> QED
    BY <1>1, <1>2

-----------------------------------------------------------------------------
(* The ABI after some items, and after some blocks.                          *)

LEMMA Values ==
    /\ OnChain = Abis \cup {Cleared, Broken}
    /\ \A abi : Usable(abi) \in Abis \cup {NoAbi}
    /\ Missing \notin Abis /\ NoAbi \notin Abis /\ Missing # NoAbi
    /\ Usable(Cleared) = NoAbi
BY AbiAssumption DEF OnChain, Usable

LEMMA BlockOf ==
    ASSUME NEW block \in Blocks
    PROVE  /\ block \in Seq(TraceItem)
           /\ Len(block) \in Nat
           /\ \A k \in 1 .. Len(block) :
                /\ block[k].kind \in {"act", "setabi"}
                /\ block[k].kind = "setabi" => block[k].abi \in OnChain
<1>1. block \in Seq(TraceItem)
    BY AbiAssumption
<1>2. \A k \in 1 .. Len(block) : block[k] \in TraceItem
    BY <1>1
<1> QED
    BY <1>1, <1>2 DEF TraceItem

\* One more item.
LEMMA AfterItem ==
    ASSUME NEW items, NEW before, NEW n \in Nat \ {0}
    PROVE  /\ AbiAfter(items, 0, before) = before
           /\ AbiAfter(items, n, before) =
                IF items[n].kind = "setabi" THEN items[n].abi
                ELSE AbiAfter(items, n - 1, before)
<1>1. Setting(items, 0) = {}
    BY DEF Setting
<1>2. CASE items[n].kind = "setabi"
  <2>1. Setting(items, n) \in SUBSET (1 .. n) /\ n \in Setting(items, n)
    BY <1>2 DEF Setting
  <2>2. Max(Setting(items, n)) = n
    BY <2>1, MaxIs
  <2> QED
    BY <1>1, <1>2, <2>1, <2>2 DEF AbiAfter
<1>3. CASE items[n].kind # "setabi"
  <2>1. Setting(items, n) = Setting(items, n - 1)
    BY <1>3 DEF Setting
  <2> QED
    BY <1>1, <1>3, <2>1 DEF AbiAfter
<1> QED
    BY <1>2, <1>3

\* Items that do not set the ABI leave it.
LEMMA AfterQuiet ==
    ASSUME NEW items, NEW before, NEW n \in Nat, NEW k \in 0 .. n,
           \A j \in k + 1 .. n : items[j].kind # "setabi"
    PROVE  AbiAfter(items, n, before) = AbiAfter(items, k, before)
<1>1. Setting(items, n) = Setting(items, k)
    BY DEF Setting
<1> QED
    BY <1>1 DEF AbiAfter

\* A block that updates the ABI leaves the same whatever was before.
LEMMA AfterUpdate ==
    ASSUME NEW block, Updates(block), NEW b, NEW c
    PROVE  AbiAfter(block, Len(block), b) = AbiAfter(block, Len(block), c)
BY DEF AbiAfter, Updates

LEMMA AfterType ==
    ASSUME NEW block \in Blocks, NEW n \in 0 .. Len(block), NEW before \in OnChain
    PROVE  AbiAfter(block, n, before) \in OnChain
<1>1. CASE Setting(block, n) = {}
    BY <1>1 DEF AbiAfter
<1>2. CASE Setting(block, n) # {}
  <2>1. n \in Nat /\ Setting(block, n) \in SUBSET (1 .. n)
    BY BlockOf DEF Setting
  <2>2. Max(Setting(block, n)) \in Setting(block, n)
    BY <1>2, <2>1, MaxOf
  <2>3. /\ Max(Setting(block, n)) \in 1 .. Len(block)
        /\ block[Max(Setting(block, n))].kind = "setabi"
    BY <2>1, <2>2, BlockOf DEF Setting
  <2> QED
    BY <1>2, <2>3, BlockOf DEF AbiAfter
<1> QED
    BY <1>1, <1>2

\* One more block.
LEMMA AtBlock ==
    ASSUME NEW h \in Nat \ {0}
    PROVE  /\ AbiAt(0) = Cleared
           /\ AbiAt(h) = AbiAfter(chain[h], Len(chain[h]), AbiAt(h - 1))
<1> DEFINE updates(g) == {x \in 1 .. g : Updates(chain[x])}
<1>1. updates(0) = {}
    OBVIOUS
<1>2. CASE Updates(chain[h])
  <2>1. updates(h) \in SUBSET (1 .. h) /\ h \in updates(h)
    BY <1>2
  <2>2. Max(updates(h)) = h
    BY <2>1, MaxIs
  <2>3. AbiAt(h) = AbiAfter(chain[h], Len(chain[h]), Cleared)
    BY <2>1, <2>2 DEF AbiAt
  <2>4. AbiAfter(chain[h], Len(chain[h]), Cleared) = AbiAfter(chain[h], Len(chain[h]), AbiAt(h - 1))
    BY <1>2, AfterUpdate
  <2> QED
    BY <1>1, <2>3, <2>4 DEF AbiAt
<1>3. CASE ~Updates(chain[h])
  <2>1. updates(h) = updates(h - 1)
    BY <1>3
  <2>2. AbiAt(h) = AbiAt(h - 1)
    BY <2>1 DEF AbiAt
  <2> QED
    BY <1>1, <1>3, <2>2 DEF AbiAt, AbiAfter, Updates
<1> QED
    BY <1>2, <1>3

LEMMA AtQuiet ==
    ASSUME NEW h \in Nat, NEW g \in 0 .. h, \A x \in g + 1 .. h : ~Updates(chain[x])
    PROVE  AbiAt(h) = AbiAt(g)
<1>1. {x \in 1 .. h : Updates(chain[x])} = {x \in 1 .. g : Updates(chain[x])}
    OBVIOUS
<1> QED
    BY <1>1 DEF AbiAt

LEMMA AtType ==
    ASSUME chain \in Seq(Blocks), NEW h \in 0 .. Len(chain)
    PROVE  AbiAt(h) \in OnChain
<1> DEFINE updates == {x \in 1 .. h : Updates(chain[x])}
<1>1. CASE updates = {}
    BY <1>1, Values DEF AbiAt
<1>2. CASE updates # {}
  <2>1. h \in Nat /\ updates \in SUBSET (1 .. h)
    OBVIOUS
  <2>2. Max(updates) \in 1 .. h
    BY <1>2, <2>1, MaxOf
  <2>3. chain[Max(updates)] \in Blocks
    BY <2>2
  <2>4. Len(chain[Max(updates)]) \in 0 .. Len(chain[Max(updates)]) /\ Cleared \in OnChain
    BY <2>3, BlockOf, Values
  <2> HIDE DEF updates
  <2>5. AbiAfter(chain[Max(updates)], Len(chain[Max(updates)]), Cleared) \in OnChain
    BY <2>3, <2>4, AfterType
  <2> QED
    BY <1>2, <2>5 DEF AbiAt, updates
<1> QED
    BY <1>1, <1>2

\* Blocks above do not matter.
LEMMA AtPrefix ==
    ASSUME NEW h \in Nat, \A x \in 1 .. h : chain'[x] = chain[x]
    PROVE  AbiAt(h)' = AbiAt(h)
<1> DEFINE now == {x \in 1 .. h : Updates(chain[x])}
           later == {x \in 1 .. h : Updates(chain'[x])}
<1>1. later = now
    OBVIOUS
<1>2. now # {} => Max(now) \in 1 .. h
  <2>1. now \in SUBSET (1 .. h)
    OBVIOUS
  <2> QED
    BY <2>1, MaxOf
<1>3. AbiAt(h) = IF now = {} THEN Cleared
                 ELSE AbiAfter(chain[Max(now)], Len(chain[Max(now)]), Cleared)
    BY DEF AbiAt
<1>4. AbiAt(h)' = IF later = {} THEN Cleared
                  ELSE AbiAfter(chain'[Max(later)], Len(chain'[Max(later)]), Cleared)
    BY DEF AbiAt
<1> HIDE DEF now, later
<1> QED
    BY <1>1, <1>2, <1>3, <1>4

-----------------------------------------------------------------------------
(* The items of a block.                                                     *)

\* Of equal items the first is not a repeat.
LEMMA FirstOf ==
    ASSUME NEW items, NEW n \in Nat, NEW k \in 1 .. n
    PROVE  \E j \in 1 .. k : items[j] = items[k] /\ ~Repeated(items, j)
<1> DEFINE T == {j \in 1 .. k : items[j] = items[k]}
<1>1. T \in SUBSET Nat /\ k \in T
    OBVIOUS
<1>2. PICK m \in T : \A j \in T : m <= j
    BY <1>1, LeastNat
<1>3. ASSUME NEW i \in 1 .. m - 1, items[i] = items[m] PROVE FALSE
  <2>1. i \in T /\ i < m
    BY <1>2, <1>3
  <2> QED
    BY <1>2, <2>1
<1> QED
    BY <1>2, <1>3 DEF Repeated

LEMMA UpdatesIs ==
    ASSUME NEW block
    PROVE  Updates(block) <=> \E k \in 1 .. Len(block) : block[k].kind = "setabi"
BY DEF Updates, Setting

LEMMA WorkIs ==
    ASSUME Fed, TypeOK, NEW h \in 1 .. Len(chain)
    PROVE  /\ Work(h) \in Seq(WorkItem)
           /\ \A k \in 1 .. Len(Work(h)) : Work(h)[k].fork = forks
           /\ Chained(Work(h), AbiAt(h))
           /\ Announced(Work(h))
           /\ Work(h) = <<>> => AbiAt(h) = AbiAt(h - 1)
           /\ Work(h) # <<>> => Work(h)[1].active = AbiAt(h - 1)
           /\ Updates(chain[h]) => \E k \in 1 .. Len(Work(h)) : Brings(Work(h)[k])
<1> DEFINE items == chain[h]
           n == Len(items)
           end == AbiAt(h)
           after(k) == AbiAfter(items, k, AbiAt(h - 1))
           trace(k) == [kind |-> items[k].kind, repeat |-> Repeated(items, k), fork |-> forks,
                        active |-> after(k - 1), abi |-> after(k)]
           traces == [k \in 1 .. n |-> trace(k)]
           account == [kind |-> "account", repeat |-> FALSE, fork |-> forks,
                       active |-> end, abi |-> end]
           row == [kind |-> "row", repeat |-> FALSE, fork |-> forks,
                   active |-> end, abi |-> end]
           rest == IF FetchDeltas
                   THEN (IF Updates(items) THEN <<account>> ELSE <<>>) \o <<row>>
                   ELSE <<>>
<1>1. /\ items \in Blocks /\ n \in Nat /\ forks \in Nat
      /\ \A k \in 1 .. n : items[k].kind \in {"act", "setabi"}
      /\ \A k \in 1 .. n : items[k].kind = "setabi" => items[k].abi \in OnChain
  <2>1. items \in Blocks /\ forks \in Nat
    BY DEF TypeOK
  <2> HIDE DEF items
  <2> QED
    BY <2>1, BlockOf
<1>2. AbiAt(h - 1) \in OnChain /\ end \in OnChain /\ Cleared \in OnChain
  <2>1. chain \in Seq(Blocks) /\ h - 1 \in 0 .. Len(chain) /\ h \in 0 .. Len(chain)
    BY DEF TypeOK
  <2> QED
    BY <2>1, AtType, Values
<1>3. after(0) = AbiAt(h - 1) /\ after(n) = end
  <2>1. h \in Nat \ {0}
    BY DEF TypeOK
  <2>2. after(0) = AbiAt(h - 1)
    BY AfterItem
  <2> QED
    BY <2>1, <2>2, AtBlock
<1>4. \A k \in 0 .. n : after(k) \in OnChain
    BY <1>1, <1>2, AfterType
<1>5. \A k \in 1 .. n : after(k) = IF items[k].kind = "setabi" THEN items[k].abi
                                   ELSE after(k - 1)
    BY <1>1, AfterItem
<1>6. ASSUME NEW k \in 1 .. n, \A j \in k .. n : items[j].kind # "setabi"
      PROVE  after(k - 1) = end
  <2>1. k - 1 \in 0 .. n /\ (k - 1) + 1 = k /\ n \in Nat
    BY <1>1
  <2>2. after(n) = after(k - 1)
    BY <1>6, <2>1, AfterQuiet
  <2> QED
    BY <1>3, <2>2
<1>7. Updates(items) <=> \E k \in 1 .. n : items[k].kind = "setabi"
    BY UpdatesIs
<1> HIDE DEF after, end
<1>8. /\ traces \in Seq(WorkItem)
      /\ Len(traces) = n
      /\ \A k \in 1 .. n : traces[k] = trace(k)
  <2>1. ASSUME NEW k \in 1 .. n PROVE trace(k) \in WorkItem
    <3>1. /\ items[k].kind \in {"act", "setabi", "account", "row"}
          /\ after(k - 1) \in OnChain /\ after(k) \in OnChain
          /\ Repeated(items, k) \in BOOLEAN
      BY <1>1, <1>2, <1>4 DEF Repeated
    <3> HIDE DEF items
    <3> QED
      BY <1>1, <3>1 DEF WorkItem
  <2> HIDE DEF trace, n
  <2>2. traces \in [1 .. n -> WorkItem]
    BY <2>1
  <2>3. traces \in Seq(WorkItem)
    BY <1>1, <2>2
  <2> QED
    BY <1>1, <2>2, <2>3, LenProperties
<1>9. /\ rest \in Seq(WorkItem)
      /\ Len(rest) \in Nat
      /\ \A k \in 1 .. Len(rest) :
           /\ rest[k].kind \in {"account", "row"}
           /\ rest[k].fork = forks
           /\ rest[k].active = end /\ rest[k].abi = end
           /\ rest[k].kind = "account" => Updates(items)
  <2>1. account \in WorkItem /\ row \in WorkItem
    BY <1>1, <1>2 DEF WorkItem
  <2>2. /\ account.kind = "account" /\ account.fork = forks
        /\ account.active = end /\ account.abi = end
        /\ row.kind = "row" /\ row.fork = forks
        /\ row.active = end /\ row.abi = end
    OBVIOUS
  <2> HIDE DEF account, row, items
  <2>3. CASE ~FetchDeltas
    BY <2>3
  <2>4. CASE FetchDeltas /\ ~Updates(items)
    <3>1. rest = <<>> \o <<row>>
      BY <2>4
    <3>2. rest = <<row>>
      BY <2>1, <3>1
    <3> HIDE DEF rest
    <3> QED
      BY <2>1, <2>2, <3>2
  <2>5. CASE FetchDeltas /\ Updates(items)
    <3>1. rest = <<account>> \o <<row>>
      BY <2>5
    <3> HIDE DEF rest
    <3>2. /\ <<account>> \in Seq(WorkItem) /\ Len(<<account>>) = 1 /\ <<account>>[1] = account
          /\ <<row>> \in Seq(WorkItem) /\ Len(<<row>>) = 1 /\ <<row>>[1] = row
      BY <2>1
    <3>3. rest \in Seq(WorkItem) /\ Len(rest) = 2 /\ rest[1] = account /\ rest[2] = row
      <4>1. /\ rest \in Seq(WorkItem) /\ Len(rest) = 1 + 1
            /\ \A i \in 1 .. 1 + 1 : rest[i] = IF i <= 1 THEN <<account>>[i] ELSE <<row>>[i - 1]
        BY <3>1, <3>2, ConcatProperties
      <4> QED
        BY <3>2, <4>1
    <3>4. \A k \in 1 .. 2 : k = 1 \/ k = 2
      OBVIOUS
    <3> QED
      BY <2>2, <2>5, <3>3, <3>4
  <2> QED
    BY <2>3, <2>4, <2>5
<1>10. Work(h) = traces \o rest
    BY DEF Work, Fed, after, end
<1>11. /\ \A k \in 1 .. n :
            /\ traces[k].kind = items[k].kind
            /\ traces[k].fork = forks
            /\ traces[k].active = after(k - 1)
            /\ traces[k].abi = after(k)
            /\ traces[k].repeat = Repeated(items, k)
    BY <1>8
<1> HIDE DEF traces, rest, trace, items, n
<1> DEFINE work == Work(h)
           m == n + Len(rest)
<1>12. /\ work \in Seq(WorkItem)
       /\ Len(work) = m
       /\ \A k \in 1 .. m : work[k] = IF k <= n THEN traces[k] ELSE rest[k - n]
  <2>1. /\ traces \o rest \in Seq(WorkItem)
        /\ Len(traces \o rest) = Len(traces) + Len(rest)
        /\ \A k \in 1 .. Len(traces) + Len(rest) :
             (traces \o rest)[k] = IF k <= Len(traces) THEN traces[k] ELSE rest[k - Len(traces)]
    BY <1>8, <1>9, ConcatProperties
  <2>2. work = traces \o rest
    BY <1>10
  <2> HIDE DEF work
  <2> QED
    BY <1>8, <2>1, <2>2
<1> HIDE DEF work
<1>13. ASSUME NEW k \in 1 .. m
       PROVE  /\ k <= n => k \in 1 .. n /\ work[k] = traces[k]
              /\ k > n => k - n \in 1 .. Len(rest) /\ work[k] = rest[k - n]
    BY <1>1, <1>9, <1>12
<1>14. ASSUME NEW k \in 1 .. m PROVE work[k].fork = forks
  <2>1. CASE k <= n
    BY <1>11, <1>13, <2>1
  <2>2. CASE k > n
    BY <1>9, <1>13, <2>2
  <2> QED
    BY <1>1, <2>1, <2>2
<1>15. ASSUME NEW k \in n + 1 .. m
       PROVE  k \in 1 .. m /\ work[k].active = end /\ work[k].abi = end
              /\ work[k].kind # "setabi"
  <2>1. k \in 1 .. m /\ k > n
    BY <1>1, <1>9
  <2>2. k - n \in 1 .. Len(rest) /\ work[k] = rest[k - n]
    BY <1>13, <2>1
  <2> QED
    BY <1>9, <2>1, <2>2
<1>16. ASSUME NEW k \in 1 .. m
       PROVE  /\ work[k].abi = IF k = m THEN end ELSE work[k + 1].active
              /\ work[k].kind # "setabi" => work[k].abi = work[k].active
              /\ \/ work[k].active = end
                 \/ \E j \in k .. m : work[j].kind = "setabi"
  <2>1. CASE k > n
    <3>1. work[k].active = end /\ work[k].abi = end /\ work[k].kind # "setabi"
      <4>1. k - n \in 1 .. Len(rest) /\ work[k] = rest[k - n]
        BY <1>13, <2>1
      <4> QED
        BY <1>9, <4>1
    <3>2. k # m => work[k + 1].active = end
      <4>1. k # m => k + 1 \in n + 1 .. m
        BY <1>1, <1>9, <2>1
      <4> QED
        BY <1>15, <4>1
    <3> QED
      BY <3>1, <3>2
  <2>2. CASE k <= n
    <3>1. k \in 1 .. n /\ work[k] = traces[k] /\ k \in Nat
      BY <1>13, <2>2
    <3>2. work[k].abi = after(k)
      BY <1>11, <3>1
    <3>3. after(k) = IF k = m THEN end ELSE work[k + 1].active
      <4>1. CASE k < n
        <5>1. k + 1 \in 1 .. m /\ k + 1 <= n /\ (k + 1) - 1 = k /\ k # m
          BY <1>1, <1>9, <3>1, <4>1
        <5>2. work[k + 1] = traces[k + 1] /\ k + 1 \in 1 .. n
          BY <1>13, <5>1
        <5> QED
          BY <1>11, <5>1, <5>2
      <4>2. CASE k = n
        <5>1. k # m => k + 1 \in n + 1 .. m
          BY <1>1, <1>9, <4>2
        <5> QED
          BY <1>3, <1>15, <4>2, <5>1
      <4> QED
        BY <1>1, <3>1, <4>1, <4>2
    <3>4. work[k].kind # "setabi" => work[k].abi = work[k].active
      BY <1>5, <1>11, <3>1
    <3>5. work[k].active = end \/ \E j \in k .. m : work[j].kind = "setabi"
      <4>1. CASE \E j \in k .. n : items[j].kind = "setabi"
        <5>1. PICK j \in k .. n : items[j].kind = "setabi"
          BY <4>1
        <5>2. j \in 1 .. m /\ j <= n /\ j \in k .. m
          BY <1>1, <1>9, <3>1
        <5>3. work[j].kind = "setabi"
          BY <1>11, <1>13, <5>1, <5>2
        <5> QED
          BY <5>2, <5>3
      <4>2. CASE \A j \in k .. n : items[j].kind # "setabi"
        <5>1. after(k - 1) = end
          BY <1>6, <3>1, <4>2
        <5> QED
          BY <1>11, <3>1, <5>1
      <4> QED
        BY <4>1, <4>2
    <3> QED
      BY <3>2, <3>3, <3>4, <3>5
  <2> QED
    BY <1>1, <2>1, <2>2
<1>17. \A k \in 1 .. n : /\ k \in 1 .. m
                          /\ work[k].kind = items[k].kind
                          /\ work[k].repeat = Repeated(items, k)
  <2>1. \A k \in 1 .. n : k \in 1 .. m
    BY <1>1, <1>9
  <2> QED
    BY <1>1, <1>11, <1>13, <2>1
<1>18. ASSUME NEW k \in 1 .. n, items[k].kind = "setabi"
       PROVE  \E j \in 1 .. k : Brings(work[j]) /\ ~Repeated(items, j)
  <2>1. PICK j \in 1 .. k : items[j] = items[k] /\ ~Repeated(items, j)
    BY <1>1, FirstOf
  <2>2. j \in 1 .. n
    BY <1>1
  <2> QED
    BY <1>17, <1>18, <2>1, <2>2 DEF Brings
<1>23. Updates(items) => \E k \in 1 .. n : k \in 1 .. m /\ Brings(work[k])
  <2> SUFFICES ASSUME Updates(items) PROVE \E k \in 1 .. n : k \in 1 .. m /\ Brings(work[k])
    OBVIOUS
  <2>1. PICK k \in 1 .. n : items[k].kind = "setabi"
    BY <1>7
  <2>2. PICK j \in 1 .. k : Brings(work[j])
    BY <1>18, <2>1
  <2>3. j \in 1 .. n
    BY <1>1
  <2> QED
    BY <1>17, <2>2, <2>3
<1>24. ASSUME NEW k \in 1 .. m, Late(work[k])
       PROVE  \E j \in 1 .. k - 1 : Brings(work[j])
  <2>1. CASE k > n
    <3>1. k - n \in 1 .. Len(rest) /\ work[k] = rest[k - n]
      BY <1>13, <2>1
    <3>2. Updates(items)
      BY <1>9, <1>24, <3>1 DEF Late
    <3>3. PICK j \in 1 .. n : Brings(work[j])
      BY <1>23, <3>2
    <3>4. j \in 1 .. k - 1
      BY <1>1, <1>9, <2>1
    <3> QED
      BY <3>3, <3>4
  <2>2. CASE k <= n
    <3>1. k \in 1 .. n
      BY <2>2
    <3>2. items[k].kind = "setabi" /\ Repeated(items, k)
      BY <1>1, <1>17, <1>24, <3>1 DEF Late
    <3>3. PICK j \in 1 .. k : Brings(work[j]) /\ ~Repeated(items, j)
      BY <1>18, <3>1, <3>2
    <3>4. j \in 1 .. k - 1
      BY <3>1, <3>2, <3>3
    <3> QED
      BY <3>3, <3>4
  <2> QED
    BY <1>1, <2>1, <2>2
<1>19. m \in Nat /\ (work = <<>> <=> m = 0)
    BY <1>1, <1>9, <1>12
<1>20. work = <<>> => end = AbiAt(h - 1)
    BY <1>1, <1>3, <1>9, <1>19
<1>21. work # <<>> => work[1].active = AbiAt(h - 1)
  <2> SUFFICES ASSUME work # <<>> PROVE work[1].active = AbiAt(h - 1)
    OBVIOUS
  <2>1. 1 \in 1 .. m
    BY <1>19
  <2>2. CASE n = 0
    <3>1. work[1].active = end
      BY <1>15, <2>1, <2>2
    <3> QED
      BY <1>3, <2>2, <3>1
  <2>3. CASE n # 0
    <3>1. 1 \in 1 .. n /\ work[1] = traces[1]
      BY <1>1, <1>13, <2>1, <2>3
    <3> QED
      BY <1>3, <1>11, <3>1
  <2> QED
    BY <2>2, <2>3
<1>22. Chained(work, end) /\ Announced(work)
    BY <1>12, <1>16, <1>24 DEF Chained, Announced
<1> QED
    BY <1>12, <1>14, <1>23, <1>20, <1>21, <1>22 DEF work, end, items

-----------------------------------------------------------------------------
(* Steps.                                                                    *)

LEMMA TodoIs ==
    ASSUME TypeOK, todo # <<>>
    PROVE  /\ Len(todo) \in Nat \ {0}
           /\ Head(todo) = todo[1]
           /\ Head(todo) \in WorkItem
           /\ Tail(todo) \in Seq(WorkItem)
           /\ Len(Tail(todo)) = Len(todo) - 1
           /\ \A k \in 1 .. Len(todo) - 1 : Tail(todo)[k] = todo[k + 1]
           /\ Tail(todo) # <<>> => Head(Tail(todo)) = todo[2] /\ Len(todo) > 1
           /\ Tail(todo) = <<>> => Len(todo) = 1
<1>1. todo \in Seq(WorkItem)
    BY DEF TypeOK
<1>2. /\ Len(todo) \in Nat \ {0}
      /\ Head(todo) = todo[1]
      /\ Head(todo) \in WorkItem
      /\ Tail(todo) \in Seq(WorkItem)
      /\ Len(Tail(todo)) = Len(todo) - 1
      /\ \A k \in 1 .. Len(todo) - 1 : Tail(todo)[k] = todo[k + 1]
    BY <1>1, HeadTailProperties, EmptySeq
<1>3. /\ Tail(todo) # <<>> => Len(Tail(todo)) \in Nat \ {0} /\ Head(Tail(todo)) = Tail(todo)[1]
      /\ Tail(todo) = <<>> => Len(Tail(todo)) = 0
  <2> DEFINE rest == Tail(todo)
  <2>1. rest \in Seq(WorkItem)
    BY <1>2
  <2> HIDE DEF rest
  <2>2. rest # <<>> => Len(rest) \in Nat \ {0}
    BY <2>1, EmptySeq
  <2>3. rest # <<>> => Head(rest) = rest[1]
    BY <2>1
  <2>4. rest = <<>> => Len(rest) = 0
    OBVIOUS
  <2> QED
    BY <2>2, <2>3, <2>4 DEF rest
<1> QED
    BY <1>2, <1>3

\* The chain grows by a block at its end.
LEMMA ProduceIs ==
    ASSUME TypeOK, Produce
    PROVE  /\ chain' \in Seq(Blocks)
           /\ Len(chain') = Len(chain) + 1
           /\ Len(chain) \in Nat
           /\ \A h \in 1 .. Len(chain) : chain'[h] = chain[h]
           /\ next' = IF forks > 0 /\ Len(chain) + 1 < next THEN Len(chain) + 1 ELSE next
           /\ <<forks, todo, abis, decoder, source>>' = <<forks, todo, abis, decoder, source>>
<1>1. PICK block \in Blocks : chain' = Append(chain, block)
    BY DEF Produce
<1>2. chain \in Seq(Blocks)
    BY DEF TypeOK
<1> QED
    BY <1>1, <1>2, AppendProperties DEF Produce, cache

LEMMA ForkIs ==
    ASSUME TypeOK, Fork
    PROVE  /\ chain' \in Seq(Blocks)
           /\ forks' = forks + 1
           /\ source' = IF source = "none" THEN "none" ELSE "fork"
           /\ <<next, todo, abis, decoder>>' = <<next, todo, abis, decoder>>
<1>1. PICK h \in 1 .. Len(chain) : chain' = SubSeq(chain, 1, h - 1)
    BY DEF Fork
<1>2. chain \in Seq(Blocks) /\ h - 1 \in Int
    BY DEF TypeOK
<1>3. \A i \in 1 .. h - 1 : chain[i] \in Blocks
    BY <1>2
<1>4. chain' \in Seq(Blocks)
    BY <1>1, <1>2, <1>3, SubSeqProperties
<1> QED
    BY <1>4 DEF Fork

LEMMA TakeIs ==
    ASSUME TypeOK, TakeBlock
    PROVE  /\ todo = <<>> /\ todo' = Work(next) /\ next' = next + 1
           /\ next \in 1 .. Len(chain)
           /\ <<chain, forks, abis, decoder, source>>' = <<chain, forks, abis, decoder, source>>
BY DEF TakeBlock, node, cache, TypeOK

\* Items are taken from the front.
Taken == todo # <<>> /\ todo' = Tail(todo) /\ <<chain, forks, next>>' = <<chain, forks, next>>

LEMMA UpdateIs ==
    ASSUME NEW abi, Update(abi)
    PROVE  abis' = Usable(abi) /\ decoder' = Missing /\ source' = OfStream
BY DEF Update

LEMMA SetAbiIs ==
    ASSUME Fed, SetAbi
    PROVE  /\ Taken /\ Brings(Head(todo))
           /\ abis' = Usable(Head(todo).abi) /\ decoder' = Missing /\ source' = OfStream
<1>1. Taken /\ Brings(Head(todo))
    BY DEF SetAbi, Taken, NextIs, node, Brings
<1>2. Update(Head(todo).abi)
    BY DEF SetAbi, Fed
<1> QED
    BY <1>1, <1>2, UpdateIs

LEMMA AccountRowIs ==
    ASSUME AccountRow
    PROVE  /\ Taken /\ Head(todo).kind = "account"
           /\ \/ /\ Head(todo).abi = Cleared
                 /\ <<abis, decoder, source>>' = <<abis, decoder, source>>
              \/ abis' = Usable(Head(todo).abi) /\ decoder' = Missing /\ source' = OfStream
<1>1. Taken /\ Head(todo).kind = "account"
    BY DEF AccountRow, Taken, NextIs, node
<1>2. CASE Head(todo).abi = Cleared
    BY <1>1, <1>2 DEF AccountRow, cache
<1>3. CASE Head(todo).abi # Cleared
  <2>1. Update(Head(todo).abi)
    BY <1>3 DEF AccountRow
  <2> QED
    BY <1>1, <2>1, UpdateIs
<1> QED
    BY <1>2, <1>3

LEMMA CollapsedIs ==
    ASSUME Collapsed
    PROVE  /\ Taken /\ Head(todo).repeat
           /\ <<abis, decoder>>' = <<abis, decoder>>
           /\ source' = IF source = "stream" /\ Head(todo).abi # Head(todo).active
                        THEN "repeat" ELSE source
BY DEF Collapsed, Taken, node

LEMMA DecodeIs ==
    ASSUME TypeOK, EntryKnown, Decode
    PROVE  /\ Taken /\ Head(todo).kind \in {"act", "row"}
           /\ active' = Head(todo).active
           /\ used' = abis'
           /\ decoder' \in {Missing, abis'} /\ decoder' \in Abis \cup {Missing}
           /\ \/ abis # Missing /\ abis' = abis /\ source' = source
              \/ abis = Missing /\ abis' = Usable(AbiAt(Len(chain))) /\ source' = "api"
              \/ abis = Missing /\ abis' = NoAbi /\ source' = "failure"
<1>1. /\ Taken /\ Head(todo).kind \in {"act", "row"}
      /\ active' = Head(todo).active
    BY DEF Decode, Taken, NextIs, node
<1>2. CASE Hit
    BY <1>1, <1>2 DEF Hit, cache, EntryKnown, TypeOK
<1>3. ASSUME NEW entry \in Abis \cup {NoAbi}, Prepare(entry)
      PROVE  /\ abis' = entry /\ used' = abis'
             /\ decoder' \in {Missing, abis'} /\ decoder' \in Abis \cup {Missing}
    BY <1>3 DEF Prepare
<1>4. CASE Cached
  <2>1. abis \in Abis \cup {NoAbi} /\ Prepare(abis) /\ abis # Missing /\ source' = source
    BY <1>4 DEF Cached, TypeOK
  <2> QED
    BY <1>1, <1>3, <2>1
<1>5. CASE Fetch
  <2>1. /\ Prepare(Usable(AbiAt(Len(chain)))) /\ abis = Missing /\ source' = "api"
        /\ Usable(AbiAt(Len(chain))) \in Abis \cup {NoAbi}
    BY <1>5, Values DEF Fetch
  <2> QED
    BY <1>1, <1>3, <2>1
<1>6. CASE FetchFails
  <2>1. Prepare(NoAbi) /\ abis = Missing /\ source' = "failure"
    BY <1>6 DEF FetchFails
  <2> QED
    BY <1>1, <1>3, <2>1
<1> QED
    BY <1>2, <1>4, <1>5, <1>6 DEF Decode

LEMMA RestartIs ==
    ASSUME TypeOK, Restart
    PROVE  /\ <<chain, forks>>' = <<chain, forks>>
           /\ next' \in 1 .. next
           /\ todo' = <<>> /\ abis' = Missing /\ decoder' = Missing /\ source' = "none"
BY DEF Restart, node

LEMMA StutterIs ==
    ASSUME UNCHANGED vars
    PROVE  /\ chain' = chain /\ forks' = forks /\ next' = next /\ todo' = todo
           /\ abis' = abis /\ decoder' = decoder /\ source' = source
BY DEF vars, node, cache

-----------------------------------------------------------------------------
(* Each part of the invariant.                                               *)

LEMMA TypeStep == Fed /\ TypeOK /\ EntryKnown /\ [Next]_vars => TypeOK'
<1> SUFFICES ASSUME Fed, TypeOK, EntryKnown, [Next]_vars PROVE TypeOK'
    OBVIOUS
<1>1. CASE Produce
  <2>1. next' \in Nat \ {0}
    BY <1>1, ProduceIs DEF TypeOK
  <2> QED
    BY <1>1, <2>1, ProduceIs DEF TypeOK
<1>2. CASE Fork
  <2>1. source' \in {"none", "fork"} /\ forks' \in Nat
    BY <1>2, ForkIs DEF TypeOK
  <2> QED
    BY <1>2, <2>1, ForkIs DEF TypeOK
<1>3. CASE TakeBlock
  <2>1. Work(next) \in Seq(WorkItem) /\ next' \in Nat \ {0}
    BY <1>3, TakeIs, WorkIs DEF TypeOK
  <2> QED
    BY <1>3, <2>1, TakeIs DEF TypeOK
<1>4. ASSUME Taken PROVE /\ chain' \in Seq(Blocks) /\ forks' \in Nat /\ next' \in Nat \ {0}
                         /\ todo' \in Seq(WorkItem)
    BY <1>4, TodoIs DEF Taken, TypeOK
<1>5. OfStream \in {"stream", "fork"}
    BY DEF OfStream
<1>6. CASE SetAbi
    BY <1>4, <1>5, <1>6, SetAbiIs, Values DEF TypeOK
<1>7. CASE AccountRow
    BY <1>4, <1>5, <1>7, AccountRowIs, Values DEF TypeOK
<1>8. CASE Decode
    BY <1>4, <1>8, DecodeIs, Values DEF TypeOK
<1>12. CASE Collapsed
    BY <1>4, <1>12, CollapsedIs DEF TypeOK
<1>9. CASE Restart
  <2>1. next' \in Nat \ {0}
    BY <1>9, RestartIs DEF TypeOK
  <2>2. todo' \in Seq(WorkItem)
    BY <1>9, RestartIs
  <2> QED
    BY <1>9, <2>1, <2>2, RestartIs DEF TypeOK
<1>10. CASE UNCHANGED vars
    BY <1>10, StutterIs DEF TypeOK
<1> QED
    BY <1>1, <1>2, <1>3, <1>6, <1>7, <1>8, <1>12, <1>9, <1>10 DEF Next

LEMMA EntryStep == Fed /\ TypeOK /\ EntryKnown /\ [Next]_vars => EntryKnown'
<1> SUFFICES ASSUME Fed, TypeOK, EntryKnown, [Next]_vars PROVE EntryKnown'
    OBVIOUS
<1>1. CASE Produce
    BY <1>1, ProduceIs DEF EntryKnown
<1>2. CASE Fork
    BY <1>2, ForkIs DEF EntryKnown
<1>3. CASE TakeBlock
    BY <1>3, TakeIs DEF EntryKnown
<1>5. OfStream # "none"
    BY DEF OfStream
<1>6. CASE SetAbi
  <2>1. abis' # Missing
    BY <1>6, SetAbiIs, Values
  <2> QED
    BY <1>5, <1>6, <2>1, SetAbiIs DEF EntryKnown
<1>7. CASE AccountRow
  <2>1. Usable(Head(todo).abi) # Missing
    BY Values
  <2> QED
    BY <1>5, <1>7, <2>1, AccountRowIs DEF EntryKnown
<1>8. CASE Decode
  <2>1. Usable(AbiAt(Len(chain))) # Missing /\ NoAbi # Missing
    BY Values
  <2> QED
    BY <1>8, <2>1, DecodeIs DEF EntryKnown
<1>12. CASE Collapsed
    BY <1>12, CollapsedIs DEF EntryKnown
<1>9. CASE Restart
    BY <1>9, RestartIs DEF EntryKnown
<1>10. CASE UNCHANGED vars
    BY <1>10, StutterIs DEF EntryKnown
<1> QED
    BY <1>1, <1>2, <1>3, <1>6, <1>7, <1>8, <1>12, <1>9, <1>10 DEF Next

\* The three ways in which the list of items changes.
LEMMA ItemSteps ==
    ASSUME Fed, TypeOK, EntryKnown, [Next]_vars
    PROVE  \/ Produce \/ Fork \/ TakeBlock \/ Taken \/ Restart
           \/ <<chain, forks, next, todo>>' = <<chain, forks, next, todo>>
BY SetAbiIs, CollapsedIs, AccountRowIs, DecodeIs, StutterIs DEF Next

LEMMA OneChainStep == Fed /\ TypeOK /\ EntryKnown /\ OneChain /\ [Next]_vars => OneChain'
<1> SUFFICES ASSUME Fed, TypeOK, EntryKnown, OneChain, [Next]_vars PROVE OneChain'
    OBVIOUS
<1>1. CASE Produce
    BY <1>1, ProduceIs DEF OneChain
<1>2. CASE Fork
  <2>1. \A k \in 1 .. Len(todo) : todo[k].fork \in Nat
    <3>1. \A k \in 1 .. Len(todo) : todo[k] \in WorkItem
      BY ElementOfSeq DEF TypeOK
    <3> QED
      BY <3>1 DEF WorkItem
  <2>2. \A k \in 1 .. Len(todo) : todo[k].fork <= forks + 1
    BY <2>1 DEF OneChain, TypeOK
  <2> QED
    BY <1>2, <2>2, ForkIs DEF OneChain
<1>3. CASE TakeBlock
  <2>1. /\ todo' \in Seq(WorkItem)
        /\ \A k \in 1 .. Len(todo') : todo'[k].fork = forks
        /\ forks' = forks
    BY <1>3, TakeIs, WorkIs
  <2>2. todo' # <<>> => Head(todo') = todo'[1] /\ 1 \in 1 .. Len(todo')
    BY <2>1, EmptySeq
  <2>3. \A k \in 1 .. Len(todo') : todo' # <<>>
    BY <2>1
  <2> QED
    BY <2>1, <2>2, <2>3 DEF OneChain, TypeOK
<1>4. CASE Taken
  <2>1. CASE Tail(todo) = <<>>
    BY <1>4, <2>1 DEF Taken, OneChain
  <2>2. CASE Tail(todo) # <<>>
    <3>1. /\ todo' = Tail(todo) /\ forks' = forks
          /\ Len(todo') = Len(todo) - 1 /\ Len(todo) \in Nat /\ Len(todo) > 1
          /\ Head(todo') = todo[2]
          /\ \A k \in 1 .. Len(todo') : todo'[k] = todo[k + 1]
      BY <1>4, <2>2, TodoIs DEF Taken
    <3>2. todo[2].fork = Head(todo).fork
      BY <3>1 DEF OneChain
    <3>3. \A k \in 1 .. Len(todo') : todo'[k].fork = Head(todo).fork /\ todo'[k].fork <= forks
      BY <3>1 DEF OneChain
    <3> QED
      BY <3>1, <3>2, <3>3 DEF OneChain
  <2> QED
    BY <2>1, <2>2
<1>5. CASE Restart
    BY <1>5, RestartIs DEF OneChain
<1>6. CASE <<chain, forks, next, todo>>' = <<chain, forks, next, todo>>
    BY <1>6 DEF OneChain
<1> QED
    BY <1>1, <1>2, <1>3, <1>4, <1>5, <1>6, ItemSteps

\* Without its first item a chain of items is one that starts where that item
\* leaves off.
LEMMA ChainedTail ==
    ASSUME TypeOK, todo # <<>>, NEW end, Chained(todo, end)
    PROVE  /\ Chained(Tail(todo), end)
           /\ Head(todo).abi = IF Tail(todo) = <<>> THEN end ELSE Head(Tail(todo)).active
<1> DEFINE n == Len(todo)
<1>1. /\ n \in Nat /\ n >= 1 /\ Head(todo) = todo[1]
      /\ Len(Tail(todo)) = n - 1
      /\ \A k \in 1 .. n - 1 : Tail(todo)[k] = todo[k + 1]
      /\ Tail(todo) # <<>> => Head(Tail(todo)) = todo[2] /\ n > 1
      /\ Tail(todo) = <<>> => n = 1
    BY TodoIs
<1>2. \A k \in 1 .. n :
        /\ todo[k].abi = IF k = n THEN end ELSE todo[k + 1].active
        /\ todo[k].kind # "setabi" => todo[k].abi = todo[k].active
        /\ \/ todo[k].active = end
           \/ \E j \in k .. n : todo[j].kind = "setabi"
    BY DEF Chained
<1>3. Head(todo).abi = IF Tail(todo) = <<>> THEN end ELSE Head(Tail(todo)).active
  <2>1. 1 \in 1 .. n /\ 1 + 1 = 2
    BY <1>1
  <2>2. todo[1].abi = IF 1 = n THEN end ELSE todo[2].active
    BY <1>2, <2>1
  <2> QED
    BY <1>1, <2>2
<1> DEFINE rest == Tail(todo)
<1>4. Len(rest) = n - 1 /\ \A k \in 1 .. n - 1 : rest[k] = todo[k + 1]
    BY <1>1
<1> HIDE DEF rest, n
<1>5. ASSUME NEW k \in 1 .. n - 1
      PROVE  /\ rest[k].abi = IF k = n - 1 THEN end ELSE rest[k + 1].active
             /\ rest[k].kind # "setabi" => rest[k].abi = rest[k].active
             /\ \/ rest[k].active = end
                \/ \E j \in k .. n - 1 : rest[j].kind = "setabi"
  <2>1. k + 1 \in 1 .. n /\ rest[k] = todo[k + 1]
    BY <1>1, <1>4
  <2>2. rest[k].abi = IF k = n - 1 THEN end ELSE rest[k + 1].active
    <3>1. k # n - 1 => k + 1 \in 1 .. n - 1 /\ k + 1 # n
      BY <1>1
    <3>2. k # n - 1 => rest[k + 1] = todo[(k + 1) + 1]
      BY <1>4, <3>1
    <3> QED
      BY <1>1, <1>2, <2>1, <3>1, <3>2
  <2>3. rest[k].active = end \/ \E j \in k .. n - 1 : rest[j].kind = "setabi"
    <3>1. CASE todo[k + 1].active = end
      BY <2>1, <3>1
    <3>2. CASE \E j \in k + 1 .. n : todo[j].kind = "setabi"
      <4>1. PICK j \in k + 1 .. n : todo[j].kind = "setabi"
        BY <3>2
      <4>2. j - 1 \in k .. n - 1 /\ j - 1 \in 1 .. n - 1 /\ (j - 1) + 1 = j
        BY <1>1
      <4> QED
        BY <1>4, <4>1, <4>2
    <3> QED
      BY <1>2, <2>1, <3>1, <3>2
  <2> QED
    BY <1>2, <2>1, <2>2, <2>3
<1> QED
    BY <1>3, <1>4, <1>5 DEF Chained, rest

\* Blocks at or below the end of the chain stay as it grows.
LEMMA AtGrows ==
    ASSUME TypeOK, Produce, NEW h \in 0 .. Len(chain)
    PROVE  AbiAt(h)' = AbiAt(h)
<1>1. h \in Nat /\ \A x \in 1 .. h : chain'[x] = chain[x]
    BY ProduceIs
<1> QED
    BY <1>1, AtPrefix

LEMMA AtSame ==
    ASSUME TypeOK, chain' = chain, NEW h \in Nat
    PROVE  AbiAt(h)' = AbiAt(h)
BY AtPrefix

\* What is left of a block of the present chain stays such.
LEMMA TakenOn ==
    ASSUME TypeOK, OneChain, InHand, Taken, Current
    PROVE  /\ todo' # <<>> => Current'
           /\ next' - 1 <= Len(chain')
           /\ Chained(todo, AbiAt(next - 1))'
           /\ Position' = Head(todo).abi
           /\ Head(todo).kind # "setabi" => Head(todo).abi = Head(todo).active
<1>1. /\ todo # <<>> /\ todo' = Tail(todo)
      /\ chain' = chain /\ forks' = forks /\ next' = next
    BY DEF Taken
<1>2. next - 1 <= Len(chain) /\ Chained(todo, AbiAt(next - 1))
    BY <1>1 DEF InHand
<1>3. AbiAt(next - 1)' = AbiAt(next - 1)
    BY <1>1 DEF AbiAt
<1>4. /\ Chained(Tail(todo), AbiAt(next - 1))
      /\ Head(todo).abi =
            IF Tail(todo) = <<>> THEN AbiAt(next - 1) ELSE Head(Tail(todo)).active
    BY <1>1, <1>2, ChainedTail
<1>5. Chained(todo, AbiAt(next - 1))'
    BY <1>1, <1>3, <1>4
<1>6. Position' = Head(todo).abi
    BY <1>1, <1>3, <1>4 DEF Position
<1>7. todo' # <<>> => Current'
  <2>1. Tail(todo) # <<>> => Head(Tail(todo)) = todo[2] /\ 2 \in 1 .. Len(todo)
    BY <1>1, TodoIs
  <2>2. Tail(todo) # <<>> => Head(Tail(todo)).fork = Head(todo).fork
    BY <2>1 DEF OneChain
  <2> QED
    BY <1>1, <2>2 DEF Current
<1>8. Head(todo).kind # "setabi" => Head(todo).abi = Head(todo).active
  <2>1. Head(todo) = todo[1] /\ 1 \in 1 .. Len(todo)
    BY <1>1, TodoIs
  <2> QED
    BY <1>2, <2>1 DEF Chained
<1> QED
    BY <1>1, <1>2, <1>5, <1>6, <1>7, <1>8

LEMMA InHandStep ==
    Fed /\ TypeOK /\ EntryKnown /\ OneChain /\ InHand /\ [Next]_vars => InHand'
<1> SUFFICES ASSUME Fed, TypeOK, EntryKnown, OneChain, InHand, [Next]_vars,
                    todo' # <<>>, Current'
             PROVE  next' - 1 <= Len(chain') /\ Chained(todo, AbiAt(next - 1))'
    BY DEF InHand
<1>t. next \in Nat \ {0} /\ forks \in Nat /\ Len(chain) \in Nat /\ todo \in Seq(WorkItem)
    BY DEF TypeOK
<1>1. CASE Produce
  <2>1. todo # <<>> /\ Current /\ todo' = todo
    BY <1>1, ProduceIs DEF Current
  <2>2. next - 1 <= Len(chain) /\ Chained(todo, AbiAt(next - 1))
    BY <2>1 DEF InHand
  <2>3. next' = next /\ Len(chain') = Len(chain) + 1
    BY <1>1, <1>t, <2>2, ProduceIs
  <2>4. PICK h \in 0 .. Len(chain) : h = next - 1
    BY <1>t, <2>2
  <2>5. AbiAt(h)' = AbiAt(h)
    BY <1>1, AtGrows
  <2>6. AbiAt(next - 1)' = AbiAt(next - 1)
    BY <2>3, <2>4, <2>5 DEF AbiAt
  <2> QED
    BY <1>t, <2>1, <2>2, <2>3, <2>6
<1>2. CASE Fork
  <2>1. todo # <<>> /\ todo' = todo /\ forks' = forks + 1
    BY <1>2, ForkIs
  <2>2. Head(todo) = todo[1] /\ 1 \in 1 .. Len(todo) /\ Head(todo) \in WorkItem
    BY <2>1, TodoIs
  <2>3. Head(todo).fork <= forks /\ Head(todo).fork \in Nat
    BY <2>2 DEF OneChain, WorkItem
  <2> QED
    BY <1>t, <2>1, <2>3 DEF Current
<1>3. CASE TakeBlock
  <2>1. /\ todo' = Work(next) /\ next' = next + 1 /\ next \in 1 .. Len(chain) /\ chain' = chain
        /\ next' - 1 = next
    BY <1>3, <1>t, TakeIs
  <2>2. Chained(Work(next), AbiAt(next))
    BY <2>1, WorkIs
  <2>3. AbiAt(next - 1)' = AbiAt(next)
    BY <2>1 DEF AbiAt
  <2> QED
    BY <2>1, <2>2, <2>3
<1>4. CASE Taken
  <2>1. todo # <<>> /\ todo' = Tail(todo) /\ forks' = forks
    BY <1>4 DEF Taken
  <2>2. Head(Tail(todo)) = todo[2] /\ 2 \in 1 .. Len(todo)
    BY <2>1, TodoIs
  <2>3. Head(Tail(todo)).fork = Head(todo).fork
    BY <2>2 DEF OneChain
  <2>4. Current
    BY <2>1, <2>3 DEF Current
  <2> QED
    BY <1>4, <2>4, TakenOn
<1>5. CASE Restart
    BY <1>5, RestartIs
<1>6. CASE <<chain, forks, next, todo>>' = <<chain, forks, next, todo>>
  <2>1. AbiAt(next - 1)' = AbiAt(next - 1)
    BY <1>6 DEF AbiAt
  <2>2. todo # <<>> /\ Current
    BY <1>6 DEF Current
  <2> QED
    BY <1>6, <2>1, <2>2 DEF InHand
<1> QED
    BY <1>1, <1>2, <1>3, <1>4, <1>5, <1>6, ItemSteps

LEMMA FollowsStep ==
    Fed /\ TypeOK /\ EntryKnown /\ OneChain /\ InHand /\ Follows /\ [Next]_vars => Follows'
<1> SUFFICES ASSUME Fed, TypeOK, EntryKnown, OneChain, InHand, Follows, [Next]_vars,
                    source' = "stream"
             PROVE  /\ next' - 1 <= Len(chain')
                    /\ todo' # <<>> => Current'
                    /\ abis' = Usable(Position')
    BY DEF Follows, Usable
<1>t. next \in Nat \ {0} /\ forks \in Nat /\ Len(chain) \in Nat /\ todo \in Seq(WorkItem)
    BY DEF TypeOK
<1>1. CASE Produce
  <2>1. todo' = todo /\ forks' = forks /\ abis' = abis /\ source = "stream"
    BY <1>1, ProduceIs
  <2>2. next - 1 <= Len(chain) /\ (todo # <<>> => Current) /\ abis = Usable(Position)
    BY <2>1 DEF Follows
  <2>3. next' = next /\ Len(chain') = Len(chain) + 1
    BY <1>1, <1>t, <2>2, ProduceIs
  <2>4. PICK h \in 0 .. Len(chain) : h = next - 1
    BY <1>t, <2>2
  <2>5. AbiAt(h)' = AbiAt(h)
    BY <1>1, AtGrows
  <2>6. AbiAt(next - 1)' = AbiAt(next - 1)
    BY <2>3, <2>4, <2>5 DEF AbiAt
  <2>7. Position' = Position
    BY <2>1, <2>6 DEF Position
  <2> QED
    BY <1>t, <2>1, <2>2, <2>3, <2>7 DEF Current
<1>2. CASE Fork
    BY <1>2, ForkIs
<1>3. CASE TakeBlock
  <2>1. /\ todo = <<>> /\ todo' = Work(next) /\ next' = next + 1 /\ next \in 1 .. Len(chain)
        /\ <<chain, forks, abis, source>>' = <<chain, forks, abis, source>>
        /\ next' - 1 = next
    BY <1>3, <1>t, TakeIs
  <2>2. /\ Work(next) \in Seq(WorkItem)
        /\ \A k \in 1 .. Len(Work(next)) : Work(next)[k].fork = forks
        /\ Work(next) = <<>> => AbiAt(next) = AbiAt(next - 1)
        /\ Work(next) # <<>> => Work(next)[1].active = AbiAt(next - 1)
    BY <2>1, WorkIs
  <2>3. Work(next) # <<>> => Head(Work(next)) = Work(next)[1] /\ 1 \in 1 .. Len(Work(next))
    BY <2>2, EmptySeq
  <2>4. AbiAt(next - 1)' = AbiAt(next)
    BY <2>1 DEF AbiAt
  <2>5. Position' = AbiAt(next - 1)
    BY <2>1, <2>2, <2>3, <2>4 DEF Position
  <2>6. abis = Usable(AbiAt(next - 1))
    BY <2>1 DEF Follows, Position
  <2>7. todo' # <<>> => Current'
    BY <2>1, <2>2, <2>3 DEF Current
  <2> QED
    BY <2>1, <2>5, <2>6, <2>7
<1>4. ASSUME Taken, Current, abis' = Usable(Head(todo).abi)
      PROVE  /\ next' - 1 <= Len(chain')
             /\ todo' # <<>> => Current'
             /\ abis' = Usable(Position')
    BY <1>4, TakenOn
<1>5. OfStream = "stream" => Current
    BY DEF OfStream
<1>6. CASE SetAbi
    BY <1>4, <1>5, <1>6, SetAbiIs
<1>7. ASSUME Taken, source = "stream", abis' = abis,
             Head(todo).kind # "setabi" \/ Head(todo).abi = Head(todo).active
      PROVE  /\ next' - 1 <= Len(chain')
             /\ todo' # <<>> => Current'
             /\ abis' = Usable(Position')
  <2>1. todo # <<>> /\ Current /\ abis = Usable(Head(todo).active)
    BY <1>7 DEF Follows, Position, Taken
  <2>2. Head(todo).abi = Head(todo).active
    BY <1>7, <2>1, TakenOn
  <2> QED
    BY <1>4, <1>7, <2>1, <2>2
<1>8. CASE AccountRow
  <2>1. Taken /\ Head(todo).kind = "account"
    BY <1>8, AccountRowIs
  <2>2. CASE <<abis, decoder, source>>' = <<abis, decoder, source>>
    BY <1>7, <2>1, <2>2
  <2>3. CASE abis' = Usable(Head(todo).abi) /\ source' = OfStream
    BY <1>4, <1>5, <2>1, <2>3
  <2> QED
    BY <1>8, <2>2, <2>3, AccountRowIs
<1>9. CASE Decode
  <2>1. Taken /\ source = "stream" /\ abis' = abis /\ Head(todo).kind \in {"act", "row"}
    BY <1>9, DecodeIs
  <2> QED
    BY <1>7, <2>1
<1>12. CASE Collapsed
  <2>1. Taken /\ source = "stream" /\ abis' = abis /\ Head(todo).abi = Head(todo).active
    BY <1>12, CollapsedIs
  <2> QED
    BY <1>7, <2>1
<1>10. CASE Restart
    BY <1>10, RestartIs
<1>11. CASE UNCHANGED vars
  <2>1. /\ chain' = chain /\ forks' = forks /\ next' = next /\ todo' = todo
        /\ abis' = abis /\ source' = source
    BY <1>11, StutterIs
  <2>2. AbiAt(next - 1)' = AbiAt(next - 1)
    BY <2>1 DEF AbiAt
  <2>3. Position' = Position
    BY <2>1, <2>2 DEF Position
  <2> QED
    BY <2>1, <2>3 DEF Follows, Current
<1> QED
    BY <1>1, <1>2, <1>3, <1>6, <1>8, <1>9, <1>10, <1>11, <1>12 DEF Next

LEMMA ReachedStep == Fed /\ TypeOK /\ EntryKnown /\ Reached /\ [Next]_vars => Reached'
<1> SUFFICES ASSUME Fed, TypeOK, EntryKnown, Reached, [Next]_vars,
                    source' # "none" \/ todo' # <<>>, forks' = 0
             PROVE  next' - 1 <= Len(chain')
    BY DEF Reached
<1>t. next \in Nat \ {0} /\ forks \in Nat /\ Len(chain) \in Nat
    BY DEF TypeOK
<1>1. CASE Produce
  <2>1. next - 1 <= Len(chain)
    BY <1>1, ProduceIs DEF Reached
  <2> QED
    BY <1>1, <1>t, <2>1, ProduceIs
<1>2. CASE Fork
    BY <1>2, <1>t, ForkIs
<1>3. CASE TakeBlock
    BY <1>3, <1>t, TakeIs
<1>4. CASE Taken
    BY <1>4 DEF Taken, Reached
<1>5. CASE Restart
    BY <1>5, RestartIs
<1>6. CASE UNCHANGED vars
    BY <1>6, StutterIs DEF Reached
<1> QED
    BY <1>1, <1>2, <1>3, <1>4, <1>5, <1>6, SetAbiIs, CollapsedIs, AccountRowIs, DecodeIs DEF Next

\* The first item does not come after one that reaches the cache.
LEMMA AnnouncedTail ==
    ASSUME TypeOK, todo # <<>>, Announced(todo)
    PROVE  /\ ~Late(Head(todo))
           /\ Head(todo).kind # "setabi" => Announced(Tail(todo))
<1>1. /\ Len(todo) \in Nat \ {0} /\ Head(todo) = todo[1]
      /\ Len(Tail(todo)) = Len(todo) - 1
      /\ \A k \in 1 .. Len(todo) - 1 : Tail(todo)[k] = todo[k + 1]
    BY TodoIs
<1> DEFINE rest == Tail(todo)
           n == Len(todo)
<1>2. /\ Len(rest) = n - 1 /\ n \in Nat /\ n >= 1
      /\ \A k \in 1 .. n - 1 : rest[k] = todo[k + 1]
    BY <1>1
<1>3. \A k \in 1 .. n : Late(todo[k]) => \E j \in 1 .. k - 1 : Brings(todo[j])
    BY DEF Announced
<1> HIDE DEF rest, n
<1>4. ~Late(Head(todo))
  <2>1. 1 \in 1 .. n /\ ~\E j \in 1 .. 1 - 1 : TRUE
    BY <1>2
  <2> QED
    BY <1>1, <1>3, <2>1
<1>5. ASSUME todo[1].kind # "setabi", NEW k \in 1 .. n - 1, Late(rest[k])
      PROVE  \E j \in 1 .. k - 1 : Brings(rest[j])
  <2>1. k + 1 \in 1 .. n /\ Late(todo[k + 1])
    BY <1>2, <1>5
  <2>2. PICK j \in 1 .. (k + 1) - 1 : Brings(todo[j])
    BY <1>3, <2>1
  <2>3. j # 1
    BY <1>5, <2>2 DEF Brings
  <2>4. j - 1 \in 1 .. k - 1 /\ j - 1 \in 1 .. n - 1 /\ (j - 1) + 1 = j
    BY <1>2, <2>3
  <2> QED
    BY <1>2, <2>2, <2>4
<1> QED
    BY <1>1, <1>2, <1>4, <1>5 DEF Announced, rest

LEMMA RowsAnnouncedStep ==
    Fed /\ TypeOK /\ EntryKnown /\ RowsAnnounced /\ [Next]_vars => RowsAnnounced'
<1> SUFFICES ASSUME Fed, TypeOK, EntryKnown, RowsAnnounced, [Next]_vars,
                    source' \notin {"stream", "fork", "repeat"}
             PROVE  Announced(todo')
    BY DEF RowsAnnounced, Announced
<1>1. CASE Produce
    BY <1>1, ProduceIs DEF RowsAnnounced
<1>2. CASE Fork
    BY <1>2, ForkIs DEF RowsAnnounced
<1>3. CASE TakeBlock
    BY <1>3, TakeIs, WorkIs
<1>5. OfStream \in {"stream", "fork"}
    BY DEF OfStream
<1>6. CASE SetAbi
    BY <1>5, <1>6, SetAbiIs
<1>7. CASE AccountRow
  <2>1. Taken /\ Head(todo).kind = "account" /\ source' = source
    BY <1>5, <1>7, AccountRowIs
  <2>2. Announced(todo)
    BY <2>1 DEF RowsAnnounced
  <2> QED
    BY <2>1, <2>2, AnnouncedTail DEF Taken, Late
<1>8. CASE Decode
  <2>1. Taken /\ Head(todo).kind # "setabi" /\ source \notin {"stream", "fork", "repeat"}
    BY <1>8, DecodeIs DEF EntryKnown
  <2>2. Announced(todo)
    BY <2>1 DEF RowsAnnounced
  <2> QED
    BY <2>1, <2>2, AnnouncedTail DEF Taken
<1>12. CASE Collapsed
  <2>1. Taken /\ Head(todo).repeat /\ source \notin {"stream", "fork", "repeat"}
    BY <1>12, CollapsedIs
  <2>2. Announced(todo)
    BY <2>1 DEF RowsAnnounced
  <2>3. Head(todo).kind # "setabi"
    BY <2>1, <2>2, AnnouncedTail DEF Taken, Late
  <2> QED
    BY <2>1, <2>2, <2>3, AnnouncedTail DEF Taken
<1>9. CASE Restart
    BY <1>9, RestartIs DEF Announced
<1>10. CASE UNCHANGED vars
    BY <1>10, StutterIs DEF RowsAnnounced
<1> QED
    BY <1>1, <1>2, <1>3, <1>6, <1>7, <1>8, <1>12, <1>9, <1>10 DEF Next

\* A block without updates at the end of the chain.
LEMMA HeadQuiet ==
    ASSUME TypeOK, Produce, ~Updates(chain'[Len(chain) + 1])
    PROVE  AbiAt(Len(chain))' = AbiAt(Len(chain))
<1> DEFINE n == Len(chain)
           now == {x \in 1 .. n : Updates(chain[x])}
           later == {x \in 1 .. Len(chain') : Updates(chain'[x])}
<1>1. /\ n \in Nat /\ Len(chain') = n + 1
      /\ \A h \in 1 .. n : chain'[h] = chain[h]
    BY ProduceIs
<1>2. later = now
    BY <1>1
<1>3. now # {} => Max(now) \in 1 .. n
  <2>1. now \in SUBSET (1 .. n)
    OBVIOUS
  <2> QED
    BY <1>1, <2>1, MaxOf
<1>4. AbiAt(Len(chain)) = IF now = {} THEN Cleared
                          ELSE AbiAfter(chain[Max(now)], Len(chain[Max(now)]), Cleared)
    BY DEF AbiAt
<1>5. AbiAt(Len(chain))' = IF later = {} THEN Cleared
                           ELSE AbiAfter(chain'[Max(later)], Len(chain'[Max(later)]), Cleared)
    BY DEF AbiAt
<1> HIDE DEF now, later, n
<1> QED
    BY <1>1, <1>2, <1>3, <1>4, <1>5

LEMMA HealingStep ==
    /\ Fed /\ TypeOK /\ EntryKnown /\ Reached /\ RowsAnnounced /\ Healing /\ [Next]_vars
    => Healing'
<1> SUFFICES ASSUME Fed, TypeOK, EntryKnown, Reached, RowsAnnounced, Healing, [Next]_vars,
                    source' = "api"
             PROVE  abis' = Usable(AbiAt(Len(chain)))' \/ UpdateAhead'
    BY DEF Healing
<1>t. next \in Nat \ {0} /\ forks \in Nat /\ Len(chain) \in Nat /\ todo \in Seq(WorkItem)
    BY DEF TypeOK
<1>1. CASE Produce
  <2>1. /\ Len(chain') = Len(chain) + 1
        /\ \A h \in 1 .. Len(chain) : chain'[h] = chain[h]
        /\ next' \in Nat \ {0} /\ next' <= next
        /\ todo' = todo /\ abis' = abis /\ forks' = forks /\ source = "api"
    BY <1>1, <1>t, ProduceIs
  <2>2. next' <= Len(chain')
    <3>1. CASE forks = 0
      <4>1. next - 1 <= Len(chain)
        BY <2>1, <3>1 DEF Reached
      <4> QED
        BY <1>t, <2>1, <4>1
    <3>2. CASE forks > 0
      BY <1>1, <1>t, <2>1, <3>2, ProduceIs
    <3> QED
      BY <1>t, <3>1, <3>2
  <2>3. CASE Updates(chain'[Len(chain) + 1])
    <3>1. Len(chain) + 1 \in next' .. Len(chain')
      BY <1>t, <2>1, <2>2
    <3> QED
      BY <2>3, <3>1 DEF UpdateAhead
  <2>4. CASE ~Updates(chain'[Len(chain) + 1])
    <3>1. AbiAt(Len(chain))' = AbiAt(Len(chain))
      BY <1>1, <2>4, HeadQuiet
    <3>2. Usable(AbiAt(Len(chain)))' = Usable(AbiAt(Len(chain)))
      BY <3>1 DEF Usable
    <3>3. UpdateAhead => UpdateAhead'
      <4>1. ASSUME NEW h \in next .. Len(chain), Updates(chain[h])
            PROVE  h \in next' .. Len(chain') /\ Updates(chain'[h])
        <5>1. h \in next' .. Len(chain') /\ h \in 1 .. Len(chain)
          BY <1>t, <2>1
        <5> QED
          BY <2>1, <4>1, <5>1
      <4> QED
        BY <2>1, <4>1 DEF UpdateAhead
    <3> QED
      BY <2>1, <3>2, <3>3 DEF Healing
  <2> QED
    BY <2>3, <2>4
<1>2. CASE Fork
    BY <1>2, ForkIs
<1>3. CASE TakeBlock
  <2>1. /\ todo = <<>> /\ todo' = Work(next) /\ next' = next + 1 /\ next \in 1 .. Len(chain)
        /\ chain' = chain /\ abis' = abis /\ source = "api"
    BY <1>3, TakeIs
  <2>2. CASE abis = Usable(AbiAt(Len(chain)))
    BY <2>1, <2>2 DEF AbiAt, Usable
  <2>3. CASE UpdateAhead
    <3>1. PICK h \in next .. Len(chain) : Updates(chain[h])
      BY <2>1, <2>3 DEF UpdateAhead
    <3>2. CASE h = next
      <4>1. \E k \in 1 .. Len(Work(next)) : Brings(Work(next)[k])
        BY <2>1, <3>1, <3>2, WorkIs
      <4>2. Work(next) \in Seq(WorkItem)
        BY <2>1, WorkIs
      <4>3. \E k \in DOMAIN todo' : Brings(todo'[k])
        BY <2>1, <4>1, <4>2, LenProperties
      <4> QED
        BY <4>3 DEF UpdateAhead, Brings
    <3>3. CASE h # next
      <4>1. h \in next' .. Len(chain')
        BY <1>t, <2>1, <3>1, <3>3
      <4> QED
        BY <2>1, <3>1, <4>1 DEF UpdateAhead
    <3> QED
      BY <3>2, <3>3
  <2> QED
    BY <2>1, <2>2, <2>3 DEF Healing
<1>5. OfStream \in {"stream", "fork"}
    BY DEF OfStream
<1>6. CASE SetAbi
    BY <1>5, <1>6, SetAbiIs
<1>7. CASE AccountRow
  <2>1. Taken /\ Head(todo).kind = "account" /\ source = "api"
    BY <1>5, <1>7, AccountRowIs
  <2>2. Announced(todo)
    BY <2>1 DEF RowsAnnounced
  <2> QED
    BY <2>1, <2>2, AnnouncedTail DEF Taken, Late
<1>13. ASSUME Taken, Head(todo).kind \in {"act", "row"} \/ Head(todo).repeat,
              \/ abis' = Usable(AbiAt(Len(chain)))
              \/ abis' = abis /\ source = "api"
       PROVE  abis' = Usable(AbiAt(Len(chain)))' \/ UpdateAhead'
  <2>1. /\ todo # <<>> /\ todo' = Tail(todo) /\ chain' = chain /\ next' = next
        /\ Head(todo).kind \in {"act", "row"} \/ Head(todo).repeat
    BY <1>13 DEF Taken
  <2>2. AbiAt(Len(chain))' = AbiAt(Len(chain))
    BY <2>1 DEF AbiAt
  <2>3. CASE abis' = Usable(AbiAt(Len(chain)))
    BY <2>2, <2>3 DEF Usable
  <2>4. CASE abis' = abis /\ source = "api" /\ UpdateAhead
    <3>1. ASSUME NEW k \in DOMAIN todo, todo[k].kind \in {"setabi", "account"}, ~todo[k].repeat
          PROVE  UpdateAhead'
      <4>1. /\ k \in 1 .. Len(todo) /\ Len(todo) \in Nat /\ k # 1
            /\ Len(Tail(todo)) = Len(todo) - 1
            /\ \A j \in 1 .. Len(todo) - 1 : Tail(todo)[j] = todo[j + 1]
            /\ Tail(todo) \in Seq(WorkItem)
        BY <1>t, <2>1, <3>1, TodoIs
      <4>2. k - 1 \in 1 .. Len(todo) - 1 /\ (k - 1) + 1 = k
        BY <4>1
      <4>3. k - 1 \in DOMAIN todo' /\ todo'[k - 1] = todo[k]
        BY <2>1, <4>1, <4>2, LenProperties
      <4> QED
        BY <3>1, <4>3 DEF UpdateAhead
    <3> QED
      BY <2>1, <2>4, <3>1 DEF UpdateAhead
  <2> QED
    BY <1>13, <2>3, <2>4 DEF Healing
<1>8. CASE Decode
    BY <1>8, <1>13, DecodeIs
<1>12. CASE Collapsed
    BY <1>12, <1>13, CollapsedIs
<1>9. CASE Restart
    BY <1>9, RestartIs
<1>10. CASE UNCHANGED vars
  <2>1. /\ chain' = chain /\ next' = next /\ todo' = todo
        /\ abis' = abis /\ source' = source
    BY <1>10, StutterIs
  <2>2. AbiAt(Len(chain))' = AbiAt(Len(chain))
    BY <2>1 DEF AbiAt
  <2>3. UpdateAhead => UpdateAhead'
    BY <2>1 DEF UpdateAhead
  <2> QED
    BY <2>1, <2>2, <2>3 DEF Healing, Usable
<1> QED
    BY <1>1, <1>2, <1>3, <1>6, <1>7, <1>8, <1>9, <1>10, <1>12 DEF Next

-----------------------------------------------------------------------------
(* The theorems.                                                             *)

LEMMA InvInit == Init => IInv
<1> SUFFICES ASSUME Init PROVE IInv
    OBVIOUS
<1>1. next \in Nat \ {0}
    BY AbiAssumption DEF Init
<1>2. TypeOK
  <2>1. chain \in Seq(Blocks) /\ todo \in Seq(WorkItem) /\ forks \in Nat
    BY DEF Init
  <2> QED
    BY <1>1, <2>1 DEF TypeOK, Init
<1>3. todo = <<>> /\ Len(todo) = 0 /\ source = "none" /\ abis = Missing /\ decoder = Missing
    BY DEF Init
<1> QED
    BY <1>2, <1>3 DEF IInv, OneChain, InHand, EntryKnown, Follows, Reached, RowsAnnounced,
       Announced, Healing

\* The inductive invariant: what the cache holds, in relation to the chain and
\* to what is left of the block in hand, in every run whose cache is fed by the
\* setabi traces of the stream, those that process_traces passes over because
\* their transaction has done the same before (processor.rs:211-225) left out.
THEOREM Invariance == ASSUME Fed PROVE Spec => []IInv
<1>1. IInv /\ [Next]_vars => IInv'
  <2> SUFFICES ASSUME IInv, [Next]_vars PROVE IInv'
    OBVIOUS
  <2> QED
    BY TypeStep, EntryStep, OneChainStep, InHandStep, FollowsStep, ReachedStep,
       RowsAnnouncedStep, HealingStep DEF IInv
<1> QED
    BY <1>1, InvInit, PTL DEF Spec

\* abis.rs:3-7, README.md:34-37: an entry that the stream has brought decodes
\* every action and row with the ABI that was active for it on the chain, for
\* every chain, any number of updates in one block, clears, unreadable ABIs,
\* microforks, restarts and failures of the chain API.  The exception is in the
\* history variable: a setabi that its transaction repeats after another one
\* takes the entry out of the statement until the next update that the stream
\* brings, and only when it sets another ABI than the active one.
THEOREM StreamDecoding == ASSUME Fed PROVE Spec => StreamExact
<1>1. IInv /\ [Next]_vars => (Decode /\ source = "stream" => used' = Usable(active'))
  <2> SUFFICES ASSUME IInv, Decode, source = "stream" PROVE used' = Usable(active')
    OBVIOUS
  <2>1. /\ todo # <<>> /\ active' = Head(todo).active /\ used' = abis'
        /\ abis # Missing => abis' = abis
    BY DecodeIs DEF IInv, Taken
  <2>2. abis # Missing
    BY DEF IInv, EntryKnown
  <2>3. abis = Usable(Position)
    BY DEF IInv, Follows
  <2>4. Position = Head(todo).active
    BY <2>1 DEF Position
  <2> QED
    BY <2>1, <2>2, <2>3, <2>4
<1> QED
    BY <1>1, Invariance, PTL DEF Spec, StreamExact

\* abis.rs:5-7: when an action is decoded with another ABI than its own because
\* the chain API was ahead of the block in hand, the update that ends the
\* mismatch is still to come, in this block or in a later one.
THEOREM Healed == ASSUME Fed PROVE Spec => FetchHeals
<1>1. IInv /\ [Next]_vars => (Decode /\ Current /\ source' = "api" /\ used' # Usable(active')
                              => UpdateAhead)
  <2> SUFFICES ASSUME IInv, Decode, Current, source' = "api", ~UpdateAhead
               PROVE  used' = Usable(active')
    OBVIOUS
  <2>1. /\ todo # <<>> /\ active' = Head(todo).active /\ used' = abis'
        /\ \/ abis' = abis /\ source = "api"
           \/ abis' = Usable(AbiAt(Len(chain)))
    BY DecodeIs DEF IInv, Taken
  <2>2. used' = Usable(AbiAt(Len(chain)))
    BY <2>1 DEF IInv, Healing
  <2>3. /\ next \in Nat \ {0} /\ Len(chain) \in Nat /\ todo \in Seq(WorkItem)
        /\ next - 1 <= Len(chain) /\ Chained(todo, AbiAt(next - 1))
    BY <2>1 DEF IInv, TypeOK, InHand
  <2>4. Head(todo).active = AbiAt(next - 1)
    <3>1. Head(todo) = todo[1] /\ 1 \in 1 .. Len(todo) /\ DOMAIN todo = 1 .. Len(todo)
      BY <2>1, <2>3, TodoIs, LenProperties DEF IInv
    <3>2. \A j \in 1 .. Len(todo) : ~Brings(todo[j])
      BY <3>1 DEF UpdateAhead, Brings
    <3>3. Announced(todo)
      BY DecodeIs DEF IInv, EntryKnown, RowsAnnounced
    <3>4. \A j \in 1 .. Len(todo) : todo[j].kind # "setabi"
      <4>1. ASSUME NEW j \in 1 .. Len(todo), todo[j].kind = "setabi" PROVE FALSE
        <5>1. Late(todo[j])
          BY <3>2, <4>1 DEF Brings, Late
        <5>2. PICK i \in 1 .. j - 1 : Brings(todo[i])
          BY <3>3, <5>1 DEF Announced
        <5>3. i \in 1 .. Len(todo)
          BY <2>3
        <5> QED
          BY <3>2, <5>2, <5>3
      <4> QED
        BY <4>1
    <3> QED
      BY <2>3, <3>1, <3>4 DEF Chained
  <2>5. AbiAt(Len(chain)) = AbiAt(next - 1)
    <3>1. next - 1 \in 0 .. Len(chain)
      BY <2>3
    <3>2. \A x \in (next - 1) + 1 .. Len(chain) : ~Updates(chain[x])
      BY <2>3 DEF UpdateAhead
    <3> QED
      BY <2>3, <3>1, <3>2, AtQuiet
  <2> QED
    BY <2>1, <2>2, <2>4, <2>5
<1> QED
    BY <1>1, Invariance, PTL DEF Spec, FetchHeals

\* The processor, for every chain, every stream and every failure of the chain
\* API: no step leaves a decoder of an ABI that is no longer the cached one.
THEOREM NeverStale == Spec => []DecoderFresh
<1>1. Init => DecoderFresh
  BY DEF Init, DecoderFresh
<1>2. DecoderFresh /\ [Next]_vars => DecoderFresh'
  <2> SUFFICES ASSUME DecoderFresh, [Next]_vars
               PROVE  DecoderFresh'
    OBVIOUS
  <2>1. ASSUME NEW abi, Update(abi)
        PROVE  DecoderFresh'
    BY <2>1 DEF Update, DecoderFresh
  <2>2. ASSUME UNCHANGED <<abis, decoder>>
        PROVE  DecoderFresh'
    BY <2>2 DEF DecoderFresh
  <2>3. ASSUME NEW entry, Prepare(entry)
        PROVE  DecoderFresh'
    BY <2>3 DEF Prepare, DecoderFresh
  <2>4. CASE Produce \/ Fork \/ TakeBlock \/ Collapsed
    BY <2>2, <2>4 DEF Produce, Fork, TakeBlock, Collapsed, cache
  <2>5. CASE SetAbi
    BY <2>1, <2>2, <2>5 DEF SetAbi, cache
  <2>6. CASE AccountRow
    BY <2>1, <2>2, <2>6 DEF AccountRow, cache
  <2>7. CASE Decode
    BY <2>2, <2>3, <2>7 DEF Decode, Hit, Cached, Fetch, FetchFails, cache
  <2>8. CASE Restart
    BY <2>8 DEF Restart, DecoderFresh
  <2>9. CASE UNCHANGED vars
    BY <2>2, <2>9 DEF vars, cache
  <2> QED
    BY <2>4, <2>5, <2>6, <2>7, <2>8, <2>9 DEF Next
<1> QED
  BY <1>1, <1>2, PTL DEF Spec
=============================================================================
