---------------------------- MODULE ElasticProofs -----------------------------
(***************************************************************************)
(* What a `_bulk` request leaves, for every store and every sequence of    *)
(* items: of each document, the write with the highest version.  And what  *)
(* a search finds: a list of what matches, each once and in order          *)
(* (Enumerates), of which there is one when no two have the same key       *)
(* (OneOrder), and pieces of that list as its pages.                       *)
(*                                                                         *)
(* DocsAfter is a recursive function over the items, and FlattenSeq and    *)
(* FoldSet are recursive too, so their equations and what they compute are *)
(* proved by induction.  The induction theorems of the library take an     *)
(* operator, which the provers cannot instantiate; each induction here is  *)
(* instead an argument about the least number for which the claim fails.   *)
(***************************************************************************)
EXTENDS Elastic, NaturalsInduction, WellFoundedInduction, SequenceTheorems,
        FiniteSetTheorems, TLAPS

LEMMA LeastNat ==
    ASSUME NEW T \in SUBSET Nat, T # {}
    PROVE  \E m \in T : \A n \in T : m <= n
<1>1. IsWellFoundedOn(OpToRel(<, Nat), Nat)
    BY NatLessThanWellFounded
<1>2. PICK m \in T : \A n \in T : ~(<<n, m>> \in OpToRel(<, Nat))
    BY <1>1, WFMin
<1>3. ASSUME NEW n \in T PROVE m <= n
  <2>1. <<n, m>> \in Nat \X Nat
    OBVIOUS
  <2> QED
    BY <1>2, <2>1 DEF OpToRel
<1> QED
    BY <1>3

LEMMA LeastOf ==
    ASSUME NEW n \in Nat, NEW S \in SUBSET (1 .. n), S # {}
    PROVE  \E m \in S : \A j \in S : m <= j
<1>1. S \in SUBSET Nat
    OBVIOUS
<1> QED
    BY <1>1, LeastNat

\* A set of numbers that holds 0 and every successor holds all of them.
LEMMA Induction ==
    ASSUME NEW T, 0 \in T, \A n \in Nat : n \in T => n + 1 \in T
    PROVE  Nat \subseteq T
<1> SUFFICES ASSUME {n \in Nat : n \notin T} # {} PROVE FALSE
    OBVIOUS
<1>1. {n \in Nat : n \notin T} \in SUBSET Nat
    OBVIOUS
<1>2. PICK m \in Nat : m \notin T /\ \A n \in Nat : n \notin T => m <= n
    BY <1>1, LeastNat
<1>3. CASE m = 0
    BY <1>2, <1>3
<1>4. CASE m # 0
  <2>1. m - 1 \in Nat /\ ~(m <= m - 1) /\ (m - 1) + 1 = m
    BY <1>4
  <2> QED
    BY <1>2, <2>1
<1> QED
    BY <1>3, <1>4

-----------------------------------------------------------------------------
(* The equations of DocsAfter.                                               *)

\* g holds the documents after each of the first n items.
IsAfter(g, docs, items, n) ==
    g = [k \in 0 .. n |-> IF k = 0 THEN docs ELSE WriteTo(g[k - 1], items[k])]

LEMMA AfterExtends ==
    ASSUME NEW docs, NEW items, NEW n \in Nat, NEW g, IsAfter(g, docs, items, n)
    PROVE  \E h : IsAfter(h, docs, items, n + 1)
<1> DEFINE m == n + 1
           h == [k \in 0 .. m |-> IF k = m THEN WriteTo(g[n], items[m]) ELSE g[k]]
           r == [k \in 0 .. m |-> IF k = 0 THEN docs ELSE WriteTo(h[k - 1], items[k])]
<1>1. \A k \in 0 .. m : h[k] = r[k]
  <2> SUFFICES ASSUME NEW k \in 0 .. m PROVE h[k] = r[k]
    OBVIOUS
  <2>1. CASE k = m
    BY <2>1
  <2>2. CASE k # m
    BY <2>2 DEF IsAfter
  <2> QED
    BY <2>1, <2>2
<1>2. h = [k \in 0 .. m |-> h[k]] /\ r = [k \in 0 .. m |-> r[k]]
    OBVIOUS
<1>3. h = r
  <2> HIDE DEF h, r
  <2> QED
    BY <1>1, <1>2
<1> QED
  <2> HIDE DEF h
  <2> QED
    BY <1>3 DEF IsAfter

LEMMA AfterExists ==
    ASSUME NEW docs, NEW items, NEW n \in Nat
    PROVE  \E g : IsAfter(g, docs, items, n)
<1> DEFINE T == {m \in Nat : \E g : IsAfter(g, docs, items, m)}
<1>1. 0 \in T
  <2>1. [k \in 0 .. 0 |-> docs]
        = [k \in 0 .. 0 |-> IF k = 0 THEN docs
                           ELSE WriteTo([j \in 0 .. 0 |-> docs][k - 1], items[k])]
    OBVIOUS
  <2> QED
    BY <2>1 DEF IsAfter
<1>2. \A m \in Nat : m \in T => m + 1 \in T
    BY AfterExtends
<1> HIDE DEF T
<1>3. n \in T
    BY <1>1, <1>2, Induction
<1> QED
    BY <1>3 DEF T

LEMMA DocsAfterEquations ==
    ASSUME NEW docs, NEW items, Len(items) \in Nat
    PROVE  /\ DocsAfter(docs, items)[0] = docs
           /\ \A k \in 1 .. Len(items) :
                DocsAfter(docs, items)[k] = WriteTo(DocsAfter(docs, items)[k - 1], items[k])
<1> DEFINE F == DocsAfter(docs, items)
<1>1. F = [k \in 0 .. Len(items) |-> IF k = 0 THEN docs ELSE WriteTo(F[k - 1], items[k])]
  <2>1. \E g : g = [k \in 0 .. Len(items) |->
                      IF k = 0 THEN docs ELSE WriteTo(g[k - 1], items[k])]
    <3>1. \E g : IsAfter(g, docs, items, Len(items))
      BY AfterExists
    <3> QED
      BY <3>1 DEF IsAfter
  <2> QED
    BY <2>1 DEF DocsAfter
<1> HIDE DEF F
<1>2. F[0] = docs
    BY <1>1
<1>3. \A k \in 1 .. Len(items) : F[k] = WriteTo(F[k - 1], items[k])
    BY <1>1
<1> QED
    BY <1>2, <1>3 DEF F

-----------------------------------------------------------------------------
(* What a request leaves.                                                    *)

\* Documents and items over a set I of ids and a set V of values.
DocOf(V) == [version : Nat, value : V \cup {NoValue}]

ItemOf(I, V) == [op : {"index", "delete"}, id : I, version : Nat, value : V]

\* The document an item leaves where it is applied.
Leaves(item) ==
    [version |-> item.version, value |-> IF item.op = "delete" THEN NoValue ELSE item.value]

\* after is docs with the first k items merged in, the highest version
\* winning: nothing gets older, no item is missing, and what changed is the
\* work of an item that was newer.
Merged(after, docs, items, k, I) ==
    /\ \A id \in I : after[id].version >= docs[id].version
    /\ \A n \in 1 .. k : after[items[n].id].version >= items[n].version
    /\ \A id \in I :
        \/ after[id] = docs[id]
        \/ \E n \in 1 .. k :
            /\ items[n].id = id
            /\ items[n].version > docs[id].version
            /\ after[id] = Leaves(items[n])

LEMMA WriteLeaves ==
    ASSUME NEW doc, NEW item
    PROVE  Write(doc, item) = IF item.version <= doc.version THEN doc ELSE Leaves(item)
BY DEF Write, Superseded, Leaves

LEMMA WriteMerges ==
    ASSUME NEW I, NEW V, NEW docs \in [I -> DocOf(V)], NEW items \in Seq(ItemOf(I, V)),
           NEW k \in 1 .. Len(items), NEW before \in [I -> DocOf(V)],
           Merged(before, docs, items, k - 1, I)
    PROVE  /\ WriteTo(before, items[k]) \in [I -> DocOf(V)]
           /\ Merged(WriteTo(before, items[k]), docs, items, k, I)
<1> DEFINE item == items[k]
           after == WriteTo(before, item)
<1>1. item \in ItemOf(I, V) /\ item.id \in I /\ item.version \in Nat
  <2>1. item \in ItemOf(I, V)
    OBVIOUS
  <2> QED
    BY <2>1 DEF ItemOf
<1>2. Leaves(item) \in DocOf(V) /\ Leaves(item).version = item.version
    BY <1>1 DEF Leaves, DocOf, ItemOf
<1>3. \A id \in I : after[id] = IF id # item.id \/ item.version <= before[id].version
                               THEN before[id] ELSE Leaves(item)
    BY <1>1, WriteLeaves DEF WriteTo
<1>4. after = [id \in I |-> after[id]]
    BY DEF WriteTo
<1> HIDE DEF after
<1>5. after \in [I -> DocOf(V)]
    BY <1>2, <1>3, <1>4
<1>6. \A id \in I : docs[id].version \in Nat /\ before[id].version \in Nat
    BY DEF DocOf
<1>7. \A id \in I : after[id].version >= before[id].version
    BY <1>2, <1>3, <1>6, <1>1
<1>8. \A id \in I : after[id].version \in Nat
    BY <1>5 DEF DocOf
<1>9. \A id \in I : after[id].version >= docs[id].version
    BY <1>6, <1>7, <1>8 DEF Merged
<1>10. \A n \in 1 .. k : after[items[n].id].version >= items[n].version
  <2> SUFFICES ASSUME NEW n \in 1 .. k PROVE after[items[n].id].version >= items[n].version
    OBVIOUS
  <2>1. CASE n = k
    BY <2>1, <1>1, <1>2, <1>3, <1>6
  <2>2. CASE n # k
    <3>1. items[n].id \in I /\ items[n].version \in Nat
      <4>1. items[n] \in ItemOf(I, V)
        OBVIOUS
      <4> QED
        BY <4>1 DEF ItemOf
    <3>2. before[items[n].id].version >= items[n].version
      BY <2>2 DEF Merged
    <3> QED
      BY <3>1, <3>2, <1>6, <1>7, <1>8
  <2> QED
    BY <2>1, <2>2
<1>11. ASSUME NEW id \in I, after[id] # docs[id]
       PROVE  \E n \in 1 .. k : /\ items[n].id = id
                                /\ items[n].version > docs[id].version
                                /\ after[id] = Leaves(items[n])
  <2>1. CASE after[id] = before[id]
    <3>1. PICK n \in 1 .. k - 1 : /\ items[n].id = id
                                  /\ items[n].version > docs[id].version
                                  /\ before[id] = Leaves(items[n])
      BY <2>1, <1>11 DEF Merged
    <3> QED
      BY <2>1, <3>1
  <2>2. CASE after[id] # before[id]
    <3>1. id = item.id /\ after[id] = Leaves(item) /\ ~(item.version <= before[id].version)
      BY <2>2, <1>3
    <3>2. before[id].version >= docs[id].version
      BY DEF Merged
    <3>3. item.version > docs[id].version
      BY <3>1, <3>2, <1>1, <1>6
    <3> QED
      BY <3>1, <3>3
  <2> QED
    BY <2>1, <2>2
<1>12. Merged(after, docs, items, k, I)
    BY <1>9, <1>10, <1>11 DEF Merged
<1> QED
    BY <1>5, <1>12 DEF after

LEMMA BulkMerges ==
    ASSUME NEW I, NEW V, NEW docs \in [I -> DocOf(V)], NEW items \in Seq(ItemOf(I, V))
    PROVE  /\ BulkResult(docs, items).docs \in [I -> DocOf(V)]
           /\ Merged(BulkResult(docs, items).docs, docs, items, Len(items), I)
<1> DEFINE F == DocsAfter(docs, items)
           Good(k) == F[k] \in [I -> DocOf(V)] /\ Merged(F[k], docs, items, k, I)
           T == {k \in Nat : k <= Len(items) => Good(k)}
<1>1. F[0] = docs /\ \A k \in 1 .. Len(items) : F[k] = WriteTo(F[k - 1], items[k])
    BY DocsAfterEquations
<1>2. BulkResult(docs, items).docs = F[Len(items)]
    BY DEF BulkResult
<1> HIDE DEF F
<1>3. 0 \in T
  <2>1. \A id \in I : docs[id].version \in Nat
    BY DEF DocOf
  <2> QED
    BY <1>1, <2>1 DEF Merged
<1>4. ASSUME NEW k \in Nat, k \in T PROVE k + 1 \in T
  <2> SUFFICES ASSUME k + 1 <= Len(items) PROVE Good(k + 1)
    OBVIOUS
  <2>1. k + 1 \in 1 .. Len(items) /\ (k + 1) - 1 = k /\ k <= Len(items)
    OBVIOUS
  <2>2. F[k] \in [I -> DocOf(V)] /\ Merged(F[k], docs, items, k, I)
    BY <1>4, <2>1
  <2>3. F[k + 1] = WriteTo(F[k], items[k + 1])
    BY <1>1, <2>1
  <2>4. Merged(F[k], docs, items, (k + 1) - 1, I)
    BY <2>1, <2>2
  <2> QED
    BY <2>1, <2>2, <2>3, <2>4, WriteMerges
<1>5. Len(items) \in T
  <2> HIDE DEF T
  <2> QED
    BY <1>3, <1>4, Induction
<1> QED
    BY <1>2, <1>5

\* The promise of external versioning (BulkBatch::push): of every document a
\* request leaves the newest of what was stored and what the request writes.
\* Nothing gets older, nothing newer is left out, and a document only changes
\* into what an item of the request leaves.
THEOREM HighestVersionWins ==
    ASSUME NEW I, NEW V, NEW docs \in [I -> DocOf(V)], NEW items \in Seq(ItemOf(I, V)),
           NEW id \in I
    PROVE  LET after == BulkResult(docs, items).docs IN
           /\ after \in [I -> DocOf(V)]
           /\ after[id].version >= docs[id].version
           /\ \A n \in 1 .. Len(items) :
                items[n].id = id => after[id].version >= items[n].version
           /\ \/ after[id] = docs[id]
              \/ \E n \in 1 .. Len(items) :
                    /\ items[n].id = id
                    /\ items[n].version > docs[id].version
                    /\ after[id] = Leaves(items[n])
<1> DEFINE after == BulkResult(docs, items).docs
<1>1. after \in [I -> DocOf(V)] /\ Merged(after, docs, items, Len(items), I)
    BY BulkMerges
<1> HIDE DEF after
<1>2. /\ after[id].version >= docs[id].version
      /\ \A n \in 1 .. Len(items) :
            items[n].id = id => after[id].version >= items[n].version
      /\ \/ after[id] = docs[id]
         \/ \E n \in 1 .. Len(items) :
              /\ items[n].id = id
              /\ items[n].version > docs[id].version
              /\ after[id] = Leaves(items[n])
    BY <1>1 DEF Merged
<1> QED
    BY <1>1, <1>2 DEF after

\* A request whose items are all superseded changes nothing.
LEMMA SupersededChangesNothing ==
    ASSUME NEW I, NEW V, NEW docs \in [I -> DocOf(V)], NEW items \in Seq(ItemOf(I, V)),
           \A n \in 1 .. Len(items) : docs[items[n].id].version >= items[n].version
    PROVE  BulkResult(docs, items).docs = docs
<1> DEFINE after == BulkResult(docs, items).docs
<1>1. after \in [I -> DocOf(V)] /\ Merged(after, docs, items, Len(items), I)
    BY BulkMerges
<1> HIDE DEF after
<1>2. ASSUME NEW id \in I PROVE after[id] = docs[id]
  <2>1. ASSUME NEW n \in 1 .. Len(items), items[n].id = id,
               items[n].version > docs[id].version
        PROVE  FALSE
    <3>1. items[n] \in ItemOf(I, V) /\ docs[id] \in DocOf(V)
      OBVIOUS
    <3>2. items[n].version \in Nat /\ docs[id].version \in Nat
      BY <3>1 DEF ItemOf, DocOf
    <3> QED
      BY <2>1, <3>2
  <2> QED
    BY <1>1, <2>1 DEF Merged
<1> QED
    BY <1>1, <1>2 DEF after

\* README.md:61-63: reindexing is idempotent.  However many requests were
\* carried out one after another, one of them carried out again, whatever the
\* others wrote before it and after it, changes nothing.
THEOREM ReplayIdempotent ==
    ASSUME NEW I, NEW V, NEW n \in Nat, NEW requests \in [1 .. n -> Seq(ItemOf(I, V))],
           NEW docs, docs[0] \in [I -> DocOf(V)],
           \A k \in 1 .. n : docs[k] = BulkResult(docs[k - 1], requests[k]).docs,
           NEW again \in 1 .. n
    PROVE  BulkResult(docs[n], requests[again]).docs = docs[n]
<1> DEFINE items == requests[again]
           Written(d) == \A m \in 1 .. Len(items) : d[items[m].id].version >= items[m].version
           Good(k) == docs[k] \in [I -> DocOf(V)] /\ (k >= again => Written(docs[k]))
           T == {k \in Nat : k <= n => Good(k)}
<1>1. items \in Seq(ItemOf(I, V))
    OBVIOUS
<1> HIDE DEF items
<1>2. \A m \in 1 .. Len(items) : items[m].id \in I /\ items[m].version \in Nat
  <2> SUFFICES ASSUME NEW m \in 1 .. Len(items)
               PROVE  items[m].id \in I /\ items[m].version \in Nat
    OBVIOUS
  <2>1. items[m] \in ItemOf(I, V)
    BY <1>1
  <2> QED
    BY <2>1 DEF ItemOf
<1>3. 0 \in T
    OBVIOUS
<1>4. ASSUME NEW k \in Nat, k \in T PROVE k + 1 \in T
  <2> SUFFICES ASSUME k + 1 <= n PROVE Good(k + 1)
    OBVIOUS
  <2> DEFINE before == docs[k]
             after == docs[k + 1]
  <2>1. k + 1 \in 1 .. n /\ (k + 1) - 1 = k /\ k <= n
    OBVIOUS
  <2>2. before \in [I -> DocOf(V)] /\ (k >= again => Written(before))
    BY <1>4, <2>1
  <2>3. after = BulkResult(before, requests[k + 1]).docs /\ requests[k + 1] \in Seq(ItemOf(I, V))
    BY <2>1
  <2> HIDE DEF before, after
  <2>4. /\ after \in [I -> DocOf(V)]
        /\ Merged(after, before, requests[k + 1], Len(requests[k + 1]), I)
    BY <2>2, <2>3, BulkMerges
  <2>5. CASE k + 1 = again
    <3>1. requests[k + 1] = items
      BY <2>5 DEF items
    <3>2. Written(after)
      BY <2>4, <3>1 DEF Merged
    <3> QED
      BY <2>4, <3>2 DEF after
  <2>6. CASE k >= again
    <3>1. ASSUME NEW m \in 1 .. Len(items) PROVE after[items[m].id].version >= items[m].version
      <4> DEFINE id == items[m].id
      <4>1. id \in I /\ items[m].version \in Nat
        BY <1>2
      <4>2. before[id] \in DocOf(V) /\ after[id] \in DocOf(V)
        BY <2>2, <2>4, <4>1
      <4>3. before[id].version \in Nat /\ after[id].version \in Nat
        BY <4>2 DEF DocOf
      <4>4. after[id].version >= before[id].version
        BY <2>4, <4>1 DEF Merged
      <4>5. before[id].version >= items[m].version
        BY <2>2, <2>6
      <4> QED
        BY <4>1, <4>3, <4>4, <4>5
    <3> QED
      BY <2>4, <3>1 DEF after
  <2>7. CASE k + 1 < again
    BY <2>4, <2>7 DEF after
  <2> QED
    BY <2>5, <2>6, <2>7
<1>5. n \in T
  <2> HIDE DEF T
  <2> QED
    BY <1>3, <1>4, Induction
<1>6. docs[n] \in [I -> DocOf(V)] /\ Written(docs[n])
    BY <1>5
<1>7. BulkResult(docs[n], items).docs = docs[n]
    BY <1>1, <1>6, SupersededChangesNothing
<1> QED
    BY <1>7 DEF items

\* Two requests leave the same documents in whichever order they land, as
\* long as two items of the same document and version leave the same: why
\* write_batches may have several requests on the wire at once.
THEOREM LandingOrder ==
    ASSUME NEW I, NEW V, NEW docs \in [I -> DocOf(V)],
           NEW a \in Seq(ItemOf(I, V)), NEW b \in Seq(ItemOf(I, V)),
           \A s \in {a, b} : \A t \in {a, b} :
             \A m \in 1 .. Len(s) : \A n \in 1 .. Len(t) :
                /\ s[m].id = t[n].id
                /\ s[m].version = t[n].version
                => Leaves(s[m]) = Leaves(t[n])
    PROVE  BulkResult(BulkResult(docs, a).docs, b).docs
           = BulkResult(BulkResult(docs, b).docs, a).docs
<1> DEFINE Newest(d, id) ==
             /\ d[id].version \in Nat
             /\ d[id].version >= docs[id].version
             /\ \A s \in {a, b} : \A n \in 1 .. Len(s) :
                  s[n].id = id => d[id].version >= s[n].version
             /\ \/ d[id] = docs[id]
                \/ \E s \in {a, b} : \E n \in 1 .. Len(s) :
                     /\ s[n].id = id
                     /\ s[n].version > docs[id].version
                     /\ d[id] = Leaves(s[n])
<1>1. \A s \in {a, b} : \A n \in 1 .. Len(s) :
        s[n] \in ItemOf(I, V) /\ s[n].version \in Nat /\ s[n].id \in I
  <2> SUFFICES ASSUME NEW s \in {a, b}, NEW n \in 1 .. Len(s)
               PROVE s[n] \in ItemOf(I, V) /\ s[n].version \in Nat /\ s[n].id \in I
    OBVIOUS
  <2>1. s[n] \in ItemOf(I, V)
    OBVIOUS
  <2> QED
    BY <2>1 DEF ItemOf
<1>2. ASSUME NEW s \in {a, b}, NEW t \in {a, b}, {s, t} = {a, b}, NEW id \in I
      PROVE  /\ BulkResult(BulkResult(docs, s).docs, t).docs \in [I -> DocOf(V)]
             /\ Newest(BulkResult(BulkResult(docs, s).docs, t).docs, id)
  <2> DEFINE one == BulkResult(docs, s).docs
             two == BulkResult(one, t).docs
  <2>1. s \in Seq(ItemOf(I, V)) /\ t \in Seq(ItemOf(I, V))
    OBVIOUS
  <2>2. one \in [I -> DocOf(V)] /\ Merged(one, docs, s, Len(s), I)
    BY <2>1, BulkMerges
  <2> HIDE DEF one
  <2>3. two \in [I -> DocOf(V)] /\ Merged(two, one, t, Len(t), I)
    BY <2>1, <2>2, BulkMerges
  <2> HIDE DEF two
  <2>4. /\ docs[id].version \in Nat
        /\ one[id].version \in Nat
        /\ two[id].version \in Nat
    <3>1. docs[id] \in DocOf(V) /\ one[id] \in DocOf(V) /\ two[id] \in DocOf(V)
      BY <2>2, <2>3
    <3> QED
      BY <3>1 DEF DocOf
  <2>5. /\ one[id].version >= docs[id].version
        /\ \A n \in 1 .. Len(s) : s[n].id = id => one[id].version >= s[n].version
        /\ \/ one[id] = docs[id]
           \/ \E n \in 1 .. Len(s) : /\ s[n].id = id
                                     /\ s[n].version > docs[id].version
                                     /\ one[id] = Leaves(s[n])
    BY <2>2 DEF Merged
  <2>6. /\ two[id].version >= one[id].version
        /\ \A n \in 1 .. Len(t) : t[n].id = id => two[id].version >= t[n].version
        /\ \/ two[id] = one[id]
           \/ \E n \in 1 .. Len(t) : /\ t[n].id = id
                                     /\ t[n].version > one[id].version
                                     /\ two[id] = Leaves(t[n])
    BY <2>3 DEF Merged
  <2>7. two[id].version >= docs[id].version
    BY <2>4, <2>5, <2>6
  <2>8. \A u \in {a, b} : \A n \in 1 .. Len(u) :
            u[n].id = id => two[id].version >= u[n].version
    <3>1. \A n \in 1 .. Len(s) : s[n].id = id => two[id].version >= s[n].version
      BY <1>1, <2>4, <2>5, <2>6
    <3> QED
      BY <1>2, <2>6, <3>1
  <2>9. ASSUME two[id] # docs[id]
        PROVE  \E u \in {a, b} : \E n \in 1 .. Len(u) :
                 /\ u[n].id = id
                 /\ u[n].version > docs[id].version
                 /\ two[id] = Leaves(u[n])
    <3>1. CASE two[id] = one[id]
      BY <2>5, <2>9, <3>1
    <3>2. CASE two[id] # one[id]
      <4>1. PICK n \in 1 .. Len(t) : /\ t[n].id = id
                                     /\ t[n].version > one[id].version
                                     /\ two[id] = Leaves(t[n])
        BY <2>6, <3>2
      <4>2. t[n].version > docs[id].version
        BY <1>1, <2>4, <2>5, <4>1
      <4> QED
        BY <4>1, <4>2
    <3> QED
      BY <3>1, <3>2
  <2>10. Newest(two, id)
    BY <2>4, <2>7, <2>8, <2>9
  <2> QED
    BY <2>3, <2>10 DEF one, two
<1>3. ASSUME NEW d \in [I -> DocOf(V)], NEW e \in [I -> DocOf(V)], NEW id \in I,
             Newest(d, id), Newest(e, id)
      PROVE  d[id] = e[id]
  <2>1. ASSUME NEW f \in [I -> DocOf(V)], NEW g \in [I -> DocOf(V)],
               Newest(f, id), Newest(g, id), f[id] = docs[id], g[id] # docs[id]
        PROVE  FALSE
    <3>0. PICK s \in {a, b} :
            \E n \in 1 .. Len(s) : s[n].id = id /\ s[n].version > docs[id].version
      BY <2>1
    <3>1. PICK n \in 1 .. Len(s) : s[n].id = id /\ s[n].version > docs[id].version
      BY <3>0
    <3>2. f[id].version >= s[n].version
      BY <2>1, <3>1
    <3>3. s[n].version \in Nat
      BY <1>1, <3>1
    <3> QED
      BY <2>1, <3>1, <3>2, <3>3
  <2>2. CASE d[id] = docs[id] \/ e[id] = docs[id]
    <3> HIDE DEF Newest
    <3> QED
      BY <1>3, <2>1, <2>2
  <2>3. CASE d[id] # docs[id] /\ e[id] # docs[id]
    <3>s. PICK s \in {a, b} : \E m \in 1 .. Len(s) : s[m].id = id /\ d[id] = Leaves(s[m])
      BY <1>3, <2>3
    <3>t. PICK t \in {a, b} : \E n \in 1 .. Len(t) : t[n].id = id /\ e[id] = Leaves(t[n])
      BY <1>3, <2>3
    <3>1. PICK m \in 1 .. Len(s) : s[m].id = id /\ d[id] = Leaves(s[m])
      BY <3>s
    <3>2. PICK n \in 1 .. Len(t) : t[n].id = id /\ e[id] = Leaves(t[n])
      BY <3>t
    <3>3. d[id].version = s[m].version /\ e[id].version = t[n].version
      BY <3>1, <3>2 DEF Leaves
    <3>4. d[id].version >= t[n].version /\ e[id].version >= s[m].version
      BY <1>3, <3>1, <3>2
    <3>5. s[m].version = t[n].version
      BY <1>1, <3>1, <3>2, <3>3, <3>4
    <3>6. s[m].id = t[n].id
      BY <3>1, <3>2
    <3>7. Leaves(s[m]) = Leaves(t[n])
      <4>1. \A x \in 1 .. Len(s) : \A y \in 1 .. Len(t) :
              s[x].id = t[y].id /\ s[x].version = t[y].version
              => Leaves(s[x]) = Leaves(t[y])
        OBVIOUS
      <4> QED
        BY <3>5, <3>6, <4>1
    <3> QED
      BY <3>1, <3>2, <3>7
  <2> QED
    BY <2>2, <2>3
<1> DEFINE ab == BulkResult(BulkResult(docs, a).docs, b).docs
           ba == BulkResult(BulkResult(docs, b).docs, a).docs
<1>4. \A id \in I : /\ ab \in [I -> DocOf(V)] /\ Newest(ab, id)
                    /\ ba \in [I -> DocOf(V)] /\ Newest(ba, id)
  <2> HIDE DEF Newest
  <2> QED
    BY <1>2
<1> HIDE DEF Newest, ab, ba
<1>5. \A id \in I : ab[id] = ba[id]
    BY <1>3, <1>4
<1>6. ab = ba
  <2>1. CASE I = {}
    <3>1. BulkResult(docs, a).docs \in [I -> DocOf(V)]
      BY BulkMerges
    <3>2. BulkResult(docs, b).docs \in [I -> DocOf(V)]
      BY BulkMerges
    <3>3. ab \in [I -> DocOf(V)] /\ ba \in [I -> DocOf(V)]
      BY <3>1, <3>2, BulkMerges DEF ab, ba
    <3> QED
      BY <2>1, <3>3
  <2>2. CASE I # {}
    <3>1. ab \in [I -> DocOf(V)] /\ ba \in [I -> DocOf(V)]
      BY <1>4, <2>2
    <3> QED
      BY <1>5, <3>1
  <2> QED
    BY <2>1, <2>2
<1> QED
    BY <1>6 DEF ab, ba

-----------------------------------------------------------------------------
(* Sequences.                                                                *)

IsSeq(s) == Len(s) \in Nat /\ s = [k \in 1 .. Len(s) |-> s[k]]

LEMMA SeqIs ==
    ASSUME NEW S, NEW s \in Seq(S)
    PROVE  IsSeq(s) /\ DOMAIN s = 1 .. Len(s) /\ \A k \in 1 .. Len(s) : s[k] \in S
BY LenProperties DEF IsSeq

LEMMA SeqOver ==
    ASSUME NEW S, NEW s, IsSeq(s), \A k \in 1 .. Len(s) : s[k] \in S
    PROVE  s \in Seq(S) /\ DOMAIN s = 1 .. Len(s)
<1>1. s \in [1 .. Len(s) -> S]
    BY DEF IsSeq
<1>2. s \in UNION {[1 .. n -> S] : n \in Nat}
    BY <1>1 DEF IsSeq
<1> QED
    BY <1>1, <1>2, SeqDef

LEMMA MadeSeq ==
    ASSUME NEW n \in Nat, NEW f, f = [k \in 1 .. n |-> f[k]]
    PROVE  IsSeq(f) /\ Len(f) = n /\ DOMAIN f = 1 .. n
<1> DEFINE S == {f[k] : k \in 1 .. n}
<1>1. f \in [1 .. n -> S]
    OBVIOUS
<1>2. f \in Seq(S)
    BY <1>1, SeqDef
<1>3. DOMAIN f = 1 .. n
    OBVIOUS
<1>4. 1 .. Len(f) = 1 .. n /\ Len(f) \in Nat
    BY <1>2, <1>3, LenProperties
<1>5. Len(f) = n
    BY <1>4
<1> QED
    BY <1>3, <1>5 DEF IsSeq

LEMMA AppendIs ==
    ASSUME NEW s, NEW e, IsSeq(s)
    PROVE  /\ IsSeq(Append(s, e))
           /\ Len(Append(s, e)) = Len(s) + 1
           /\ \A k \in 1 .. Len(s) : Append(s, e)[k] = s[k]
           /\ Append(s, e)[Len(s) + 1] = e
<1> DEFINE S == {s[k] : k \in 1 .. Len(s)} \cup {e}
<1>1. s \in Seq(S) /\ e \in S
    BY SeqOver
<1> HIDE DEF S
<1>2. /\ Append(s, e) \in Seq(S)
      /\ Len(Append(s, e)) = Len(s) + 1
      /\ \A i \in 1 .. Len(s) : Append(s, e)[i] = s[i]
      /\ Append(s, e)[Len(s) + 1] = e
    BY <1>1, AppendProperties
<1> QED
    BY <1>2, SeqIs

LEMMA ConcatIs ==
    ASSUME NEW a, NEW b, IsSeq(a), IsSeq(b)
    PROVE  /\ IsSeq(a \o b) /\ Len(a \o b) = Len(a) + Len(b)
           /\ \A k \in 1 .. Len(a) : (a \o b)[k] = a[k]
           /\ \A k \in 1 .. Len(b) : (a \o b)[Len(a) + k] = b[k]
<1> DEFINE S == {a[k] : k \in 1 .. Len(a)} \cup {b[k] : k \in 1 .. Len(b)}
           c == a \o b
<1>1. Len(a) \in Nat /\ Len(b) \in Nat
    BY DEF IsSeq
<1>2. a \in Seq(S) /\ b \in Seq(S)
    BY SeqOver
<1> HIDE DEF S, c
<1>3. /\ c \in Seq(S) /\ Len(c) = Len(a) + Len(b)
      /\ \A k \in 1 .. Len(a) + Len(b) : c[k] = IF k <= Len(a) THEN a[k] ELSE b[k - Len(a)]
    BY <1>2, ConcatProperties DEF c
<1>4. IsSeq(c)
    BY <1>3, SeqIs
<1>5. \A k \in 1 .. Len(a) : c[k] = a[k]
    BY <1>1, <1>3
<1>6. ASSUME NEW k \in 1 .. Len(b) PROVE c[Len(a) + k] = b[k]
  <2> DEFINE j == Len(a) + k
  <2>1. j \in 1 .. Len(a) + Len(b) /\ ~(j <= Len(a)) /\ j - Len(a) = k
    BY <1>1
  <2> HIDE DEF j
  <2>2. c[j] = b[j - Len(a)]
    BY <1>3, <2>1
  <2> QED
    BY <2>1, <2>2 DEF j
<1> QED
    BY <1>3, <1>4, <1>5, <1>6 DEF c

LEMMA ConcatOne ==
    ASSUME NEW a, IsSeq(a), NEW x
    PROVE  /\ IsSeq(a \o <<x>>) /\ Len(a \o <<x>>) = Len(a) + 1
           /\ \A k \in 1 .. Len(a) : (a \o <<x>>)[k] = a[k]
           /\ (a \o <<x>>)[Len(a) + 1] = x
<1> DEFINE one == <<x>>
<1>1. IsSeq(one) /\ Len(one) = 1 /\ one[1] = x
  <2>1. one \in Seq({x}) /\ Len(one) = 1 /\ one[1] = x
    OBVIOUS
  <2> QED
    BY <2>1, SeqIs
<1> HIDE DEF one
<1>2. 1 \in 1 .. Len(one)
    BY <1>1
<1>0. IsSeq(one)
    BY <1>1
<1>3. /\ IsSeq(a \o one) /\ Len(a \o one) = Len(a) + Len(one)
      /\ \A k \in 1 .. Len(a) : (a \o one)[k] = a[k]
      /\ \A k \in 1 .. Len(one) : (a \o one)[Len(a) + k] = one[k]
    BY <1>0, ConcatIs
<1> DEFINE c == a \o one
<1>4. c[Len(a) + 1] = x
    BY <1>1, <1>2, <1>3
<1>5. IsSeq(c) /\ Len(c) = Len(a) + 1 /\ \A k \in 1 .. Len(a) : c[k] = a[k]
    BY <1>1, <1>3
<1> QED
    BY <1>4, <1>5 DEF one

LEMMA SetToSeqIs ==
    ASSUME NEW S, IsFiniteSet(S)
    PROVE  SetToSeq(S) \in Seq(S)
<1>1. PICK n \in Nat : ExistsBijection(1 .. n, S) /\ Cardinality(S) = n
    BY FS_CardinalityType
<1>2. PICK f : f \in Bijection(1 .. n, S)
    BY <1>1 DEF ExistsBijection
<1>3. f \in [1 .. Cardinality(S) -> S] /\ IsInjective(f)
    BY <1>1, <1>2 DEF Bijection, Injection, IsInjective
<1>4. SetToSeq(S) \in [1 .. n -> S]
    BY <1>1, <1>3 DEF SetToSeq
<1> QED
    BY <1>4, SeqDef

\* A set as a sequence: its elements, and all of them.
LEMMA SetToSeqAll ==
    ASSUME NEW S, IsFiniteSet(S)
    PROVE  \A x \in S : \E k \in 1 .. Len(SetToSeq(S)) : SetToSeq(S)[k] = x
<1>1. PICK n \in Nat : ExistsBijection(1 .. n, S) /\ Cardinality(S) = n
    BY FS_CardinalityType
<1>2. PICK f : f \in Bijection(1 .. n, S)
    BY <1>1 DEF ExistsBijection
<1>3. f \in [1 .. Cardinality(S) -> S] /\ IsInjective(f)
    BY <1>1, <1>2 DEF Bijection, Injection, IsInjective
<1> DEFINE q == SetToSeq(S)
<1>4. q \in [1 .. n -> S] /\ IsInjective(q)
    BY <1>1, <1>3 DEF SetToSeq
<1> HIDE DEF q
<1>5. q \in Injection(1 .. n, S)
    BY <1>4 DEF Injection, IsInjective
<1>6. Cardinality(1 .. n) = n
  <2>1. 1 \in Int /\ n \in Int
    OBVIOUS
  <2>2. Cardinality(1 .. n) = IF 1 > n THEN 0 ELSE n - 1 + 1
    BY <2>1, FS_Interval
  <2> QED
    BY <2>2
<1>7. q \in Surjection(1 .. n, S)
    BY <1>1, <1>5, <1>6, FS_Injection
<1>8. q = [k \in 1 .. n |-> q[k]]
    BY <1>4
<1>9. Len(q) = n
    BY <1>8, MadeSeq
<1>10. \A x \in S : \E k \in 1 .. n : q[k] = x
    BY <1>7 DEF Surjection
<1> QED
    BY <1>9, <1>10 DEF q

LEMMA FiniteImage ==
    ASSUME NEW S, IsFiniteSet(S), NEW f
    PROVE  IsFiniteSet({f[x] : x \in S})
<1> DEFINE T == {f[x] : x \in S}
           g == [x \in S |-> f[x]]
<1>1. g \in Surjection(S, T)
    BY DEF Surjection
<1> QED
    BY <1>1, FS_Surjection

-----------------------------------------------------------------------------
(* FlattenSeq.                                                               *)

\* g holds what the first n sequences of ss make, for every n.
IsFlat(g, ss, n) == g = [i \in 1 .. n |-> IF i = 1 THEN ss[i] ELSE g[i - 1] \o ss[i]]

LEMMA FlatExtends ==
    ASSUME NEW ss, NEW n \in Nat, NEW g, IsFlat(g, ss, n)
    PROVE  \E h : IsFlat(h, ss, n + 1)
<1> DEFINE m == n + 1
           Grown(f, k) == IF k = 1 THEN ss[k] ELSE f[k - 1] \o ss[k]
           h == [k \in 1 .. m |-> IF k = m THEN Grown(g, m) ELSE g[k]]
           r == [k \in 1 .. m |-> Grown(h, k)]
<1>1. ASSUME NEW k \in 1 .. m PROVE h[k] = r[k]
  <2>1. r[k] = Grown(h, k)
    OBVIOUS
  <2>2. k # 1 => k - 1 \in 1 .. n /\ h[k - 1] = g[k - 1]
    OBVIOUS
  <2>3. Grown(h, k) = Grown(g, k)
    <3> HIDE DEF h
    <3> QED
      BY <2>2
  <2>4. CASE k = m
    BY <2>1, <2>3, <2>4
  <2>5. CASE k # m
    <3>1. k \in 1 .. n /\ h[k] = g[k]
      BY <2>5
    <3>2. g[k] = Grown(g, k)
      BY <3>1 DEF IsFlat
    <3> QED
      BY <2>1, <2>3, <3>1, <3>2
  <2> QED
    BY <2>4, <2>5
<1>2. h = [k \in 1 .. m |-> h[k]] /\ r = [k \in 1 .. m |-> r[k]]
    OBVIOUS
<1>3. h = r
  <2> HIDE DEF h, r
  <2> QED
    BY <1>1, <1>2
<1> QED
  <2> HIDE DEF h
  <2> QED
    BY <1>3 DEF IsFlat

LEMMA FlatExists ==
    ASSUME NEW ss, NEW n \in Nat
    PROVE  \E g : IsFlat(g, ss, n)
<1> DEFINE T == {m \in Nat : \E g : IsFlat(g, ss, m)}
<1>1. 0 \in T
  <2>1. IsFlat([i \in 1 .. 0 |-> 0], ss, 0)
    BY DEF IsFlat
  <2> QED
    BY <2>1
<1>2. \A m \in Nat : m \in T => m + 1 \in T
    BY FlatExtends
<1> HIDE DEF T
<1>3. n \in T
    BY <1>1, <1>2, Induction
<1> QED
    BY <1>3 DEF T

\* Every place p of flat is that of one place of one of the first n
\* sequences, and every such place is one of flat.
Spotted(flat, ss, n, spot) ==
    /\ \A p \in 1 .. Len(flat) :
         /\ spot[p] = <<spot[p][1], spot[p][2]>>
         /\ spot[p][1] \in 1 .. n
         /\ spot[p][2] \in 1 .. Len(ss[spot[p][1]])
         /\ flat[p] = ss[spot[p][1]][spot[p][2]]
    /\ \A i \in 1 .. n : \A j \in 1 .. Len(ss[i]) : \E p \in 1 .. Len(flat) : spot[p] = <<i, j>>
    /\ \A p \in 1 .. Len(flat) : \A q \in 1 .. Len(flat) : spot[p] = spot[q] => p = q

LEMMA SpottedStep ==
    ASSUME NEW S, NEW ss \in Seq(Seq(S)), NEW n \in Nat, n + 1 \in 1 .. Len(ss),
           NEW flat \in Seq(S), NEW spot, Spotted(flat, ss, n, spot)
    PROVE  /\ flat \o ss[n + 1] \in Seq(S)
           /\ \E new : Spotted(flat \o ss[n + 1], ss, n + 1, new)
<1> DEFINE m == n + 1
           more == ss[m]
           a == Len(flat)
           b == Len(more)
           all == flat \o more
           new == [p \in 1 .. a + b |-> IF p <= a THEN spot[p] ELSE <<m, p - a>>]
<1>1. more \in Seq(S)
    BY ElementOfSeq
<1>2. a \in Nat /\ b \in Nat
    BY <1>1, LenProperties
<1>3. /\ all \in Seq(S)
      /\ Len(all) = a + b
      /\ \A p \in 1 .. a + b : all[p] = IF p <= a THEN flat[p] ELSE more[p - a]
    BY <1>1, ConcatProperties
<1> HIDE DEF all, a, b
<1>4. ASSUME NEW p \in 1 .. a + b
      PROVE  /\ new[p] = <<new[p][1], new[p][2]>>
             /\ new[p][1] \in 1 .. m
             /\ new[p][2] \in 1 .. Len(ss[new[p][1]])
             /\ all[p] = ss[new[p][1]][new[p][2]]
  <2>1. CASE p <= a
    <3>1. p \in 1 .. a /\ new[p] = spot[p] /\ all[p] = flat[p]
      BY <1>2, <1>3, <2>1
    <3> HIDE DEF new
    <3>2. /\ spot[p] = <<spot[p][1], spot[p][2]>>
          /\ spot[p][1] \in 1 .. n
          /\ spot[p][2] \in 1 .. Len(ss[spot[p][1]])
          /\ flat[p] = ss[spot[p][1]][spot[p][2]]
      BY <3>1 DEF Spotted, a
    <3>3. spot[p][1] \in 1 .. m
      BY <3>2
    <3> QED
      BY <3>1, <3>2, <3>3
  <2>2. CASE ~(p <= a)
    <3>1. p - a \in 1 .. b /\ new[p] = <<m, p - a>> /\ all[p] = more[p - a]
      BY <1>2, <1>3, <2>2
    <3> HIDE DEF new
    <3> QED
      BY <3>1 DEF b
  <2> QED
    BY <2>1, <2>2
<1>5. ASSUME NEW i \in 1 .. m, NEW j \in 1 .. Len(ss[i])
      PROVE  \E p \in 1 .. a + b : new[p] = <<i, j>>
  <2>1. CASE i = m
    <3>1. j \in 1 .. b /\ a + j \in 1 .. a + b /\ ~(a + j <= a) /\ (a + j) - a = j
      BY <2>1, <1>2 DEF b
    <3> QED
      BY <3>1, <2>1
  <2>2. CASE i # m
    <3>0. i \in 1 .. n
      BY <2>2
    <3>1. PICK p \in 1 .. a : spot[p] = <<i, j>>
      BY <3>0 DEF Spotted, a
    <3>2. p \in 1 .. a + b /\ p <= a
      BY <1>2
    <3> QED
      BY <3>1, <3>2
  <2> QED
    BY <2>1, <2>2
<1>6. ASSUME NEW p \in 1 .. a + b, NEW q \in 1 .. a + b, new[p] = new[q]
      PROVE  p = q
  <2>0. \A r \in 1 .. a : spot[r][1] \in 1 .. n
    BY DEF Spotted, a
  <2>1. CASE p <= a /\ q <= a
    <3>1. p \in 1 .. a /\ q \in 1 .. a /\ spot[p] = spot[q]
      BY <2>1, <1>2, <1>6
    <3> QED
      BY <3>1 DEF Spotted, a
  <2>2. CASE p <= a /\ ~(q <= a)
    <3>1. p \in 1 .. a /\ spot[p] = <<m, q - a>>
      BY <2>2, <1>2, <1>6
    <3> QED
      BY <3>1, <2>0
  <2>3. CASE ~(p <= a) /\ q <= a
    <3>1. q \in 1 .. a /\ spot[q] = <<m, p - a>>
      BY <2>3, <1>2, <1>6
    <3> QED
      BY <3>1, <2>0
  <2>4. CASE ~(p <= a) /\ ~(q <= a)
    <3>1. <<m, p - a>> = <<m, q - a>>
      BY <2>4, <1>6
    <3>2. p - a = q - a
      BY <3>1
    <3> QED
      BY <3>2, <1>2
  <2> QED
    BY <2>1, <2>2, <2>3, <2>4
<1> HIDE DEF new, m
<1>7. Spotted(all, ss, m, new)
  <2>1. 1 .. Len(all) = 1 .. a + b
    BY <1>3
  <2>2. \A p \in 1 .. Len(all) :
          /\ new[p] = <<new[p][1], new[p][2]>>
          /\ new[p][1] \in 1 .. m
          /\ new[p][2] \in 1 .. Len(ss[new[p][1]])
          /\ all[p] = ss[new[p][1]][new[p][2]]
    BY <2>1, <1>4
  <2>3. \A i \in 1 .. m : \A j \in 1 .. Len(ss[i]) : \E p \in 1 .. Len(all) : new[p] = <<i, j>>
    BY <2>1, <1>5
  <2>4. \A p \in 1 .. Len(all) : \A q \in 1 .. Len(all) : new[p] = new[q] => p = q
    BY <2>1, <1>6
  <2> QED
    BY <2>2, <2>3, <2>4 DEF Spotted
<1>8. all = flat \o ss[n + 1] /\ m = n + 1
    BY DEF all, m
<1> QED
    BY <1>3, <1>7, <1>8

LEMMA Flatten ==
    ASSUME NEW S, NEW ss \in Seq(Seq(S))
    PROVE  /\ FlattenSeq(ss) \in Seq(S)
           /\ \E spot : Spotted(FlattenSeq(ss), ss, Len(ss), spot)
<1>0. Len(ss) \in Nat
    BY LenProperties
<1>1. CASE Len(ss) = 0
  <2>1. FlattenSeq(ss) = ss /\ ss = <<>>
    BY <1>1, EmptySeq DEF FlattenSeq
  <2>2. <<>> \in Seq(S) /\ Len(<<>>) = 0
    BY EmptySeq
  <2>3. Spotted(<<>>, ss, 0, <<>>)
    BY <2>2 DEF Spotted
  <2> QED
    BY <1>1, <2>1, <2>2, <2>3
<1>2. CASE Len(ss) # 0
  <2> DEFINE N == Len(ss)
             F == CHOOSE g : IsFlat(g, ss, N)
             Good(k) == F[k] \in Seq(S) /\ \E spot : Spotted(F[k], ss, k, spot)
             T == {k \in Nat : k + 1 <= N => Good(k + 1)}
  <2>1. FlattenSeq(ss) = F[N]
    BY <1>2 DEF FlattenSeq, IsFlat
  <2>2. IsFlat(F, ss, N)
    BY <1>0, FlatExists
  <2> HIDE DEF F
  <2>3. \A k \in 1 .. N : F[k] = IF k = 1 THEN ss[k] ELSE F[k - 1] \o ss[k]
    BY <2>2 DEF IsFlat
  <2>4. 0 \in T
    <3>1. 1 \in 1 .. N
      BY <1>0, <1>2
    <3>2. F[1] = ss[1] /\ ss[1] \in Seq(S)
      BY <2>3, <3>1, ElementOfSeq
    <3>3. <<>> \in Seq(S) /\ Len(<<>>) = 0 /\ <<>> \o ss[1] = ss[1]
      BY <3>2, EmptySeq, ConcatEmptySeq
    <3>4. Spotted(<<>>, ss, 0, <<>>)
      BY <3>3 DEF Spotted
    <3>5. \E new : Spotted(<<>> \o ss[0 + 1], ss, 0 + 1, new)
      <4>1. 0 + 1 \in 1 .. Len(ss) /\ 0 \in Nat
        BY <3>1
      <4> QED
        BY <4>1, <3>3, <3>4, SpottedStep
    <3> QED
      BY <3>2, <3>3, <3>5
  <2>5. ASSUME NEW k \in Nat, k \in T PROVE k + 1 \in T
    <3> SUFFICES ASSUME (k + 1) + 1 <= N PROVE Good((k + 1) + 1)
      OBVIOUS
    <3>1. k + 1 \in Nat /\ (k + 1) + 1 \in 1 .. N /\ k + 1 <= N /\ (k + 1) + 1 # 1
          /\ ((k + 1) + 1) - 1 = k + 1
      BY <1>0
    <3>2. Good(k + 1)
      BY <2>5, <3>1
    <3>3. F[(k + 1) + 1] = F[k + 1] \o ss[(k + 1) + 1]
      BY <2>3, <3>1
    <3>4. PICK spot : Spotted(F[k + 1], ss, k + 1, spot)
      BY <3>2
    <3> QED
      BY <3>1, <3>2, <3>3, <3>4, SpottedStep
  <2> HIDE DEF T
  <2>6. N - 1 \in T
    <3>1. Nat \subseteq T
      BY <2>4, <2>5, Induction
    <3>2. N - 1 \in Nat
      BY <1>0, <1>2
    <3> QED
      BY <3>1, <3>2
  <2>7. Good(N)
    <3>1. (N - 1) + 1 = N
      BY <1>0
    <3> QED
      BY <2>6, <3>1 DEF T
  <2> QED
    BY <2>1, <2>7
<1> QED
    BY <1>1, <1>2

LEMMA FlattenOne ==
    ASSUME NEW S, NEW s \in Seq(S)
    PROVE  FlattenSeq(<<s>>) = s
<1>1. <<s>> \in Seq(Seq(S)) /\ Len(<<s>>) = 1 /\ <<s>>[1] = s
    OBVIOUS
<1> DEFINE F == CHOOSE g : IsFlat(g, <<s>>, 1)
<1>2. FlattenSeq(<<s>>) = F[1]
    BY <1>1 DEF FlattenSeq, IsFlat
<1>3. IsFlat(F, <<s>>, 1)
    BY FlatExists
<1> HIDE DEF F
<1>4. F[1] = <<s>>[1]
    BY <1>3 DEF IsFlat
<1> QED
    BY <1>1, <1>2, <1>4

LEMMA FlattenTwo ==
    ASSUME NEW S, NEW ss \in Seq(Seq(S)), Len(ss) = 2
    PROVE  FlattenSeq(ss) = ss[1] \o ss[2]
<1> DEFINE F == CHOOSE g : IsFlat(g, ss, 2)
<1>1. FlattenSeq(ss) = F[2]
    BY DEF FlattenSeq, IsFlat
<1>2. IsFlat(F, ss, 2)
    BY FlatExists
<1> HIDE DEF F
<1>3. \A i \in 1 .. 2 : F[i] = IF i = 1 THEN ss[i] ELSE F[i - 1] \o ss[i]
    BY <1>2 DEF IsFlat
<1>4. F[1] = ss[1] /\ F[2] = F[2 - 1] \o ss[2] /\ 2 - 1 = 1
    BY <1>3
<1> QED
    BY <1>1, <1>4

LEMMA FlattenFour ==
    ASSUME NEW ss, IsSeq(ss), Len(ss) = 4
    PROVE  FlattenSeq(ss) = ((ss[1] \o ss[2]) \o ss[3]) \o ss[4]
<1> DEFINE F == CHOOSE g : IsFlat(g, ss, 4)
<1>1. FlattenSeq(ss) = F[4]
    BY DEF FlattenSeq, IsFlat
<1>2. IsFlat(F, ss, 4)
    BY FlatExists
<1> HIDE DEF F
<1>3. \A i \in 1 .. 4 : F[i] = IF i = 1 THEN ss[i] ELSE F[i - 1] \o ss[i]
    BY <1>2 DEF IsFlat
<1>4. F[1] = ss[1]
    BY <1>3
<1>5. F[2] = F[1] \o ss[2]
    BY <1>3
<1>6. F[3] = F[2] \o ss[3]
    BY <1>3
<1>7. F[4] = F[3] \o ss[4]
    BY <1>3
<1> QED
    BY <1>1, <1>4, <1>5, <1>6, <1>7

-----------------------------------------------------------------------------
(* The sort of a search.                                                     *)

\* e holds the elements of S, each once, in the order of their keys.
Enumerates(e, S, key) ==
    /\ IsSeq(e)
    /\ \A k \in 1 .. Len(e) : e[k] \in S
    /\ \A x \in S : \E k \in 1 .. Len(e) : e[k] = x
    /\ \A i \in 1 .. Len(e) : \A j \in 1 .. Len(e) :
         i < j => e[i] # e[j] /\ key[e[i]] <= key[e[j]]

One(s) == CHOOSE x \in s : TRUE

Put(acc, key, x) ==
    InsertAt(acc, 1 + Cardinality({k \in DOMAIN acc : key[acc[k]] <= key[x]}), x)

IsFold(it, D, key) ==
    it = [s \in D |-> IF s = {} THEN <<>> ELSE Put(it[s \ {One(s)}], key, One(s))]

LEMMA OrderedIs ==
    ASSUME NEW S, NEW key
    PROVE  Ordered(S, key) = (CHOOSE it : IsFold(it, SUBSET S, key))[S]
BY Zenon DEF Ordered, FoldSet, MapThenFoldSet, IsFold, Put, One

Small(S, n) == {s \in SUBSET S : Cardinality(s) <= n}

LEMMA FoldExtends ==
    ASSUME NEW S, IsFiniteSet(S), NEW key, NEW n \in Nat, NEW g, IsFold(g, Small(S, n), key)
    PROVE  \E h : IsFold(h, Small(S, n + 1), key)
<1> DEFINE Made(f, s) == IF s = {} THEN <<>> ELSE Put(f[s \ {One(s)}], key, One(s))
           h == [s \in Small(S, n + 1) |-> Made(g, s)]
           r == [s \in Small(S, n + 1) |-> Made(h, s)]
<1>1. ASSUME NEW s \in Small(S, n + 1), s # {}
      PROVE  s \ {One(s)} \in Small(S, n)
  <2>1. s \in SUBSET S /\ IsFiniteSet(s) /\ Cardinality(s) \in Nat /\ Cardinality(s) <= n + 1
    BY FS_Subset, FS_CardinalityType DEF Small
  <2>2. One(s) \in s
    BY <1>1 DEF One
  <2>3. Cardinality(s \ {One(s)}) = Cardinality(s) - 1
    BY <2>1, <2>2, FS_RemoveElement
  <2>4. s \ {One(s)} \in SUBSET S
    BY <2>1
  <2> QED
    BY <2>1, <2>3, <2>4 DEF Small
<1>2. ASSUME NEW s \in Small(S, n)
      PROVE  s \in Small(S, n + 1) /\ g[s] = Made(g, s)
  <2>1. s \in SUBSET S /\ Cardinality(s) <= n
    BY DEF Small
  <2>2. Cardinality(s) \in Nat
    BY <2>1, FS_Subset, FS_CardinalityType
  <2>3. Cardinality(s) <= n + 1
    BY <2>1, <2>2
  <2> QED
    BY <2>1, <2>3 DEF Small, IsFold
<1>3. \A s \in Small(S, n + 1) : h[s] = Made(g, s) /\ r[s] = Made(h, s)
    OBVIOUS
<1>4. h = [s \in Small(S, n + 1) |-> h[s]] /\ r = [s \in Small(S, n + 1) |-> r[s]]
    OBVIOUS
<1> HIDE DEF h, r
<1>5. ASSUME NEW s \in Small(S, n + 1)
      PROVE  h[s] = r[s]
  <2>1. CASE s = {}
    BY <1>3, <2>1
  <2>2. CASE s # {}
    <3> DEFINE t == s \ {One(s)}
    <3>1. t \in Small(S, n)
      BY <1>1, <2>2
    <3>2. h[t] = g[t]
      BY <1>2, <1>3, <3>1
    <3> QED
      BY <1>3, <2>2, <3>2
  <2> QED
    BY <2>1, <2>2
<1>6. h = r
    BY <1>4, <1>5
<1>7. r = [s \in Small(S, n + 1) |-> IF s = {} THEN <<>> ELSE Put(h[s \ {One(s)}], key, One(s))]
    BY DEF r
<1>8. IsFold(h, Small(S, n + 1), key)
    BY <1>6, <1>7 DEF IsFold
<1> QED
    BY <1>8

LEMMA FoldExists ==
    ASSUME NEW S, IsFiniteSet(S), NEW key
    PROVE  \E it : IsFold(it, SUBSET S, key)
<1> DEFINE T == {n \in Nat : \E it : IsFold(it, Small(S, n), key)}
<1>1. 0 \in T
  <2> DEFINE g == [s \in {{}} |-> <<>>]
  <2>1. Small(S, 0) = {{}}
    <3>1. \A s \in SUBSET S : Cardinality(s) <= 0 <=> s = {}
      <4> SUFFICES ASSUME NEW s \in SUBSET S PROVE Cardinality(s) <= 0 <=> s = {}
        OBVIOUS
      <4>1. IsFiniteSet(s) /\ Cardinality(s) \in Nat
        BY FS_Subset, FS_CardinalityType
      <4>2. Cardinality(s) = 0 <=> s = {}
        BY <4>1, FS_EmptySet
      <4> QED
        BY <4>1, <4>2
    <3> QED
      BY <3>1 DEF Small
  <2>2. g = [s \in {{}} |-> IF s = {} THEN <<>> ELSE Put(g[s \ {One(s)}], key, One(s))]
    OBVIOUS
  <2>3. IsFold(g, {{}}, key)
    BY <2>2 DEF IsFold
  <2> QED
    BY <2>1, <2>3
<1>2. \A n \in Nat : n \in T => n + 1 \in T
    BY FoldExtends
<1>3. Cardinality(S) \in Nat
    BY FS_CardinalityType
<1>4. Small(S, Cardinality(S)) = SUBSET S
    BY FS_Subset DEF Small
<1> HIDE DEF T
<1>5. Cardinality(S) \in T
    BY <1>1, <1>2, <1>3, Induction
<1> QED
    BY <1>4, <1>5 DEF T

\* A set of positions that has all before each of its own is the first ones.
LEMMA FirstOnes ==
    ASSUME NEW n \in Nat, NEW K \in SUBSET (1 .. n),
           \A k \in K : \A j \in 1 .. k : j \in K
    PROVE  Cardinality(K) \in 0 .. n /\ K = 1 .. Cardinality(K)
<1> DEFINE C == {k \in 1 .. n + 1 : k \notin K}
<1>1. C \in SUBSET (1 .. n + 1) /\ n + 1 \in C /\ n + 1 \in Nat
    OBVIOUS
<1>2. PICK m \in C : \A j \in C : m <= j
    BY <1>1, LeastOf
<1>3. m \in 1 .. n + 1 /\ m \notin K /\ \A j \in 1 .. n + 1 : j \notin K => m <= j
    BY <1>2
<1> HIDE DEF C
<1>4. K = 1 .. m - 1
  <2>1. ASSUME NEW j \in K PROVE j \in 1 .. m - 1
    <3>1. j \in 1 .. n /\ ~(m \in 1 .. j)
      BY <1>3, <2>1
    <3> QED
      BY <1>3, <3>1
  <2>2. ASSUME NEW j \in 1 .. m - 1 PROVE j \in K
    <3>1. j \in 1 .. n + 1 /\ ~(m <= j)
      BY <1>3
    <3> QED
      BY <1>3, <3>1
  <2> QED
    BY <2>1, <2>2
<1>5. Cardinality(1 .. m - 1) = m - 1
  <2>1. 1 \in Int /\ m - 1 \in Int
    BY <1>3
  <2>2. Cardinality(1 .. m - 1) = IF 1 > m - 1 THEN 0 ELSE (m - 1) - 1 + 1
    BY <2>1, FS_Interval
  <2> QED
    BY <1>3, <2>2
<1> QED
    BY <1>3, <1>4, <1>5

LEMMA InsertIs ==
    ASSUME NEW e, IsSeq(e), NEW m \in 0 .. Len(e), NEW x
    PROVE  LET f == InsertAt(e, m + 1, x) IN
           /\ IsSeq(f) /\ Len(f) = Len(e) + 1
           /\ \A k \in 1 .. Len(e) + 1 :
                f[k] = IF k <= m THEN e[k] ELSE IF k = m + 1 THEN x ELSE e[k - 1]
<1> DEFINE n == Len(e)
           S == {e[k] : k \in 1 .. n} \cup {x}
           a == SubSeq(e, 1, (m + 1) - 1)
           b == <<x>>
           c == SubSeq(e, m + 1, n)
           f == InsertAt(e, m + 1, x)
<1>1. n \in Nat /\ m \in Nat /\ m <= n
    BY DEF IsSeq
<1>2. \A k \in 1 .. n : e[k] \in S
    OBVIOUS
<1>3. x \in S
    OBVIOUS
<1> HIDE DEF S
<1>4. a \in Seq(S) /\ Len(a) = m /\ \A k \in 1 .. m : a[k] = e[k]
  <2>1. 1 \in Int /\ (m + 1) - 1 \in Int /\ \A k \in 1 .. (m + 1) - 1 : e[k] \in S
    BY <1>1, <1>2
  <2>2. /\ a \in Seq(S)
        /\ Len(a) = IF 1 <= (m + 1) - 1 THEN ((m + 1) - 1) - 1 + 1 ELSE 0
        /\ \A k \in 1 .. ((m + 1) - 1) - 1 + 1 : a[k] = e[1 + k - 1]
    BY <2>1, SubSeqProperties
  <2> HIDE DEF a
  <2> QED
    BY <1>1, <2>2
<1>5. c \in Seq(S) /\ Len(c) = n - m /\ \A k \in 1 .. n - m : c[k] = e[m + k]
  <2>1. m + 1 \in Int /\ n \in Int /\ \A k \in m + 1 .. n : e[k] \in S
    BY <1>1, <1>2
  <2>2. /\ c \in Seq(S)
        /\ Len(c) = IF m + 1 <= n THEN n - (m + 1) + 1 ELSE 0
        /\ \A k \in 1 .. n - (m + 1) + 1 : c[k] = e[(m + 1) + k - 1]
    BY <2>1, SubSeqProperties
  <2> HIDE DEF c
  <2> QED
    BY <1>1, <2>2
<1>6. b \in Seq(S) /\ Len(b) = 1 /\ b[1] = x
    BY <1>3
<1>7. f = (a \o b) \o c
    BY DEF InsertAt
<1> HIDE DEF a, b, c, f
<1> DEFINE ab == a \o b
<1>8. /\ ab \in Seq(S) /\ Len(ab) = m + 1
      /\ \A k \in 1 .. m + 1 : ab[k] = IF k <= m THEN a[k] ELSE b[k - m]
  <2>1. /\ ab \in Seq(S) /\ Len(ab) = Len(a) + Len(b)
        /\ \A k \in 1 .. Len(a) + Len(b) : ab[k] = IF k <= Len(a) THEN a[k] ELSE b[k - Len(a)]
    BY <1>4, <1>6, ConcatProperties
  <2> HIDE DEF ab
  <2>2. Len(a) + Len(b) = m + 1
    BY <1>4, <1>6
  <2> QED
    BY <1>4, <2>1, <2>2
<1>10. /\ f \in Seq(S) /\ Len(f) = n + 1
       /\ \A k \in 1 .. n + 1 : f[k] = IF k <= m + 1 THEN ab[k] ELSE c[k - (m + 1)]
  <2> HIDE DEF ab
  <2>1. /\ ab \o c \in Seq(S) /\ Len(ab \o c) = Len(ab) + Len(c)
        /\ \A k \in 1 .. Len(ab) + Len(c) :
             (ab \o c)[k] = IF k <= Len(ab) THEN ab[k] ELSE c[k - Len(ab)]
    BY <1>5, <1>8, ConcatProperties
  <2>2. Len(ab) + Len(c) = n + 1
    BY <1>1, <1>5, <1>8
  <2>3. f = ab \o c
    BY <1>7 DEF ab
  <2> QED
    BY <1>8, <2>1, <2>2, <2>3
<1> HIDE DEF ab
<1>11. ASSUME NEW k \in 1 .. n + 1
       PROVE  f[k] = IF k <= m THEN e[k] ELSE IF k = m + 1 THEN x ELSE e[k - 1]
  <2>1. CASE k <= m
    <3>1. k \in 1 .. m /\ k \in 1 .. m + 1
      BY <1>1, <2>1
    <3> QED
      BY <1>4, <1>8, <1>10, <2>1, <3>1
  <2>2. CASE k = m + 1
    <3>1. ~(k <= m) /\ k - m = 1 /\ k \in 1 .. m + 1
      BY <1>1, <2>2
    <3> QED
      BY <1>6, <1>8, <1>10, <2>2, <3>1
  <2>3. CASE k > m + 1
    <3>1. ~(k <= m + 1) /\ ~(k <= m) /\ k # m + 1 /\ k - (m + 1) \in 1 .. n - m
          /\ m + (k - (m + 1)) = k - 1
      BY <1>1, <2>3
    <3>2. c[k - (m + 1)] = e[m + (k - (m + 1))]
      BY <1>5, <3>1
    <3> QED
      BY <1>10, <3>1, <3>2
  <2> QED
    BY <1>1, <2>1, <2>2, <2>3
<1>12. IsSeq(f)
    BY <1>10, SeqIs
<1> QED
    BY <1>10, <1>11, <1>12 DEF f

LEMMA PutEnumerates ==
    ASSUME NEW S, NEW x, x \notin S, NEW key, \A y \in S \cup {x} : key[y] \in Int,
           NEW e, Enumerates(e, S, key)
    PROVE  Enumerates(Put(e, key, x), S \cup {x}, key)
<1> DEFINE n == Len(e)
           K == {k \in DOMAIN e : key[e[k]] <= key[x]}
           m == Cardinality(K)
           f == Put(e, key, x)
           T == S \cup {x}
<1>1. n \in Nat /\ DOMAIN e = 1 .. n
    BY DEF Enumerates, IsSeq
<1>2. /\ IsSeq(e)
      /\ \A k \in 1 .. n : e[k] \in S
      /\ \A y \in S : \E k \in 1 .. n : e[k] = y
      /\ \A i \in 1 .. n : \A j \in 1 .. n : i < j => e[i] # e[j] /\ key[e[i]] <= key[e[j]]
    BY DEF Enumerates
<1>3. \A k \in 1 .. n : key[e[k]] \in Int /\ e[k] # x
    BY <1>2
<1>4. key[x] \in Int
    OBVIOUS
<1>5. \A k \in 1 .. n : k \in K <=> key[e[k]] <= key[x]
    BY <1>1
<1>6. K \in SUBSET (1 .. n)
    BY <1>1
<1>7. ASSUME NEW k \in K, NEW j \in 1 .. k PROVE j \in K
  <2>1. k \in 1 .. n /\ j \in 1 .. n
    BY <1>1, <1>6
  <2>2. CASE j = k
    BY <2>2
  <2>3. CASE j # k
    <3>1. j < k
      BY <2>1, <2>3
    <3>2. key[e[j]] <= key[e[k]] /\ key[e[k]] <= key[x]
      BY <1>2, <1>5, <2>1, <3>1
    <3> QED
      BY <1>3, <1>4, <1>5, <2>1, <3>2
  <2> QED
    BY <2>2, <2>3
<1>8. f = InsertAt(e, 1 + m, x)
    BY DEF Put
<1> HIDE DEF K, m
<1>9. Cardinality(K) \in 0 .. n /\ K = 1 .. Cardinality(K)
    BY <1>1, <1>6, <1>7, FirstOnes
<1>10. m \in 0 .. n /\ K = 1 .. m /\ 1 + m = m + 1
    BY <1>1, <1>9 DEF m
<1>11. /\ IsSeq(f) /\ Len(f) = n + 1
       /\ \A k \in 1 .. n + 1 : f[k] = IF k <= m THEN e[k] ELSE IF k = m + 1 THEN x ELSE e[k - 1]
    BY <1>2, <1>8, <1>10, InsertIs
<1> HIDE DEF f, n
<1>12. \A k \in 1 .. n + 1 : f[k] \in T
    BY <1>1, <1>2, <1>10, <1>11
<1>13. ASSUME NEW y \in T PROVE \E k \in 1 .. n + 1 : f[k] = y
  <2>1. CASE y = x
    <3>1. m + 1 \in 1 .. n + 1 /\ ~(m + 1 <= m)
      BY <1>1, <1>10
    <3> QED
      BY <1>11, <2>1, <3>1
  <2>2. CASE y # x
    <3>1. PICK k \in 1 .. n : e[k] = y
      BY <1>2, <2>2
    <3>2. CASE k <= m
      <4>1. k \in 1 .. n + 1
        BY <1>1
      <4> QED
        BY <1>11, <3>1, <3>2, <4>1
    <3>3. CASE ~(k <= m)
      <4>1. k + 1 \in 1 .. n + 1 /\ ~(k + 1 <= m) /\ k + 1 # m + 1 /\ (k + 1) - 1 = k
        BY <1>1, <1>10, <3>3
      <4> QED
        BY <1>11, <3>1, <4>1
    <3> QED
      BY <3>2, <3>3
  <2> QED
    BY <2>1, <2>2
<1>14. ASSUME NEW i \in 1 .. n + 1, NEW j \in 1 .. n + 1, i < j
       PROVE  f[i] # f[j] /\ key[f[i]] <= key[f[j]]
  <2>1. CASE j <= m
    <3>1. i <= m /\ i \in 1 .. n /\ j \in 1 .. n
      BY <1>1, <1>10, <1>14, <2>1
    <3> QED
      BY <1>2, <1>11, <1>14, <2>1, <3>1
  <2>2. CASE j = m + 1
    <3>1. i <= m /\ i \in 1 .. n /\ i \in K /\ ~(j <= m)
      BY <1>1, <1>10, <1>14, <2>2
    <3> QED
      BY <1>3, <1>5, <1>11, <2>2, <3>1
  <2>3. CASE j > m + 1 /\ i <= m
    <3>1. i \in 1 .. n /\ j - 1 \in 1 .. n /\ i < j - 1 /\ ~(j <= m) /\ j # m + 1
      BY <1>1, <1>10, <1>14, <2>3
    <3> QED
      BY <1>2, <1>11, <2>3, <3>1
  <2>4. CASE j > m + 1 /\ i = m + 1
    <3>1. j - 1 \in 1 .. n /\ ~(j - 1 \in 1 .. m) /\ ~(i <= m) /\ ~(j <= m) /\ j # m + 1
      BY <1>1, <1>10, <1>14, <2>4
    <3>2. f[i] = x /\ f[j] = e[j - 1]
      BY <1>11, <2>4, <3>1
    <3>3. ~(key[e[j - 1]] <= key[x])
      BY <1>5, <1>10, <3>1
    <3>4. key[x] <= key[e[j - 1]]
      BY <1>3, <1>4, <3>1, <3>3
    <3> QED
      BY <1>3, <3>1, <3>2, <3>4
  <2>5. CASE j > m + 1 /\ i > m + 1
    <3>1. i - 1 \in 1 .. n /\ j - 1 \in 1 .. n /\ i - 1 < j - 1
          /\ ~(i <= m) /\ i # m + 1 /\ ~(j <= m) /\ j # m + 1
      BY <1>1, <1>10, <1>14, <2>5
    <3> QED
      BY <1>2, <1>11, <3>1
  <2> QED
    BY <1>1, <1>10, <2>1, <2>2, <2>3, <2>4, <2>5
<1>15. Enumerates(f, T, key)
    BY <1>11, <1>12, <1>13, <1>14 DEF Enumerates
<1> QED
    BY <1>15 DEF f

\* Sorting gives the elements of the set, each once, in order.
LEMMA OrderedEnumerates ==
    ASSUME NEW S, IsFiniteSet(S), NEW key, \A x \in S : key[x] \in Int
    PROVE  Enumerates(Ordered(S, key), S, key)
<1> DEFINE it == CHOOSE f : IsFold(f, SUBSET S, key)
           T == {n \in Nat : \A s \in SUBSET S : Cardinality(s) = n => Enumerates(it[s], s, key)}
<1>1. IsFold(it, SUBSET S, key)
    BY FoldExists
<1>2. Ordered(S, key) = it[S]
    BY OrderedIs
<1> HIDE DEF it
<1>3. \A s \in SUBSET S : it[s] = IF s = {} THEN <<>> ELSE Put(it[s \ {One(s)}], key, One(s))
    BY <1>1 DEF IsFold
<1>4. \A s \in SUBSET S : IsFiniteSet(s) /\ Cardinality(s) \in Nat
    BY FS_Subset, FS_CardinalityType
<1>5. 0 \in T
  <2> SUFFICES ASSUME NEW s \in SUBSET S, Cardinality(s) = 0 PROVE Enumerates(it[s], s, key)
    OBVIOUS
  <2>1. s = {}
    BY <1>4, FS_EmptySet
  <2>2. it[s] = <<>>
    BY <1>3, <2>1
  <2>3. <<>> \in Seq({}) /\ Len(<<>>) = 0
    BY EmptySeq
  <2>4. IsSeq(<<>>)
    BY <2>3, SeqIs
  <2> QED
    BY <2>1, <2>2, <2>3, <2>4 DEF Enumerates
<1>6. ASSUME NEW n \in Nat, n \in T PROVE n + 1 \in T
  <2> SUFFICES ASSUME NEW s \in SUBSET S, Cardinality(s) = n + 1 PROVE Enumerates(it[s], s, key)
    BY <1>6
  <2> DEFINE x == One(s)
             t == s \ {x}
  <2>1. s # {}
    BY FS_EmptySet
  <2>2. x \in s
    BY <2>1 DEF One
  <2>3. Cardinality(t) = n /\ t \in SUBSET S
    BY <1>4, <2>2, FS_RemoveElement
  <2>4. Enumerates(it[t], t, key)
    BY <1>6, <2>3
  <2>5. it[s] = Put(it[t], key, x)
    BY <1>3, <2>1
  <2>6. x \notin t /\ t \cup {x} = s
    BY <2>2
  <2> HIDE DEF x, t
  <2>7. Enumerates(Put(it[t], key, x), t \cup {x}, key)
    BY <2>2, <2>3, <2>4, <2>6, PutEnumerates
  <2> QED
    BY <2>5, <2>6, <2>7
<1> HIDE DEF T
<1>7. Nat \subseteq T
    BY <1>5, <1>6, Induction
<1>8. Enumerates(it[S], S, key)
    BY <1>4, <1>7 DEF T
<1> QED
    BY <1>2, <1>8

\* A set with what comes after it in the order of the keys: its elements come
\* first, in their order.
LEMMA SameStart ==
    ASSUME NEW S, NEW T, S \subseteq T, NEW key, \A x \in T : key[x] \in Int,
           \A x \in T : \A y \in T : key[x] = key[y] => x = y,
           \A x \in S : \A y \in T \ S : key[x] < key[y],
           NEW e, Enumerates(e, S, key), NEW f, Enumerates(f, T, key)
    PROVE  Len(e) <= Len(f) /\ \A k \in 1 .. Len(e) : f[k] = e[k]
<1> DEFINE n == Len(e)
           m == Len(f)
           D == {k \in 1 .. n : k > m \/ f[k] # e[k]}
<1>1. n \in Nat /\ m \in Nat
    BY DEF Enumerates, IsSeq
<1>2. /\ \A k \in 1 .. n : e[k] \in S
      /\ \A x \in S : \E k \in 1 .. n : e[k] = x
      /\ \A i \in 1 .. n : \A j \in 1 .. n : i < j => e[i] # e[j] /\ key[e[i]] <= key[e[j]]
    BY DEF Enumerates
<1>3. /\ \A k \in 1 .. m : f[k] \in T
      /\ \A x \in T : \E k \in 1 .. m : f[k] = x
      /\ \A i \in 1 .. m : \A j \in 1 .. m : i < j => f[i] # f[j] /\ key[f[i]] <= key[f[j]]
    BY DEF Enumerates
<1> HIDE DEF n, m
<1>4. \A i \in 1 .. n : \A j \in 1 .. n : i < j => key[e[i]] < key[e[j]]
  <2> SUFFICES ASSUME NEW i \in 1 .. n, NEW j \in 1 .. n, i < j PROVE key[e[i]] < key[e[j]]
    OBVIOUS
  <2>1. e[i] \in T /\ e[j] \in T /\ e[i] # e[j] /\ key[e[i]] <= key[e[j]]
    BY <1>2
  <2>2. key[e[i]] \in Int /\ key[e[j]] \in Int /\ key[e[i]] # key[e[j]]
    BY <2>1
  <2> QED
    BY <2>1, <2>2
<1>5. \A i \in 1 .. m : \A j \in 1 .. m : i < j => key[f[i]] < key[f[j]]
  <2> SUFFICES ASSUME NEW i \in 1 .. m, NEW j \in 1 .. m, i < j PROVE key[f[i]] < key[f[j]]
    OBVIOUS
  <2>1. f[i] \in T /\ f[j] \in T /\ f[i] # f[j] /\ key[f[i]] <= key[f[j]]
    BY <1>3
  <2>2. key[f[i]] \in Int /\ key[f[j]] \in Int /\ key[f[i]] # key[f[j]]
    BY <2>1
  <2> QED
    BY <2>1, <2>2
<1>6. D = {}
  <2> SUFFICES ASSUME D # {} PROVE FALSE
    OBVIOUS
  <2>0. /\ D \in SUBSET (1 .. n)
        /\ \A k \in D : k > m \/ f[k] # e[k]
        /\ \A k \in 1 .. n : k \notin D => ~(k > m) /\ f[k] = e[k]
    OBVIOUS
  <2> HIDE DEF D
  <2>1. PICK k \in D : \A j \in D : k <= j
    BY <1>1, <2>0, LeastOf
  <2>2. k \in 1 .. n /\ (k > m \/ f[k] # e[k])
    BY <2>0
  <2>3. \A j \in 1 .. n : j < k => j \in 1 .. m /\ f[j] = e[j]
    <3> SUFFICES ASSUME NEW j \in 1 .. n, j < k PROVE j \in 1 .. m /\ f[j] = e[j]
      OBVIOUS
    <3>1. j \notin D
      BY <1>1, <2>1, <2>2
    <3> QED
      BY <1>1, <2>0, <3>1
  <2>4. PICK j \in 1 .. m : f[j] = e[k]
    BY <1>2, <1>3, <2>2
  <2>5. ~(j < k)
    <3>1. j < k => j \in 1 .. n /\ e[j] = e[k]
      BY <1>1, <2>2, <2>3, <2>4
    <3> QED
      BY <1>2, <2>2, <3>1
  <2>6. k \in 1 .. m /\ k < j
    BY <1>1, <2>2, <2>4, <2>5
  <2>7. key[f[k]] < key[e[k]]
    BY <1>5, <2>4, <2>6
  <2>8. f[k] \in T /\ e[k] \in S
    BY <1>2, <1>3, <2>2, <2>6
  <2>9. f[k] \in S
    <3>1. f[k] \notin S => key[e[k]] < key[f[k]]
      BY <2>8
    <3>2. key[f[k]] \in Int /\ key[e[k]] \in Int
      BY <2>8
    <3> QED
      BY <2>7, <3>1, <3>2
  <2>10. PICK i \in 1 .. n : e[i] = f[k]
    BY <1>2, <2>9
  <2>11. ~(i < k)
    <3>1. i < k => i \in 1 .. m /\ f[i] = f[k]
      BY <2>3, <2>10
    <3> QED
      BY <1>3, <2>6, <3>1
  <2>12. i # k
    BY <2>2, <2>6, <2>10, <1>1
  <2>13. key[e[k]] < key[f[k]]
    BY <1>1, <1>4, <2>2, <2>10, <2>11, <2>12
  <2>14. key[f[k]] \in Int /\ key[e[k]] \in Int
    BY <2>8
  <2> QED
    BY <2>7, <2>13, <2>14
<1>7. \A k \in 1 .. n : k <= m /\ f[k] = e[k]
    BY <1>1, <1>6
<1>8. n <= m
  <2>1. n = 0 \/ n \in 1 .. n
    BY <1>1
  <2> QED
    BY <1>1, <1>7, <2>1
<1> QED
    BY <1>7, <1>8 DEF n, m

LEMMA OneOrder ==
    ASSUME NEW S, NEW key, \A x \in S : key[x] \in Int,
           \A x \in S : \A y \in S : key[x] = key[y] => x = y,
           NEW e, Enumerates(e, S, key), NEW f, Enumerates(f, S, key)
    PROVE  e = f
<1>0. S \subseteq S /\ \A x \in S : \A y \in S \ S : key[x] < key[y]
    OBVIOUS
<1>1. Len(e) <= Len(f) /\ \A k \in 1 .. Len(e) : f[k] = e[k]
  <2> DEFINE T == S
  <2>1. /\ \A x \in T : key[x] \in Int
        /\ \A x \in T : \A y \in T : key[x] = key[y] => x = y
        /\ S \subseteq T /\ \A x \in S : \A y \in T \ S : key[x] < key[y]
        /\ Enumerates(f, T, key)
    BY <1>0
  <2> HIDE DEF T
  <2> QED
    BY <2>1, SameStart
<1>2. Len(f) <= Len(e)
    BY <1>0, SameStart
<1>3. IsSeq(e) /\ IsSeq(f)
    BY DEF Enumerates
<1>4. Len(e) = Len(f)
  <2>1. Len(e) \in Nat /\ Len(f) \in Nat
    BY <1>3 DEF IsSeq
  <2> QED
    BY <1>1, <1>2, <2>1
<1> QED
    BY <1>1, <1>3, <1>4 DEF IsSeq

LEMMA SameKeys ==
    ASSUME NEW S, NEW key, NEW other, \A x \in S : key[x] = other[x],
           NEW e, Enumerates(e, S, key)
    PROVE  Enumerates(e, S, other)
BY DEF Enumerates

LEMMA CountIs ==
    ASSUME NEW S, NEW key, NEW e, Enumerates(e, S, key)
    PROVE  Cardinality(S) = Len(e) /\ IsFiniteSet(S)
<1> DEFINE n == Len(e)
<1>1. n \in Nat /\ e = [k \in 1 .. n |-> e[k]]
    BY DEF Enumerates, IsSeq
<1>2. /\ \A k \in 1 .. n : e[k] \in S
      /\ \A x \in S : \E k \in 1 .. n : e[k] = x
      /\ \A i \in 1 .. n : \A j \in 1 .. n : i < j => e[i] # e[j]
    BY DEF Enumerates
<1> HIDE DEF n
<1>3. \A i \in 1 .. n : \A j \in 1 .. n : e[i] = e[j] => i = j
    BY <1>1, <1>2
<1>4. e \in [1 .. n -> S]
    BY <1>1, <1>2
<1>5. e \in Bijection(1 .. n, S)
  <2>1. e \in Injection(1 .. n, S)
    BY <1>3, <1>4 DEF Injection, IsInjective
  <2>2. e \in Surjection(1 .. n, S)
    BY <1>2, <1>4 DEF Surjection
  <2> QED
    BY <2>1, <2>2 DEF Bijection
<1>6. ExistsBijection(1 .. n, S)
    BY <1>5 DEF ExistsBijection
<1>7. IsFiniteSet(1 .. n) /\ Cardinality(1 .. n) = n
  <2>1. 1 \in Int /\ n \in Int
    BY <1>1
  <2>2. IsFiniteSet(1 .. n) /\ Cardinality(1 .. n) = IF 1 > n THEN 0 ELSE n - 1 + 1
    BY <2>1, FS_Interval
  <2> QED
    BY <1>1, <2>2
<1>8. IsFiniteSet(S) /\ Cardinality(S) = Cardinality(1 .. n)
    BY <1>6, <1>7, FS_Bijection
<1> QED
    BY <1>7, <1>8 DEF n

-----------------------------------------------------------------------------
(* Pages, and what a search finds.                                           *)

LEMMA PageIs ==
    ASSUME NEW S, NEW all \in Seq(S), NEW from \in Nat, NEW size \in Nat
    PROVE  LET page == Page(all, from, size)
               last == IF from + size < Len(all) THEN from + size ELSE Len(all)
           IN  /\ page \in Seq(S)
               /\ Len(page) = IF from < last THEN last - from ELSE 0
               /\ \A k \in 1 .. Len(page) : page[k] = all[from + k]
<1> DEFINE n == Len(all)
           last == IF from + size < n THEN from + size ELSE n
           page == Page(all, from, size)
<1>1. n \in Nat /\ \A k \in 1 .. n : all[k] \in S
    BY LenProperties, ElementOfSeq
<1>2. last \in Nat /\ last <= n /\ page = SubSeq(all, from + 1, last)
    BY <1>1 DEF Page
<1> HIDE DEF n, last, page
<1>3. \A k \in from + 1 .. last : all[k] \in S
    BY <1>1, <1>2
<1>4. /\ page \in Seq(S)
      /\ Len(page) = IF from + 1 <= last THEN last - (from + 1) + 1 ELSE 0
      /\ \A k \in 1 .. last - (from + 1) + 1 : page[k] = all[(from + 1) + k - 1]
  <2>1. from + 1 \in Int /\ last \in Int
    BY <1>2
  <2> QED
    BY <1>2, <1>3, <2>1, SubSeqProperties
<1>5. Len(page) = IF from < last THEN last - from ELSE 0
    BY <1>2, <1>4
<1>6. \A k \in 1 .. Len(page) : page[k] = all[from + k]
  <2> SUFFICES ASSUME NEW k \in 1 .. Len(page) PROVE page[k] = all[from + k]
    OBVIOUS
  <2>1. k \in 1 .. last - (from + 1) + 1 /\ (from + 1) + k - 1 = from + k
    BY <1>2, <1>5
  <2> QED
    BY <1>4, <2>1
<1> QED
    BY <1>4, <1>5, <1>6 DEF n, last, page

\* The first N pages of some size are the first elements.
LEMMA PagesAre ==
    ASSUME NEW S, NEW all \in Seq(S), NEW size \in Nat, NEW N \in Nat
    PROVE  FlattenSeq([n \in 1 .. N |-> Page(all, (n - 1) * size, size)])
               = SubSeq(all, 1, IF N * size < Len(all) THEN N * size ELSE Len(all))
<1> DEFINE n == Len(all)
           ss == [k \in 1 .. N |-> Page(all, (k - 1) * size, size)]
           Upto(k) == IF k * size < n THEN k * size ELSE n
<1>1. n \in Nat
    BY LenProperties
<1>2. Len(ss) = N
    BY MadeSeq
<1>3. \A k \in 1 .. N : ss[k] = Page(all, (k - 1) * size, size)
    OBVIOUS
<1>4. \A k \in Nat : k * size \in Nat /\ (k + 1) * size = k * size + size
    OBVIOUS
<1>5. \A k \in Nat : Upto(k) \in 0 .. n
    BY <1>1, <1>4
<1>6. Upto(0) = 0
    BY <1>1
<1> HIDE DEF ss, n
<1>7. CASE N = 0
  <2>1. FlattenSeq(ss) = ss
    BY <1>2, <1>7 DEF FlattenSeq
  <2>2. ss = <<>>
    BY <1>7 DEF ss
  <2>3. SubSeq(all, 1, 0) = <<>>
    BY SubSeqEmpty
  <2> QED
    BY <1>6, <1>7, <2>1, <2>2, <2>3 DEF n, ss
<1>8. CASE N # 0
  <2> DEFINE F == CHOOSE g : IsFlat(g, ss, N)
             T == {k \in Nat : k + 1 <= N => F[k + 1] = SubSeq(all, 1, Upto(k + 1))}
  <2>1. FlattenSeq(ss) = F[N]
    BY <1>2, <1>8 DEF FlattenSeq, IsFlat
  <2>2. IsFlat(F, ss, N)
    BY FlatExists
  <2> HIDE DEF F
  <2>3. \A k \in 1 .. N : F[k] = IF k = 1 THEN ss[k] ELSE F[k - 1] \o ss[k]
    BY <2>2 DEF IsFlat
  <2>4. ASSUME NEW k \in Nat, k + 1 <= N
        PROVE  ss[k + 1] = SubSeq(all, k * size + 1, Upto(k + 1))
    <3>1. k + 1 \in 1 .. N /\ (k + 1) - 1 = k
      BY <2>4
    <3>2. ss[k + 1] = Page(all, k * size, size)
      BY <1>3, <3>1
    <3> QED
      BY <1>4, <3>2 DEF Page, n
  <2>5. 0 \in T
    <3> SUFFICES ASSUME 0 + 1 <= N PROVE F[0 + 1] = SubSeq(all, 1, Upto(0 + 1))
      OBVIOUS
    <3>1. F[1] = ss[1]
      BY <1>8, <2>3
    <3>2. ss[0 + 1] = SubSeq(all, 0 * size + 1, Upto(0 + 1))
      BY <2>4
    <3> QED
      BY <3>1, <3>2
  <2>6. ASSUME NEW k \in Nat, k \in T PROVE k + 1 \in T
    <3> SUFFICES ASSUME (k + 1) + 1 <= N
                 PROVE  F[(k + 1) + 1] = SubSeq(all, 1, Upto((k + 1) + 1))
      OBVIOUS
    <3> DEFINE j == k + 1
               p == j * size
               u == Upto(j)
               v == Upto(j + 1)
    <3>1. j \in Nat /\ j + 1 \in 1 .. N /\ j <= N /\ j + 1 # 1 /\ (j + 1) - 1 = j
      OBVIOUS
    <3>2. F[j] = SubSeq(all, 1, u)
      BY <2>6, <3>1
    <3>3. F[j + 1] = SubSeq(all, 1, u) \o SubSeq(all, p + 1, v)
      <4>1. F[j + 1] = F[j] \o ss[j + 1]
        BY <2>3, <3>1
      <4>2. ss[j + 1] = SubSeq(all, p + 1, v)
        BY <2>4, <3>1
      <4> QED
        BY <3>2, <4>1, <4>2
    <3>4. p \in Nat /\ (j + 1) * size = p + size
      BY <1>4, <3>1
    <3>5. u = (IF p < n THEN p ELSE n) /\ v = (IF p + size < n THEN p + size ELSE n)
      BY <3>4
    <3> HIDE DEF p, u, v, j
    <3>6. CASE p <= n
      <4>1. u = p /\ u \in 1 - 1 .. n /\ v \in u .. n /\ 1 \in 1 .. n + 1
        BY <1>1, <3>4, <3>5, <3>6
      <4>2. SubSeq(all, 1, u) \o SubSeq(all, u + 1, v) = SubSeq(all, 1, v)
        BY <4>1, ConcatAdjacentSubSeq DEF n
      <4> QED
        BY <3>3, <4>1, <4>2 DEF j, v
    <3>7. CASE ~(p <= n)
      <4>1. u = n /\ v = n /\ n < p + 1 /\ p + 1 \in Int
        BY <1>1, <3>4, <3>5, <3>7
      <4>2. SubSeq(all, p + 1, v) = <<>>
        BY <1>1, <4>1, SubSeqEmpty
      <4>3. SubSeq(all, 1, n) = all
        BY SubSeqFull DEF n
      <4>4. all \o <<>> = all
        BY ConcatEmptySeq
      <4> QED
        BY <3>3, <4>1, <4>2, <4>3, <4>4 DEF j, v
    <3> QED
      BY <3>6, <3>7
  <2> HIDE DEF T
  <2>7. N - 1 \in T
    <3>1. Nat \subseteq T
      BY <2>5, <2>6, Induction
    <3> QED
      BY <1>8, <3>1
  <2>8. F[N] = SubSeq(all, 1, Upto(N))
    <3>1. (N - 1) + 1 = N
      OBVIOUS
    <3> QED
      BY <2>7, <3>1 DEF T
  <2> QED
    BY <2>1, <2>8 DEF ss, n
<1> QED
    BY <1>7, <1>8

Ranks(d, M, sort) == [id \in M |-> Rank(d[id].value, sort)]

Ranked(d, M, sort) == IsFiniteSet(M) /\ \A id \in M : Rank(d[id].value, sort) \in Int

\* e lists M by rank, and the hits are the first `size` of it.
Shows(e, hits, d, M, sort, size) ==
    /\ Enumerates(e, M, Ranks(d, M, sort)) /\ Len(e) = Cardinality(M) /\ Len(e) \in Nat
    /\ IsSeq(hits)
    /\ Len(hits) = (IF size < Len(e) THEN size ELSE Len(e))
    /\ \A k \in 1 .. Len(hits) : k \in 1 .. Len(e) /\ hits[k] = d[e[k]].value

\* The first documents, in the order of their ranks.
LEMMA SearchFinds ==
    ASSUME NEW d, NEW M, NEW sort, Ranked(d, M, sort), NEW size \in Nat
    PROVE  \E e : Shows(e, Search(d, M, sort, 0, size), d, M, sort, size)
<1> DEFINE key == Ranks(d, M, sort)
           e == Ordered(M, key)
           S == {d[id].value : id \in M}
           all == [k \in DOMAIN e |-> d[e[k]].value]
           hits == Search(d, M, sort, 0, size)
           n == Len(e)
<1>1. IsFiniteSet(M) /\ \A id \in M : key[id] \in Int
    BY DEF Ranked, Ranks
<1>2. hits = Page(all, 0, size)
    BY DEF Search, Ranks
<1> HIDE DEF key, hits
<1>3. Enumerates(e, M, key)
    BY <1>1, OrderedEnumerates
<1> HIDE DEF e
<1>4. IsSeq(e) /\ n \in Nat /\ DOMAIN e = 1 .. n /\ \A k \in 1 .. n : e[k] \in M
    BY <1>3 DEF Enumerates, IsSeq
<1>5. n = Cardinality(M)
    BY <1>3, CountIs
<1>6. all = [k \in 1 .. n |-> all[k]] /\ \A k \in 1 .. n : all[k] = d[e[k]].value
    BY <1>4
<1>7. \A k \in 1 .. n : all[k] \in S
    BY <1>4, <1>6
<1> HIDE DEF all, S, n
<1>8. IsSeq(all) /\ Len(all) = n
    BY <1>4, <1>6, MadeSeq
<1>9. all \in Seq(S)
    BY <1>7, <1>8, SeqOver
<1>10. /\ hits \in Seq(S)
       /\ Len(hits) = LET last == IF 0 + size < n THEN 0 + size ELSE n IN
                      IF 0 < last THEN last - 0 ELSE 0
       /\ \A k \in 1 .. Len(hits) : hits[k] = all[0 + k]
  <2>1. 0 \in Nat
    OBVIOUS
  <2> QED
    BY <1>2, <1>8, <1>9, <2>1, PageIs
<1>11. Len(hits) = (IF size < n THEN size ELSE n) /\ IsSeq(hits)
    BY <1>4, <1>10, SeqIs
<1>12. \A k \in 1 .. Len(hits) : k \in 1 .. n /\ hits[k] = d[e[k]].value
  <2> SUFFICES ASSUME NEW k \in 1 .. Len(hits)
               PROVE  k \in 1 .. n /\ hits[k] = d[e[k]].value
    OBVIOUS
  <2>1. k \in 1 .. n /\ 0 + k = k
    BY <1>4, <1>11
  <2> QED
    BY <1>6, <1>10, <2>1
<1> QED
    BY <1>3, <1>4, <1>5, <1>11, <1>12 DEF n, hits, key, Shows

\* Nothing, and the only one.
LEMMA SearchNone ==
    ASSUME NEW d, NEW sort, NEW size \in Nat
    PROVE  Search(d, {}, sort, 0, size) = <<>>
<1> DEFINE hits == Search(d, {}, sort, 0, size)
<1>1. Ranked(d, {}, sort)
    BY FS_EmptySet DEF Ranked
<1>2. PICK e : Shows(e, hits, d, {}, sort, size)
    BY <1>1, SearchFinds
<1>3. Cardinality({}) = 0
    BY FS_EmptySet
<1> HIDE DEF hits
<1>4. Len(hits) = 0
    BY <1>2, <1>3 DEF Shows
<1>5. hits = <<>>
    BY <1>2, <1>4 DEF IsSeq, Shows
<1> QED
    BY <1>5 DEF hits

LEMMA SearchOne ==
    ASSUME NEW d, NEW id, NEW sort, Rank(d[id].value, sort) \in Int, NEW size \in Nat, size # 0
    PROVE  Search(d, {id}, sort, 0, size) = <<d[id].value>>
<1> DEFINE hits == Search(d, {id}, sort, 0, size)
           v == d[id].value
<1>1. Ranked(d, {id}, sort)
    BY FS_Singleton DEF Ranked
<1>2. PICK e : Shows(e, hits, d, {id}, sort, size)
    BY <1>1, SearchFinds
<1>3. Cardinality({id}) = 1
    BY FS_Singleton
<1> HIDE DEF hits
<1>4. Len(e) = 1 /\ Len(hits) = 1
    BY <1>2, <1>3 DEF Shows
<1>5. e[1] = id
  <2>1. 1 \in 1 .. Len(e)
    BY <1>4
  <2>2. e[1] \in {id}
    BY <1>2, <2>1 DEF Shows, Enumerates
  <2> QED
    BY <2>2
<1>6. hits[1] = v
  <2>1. 1 \in 1 .. Len(hits)
    BY <1>4
  <2> QED
    BY <1>2, <1>5, <2>1 DEF Shows
<1> HIDE DEF v
<1>7. IsSeq(hits)
    BY <1>2 DEF Shows
<1>8. hits = <<v>>
    BY <1>4, <1>6, <1>7 DEF IsSeq
<1> QED
    BY <1>8 DEF hits, v

\* One of the least rank, when one is asked for.
LEMMA SearchFirst ==
    ASSUME NEW d, NEW M, M # {}, NEW sort, Ranked(d, M, sort)
    PROVE  \E id \in M : /\ Search(d, M, sort, 0, 1) = <<d[id].value>>
                         /\ \A other \in M :
                              Rank(d[id].value, sort) <= Rank(d[other].value, sort)
<1> DEFINE hits == Search(d, M, sort, 0, 1)
           key == Ranks(d, M, sort)
<1>0. 1 \in Nat
    OBVIOUS
<1>1. PICK e : Shows(e, hits, d, M, sort, 1)
    BY <1>0, SearchFinds
<1>2. \A id \in M : key[id] = Rank(d[id].value, sort) /\ key[id] \in Int
    BY DEF Ranks, Ranked
<1>c. Enumerates(e, M, key)
    BY <1>1 DEF Shows
<1> HIDE DEF hits, key
<1>3. Len(e) \in Nat /\ Len(e) # 0
    BY <1>1, <1>c DEF Enumerates, IsSeq, Shows
<1>4. Len(hits) = 1 /\ 1 \in 1 .. Len(e) /\ 1 \in 1 .. Len(hits)
    BY <1>1, <1>3 DEF Shows
<1> DEFINE id == e[1]
<1>5. id \in M /\ hits[1] = d[id].value
    BY <1>1, <1>4 DEF Enumerates, Shows
<1>6. ASSUME NEW other \in M PROVE key[id] <= key[other]
  <2>1. PICK k \in 1 .. Len(e) : e[k] = other
    BY <1>c DEF Enumerates
  <2>2. CASE k = 1
    BY <1>2, <2>1, <2>2
  <2>3. CASE k # 1
    <3>1. 1 < k
      BY <1>3, <2>3
    <3> QED
      BY <1>c, <1>4, <2>1, <3>1 DEF Enumerates
  <2> QED
    BY <2>2, <2>3
<1> HIDE DEF id
<1> DEFINE v == d[id].value
<1> HIDE DEF v
<1>7. hits = <<v>>
    BY <1>1, <1>4, <1>5 DEF IsSeq, Shows, v
<1> QED
    BY <1>2, <1>5, <1>6, <1>7 DEF hits, v

\* All of them, when there are no more than asked for.
IsAll(hits, S) == IsSeq(hits) /\ {hits[k] : k \in 1 .. Len(hits)} = S

LEMMA SearchAll ==
    ASSUME NEW d, NEW M, NEW sort, Ranked(d, M, sort), NEW size \in Nat, Cardinality(M) <= size
    PROVE  IsAll(Search(d, M, sort, 0, size), {d[id].value : id \in M})
<1> DEFINE hits == Search(d, M, sort, 0, size)
<1>1. PICK e : Shows(e, hits, d, M, sort, size)
    BY SearchFinds
<1> HIDE DEF hits
<1>2. Len(e) \in Nat /\ Len(hits) = Len(e)
    BY <1>1 DEF Shows
<1>3. \A k \in 1 .. Len(hits) : e[k] \in M /\ hits[k] = d[e[k]].value
    BY <1>1 DEF Enumerates, Shows
<1>4. \A id \in M : \E k \in 1 .. Len(hits) : e[k] = id /\ hits[k] = d[id].value
    BY <1>1, <1>2, <1>3 DEF Enumerates, Shows
<1>5. {hits[k] : k \in 1 .. Len(hits)} = {d[id].value : id \in M}
    BY <1>3, <1>4
<1> QED
    BY <1>1, <1>5 DEF hits, Shows, IsAll

\* The last n elements, as the first n from the end.
LEMMA LastOnes ==
    ASSUME NEW S, NEW all \in Seq(S), NEW n \in Nat \ {0}
    PROVE  LET page == Page(Reverse(all), 0, n)
               last == Reverse(page)
           IN  last = SubSeq(all, Max({1, Len(all) - n + 1}), Len(all))
<1> DEFINE m == Len(all)
           rev == Reverse(all)
           page == Page(rev, 0, n)
           last == Reverse(page)
           from == Max({1, m - n + 1})
           l == IF n < m THEN n ELSE m
           sub == SubSeq(all, from, m)
<1>1. m \in Nat /\ (\A k \in 1 .. m : all[k] \in S) /\ IsSeq(all)
    BY SeqIs, LenProperties
<1>2. rev = [k \in 1 .. m |-> all[(m - k) + 1]]
    BY DEF Reverse
<1>3. /\ rev = [k \in 1 .. m |-> rev[k]]
      /\ \A k \in 1 .. m : rev[k] = all[(m - k) + 1]
    BY <1>2
<1>4. from = IF m < n THEN 1 ELSE m - n + 1
  <2> DEFINE A == {1, m - n + 1}
             b == IF m < n THEN 1 ELSE m - n + 1
  <2>1. b \in A /\ \A y \in A : b >= y
    BY <1>1
  <2>2. from \in A /\ \A y \in A : from >= y
    BY <2>1 DEF Max
  <2>3. from >= b /\ b >= from /\ from \in Int /\ b \in Int
    BY <1>1, <2>1, <2>2
  <2> HIDE DEF from, b
  <2>4. from = b
    BY <2>3
  <2> QED
    BY <2>4 DEF b
<1> HIDE DEF rev, m, from
<1>5. l \in 0 .. m /\ from = m - l + 1
    BY <1>1, <1>4
<1>6. IsSeq(rev) /\ Len(rev) = m
    BY <1>1, <1>3, MadeSeq
<1>7. rev \in Seq(S)
  <2>1. \A k \in 1 .. m : (m - k) + 1 \in 1 .. m
    BY <1>1
  <2>2. \A k \in 1 .. Len(rev) : rev[k] \in S
    BY <1>1, <1>3, <1>6, <2>1
  <2> QED
    BY <1>6, <2>2, SeqOver
<1>8. /\ page \in Seq(S) /\ Len(page) = l
      /\ \A k \in 1 .. l : page[k] = rev[k]
  <2>1. n \in Nat /\ 0 \in Nat
    OBVIOUS
  <2>2. /\ page \in Seq(S)
        /\ Len(page) = IF 0 < (IF 0 + n < Len(rev) THEN 0 + n ELSE Len(rev))
                         THEN (IF 0 + n < Len(rev) THEN 0 + n ELSE Len(rev)) - 0 ELSE 0
        /\ \A k \in 1 .. Len(page) : page[k] = rev[0 + k]
    BY <1>7, <2>1, PageIs, Zenon
  <2> HIDE DEF page
  <2>3. Len(page) = l
    BY <1>1, <1>6, <2>2
  <2> QED
    BY <2>2, <2>3
<1> HIDE DEF page, l
<1>9. last = [k \in 1 .. l |-> page[(l - k) + 1]]
    BY <1>8 DEF Reverse
<1>10. \A k \in 1 .. l : last[k] = all[(m - l) + k]
  <2> SUFFICES ASSUME NEW k \in 1 .. l PROVE last[k] = all[(m - l) + k]
    OBVIOUS
  <2> DEFINE i == (l - k) + 1
  <2>1. i \in 1 .. l /\ i \in 1 .. m /\ (m - i) + 1 = (m - l) + k
    BY <1>1, <1>5
  <2>2. last[k] = page[i]
    BY <1>9
  <2> HIDE DEF i
  <2> QED
    BY <1>3, <1>8, <2>1, <2>2
<1>11. /\ sub \in Seq(S)
       /\ Len(sub) = l
       /\ \A k \in 1 .. l : sub[k] = all[(m - l) + k]
  <2>1. from \in Int /\ m \in Int /\ \A k \in from .. m : all[k] \in S
    BY <1>1, <1>5
  <2>2. /\ sub \in Seq(S)
        /\ Len(sub) = IF from <= m THEN m - from + 1 ELSE 0
        /\ \A k \in 1 .. m - from + 1 : sub[k] = all[from + k - 1]
    BY <2>1, SubSeqProperties
  <2> HIDE DEF sub
  <2>3. l \in Nat /\ m - from + 1 = l /\ \A k \in 1 .. l : from + k - 1 = (m - l) + k
    BY <1>1, <1>5
  <2>4. Len(sub) = l
    BY <1>1, <1>5, <2>2, <2>3
  <2> QED
    BY <2>2, <2>3, <2>4
<1> HIDE DEF last, sub
<1>12. sub = [k \in 1 .. l |-> sub[k]]
  <2>1. IsSeq(sub)
    BY <1>11, SeqIs
  <2> QED
    BY <1>11, <2>1 DEF IsSeq
<1>13. last = [k \in 1 .. l |-> last[k]]
    BY <1>9
<1> QED
  <2>1. last = sub
    BY <1>10, <1>11, <1>12, <1>13
  <2> QED
    BY <2>1 DEF last, page, rev, sub, from, m
=============================================================================
