---------------------------- MODULE HistoryProofs -----------------------------
(***************************************************************************)
(* Proofs of the six properties of History, for every set of holders, keys *)
(* and ABIs, every supply, chain length and window: what is found in       *)
(* Elasticsearch is what the chain did (NothingInvented), each receipt is  *)
(* in one action document (ReceiptsOnce), what is stored of the per-       *)
(* missions and balances once all has landed is what the chain has         *)
(* (StateExact), in whatever order blocks land; the pages of an account    *)
(* are then the actions that ran on it, in order (PagesExact), and those   *)
(* that are full stay what they are while blocks land in order             *)
(* (PagesStable); and the lookups of ABIs, contract rows, transactions,    *)
(* creations and accounts say what the chain did (LookupsExact).           *)
(*                                                                         *)
(* The argument follows a block from the node to the store.  Its traces    *)
(* are grouped by action, each in one group (Grouped); its rows are what   *)
(* differs between the states before and after it (RowOf); the loop of the *)
(* processor only appends documents that are true of the block (Says) and  *)
(* leaves out no action that is not skipped (HasDoc).  IInv keeps that for *)
(* what is flying and for what is stored: a version names the block of     *)
(* which the document is true, by HighestVersionWins a landing leaves only *)
(* such documents, and sequences of receipts never repeat, so that an id   *)
(* is one action's.                                                        *)
(*                                                                         *)
(* For the state, a block touches the documents of what it changes: it     *)
(* writes all of those, and no others (StateDocs), because the cache knows *)
(* its ABI before its rows are decoded.  SInv keeps that each stored       *)
(* document was left by a block that touched it, and is no older than any  *)
(* landed block that did; when all have landed it is the last one's, and   *)
(* nothing has changed since.                                              *)
(*                                                                         *)
(* For the pages, documents are in the order of their sequences, which no  *)
(* two of them share.  A list in that order with nothing twice is the only *)
(* one (Enumerates, OneOrder), so the pages are pieces of one list, and    *)
(* that is the list of the actions of the account as soon as each document *)
(* has the sequence of the first receipt of its action (FirstOf).          *)
(*                                                                         *)
(* For the lookups, ABI snapshots, contract rows and actions are written   *)
(* once.  RInv keeps that each says what the block did whose id it has,    *)
(* and that none of a landed block is missing.  A lookup is then a search  *)
(* whose matches are known from the chain: the highest snapshot that       *)
(* parses, the one row of a balance that changed, the two actions at most  *)
(* of a block, and the one creation of an account, which BInv keeps from   *)
(* being created twice.                                                    *)
(*                                                                         *)
(* FlattenSeq and AccAfter are recursive functions: their equations are    *)
(* proved by induction on the number of elements, as in ElasticProofs.     *)
(***************************************************************************)
EXTENDS History, ElasticProofs

-----------------------------------------------------------------------------
(* FlattenSeq.                                                               *)

\* The places in s of the elements of t, which are those in K, each once.
PickedFrom(t, s, K, from) ==
    /\ \A p \in 1 .. Len(t) : from[p] \in 1 .. Len(s) /\ from[p] \in K /\ t[p] = s[from[p]]
    /\ \A k \in 1 .. Len(s) : k \in K => \E p \in 1 .. Len(t) : from[p] = k
    /\ \A p \in 1 .. Len(t) : \A q \in 1 .. Len(t) : from[p] = from[q] => p = q

LEMMA Picked ==
    ASSUME NEW S, NEW s \in Seq(S), NEW K
    PROVE  /\ Pick(s, K) \in Seq(S)
           /\ \E from : PickedFrom(Pick(s, K), s, K, from)
<1> DEFINE n == Len(s)
           ss == [k \in DOMAIN s |-> IF k \in K THEN <<s[k]>> ELSE <<>>]
           t == FlattenSeq(ss)
<1>1. n \in Nat /\ DOMAIN s = 1 .. n /\ \A k \in 1 .. n : s[k] \in S
    BY LenProperties
<1>2. \A k \in 1 .. n : <<s[k]>> \in Seq(S) /\ Len(<<s[k]>>) = 1 /\ <<s[k]>>[1] = s[k]
    BY <1>1
<1>3. <<>> \in Seq(S) /\ Len(<<>>) = 0
    BY EmptySeq
<1>4. /\ ss = [k \in 1 .. n |-> ss[k]]
      /\ \A k \in 1 .. n : ss[k] = IF k \in K THEN <<s[k]>> ELSE <<>>
    BY <1>1
<1>5. Pick(s, K) = t
    BY DEF Pick
<1> HIDE DEF ss, t, n
<1>6. IsSeq(ss) /\ Len(ss) = n
    BY <1>1, <1>4, MadeSeq
<1>7. ss \in Seq(Seq(S))
    BY <1>2, <1>3, <1>4, <1>6, SeqOver
<1>8. t \in Seq(S) /\ \E spot : Spotted(t, ss, n, spot)
    BY <1>6, <1>7, Flatten DEF t
<1>9. PICK spot : Spotted(t, ss, n, spot)
    BY <1>8
<1>10. \A p \in 1 .. Len(t) :
         /\ spot[p] = <<spot[p][1], spot[p][2]>>
         /\ spot[p][1] \in 1 .. n
         /\ spot[p][2] \in 1 .. Len(ss[spot[p][1]])
         /\ t[p] = ss[spot[p][1]][spot[p][2]]
    BY <1>9 DEF Spotted
<1>11. ASSUME NEW p \in 1 .. Len(t)
       PROVE  /\ spot[p] = <<spot[p][1], 1>>
              /\ spot[p][1] \in 1 .. n
              /\ spot[p][1] \in K
              /\ t[p] = s[spot[p][1]]
  <2>1. ss[spot[p][1]] # <<>>
    <3>1. CASE ss[spot[p][1]] = <<>>
      <4>1. spot[p][2] \in 1 .. 0
        BY <1>3, <1>10, <3>1
      <4> QED
        BY <4>1
    <3> QED
      BY <3>1
  <2>2. spot[p][1] \in K /\ ss[spot[p][1]] = <<s[spot[p][1]]>>
    BY <1>4, <1>10, <2>1
  <2>3. spot[p][2] \in 1 .. 1
    BY <1>2, <1>10, <2>2
  <2>4. spot[p][2] = 1
    BY <2>3
  <2> QED
    BY <1>2, <1>10, <2>2, <2>4
<1> DEFINE from == [p \in 1 .. Len(t) |-> spot[p][1]]
<1>12. \A p \in 1 .. Len(t) : from[p] = spot[p][1]
    OBVIOUS
<1> HIDE DEF from
<1>13. ASSUME NEW k \in 1 .. n, k \in K
       PROVE  \E p \in 1 .. Len(t) : from[p] = k
  <2>0. ss[k] = <<s[k]>> /\ Len(<<s[k]>>) = 1
    BY <1>2, <1>4, <1>13
  <2>1. 1 \in 1 .. Len(ss[k])
    BY <2>0
  <2>2. PICK p \in 1 .. Len(t) : spot[p] = <<k, 1>>
    BY <1>9, <2>1 DEF Spotted
  <2> QED
    BY <1>12, <2>2
<1>14. ASSUME NEW p \in 1 .. Len(t), NEW q \in 1 .. Len(t), from[p] = from[q]
       PROVE  p = q
  <2>1. spot[p] = spot[q]
    BY <1>11, <1>12, <1>14
  <2> QED
    BY <1>9, <2>1 DEF Spotted
<1>15. \A p \in 1 .. Len(t) : from[p] \in 1 .. n /\ from[p] \in K /\ t[p] = s[from[p]]
    BY <1>11, <1>12
<1>16. PickedFrom(t, s, K, from)
    BY <1>13, <1>14, <1>15 DEF PickedFrom, n
<1> QED
    BY <1>5, <1>8, <1>16

-----------------------------------------------------------------------------
(* The loop over the work of a block.                                        *)

IsLoop(g, height, acc, work, n) ==
    g = [k \in 0 .. n |-> IF k = 0 THEN acc ELSE Process(height, g[k - 1], work[k])]

LEMMA LoopExtends ==
    ASSUME NEW height, NEW acc, NEW work, NEW n \in Nat, NEW g, IsLoop(g, height, acc, work, n)
    PROVE  \E h : IsLoop(h, height, acc, work, n + 1)
<1> DEFINE m == n + 1
           h == [k \in 0 .. m |-> IF k = m THEN Process(height, g[n], work[m]) ELSE g[k]]
           r == [k \in 0 .. m |-> IF k = 0 THEN acc ELSE Process(height, h[k - 1], work[k])]
<1>1. \A k \in 0 .. m : h[k] = r[k]
  <2> SUFFICES ASSUME NEW k \in 0 .. m PROVE h[k] = r[k]
    OBVIOUS
  <2>1. CASE k = m
    BY <2>1
  <2>2. CASE k # m
    BY <2>2 DEF IsLoop
  <2> QED
    BY <2>1, <2>2
<1>2. h = [k \in 0 .. m |-> h[k]] /\ r = [k \in 0 .. m |-> r[k]]
    OBVIOUS
<1>3. h = r
  <2> HIDE DEF h, r
  <2> QED
    BY <1>1, <1>2
<1> QED
  <2> HIDE DEF h
  <2> QED
    BY <1>3 DEF IsLoop

LEMMA LoopExists ==
    ASSUME NEW height, NEW acc, NEW work, NEW n \in Nat
    PROVE  \E g : IsLoop(g, height, acc, work, n)
<1> DEFINE T == {m \in Nat : \E g : IsLoop(g, height, acc, work, m)}
<1>1. 0 \in T
  <2>1. [k \in 0 .. 0 |-> acc]
        = [k \in 0 .. 0 |-> IF k = 0 THEN acc
                           ELSE Process(height, [j \in 0 .. 0 |-> acc][k - 1], work[k])]
    OBVIOUS
  <2> QED
    BY <2>1 DEF IsLoop
<1>2. \A m \in Nat : m \in T => m + 1 \in T
    BY LoopExtends
<1> HIDE DEF T
<1>3. n \in T
    BY <1>1, <1>2, Induction
<1> QED
    BY <1>3 DEF T

LEMMA LoopEquations ==
    ASSUME NEW height, NEW acc, NEW work, Len(work) \in Nat
    PROVE  /\ AccAfter(height, acc, work)[0] = acc
           /\ \A k \in 1 .. Len(work) :
                AccAfter(height, acc, work)[k]
                    = Process(height, AccAfter(height, acc, work)[k - 1], work[k])
<1> DEFINE F == AccAfter(height, acc, work)
<1>1. IsLoop(F, height, acc, work, Len(work))
  <2>1. \E g : IsLoop(g, height, acc, work, Len(work))
    BY LoopExists
  <2> QED
    BY <2>1 DEF AccAfter, IsLoop
<1> HIDE DEF F
<1>2. F[0] = acc
    BY <1>1 DEF IsLoop
<1>3. \A k \in 1 .. Len(work) : F[k] = Process(height, F[k - 1], work[k])
    BY <1>1 DEF IsLoop
<1> QED
    BY <1>2, <1>3 DEF F

-----------------------------------------------------------------------------
(* The rows of a block.                                                      *)

\* The permissions that are no more, and the balances that are not the same.
Gone(s, t) == {p \in s.perms : ~\E q \in t.perms : q.owner = p.owner /\ q.name = p.name}
Changed(s, t) == {b \in Holders : s.balance[b] # t.balance[b]}

Kinds == {"account", "permission", "resource_usage", "contract_row"}

\* The rows of a block that finds s and leaves t.
RowOf(kind, row, s, t) ==
    \/ kind = "account" /\ s.abi # t.abi /\ row = Row(TRUE, [name |-> Token, abi |-> t.abi])
    \/ kind = "permission" /\ \E p \in t.perms \ s.perms : row = Row(TRUE, p)
    \/ kind = "permission" /\ \E p \in Gone(s, t) : row = Row(FALSE, p)
    \/ kind = "resource_usage" /\ row = Row(TRUE, [name |-> Token])
    \/ kind = "contract_row" /\ \E a \in Changed(s, t) : row = BalanceRow(s, t, a)

\* rows has those of a kind, and others only that do not parse.
HasRows(rows, kind, s, t) ==
    /\ IsSeq(rows)
    /\ \A k \in 1 .. Len(rows) : rows[k].data # Garbage => RowOf(kind, rows[k], s, t)
    /\ \A row : RowOf(kind, row, s, t) => \E k \in 1 .. Len(rows) : rows[k] = row

LEMMA AccountRowsAre ==
    ASSUME NEW s, NEW t
    PROVE  /\ HasRows(AccountRows(s, t), "account", s, t)
           /\ HasRows(<<Row(TRUE, [name |-> Token])>>, "resource_usage", s, t)
<1> DEFINE row == Row(TRUE, [name |-> Token, abi |-> t.abi])
           usage == Row(TRUE, [name |-> Token])
           rows == AccountRows(s, t)
<1>1. \A e : IsSeq(<<e>>) /\ Len(<<e>>) = 1 /\ <<e>>[1] = e
  <2> SUFFICES ASSUME NEW e
               PROVE  IsSeq(<<e>>) /\ Len(<<e>>) = 1 /\ <<e>>[1] = e
    OBVIOUS
  <2>1. <<e>> \in Seq({e}) /\ Len(<<e>>) = 1 /\ <<e>>[1] = e
    OBVIOUS
  <2> QED
    BY <2>1, SeqIs
<1>2. IsSeq(<<>>) /\ Len(<<>>) = 0
  <2>1. <<>> \in Seq({}) /\ Len(<<>>) = 0
    BY EmptySeq
  <2> QED
    BY <2>1, SeqIs
<1>3. rows = IF s.abi = t.abi THEN <<>> ELSE <<row>>
    BY DEF AccountRows
<1>4. \A other : /\ RowOf("account", other, s, t) <=> s.abi # t.abi /\ other = row
                 /\ RowOf("resource_usage", other, s, t) <=> other = usage
    BY DEF RowOf
<1> HIDE DEF row, usage, rows
<1>5. \A k \in 1 .. 1 : k = 1
    OBVIOUS
<1>6. HasRows(<<usage>>, "resource_usage", s, t)
    BY <1>1, <1>4, <1>5 DEF HasRows
<1>7. CASE s.abi = t.abi
  <2>1. rows = <<>> /\ 1 .. 0 = {}
    BY <1>3, <1>7
  <2>2. \A other : ~RowOf("account", other, s, t)
    BY <1>4, <1>7
  <2>3. HasRows(rows, "account", s, t)
    BY <1>2, <2>1, <2>2 DEF HasRows
  <2> QED
    BY <1>6, <2>3 DEF rows, usage
<1>8. CASE s.abi # t.abi
  <2>1. rows = <<row>>
    BY <1>3, <1>8
  <2>2. HasRows(<<row>>, "account", s, t)
    BY <1>1, <1>4, <1>5, <1>8 DEF HasRows
  <2> QED
    BY <1>6, <2>1, <2>2 DEF rows, usage
<1> QED
    BY <1>7, <1>8

LEMMA PermissionRowsAre ==
    ASSUME NEW s, NEW t, IsFiniteSet(s.perms), IsFiniteSet(t.perms)
    PROVE  HasRows(PermissionRows(s, t), "permission", s, t)
<1> DEFINE new == t.perms \ s.perms
           gone == Gone(s, t)
           A == {Row(TRUE, p) : p \in new}
           B == {Row(FALSE, p) : p \in gone}
           a == [p \in new |-> Row(TRUE, p)]
           b == [p \in gone |-> Row(FALSE, p)]
           rows == PermissionRows(s, t)
<1>1. IsFiniteSet(gone) /\ IsFiniteSet(new)
    BY FS_Subset DEF Gone
<1>2. A = {a[p] : p \in new} /\ B = {b[p] : p \in gone}
    OBVIOUS
<1>3. rows = SetToSeq(A \cup B)
    BY DEF PermissionRows, Gone
<1>4. \A row : RowOf("permission", row, s, t) <=> row \in A \cup B
    BY DEF RowOf
<1> HIDE DEF new, gone, A, B, a, b, rows
<1>5. IsFiniteSet(A \cup B)
  <2>1. IsFiniteSet({a[p] : p \in new}) /\ IsFiniteSet({b[p] : p \in gone})
    BY <1>1, FiniteImage
  <2> QED
    BY <1>2, <2>1, FS_Union
<1>6. rows \in Seq(A \cup B)
    BY <1>3, <1>5, SetToSeqIs
<1>7. \A row \in A \cup B : \E k \in 1 .. Len(rows) : rows[k] = row
    BY <1>3, <1>5, SetToSeqAll
<1>8. IsSeq(rows) /\ \A k \in 1 .. Len(rows) : rows[k] \in A \cup B
    BY <1>6, SeqIs
<1>9. HasRows(rows, "permission", s, t)
    BY <1>4, <1>7, <1>8 DEF HasRows
<1> QED
    BY <1>9 DEF rows

LEMMA ContractRowsAre ==
    ASSUME NEW s, NEW t
    PROVE  HasRows(ContractRows(s, t), "contract_row", s, t)
<1> DEFINE changed == Changed(s, t)
           f == [x \in changed |-> BalanceRow(s, t, x)]
           B == {BalanceRow(s, t, x) : x \in changed}
           e == Row(TRUE, Garbage)
           S == B \cup {e}
           q == SetToSeq(B)
           rows == ContractRows(s, t)
<1>1. IsFiniteSet(changed)
    BY HistoryAssumption, FS_Subset DEF Changed
<1>2. B = {f[x] : x \in changed}
    OBVIOUS
<1>3. rows = <<e>> \o q
    BY DEF ContractRows, Changed
<1>4. \A row : RowOf("contract_row", row, s, t) <=> row \in B
    BY DEF RowOf
<1>5. e.data = Garbage
    BY DEF Row
<1> HIDE DEF changed, f, B, e, q, rows
<1>6. IsFiniteSet(B)
    BY <1>1, <1>2, FiniteImage
<1>7. q \in Seq(B) /\ \A row \in B : \E k \in 1 .. Len(q) : q[k] = row
    BY <1>6, SetToSeqIs, SetToSeqAll DEF q
<1>8. q \in Seq(S) /\ <<e>> \in Seq(S) /\ Len(<<e>>) = 1 /\ <<e>>[1] = e
  <2>1. B \subseteq S /\ e \in S
    OBVIOUS
  <2> HIDE DEF S
  <2> QED
    BY <1>7, <2>1, SeqMonotonic
<1>9. Len(q) \in Nat
    BY <1>7, LenProperties
<1>10. /\ rows \in Seq(S)
       /\ Len(rows) = 1 + Len(q)
       /\ \A k \in 1 .. 1 + Len(q) : rows[k] = IF k <= 1 THEN <<e>>[k] ELSE q[k - 1]
    BY <1>3, <1>8, ConcatProperties
<1>11. IsSeq(rows) /\ \A k \in 1 .. Len(rows) : rows[k] \in S
  <2> HIDE DEF S
  <2> QED
    BY <1>10, SeqIs
<1>12. \A row \in B : \E k \in 1 .. Len(rows) : rows[k] = row
  <2> SUFFICES ASSUME NEW row \in B
               PROVE  \E k \in 1 .. Len(rows) : rows[k] = row
    OBVIOUS
  <2>1. PICK k \in 1 .. Len(q) : q[k] = row
    BY <1>7
  <2>2. k + 1 \in 1 .. 1 + Len(q) /\ ~(k + 1 <= 1) /\ (k + 1) - 1 = k
    BY <1>9
  <2> QED
    BY <1>10, <2>1, <2>2
<1>13. HasRows(rows, "contract_row", s, t)
    BY <1>4, <1>5, <1>11, <1>12 DEF HasRows
<1> QED
    BY <1>13 DEF rows

LEMMA DeltasAre ==
    ASSUME NEW s, NEW t, IsFiniteSet(s.perms), IsFiniteSet(t.perms)
    PROVE  /\ IsSeq(DeltasOf(s, t))
           /\ \A n \in 1 .. Len(DeltasOf(s, t)) :
                LET delta == DeltasOf(s, t)[n] IN
                delta.name \in Kinds /\ HasRows(delta.rows, delta.name, s, t)
           /\ \A kind \in Kinds : \E n \in 1 .. Len(DeltasOf(s, t)) : DeltasOf(s, t)[n].name = kind
<1> DEFINE D == DeltasOf(s, t)
           usage == <<Row(TRUE, [name |-> Token])>>
<1>1. /\ Len(D) = 4
      /\ D[1] = [name |-> "account", rows |-> AccountRows(s, t)]
      /\ D[2] = [name |-> "permission", rows |-> PermissionRows(s, t)]
      /\ D[3] = [name |-> "resource_usage", rows |-> usage]
      /\ D[4] = [name |-> "contract_row", rows |-> ContractRows(s, t)]
    BY DEF DeltasOf
<1>2. IsSeq(D)
  <2>1. D = [k \in 1 .. 4 |-> D[k]]
    BY DEF DeltasOf
  <2> QED
    BY <2>1, MadeSeq
<1>3. /\ HasRows(AccountRows(s, t), "account", s, t)
      /\ HasRows(PermissionRows(s, t), "permission", s, t)
      /\ HasRows(usage, "resource_usage", s, t)
      /\ HasRows(ContractRows(s, t), "contract_row", s, t)
    BY AccountRowsAre, PermissionRowsAre, ContractRowsAre
<1> HIDE DEF D, usage
<1>4. 1 .. Len(D) = {1, 2, 3, 4}
    BY <1>1
<1>5. \A n \in 1 .. Len(D) : D[n].name \in Kinds /\ HasRows(D[n].rows, D[n].name, s, t)
    BY <1>1, <1>3, <1>4 DEF Kinds
<1>6. \A kind \in Kinds : \E n \in 1 .. Len(D) : D[n].name = kind
    BY <1>1, <1>4 DEF Kinds
<1> QED
    BY <1>2, <1>5, <1>6 DEF D

\* Work on the rows of some kinds: on nothing else, and on all that parse.
WorkOn(work, kinds, s, t) ==
    /\ IsSeq(work)
    /\ \A k \in 1 .. Len(work) :
         work[k].kind \in kinds /\ RowOf(work[k].kind, work[k].row, s, t)
    /\ \A kind \in kinds : \A row : RowOf(kind, row, s, t) /\ row.data # Garbage =>
         \E k \in 1 .. Len(work) : work[k] = [kind |-> kind, row |-> row]

LEMMA RowWorkIs ==
    ASSUME NEW delta, NEW s, NEW t, HasRows(delta.rows, delta.name, s, t)
    PROVE  WorkOn(RowWork(delta), {delta.name}, s, t)
<1> DEFINE all == delta.rows
           S == {all[k] : k \in 1 .. Len(all)}
           K == {k \in DOMAIN all : all[k].data # Garbage}
           rows == Pick(all, K)
           W == RowWork(delta)
<1>1. /\ IsSeq(all)
      /\ \A k \in 1 .. Len(all) : all[k].data # Garbage => RowOf(delta.name, all[k], s, t)
      /\ \A row : RowOf(delta.name, row, s, t) => \E k \in 1 .. Len(all) : all[k] = row
    BY DEF HasRows
<1>2. all \in Seq(S) /\ DOMAIN all = 1 .. Len(all)
    BY <1>1, SeqOver
<1>3. W = [k \in DOMAIN rows |-> [kind |-> delta.name, row |-> rows[k]]]
    BY DEF RowWork
<1>4. \A k \in 1 .. Len(all) : k \in K <=> all[k].data # Garbage
    BY <1>2
<1> HIDE DEF all, S, K, rows, W
<1>5. rows \in Seq(S) /\ \E from : PickedFrom(rows, all, K, from)
    BY <1>2, Picked DEF rows
<1>6. PICK from : PickedFrom(rows, all, K, from)
    BY <1>5
<1>7. \A k \in 1 .. Len(rows) : RowOf(delta.name, rows[k], s, t)
    BY <1>1, <1>4, <1>6 DEF PickedFrom
<1>8. \A row : RowOf(delta.name, row, s, t) /\ row.data # Garbage =>
                 \E k \in 1 .. Len(rows) : rows[k] = row
  <2> SUFFICES ASSUME NEW row, RowOf(delta.name, row, s, t), row.data # Garbage
               PROVE  \E k \in 1 .. Len(rows) : rows[k] = row
    OBVIOUS
  <2>1. PICK j \in 1 .. Len(all) : all[j] = row
    BY <1>1
  <2>2. j \in K
    BY <1>4, <2>1
  <2> QED
    BY <1>6, <2>1, <2>2 DEF PickedFrom
<1>9. Len(rows) \in Nat /\ DOMAIN rows = 1 .. Len(rows)
    BY <1>5, LenProperties
<1>10. /\ W = [k \in 1 .. Len(rows) |-> W[k]]
       /\ \A k \in 1 .. Len(rows) : W[k] = [kind |-> delta.name, row |-> rows[k]]
    BY <1>3, <1>9
<1>11. IsSeq(W) /\ Len(W) = Len(rows)
    BY <1>9, <1>10, MadeSeq
<1>12. \A k \in 1 .. Len(W) : W[k].kind = delta.name /\ RowOf(W[k].kind, W[k].row, s, t)
  <2> SUFFICES ASSUME NEW k \in 1 .. Len(W)
               PROVE  W[k].kind = delta.name /\ RowOf(W[k].kind, W[k].row, s, t)
    OBVIOUS
  <2>1. k \in 1 .. Len(rows)
    BY <1>11
  <2>2. W[k].kind = delta.name /\ W[k].row = rows[k]
    BY <1>10, <2>1
  <2> QED
    BY <1>7, <2>1, <2>2
<1>13. \A row : RowOf(delta.name, row, s, t) /\ row.data # Garbage =>
                 \E k \in 1 .. Len(W) : W[k] = [kind |-> delta.name, row |-> row]
    BY <1>8, <1>10, <1>11
<1>14. WorkOn(W, {delta.name}, s, t)
    BY <1>11, <1>12, <1>13 DEF WorkOn
<1> QED
    BY <1>14 DEF W

\* The rows that the processor takes from a block, one after the other.
RowsWork(deltas) == FlattenSeq([n \in DOMAIN deltas |-> RowWork(deltas[n])])

LEMMA RowsWorkAre ==
    ASSUME NEW s, NEW t, IsFiniteSet(s.perms), IsFiniteSet(t.perms)
    PROVE  WorkOn(RowsWork(DeltasOf(s, t)), Kinds, s, t)
<1> DEFINE D == DeltasOf(s, t)
           n == Len(D)
           ss == [k \in DOMAIN D |-> RowWork(D[k])]
           W == FlattenSeq(ss)
           Good(item) == item.kind \in Kinds /\ RowOf(item.kind, item.row, s, t)
           S == UNION {{RowWork(D[k])[j] : j \in 1 .. Len(RowWork(D[k]))} : k \in 1 .. n}
<1>1. /\ IsSeq(D)
      /\ \A k \in 1 .. n : D[k].name \in Kinds /\ HasRows(D[k].rows, D[k].name, s, t)
      /\ \A kind \in Kinds : \E k \in 1 .. n : D[k].name = kind
    BY DeltasAre
<1>2. n \in Nat /\ DOMAIN D = 1 .. n
    BY <1>1 DEF IsSeq
<1> HIDE DEF D, n
<1>0. \A k \in 1 .. n : WorkOn(RowWork(D[k]), {D[k].name}, s, t)
    BY <1>1, RowWorkIs
<1>3. \A k \in 1 .. n : IsSeq(RowWork(D[k]))
    BY <1>0 DEF WorkOn
<1>4. \A k \in 1 .. n : \A j \in 1 .. Len(RowWork(D[k])) : Good(RowWork(D[k])[j])
  <2> SUFFICES ASSUME NEW k \in 1 .. n, NEW j \in 1 .. Len(RowWork(D[k]))
               PROVE  Good(RowWork(D[k])[j])
    OBVIOUS
  <2> DEFINE work == RowWork(D[k])
             name == D[k].name
  <2>1. WorkOn(work, {name}, s, t) /\ name \in Kinds
    BY <1>0, <1>1
  <2> HIDE DEF work, name
  <2>2. j \in 1 .. Len(work)
    BY DEF work
  <2>3. work[j].kind \in {name} /\ RowOf(work[j].kind, work[j].row, s, t)
    BY <2>1, <2>2 DEF WorkOn
  <2> QED
    BY <2>1, <2>3 DEF work
<1>5. \A item \in S : Good(item)
    BY <1>4
<1>6. \A k \in 1 .. n : RowWork(D[k]) \in Seq(S)
  <2> SUFFICES ASSUME NEW k \in 1 .. n PROVE RowWork(D[k]) \in Seq(S)
    OBVIOUS
  <2>1. \A j \in 1 .. Len(RowWork(D[k])) : RowWork(D[k])[j] \in S
    OBVIOUS
  <2> HIDE DEF S
  <2> QED
    BY <1>3, <2>1, SeqOver
<1>7. ss = [k \in 1 .. n |-> ss[k]] /\ \A k \in 1 .. n : ss[k] = RowWork(D[k])
    BY <1>2
<1> HIDE DEF S, ss
<1>8. IsSeq(ss) /\ Len(ss) = n
    BY <1>2, <1>7, MadeSeq
<1>9. ss \in Seq(Seq(S))
    BY <1>6, <1>7, <1>8, SeqOver
<1>10. W \in Seq(S) /\ \E spot : Spotted(W, ss, n, spot)
    BY <1>8, <1>9, Flatten
<1>11. W = RowsWork(D)
    BY DEF RowsWork, ss
<1> HIDE DEF W, Good
<1>12. IsSeq(W) /\ \A k \in 1 .. Len(W) : Good(W[k])
    BY <1>5, <1>10, SeqIs
<1>13. ASSUME NEW kind \in Kinds, NEW row, RowOf(kind, row, s, t), row.data # Garbage
       PROVE  \E k \in 1 .. Len(W) : W[k] = [kind |-> kind, row |-> row]
  <2>1. PICK i \in 1 .. n : D[i].name = kind
    BY <1>1
  <2>2. ss[i] = RowWork(D[i])
    BY <1>7
  <2>3. WorkOn(ss[i], {kind}, s, t)
    BY <1>0, <2>1, <2>2
  <2>4. \E j \in 1 .. Len(ss[i]) : ss[i][j] = [kind |-> kind, row |-> row]
    BY <1>13, <2>3 DEF WorkOn
  <2>5. PICK j \in 1 .. Len(ss[i]) : ss[i][j] = [kind |-> kind, row |-> row]
    BY <2>4
  <2>6. PICK spot : Spotted(W, ss, n, spot)
    BY <1>10
  <2>7. PICK k \in 1 .. Len(W) : spot[k] = <<i, j>>
    BY <2>5, <2>6 DEF Spotted
  <2>8. W[k] = ss[spot[k][1]][spot[k][2]]
    BY <2>6 DEF Spotted
  <2>9. spot[k][1] = i /\ spot[k][2] = j
    BY <2>7
  <2>10. W[k] = ss[i][j]
    BY <2>8, <2>9
  <2> QED
    BY <2>5, <2>10
<1>14. WorkOn(W, Kinds, s, t)
    BY <1>12, <1>13 DEF WorkOn, Good
<1> QED
    BY <1>11, <1>14 DEF D

\* What a row of kind `kind` says of the state t after its block.
TrueRow(kind, row, t) ==
    /\ kind = "permission" /\ row.present = TRUE => row.data \in t.perms
    /\ kind = "contract_row" /\ row.present = TRUE =>
         /\ row.data.value.amount > 0
         /\ row.data.value.amount = t.balance[row.data.scope]

LEMMA RowIsTrue ==
    ASSUME NEW kind, NEW row, NEW s, NEW t, RowOf(kind, row, s, t)
    PROVE  TrueRow(kind, row, t)
<1>1. \A a : TrueRow("contract_row", BalanceRow(s, t, a), t)
    BY DEF BalanceRow, Row, TrueRow
<1>2. \A p : TrueRow("permission", Row(FALSE, p), t)
    BY DEF Row, TrueRow
<1>3. \A p \in t.perms : TrueRow("permission", Row(TRUE, p), t)
    BY DEF Row, TrueRow
<1>4. \A k \in {"account", "resource_usage"} : \A other : TrueRow(k, other, t)
    BY DEF TrueRow
<1> QED
    BY <1>1, <1>2, <1>3, <1>4 DEF RowOf

-----------------------------------------------------------------------------
(* The actions of a transaction.                                             *)

\* The groups of some traces: each trace with a receipt is in the group of its
\* act and in no other.
Grouped(groups, traces) ==
    /\ IsSeq(groups)
    /\ \A g \in 1 .. Len(groups) :
         /\ IsSeq(groups[g]) /\ Len(groups[g]) # 0
         /\ \A j \in 1 .. Len(groups[g]) :
              /\ groups[g][j].act = groups[g][1].act
              /\ \E k \in 1 .. Len(traces) : groups[g][j] = traces[k]
    /\ \A g \in 1 .. Len(groups) : \A h \in 1 .. Len(groups) :
         groups[g][1].act = groups[h][1].act => g = h
    /\ \A k \in 1 .. Len(traces) : traces[k].receipt =>
         \E g \in 1 .. Len(groups) : \E j \in 1 .. Len(groups[g]) : groups[g][j] = traces[k]

LEMMA GroupsAre ==
    ASSUME NEW tx, IsSeq(tx.traces)
    PROVE  Grouped(Groups(tx), tx.traces)
<1> DEFINE traces == tx.traces
           S == {traces[k] : k \in 1 .. Len(traces)}
           K == {k \in DOMAIN tx.traces : tx.traces[k].receipt}
           kept == Receipted(tx)
           Alike(k) == {j \in DOMAIN kept : kept[j].act = kept[k].act}
           likes == [k \in DOMAIN kept |-> Pick(kept, Alike(k))]
           Firsts == {k \in DOMAIN kept : \A j \in Alike(k) : k <= j}
           groups == Groups(tx)
<1>1. traces \in Seq(S) /\ DOMAIN traces = 1 .. Len(traces)
    BY SeqOver
<1>2. kept \in Seq(S) /\ \E from : PickedFrom(kept, traces, K, from)
  <2> HIDE DEF S, K
  <2>1. kept = Pick(traces, K)
    BY DEF Receipted, K
  <2> HIDE DEF kept
  <2> QED
    BY <1>1, <2>1, Picked
<1>3. groups = Pick(likes, Firsts)
    BY DEF Groups
<1> HIDE DEF kept, groups
<1> DEFINE n == Len(kept)
<1>4. n \in Nat /\ DOMAIN kept = 1 .. n /\ \A k \in 1 .. n : kept[k] \in S
    BY <1>2, LenProperties
<1>5. \A k \in 1 .. n : Alike(k) = {j \in 1 .. n : kept[j].act = kept[k].act}
    BY <1>4
<1>6. Firsts = {k \in 1 .. n : \A j \in Alike(k) : k <= j}
    BY <1>4
<1>7. likes = [k \in 1 .. n |-> likes[k]] /\ \A k \in 1 .. n : likes[k] = Pick(kept, Alike(k))
    BY <1>4
<1> HIDE DEF Alike, Firsts, likes, S, n
<1>8. \A k \in 1 .. n :
        /\ likes[k] \in Seq(S)
        /\ \E from : PickedFrom(likes[k], kept, Alike(k), from)
    BY <1>2, <1>7, Picked
<1>9. IsSeq(likes) /\ Len(likes) = n
    BY <1>4, <1>7, MadeSeq
<1>10. likes \in Seq(Seq(S))
    BY <1>8, <1>9, SeqOver
<1>11. groups \in Seq(Seq(S)) /\ \E from : PickedFrom(groups, likes, Firsts, from)
    BY <1>3, <1>10, Picked
<1>12. PICK place : PickedFrom(groups, likes, Firsts, place)
    BY <1>11
\* A class of equal acts, at its element k.
<1>13. ASSUME NEW k \in 1 .. n
       PROVE  /\ IsSeq(likes[k]) /\ Len(likes[k]) # 0
              /\ \A j \in 1 .. Len(likes[k]) : likes[k][j] \in S /\ likes[k][j].act = kept[k].act
              /\ \A m \in Alike(k) : \E j \in 1 .. Len(likes[k]) : likes[k][j] = kept[m]
  <2>1. PICK from : PickedFrom(likes[k], kept, Alike(k), from)
    BY <1>8
  <2>2. IsSeq(likes[k]) /\ \A j \in 1 .. Len(likes[k]) : likes[k][j] \in S
    BY <1>8, SeqIs
  <2>3. \A j \in 1 .. Len(likes[k]) : likes[k][j] = kept[from[j]] /\ from[j] \in Alike(k)
    BY <2>1 DEF PickedFrom
  <2>4. \A j \in 1 .. Len(likes[k]) : likes[k][j].act = kept[k].act
    BY <1>5, <2>3
  <2>5. ASSUME NEW m \in Alike(k) PROVE \E j \in 1 .. Len(likes[k]) : likes[k][j] = kept[m]
    <3>1. m \in 1 .. Len(kept)
      BY <1>5, <2>5 DEF n
    <3>2. PICK j \in 1 .. Len(likes[k]) : from[j] = m
      BY <2>1, <3>1 DEF PickedFrom
    <3> QED
      BY <2>3, <3>2
  <2>6. k \in Alike(k)
    BY <1>5
  <2>7. Len(likes[k]) # 0
    <3>1. PICK j \in 1 .. Len(likes[k]) : likes[k][j] = kept[k]
      BY <2>5, <2>6
    <3> QED
      BY <2>2, <3>1 DEF IsSeq
  <2> QED
    BY <2>2, <2>4, <2>5, <2>7
<1>14. \A g \in 1 .. Len(groups) :
         /\ place[g] \in 1 .. n /\ place[g] \in Firsts
         /\ groups[g] = likes[place[g]]
    BY <1>9, <1>12 DEF PickedFrom
<1>15. \A g \in 1 .. Len(groups) : 1 \in 1 .. Len(groups[g]) /\ groups[g][1].act = kept[place[g]].act
  <2> SUFFICES ASSUME NEW g \in 1 .. Len(groups)
               PROVE  1 \in 1 .. Len(groups[g]) /\ groups[g][1].act = kept[place[g]].act
    OBVIOUS
  <2>1. Len(likes[place[g]]) \in Nat /\ Len(likes[place[g]]) # 0
    BY <1>13, <1>14 DEF IsSeq
  <2>2. 1 \in 1 .. Len(likes[place[g]])
    BY <2>1
  <2> QED
    BY <1>13, <1>14, <2>2
<1>16. IsSeq(groups)
    BY <1>11, SeqIs
<1>17. ASSUME NEW g \in 1 .. Len(groups)
       PROVE  /\ IsSeq(groups[g]) /\ Len(groups[g]) # 0
              /\ \A j \in 1 .. Len(groups[g]) :
                   /\ groups[g][j].act = groups[g][1].act
                   /\ \E k \in 1 .. Len(traces) : groups[g][j] = traces[k]
  <2>1. \A x \in S : \E k \in 1 .. Len(traces) : x = traces[k]
    BY DEF S
  <2> DEFINE p == place[g]
  <2>2. p \in 1 .. n /\ groups[g] = likes[p]
    BY <1>14
  <2>3. /\ IsSeq(likes[p]) /\ Len(likes[p]) # 0
        /\ \A j \in 1 .. Len(likes[p]) : likes[p][j] \in S /\ likes[p][j].act = kept[p].act
    BY <1>13, <2>2
  <2>4. groups[g][1].act = kept[p].act
    BY <1>15
  <2>5. \A j \in 1 .. Len(groups[g]) : groups[g][j].act = groups[g][1].act /\ groups[g][j] \in S
    BY <2>2, <2>3, <2>4
  <2> QED
    BY <2>1, <2>2, <2>3, <2>5
<1>18. ASSUME NEW g \in 1 .. Len(groups), NEW h \in 1 .. Len(groups),
              groups[g][1].act = groups[h][1].act
       PROVE  g = h
  <2>1. place[g] \in Alike(place[h]) /\ place[h] \in Alike(place[g])
    BY <1>5, <1>14, <1>15, <1>18
  <2>2. place[h] <= place[g] /\ place[g] <= place[h]
    BY <1>6, <1>14, <2>1
  <2>3. place[g] = place[h]
    BY <1>4, <1>14, <2>2
  <2> QED
    BY <1>12, <2>3 DEF PickedFrom
<1>19. ASSUME NEW k \in 1 .. Len(traces), traces[k].receipt
       PROVE  \E g \in 1 .. Len(groups) : \E j \in 1 .. Len(groups[g]) : groups[g][j] = traces[k]
  <2>1. k \in K
    BY <1>1, <1>19
  <2>2. PICK from : PickedFrom(kept, traces, K, from)
    BY <1>2
  <2>3. PICK m \in 1 .. n : from[m] = k
    BY <2>1, <2>2 DEF PickedFrom, n
  <2>4. kept[m] = traces[k]
    BY <2>2, <2>3 DEF PickedFrom, n
  <2>5. Alike(m) \in SUBSET (1 .. n) /\ m \in Alike(m)
    BY <1>5
  <2>6. PICK e \in Alike(m) : \A j \in Alike(m) : e <= j
    BY <1>4, <2>5, LeastOf
  <2>7. e \in 1 .. n /\ Alike(e) = Alike(m)
    BY <1>5, <2>6
  <2>8. e \in Firsts
    BY <1>6, <2>6, <2>7
  <2>9. PICK g \in 1 .. Len(groups) : place[g] = e
    BY <1>9, <1>12, <2>7, <2>8 DEF PickedFrom
  <2>10. PICK j \in 1 .. Len(likes[e]) : likes[e][j] = kept[m]
    BY <1>13, <2>5, <2>7
  <2> QED
    BY <1>14, <2>4, <2>9, <2>10
<1> HIDE DEF groups
<1>20. \A g \in 1 .. Len(groups) : \A h \in 1 .. Len(groups) :
         groups[g][1].act = groups[h][1].act => g = h
    BY <1>18
<1>21. Grouped(groups, traces)
    BY <1>16, <1>17, <1>19, <1>20 DEF Grouped
<1> QED
    BY <1>21 DEF groups

LEMMA PrimaryIs ==
    ASSUME NEW group, IsSeq(group), Len(group) # 0
    PROVE  \E p \in 1 .. Len(group) : Primary(group) = group[p]
<1> DEFINE own == {k \in DOMAIN group : group[k].receiver = group[k].act.account}
<1>1. Len(group) \in Nat /\ DOMAIN group = 1 .. Len(group)
    BY DEF IsSeq
<1>2. own \in SUBSET (1 .. Len(group))
    BY <1>1
<1>3. Primary(group) = group[IF own = {} THEN 1 ELSE CHOOSE k \in own : \A j \in own : k <= j]
    BY DEF Primary
<1> HIDE DEF own
<1>4. CASE own = {}
  <2>1. 1 \in 1 .. Len(group)
    BY <1>1
  <2> QED
    BY <1>3, <1>4, <2>1
<1>5. CASE own # {}
  <2>1. \E k \in own : \A j \in own : k <= j
    BY <1>1, <1>2, <1>5, LeastOf
  <2>2. (CHOOSE k \in own : \A j \in own : k <= j) \in own
    BY <2>1
  <2> QED
    BY <1>2, <1>3, <1>5, <2>2
<1> QED
    BY <1>4, <1>5

\* What the traces of a transaction are, whatever it does.
LEMMA TracesAre ==
    ASSUME NEW tx, NEW first, IsSeq(tx.steps),
           \A n \in 1 .. Len(tx.steps) : IsSeq(tx.steps[n].receivers)
    PROVE  LET traces == TracesOf(tx, first) IN
           /\ IsSeq(traces)
           /\ \A k \in 1 .. Len(traces) :
                /\ \E n \in 1 .. Len(tx.steps) : traces[k].act = tx.steps[n].act
                /\ traces[k].receipt = (tx.status = 0)
                /\ traces[k].sequence = first + k
           /\ \A n \in 1 .. Len(tx.steps) : Len(tx.steps[n].receivers) # 0 =>
                \E k \in 1 .. Len(traces) : traces[k].act = tx.steps[n].act
<1> DEFINE steps == tx.steps
           N == Len(steps)
           Runs(step) == [k \in DOMAIN step.receivers |->
                             [act |-> step.act, receiver |-> step.receivers[k]]]
           ss == [n \in DOMAIN tx.steps |-> Runs(tx.steps[n])]
           runs == FlattenSeq(ss)
           traces == TracesOf(tx, first)
           S == {[act |-> steps[u[1]].act, receiver |-> steps[u[1]].receivers[u[2]]] :
                    u \in (1 .. N) \X Nat}
<1>1. N \in Nat /\ DOMAIN steps = 1 .. N
    BY DEF IsSeq
<1>2. \A n \in 1 .. N : Len(steps[n].receivers) \in Nat
                        /\ DOMAIN steps[n].receivers = 1 .. Len(steps[n].receivers)
    BY DEF IsSeq
<1>3. traces = [k \in DOMAIN runs |->
                  [act |-> runs[k].act, receiver |-> runs[k].receiver, receipt |-> tx.status = 0,
                   sequence |-> first + k, creator |-> 0]]
    BY DEF TracesOf
<1>4. \A n \in 1 .. N : \A k \in 1 .. Len(steps[n].receivers) :
        Runs(steps[n])[k] = [act |-> steps[n].act, receiver |-> steps[n].receivers[k]]
    BY <1>2
<1>5. \A n \in 1 .. N : Runs(steps[n]) \in Seq(S)
  <2> SUFFICES ASSUME NEW n \in 1 .. N PROVE Runs(steps[n]) \in Seq(S)
    OBVIOUS
  <2>1. Runs(steps[n]) = [k \in 1 .. Len(steps[n].receivers) |-> Runs(steps[n])[k]]
    BY <1>2
  <2>2. \A k \in 1 .. Len(steps[n].receivers) : Runs(steps[n])[k] \in S
    <3> SUFFICES ASSUME NEW k \in 1 .. Len(steps[n].receivers) PROVE Runs(steps[n])[k] \in S
      OBVIOUS
    <3>1. <<n, k>> \in (1 .. N) \X Nat /\ <<n, k>>[1] = n /\ <<n, k>>[2] = k
      OBVIOUS
    <3> HIDE DEF Runs
    <3> QED
      BY <1>4, <3>1
  <2>3. Len(steps[n].receivers) \in Nat
    BY <1>2
  <2> HIDE DEF Runs, S
  <2>4. IsSeq(Runs(steps[n])) /\ Len(Runs(steps[n])) = Len(steps[n].receivers)
    BY <2>1, <2>3, MadeSeq
  <2> QED
    BY <2>2, <2>4, SeqOver
<1>16. \A n \in 1 .. N : Len(Runs(steps[n])) = Len(steps[n].receivers)
  <2> SUFFICES ASSUME NEW n \in 1 .. N
               PROVE  Len(Runs(steps[n])) = Len(steps[n].receivers)
    OBVIOUS
  <2>1. Runs(steps[n]) = [k \in 1 .. Len(steps[n].receivers) |-> Runs(steps[n])[k]]
    BY <1>2
  <2> HIDE DEF Runs
  <2> QED
    BY <1>2, <2>1, MadeSeq
<1>6. \A x \in S : \E n \in 1 .. N : x.act = steps[n].act
    OBVIOUS
<1>7. ss = [n \in 1 .. N |-> ss[n]] /\ \A n \in 1 .. N : ss[n] = Runs(steps[n])
    BY <1>1
<1> HIDE DEF S, ss, traces, Runs
<1>8. IsSeq(ss) /\ Len(ss) = N
    BY <1>1, <1>7, MadeSeq
<1>9. ss \in Seq(Seq(S))
    BY <1>5, <1>7, <1>8, SeqOver
<1>10. runs \in Seq(S) /\ \E spot : Spotted(runs, ss, N, spot)
    BY <1>8, <1>9, Flatten
<1> HIDE DEF runs
<1>11. Len(runs) \in Nat /\ DOMAIN runs = 1 .. Len(runs) /\ \A k \in 1 .. Len(runs) : runs[k] \in S
    BY <1>10, LenProperties
<1>12. /\ traces = [k \in 1 .. Len(runs) |-> traces[k]]
       /\ \A k \in 1 .. Len(runs) :
            /\ traces[k].act = runs[k].act
            /\ traces[k].receipt = (tx.status = 0)
            /\ traces[k].sequence = first + k
    BY <1>3, <1>11
<1>13. IsSeq(traces) /\ Len(traces) = Len(runs)
    BY <1>11, <1>12, MadeSeq
<1>14. \A k \in 1 .. Len(traces) : \E n \in 1 .. N : traces[k].act = steps[n].act
    BY <1>6, <1>11, <1>12, <1>13
<1>15. ASSUME NEW n \in 1 .. N, Len(steps[n].receivers) # 0
       PROVE  \E k \in 1 .. Len(traces) : traces[k].act = steps[n].act
  <2>1. 1 \in 1 .. Len(steps[n].receivers)
    BY <1>2, <1>15
  <2>2. ss[n] = Runs(steps[n])
    BY <1>7
  <2>3. ss[n][1] = [act |-> steps[n].act, receiver |-> steps[n].receivers[1]]
    BY <1>4, <2>1, <2>2
  <2>4. 1 \in 1 .. Len(ss[n]) /\ ss[n][1].act = steps[n].act
    BY <1>16, <2>1, <2>2, <2>3
  <2>5. PICK spot : Spotted(runs, ss, N, spot)
    BY <1>10
  <2>6. PICK k \in 1 .. Len(runs) : spot[k] = <<n, 1>>
    BY <2>4, <2>5 DEF Spotted
  <2>7. runs[k] = ss[spot[k][1]][spot[k][2]]
    BY <2>5 DEF Spotted
  <2>8. runs[k] = ss[n][1]
    BY <2>6, <2>7
  <2> QED
    BY <1>12, <1>13, <2>4, <2>8
<1> QED
    BY <1>12, <1>13, <1>14, <1>15 DEF traces

-----------------------------------------------------------------------------
(* The documents of a block.                                                 *)

Skipped(group) == <<Primary(group).act.account, Primary(group).act.name>> \in SkipActions

\* A document of a group of traces.
OfGroup(id, value, height, tx, group) ==
    /\ ~Skipped(group)
    /\ id = <<"action", Primary(group).sequence>>
    /\ value = ActionDoc(height, tx, group, value.data)

\* A document says what the chain is at `height`: tx ran, and left the state t.
Says(id, value, height, t, tx) ==
    /\ id[1] = "perm" => value \in t.perms
    /\ id[1] = "token" =>
         /\ value.block_num = height
         /\ value.amount > 0
         /\ value.amount = t.balance[value.scope]
    /\ id[1] = "action" =>
         \E g \in 1 .. Len(Groups(tx)) : OfGroup(id, value, height, tx, Groups(tx)[g])

TrueDoc(doc, height, t, tx) ==
    /\ doc = [op |-> doc.op, id |-> doc.id, value |-> doc.value]
    /\ \/ doc.op = "index" /\ Says(doc.id, doc.value, height, t, tx)
       \/ doc.op = "delete" /\ doc.id[1] # "action"

TrueDocs(s, height, t, tx) ==
    IsSeq(s) /\ \A k \in 1 .. Len(s) : TrueDoc(s[k], height, t, tx)

\* Some document of s is that of the group, if there has to be one.
HasDoc(s, group) ==
    ~Skipped(group) =>
        \E k \in 1 .. Len(s) : s[k].id = <<"action", Primary(group).sequence>>

Longer(s, t) == \A k \in 1 .. Len(s) : k \in 1 .. Len(t) /\ t[k] = s[k]

LEMMA TrueAppend ==
    ASSUME NEW s, NEW height, NEW t, NEW tx, NEW doc,
           TrueDocs(s, height, t, tx), TrueDoc(doc, height, t, tx)
    PROVE  /\ TrueDocs(Append(s, doc), height, t, tx)
           /\ Longer(s, Append(s, doc))
           /\ Len(Append(s, doc)) \in 1 .. Len(Append(s, doc))
           /\ Append(s, doc)[Len(Append(s, doc))] = doc
<1> DEFINE n == Len(s)
           a == Append(s, doc)
<1>1. n \in Nat /\ IsSeq(s) /\ \A k \in 1 .. n : TrueDoc(s[k], height, t, tx)
    BY DEF TrueDocs, IsSeq
<1>2. IsSeq(a) /\ Len(a) = n + 1 /\ (\A k \in 1 .. n : a[k] = s[k]) /\ a[n + 1] = doc
    BY <1>1, AppendIs
<1> HIDE DEF a, n
<1>3. \A k \in 1 .. n + 1 : k \in 1 .. n \/ k = n + 1
    BY <1>1
<1>4. \A k \in 1 .. n : k \in 1 .. n + 1
    BY <1>1
<1>5. n + 1 \in 1 .. n + 1
    BY <1>1
<1>6. \A k \in 1 .. n + 1 : TrueDoc(a[k], height, t, tx)
    BY <1>1, <1>2, <1>3
<1>7. TrueDocs(a, height, t, tx)
    BY <1>2, <1>6 DEF TrueDocs
<1>8. Longer(s, a)
    BY <1>2, <1>4 DEF Longer, n
<1> QED
    BY <1>2, <1>5, <1>7, <1>8 DEF a

LEMMA ActionStep ==
    ASSUME NEW height, NEW t, NEW tx, NEW g \in 1 .. Len(Groups(tx)), NEW acc, NEW item,
           item = [kind |-> "action", tx |-> tx, group |-> Groups(tx)[g]],
           TrueDocs(acc.docs, height, t, tx)
    PROVE  LET new == Process(height, acc, item).docs IN
           /\ TrueDocs(new, height, t, tx)
           /\ Longer(acc.docs, new)
           /\ HasDoc(new, Groups(tx)[g])
<1> DEFINE group == Groups(tx)[g]
           primary == Primary(group)
           act == primary.act
           data == Decoded(ApplySetabi(acc.abis, act), act.account, act.name, act.data)
           value == ActionDoc(height, tx, group, data)
           doc == Index("action", primary.sequence, value)
           new == Process(height, acc, item).docs
<1>1. new = ProcessGroup(height, tx, acc, group).docs
    BY DEF Process
<1>2. CASE <<act.account, act.name>> \in SkipActions
  <2>1. new = acc.docs
    BY <1>1, <1>2 DEF ProcessGroup
  <2> QED
    BY <1>2, <2>1 DEF Longer, HasDoc, Skipped
<1>3. CASE <<act.account, act.name>> \notin SkipActions
  <2>1. new = Append(acc.docs, doc)
    BY <1>1, <1>3 DEF ProcessGroup
  <2>2. value.data = data
    BY DEF ActionDoc
  <2> HIDE DEF value, data
  <2>3. /\ doc = [op |-> doc.op, id |-> doc.id, value |-> doc.value]
        /\ doc.op = "index" /\ doc.id = <<"action", primary.sequence>> /\ doc.value = value
    BY DEF Index
  <2>4. OfGroup(<<"action", primary.sequence>>, value, height, tx, group)
    BY <1>3, <2>2 DEF OfGroup, value, Skipped
  <2> HIDE DEF doc, new, group
  <2>5. doc.id[1] = "action"
    BY <2>3
  <2>6. Says(doc.id, doc.value, height, t, tx)
    BY <2>3, <2>4, <2>5 DEF Says, group
  <2>7. TrueDoc(doc, height, t, tx)
    BY <2>3, <2>6 DEF TrueDoc
  <2>8. /\ TrueDocs(new, height, t, tx) /\ Longer(acc.docs, new)
        /\ \E k \in 1 .. Len(new) : new[k] = doc
    BY <2>1, <2>7, TrueAppend
  <2> QED
    BY <2>3, <2>8 DEF new, group, HasDoc
<1> QED
    BY <1>2, <1>3

LEMMA RowStep ==
    ASSUME NEW height, NEW t, NEW tx, NEW acc, NEW item,
           item.kind \in Kinds, TrueRow(item.kind, item.row, t),
           TrueDocs(acc.docs, height, t, tx)
    PROVE  LET new == Process(height, acc, item).docs IN
           /\ TrueDocs(new, height, t, tx)
           /\ Longer(acc.docs, new)
<1> DEFINE row == item.row
           new == Process(height, acc, item).docs
<1>0. Longer(acc.docs, acc.docs)
    BY DEF Longer
<1>1. CASE item.kind = "account"
  <2> DEFINE abi == Usable(row.data.abi)
             value == [block_num |-> height, account |-> row.data.name, abi |-> abi]
             doc == Index("abi", <<height, row.data.name>>, value)
  <2>1. new = acc.docs \/ new = Append(acc.docs, doc)
    BY <1>1 DEF Process, ProcessAccountRow
  <2> HIDE DEF value
  <2>2. TrueDoc(doc, height, t, tx)
    BY DEF TrueDoc, Says, Index
  <2> HIDE DEF doc
  <2>3. CASE new = acc.docs
    BY <1>0, <2>3
  <2>4. CASE new = Append(acc.docs, doc)
    BY <2>2, <2>4, TrueAppend
  <2> QED
    BY <2>1, <2>3, <2>4
<1>2. CASE item.kind = "permission"
  <2> DEFINE key == <<row.data.owner, row.data.name>>
             doc == IF row.present THEN Index("perm", key, row.data) ELSE Delete("perm", key)
  <2>1. new = Append(acc.docs, doc)
    BY <1>2 DEF Process, ProcessPermissionRow
  <2>2. TrueDoc(Delete("perm", key), height, t, tx)
    BY DEF TrueDoc, Delete
  <2>3. row.present => TrueDoc(Index("perm", key, row.data), height, t, tx)
    BY <1>2 DEF TrueDoc, Says, Index, TrueRow
  <2>4. TrueDoc(doc, height, t, tx)
    BY <2>2, <2>3
  <2> HIDE DEF doc
  <2> QED
    BY <2>1, <2>4, TrueAppend
<1>3. CASE item.kind = "contract_row"
  <2> DEFINE cr == row.data
             data == Decoded(acc.abis, cr.code, cr.table, cr.value)
             delta == Index("delta", <<height, acc.ordinal>>,
                 [block_num |-> height, code |-> cr.code, scope |-> cr.scope, table |-> cr.table,
                  present |-> row.present, data |-> data])
             token == TokenDoc(height, row, data)
             one == Append(acc.docs, delta)
  <2>1. new = one \/ (data # NoValue /\ new = Append(one, token))
    BY <1>3 DEF Process, ProcessContractRow
  <2>2. data # NoValue => data = cr.value
    BY DEF Decoded
  <2>3. TrueDoc(delta, height, t, tx)
    BY DEF TrueDoc, Says, Index
  <2> HIDE DEF delta
  <2>4. TrueDocs(one, height, t, tx) /\ Longer(acc.docs, one)
    BY <2>3, TrueAppend
  <2>5. data # NoValue => TrueDoc(token, height, t, tx)
    <3> SUFFICES ASSUME data # NoValue PROVE TrueDoc(token, height, t, tx)
      OBVIOUS
    <3>1. data = cr.value
      BY <2>2
    <3> HIDE DEF data
    <3> DEFINE key == <<cr.code, cr.scope, data.symbol>>
               value == [block_num |-> height, code |-> cr.code, scope |-> cr.scope,
                         symbol |-> data.symbol, amount |-> data.amount]
    <3>2. CASE row.present
      <4>1. token = Index("token", key, value)
        BY <3>2 DEF TokenDoc
      <4>2. value.amount > 0 /\ value.amount = t.balance[value.scope] /\ value.block_num = height
        BY <1>3, <3>1, <3>2 DEF TrueRow
      <4> HIDE DEF value, token
      <4> QED
        BY <4>1, <4>2 DEF TrueDoc, Says, Index
    <3>3. CASE ~row.present
      <4>1. token = Delete("token", key)
        BY <3>3 DEF TokenDoc
      <4> HIDE DEF token
      <4> QED
        BY <4>1 DEF TrueDoc, Delete
    <3> QED
      BY <3>2, <3>3
  <2> HIDE DEF token, one, data
  <2>6. CASE new = one
    BY <2>4, <2>6
  <2>7. CASE data # NoValue /\ new = Append(one, token)
    <3>1. TrueDocs(new, height, t, tx) /\ Longer(one, new)
      BY <2>4, <2>5, <2>7, TrueAppend
    <3>2. Longer(acc.docs, new)
      BY <2>4, <3>1 DEF Longer
    <3> QED
      BY <3>1, <3>2
  <2> QED
    BY <2>1, <2>6, <2>7
<1>4. CASE item.kind = "resource_usage"
  <2>1. new = acc.docs
    BY <1>4 DEF Process
  <2> QED
    BY <1>0, <2>1
<1> QED
    BY <1>1, <1>2, <1>3, <1>4 DEF Kinds

\* The transaction of a block as the processor sees it, where it is executed.
TransactionAt(height, traces) ==
    [id |-> height, status |-> 0, traces |-> traces, signatures |-> {}]

ActionItem(tx, g) == [kind |-> "action", tx |-> tx, group |-> Groups(tx)[g]]

LEMMA ActionWorkIs ==
    ASSUME NEW tx, IsSeq(tx.traces)
    PROVE  LET work == ActionWork(TransactionAt(tx.id, tx.traces))
               at == TransactionAt(tx.id, tx.traces)
           IN  /\ IsSeq(work) /\ Len(work) = Len(Groups(at))
               /\ \A g \in 1 .. Len(work) : work[g] = ActionItem(at, g)
<1> DEFINE at == TransactionAt(tx.id, tx.traces)
           groups == Groups(at)
           work == ActionWork(at)
<1>1. at.traces = tx.traces /\ at.status = 0
    BY DEF TransactionAt
<1>2. IsSeq(groups)
    BY <1>1, GroupsAre DEF Grouped
<1>3. work = [k \in DOMAIN groups |-> [kind |-> "action", tx |-> at, group |-> groups[k]]]
    BY <1>1 DEF ActionWork
<1>4. Len(groups) \in Nat /\ DOMAIN groups = 1 .. Len(groups)
    BY <1>2 DEF IsSeq
<1> HIDE DEF work
<1>5. /\ work = [k \in 1 .. Len(groups) |-> work[k]]
      /\ \A k \in 1 .. Len(groups) : work[k] = ActionItem(at, k)
    BY <1>3, <1>4 DEF ActionItem
<1>6. IsSeq(work) /\ Len(work) = Len(groups)
    BY <1>4, <1>5, MadeSeq
<1> QED
    BY <1>5, <1>6 DEF work

\* A transaction is that of its steps; it finds the state s and leaves a state.
Runs(tx) == IsSeq(tx.steps) /\ \A n \in 1 .. Len(tx.steps) : IsSeq(tx.steps[n].receivers)

LEMMA ExecutedAre ==
    ASSUME NEW s, NEW tx, Runs(tx)
    PROVE  LET traces == Executed(s, tx).traces IN
           /\ IsSeq(traces)
           /\ \A k \in 1 .. Len(traces) :
                /\ \E n \in 1 .. Len(tx.steps) : traces[k].act = tx.steps[n].act
                /\ traces[k].receipt
                /\ traces[k].sequence = s.sequence + k
           /\ IF tx.status = 0 THEN traces = TracesOf(tx, s.sequence) ELSE Len(traces) = 0
           /\ tx.status = 0 => \A n \in 1 .. Len(tx.steps) : Len(tx.steps[n].receivers) # 0 =>
                \E k \in 1 .. Len(traces) : traces[k].act = tx.steps[n].act
<1> DEFINE all == TracesOf(tx, s.sequence)
<1>1. /\ IsSeq(all)
      /\ \A k \in 1 .. Len(all) :
           /\ \E n \in 1 .. Len(tx.steps) : all[k].act = tx.steps[n].act
           /\ all[k].receipt = (tx.status = 0)
           /\ all[k].sequence = s.sequence + k
      /\ \A n \in 1 .. Len(tx.steps) : Len(tx.steps[n].receivers) # 0 =>
           \E k \in 1 .. Len(all) : all[k].act = tx.steps[n].act
    BY TracesAre DEF Runs
<1>2. IsSeq(<<>>) /\ Len(<<>>) = 0
  <2>1. <<>> \in Seq({}) /\ Len(<<>>) = 0
    BY EmptySeq
  <2> QED
    BY <2>1, SeqIs
<1>3. CASE tx.status = 0
  <2>1. Executed(s, tx).traces = all
    BY <1>3 DEF Executed
  <2> DEFINE traces == Executed(s, tx).traces
  <2>2. traces = TracesOf(tx, s.sequence)
    BY <2>1
  <2> HIDE DEF all, traces
  <2>3. traces = all
    BY <2>1 DEF traces
  <2>4. /\ IsSeq(traces)
        /\ \A k \in 1 .. Len(traces) :
             /\ \E n \in 1 .. Len(tx.steps) : traces[k].act = tx.steps[n].act
             /\ traces[k].receipt
             /\ traces[k].sequence = s.sequence + k
    BY <1>1, <1>3, <2>3
  <2>5. \A n \in 1 .. Len(tx.steps) : Len(tx.steps[n].receivers) # 0 =>
          \E k \in 1 .. Len(traces) : traces[k].act = tx.steps[n].act
    BY <1>1, <2>3
  <2> QED
    BY <1>3, <2>2, <2>4, <2>5 DEF traces
<1>4. CASE tx.status # 0
  <2>1. Executed(s, tx).traces = <<>>
    BY <1>4 DEF Executed
  <2>2. 1 .. 0 = {}
    OBVIOUS
  <2> QED
    BY <1>2, <1>4, <2>1, <2>2
<1> QED
    BY <1>3, <1>4

\* The traces of one action are next to each other.
Apart(traces) ==
    \A i \in 1 .. Len(traces) : \A j \in 1 .. Len(traces) :
    \A k \in 1 .. Len(traces) : \A m \in 1 .. Len(traces) :
        /\ i < j /\ traces[i].act # traces[j].act
        /\ traces[k].act = traces[i].act /\ traces[m].act = traces[j].act
        => k < m

\* Two different actions run one after the other.
LEMMA TracesApart ==
    ASSUME NEW tx, NEW first, Runs(tx), Len(tx.steps) \in 1 .. 2
    PROVE  Apart(TracesOf(tx, first))
<1> DEFINE steps == tx.steps
           traces == TracesOf(tx, first)
           Run(step) == [k \in DOMAIN step.receivers |->
                            [act |-> step.act, receiver |-> step.receivers[k]]]
           ss == [n \in DOMAIN tx.steps |-> Run(tx.steps[n])]
           runs == FlattenSeq(ss)
<1>1. \A k \in 1 .. Len(traces) : \E n \in 1 .. Len(steps) : traces[k].act = steps[n].act
    BY TracesAre DEF Runs
<1>2. CASE \A n \in 1 .. Len(steps) : steps[n].act = steps[1].act
  <2>1. \A k \in 1 .. Len(traces) : traces[k].act = steps[1].act
    BY <1>1, <1>2
  <2> HIDE DEF traces
  <2>2. Apart(traces)
    BY <2>1 DEF Apart
  <2> QED
    BY <2>2 DEF traces
<1>3. CASE Len(steps) = 2 /\ steps[1].act # steps[2].act
  <2> DEFINE a == Run(steps[1])
             b == Run(steps[2])
             S == {a[k] : k \in 1 .. Len(a)} \cup {b[k] : k \in 1 .. Len(b)}
  <2>1. \A n \in 1 .. 2 : /\ Len(steps[n].receivers) \in Nat
                          /\ DOMAIN steps[n].receivers = 1 .. Len(steps[n].receivers)
    BY <1>3 DEF Runs, IsSeq
  <2>2. ASSUME NEW n \in 1 .. 2
        PROVE  /\ IsSeq(Run(steps[n]))
               /\ \A k \in 1 .. Len(Run(steps[n])) : Run(steps[n])[k].act = steps[n].act
    <3> DEFINE r == Run(steps[n])
               N == Len(steps[n].receivers)
    <3>1. r = [k \in 1 .. N |-> r[k]] /\ \A k \in 1 .. N : r[k].act = steps[n].act
      BY <2>1
    <3>2. N \in Nat
      BY <2>1
    <3> HIDE DEF r, N
    <3>3. IsSeq(r) /\ Len(r) = N
      BY <3>1, <3>2, MadeSeq
    <3> QED
      BY <3>1, <3>3 DEF r
  <2>3. ss = [n \in 1 .. 2 |-> ss[n]] /\ ss[1] = a /\ ss[2] = b
    BY <1>3 DEF Runs, IsSeq
  <2>4. /\ IsSeq(a) /\ \A k \in 1 .. Len(a) : a[k].act = steps[1].act
        /\ IsSeq(b) /\ \A k \in 1 .. Len(b) : b[k].act = steps[2].act
    BY <2>2
  <2>5. traces = [k \in DOMAIN runs |->
                    [act |-> runs[k].act, receiver |-> runs[k].receiver, receipt |-> tx.status = 0,
                     sequence |-> first + k, creator |-> 0]]
    BY DEF TracesOf
  <2> HIDE DEF ss, traces, a, b
  <2>6. a \in Seq(S) /\ b \in Seq(S)
    <3>1. (\A k \in 1 .. Len(a) : a[k] \in S) /\ \A k \in 1 .. Len(b) : b[k] \in S
      OBVIOUS
    <3> HIDE DEF S
    <3> QED
      BY <2>4, <3>1, SeqOver
  <2> HIDE DEF S
  <2>7. ss \in Seq(Seq(S)) /\ Len(ss) = 2
    <3>1. IsSeq(ss) /\ Len(ss) = 2
      BY <2>3, MadeSeq
    <3>2. \A n \in 1 .. 2 : ss[n] \in Seq(S)
      <4>1. \A n \in 1 .. 2 : n = 1 \/ n = 2
        OBVIOUS
      <4> QED
        BY <2>3, <2>6, <4>1
    <3> QED
      BY <3>1, <3>2, SeqOver
  <2>8. runs = a \o b
    BY <2>3, <2>7, FlattenTwo
  <2> HIDE DEF runs
  <2>9. /\ runs \in Seq(S) /\ Len(runs) = Len(a) + Len(b)
        /\ \A k \in 1 .. Len(a) + Len(b) : runs[k] = IF k <= Len(a) THEN a[k] ELSE b[k - Len(a)]
    BY <2>6, <2>8, ConcatProperties
  <2>10. Len(a) \in Nat /\ Len(b) \in Nat /\ DOMAIN runs = 1 .. Len(runs)
    BY <2>6, <2>9, LenProperties
  <2> DEFINE m == Len(a)
             n == Len(b)
             N == Len(runs)
  <2>11. \A k \in 1 .. N : traces[k].act = runs[k].act
    BY <2>5, <2>10
  <2>12. Len(traces) = N
    <3>1. traces = [k \in 1 .. N |-> traces[k]]
      BY <2>5, <2>10
    <3>2. N \in Nat
      BY <2>9, <2>10
    <3> HIDE DEF N
    <3> QED
      BY <3>1, <3>2, MadeSeq
  <2>13. ASSUME NEW k \in 1 .. N
         PROVE  traces[k].act = IF k <= m THEN steps[1].act ELSE steps[2].act
    <3>1. CASE k <= m
      <4>1. k \in 1 .. m /\ k \in 1 .. m + n
        BY <2>9, <2>10, <3>1
      <4> QED
        BY <2>4, <2>9, <2>11, <3>1, <4>1
    <3>2. CASE ~(k <= m)
      <4>1. k - m \in 1 .. n /\ k \in 1 .. m + n
        BY <2>9, <2>10, <3>2
      <4> QED
        BY <2>4, <2>9, <2>11, <3>2, <4>1
    <3> QED
      BY <3>1, <3>2
  <2> HIDE DEF m, n, N
  <2>14. m \in Nat /\ N \in Nat
    BY <2>9, <2>10 DEF m, N
  <2>15. Apart(traces)
    <3> SUFFICES ASSUME NEW i \in 1 .. N, NEW j \in 1 .. N, NEW k \in 1 .. N, NEW p \in 1 .. N,
                        i < j, traces[i].act # traces[j].act,
                        traces[k].act = traces[i].act, traces[p].act = traces[j].act
                 PROVE  k < p
      BY <2>12 DEF Apart
    <3>1. i <= m /\ ~(j <= m)
      BY <2>13, <2>14
    <3>2. traces[i].act = steps[1].act /\ traces[j].act = steps[2].act
      BY <2>13, <3>1
    <3>3. k <= m /\ ~(p <= m)
      BY <1>3, <2>13, <3>2
    <3> QED
      BY <2>14, <3>3
  <2> QED
    BY <2>15 DEF traces
<1>4. \/ \A n \in 1 .. Len(steps) : steps[n].act = steps[1].act
      \/ Len(steps) = 2 /\ steps[1].act # steps[2].act
    OBVIOUS
<1> QED
    BY <1>2, <1>3, <1>4

LEMMA ExecutedApart ==
    ASSUME NEW s, NEW tx, Runs(tx), Len(tx.steps) \in 1 .. 2
    PROVE  Apart(Executed(s, tx).traces)
<1>1. CASE tx.status = 0
  <2>1. Executed(s, tx).traces = TracesOf(tx, s.sequence)
    BY <1>1 DEF Executed
  <2> QED
    BY <2>1, TracesApart
<1>2. CASE tx.status # 0
  <2>1. Executed(s, tx).traces = <<>> /\ 1 .. Len(<<>>) = {}
    BY <1>2 DEF Executed
  <2> QED
    BY <2>1 DEF Apart
<1> QED
    BY <1>1, <1>2

\* The work of a reported block: the actions of what ran, then the rows.
LEMMA WorkIs ==
    ASSUME NEW height, NEW s, NEW tx, Runs(tx),
           IsFiniteSet(s.perms), IsFiniteSet(tx.after.perms)
    PROVE  LET at == TransactionAt(height, Executed(s, tx).traces)
               work == Work(Reported(height, s, tx))
               n == Len(Groups(at))
           IN  /\ IsSeq(work) /\ n \in 0 .. Len(work)
               /\ \A k \in 1 .. n : work[k] = ActionItem(at, k)
               /\ \A k \in n + 1 .. Len(work) :
                    work[k].kind \in Kinds /\ RowOf(work[k].kind, work[k].row, s, tx.after)
               /\ \A kind \in Kinds : \A row :
                    RowOf(kind, row, s, tx.after) /\ row.data # Garbage =>
                        \E k \in n + 1 .. Len(work) : work[k] = [kind |-> kind, row |-> row]
<1> DEFINE block == Reported(height, s, tx)
           ran == Executed(s, tx).traces
           at == TransactionAt(height, ran)
           said == [id |-> height, status |-> tx.status, traces |-> TracesOf(tx, s.sequence),
                    signatures |-> {}]
           A == ActionWork(said)
           R == RowsWork(DeltasOf(s, tx.after))
           n == Len(Groups(at))
           Row0(item) == item.kind \in Kinds /\ RowOf(item.kind, item.row, s, tx.after)
           Item(kind, row) == [kind |-> kind, row |-> row]
<1>1. /\ IsSeq(ran)
      /\ IF tx.status = 0 THEN ran = TracesOf(tx, s.sequence) ELSE Len(ran) = 0
    BY ExecutedAre
<1>2. /\ IsSeq(ActionWork(at)) /\ Len(ActionWork(at)) = n
      /\ \A g \in 1 .. n : ActionWork(at)[g] = ActionItem(at, g)
  <2>1. at.traces = ran /\ at.id = height
    BY DEF TransactionAt
  <2> HIDE DEF at, ran
  <2>2. TransactionAt(at.id, at.traces) = at
    BY <2>1 DEF at
  <2> QED
    BY <1>1, <2>1, <2>2, ActionWorkIs
<1>3. IsSeq(A) /\ Len(A) = n /\ \A g \in 1 .. n : A[g] = ActionItem(at, g)
  <2>1. CASE tx.status = 0
    <3>1. said = at
      BY <1>1, <2>1 DEF TransactionAt
    <3> QED
      BY <1>2, <3>1
  <2>2. CASE tx.status # 0
    <3>1. A = <<>>
      BY <2>2 DEF ActionWork
    <3>2. <<>> \in Seq({}) /\ Len(<<>>) = 0
      BY EmptySeq
    <3>3. at.traces = ran
      BY DEF TransactionAt
    <3>4. Grouped(Groups(at), ran)
      BY <1>1, <3>3, GroupsAre
    <3>5. \A g \in 1 .. n : FALSE
      <4> SUFFICES ASSUME NEW g \in 1 .. n PROVE FALSE
        OBVIOUS
      <4>1. Len(Groups(at)[g]) \in Nat /\ Len(Groups(at)[g]) # 0
        BY <3>4 DEF Grouped, IsSeq
      <4>2. 1 \in 1 .. Len(Groups(at)[g])
        BY <4>1
      <4>3. \E k \in 1 .. Len(ran) : Groups(at)[g][1] = ran[k]
        BY <3>4, <4>2 DEF Grouped
      <4>4. \E k \in 1 .. 0 : TRUE
        BY <1>1, <2>2, <4>3
      <4> QED
        BY <4>4
    <3>6. n \in Nat
      BY <3>4 DEF Grouped, IsSeq
    <3>7. n = 0
      <4>1. n # 0 => 1 \in 1 .. n
        BY <3>6
      <4> QED
        BY <3>5, <4>1
    <3>8. IsSeq(A) /\ Len(A) = 0
      BY <3>1, <3>2, SeqIs
    <3> QED
      BY <3>5, <3>7, <3>8
  <2> QED
    BY <2>1, <2>2
<1>4. /\ IsSeq(R) /\ \A k \in 1 .. Len(R) : Row0(R[k])
      /\ \A kind \in Kinds : \A row : RowOf(kind, row, s, tx.after) /\ row.data # Garbage =>
           \E k \in 1 .. Len(R) : R[k] = Item(kind, row)
  <2>1. WorkOn(R, Kinds, s, tx.after)
    BY RowsWorkAre
  <2> HIDE DEF R
  <2> QED
    BY <2>1 DEF WorkOn
<1> DEFINE S == {A[k] : k \in 1 .. Len(A)} \cup {R[k] : k \in 1 .. Len(R)}
<1>5. A \in Seq(S) /\ R \in Seq(S)
    BY <1>3, <1>4, SeqOver
<1>6. Work(block) = A \o R
  <2>1. block.traces = <<said>> /\ block.deltas = DeltasOf(s, tx.after)
    BY DEF Reported
  <2>2. [k \in DOMAIN <<said>> |-> ActionWork(<<said>>[k])] = <<A>>
    OBVIOUS
  <2>3. FlattenSeq(<<A>>) = A
    BY <1>5, FlattenOne
  <2> HIDE DEF A, said, S, block
  <2> QED
    BY <2>1, <2>2, <2>3 DEF Work, RowsWork, R
<1> DEFINE W == Work(block)
<1> HIDE DEF S, A, R, W, Row0, Item, at
<1>7. /\ W \in Seq(S) /\ Len(W) = Len(A) + Len(R)
      /\ \A k \in 1 .. Len(A) + Len(R) : W[k] = IF k <= Len(A) THEN A[k] ELSE R[k - Len(A)]
    BY <1>5, <1>6, ConcatProperties DEF W
<1>8. n \in Nat /\ Len(R) \in Nat /\ Len(A) = n
    BY <1>3, <1>4 DEF IsSeq
<1>9. IsSeq(W) /\ n \in 0 .. Len(W)
    BY <1>7, <1>8, SeqIs
<1>10. ASSUME NEW k \in 1 .. n PROVE W[k] = ActionItem(at, k)
  <2>1. k \in 1 .. Len(A) + Len(R) /\ k <= Len(A)
    BY <1>8
  <2> QED
    BY <1>3, <1>7, <2>1
<1>11. ASSUME NEW k \in n + 1 .. Len(W) PROVE Row0(W[k])
  <2>1. k \in 1 .. Len(A) + Len(R) /\ ~(k <= Len(A)) /\ k - Len(A) \in 1 .. Len(R)
    BY <1>7, <1>8
  <2> QED
    BY <1>4, <1>7, <2>1
<1>12. ASSUME NEW kind \in Kinds, NEW row, RowOf(kind, row, s, tx.after), row.data # Garbage
       PROVE  \E k \in n + 1 .. Len(W) : W[k] = Item(kind, row)
  <2>1. PICK j \in 1 .. Len(R) : R[j] = Item(kind, row)
    BY <1>4, <1>12
  <2>2. /\ n + j \in n + 1 .. Len(W) /\ n + j \in 1 .. Len(A) + Len(R)
        /\ ~(n + j <= Len(A)) /\ (n + j) - Len(A) = j
    BY <1>7, <1>8
  <2>3. W[n + j] = R[j]
    BY <1>7, <2>2
  <2> QED
    BY <2>1, <2>2, <2>3
<1> QED
    BY <1>9, <1>10, <1>11, <1>12 DEF W, Row0, Item, at

\* The documents of a block say what the chain did, and every group has one.
LEMMA BlockDocs ==
    ASSUME NEW height, NEW s, NEW tx, NEW known, Runs(tx),
           IsFiniteSet(s.perms), IsFiniteSet(tx.after.perms)
    PROVE  LET at == TransactionAt(height, Executed(s, tx).traces)
               made == ProcessBlock(height, Reported(height, s, tx), known).docs
           IN  /\ TrueDocs(made, height, tx.after, at)
               /\ \A g \in 1 .. Len(Groups(at)) : HasDoc(made, Groups(at)[g])
<1> DEFINE block == Reported(height, s, tx)
           at == TransactionAt(height, Executed(s, tx).traces)
           t == tx.after
           work == Work(block)
           n == Len(Groups(at))
           header == IF block.header THEN <<Index("block", height, [block_num |-> height])>> ELSE <<>>
           F == AccAfter(height, [docs |-> header, abis |-> known, ordinal |-> 0], work)
           Has(made, g) == HasDoc(made, Groups(at)[g])
           Good(k) == /\ TrueDocs(F[k].docs, height, t, at)
                      /\ \A g \in 1 .. n : g <= k => Has(F[k].docs, g)
           T == {k \in Nat : k <= Len(work) => Good(k)}
<1>1. /\ IsSeq(work) /\ n \in 0 .. Len(work)
      /\ \A k \in 1 .. n : work[k] = ActionItem(at, k)
      /\ \A k \in n + 1 .. Len(work) :
           work[k].kind \in Kinds /\ RowOf(work[k].kind, work[k].row, s, t)
    BY WorkIs
<1>2. Len(work) \in Nat /\ n \in Nat
    BY <1>1 DEF IsSeq
<1>3. ProcessBlock(height, block, known).docs = F[Len(work)].docs
    BY DEF ProcessBlock
<1>4. F[0].docs = header
    BY <1>2, LoopEquations
<1>5. \A k \in 1 .. Len(work) : F[k] = Process(height, F[k - 1], work[k])
    BY <1>2, LoopEquations
<1>6. TrueDocs(header, height, t, at)
  <2> DEFINE doc == Index("block", height, [block_num |-> height])
  <2>1. TrueDoc(doc, height, t, at)
    BY DEF TrueDoc, Says, Index
  <2>2. <<>> \in Seq({doc}) /\ <<doc>> \in Seq({doc})
    BY EmptySeq
  <2>3. header \in Seq({doc})
    BY <2>2
  <2> HIDE DEF doc, header
  <2> QED
    BY <2>1, <2>3, SeqIs DEF TrueDocs
<1> HIDE DEF F, work, at, header, n
<1>7. 0 \in T
  <2>1. \A g \in 1 .. n : ~(g <= 0)
    BY <1>2
  <2>2. Good(0)
    BY <1>4, <1>6, <2>1
  <2> QED
    BY <2>2
<1> HIDE DEF Good
<1>8. ASSUME NEW m \in Nat, m \in T PROVE m + 1 \in T
  <2> DEFINE k == m + 1
  <2> SUFFICES ASSUME k <= Len(work) PROVE Good(k)
    OBVIOUS
  <2>1. k \in 1 .. Len(work) /\ k - 1 = m /\ m <= Len(work)
    BY <1>2
  <2>2. Good(m)
    BY <1>8, <2>1
  <2>0. TrueDocs(F[m].docs, height, t, at) /\ \A g \in 1 .. n : g <= m => Has(F[m].docs, g)
    BY <2>2 DEF Good
  <2>3. F[k] = Process(height, F[m], work[k])
    BY <1>5, <2>1
  <2>4. CASE k \in 1 .. n
    <3>1. work[k] = [kind |-> "action", tx |-> at, group |-> Groups(at)[k]]
      BY <1>1, <2>4 DEF ActionItem
    <3>2. k \in 1 .. Len(Groups(at))
      BY <2>4 DEF n
    <3>3. /\ TrueDocs(F[k].docs, height, t, at)
          /\ Longer(F[m].docs, F[k].docs)
          /\ Has(F[k].docs, k)
      <4> DEFINE acc == F[m]
                 item == work[k]
                 new == Process(height, acc, item).docs
      <4>1. TrueDocs(acc.docs, height, t, at)
        BY <2>0
      <4>2. item = [kind |-> "action", tx |-> at, group |-> Groups(at)[k]]
        BY <3>1
      <4> HIDE DEF acc, item, k
      <4>3. TrueDocs(new, height, t, at) /\ Longer(acc.docs, new) /\ Has(new, k)
        BY <3>2, <4>1, <4>2, ActionStep
      <4>4. F[k].docs = new
        BY <2>3 DEF acc, item
      <4> QED
        BY <4>3, <4>4 DEF acc
    <3>4. ASSUME NEW g \in 1 .. n, g <= k PROVE Has(F[k].docs, g)
      <4>1. CASE g = k
        BY <3>3, <4>1
      <4>2. CASE g # k
        <5>1. g <= m
          BY <3>4, <4>2, <1>2
        <5>2. Has(F[m].docs, g)
          BY <2>0, <5>1
        <5> QED
          BY <3>3, <5>2 DEF Longer, HasDoc
      <4> QED
        BY <4>1, <4>2
    <3> QED
      BY <3>3, <3>4 DEF Good
  <2>5. CASE k \notin 1 .. n
    <3>1. k \in n + 1 .. Len(work)
      BY <1>2, <2>1, <2>5
    <3>2. /\ TrueDocs(F[k].docs, height, t, at)
          /\ Longer(F[m].docs, F[k].docs)
      <4>1. work[k].kind \in Kinds /\ TrueRow(work[k].kind, work[k].row, t)
        BY <1>1, <3>1, RowIsTrue
      <4> DEFINE acc == F[m]
                 item == work[k]
                 new == Process(height, acc, item).docs
      <4>2. TrueDocs(acc.docs, height, t, at)
        BY <2>0
      <4> HIDE DEF acc, item, k
      <4>3. item.kind \in Kinds /\ TrueRow(item.kind, item.row, t)
        BY <4>1 DEF item
      <4>4. TrueDocs(new, height, t, at) /\ Longer(acc.docs, new)
        BY <4>2, <4>3, RowStep
      <4>5. F[k].docs = new
        BY <2>3 DEF acc, item
      <4> QED
        BY <4>4, <4>5 DEF acc
    <3>3. \A g \in 1 .. n : g <= k => g <= m
      BY <1>2, <3>1
    <3>4. \A g \in 1 .. n : g <= k => Has(F[k].docs, g)
      BY <2>0, <3>2, <3>3 DEF Longer, HasDoc
    <3> QED
      BY <3>2, <3>4 DEF Good
  <2> QED
    BY <2>4, <2>5
<1> HIDE DEF T
<1>9. Len(work) \in T
    BY <1>2, <1>7, <1>8, Induction
<1>10. Good(Len(work))
    BY <1>2, <1>9 DEF T
<1>11. \A g \in 1 .. n : g <= Len(work)
    BY <1>1, <1>2
<1> QED
    BY <1>3, <1>10, <1>11 DEF at, n, Good

-----------------------------------------------------------------------------
(* The transactions of the chain.                                            *)

IsState(s) ==
    /\ s = [perms |-> s.perms, balance |-> s.balance, abi |-> s.abi, sequence |-> s.sequence]
    /\ IsFiniteSet(s.perms)
    /\ s.sequence \in Nat

\* Actions of one name are alike: no transaction has two that differ in data.
ByName(acts) ==
    \A a \in acts : \A b \in acts : a.account = b.account /\ a.name = b.name => a = b

GoodTx(tx, s) ==
    /\ Runs(tx) /\ Len(tx.steps) \in 1 .. 2
    /\ ByName({tx.steps[n].act : n \in 1 .. Len(tx.steps)})
    /\ IsState(tx.after) /\ tx.after.sequence = s.sequence

LEMMA StateExcept ==
    ASSUME NEW s, IsState(s), NEW v
    PROVE  /\ IsState([s EXCEPT !.balance = v]) /\ [s EXCEPT !.balance = v].sequence = s.sequence
           /\ IsState([s EXCEPT !.abi = v]) /\ [s EXCEPT !.abi = v].sequence = s.sequence
           /\ IsFiniteSet(v) => /\ IsState([s EXCEPT !.perms = v])
                                /\ [s EXCEPT !.perms = v].sequence = s.sequence
<1> DEFINE r == [perms |-> s.perms, balance |-> s.balance, abi |-> s.abi, sequence |-> s.sequence]
<1>1. s = r /\ IsFiniteSet(s.perms) /\ s.sequence \in Nat
    BY DEF IsState
<1>2. /\ [r EXCEPT !.balance = v]
           = [perms |-> s.perms, balance |-> v, abi |-> s.abi, sequence |-> s.sequence]
      /\ [r EXCEPT !.abi = v]
           = [perms |-> s.perms, balance |-> s.balance, abi |-> v, sequence |-> s.sequence]
      /\ [r EXCEPT !.perms = v]
           = [perms |-> v, balance |-> s.balance, abi |-> s.abi, sequence |-> s.sequence]
    OBVIOUS
<1> HIDE DEF r
<1>3. /\ [s EXCEPT !.balance = v]
           = [perms |-> s.perms, balance |-> v, abi |-> s.abi, sequence |-> s.sequence]
      /\ [s EXCEPT !.abi = v]
           = [perms |-> s.perms, balance |-> s.balance, abi |-> v, sequence |-> s.sequence]
      /\ [s EXCEPT !.perms = v]
           = [perms |-> v, balance |-> s.balance, abi |-> s.abi, sequence |-> s.sequence]
    BY <1>1, <1>2
<1> QED
    BY <1>1, <1>3 DEF IsState

LEMMA StepIs ==
    ASSUME NEW act, NEW notify, NEW S, notify \in Seq(S)
    PROVE  Step(act, notify).act = act /\ IsSeq(Step(act, notify).receivers)
<1> DEFINE R == S \cup {act.account}
           r == Step(act, notify).receivers
           one == <<act.account>>
<1>1. notify \in Seq(R) /\ one \in Seq(R)
    BY SeqMonotonic
<1>2. r = one \o notify
    BY DEF Step
<1> HIDE DEF R, one, r
<1>3. r \in Seq(R)
    BY <1>1, <1>2, ConcatProperties
<1> QED
    BY <1>3, SeqIs DEF Step, r

LEMMA OneStep ==
    ASSUME NEW act, NEW after, NEW s, NEW status, IsState(after), after.sequence = s.sequence,
           NEW notify, NEW S, notify \in Seq(S)
    PROVE  GoodTx([status |-> status, steps |-> <<Step(act, notify)>>, after |-> after], s)
<1> DEFINE step == Step(act, notify)
           tx == [status |-> status, steps |-> <<step>>, after |-> after]
<1>1. step.act = act /\ IsSeq(step.receivers)
    BY StepIs
<1> HIDE DEF step
<1>2. tx.steps = <<step>> /\ tx.after = after
    OBVIOUS
<1>3. <<step>> \in Seq({step}) /\ Len(<<step>>) = 1 /\ \A n \in 1 .. 1 : <<step>>[n] = step
    OBVIOUS
<1>4. IsSeq(<<step>>)
    BY <1>3, SeqIs
<1> HIDE DEF tx
<1>5. Runs(tx)
    BY <1>1, <1>2, <1>3, <1>4 DEF Runs
<1>6. ByName({tx.steps[n].act : n \in 1 .. Len(tx.steps)})
    BY <1>2, <1>3 DEF ByName
<1> QED
    BY <1>2, <1>3, <1>5, <1>6 DEF GoodTx, tx, step

LEMMA TransfersAre ==
    ASSUME NEW s, IsState(s), NEW tx \in Transfers(s)
    PROVE  /\ GoodTx(tx, s)
           /\ tx.steps[1].act.account = Token /\ tx.steps[1].act.name = "transfer"
           /\ IsSeq(tx.steps[1].receivers)
<1>1. PICK t \in Holders \X Holders \X (1 .. 2) :
        tx = Transaction([k \in 1 .. t[3] |-> Transfer(t[1], t[2])], Move(s, t[1], t[2], t[3]))
    BY DEF Transfers
<1> DEFINE step == Transfer(t[1], t[2])
           after == Move(s, t[1], t[2], t[3])
           steps == [k \in 1 .. t[3] |-> step]
           act == Act(Token, "transfer", [from |-> t[1], to |-> t[2], quantity |-> 1])
<1>2. t[3] \in Nat /\ 1 \in 1 .. t[3] /\ t[1] \in Holders /\ t[2] \in Holders
    OBVIOUS
<1>3. step.act = act /\ IsSeq(step.receivers)
  <2>1. <<t[1], t[2]>> \in Seq(Holders)
    BY <1>2
  <2> HIDE DEF act
  <2> QED
    BY <2>1, StepIs DEF Transfer, act
<1>4. act.account = Token /\ act.name = "transfer"
    BY DEF Act
<1>5. tx.steps = steps /\ tx.after = after
    BY <1>1 DEF Transaction
<1> HIDE DEF step, act, after
<1>6. steps = [k \in 1 .. t[3] |-> steps[k]] /\ \A k \in 1 .. t[3] : steps[k] = step
    OBVIOUS
<1> HIDE DEF steps
<1>7. IsSeq(steps) /\ Len(steps) = t[3]
    BY <1>2, <1>6, MadeSeq
<1>8. IsState(after) /\ after.sequence = s.sequence
    BY StateExcept DEF Move, after
<1>9. Runs(tx)
    BY <1>3, <1>5, <1>6, <1>7 DEF Runs
<1>10. ByName({tx.steps[n].act : n \in 1 .. Len(tx.steps)})
    BY <1>3, <1>5, <1>6, <1>7 DEF ByName
<1>11. tx.steps[1] = step
    BY <1>2, <1>5, <1>6
<1> QED
    BY <1>3, <1>4, <1>5, <1>7, <1>8, <1>9, <1>10, <1>11 DEF GoodTx

LEMMA PermsFinite ==
    ASSUME NEW s, IsState(s), NEW owner, NEW name, NEW p
    PROVE  /\ IsFiniteSet(Others(s, owner, name))
           /\ IsFiniteSet(Others(s, owner, name) \cup {p})
           /\ IsFiniteSet(s.perms \cup {p})
<1>1. IsFiniteSet(s.perms)
    BY DEF IsState
<1>2. IsFiniteSet(Others(s, owner, name))
    BY <1>1, FS_Subset DEF Others
<1>3. IsFiniteSet({p})
    BY FS_Singleton
<1> QED
    BY <1>1, <1>2, <1>3, FS_Union

LEMMA DeploymentsAre ==
    ASSUME NEW s, IsState(s), NEW tx \in Deployments(s)
    PROVE  GoodTx(tx, s)
<1>1. PICK abi \in Abis \ {s.abi} :
        \/ tx = Transaction(<<SetAbi(abi)>>, [s EXCEPT !.abi = abi])
        \/ \E t \in Transfers(s) :
             tx = Transaction(<<SetAbi(abi), t.steps[1]>>, [t.after EXCEPT !.abi = abi])
    BY DEF Deployments
<1> DEFINE act == Act(System, "setabi", [account |-> Token, abi |-> abi])
           set == SetAbi(abi)
<1>2. set = Step(act, <<>>) /\ act.name = "setabi"
    BY DEF SetAbi, Act
<1>3. <<>> \in Seq({})
    BY EmptySeq
<1>4. set.act = act /\ IsSeq(set.receivers)
  <2> HIDE DEF act
  <2> QED
    BY <1>2, <1>3, StepIs
<1> HIDE DEF act, set
<1>5. CASE tx = Transaction(<<set>>, [s EXCEPT !.abi = abi])
  <2>1. IsState([s EXCEPT !.abi = abi]) /\ [s EXCEPT !.abi = abi].sequence = s.sequence
    BY StateExcept
  <2>2. tx = [status |-> 0, steps |-> <<Step(act, <<>>)>>, after |-> [s EXCEPT !.abi = abi]]
    BY <1>2, <1>5 DEF Transaction
  <2> QED
    BY <1>3, <2>1, <2>2, OneStep
<1>6. ASSUME NEW t \in Transfers(s),
             tx = Transaction(<<set, t.steps[1]>>, [t.after EXCEPT !.abi = abi])
      PROVE  GoodTx(tx, s)
  <2> DEFINE use == t.steps[1]
             after == [t.after EXCEPT !.abi = abi]
  <2>1. GoodTx(t, s) /\ use.act.name = "transfer" /\ IsSeq(use.receivers)
    BY TransfersAre
  <2>2. IsState(after) /\ after.sequence = s.sequence
    BY <2>1, StateExcept DEF GoodTx
  <2>3. tx.steps = <<set, use>> /\ tx.after = after
    BY <1>6 DEF Transaction
  <2> HIDE DEF use, after
  <2>4. /\ <<set, use>> \in Seq({set, use}) /\ Len(<<set, use>>) = 2
        /\ \A n \in 1 .. 2 : <<set, use>>[n] = IF n = 1 THEN set ELSE use
    OBVIOUS
  <2>5. IsSeq(<<set, use>>)
    BY <2>4, SeqIs
  <2>6. Runs(tx)
    BY <1>4, <2>1, <2>3, <2>4, <2>5 DEF Runs
  <2>7. \A n \in 1 .. 2 : tx.steps[n].act = IF n = 1 THEN act ELSE use.act
    BY <1>4, <2>3, <2>4
  <2>8. {tx.steps[n].act : n \in 1 .. Len(tx.steps)} \subseteq {act, use.act}
    BY <2>3, <2>4, <2>7
  <2>9. ByName({act, use.act})
    BY <1>2, <2>1 DEF ByName
  <2>10. ByName({tx.steps[n].act : n \in 1 .. Len(tx.steps)})
    BY <2>8, <2>9 DEF ByName
  <2> QED
    BY <2>2, <2>3, <2>4, <2>6, <2>10 DEF GoodTx
<1> QED
    BY <1>1, <1>5, <1>6 DEF set

\* What a node may execute.
LEMMA TransactionsAre ==
    ASSUME NEW s, IsState(s),
           NEW tx \in UNION {Transfers(s), Creations(s), Updates(s), Deletions(s), Deployments(s),
                             Unindexed(s)}
    PROVE  GoodTx(tx, s)
<1>1. CASE tx \in Transfers(s)
    BY <1>1, TransfersAre
<1>2. CASE tx \in Deployments(s)
    BY <1>2, DeploymentsAre
<1>0. <<>> \in Seq({})
    BY EmptySeq
<1>3. CASE tx \in Creations(s)
  <2>1. PICK u \in Holders \X Keys : tx = Creation(s, u[1], u[2])
    BY <1>3 DEF Creations
  <2> DEFINE act == Act(System, "newaccount", [creator |-> u[1], name |-> NewName])
             v == s.perms \cup {Perm(NewName, "active", [keys |-> {u[2]}, accounts |-> {}])}
  <2>2. IsFiniteSet(v)
    BY PermsFinite
  <2>3. tx = [status |-> 0, steps |-> <<Step(act, <<>>)>>, after |-> [s EXCEPT !.perms = v]]
    BY <2>1 DEF Creation, Transaction
  <2> HIDE DEF v, act
  <2> QED
    BY <1>0, <2>2, <2>3, StateExcept, OneStep
<1>4. CASE tx \in Updates(s)
  <2>1. PICK u \in Holders \X Auths : tx = Update(s, u[1], u[2])
    BY <1>4 DEF Updates
  <2> DEFINE act == Act(System, "updateauth", [owner |-> u[1], auth |-> u[2]])
             v == Others(s, u[1], "extra") \cup {Perm(u[1], "extra", u[2])}
  <2>2. IsFiniteSet(v)
    BY PermsFinite
  <2>3. tx = [status |-> 0, steps |-> <<Step(act, <<>>)>>, after |-> [s EXCEPT !.perms = v]]
    BY <2>1 DEF Update, Transaction
  <2> HIDE DEF v, act
  <2> QED
    BY <1>0, <2>2, <2>3, StateExcept, OneStep
<1>5. CASE tx \in Deletions(s)
  <2>1. \E o : tx = Transaction(<<Step(Act(System, "deleteauth", [owner |-> o]), <<>>)>>,
                                [s EXCEPT !.perms = Others(s, o, "extra")])
    BY <1>5 DEF Deletions
  <2>2. PICK o : tx = Transaction(<<Step(Act(System, "deleteauth", [owner |-> o]), <<>>)>>,
                                  [s EXCEPT !.perms = Others(s, o, "extra")])
    BY <2>1
  <2> DEFINE act == Act(System, "deleteauth", [owner |-> o])
             v == Others(s, o, "extra")
  <2>3. IsFiniteSet(v)
    BY PermsFinite
  <2>4. tx = [status |-> 0, steps |-> <<Step(act, <<>>)>>, after |-> [s EXCEPT !.perms = v]]
    BY <2>2 DEF Transaction
  <2> HIDE DEF v, act
  <2> QED
    BY <1>0, <2>3, <2>4, StateExcept, OneStep
<1>6. CASE tx \in Unindexed(s)
  <2>1. \/ tx = Transaction(<<Step(Act(Token, "ping", [memo |-> 0]), <<First>>)>>, s)
        \/ tx = [status |-> 1, steps |-> <<Transfer(First, First)>>, after |-> s]
    BY <1>6 DEF Unindexed
  <2> DEFINE ping == Act(Token, "ping", [memo |-> 0])
             send == Act(Token, "transfer", [from |-> First, to |-> First, quantity |-> 1])
  <2>2. \/ tx = [status |-> 0, steps |-> <<Step(ping, <<First>>)>>, after |-> s]
        \/ tx = [status |-> 1, steps |-> <<Step(send, <<First, First>>)>>, after |-> s]
    BY <2>1 DEF Transaction, Transfer
  <2>3. <<First>> \in Seq({First}) /\ <<First, First>> \in Seq({First})
    OBVIOUS
  <2> HIDE DEF ping, send
  <2>4. CASE tx = [status |-> 0, steps |-> <<Step(ping, <<First>>)>>, after |-> s]
    BY <2>3, <2>4, OneStep
  <2>5. CASE tx = [status |-> 1, steps |-> <<Step(send, <<First, First>>)>>, after |-> s]
    BY <2>3, <2>5, OneStep
  <2> QED
    BY <2>2, <2>4, <2>5
<1> QED
    BY <1>1, <1>2, <1>3, <1>4, <1>5, <1>6

-----------------------------------------------------------------------------
(* The invariant, of a chain c, documents d and blocks f that are flying.    *)

AfterOf(c, h) == IF h = 0 THEN Genesis ELSE c[h].after
At(c, h) == TransactionAt(h, c[h].traces)

\* The receipts of a block continue those of the blocks before, and those of
\* one action are together.
ChainOK(c) ==
    /\ IsSeq(c)
    /\ \A h \in 1 .. Len(c) :
         LET traces == c[h].traces IN
         /\ IsState(c[h].after)
         /\ IsSeq(traces)
         /\ \A k \in 1 .. Len(traces) :
              traces[k].receipt /\ traces[k].sequence = AfterOf(c, h - 1).sequence + k
         /\ ByName({traces[k].act : k \in 1 .. Len(traces)})
         /\ Apart(traces)
         /\ AfterOf(c, h).sequence = AfterOf(c, h - 1).sequence + Len(traces)

\* The global sequence never goes back.
Growing(c) ==
    \A h \in 0 .. Len(c) : \A j \in 0 .. h : AfterOf(c, j).sequence <= AfterOf(c, h).sequence

\* A write of a block, or what it left: a deletion, never one of an action,
\* or a document that says what the chain was then.
Entry(c, id, value, deleted, version) ==
    /\ version > 0
    /\ version \div Versions \in 1 .. Len(c)
    /\ IF deleted THEN id[1] # "action"
       ELSE LET h == version \div Versions IN Says(id, value, h, AfterOf(c, h), At(c, h))

IsItem(item) ==
    /\ item = [op |-> item.op, id |-> item.id, version |-> item.version, value |-> item.value]
    /\ item.op \in {"index", "delete"}
    /\ item.version \in Nat

\* What is on its way to Elasticsearch is of a block, and all of its actions.
OnItsWay(c, w) ==
    /\ w.height \in 1 .. Len(c)
    /\ IsSeq(w.items)
    /\ \A k \in 1 .. Len(w.items) :
         /\ IsItem(w.items[k])
         /\ Entry(c, w.items[k].id, w.items[k].value, w.items[k].op = "delete",
                  w.items[k].version)
         /\ w.items[k].version \div Versions = w.height
    /\ \A g \in 1 .. Len(Groups(At(c, w.height))) : HasDoc(w.items, Groups(At(c, w.height))[g])

FlyingOK(c, f) == \A w \in f : OnItsWay(c, w)

Stored(d) ==
    /\ d = [id \in DOMAIN d |-> d[id]]
    /\ \A id \in DOMAIN d :
         /\ d[id] = [version |-> d[id].version, value |-> d[id].value]
         /\ d[id].version \in Nat

\* A stored document is what some write left.
Left(c, id, doc) ==
    \/ doc.value = NoValue /\ Entry(c, id, doc.value, TRUE, doc.version)
    \/ Entry(c, id, doc.value, FALSE, doc.version)

DocsOK(c, d) == Stored(d) /\ \A id \in DOMAIN d : Left(c, id, d[id])

\* Every action of a block that has landed is there.
AllThere(c, h, d) ==
    \A g \in 1 .. Len(Groups(At(c, h))) :
        LET group == Groups(At(c, h))[g] IN
        ~Skipped(group) => <<"action", Primary(group).sequence>> \in DOMAIN d

Landed(c, f, d) ==
    \A h \in 1 .. Len(c) : (\A w \in f : w.height # h) => AllThere(c, h, d)

IInv ==
    /\ ChainOK(chain) /\ Growing(chain)
    /\ FlyingOK(chain, flying) /\ DocsOK(chain, docs) /\ Landed(chain, flying, docs)

-----------------------------------------------------------------------------
(* The landing of a block.                                                   *)

LEMMA LandingIs ==
    ASSUME NEW items, IsSeq(items), \A k \in 1 .. Len(items) : IsItem(items[k]), Stored(docs)
    PROVE  LET after == BulkResult(Opened(items), items).docs IN
           /\ Stored(after)
           /\ DOMAIN after = DOMAIN docs \cup {items[k].id : k \in 1 .. Len(items)}
           /\ \A id \in DOMAIN after :
                \/ id \in DOMAIN docs /\ after[id] = docs[id]
                \/ \E n \in 1 .. Len(items) : items[n].id = id /\ after[id] = Leaves(items[n])
                \/ id \notin DOMAIN docs /\ after[id] = Absent
           /\ \A n \in 1 .. Len(items) : after[items[n].id].version >= items[n].version
           /\ \A id \in DOMAIN docs : after[id].version >= docs[id].version
<1> DEFINE I == DOMAIN docs \cup {items[k].id : k \in 1 .. Len(items)}
           V == {docs[id].value : id \in DOMAIN docs} \cup {items[k].value : k \in 1 .. Len(items)}
           before == Opened(items)
           after == BulkResult(before, items).docs
<1>1. DOMAIN items = 1 .. Len(items)
    BY DEF IsSeq
<1>2. before = [id \in I |-> IF id \in DOMAIN docs THEN docs[id] ELSE Absent]
    BY <1>1 DEF Opened
<1>3. \A id \in DOMAIN docs : docs[id] \in DocOf(V)
  <2> SUFFICES ASSUME NEW id \in DOMAIN docs
               PROVE  docs[id] \in DocOf(V)
    OBVIOUS
  <2>1. /\ docs[id] = [version |-> docs[id].version, value |-> docs[id].value]
        /\ docs[id].version \in Nat
    BY DEF Stored
  <2>2. docs[id].value \in V
    OBVIOUS
  <2> QED
    BY <2>1, <2>2 DEF DocOf
<1>4. Absent \in DocOf(V)
    BY DEF Absent, DocOf
<1>5. before \in [I -> DocOf(V)]
    BY <1>2, <1>3, <1>4
<1>6. \A k \in 1 .. Len(items) : items[k] \in ItemOf(I, V)
  <2> SUFFICES ASSUME NEW k \in 1 .. Len(items)
               PROVE  items[k] \in ItemOf(I, V)
    OBVIOUS
  <2>1. /\ items[k] = [op |-> items[k].op, id |-> items[k].id,
                       version |-> items[k].version, value |-> items[k].value]
        /\ items[k].op \in {"index", "delete"} /\ items[k].version \in Nat
    BY DEF IsItem
  <2>2. items[k].id \in I /\ items[k].value \in V
    OBVIOUS
  <2> QED
    BY <2>1, <2>2 DEF ItemOf
<1>7. items \in Seq(ItemOf(I, V))
    BY <1>6, SeqOver
<1>8. \A k \in 1 .. Len(items) : items[k].id \in I
    OBVIOUS
<1> HIDE DEF I, V, before, after
<1>9. /\ after \in [I -> DocOf(V)]
      /\ \A id \in I :
           /\ after[id].version >= before[id].version
           /\ \A n \in 1 .. Len(items) : items[n].id = id => after[id].version >= items[n].version
           /\ \/ after[id] = before[id]
              \/ \E n \in 1 .. Len(items) : items[n].id = id /\ after[id] = Leaves(items[n])
  <2>1. after \in [I -> DocOf(V)]
    BY <1>5, <1>7, BulkMerges DEF after
  <2>2. ASSUME NEW id \in I
        PROVE  /\ after[id].version >= before[id].version
               /\ \A n \in 1 .. Len(items) :
                    items[n].id = id => after[id].version >= items[n].version
               /\ \/ after[id] = before[id]
                  \/ \E n \in 1 .. Len(items) : items[n].id = id /\ after[id] = Leaves(items[n])
    BY <1>5, <1>7, HighestVersionWins DEF after
  <2> QED
    BY <2>1, <2>2
<1>10. DOMAIN after = I /\ after = [id \in DOMAIN after |-> after[id]]
    BY <1>9
<1>11. \A id \in I : /\ after[id] = [version |-> after[id].version, value |-> after[id].value]
                     /\ after[id].version \in Nat
  <2>1. \A doc \in DocOf(V) : /\ doc = [version |-> doc.version, value |-> doc.value]
                              /\ doc.version \in Nat
    BY DEF DocOf
  <2> QED
    BY <1>9, <2>1
<1>12. Stored(after)
    BY <1>10, <1>11 DEF Stored
<1>13. \A id \in DOMAIN after :
         \/ id \in DOMAIN docs /\ after[id] = docs[id]
         \/ \E n \in 1 .. Len(items) : items[n].id = id /\ after[id] = Leaves(items[n])
         \/ id \notin DOMAIN docs /\ after[id] = Absent
    BY <1>2, <1>9, <1>10
<1>14. \A n \in 1 .. Len(items) : after[items[n].id].version >= items[n].version
    BY <1>8, <1>9
<1>15. \A id \in DOMAIN docs : after[id].version >= docs[id].version
  <2>1. \A id \in DOMAIN docs : id \in I /\ before[id] = docs[id]
    BY <1>2 DEF I
  <2> QED
    BY <1>9, <2>1
<1> QED
    BY <1>10, <1>12, <1>13, <1>14, <1>15 DEF after, before, I

-----------------------------------------------------------------------------
(* A block is produced.                                                      *)

LEMMA GenesisIs == IsState(Genesis)
    BY FS_EmptySet DEF Genesis, IsState

LEMMA AfterIsState ==
    ASSUME NEW c, ChainOK(c), NEW h \in 0 .. Len(c)
    PROVE  IsState(AfterOf(c, h)) /\ AfterOf(c, h).sequence \in Nat
<1>1. Len(c) \in Nat
    BY DEF ChainOK, IsSeq
<1>2. CASE h = 0
    BY <1>2, GenesisIs DEF AfterOf, IsState
<1>3. CASE h # 0
  <2>1. h \in 1 .. Len(c)
    BY <1>1, <1>3
  <2>2. IsState(c[h].after)
    BY <2>1 DEF ChainOK
  <2> QED
    BY <1>3, <2>2 DEF AfterOf, IsState
<1> QED
    BY <1>2, <1>3

LEMMA AppendBlock ==
    ASSUME NEW c, IsSeq(c), NEW b
    PROVE  LET d == Append(c, b)
               n == Len(c)
           IN  /\ IsSeq(d) /\ Len(d) = n + 1
               /\ \A h \in 0 .. n : AfterOf(d, h) = AfterOf(c, h)
               /\ \A h \in 1 .. n : d[h] = c[h] /\ At(d, h) = At(c, h)
               /\ d[n + 1] = b
               /\ AfterOf(d, n + 1) = b.after
               /\ At(d, n + 1) = TransactionAt(n + 1, b.traces)
<1> DEFINE d == Append(c, b)
           n == Len(c)
<1>1. n \in Nat
    BY DEF IsSeq
<1>2. IsSeq(d) /\ Len(d) = n + 1 /\ (\A k \in 1 .. n : d[k] = c[k]) /\ d[n + 1] = b
    BY AppendIs
<1> HIDE DEF d, n
<1>3. \A h \in 0 .. n : h = 0 \/ h \in 1 .. n
    BY <1>1
<1>4. \A h \in 0 .. n : AfterOf(d, h) = AfterOf(c, h)
    BY <1>2, <1>3 DEF AfterOf
<1>5. \A h \in 1 .. n : d[h] = c[h] /\ At(d, h) = At(c, h)
    BY <1>2 DEF At
<1>6. n + 1 # 0
    BY <1>1
<1>7. AfterOf(d, n + 1) = b.after /\ At(d, n + 1) = TransactionAt(n + 1, b.traces)
    BY <1>2, <1>6 DEF AfterOf, At
<1> QED
    BY <1>2, <1>4, <1>5, <1>7 DEF d, n

\* What a transaction leaves of the state s.
LEMMA ExecutedState ==
    ASSUME NEW s, IsState(s), NEW tx, GoodTx(tx, s)
    PROVE  LET b == Executed(s, tx) IN
           /\ IsSeq(b.traces)
           /\ \A k \in 1 .. Len(b.traces) :
                b.traces[k].receipt /\ b.traces[k].sequence = s.sequence + k
           /\ ByName({b.traces[k].act : k \in 1 .. Len(b.traces)})
           /\ IsState(b.after)
           /\ b.after.sequence = s.sequence + Len(b.traces)
           /\ b.after.perms = tx.after.perms /\ b.after.balance = tx.after.balance
<1> DEFINE b == Executed(s, tx)
           traces == b.traces
           acts == {tx.steps[n].act : n \in 1 .. Len(tx.steps)}
<1>1. Runs(tx) /\ ByName(acts) /\ IsState(tx.after) /\ tx.after.sequence = s.sequence
    BY DEF GoodTx
<1>2. /\ IsSeq(traces)
      /\ \A k \in 1 .. Len(traces) :
           /\ \E n \in 1 .. Len(tx.steps) : traces[k].act = tx.steps[n].act
           /\ traces[k].receipt
           /\ traces[k].sequence = s.sequence + k
    BY <1>1, ExecutedAre
<1>3. b.after = [tx.after EXCEPT !.sequence = @ + Len(traces)]
    BY DEF Executed
<1> HIDE DEF b, acts
<1>4. Len(traces) \in Nat
    BY <1>2 DEF IsSeq
<1>5. b.after = [perms |-> tx.after.perms, balance |-> tx.after.balance, abi |-> tx.after.abi,
                 sequence |-> tx.after.sequence + Len(traces)]
    BY <1>1, <1>3 DEF IsState
<1>6. IsState(b.after)
    BY <1>1, <1>4, <1>5 DEF IsState
<1>7. {traces[k].act : k \in 1 .. Len(traces)} \subseteq acts
    BY <1>2 DEF acts
<1>8. ByName({traces[k].act : k \in 1 .. Len(traces)})
    BY <1>1, <1>7 DEF ByName
<1> QED
    BY <1>1, <1>2, <1>5, <1>6, <1>8 DEF b

LEMMA ChainGrows ==
    ASSUME NEW c, ChainOK(c), Growing(c), NEW tx, GoodTx(tx, AfterOf(c, Len(c)))
    PROVE  LET d == Append(c, Executed(AfterOf(c, Len(c)), tx)) IN ChainOK(d) /\ Growing(d)
<1> DEFINE n == Len(c)
           s == AfterOf(c, n)
           b == Executed(s, tx)
           d == Append(c, b)
<1>1. n \in Nat /\ IsSeq(c)
    BY DEF ChainOK, IsSeq
<1>2. IsState(s)
    BY <1>1, AfterIsState
<1>3. /\ IsSeq(b.traces)
      /\ \A k \in 1 .. Len(b.traces) :
           b.traces[k].receipt /\ b.traces[k].sequence = s.sequence + k
      /\ ByName({b.traces[k].act : k \in 1 .. Len(b.traces)})
      /\ IsState(b.after)
      /\ b.after.sequence = s.sequence + Len(b.traces)
  <2>1. GoodTx(tx, s)
    OBVIOUS
  <2> HIDE DEF s
  <2>2. /\ IsSeq(b.traces) /\ IsState(b.after)
        /\ b.after.sequence = s.sequence + Len(b.traces)
    BY <1>2, <2>1, ExecutedState
  <2>3. \A k \in 1 .. Len(b.traces) :
          b.traces[k].receipt /\ b.traces[k].sequence = s.sequence + k
    <3>1. Runs(tx)
      BY <2>1 DEF GoodTx
    <3> QED
      BY <3>1, ExecutedAre
  <2>4. ByName({b.traces[k].act : k \in 1 .. Len(b.traces)})
    BY <1>2, <2>1, ExecutedState
  <2> QED
    BY <2>2, <2>3, <2>4
<1>11. Apart(b.traces)
    BY ExecutedApart DEF GoodTx
<1>4. /\ IsSeq(d) /\ Len(d) = n + 1
      /\ \A h \in 0 .. n : AfterOf(d, h) = AfterOf(c, h)
      /\ \A h \in 1 .. n : d[h] = c[h]
      /\ d[n + 1] = b
      /\ AfterOf(d, n + 1) = b.after
    BY <1>1, AppendBlock
<1> HIDE DEF b, d
<1>5. \A h \in 1 .. n + 1 : h \in 1 .. n \/ h = n + 1
    BY <1>1
<1>6. \A h \in 1 .. n : h - 1 \in 0 .. n /\ h \in 0 .. n
    BY <1>1
<1>7. ASSUME NEW h \in 1 .. n + 1
      PROVE  LET traces == d[h].traces IN
             /\ IsState(d[h].after)
             /\ IsSeq(traces)
             /\ \A k \in 1 .. Len(traces) :
                  traces[k].receipt /\ traces[k].sequence = AfterOf(d, h - 1).sequence + k
             /\ ByName({traces[k].act : k \in 1 .. Len(traces)})
             /\ Apart(traces)
             /\ AfterOf(d, h).sequence = AfterOf(d, h - 1).sequence + Len(traces)
  <2>1. CASE h \in 1 .. n
    <3>1. d[h] = c[h] /\ AfterOf(d, h) = AfterOf(c, h) /\ AfterOf(d, h - 1) = AfterOf(c, h - 1)
      BY <1>4, <1>6, <2>1
    <3>2. /\ IsState(c[h].after)
          /\ IsSeq(c[h].traces)
          /\ \A k \in 1 .. Len(c[h].traces) :
               /\ c[h].traces[k].receipt
               /\ c[h].traces[k].sequence = AfterOf(c, h - 1).sequence + k
          /\ ByName({c[h].traces[k].act : k \in 1 .. Len(c[h].traces)})
          /\ Apart(c[h].traces)
          /\ AfterOf(c, h).sequence = AfterOf(c, h - 1).sequence + Len(c[h].traces)
      BY <2>1 DEF ChainOK
    <3> QED
      BY <3>1, <3>2
  <2>2. CASE h = n + 1
    <3>1. h - 1 = n /\ n \in 0 .. n
      BY <1>1, <2>2
    <3>2. d[h] = b /\ AfterOf(d, h) = b.after /\ AfterOf(d, h - 1) = s
      BY <1>4, <2>2, <3>1
    <3> QED
      BY <1>3, <1>11, <3>2
  <2> QED
    BY <1>5, <2>1, <2>2
<1>8. ChainOK(d)
    BY <1>4, <1>7 DEF ChainOK
<1>9. ASSUME NEW h \in 0 .. n + 1, NEW j \in 0 .. h
      PROVE  AfterOf(d, j).sequence <= AfterOf(d, h).sequence
  <2>1. CASE h \in 0 .. n
    <3>1. j \in 0 .. n
      BY <1>1, <2>1
    <3> QED
      BY <1>4, <2>1, <3>1 DEF Growing
  <2>2. CASE h = n + 1 /\ j \in 0 .. n
    <3>1. AfterOf(c, j).sequence <= s.sequence
      BY <1>1, <2>2 DEF Growing
    <3>2. AfterOf(c, j).sequence \in Nat /\ s.sequence \in Nat /\ Len(b.traces) \in Nat
      BY <1>1, <1>3, <2>2, AfterIsState DEF IsSeq
    <3>3. AfterOf(c, j).sequence <= b.after.sequence
      BY <1>3, <3>1, <3>2
    <3> QED
      BY <1>4, <2>2, <3>3
  <2>3. CASE h = n + 1 /\ j = n + 1
    <3>1. b.after.sequence \in Nat
      BY <1>3 DEF IsState
    <3> QED
      BY <1>4, <2>3, <3>1
  <2> QED
    BY <1>1, <2>1, <2>2, <2>3
<1>10. Growing(d)
    BY <1>4, <1>9 DEF Growing
<1> QED
    BY <1>8, <1>10 DEF d, b

\* The version of a document is that of its block and its place there.
LEMMA BlockOfVersion ==
    ASSUME NEW most \in Nat, most > 0, NEW height \in Nat, height > 0, NEW k \in 1 .. most
    PROVE  LET version == height * most + k - 1 IN
           version \in Nat /\ version > 0 /\ version \div most = height
<1> DEFINE r == k - 1
           p == height * most
<1>1. r \in Nat /\ r < most
    OBVIOUS
<1>2. (p + r) \div most = height
    BY <1>1
<1>3. p \in Nat /\ p > 0
    OBVIOUS
<1> HIDE DEF p
<1>4. p + k - 1 = p + r /\ p + r \in Nat /\ p + r > 0
    BY <1>1, <1>3
<1> QED
    BY <1>2, <1>4 DEF p

LEMMA VersionedAre ==
    ASSUME NEW height \in Nat, height > 0, NEW made, NEW t, NEW tx,
           TrueDocs(made, height, t, tx), Len(made) <= Versions
    PROVE  LET items == Versioned(height, Versions, made) IN
           /\ IsSeq(items) /\ Len(items) = Len(made)
           /\ \A k \in 1 .. Len(items) :
                /\ IsItem(items[k])
                /\ items[k].id = made[k].id
                /\ items[k].version > 0 /\ items[k].version \div Versions = height
                /\ IF items[k].op = "delete" THEN items[k].id[1] # "action"
                   ELSE Says(items[k].id, items[k].value, height, t, tx)
<1> DEFINE items == Versioned(height, Versions, made)
           n == Len(made)
           Version(k) == height * Versions + k - 1
<1>1. n \in Nat /\ DOMAIN made = 1 .. n /\ \A k \in 1 .. n : TrueDoc(made[k], height, t, tx)
    BY DEF TrueDocs, IsSeq
<1>2. items = [k \in 1 .. n |-> [op |-> made[k].op, id |-> made[k].id, version |-> Version(k),
                                 value |-> made[k].value]]
    BY <1>1 DEF Versioned
<1>3. \A k \in 1 .. n : Version(k) \in Nat /\ Version(k) > 0 /\ Version(k) \div Versions = height
  <2>1. Versions \in Nat /\ Versions > 0
    BY HistoryAssumption
  <2>2. \A k \in 1 .. n : k \in 1 .. Versions
    BY <1>1, <2>1
  <2> QED
    BY <2>1, <2>2, BlockOfVersion
<1> HIDE DEF items, n, Version
<1>4. items = [k \in 1 .. n |-> items[k]]
    BY <1>2
<1>5. IsSeq(items) /\ Len(items) = n
    BY <1>1, <1>4, MadeSeq
<1>6. ASSUME NEW k \in 1 .. n
      PROVE  /\ IsItem(items[k])
             /\ items[k].id = made[k].id
             /\ items[k].version > 0 /\ items[k].version \div Versions = height
             /\ IF items[k].op = "delete" THEN items[k].id[1] # "action"
                ELSE Says(items[k].id, items[k].value, height, t, tx)
  <2>1. items[k] = [op |-> made[k].op, id |-> made[k].id, version |-> Version(k),
                    value |-> made[k].value]
    BY <1>2
  <2>2. items[k].op = made[k].op /\ items[k].id = made[k].id /\ items[k].value = made[k].value
        /\ items[k].version = Version(k)
    BY <2>1
  <2>3. \/ made[k].op = "index" /\ Says(made[k].id, made[k].value, height, t, tx)
        \/ made[k].op = "delete" /\ made[k].id[1] # "action"
    BY <1>1 DEF TrueDoc
  <2>4. IsItem(items[k])
    BY <1>3, <2>1, <2>3 DEF IsItem
  <2>5. IF items[k].op = "delete" THEN items[k].id[1] # "action"
        ELSE Says(items[k].id, items[k].value, height, t, tx)
    BY <2>2, <2>3
  <2> QED
    BY <1>3, <2>2, <2>4, <2>5
<1> QED
    BY <1>5, <1>6 DEF items, n

\* What was written stays true as the chain grows.
LEMMA EntryKept ==
    ASSUME NEW c, IsSeq(c), NEW b, NEW id, NEW value, NEW deleted, NEW version,
           Entry(c, id, value, deleted, version)
    PROVE  Entry(Append(c, b), id, value, deleted, version)
<1> DEFINE d == Append(c, b)
           n == Len(c)
           h == version \div Versions
<1>1. n \in Nat
    BY DEF IsSeq
<1>2. Len(d) = n + 1 /\ (\A k \in 0 .. n : AfterOf(d, k) = AfterOf(c, k))
      /\ \A k \in 1 .. n : At(d, k) = At(c, k)
    BY AppendBlock
<1>3. /\ version > 0 /\ h \in 1 .. n
      /\ IF deleted THEN id[1] # "action" ELSE Says(id, value, h, AfterOf(c, h), At(c, h))
    BY DEF Entry
<1> HIDE DEF d, n, h
<1>4. h \in 0 .. n /\ h \in 1 .. n + 1
    BY <1>1, <1>3
<1>5. AfterOf(d, h) = AfterOf(c, h) /\ At(d, h) = At(c, h)
    BY <1>2, <1>3, <1>4
<1>6. /\ version > 0 /\ h \in 1 .. Len(d)
      /\ IF deleted THEN id[1] # "action" ELSE Says(id, value, h, AfterOf(d, h), At(d, h))
    BY <1>2, <1>3, <1>4, <1>5
<1> QED
    BY <1>6 DEF Entry, d, h

LEMMA OnItsWayKept ==
    ASSUME NEW c, IsSeq(c), NEW b, NEW w, OnItsWay(c, w)
    PROVE  OnItsWay(Append(c, b), w)
<1> DEFINE d == Append(c, b)
<1>1. /\ w.height \in 1 .. Len(c)
      /\ IsSeq(w.items)
      /\ \A k \in 1 .. Len(w.items) :
           /\ IsItem(w.items[k])
           /\ Entry(c, w.items[k].id, w.items[k].value, w.items[k].op = "delete",
                    w.items[k].version)
           /\ w.items[k].version \div Versions = w.height
      /\ \A g \in 1 .. Len(Groups(At(c, w.height))) : HasDoc(w.items, Groups(At(c, w.height))[g])
    BY DEF OnItsWay
<1>2. Len(c) \in Nat /\ Len(d) = Len(c) + 1 /\ At(d, w.height) = At(c, w.height)
    BY <1>1, AppendBlock DEF IsSeq
<1>3. w.height \in 1 .. Len(d)
    BY <1>1, <1>2
<1>4. \A k \in 1 .. Len(w.items) :
        Entry(d, w.items[k].id, w.items[k].value, w.items[k].op = "delete", w.items[k].version)
    BY <1>1, EntryKept
<1> HIDE DEF d
<1>5. OnItsWay(d, w)
    BY <1>1, <1>2, <1>3, <1>4 DEF OnItsWay
<1> QED
    BY <1>5 DEF d

\* The documents of the new block.
LEMMA NewOnItsWay ==
    ASSUME NEW c, ChainOK(c), NEW tx, GoodTx(tx, AfterOf(c, Len(c))), NEW known,
           LET height == Len(c) + 1
               s == AfterOf(c, Len(c))
           IN  Len(ProcessBlock(height, Reported(height, s, tx), known).docs) <= Versions
    PROVE  LET height == Len(c) + 1
               s == AfterOf(c, Len(c))
               made == ProcessBlock(height, Reported(height, s, tx), known).docs
           IN  OnItsWay(Append(c, Executed(s, tx)),
                        [height |-> height, items |-> Versioned(height, Versions, made)])
<1> DEFINE n == Len(c)
           height == n + 1
           s == AfterOf(c, n)
           b == Executed(s, tx)
           at == TransactionAt(height, b.traces)
           made == ProcessBlock(height, Reported(height, s, tx), known).docs
           items == Versioned(height, Versions, made)
           w == [height |-> height, items |-> items]
           d == Append(c, b)
<1>1. n \in Nat /\ IsSeq(c)
    BY DEF ChainOK, IsSeq
<1>2. IsState(s)
    BY <1>1, AfterIsState
<1>3. Runs(tx) /\ IsState(tx.after) /\ IsFiniteSet(s.perms) /\ IsFiniteSet(tx.after.perms)
    BY <1>2 DEF GoodTx, IsState
<1>4. TrueDocs(made, height, tx.after, at) /\ \A g \in 1 .. Len(Groups(at)) : HasDoc(made, Groups(at)[g])
    BY <1>3, BlockDocs
<1>5. height \in Nat /\ height > 0 /\ height \in 1 .. height
    BY <1>1
<1>6. Len(made) <= Versions
    OBVIOUS
<1>7. b.after.perms = tx.after.perms /\ b.after.balance = tx.after.balance
    BY <1>2, ExecutedState
<1>8. Len(d) = height /\ AfterOf(d, height) = b.after /\ At(d, height) = at
    BY <1>1, AppendBlock
<1> HIDE DEF made, at, b, d, s, height
<1>9. /\ IsSeq(items) /\ Len(items) = Len(made)
      /\ \A k \in 1 .. Len(items) :
           /\ IsItem(items[k])
           /\ items[k].id = made[k].id
           /\ items[k].version > 0 /\ items[k].version \div Versions = height
           /\ IF items[k].op = "delete" THEN items[k].id[1] # "action"
              ELSE Says(items[k].id, items[k].value, height, tx.after, at)
    BY <1>4, <1>5, <1>6, VersionedAre
<1> HIDE DEF items
<1>10. \A id, value : Says(id, value, height, tx.after, at) => Says(id, value, height, b.after, at)
    BY <1>7 DEF Says
<1>11. \A k \in 1 .. Len(items) :
         /\ IsItem(items[k])
         /\ Entry(d, items[k].id, items[k].value, items[k].op = "delete", items[k].version)
         /\ items[k].version \div Versions = height
    BY <1>5, <1>8, <1>9, <1>10 DEF Entry
<1>12. \A g \in 1 .. Len(Groups(at)) : HasDoc(items, Groups(at)[g])
    BY <1>4, <1>9 DEF HasDoc
<1>13. w.height = height /\ w.items = items
    OBVIOUS
<1> HIDE DEF w
<1>14. OnItsWay(d, w)
    BY <1>5, <1>8, <1>9, <1>11, <1>12, <1>13 DEF OnItsWay
<1> QED
    BY <1>14 DEF w, items, made, at, b, d, s, height

LEMMA LeftKept ==
    ASSUME NEW c, IsSeq(c), NEW b, NEW id, NEW doc, Left(c, id, doc)
    PROVE  Left(Append(c, b), id, doc)
<1>1. CASE doc.value = NoValue /\ Entry(c, id, doc.value, TRUE, doc.version)
  <2>1. Entry(Append(c, b), id, doc.value, TRUE, doc.version)
    BY <1>1, EntryKept
  <2> QED
    BY <1>1, <2>1 DEF Left
<1>2. CASE Entry(c, id, doc.value, FALSE, doc.version)
  <2>1. Entry(Append(c, b), id, doc.value, FALSE, doc.version)
    BY <1>2, EntryKept
  <2> QED
    BY <2>1 DEF Left
<1> QED
    BY <1>1, <1>2 DEF Left

\* A block that is flying is not there yet; the others do not change.
LEMMA LandedKept ==
    ASSUME NEW c, IsSeq(c), NEW b, NEW f, NEW d, Landed(c, f, d),
           NEW w, w.height = Len(c) + 1
    PROVE  Landed(Append(c, b), f \cup {w}, d)
<1> DEFINE e == Append(c, b)
           n == Len(c)
           g == f \cup {w}
<1>1. n \in Nat /\ Len(e) = n + 1 /\ \A h \in 1 .. n : At(e, h) = At(c, h)
    BY AppendBlock DEF IsSeq
<1> HIDE DEF e, n, g
<1>2. w \in g /\ f \subseteq g
    BY DEF g
<1>3. ASSUME NEW h \in 1 .. Len(e), \A v \in g : v.height # h
      PROVE  AllThere(e, h, d)
  <2>1. h # n + 1
    BY <1>2, <1>3 DEF n
  <2>2. h \in 1 .. n
    BY <1>1, <2>1
  <2>3. AllThere(c, h, d)
    BY <1>2, <1>3, <2>2 DEF Landed, n
  <2> QED
    BY <1>1, <2>2, <2>3 DEF AllThere
<1>4. Landed(e, g, d)
    BY <1>3 DEF Landed
<1> QED
    BY <1>4 DEF e, g

LEMMA ProduceKeeps ==
    ASSUME IInv,
           NEW txs, txs \subseteq UNION {Transfers(Current), Creations(Current), Updates(Current),
                                         Deletions(Current), Deployments(Current),
                                         Unindexed(Current)},
           Produce(txs)
    PROVE  IInv'
<1> DEFINE n == Len(chain)
           s == AfterOf(chain, n)
<1>1. Current = s
    BY DEF Current, After, AfterOf
<1>2. PICK tx \in txs :
        LET made == ProcessBlock(n + 1, Reported(n + 1, Current, tx), abis) IN
        /\ Len(made.docs) <= Versions
        /\ chain' = Append(chain, Executed(Current, tx))
        /\ flying' = flying \cup {[height |-> n + 1,
                                   items |-> Versioned(n + 1, Versions, made.docs)]}
    BY DEF Produce
<1> DEFINE made == ProcessBlock(n + 1, Reported(n + 1, s, tx), abis).docs
           w == [height |-> n + 1, items |-> Versioned(n + 1, Versions, made)]
           b == Executed(s, tx)
<1>3. /\ Len(made) <= Versions
      /\ chain' = Append(chain, b)
      /\ flying' = flying \cup {w}
      /\ docs' = docs
    BY <1>1, <1>2 DEF Produce
<1>4. /\ ChainOK(chain) /\ Growing(chain) /\ IsSeq(chain) /\ n \in Nat
      /\ FlyingOK(chain, flying) /\ DocsOK(chain, docs) /\ Landed(chain, flying, docs)
    BY DEF IInv, ChainOK, IsSeq
<1>5. GoodTx(tx, s)
  <2>1. IsState(s)
    BY <1>4, AfterIsState
  <2> HIDE DEF s
  <2> QED
    BY <1>1, <2>1, TransactionsAre
<1>6. ChainOK(chain') /\ Growing(chain')
    BY <1>3, <1>4, <1>5, ChainGrows
<1>7. OnItsWay(chain', w)
    BY <1>3, <1>4, <1>5, NewOnItsWay
<1>8. w.height = n + 1
    OBVIOUS
<1> HIDE DEF w, b, s
<1>9. FlyingOK(chain', flying')
    BY <1>3, <1>4, <1>7, OnItsWayKept DEF FlyingOK
<1>10. \A id \in DOMAIN docs : Left(Append(chain, b), id, docs[id])
    BY <1>4, LeftKept DEF DocsOK
<1>11. DocsOK(chain', docs')
    BY <1>3, <1>4, <1>10 DEF DocsOK
<1>12. Landed(Append(chain, b), flying \cup {w}, docs)
    BY <1>4, <1>8, LandedKept
<1> QED
    BY <1>3, <1>6, <1>9, <1>11, <1>12 DEF IInv

-----------------------------------------------------------------------------
(* A block lands.                                                            *)

LEMMA LandKeeps ==
    ASSUME IInv, NEW w \in flying, Land(w)
    PROVE  IInv'
<1> DEFINE items == w.items
           after == BulkResult(Opened(items), items).docs
<1>1. /\ ChainOK(chain) /\ Growing(chain)
      /\ FlyingOK(chain, flying) /\ DocsOK(chain, docs) /\ Landed(chain, flying, docs)
    BY DEF IInv
<1>2. docs' = after /\ flying' = flying \ {w} /\ chain' = chain
    BY DEF Land
<1>3. /\ IsSeq(items)
      /\ \A k \in 1 .. Len(items) :
           /\ IsItem(items[k])
           /\ Entry(chain, items[k].id, items[k].value, items[k].op = "delete", items[k].version)
      /\ \A g \in 1 .. Len(Groups(At(chain, w.height))) :
           HasDoc(items, Groups(At(chain, w.height))[g])
    BY <1>1 DEF FlyingOK, OnItsWay
<1>4. Stored(docs) /\ \A id \in DOMAIN docs : Left(chain, id, docs[id])
    BY <1>1 DEF DocsOK
<1>5. /\ Stored(after)
      /\ DOMAIN after = DOMAIN docs \cup {items[k].id : k \in 1 .. Len(items)}
      /\ \A id \in DOMAIN after :
           \/ id \in DOMAIN docs /\ after[id] = docs[id]
           \/ \E k \in 1 .. Len(items) : items[k].id = id /\ after[id] = Leaves(items[k])
           \/ id \notin DOMAIN docs /\ after[id] = Absent
      /\ \A k \in 1 .. Len(items) : after[items[k].id].version >= items[k].version
    BY <1>3, <1>4, LandingIs
<1> HIDE DEF after, items
\* Nothing that the request names is absent after it.
<1>6. \A k \in 1 .. Len(items) : after[items[k].id] # Absent
  <2> SUFFICES ASSUME NEW k \in 1 .. Len(items)
               PROVE  after[items[k].id] # Absent
    OBVIOUS
  <2>1. items[k].version \in Nat /\ items[k].version > 0
    BY <1>3 DEF IsItem, Entry
  <2>2. Absent.version = 0
    BY DEF Absent
  <2> QED
    BY <1>5, <2>1, <2>2
<1>7. \A k \in 1 .. Len(items) : Left(chain, items[k].id, Leaves(items[k]))
  <2> SUFFICES ASSUME NEW k \in 1 .. Len(items)
               PROVE  Left(chain, items[k].id, Leaves(items[k]))
    OBVIOUS
  <2> DEFINE item == items[k]
             doc == Leaves(item)
  <2>1. Entry(chain, item.id, item.value, item.op = "delete", item.version)
    BY <1>3
  <2> HIDE DEF item
  <2>2. doc.version = item.version
        /\ doc.value = IF item.op = "delete" THEN NoValue ELSE item.value
    BY DEF Leaves
  <2> HIDE DEF doc
  <2>3. CASE item.op = "delete"
    <3>1. Entry(chain, item.id, doc.value, TRUE, doc.version)
      BY <2>1, <2>2, <2>3 DEF Entry
    <3>2. Left(chain, item.id, doc)
      BY <2>2, <2>3, <3>1 DEF Left
    <3> QED
      BY <3>2 DEF doc, item
  <2>4. CASE item.op # "delete"
    <3>1. Entry(chain, item.id, doc.value, FALSE, doc.version)
      BY <2>1, <2>2, <2>4 DEF Entry
    <3>2. Left(chain, item.id, doc)
      BY <3>1 DEF Left
    <3> QED
      BY <3>2 DEF doc, item
  <2> QED
    BY <2>3, <2>4
<1>8. ASSUME NEW id \in DOMAIN after
      PROVE  Left(chain, id, after[id])
  <2>1. CASE id \in DOMAIN docs /\ after[id] = docs[id]
    BY <1>4, <2>1
  <2>2. CASE \E k \in 1 .. Len(items) : items[k].id = id /\ after[id] = Leaves(items[k])
    BY <1>7, <2>2
  <2>3. ~(id \notin DOMAIN docs /\ after[id] = Absent)
    BY <1>5, <1>6
  <2> QED
    BY <1>5, <2>1, <2>2, <2>3
<1>9. DocsOK(chain, after)
    BY <1>5, <1>8 DEF DocsOK
<1>10. ASSUME NEW h \in 1 .. Len(chain), \A v \in flying \ {w} : v.height # h
       PROVE  AllThere(chain, h, after)
  <2>1. CASE w.height = h
    <3> SUFFICES ASSUME NEW g \in 1 .. Len(Groups(At(chain, h))),
                        ~Skipped(Groups(At(chain, h))[g])
                 PROVE  <<"action", Primary(Groups(At(chain, h))[g]).sequence>> \in DOMAIN after
      BY DEF AllThere
    <3>1. HasDoc(items, Groups(At(chain, h))[g])
      BY <1>3, <2>1
    <3> QED
      BY <1>5, <3>1 DEF HasDoc
  <2>2. CASE w.height # h
    <3>1. \A v \in flying : v.height # h
      BY <1>10, <2>2
    <3>2. AllThere(chain, h, docs)
      BY <1>1, <3>1 DEF Landed
    <3> QED
      BY <1>5, <3>2 DEF AllThere
  <2> QED
    BY <2>1, <2>2
<1>11. Landed(chain, flying \ {w}, after)
    BY <1>10 DEF Landed
<1>12. FlyingOK(chain, flying \ {w})
    BY <1>1 DEF FlyingOK
<1> QED
    BY <1>1, <1>2, <1>9, <1>11, <1>12 DEF IInv

LEMMA InitIs == ASSUME Init PROVE IInv
<1>1. chain = <<>> /\ flying = {} /\ docs = [id \in {} |-> Absent]
    BY DEF Init
<1>2. Len(chain) = 0 /\ IsSeq(chain)
  <2>1. <<>> \in Seq({})
    BY EmptySeq
  <2> QED
    BY <1>1, <2>1, SeqIs
<1>3. ChainOK(chain)
    BY <1>2 DEF ChainOK
<1>4. Growing(chain)
  <2>1. AfterOf(chain, 0).sequence = 0
    BY DEF AfterOf, Genesis
  <2> QED
    BY <1>2, <2>1 DEF Growing
<1>5. FlyingOK(chain, flying)
    BY <1>1 DEF FlyingOK
<1>6. DOMAIN docs = {} /\ docs = [id \in DOMAIN docs |-> docs[id]]
    BY <1>1
<1>7. DocsOK(chain, docs)
    BY <1>6 DEF DocsOK, Stored
<1>8. Landed(chain, flying, docs)
    BY <1>2 DEF Landed
<1> QED
    BY <1>3, <1>4, <1>5, <1>7, <1>8 DEF IInv

\* The invariant of production and landing, in whatever order the blocks land:
\* what is stored, and what is on its way, is what the chain did.
THEOREM Invariance == Spec => []IInv
<1>1. Init => IInv
    BY InitIs
<1>2. IInv /\ [Next]_vars => IInv'
  <2> SUFFICES ASSUME IInv, [Next]_vars
               PROVE  IInv'
    OBVIOUS
  <2> DEFINE All == UNION {Transfers(Current), Creations(Current), Updates(Current),
                           Deletions(Current), Deployments(Current), Unindexed(Current)}
  <2>0. /\ Transfers(Current) \subseteq All /\ Creations(Current) \subseteq All
        /\ Updates(Current) \subseteq All /\ Deletions(Current) \subseteq All
        /\ Deployments(Current) \subseteq All /\ Unindexed(Current) \subseteq All
    OBVIOUS
  <2>1. CASE Produce(Transfers(Current))
    BY <2>0, <2>1, ProduceKeeps
  <2>2. CASE Produce(Creations(Current))
    BY <2>0, <2>2, ProduceKeeps
  <2>3. CASE Produce(Updates(Current))
    BY <2>0, <2>3, ProduceKeeps
  <2>4. CASE Produce(Deletions(Current))
    BY <2>0, <2>4, ProduceKeeps
  <2>5. CASE Produce(Deployments(Current))
    BY <2>0, <2>5, ProduceKeeps
  <2>6. CASE Produce(Unindexed(Current))
    BY <2>0, <2>6, ProduceKeeps
  <2>7. CASE \E w \in flying : Land(w)
    BY <2>7, LandKeeps
  <2>8. CASE UNCHANGED vars
    BY <2>8 DEF vars, IInv
  <2> QED
    BY <2>1, <2>2, <2>3, <2>4, <2>5, <2>6, <2>7, <2>8 DEF Next
<1> QED
    BY <1>1, <1>2, PTL DEF Spec

-----------------------------------------------------------------------------
(* What the invariant says of the documents.                                 *)

\* Permissions and balances are those of the chain at the block they are of,
\* while blocks land in any order.
THEOREM NothingInventedSafety == Spec => []NothingInvented
<1>1. IInv => NothingInvented
  <2> SUFFICES ASSUME IInv
               PROVE  NothingInvented
    OBVIOUS
  <2>1. \A id \in DOMAIN docs : Left(chain, id, docs[id])
    BY DEF IInv, DocsOK
  <2>2. ASSUME NEW id \in DOMAIN docs, docs[id].value # NoValue
        PROVE  LET h == docs[id].version \div Versions IN
               Says(id, docs[id].value, h, After(h), At(chain, h))
    <3>1. Entry(chain, id, docs[id].value, FALSE, docs[id].version)
      BY <2>1, <2>2 DEF Left
    <3> QED
      BY <3>1 DEF Entry, After, AfterOf
  <2>3. \A id \in DocsOf("perm") : docs[id].value \in After(docs[id].version \div Versions).perms
    BY <2>2 DEF DocsOf, Ids, Live, Says
  <2>4. ASSUME NEW doc \in LiveDocs("token")
        PROVE  doc.amount > 0 /\ doc.amount = After(doc.block_num).balance[doc.scope]
    <3>1. PICK id \in DOMAIN docs :
            id[1] = "token" /\ docs[id].value # NoValue /\ doc = docs[id].value
      BY DEF LiveDocs, DocsOf, Ids, Live
    <3> DEFINE h == docs[id].version \div Versions
    <3>2. Says(id, doc, h, After(h), At(chain, h))
      BY <2>2, <3>1
    <3> HIDE DEF h
    <3> QED
      BY <3>1, <3>2 DEF Says
  <2> QED
    BY <2>3, <2>4 DEF NothingInvented
<1> QED
    BY <1>1, Invariance, PTL

\* A trace of block h.
Ran(c, h, trace) == \E k \in 1 .. Len(c[h].traces) : trace = c[h].traces[k]

\* A receipt has a sequence of its own on the whole chain.
LEMMA OneTrace ==
    ASSUME NEW c, ChainOK(c), Growing(c), NEW h \in 1 .. Len(c), NEW i \in 1 .. Len(c),
           NEW x, NEW y, Ran(c, h, x), Ran(c, i, y), x.sequence = y.sequence
    PROVE  h = i /\ x = y
<1> DEFINE S(j) == AfterOf(c, j).sequence
<1>1. Len(c) \in Nat
    BY DEF ChainOK, IsSeq
<1>2. \A j \in 0 .. Len(c) : S(j) \in Nat
    BY AfterIsState
<1>3. ASSUME NEW j \in 1 .. Len(c)
      PROVE  /\ Len(c[j].traces) \in Nat
             /\ S(j) = S(j - 1) + Len(c[j].traces)
             /\ \A k \in 1 .. Len(c[j].traces) : c[j].traces[k].sequence = S(j - 1) + k
  <2>1. /\ IsSeq(c[j].traces)
        /\ S(j) = S(j - 1) + Len(c[j].traces)
        /\ \A k \in 1 .. Len(c[j].traces) : c[j].traces[k].sequence = S(j - 1) + k
    BY DEF ChainOK
  <2> QED
    BY <2>1 DEF IsSeq
<1>4. \A j \in 0 .. Len(c) : \A m \in 0 .. j : S(m) <= S(j)
    BY DEF Growing
<1>5. PICK k \in 1 .. Len(c[h].traces) : x = c[h].traces[k]
    BY DEF Ran
<1>6. PICK m \in 1 .. Len(c[i].traces) : y = c[i].traces[m]
    BY DEF Ran
<1> HIDE DEF S
<1>7. S(h - 1) + k = S(i - 1) + m
    BY <1>3, <1>5, <1>6
<1>8. h - 1 \in 0 .. Len(c) /\ i - 1 \in 0 .. Len(c) /\ h \in 0 .. Len(c) /\ i \in 0 .. Len(c)
    BY <1>1
<1>9. S(h - 1) \in Nat /\ S(i - 1) \in Nat /\ S(h) \in Nat /\ S(i) \in Nat
    BY <1>2, <1>8
<1>10. S(h - 1) + k <= S(h) /\ S(i - 1) + m <= S(i)
  <2> DEFINE X == Len(c[h].traces)
             Y == Len(c[i].traces)
  <2>1. X \in Nat /\ Y \in Nat /\ S(h) = S(h - 1) + X /\ S(i) = S(i - 1) + Y
    BY <1>3
  <2>2. k \in 1 .. X /\ m \in 1 .. Y
    OBVIOUS
  <2> HIDE DEF X, Y
  <2>3. k <= X /\ m <= Y /\ k \in Nat /\ m \in Nat
    BY <2>1, <2>2
  <2> QED
    BY <1>9, <2>1, <2>3, SMTT(20)
<1>11. ~(h < i)
  <2>1. h < i => S(h) <= S(i - 1)
    BY <1>1, <1>4, <1>8
  <2> QED
    BY <1>3, <1>7, <1>9, <1>10, <2>1
<1>12. ~(i < h)
  <2>1. i < h => S(i) <= S(h - 1)
    BY <1>1, <1>4, <1>8
  <2> QED
    BY <1>3, <1>7, <1>9, <1>10, <2>1
<1>13. h = i
    BY <1>1, <1>11, <1>12
<1>14. k = m
    BY <1>3, <1>7, <1>9, <1>13
<1> QED
    BY <1>5, <1>6, <1>13, <1>14

LEMMA GroupedAt ==
    ASSUME NEW c, ChainOK(c), NEW h \in 1 .. Len(c)
    PROVE  Grouped(Groups(At(c, h)), c[h].traces)
<1>1. IsSeq(c[h].traces)
    BY DEF ChainOK
<1>2. At(c, h).traces = c[h].traces
    BY DEF At, TransactionAt
<1> QED
    BY <1>1, <1>2, GroupsAre

\* Traces of block h that are one action.
GroupOf(c, h, group) ==
    /\ DOMAIN group = 1 .. Len(group)
    /\ \A j \in 1 .. Len(group) : Ran(c, h, group[j]) /\ group[j].act = group[1].act
    /\ Ran(c, h, Primary(group)) /\ Primary(group).act = group[1].act

LEMMA GroupIs ==
    ASSUME NEW c, ChainOK(c), NEW h \in 1 .. Len(c), NEW g \in 1 .. Len(Groups(At(c, h)))
    PROVE  GroupOf(c, h, Groups(At(c, h))[g])
<1> DEFINE group == Groups(At(c, h))[g]
<1>1. /\ IsSeq(group) /\ Len(group) # 0
      /\ \A j \in 1 .. Len(group) :
           /\ group[j].act = group[1].act
           /\ \E k \in 1 .. Len(c[h].traces) : group[j] = c[h].traces[k]
  <2>1. Grouped(Groups(At(c, h)), c[h].traces)
    BY GroupedAt
  <2> QED
    BY <2>1 DEF Grouped
<1> HIDE DEF group
<1>2. \E p \in 1 .. Len(group) : Primary(group) = group[p]
    BY <1>1, PrimaryIs
<1>3. \A j \in 1 .. Len(group) : Ran(c, h, group[j]) /\ group[j].act = group[1].act
    BY <1>1 DEF Ran
<1>4. DOMAIN group = 1 .. Len(group)
    BY <1>1 DEF IsSeq
<1>5. Ran(c, h, Primary(group)) /\ Primary(group).act = group[1].act
    BY <1>2, <1>3
<1> QED
    BY <1>3, <1>4, <1>5 DEF group, GroupOf

LEMMA OneGroup ==
    ASSUME NEW c, ChainOK(c), NEW h \in 1 .. Len(c),
           NEW g \in 1 .. Len(Groups(At(c, h))), NEW i \in 1 .. Len(Groups(At(c, h))),
           Groups(At(c, h))[g][1].act = Groups(At(c, h))[i][1].act
    PROVE  g = i
    BY GroupedAt DEF Grouped

\* The receipts of a group of block h.
GroupReceipts(h, group) == {ReceiptOf(h, group[j]) : j \in 1 .. Len(group)}

\* What the document of a group says.
LEMMA DocOfGroup ==
    ASSUME NEW c, ChainOK(c), NEW h \in 1 .. Len(c), NEW g \in 1 .. Len(Groups(At(c, h))),
           NEW doc, doc = ActionDoc(h, At(c, h), Groups(At(c, h))[g], doc.data)
    PROVE  LET group == Groups(At(c, h))[g] IN
           /\ doc.block_num = h /\ doc.trx_id = h
           /\ doc.account = group[1].act.account /\ doc.name = group[1].act.name
           /\ ReceiptsOf(doc) = GroupReceipts(h, group)
<1> DEFINE group == Groups(At(c, h))[g]
           at == At(c, h)
           receipts == [k \in DOMAIN group |->
                           [receiver |-> group[k].receiver, sequence |-> group[k].sequence]]
<1>1. /\ DOMAIN group = 1 .. Len(group)
      /\ \A j \in 1 .. Len(group) : group[j].act = group[1].act
      /\ Primary(group).act = group[1].act
    BY GroupIs DEF GroupOf
<1>2. at.id = h
    BY DEF At, TransactionAt
<1>3. doc = ActionDoc(h, at, group, doc.data)
    OBVIOUS
<1> HIDE DEF group, at
<1>4. /\ doc.block_num = h /\ doc.trx_id = at.id
      /\ doc.account = Primary(group).act.account /\ doc.name = Primary(group).act.name
      /\ doc.receipts = receipts
  <2> DEFINE data == doc.data
  <2>1. doc = ActionDoc(h, at, group, data)
    BY <1>3
  <2> HIDE DEF data
  <2>2. /\ ActionDoc(h, at, group, data).block_num = h
        /\ ActionDoc(h, at, group, data).trx_id = at.id
        /\ ActionDoc(h, at, group, data).account = Primary(group).act.account
        /\ ActionDoc(h, at, group, data).name = Primary(group).act.name
        /\ ActionDoc(h, at, group, data).receipts = receipts
    BY DEF ActionDoc
  <2> QED
    BY <2>1, <2>2
<1>5. DOMAIN doc.receipts = 1 .. Len(group)
    BY <1>1, <1>4
<1>6. \A k \in 1 .. Len(group) :
        [height |-> doc.block_num, account |-> doc.account, name |-> doc.name,
         receipt |-> doc.receipts[k]] = ReceiptOf(h, group[k])
    BY <1>1, <1>4 DEF ReceiptOf
<1>7. ReceiptsOf(doc) = GroupReceipts(h, group)
    BY <1>5, <1>6 DEF ReceiptsOf, GroupReceipts
<1> QED
    BY <1>1, <1>2, <1>4, <1>7 DEF group

\* A stored action is that of a group that ran.
Known(c, id, doc, h, g) ==
    /\ h \in 1 .. Len(c) /\ g \in 1 .. Len(Groups(At(c, h)))
    /\ OfGroup(id, doc, h, At(c, h), Groups(At(c, h))[g])

LEMMA ActionIsKnown ==
    ASSUME NEW c, NEW id, NEW doc, id[1] = "action", Left(c, id, doc)
    PROVE  \E h, g : Known(c, id, doc.value, h, g)
<1> DEFINE h == doc.version \div Versions
<1>1. Entry(c, id, doc.value, FALSE, doc.version)
    BY DEF Left, Entry
<1>2. h \in 1 .. Len(c) /\ Says(id, doc.value, h, AfterOf(c, h), At(c, h))
    BY <1>1 DEF Entry
<1> HIDE DEF h
<1>3. PICK g \in 1 .. Len(Groups(At(c, h))) :
        OfGroup(id, doc.value, h, At(c, h), Groups(At(c, h))[g])
    BY <1>2 DEF Says
<1>4. Known(c, id, doc.value, h, g)
    BY <1>2, <1>3 DEF Known
<1> QED
    BY <1>4

\* What such a document says.
Tells(c, id, doc, h, g) ==
    LET group == Groups(At(c, h))[g] IN
    /\ id = <<"action", Primary(group).sequence>>
    /\ <<group[1].act.account, group[1].act.name>> \notin SkipActions
    /\ doc = ActionDoc(h, At(c, h), group, doc.data)
    /\ doc.block_num = h /\ doc.trx_id = h
    /\ doc.account = group[1].act.account /\ doc.name = group[1].act.name
    /\ ReceiptsOf(doc) = GroupReceipts(h, group)

LEMMA KnownIs ==
    ASSUME NEW c, ChainOK(c), NEW id, NEW doc, NEW h, NEW g, Known(c, id, doc, h, g)
    PROVE  Tells(c, id, doc, h, g)
<1> DEFINE group == Groups(At(c, h))[g]
<1>1. /\ h \in 1 .. Len(c) /\ g \in 1 .. Len(Groups(At(c, h)))
      /\ OfGroup(id, doc, h, At(c, h), group)
    BY DEF Known
<1>2. Primary(group).act = group[1].act
    BY <1>1, GroupIs DEF GroupOf
<1>3. doc = ActionDoc(h, At(c, h), group, doc.data)
    BY <1>1 DEF OfGroup
<1>5. /\ doc.block_num = h /\ doc.trx_id = h
      /\ doc.account = group[1].act.account /\ doc.name = group[1].act.name
      /\ ReceiptsOf(doc) = GroupReceipts(h, group)
    BY <1>1, <1>3, DocOfGroup
<1> HIDE DEF group
<1>4. /\ id = <<"action", Primary(group).sequence>>
      /\ <<Primary(group).act.account, Primary(group).act.name>> \notin SkipActions
    BY <1>1 DEF OfGroup, Skipped
<1> QED
    BY <1>2, <1>3, <1>4, <1>5 DEF group, Tells

\* Two stored actions of one group are the same document.
LEMMA SameId ==
    ASSUME NEW c, ChainOK(c), NEW id, NEW doc, NEW j, NEW other, NEW h, NEW g,
           Known(c, id, doc, h, g), Known(c, j, other, h, g)
    PROVE  id = j
<1>1. Tells(c, id, doc, h, g) /\ Tells(c, j, other, h, g)
    BY KnownIs
<1> QED
    BY <1>1 DEF Tells

\* The receipts of two stored actions that share one, or whose transactions
\* and names are the same, are those of one document.
LEMMA SharedReceipt ==
    ASSUME NEW c, ChainOK(c), Growing(c),
           NEW id, NEW doc, NEW h, NEW g, Known(c, id, doc, h, g),
           NEW j, NEW other, NEW i, NEW k, Known(c, j, other, i, k),
           ReceiptsOf(doc) \cap ReceiptsOf(other) # {}
    PROVE  id = j
<1> DEFINE G == Groups(At(c, h))[g]
           K == Groups(At(c, i))[k]
<1>1. /\ h \in 1 .. Len(c) /\ g \in 1 .. Len(Groups(At(c, h)))
      /\ i \in 1 .. Len(c) /\ k \in 1 .. Len(Groups(At(c, i)))
    BY DEF Known
<1>2. Tells(c, id, doc, h, g) /\ Tells(c, j, other, i, k)
    BY KnownIs
<1>0. ReceiptsOf(doc) = GroupReceipts(h, G) /\ ReceiptsOf(other) = GroupReceipts(i, K)
    BY <1>2 DEF Tells
<1>3. \A m \in 1 .. Len(G) : Ran(c, h, G[m]) /\ G[m].act = G[1].act
    BY <1>1, GroupIs DEF GroupOf
<1>4. \A m \in 1 .. Len(K) : Ran(c, i, K[m]) /\ K[m].act = K[1].act
    BY <1>1, GroupIs DEF GroupOf
<1>5. G[1].act = K[1].act /\ h = i => g = k
    BY <1>1, OneGroup
<1> HIDE DEF G, K
<1>6. PICK m \in 1 .. Len(G), n \in 1 .. Len(K) : ReceiptOf(h, G[m]) = ReceiptOf(i, K[n])
    BY <1>0 DEF GroupReceipts
<1>7. G[m].sequence = K[n].sequence
    BY <1>6 DEF ReceiptOf
<1>8. h = i /\ G[m] = K[n]
    BY <1>1, <1>3, <1>4, <1>7, OneTrace
<1>9. h = i /\ g = k
    BY <1>3, <1>4, <1>5, <1>8
<1> QED
    BY <1>9, SameId

LEMMA SharedName ==
    ASSUME NEW c, ChainOK(c), Growing(c),
           NEW id, NEW doc, NEW h, NEW g, Known(c, id, doc, h, g),
           NEW j, NEW other, NEW i, NEW k, Known(c, j, other, i, k),
           doc.trx_id = other.trx_id, doc.account = other.account, doc.name = other.name
    PROVE  id = j
<1> DEFINE G == Groups(At(c, h))[g]
           K == Groups(At(c, i))[k]
<1>1. /\ h \in 1 .. Len(c) /\ g \in 1 .. Len(Groups(At(c, h)))
      /\ i \in 1 .. Len(c) /\ k \in 1 .. Len(Groups(At(c, i)))
    BY DEF Known
<1>2. Tells(c, id, doc, h, g) /\ Tells(c, j, other, i, k)
    BY KnownIs
<1>0. /\ doc.trx_id = h /\ doc.account = G[1].act.account /\ doc.name = G[1].act.name
      /\ other.trx_id = i /\ other.account = K[1].act.account /\ other.name = K[1].act.name
    BY <1>2 DEF Tells
<1>3. Ran(c, h, Primary(G)) /\ Primary(G).act = G[1].act
    BY <1>1, GroupIs DEF GroupOf
<1>4. Ran(c, i, Primary(K)) /\ Primary(K).act = K[1].act
    BY <1>1, GroupIs DEF GroupOf
<1>5. G[1].act = K[1].act /\ h = i => g = k
    BY <1>1, OneGroup
<1> HIDE DEF G, K
<1>6. h = i
    BY <1>0
<1>7. ByName({c[h].traces[m].act : m \in 1 .. Len(c[h].traces)})
    BY <1>1 DEF ChainOK
<1>8. /\ G[1].act \in {c[h].traces[m].act : m \in 1 .. Len(c[h].traces)}
      /\ K[1].act \in {c[h].traces[m].act : m \in 1 .. Len(c[h].traces)}
    BY <1>3, <1>4, <1>6 DEF Ran
<1>9. G[1].act = K[1].act
    BY <1>0, <1>7, <1>8 DEF ByName
<1>10. h = i /\ g = k
    BY <1>5, <1>6, <1>9
<1> QED
    BY <1>10, SameId

\* The receipts that have to be found.
Wanted == {ReceiptOf(r.height, r.trace) : r \in Indexed}

LEMMA WantedIs ==
    ASSUME ChainOK(chain)
    PROVE  /\ \A h \in 1 .. Len(chain) : \A x :
                /\ Ran(chain, h, x)
                /\ <<x.act.account, x.act.name>> \notin SkipActions
                => ReceiptOf(h, x) \in Wanted
           /\ \A y \in Wanted : \E h \in 1 .. Len(chain) : \E k \in 1 .. Len(chain[h].traces) :
                LET x == chain[h].traces[k] IN
                y = ReceiptOf(h, x) /\ <<x.act.account, x.act.name>> \notin SkipActions
<1>1. DOMAIN chain = 1 .. Len(chain)
      /\ \A h \in 1 .. Len(chain) : DOMAIN chain[h].traces = 1 .. Len(chain[h].traces)
    BY DEF ChainOK, IsSeq
<1>2. ASSUME NEW h \in 1 .. Len(chain), NEW x, Ran(chain, h, x),
             <<x.act.account, x.act.name>> \notin SkipActions
      PROVE  ReceiptOf(h, x) \in Wanted
  <2> DEFINE r == [height |-> h, trace |-> x]
  <2>1. PICK k \in 1 .. Len(chain[h].traces) : x = chain[h].traces[k]
    BY <1>2 DEF Ran
  <2>2. r \in {[height |-> h, trace |-> chain[h].traces[m]] : m \in DOMAIN chain[h].traces}
    BY <1>1, <2>1
  <2>3. r \in Receipts
    BY <1>1, <2>2 DEF Receipts
  <2>4. r.height = h /\ r.trace = x
    OBVIOUS
  <2> HIDE DEF r
  <2>5. r \in Indexed
    BY <1>2, <2>3, <2>4 DEF Indexed
  <2> QED
    BY <2>4, <2>5 DEF Wanted
<1>3. ASSUME NEW y \in Wanted
      PROVE  \E h \in 1 .. Len(chain) : \E k \in 1 .. Len(chain[h].traces) :
                LET x == chain[h].traces[k] IN
                y = ReceiptOf(h, x) /\ <<x.act.account, x.act.name>> \notin SkipActions
  <2>1. PICK r \in Indexed : y = ReceiptOf(r.height, r.trace)
    BY DEF Wanted
  <2>2. r \in Receipts /\ <<r.trace.act.account, r.trace.act.name>> \notin SkipActions
    BY DEF Indexed
  <2>3. PICK h \in DOMAIN chain :
          r \in {[height |-> h, trace |-> chain[h].traces[k]] : k \in DOMAIN chain[h].traces}
    BY <2>2 DEF Receipts
  <2>4. PICK k \in DOMAIN chain[h].traces : r = [height |-> h, trace |-> chain[h].traces[k]]
    BY <2>3
  <2>5. r.height = h /\ r.trace = chain[h].traces[k]
    BY <2>4
  <2> QED
    BY <1>1, <2>1, <2>2, <2>3, <2>4, <2>5
<1> QED
    BY <1>2, <1>3

\* The mark of absence is none of the documents.
AbsenceMarked == \A height, tx, group, data : ActionDoc(height, tx, group, data) # NoValue

\* The action of a receipt is stored once its block has landed.
LEMMA ReceiptIsFound ==
    ASSUME IInv, AbsenceMarked, Settled,
           NEW h \in 1 .. Len(chain), NEW k \in 1 .. Len(chain[h].traces),
           <<chain[h].traces[k].act.account, chain[h].traces[k].act.name>> \notin SkipActions
    PROVE  \E id \in DocsOf("action") :
             ReceiptOf(h, chain[h].traces[k]) \in ReceiptsOf(docs[id].value)
<1> DEFINE x == chain[h].traces[k]
<1>1. /\ ChainOK(chain) /\ Growing(chain) /\ DocsOK(chain, docs)
      /\ Landed(chain, flying, docs) /\ flying = {}
    BY DEF IInv, Settled
<1>2. x.receipt /\ Ran(chain, h, x)
    BY <1>1 DEF ChainOK, Ran
<1>3. PICK g \in 1 .. Len(Groups(At(chain, h))) :
        \E j \in 1 .. Len(Groups(At(chain, h))[g]) : Groups(At(chain, h))[g][j] = x
    BY <1>1, <1>2, GroupedAt DEF Grouped
<1> DEFINE G == Groups(At(chain, h))[g]
           id == <<"action", Primary(G).sequence>>
<1>4. PICK j \in 1 .. Len(G) : G[j] = x
    BY <1>3
<1>0. GroupOf(chain, h, G)
    BY <1>1, GroupIs
<1>5. /\ \A m \in 1 .. Len(G) : Ran(chain, h, G[m]) /\ G[m].act = G[1].act
      /\ Ran(chain, h, Primary(G)) /\ Primary(G).act = G[1].act
    BY <1>0 DEF GroupOf
<1> HIDE DEF x
<1>6. ~Skipped(G)
    BY <1>4, <1>5 DEF Skipped, x
<1>7. AllThere(chain, h, docs)
    BY <1>1 DEF Landed
<1>8. id \in DOMAIN docs
    BY <1>6, <1>7 DEF AllThere
<1>9. id[1] = "action" /\ Left(chain, id, docs[id])
    BY <1>1, <1>8 DEF DocsOK
<1>10. PICK i, m : Known(chain, id, docs[id].value, i, m)
    BY <1>9, ActionIsKnown
<1>11. Tells(chain, id, docs[id].value, i, m)
    BY <1>1, <1>10, KnownIs
<1>12. i \in 1 .. Len(chain) /\ m \in 1 .. Len(Groups(At(chain, i)))
    BY <1>10 DEF Known
<1> DEFINE K == Groups(At(chain, i))[m]
           doc == docs[id].value
<1>13. Ran(chain, i, Primary(K)) /\ Primary(K).act = K[1].act
  <2>1. GroupOf(chain, i, K)
    BY <1>1, <1>12, GroupIs
  <2> QED
    BY <2>1 DEF GroupOf
<1>14. Primary(K).sequence = Primary(G).sequence
    BY <1>11 DEF Tells
<1>15. h = i /\ Primary(G) = Primary(K)
    BY <1>1, <1>5, <1>12, <1>13, <1>14, OneTrace
<1>16. G[1].act = K[1].act
    BY <1>5, <1>13, <1>15
<1>17. g = m
    BY <1>1, <1>12, <1>15, <1>16, OneGroup
<1>18. doc = ActionDoc(i, At(chain, i), K, doc.data) /\ ReceiptsOf(doc) = GroupReceipts(h, G)
    BY <1>11, <1>15, <1>17 DEF Tells
<1>19. doc # NoValue
  <2>1. PICK data : data = doc.data
    OBVIOUS
  <2>2. ActionDoc(i, At(chain, i), K, data) # NoValue
    BY DEF AbsenceMarked
  <2> QED
    BY <1>18, <2>1, <2>2
<1>20. id \in DocsOf("action")
    BY <1>8, <1>9, <1>19 DEF DocsOf, Ids, Live
<1>21. ReceiptOf(h, x) \in ReceiptsOf(doc)
    BY <1>4, <1>18 DEF GroupReceipts
<1> QED
    BY <1>20, <1>21 DEF x

\* Every action that somebody is to find is in one document, with its
\* receipts and no other: transactions keep their actions apart, blocks their
\* receipts, whatever landed before what.
THEOREM ReceiptsSafety == ASSUME AbsenceMarked PROVE Spec => []ReceiptsOnce
<1>1. IInv => ReceiptsOnce
  <2> SUFFICES ASSUME IInv
               PROVE  ReceiptsOnce
    OBVIOUS
  <2> DEFINE actions == LiveDocs("action")
             found == UNION {ReceiptsOf(doc) : doc \in actions}
  <2>1. ChainOK(chain) /\ Growing(chain) /\ \A id \in DOMAIN docs : Left(chain, id, docs[id])
    BY DEF IInv, DocsOK
  <2>2. ASSUME NEW doc \in actions
        PROVE  \E id \in DOMAIN docs : \E h, g :
                 doc = docs[id].value /\ Known(chain, id, doc, h, g)
    <3>1. PICK id \in DOMAIN docs : id[1] = "action" /\ doc = docs[id].value
      BY DEF LiveDocs, DocsOf, Ids
    <3>2. \E h, g : Known(chain, id, docs[id].value, h, g)
      BY <2>1, <3>1, ActionIsKnown
    <3> QED
      BY <3>1, <3>2
  <2> HIDE DEF actions
  <2>3. found \subseteq Wanted
    <3> SUFFICES ASSUME NEW doc \in actions, NEW y \in ReceiptsOf(doc)
                 PROVE  y \in Wanted
      OBVIOUS
    <3>1. PICK id, h, g : Known(chain, id, doc, h, g)
      BY <2>2
    <3>2. Tells(chain, id, doc, h, g)
      BY <2>1, <3>1, KnownIs
    <3>3. h \in 1 .. Len(chain) /\ g \in 1 .. Len(Groups(At(chain, h)))
      BY <3>1 DEF Known
    <3> DEFINE G == Groups(At(chain, h))[g]
    <3>4. \A m \in 1 .. Len(G) : Ran(chain, h, G[m]) /\ G[m].act = G[1].act
      BY <2>1, <3>3, GroupIs DEF GroupOf
    <3>5. ReceiptsOf(doc) = GroupReceipts(h, G)
          /\ <<G[1].act.account, G[1].act.name>> \notin SkipActions
      BY <3>2 DEF Tells
    <3> HIDE DEF G
    <3>6. PICK m \in 1 .. Len(G) : y = ReceiptOf(h, G[m])
      BY <3>5 DEF GroupReceipts
    <3>7. Ran(chain, h, G[m]) /\ <<G[m].act.account, G[m].act.name>> \notin SkipActions
      BY <3>4, <3>5
    <3> QED
      BY <2>1, <3>3, <3>6, <3>7, WantedIs
  <2>4. ASSUME NEW doc \in actions, NEW other \in actions, doc # other
        PROVE  /\ ReceiptsOf(doc) \cap ReceiptsOf(other) = {}
               /\ doc.trx_id = other.trx_id =>
                    doc.account # other.account \/ doc.name # other.name
    <3>1. PICK id, h, g :
            doc = docs[id].value /\ Known(chain, id, doc, h, g)
      BY <2>2
    <3>2. PICK j, i, k :
            other = docs[j].value /\ Known(chain, j, other, i, k)
      BY <2>2
    <3>3. id # j
      BY <2>4, <3>1, <3>2
    <3>4. ReceiptsOf(doc) \cap ReceiptsOf(other) = {}
      BY <2>1, <3>1, <3>2, <3>3, SharedReceipt
    <3>5. doc.trx_id = other.trx_id =>
            doc.account # other.account \/ doc.name # other.name
      BY <2>1, <3>1, <3>2, <3>3, SharedName
    <3> QED
      BY <3>4, <3>5
  <2>5. ASSUME Settled
        PROVE  Wanted \subseteq found
    <3> SUFFICES ASSUME NEW y \in Wanted
                 PROVE  y \in found
      OBVIOUS
    <3>0. PICK h \in 1 .. Len(chain) : \E k \in 1 .. Len(chain[h].traces) :
            /\ y = ReceiptOf(h, chain[h].traces[k])
            /\ <<chain[h].traces[k].act.account, chain[h].traces[k].act.name>> \notin SkipActions
      BY <2>1, WantedIs
    <3>1. PICK k \in 1 .. Len(chain[h].traces) :
            /\ y = ReceiptOf(h, chain[h].traces[k])
            /\ <<chain[h].traces[k].act.account, chain[h].traces[k].act.name>> \notin SkipActions
      BY <3>0
    <3>2. PICK id \in DocsOf("action") : y \in ReceiptsOf(docs[id].value)
      BY <2>5, <3>1, ReceiptIsFound
    <3>3. docs[id].value \in actions
      BY DEF actions, LiveDocs
    <3> QED
      BY <3>2, <3>3
  <2> QED
    BY <2>3, <2>4, <2>5 DEF ReceiptsOnce, Wanted, actions
<1> QED
    BY <1>1, Invariance, PTL
-----------------------------------------------------------------------------
(* Permissions and balances: what the blocks touch, and what is stored.      *)

PermId(p) == <<"perm", <<p.owner, p.name>>>>
TokenId(a) == <<"token", <<Token, a, "TOK">>>>

IsStateId(id) == id[1] \in {"perm", "token"}

\* Whether the ABI of t describes the token's table.
ShowsTable(t) == "accounts" \in Usable(t.abi)

\* The documents that a block has to write that finds s and leaves t.
Touched(s, t) ==
    {PermId(p) : p \in (s.perms \ t.perms) \cup (t.perms \ s.perms)}
    \cup {TokenId(a) : a \in {b \in Holders : s.balance[b] # t.balance[b] /\ ShowsTable(t)}}

\* A document, or its deletion, is what t has under its id.
Holds(t, id, value, deleted) ==
    /\ ~deleted => value # NoValue
    /\ id[1] = "perm" =>
         IF deleted THEN \A p \in t.perms : PermId(p) # id
         ELSE value \in t.perms /\ PermId(value) = id
    /\ id[1] = "token" =>
         \E a \in Holders :
            /\ id = TokenId(a)
            /\ IF deleted THEN t.balance[a] = 0
               ELSE t.balance[a] > 0 /\ value.scope = a /\ value.amount = t.balance[a]

\* So is each document that a block makes of its permissions and balances.
StateDoc(doc, s, t) ==
    IsStateId(doc.id) =>
        doc.id \in Touched(s, t) /\ Holds(t, doc.id, doc.value, doc.op = "delete")

StateDocs(made, s, t) == IsSeq(made) /\ \A k \in 1 .. Len(made) : StateDoc(made[k], s, t)

HasId(made, id) == \E k \in 1 .. Len(made) : made[k].id = id

\* Permissions have one owner and name each, and no balance is negative.
Keyed(s) ==
    /\ \A p \in s.perms : p = Perm(p.owner, p.name, p)
    /\ \A p \in s.perms : \A q \in s.perms : PermId(p) = PermId(q) => p = q
    /\ \A a \in Holders : s.balance[a] \in Nat

\* The cache of the processor knows this ABI of the token contract.
IsCache(known) == known = [a \in {System, Token} |-> known[a]]
Knows(known, abi) == IsCache(known) /\ known[Token] = Usable(abi)

\* A version of the block at this height.
OfBlock(version, height) ==
    height * Versions <= version /\ version < (height + 1) * Versions

Prior(c, h) == AfterOf(c, h - 1)

StateOnItsWay(c, w) ==
    /\ w.height \in 1 .. Len(c)
    /\ \A k \in 1 .. Len(w.items) : OfBlock(w.items[k].version, w.height)
    /\ StateDocs(w.items, Prior(c, w.height), AfterOf(c, w.height))
    /\ \A id \in Touched(Prior(c, w.height), AfterOf(c, w.height)) : HasId(w.items, id)

\* Some block that touched the document left it.
StateLeft(c, id, doc) ==
    \E h \in 1 .. Len(c) :
        /\ OfBlock(doc.version, h)
        /\ id \in Touched(Prior(c, h), AfterOf(c, h))
        /\ Holds(AfterOf(c, h), id, doc.value, doc.value = NoValue)

StateStored(c, d) == \A id \in DOMAIN d : IsStateId(id) => StateLeft(c, id, d[id])

\* No document is older than a block that touched it and has landed.
StateThere(c, h, d) ==
    \A id \in Touched(Prior(c, h), AfterOf(c, h)) :
        id \in DOMAIN d /\ d[id].version >= h * Versions

StateLanded(c, f, d) ==
    \A h \in 1 .. Len(c) : (\A w \in f : w.height # h) => StateThere(c, h, d)

SInv ==
    /\ \A h \in 0 .. Len(chain) : Keyed(AfterOf(chain, h))
    /\ Knows(abis, AfterOf(chain, Len(chain)).abi)
    /\ \A w \in flying : StateOnItsWay(chain, w)
    /\ StateStored(chain, docs)
    /\ StateLanded(chain, flying, docs)

\* Neither of the two marks is a permission, a row or a document.
DataMarked ==
    /\ \A owner, name, auth : Perm(owner, name, auth) \notin {Garbage, NoValue}
    /\ \A s, t, a : LET data == BalanceRow(s, t, a).data IN data # Garbage /\ data.value # NoValue
    /\ \A height, row, data : row.present => TokenDoc(height, row, data).value # NoValue

\* The documents a row makes, of those with a state.
RowIds(kind, row, t) ==
    IF kind = "permission" THEN {PermId(row.data)}
    ELSE IF kind = "contract_row" /\ ShowsTable(t) THEN {TokenId(row.data.scope)}
    ELSE {}

\* They are what the block has to write.
LEMMA RowTouches ==
    ASSUME NEW s, NEW t, NEW kind, NEW row, RowOf(kind, row, s, t)
    PROVE  RowIds(kind, row, t) \subseteq Touched(s, t)
<1>1. \A p \in t.perms \ s.perms : PermId(Row(TRUE, p).data) \in Touched(s, t)
    BY DEF Row, Touched
<1>2. \A p \in Gone(s, t) : PermId(Row(FALSE, p).data) \in Touched(s, t)
    BY DEF Row, Touched, Gone
<1>3. \A a \in Changed(s, t) : ShowsTable(t) => TokenId(BalanceRow(s, t, a).data.scope) \in Touched(s, t)
  <2>1. \A a : BalanceRow(s, t, a).data.scope = a
    BY DEF BalanceRow, Row
  <2> QED
    BY <2>1 DEF Touched, Changed
<1>4. CASE kind = "permission"
  <2>1. \/ \E p \in t.perms \ s.perms : row = Row(TRUE, p)
        \/ \E p \in Gone(s, t) : row = Row(FALSE, p)
    BY <1>4 DEF RowOf
  <2> QED
    BY <1>1, <1>2, <1>4, <2>1 DEF RowIds
<1>5. CASE kind = "contract_row"
  <2>1. \E a \in Changed(s, t) : row = BalanceRow(s, t, a)
    BY <1>5 DEF RowOf
  <2> QED
    BY <1>3, <1>5, <2>1 DEF RowIds
<1>6. CASE kind \notin {"permission", "contract_row"}
    BY <1>6 DEF RowIds
<1> QED
    BY <1>4, <1>5, <1>6

LEMMA TouchedByRow ==
    ASSUME DataMarked, NEW s, NEW t, Keyed(s), Keyed(t), NEW id \in Touched(s, t)
    PROVE  \E kind \in Kinds : \E row :
             RowOf(kind, row, s, t) /\ row.data # Garbage /\ id \in RowIds(kind, row, t)
<1>1. \A p \in s.perms \cup t.perms : p # Garbage
  <2>1. \A p \in s.perms \cup t.perms : p = Perm(p.owner, p.name, p)
    BY DEF Keyed
  <2>2. \A owner, name, auth : Perm(owner, name, auth) # Garbage
    BY DEF DataMarked
  <2> QED
    BY <2>1, <2>2
<1>2. ASSUME NEW p \in t.perms \ s.perms, id = PermId(p)
      PROVE  RowOf("permission", Row(TRUE, p), s, t) /\ Row(TRUE, p).data # Garbage
             /\ id \in RowIds("permission", Row(TRUE, p), t)
    BY <1>1, <1>2 DEF RowOf, Row, RowIds
<1>3. ASSUME NEW p \in Gone(s, t), id = PermId(p)
      PROVE  RowOf("permission", Row(FALSE, p), s, t) /\ Row(FALSE, p).data # Garbage
             /\ id \in RowIds("permission", Row(FALSE, p), t)
    BY <1>1, <1>3 DEF RowOf, Row, RowIds, Gone
<1>4. CASE \E p \in (s.perms \ t.perms) \cup (t.perms \ s.perms) : id = PermId(p)
  <2>1. PICK p \in (s.perms \ t.perms) \cup (t.perms \ s.perms) : id = PermId(p)
    BY <1>4
  <2>2. CASE p \in t.perms \ s.perms
    BY <1>2, <2>1, <2>2 DEF Kinds
  <2>3. CASE p \in s.perms \ t.perms
    <3>1. CASE \E q \in t.perms : q.owner = p.owner /\ q.name = p.name
      <4>1. PICK q \in t.perms : PermId(q) = PermId(p)
        BY <3>1 DEF PermId
      <4>2. q \notin s.perms
        BY <2>3, <4>1 DEF Keyed
      <4> QED
        BY <1>2, <2>1, <4>1, <4>2 DEF Kinds
    <3>2. CASE ~\E q \in t.perms : q.owner = p.owner /\ q.name = p.name
      <4>1. p \in Gone(s, t)
        BY <2>3, <3>2 DEF Gone
      <4> QED
        BY <1>3, <2>1, <4>1 DEF Kinds
    <3> QED
      BY <3>1, <3>2
  <2> QED
    BY <2>1, <2>2, <2>3
<1>5. CASE \E a \in Changed(s, t) : id = TokenId(a) /\ ShowsTable(t)
  <2>1. PICK a \in Changed(s, t) : id = TokenId(a) /\ ShowsTable(t)
    BY <1>5
  <2> DEFINE row == BalanceRow(s, t, a)
  <2>2. RowOf("contract_row", row, s, t)
    BY DEF RowOf
  <2>3. row.data # Garbage
    BY DEF DataMarked
  <2>4. row.data.scope = a
    BY DEF BalanceRow, Row
  <2> HIDE DEF row
  <2>5. id \in RowIds("contract_row", row, t)
    BY <2>1, <2>4 DEF RowIds
  <2> QED
    BY <2>2, <2>3, <2>5 DEF Kinds
<1> QED
    BY <1>4, <1>5 DEF Touched, Changed

LEMMA StateAppend ==
    ASSUME NEW made, NEW s, NEW t, NEW doc, StateDocs(made, s, t), StateDoc(doc, s, t)
    PROVE  /\ StateDocs(Append(made, doc), s, t)
           /\ Longer(made, Append(made, doc))
           /\ HasId(Append(made, doc), doc.id)
<1> DEFINE n == Len(made)
           a == Append(made, doc)
<1>1. n \in Nat /\ IsSeq(made) /\ \A k \in 1 .. n : StateDoc(made[k], s, t)
    BY DEF StateDocs, IsSeq
<1>2. IsSeq(a) /\ Len(a) = n + 1 /\ (\A k \in 1 .. n : a[k] = made[k]) /\ a[n + 1] = doc
    BY <1>1, AppendIs
<1> HIDE DEF a, n
<1>3. \A k \in 1 .. n + 1 : k \in 1 .. n \/ k = n + 1
    BY <1>1
<1>4. \A k \in 1 .. n : k \in 1 .. n + 1
    BY <1>1
<1>5. n + 1 \in 1 .. n + 1
    BY <1>1
<1>6. StateDocs(a, s, t)
    BY <1>1, <1>2, <1>3 DEF StateDocs
<1>7. Longer(made, a)
    BY <1>2, <1>4 DEF Longer, n
<1>8. HasId(a, doc.id)
    BY <1>2, <1>5 DEF HasId
<1> QED
    BY <1>6, <1>7, <1>8 DEF a

LEMMA HasIdKept ==
    ASSUME NEW made, NEW more, NEW id, Longer(made, more), HasId(made, id)
    PROVE  HasId(more, id)
BY DEF Longer, HasId

\* The cache after an ABI of the token contract was taken.
LEMMA CacheSet ==
    ASSUME NEW known, IsCache(known), NEW v
    PROVE  IsCache([known EXCEPT ![Token] = v]) /\ [known EXCEPT ![Token] = v][Token] = v
<1>1. known = [a \in {System, Token} |-> known[a]]
    BY DEF IsCache
<1>2. [known EXCEPT ![Token] = v] = [a \in {System, Token} |-> IF a = Token THEN v ELSE known[a]]
    BY <1>1
<1> DEFINE new == [known EXCEPT ![Token] = v]
<1>3. new = [a \in {System, Token} |-> new[a]] /\ new[Token] = v
    BY <1>2
<1> QED
    BY <1>3 DEF IsCache

\* What the processor makes of a row, once it knows the ABI of the block.
LEMMA StateRowStep ==
    ASSUME DataMarked, NEW height, NEW s, NEW t, Keyed(s), Keyed(t), NEW acc, NEW item,
           RowOf(item.kind, item.row, s, t), StateDocs(acc.docs, s, t), Knows(acc.abis, t.abi)
    PROVE  LET new == Process(height, acc, item) IN
           /\ StateDocs(new.docs, s, t) /\ Longer(acc.docs, new.docs)
           /\ Knows(new.abis, t.abi)
           /\ \A id \in RowIds(item.kind, item.row, t) : HasId(new.docs, id)
<1> DEFINE row == item.row
           new == Process(height, acc, item)
<1>0. Longer(acc.docs, acc.docs)
    BY DEF Longer
<1>1. CASE item.kind = "account"
  <2>1. row = Row(TRUE, [name |-> Token, abi |-> t.abi])
    BY <1>1 DEF RowOf
  <2>2. row.present /\ row.data.name = Token /\ row.data.abi = t.abi
    BY <2>1 DEF Row
  <2> DEFINE abi == Usable(t.abi)
             doc == Index("abi", <<height, Token>>,
                          [block_num |-> height, account |-> Token, abi |-> abi])
  <2>3. new = ProcessAccountRow(height, acc, row)
    BY <1>1 DEF Process
  <2>4. /\ new.docs = acc.docs \/ new.docs = Append(acc.docs, doc)
        /\ new.abis = acc.abis \/ new.abis = [acc.abis EXCEPT ![Token] = abi]
    BY <2>2, <2>3 DEF ProcessAccountRow
  <2>5. StateDoc(doc, s, t)
    BY DEF StateDoc, IsStateId, Index
  <2> HIDE DEF doc, new
  <2>6. StateDocs(new.docs, s, t) /\ Longer(acc.docs, new.docs)
    <3>1. CASE new.docs = acc.docs
      BY <1>0, <3>1
    <3>2. CASE new.docs = Append(acc.docs, doc)
      BY <2>5, <3>2, StateAppend
    <3> QED
      BY <2>4, <3>1, <3>2
  <2>7. Knows(new.abis, t.abi)
    <3>1. IsCache(acc.abis) /\ acc.abis[Token] = abi
      BY DEF Knows
    <3> HIDE DEF abi
    <3>2. CASE new.abis = acc.abis
      BY <3>2
    <3>3. CASE new.abis = [acc.abis EXCEPT ![Token] = abi]
      <4>1. IsCache(new.abis) /\ new.abis[Token] = abi
        BY <3>1, <3>3, CacheSet
      <4> QED
        BY <4>1 DEF Knows, abi
    <3> QED
      BY <2>4, <3>2, <3>3
  <2>8. RowIds(item.kind, row, t) = {}
    BY <1>1 DEF RowIds
  <2> QED
    BY <2>6, <2>7, <2>8 DEF new
<1>2. CASE item.kind = "permission"
  <2> DEFINE key == <<row.data.owner, row.data.name>>
             doc == IF row.present THEN Index("perm", key, row.data) ELSE Delete("perm", key)
  <2>1. new.docs = Append(acc.docs, doc) /\ new.abis = acc.abis
    BY <1>2 DEF Process, ProcessPermissionRow
  <2>2. doc.id = PermId(row.data)
    BY DEF Index, Delete, PermId
  <2>3. RowIds(item.kind, row, t) = {doc.id}
    BY <1>2, <2>2 DEF RowIds
  <2>4. doc.id \in Touched(s, t)
    BY <2>3, RowTouches
  <2>5. Holds(t, doc.id, doc.value, doc.op = "delete")
    <3>0. doc.id[1] = "perm"
      BY <2>2 DEF PermId
    <3>1. CASE \E p \in t.perms \ s.perms : row = Row(TRUE, p)
      <4>1. PICK p \in t.perms \ s.perms : row = Row(TRUE, p)
        BY <3>1
      <4>2. row.present /\ row.data = p
        BY <4>1 DEF Row
      <4>3. doc.op = "index" /\ doc.value = p
        BY <4>2 DEF Index
      <4>4. p # NoValue
        BY DEF Keyed, DataMarked
      <4> HIDE DEF doc
      <4> QED
        BY <2>2, <3>0, <4>2, <4>3, <4>4 DEF Holds
    <3>2. CASE \E p \in Gone(s, t) : row = Row(FALSE, p)
      <4>1. PICK p \in Gone(s, t) : row = Row(FALSE, p)
        BY <3>2
      <4>2. ~row.present /\ row.data = p
        BY <4>1 DEF Row
      <4>3. doc.op = "delete"
        BY <4>2 DEF Delete
      <4>4. \A q \in t.perms : PermId(q) # PermId(p)
        BY DEF Gone, PermId
      <4> HIDE DEF doc
      <4> QED
        BY <2>2, <3>0, <4>2, <4>3, <4>4 DEF Holds
    <3> QED
      BY <1>2, <3>1, <3>2 DEF RowOf
  <2>6. StateDoc(doc, s, t)
    BY <2>4, <2>5 DEF StateDoc
  <2> HIDE DEF doc, new
  <2> QED
    BY <2>1, <2>3, <2>6, StateAppend DEF new
<1>3. CASE item.kind = "contract_row"
  <2>1. PICK a \in Changed(s, t) : row = BalanceRow(s, t, a)
    BY <1>3 DEF RowOf
  <2> DEFINE cr == row.data
             data == Decoded(acc.abis, cr.code, cr.table, cr.value)
             delta == Index("delta", <<height, acc.ordinal>>,
                 [block_num |-> height, code |-> cr.code, scope |-> cr.scope, table |-> cr.table,
                  present |-> row.present, data |-> data])
             token == TokenDoc(height, row, data)
             one == Append(acc.docs, delta)
  <2>2. /\ row.present = (t.balance[a] > 0)
        /\ cr.code = Token /\ cr.scope = a /\ cr.table = "accounts"
        /\ cr.value = [symbol |-> "TOK",
                       amount |-> IF t.balance[a] > 0 THEN t.balance[a] ELSE s.balance[a]]
    BY <2>1 DEF BalanceRow, Row
  <2>3. cr.value # NoValue
    BY <2>1 DEF DataMarked
  <2>4. /\ ShowsTable(t) => data = cr.value
        /\ ~ShowsTable(t) => data = NoValue
    BY <2>2 DEF Decoded, Knows, ShowsTable
  <2>5. /\ new.docs = IF ShowsTable(t) THEN Append(one, token) ELSE one
        /\ new.abis = acc.abis
    <3>1. DOMAIN cr.value = {"symbol", "amount"}
      BY <2>2
    <3>2. (data # NoValue /\ cr.table = "accounts" /\ {"symbol", "amount"} \subseteq DOMAIN data)
             <=> ShowsTable(t)
      <4> HIDE DEF data
      <4> QED
        BY <2>2, <2>3, <2>4, <3>1
    <3>3. new = ProcessContractRow(height, acc, row)
      BY <1>3 DEF Process
    <3> QED
      BY <3>2, <3>3 DEF ProcessContractRow
  <2>6. StateDoc(delta, s, t)
    BY DEF StateDoc, IsStateId, Index
  <2>7. RowIds(item.kind, row, t) = IF ShowsTable(t) THEN {TokenId(a)} ELSE {}
    BY <1>3, <2>2 DEF RowIds
  <2>8. ASSUME ShowsTable(t)
        PROVE  token.id = TokenId(a) /\ StateDoc(token, s, t)
    <3>1. data = cr.value
      BY <2>4, <2>8
    <3> HIDE DEF data
    <3> DEFINE key == <<cr.code, cr.scope, data.symbol>>
               value == [block_num |-> height, code |-> cr.code, scope |-> cr.scope,
                         symbol |-> data.symbol, amount |-> data.amount]
    <3>2. a \in Holders /\ t.balance[a] \in Nat
      BY DEF Keyed, Changed
    <3>3. TokenId(a) \in Touched(s, t)
      BY <2>7, <2>8, RowTouches
    <3>4. CASE t.balance[a] > 0
      <4>1. token = Index("token", key, value)
        BY <2>2, <3>4 DEF TokenDoc
      <4>2. /\ token.id = TokenId(a) /\ token.op = "index" /\ token.value = value
            /\ value.scope = a /\ value.amount = t.balance[a]
        BY <2>2, <3>1, <3>4, <4>1 DEF Index, TokenId
      <4>3. token.value # NoValue
        BY <2>2, <3>4 DEF DataMarked
      <4> HIDE DEF token, value
      <4>4. Holds(t, token.id, token.value, token.op = "delete")
        BY <3>2, <3>4, <4>2, <4>3 DEF Holds, TokenId
      <4> QED
        BY <3>3, <4>2, <4>4 DEF StateDoc
    <3>5. CASE ~(t.balance[a] > 0)
      <4>1. token = Delete("token", key)
        BY <2>2, <3>5 DEF TokenDoc
      <4>2. token.id = TokenId(a) /\ token.op = "delete"
        BY <2>2, <3>1, <4>1 DEF Delete, TokenId
      <4>3. t.balance[a] = 0
        BY <3>2, <3>5
      <4> HIDE DEF token, value
      <4>4. Holds(t, token.id, token.value, token.op = "delete")
        BY <3>2, <4>2, <4>3 DEF Holds, TokenId
      <4> QED
        BY <3>3, <4>2, <4>4 DEF StateDoc
    <3> QED
      BY <3>4, <3>5
  <2> HIDE DEF delta, token, data, new
  <2>9. StateDocs(one, s, t) /\ Longer(acc.docs, one)
    BY <2>6, StateAppend
  <2> HIDE DEF one
  <2>10. CASE ShowsTable(t)
    <3>1. /\ StateDocs(new.docs, s, t) /\ Longer(one, new.docs) /\ HasId(new.docs, TokenId(a))
      BY <2>5, <2>8, <2>9, <2>10, StateAppend
    <3>2. Longer(acc.docs, new.docs)
      BY <2>9, <3>1 DEF Longer
    <3> QED
      BY <2>5, <2>7, <2>10, <3>1, <3>2 DEF new
  <2>11. CASE ~ShowsTable(t)
    BY <2>5, <2>7, <2>9, <2>11 DEF new
  <2> QED
    BY <2>10, <2>11
<1>4. CASE item.kind = "resource_usage"
  <2>1. new = acc
    BY <1>4 DEF Process
  <2>2. RowIds(item.kind, row, t) = {}
    BY <1>4 DEF RowIds
  <2> QED
    BY <1>0, <2>1, <2>2
<1> QED
    BY <1>1, <1>2, <1>3, <1>4 DEF RowOf

SetsAbi(act) == act.account = System /\ act.name = "setabi"

\* During the actions of a block the cache has the ABI before or after it.
Near(known, s, t) ==
    IsCache(known) /\ (known[Token] = Usable(s.abi) \/ known[Token] = Usable(t.abi))

\* The system contract has its accounts' ABIs set by an action that no
\* operator skips.
Operated == System # Token /\ <<System, "setabi">> \notin SkipActions

LEMMA StateActionStep ==
    ASSUME Operated, NEW height, NEW s, NEW t, NEW acc, NEW item, item.kind = "action",
           StateDocs(acc.docs, s, t), Near(acc.abis, s, t),
           LET act == Primary(item.group).act IN
           SetsAbi(act) => act.data.account = Token /\ act.data.abi = t.abi
    PROVE  LET new == Process(height, acc, item) IN
           /\ StateDocs(new.docs, s, t) /\ Near(new.abis, s, t)
           /\ acc.abis[Token] = Usable(t.abi) \/ SetsAbi(Primary(item.group).act) =>
                new.abis[Token] = Usable(t.abi)
<1> DEFINE primary == Primary(item.group)
           act == primary.act
           abis0 == ApplySetabi(acc.abis, act)
           data == Decoded(abis0, act.account, act.name, act.data)
           doc == Index("action", primary.sequence, ActionDoc(height, item.tx, item.group, data))
           new == Process(height, acc, item)
<1>1. new = ProcessGroup(height, item.tx, acc, item.group)
    BY DEF Process
<1>2. CASE <<act.account, act.name>> \in SkipActions
  <2>1. new = acc
    BY <1>1, <1>2 DEF ProcessGroup
  <2>2. ~SetsAbi(act)
    BY <1>2 DEF SetsAbi, Operated
  <2> QED
    BY <2>1, <2>2
<1>3. CASE <<act.account, act.name>> \notin SkipActions
  <2>1. new.docs = Append(acc.docs, doc) /\ new.abis = abis0
    BY <1>1, <1>3 DEF ProcessGroup
  <2>2. StateDoc(doc, s, t)
    BY DEF StateDoc, IsStateId, Index
  <2>3. IF SetsAbi(act) THEN abis0 = [acc.abis EXCEPT ![Token] = Usable(t.abi)]
        ELSE abis0 = acc.abis
    BY DEF ApplySetabi, SetsAbi
  <2> HIDE DEF doc, abis0, new, data
  <2>4. StateDocs(new.docs, s, t)
    BY <2>1, <2>2, StateAppend
  <2>5. CASE SetsAbi(act)
    <3>1. IsCache(abis0) /\ abis0[Token] = Usable(t.abi)
      BY <2>3, <2>5, CacheSet DEF Near
    <3> QED
      BY <2>1, <2>4, <3>1 DEF Near, new
  <2>6. CASE ~SetsAbi(act)
    BY <2>1, <2>3, <2>4, <2>6 DEF Near, new
  <2> QED
    BY <2>5, <2>6
<1> QED
    BY <1>2, <1>3

\* A transaction leaves permissions and balances in order, and an ABI that
\* changes is one that an action of it sets.
OfState(tx, s) ==
    /\ Keyed(tx.after)
    /\ \A n \in 1 .. Len(tx.steps) :
         LET act == tx.steps[n].act IN
         SetsAbi(act) => act.data.account = Token /\ act.data.abi = tx.after.abi
    /\ tx.after.abi # s.abi =>
         /\ tx.status = 0
         /\ \E n \in 1 .. Len(tx.steps) :
              SetsAbi(tx.steps[n].act) /\ Len(tx.steps[n].receivers) # 0

LEMMA FieldsExcept ==
    ASSUME NEW s, IsState(s), NEW v
    PROVE  /\ [s EXCEPT !.balance = v].perms = s.perms /\ [s EXCEPT !.balance = v].abi = s.abi
           /\ [s EXCEPT !.balance = v].balance = v
           /\ [s EXCEPT !.abi = v].perms = s.perms /\ [s EXCEPT !.abi = v].abi = v
           /\ [s EXCEPT !.abi = v].balance = s.balance
           /\ [s EXCEPT !.perms = v].perms = v /\ [s EXCEPT !.perms = v].abi = s.abi
           /\ [s EXCEPT !.perms = v].balance = s.balance
<1> DEFINE r == [perms |-> s.perms, balance |-> s.balance, abi |-> s.abi, sequence |-> s.sequence]
<1>1. s = r
    BY DEF IsState
<1>2. /\ [r EXCEPT !.balance = v]
           = [perms |-> s.perms, balance |-> v, abi |-> s.abi, sequence |-> s.sequence]
      /\ [r EXCEPT !.abi = v]
           = [perms |-> s.perms, balance |-> s.balance, abi |-> v, sequence |-> s.sequence]
      /\ [r EXCEPT !.perms = v]
           = [perms |-> v, balance |-> s.balance, abi |-> s.abi, sequence |-> s.sequence]
    OBVIOUS
<1> HIDE DEF r
<1>3. /\ [s EXCEPT !.balance = v]
           = [perms |-> s.perms, balance |-> v, abi |-> s.abi, sequence |-> s.sequence]
      /\ [s EXCEPT !.abi = v]
           = [perms |-> s.perms, balance |-> s.balance, abi |-> v, sequence |-> s.sequence]
      /\ [s EXCEPT !.perms = v]
           = [perms |-> v, balance |-> s.balance, abi |-> s.abi, sequence |-> s.sequence]
    BY <1>1, <1>2
<1> QED
    BY <1>3

LEMMA KeyedBy ==
    ASSUME NEW s, NEW t, Keyed(s), t.perms = s.perms, t.balance = s.balance
    PROVE  Keyed(t)
BY DEF Keyed

LEMMA StepHasReceiver ==
    ASSUME NEW act, NEW notify, NEW S, notify \in Seq(S)
    PROVE  Step(act, notify).act = act /\ Len(Step(act, notify).receivers) # 0
<1> DEFINE R == S \cup {act.account}
           one == <<act.account>>
           r == Step(act, notify).receivers
<1>1. notify \in Seq(R) /\ one \in Seq(R) /\ Len(one) = 1
    BY SeqMonotonic
<1>2. r = one \o notify
    BY DEF Step
<1> HIDE DEF R, one, r
<1>3. Len(notify) \in Nat
    BY LenProperties
<1>4. Len(r) = Len(one) + Len(notify)
    BY <1>1, <1>2, ConcatProperties
<1>5. Len(r) # 0
    BY <1>1, <1>3, <1>4
<1> QED
    BY <1>5 DEF Step, r

LEMMA OneStepOfState ==
    ASSUME NEW act, NEW after, NEW s, NEW status, Keyed(after),
           SetsAbi(act) => act.data.account = Token /\ act.data.abi = after.abi,
           after.abi # s.abi => status = 0 /\ SetsAbi(act),
           NEW notify, NEW S, notify \in Seq(S)
    PROVE  OfState([status |-> status, steps |-> <<Step(act, notify)>>, after |-> after], s)
<1> DEFINE step == Step(act, notify)
           tx == [status |-> status, steps |-> <<step>>, after |-> after]
<1>1. step.act = act /\ Len(step.receivers) # 0
    BY StepHasReceiver
<1> HIDE DEF step
<1>2. tx.steps = <<step>> /\ tx.after = after /\ tx.status = status
    OBVIOUS
<1>3. Len(<<step>>) = 1 /\ \A n \in 1 .. 1 : <<step>>[n] = step
    OBVIOUS
<1> HIDE DEF tx
<1>4. OfState(tx, s)
    BY <1>1, <1>2, <1>3 DEF OfState
<1> QED
    BY <1>4 DEF tx, step

LEMMA TransfersOfState ==
    ASSUME NEW s, IsState(s), Keyed(s), NEW tx \in Transfers(s)
    PROVE  /\ OfState(tx, s)
           /\ tx.after.abi = s.abi
           /\ tx.steps[1].act.name = "transfer"
<1>1. PICK t \in {u \in Holders \X Holders \X (1 .. 2) : u[1] # u[2] /\ u[3] <= s.balance[u[1]]} :
        tx = Transaction([k \in 1 .. t[3] |-> Transfer(t[1], t[2])], Move(s, t[1], t[2], t[3]))
    BY DEF Transfers
<1> DEFINE step == Transfer(t[1], t[2])
           after == Move(s, t[1], t[2], t[3])
           steps == [k \in 1 .. t[3] |-> step]
           act == Act(Token, "transfer", [from |-> t[1], to |-> t[2], quantity |-> 1])
           v == [a \in Holders |->
                   IF a = t[1] THEN s.balance[a] - t[3]
                   ELSE IF a = t[2] THEN s.balance[a] + t[3] ELSE s.balance[a]]
<1>2. /\ t[3] \in Nat /\ 1 \in 1 .. t[3] /\ t[1] \in Holders /\ t[2] \in Holders
      /\ t[1] # t[2] /\ t[3] <= s.balance[t[1]]
    OBVIOUS
<1>3. step.act = act
  <2>1. <<t[1], t[2]>> \in Seq(Holders)
    BY <1>2
  <2> HIDE DEF act
  <2> QED
    BY <2>1, StepIs DEF Transfer, act
<1>4. act.name = "transfer"
    BY DEF Act
<1>5. tx.steps = steps /\ tx.after = after
    BY <1>1 DEF Transaction
<1>6. after = [s EXCEPT !.balance = v]
    BY DEF Move
<1> HIDE DEF step, act, after
<1>7. steps = [k \in 1 .. t[3] |-> steps[k]] /\ \A k \in 1 .. t[3] : steps[k] = step
    OBVIOUS
<1> HIDE DEF steps
<1>8. Len(steps) = t[3]
    BY <1>2, <1>7, MadeSeq
<1>9. \A a \in Holders : v[a] \in Nat
  <2>1. \A a \in Holders : s.balance[a] \in Nat
    BY DEF Keyed
  <2> QED
    BY <1>2, <2>1
<1> HIDE DEF v
<1>10. after.perms = s.perms /\ after.abi = s.abi /\ after.balance = v
    BY <1>6, FieldsExcept
<1>11. Keyed(after)
    BY <1>9, <1>10 DEF Keyed
<1>12. \A n \in 1 .. Len(tx.steps) : ~SetsAbi(tx.steps[n].act)
    BY <1>3, <1>4, <1>5, <1>7, <1>8 DEF SetsAbi
<1>13. OfState(tx, s)
    BY <1>5, <1>10, <1>11, <1>12 DEF OfState
<1> QED
    BY <1>2, <1>3, <1>4, <1>5, <1>7, <1>10, <1>13

LEMMA DeploymentsOfState ==
    ASSUME NEW s, IsState(s), Keyed(s), NEW tx \in Deployments(s)
    PROVE  OfState(tx, s)
<1>1. PICK abi \in Abis \ {s.abi} :
        \/ tx = Transaction(<<SetAbi(abi)>>, [s EXCEPT !.abi = abi])
        \/ \E t \in Transfers(s) :
             tx = Transaction(<<SetAbi(abi), t.steps[1]>>, [t.after EXCEPT !.abi = abi])
    BY DEF Deployments
<1> DEFINE act == Act(System, "setabi", [account |-> Token, abi |-> abi])
           set == SetAbi(abi)
<1>2. /\ set = Step(act, <<>>)
      /\ SetsAbi(act) /\ act.data.account = Token /\ act.data.abi = abi
    BY DEF SetAbi, Act, SetsAbi
<1>3. <<>> \in Seq({})
    BY EmptySeq
<1> HIDE DEF act, set
<1>4. set.act = act /\ Len(set.receivers) # 0
    BY <1>2, <1>3, StepHasReceiver
<1>5. CASE tx = Transaction(<<set>>, [s EXCEPT !.abi = abi])
  <2> DEFINE after == [s EXCEPT !.abi = abi]
  <2>1. after.perms = s.perms /\ after.balance = s.balance /\ after.abi = abi
    BY FieldsExcept
  <2>2. tx = [status |-> 0, steps |-> <<Step(act, <<>>)>>, after |-> after]
    BY <1>2, <1>5 DEF Transaction
  <2> HIDE DEF after
  <2>3. Keyed(after)
    BY <2>1, KeyedBy
  <2> QED
    BY <1>2, <1>3, <2>1, <2>2, <2>3, OneStepOfState
<1>6. ASSUME NEW t \in Transfers(s),
             tx = Transaction(<<set, t.steps[1]>>, [t.after EXCEPT !.abi = abi])
      PROVE  OfState(tx, s)
  <2> DEFINE use == t.steps[1]
             after == [t.after EXCEPT !.abi = abi]
  <2>1. OfState(t, s) /\ use.act.name = "transfer" /\ IsState(t.after)
    BY TransfersOfState, TransfersAre DEF GoodTx
  <2>2. after.perms = t.after.perms /\ after.balance = t.after.balance /\ after.abi = abi
    BY <2>1, FieldsExcept
  <2>3. tx.steps = <<set, use>> /\ tx.after = after /\ tx.status = 0
    BY <1>6 DEF Transaction
  <2> HIDE DEF use, after
  <2>4. Keyed(after)
    BY <2>1, <2>2, KeyedBy DEF OfState
  <2>5. Len(<<set, use>>) = 2 /\ \A n \in 1 .. 2 : <<set, use>>[n] = IF n = 1 THEN set ELSE use
    OBVIOUS
  <2>6. /\ \A n \in 1 .. Len(tx.steps) : SetsAbi(tx.steps[n].act) => tx.steps[n].act = act
        /\ 1 \in 1 .. Len(tx.steps) /\ tx.steps[1] = set
    BY <1>4, <2>1, <2>3, <2>5 DEF SetsAbi
  <2> QED
    BY <1>2, <1>4, <2>2, <2>3, <2>4, <2>6 DEF OfState
<1> QED
    BY <1>1, <1>5, <1>6 DEF set

LEMMA TransactionsOfState ==
    ASSUME NEW s, IsState(s), Keyed(s),
           NEW tx \in UNION {Transfers(s), Creations(s), Updates(s), Deletions(s), Deployments(s),
                             Unindexed(s)}
    PROVE  OfState(tx, s)
<1>1. CASE tx \in Transfers(s)
    BY <1>1, TransfersOfState
<1>2. CASE tx \in Deployments(s)
    BY <1>2, DeploymentsOfState
<1>0. <<>> \in Seq({})
    BY EmptySeq
<1>3. ASSUME NEW v, \A p \in v : p = Perm(p.owner, p.name, p),
             \A p \in v : \A q \in v : PermId(p) = PermId(q) => p = q
      PROVE  LET after == [s EXCEPT !.perms = v] IN Keyed(after) /\ after.abi = s.abi
  <2> DEFINE after == [s EXCEPT !.perms = v]
  <2>1. after.perms = v /\ after.balance = s.balance /\ after.abi = s.abi
    BY FieldsExcept
  <2> HIDE DEF after
  <2>2. Keyed(after)
    BY <1>3, <2>1 DEF Keyed
  <2> QED
    BY <2>1, <2>2 DEF after
<1>4. /\ \A p \in s.perms : p = Perm(p.owner, p.name, p)
      /\ \A p \in s.perms : \A q \in s.perms : PermId(p) = PermId(q) => p = q
    BY DEF Keyed
<1>5. CASE tx \in Creations(s)
  <2>1. /\ \A p \in s.perms : p.owner # NewName
        /\ \E u \in Holders \X Keys : tx = Creation(s, u[1], u[2])
    BY <1>5 DEF Creations
  <2>2. PICK u \in Holders \X Keys : tx = Creation(s, u[1], u[2])
    BY <2>1
  <2> DEFINE act == Act(System, "newaccount", [creator |-> u[1], name |-> NewName])
             new == Perm(NewName, "active", [keys |-> {u[2]}, accounts |-> {}])
             v == s.perms \cup {new}
  <2>3. new = Perm(new.owner, new.name, new) /\ new.owner = NewName
    BY DEF Perm
  <2>4. tx = [status |-> 0, steps |-> <<Step(act, <<>>)>>, after |-> [s EXCEPT !.perms = v]]
    BY <2>2 DEF Creation, Transaction
  <2>5. ~SetsAbi(act)
    BY DEF SetsAbi, Act
  <2> HIDE DEF new
  <2>6. \A p \in v : p = Perm(p.owner, p.name, p)
    BY <1>4, <2>3
  <2>7. \A p \in v : \A q \in v : PermId(p) = PermId(q) => p = q
    BY <1>4, <2>1, <2>3 DEF PermId
  <2> HIDE DEF v, act
  <2>8. LET after == [s EXCEPT !.perms = v] IN Keyed(after) /\ after.abi = s.abi
    BY <1>3, <2>6, <2>7
  <2> QED
    BY <1>0, <2>4, <2>5, <2>8, OneStepOfState
<1>6. CASE tx \in Updates(s)
  <2>1. PICK u \in Holders \X Auths : tx = Update(s, u[1], u[2])
    BY <1>6 DEF Updates
  <2> DEFINE act == Act(System, "updateauth", [owner |-> u[1], auth |-> u[2]])
             new == Perm(u[1], "extra", u[2])
             v == Others(s, u[1], "extra") \cup {new}
  <2>2. new = Perm(new.owner, new.name, new) /\ new.owner = u[1] /\ new.name = "extra"
    BY DEF Perm
  <2>3. tx = [status |-> 0, steps |-> <<Step(act, <<>>)>>, after |-> [s EXCEPT !.perms = v]]
    BY <2>1 DEF Update, Transaction
  <2>4. ~SetsAbi(act)
    BY DEF SetsAbi, Act
  <2>5. /\ Others(s, u[1], "extra") \subseteq s.perms
        /\ \A p \in Others(s, u[1], "extra") : p.owner # u[1] \/ p.name # "extra"
    BY DEF Others
  <2> HIDE DEF new
  <2>6. \A p \in v : p = Perm(p.owner, p.name, p)
    BY <1>4, <2>2, <2>5
  <2>7. \A p \in v : \A q \in v : PermId(p) = PermId(q) => p = q
    BY <1>4, <2>2, <2>5 DEF PermId
  <2> HIDE DEF v, act
  <2>8. LET after == [s EXCEPT !.perms = v] IN Keyed(after) /\ after.abi = s.abi
    BY <1>3, <2>6, <2>7
  <2> QED
    BY <1>0, <2>3, <2>4, <2>8, OneStepOfState
<1>7. CASE tx \in Deletions(s)
  <2>1. \E o : tx = Transaction(<<Step(Act(System, "deleteauth", [owner |-> o]), <<>>)>>,
                                [s EXCEPT !.perms = Others(s, o, "extra")])
    BY <1>7 DEF Deletions
  <2>2. PICK o : tx = Transaction(<<Step(Act(System, "deleteauth", [owner |-> o]), <<>>)>>,
                                  [s EXCEPT !.perms = Others(s, o, "extra")])
    BY <2>1
  <2> DEFINE act == Act(System, "deleteauth", [owner |-> o])
             v == Others(s, o, "extra")
  <2>3. tx = [status |-> 0, steps |-> <<Step(act, <<>>)>>, after |-> [s EXCEPT !.perms = v]]
    BY <2>2 DEF Transaction
  <2>4. ~SetsAbi(act)
    BY DEF SetsAbi, Act
  <2>5. v \subseteq s.perms
    BY DEF Others
  <2> HIDE DEF v, act
  <2>6. LET after == [s EXCEPT !.perms = v] IN Keyed(after) /\ after.abi = s.abi
    BY <1>3, <1>4, <2>5
  <2> QED
    BY <1>0, <2>3, <2>4, <2>6, OneStepOfState
<1>8. CASE tx \in Unindexed(s)
  <2>1. \/ tx = Transaction(<<Step(Act(Token, "ping", [memo |-> 0]), <<First>>)>>, s)
        \/ tx = [status |-> 1, steps |-> <<Transfer(First, First)>>, after |-> s]
    BY <1>8 DEF Unindexed
  <2> DEFINE ping == Act(Token, "ping", [memo |-> 0])
             send == Act(Token, "transfer", [from |-> First, to |-> First, quantity |-> 1])
  <2>2. \/ tx = [status |-> 0, steps |-> <<Step(ping, <<First>>)>>, after |-> s]
        \/ tx = [status |-> 1, steps |-> <<Step(send, <<First, First>>)>>, after |-> s]
    BY <2>1 DEF Transaction, Transfer
  <2>3. <<First>> \in Seq({First}) /\ <<First, First>> \in Seq({First})
    OBVIOUS
  <2>4. ~SetsAbi(ping) /\ ~SetsAbi(send)
    BY DEF SetsAbi, Act
  <2> HIDE DEF ping, send
  <2>5. CASE tx = [status |-> 0, steps |-> <<Step(ping, <<First>>)>>, after |-> s]
    BY <2>3, <2>4, <2>5, OneStepOfState
  <2>6. CASE tx = [status |-> 1, steps |-> <<Step(send, <<First, First>>)>>, after |-> s]
    BY <2>3, <2>4, <2>6, OneStepOfState
  <2> QED
    BY <2>2, <2>5, <2>6
<1> QED
    BY <1>1, <1>2, <1>5, <1>6, <1>7, <1>8

\* Groups are of the actions of a transaction, of all that ran if it did.
GroupsOf(groups, tx) ==
    /\ \A g \in 1 .. Len(groups) :
         \E n \in 1 .. Len(tx.steps) : Primary(groups[g]).act = tx.steps[n].act
    /\ tx.status = 0 => \A n \in 1 .. Len(tx.steps) : Len(tx.steps[n].receivers) # 0 =>
         \E g \in 1 .. Len(groups) : Primary(groups[g]).act = tx.steps[n].act

LEMMA GroupActs ==
    ASSUME NEW height, NEW s, NEW tx, Runs(tx)
    PROVE  GroupsOf(Groups(TransactionAt(height, Executed(s, tx).traces)), tx)
<1> DEFINE traces == Executed(s, tx).traces
           at == TransactionAt(height, traces)
           groups == Groups(at)
<1>1. /\ IsSeq(traces)
      /\ \A k \in 1 .. Len(traces) :
           /\ \E n \in 1 .. Len(tx.steps) : traces[k].act = tx.steps[n].act
           /\ traces[k].receipt
      /\ tx.status = 0 => \A n \in 1 .. Len(tx.steps) : Len(tx.steps[n].receivers) # 0 =>
           \E k \in 1 .. Len(traces) : traces[k].act = tx.steps[n].act
    BY ExecutedAre
<1>2. at.traces = traces
    BY DEF TransactionAt
<1> HIDE DEF traces, at
<1>3. Grouped(groups, traces)
    BY <1>1, <1>2, GroupsAre
<1> HIDE DEF groups
<1>4. ASSUME NEW g \in 1 .. Len(groups), NEW j \in 1 .. Len(groups[g])
      PROVE  Primary(groups[g]).act = groups[g][j].act
  <2>1. PICK p \in 1 .. Len(groups[g]) : Primary(groups[g]) = groups[g][p]
    BY <1>3, PrimaryIs DEF Grouped
  <2>2. groups[g][p].act = groups[g][1].act /\ groups[g][j].act = groups[g][1].act
    BY <1>3 DEF Grouped
  <2> QED
    BY <2>1, <2>2
<1>5. ASSUME NEW g \in 1 .. Len(groups)
      PROVE  \E n \in 1 .. Len(tx.steps) : Primary(groups[g]).act = tx.steps[n].act
  <2>1. Len(groups[g]) \in Nat /\ Len(groups[g]) # 0
    BY <1>3 DEF Grouped, IsSeq
  <2>2. 1 \in 1 .. Len(groups[g])
    BY <2>1
  <2>3. PICK k \in 1 .. Len(traces) : groups[g][1] = traces[k]
    BY <1>3, <2>2 DEF Grouped
  <2>4. Primary(groups[g]).act = traces[k].act
    BY <1>4, <2>2, <2>3
  <2>5. \E n \in 1 .. Len(tx.steps) : traces[k].act = tx.steps[n].act
    BY <1>1
  <2> QED
    BY <2>4, <2>5
<1>6. ASSUME tx.status = 0, NEW n \in 1 .. Len(tx.steps), Len(tx.steps[n].receivers) # 0
      PROVE  \E g \in 1 .. Len(groups) : Primary(groups[g]).act = tx.steps[n].act
  <2>1. PICK k \in 1 .. Len(traces) : traces[k].act = tx.steps[n].act
    BY <1>1, <1>6
  <2>2. PICK g \in 1 .. Len(groups) : \E j \in 1 .. Len(groups[g]) : groups[g][j] = traces[k]
    BY <1>1, <1>3 DEF Grouped
  <2> QED
    BY <1>4, <2>1, <2>2
<1>7. GroupsOf(groups, tx)
    BY <1>5, <1>6 DEF GroupsOf
<1> QED
    BY <1>7 DEF groups, at, traces

\* The loop of a block in the state s that a transaction turns into t, after
\* the first k of its items, n of which are actions.
StateSoFar(acc, work, n, k, s, t) ==
    /\ StateDocs(acc.docs, s, t) /\ Near(acc.abis, s, t)
    /\ (\E g \in 1 .. k : g <= n /\ SetsAbi(Primary(work[g].group).act)) =>
         acc.abis[Token] = Usable(t.abi)
    /\ s.abi = t.abi => acc.abis[Token] = Usable(t.abi)
    /\ \A m \in n + 1 .. k : \A id \in RowIds(work[m].kind, work[m].row, t) : HasId(acc.docs, id)

\* An action: the ABI is known once it was set.
LEMMA SoFarAction ==
    ASSUME Operated, NEW height, NEW s, NEW t, NEW acc, NEW work, NEW n \in Nat, NEW m \in Nat,
           m + 1 <= n, work[m + 1].kind = "action",
           LET act == Primary(work[m + 1].group).act IN
           SetsAbi(act) => act.data.account = Token /\ act.data.abi = t.abi,
           StateSoFar(acc, work, n, m, s, t)
    PROVE  StateSoFar(Process(height, acc, work[m + 1]), work, n, m + 1, s, t)
<1> DEFINE k == m + 1
           item == work[k]
           new == Process(height, acc, item)
           act == Primary(item.group).act
<1>1. /\ StateDocs(acc.docs, s, t) /\ Near(acc.abis, s, t)
      /\ (\E g \in 1 .. m : g <= n /\ SetsAbi(Primary(work[g].group).act)) =>
           acc.abis[Token] = Usable(t.abi)
      /\ s.abi = t.abi => acc.abis[Token] = Usable(t.abi)
    BY DEF StateSoFar
<1>2. item.kind = "action" /\ (SetsAbi(act) => act.data.account = Token /\ act.data.abi = t.abi)
    OBVIOUS
<1> HIDE DEF item
<1>3. /\ StateDocs(new.docs, s, t) /\ Near(new.abis, s, t)
      /\ acc.abis[Token] = Usable(t.abi) \/ SetsAbi(act) => new.abis[Token] = Usable(t.abi)
    BY <1>1, <1>2, StateActionStep
<1> HIDE DEF new
<1>4. ASSUME NEW g \in 1 .. k, g <= n, SetsAbi(Primary(work[g].group).act)
      PROVE  new.abis[Token] = Usable(t.abi)
  <2>1. CASE g = k
    BY <1>3, <1>4, <2>1 DEF item
  <2>2. CASE g # k
    <3>1. g \in 1 .. m
      BY <2>2
    <3> QED
      BY <1>1, <1>3, <1>4, <3>1
  <2> QED
    BY <2>1, <2>2
<1>5. n + 1 .. k = {}
    OBVIOUS
<1> HIDE DEF k
<1>6. StateSoFar(new, work, n, k, s, t)
    BY <1>1, <1>3, <1>4, <1>5 DEF StateSoFar
<1> QED
    BY <1>6 DEF new, item, k

\* A row: its documents are made.
LEMMA SoFarRow ==
    ASSUME DataMarked, NEW height, NEW s, NEW t, Keyed(s), Keyed(t), NEW acc, NEW work,
           NEW n \in Nat, NEW m \in Nat, n <= m, RowOf(work[m + 1].kind, work[m + 1].row, s, t),
           acc.abis[Token] = Usable(t.abi), StateSoFar(acc, work, n, m, s, t)
    PROVE  StateSoFar(Process(height, acc, work[m + 1]), work, n, m + 1, s, t)
<1> DEFINE k == m + 1
           item == work[k]
           new == Process(height, acc, item)
<1>1. /\ StateDocs(acc.docs, s, t) /\ Near(acc.abis, s, t)
      /\ \A j \in n + 1 .. m : \A id \in RowIds(work[j].kind, work[j].row, t) : HasId(acc.docs, id)
    BY DEF StateSoFar
<1>2. RowOf(item.kind, item.row, s, t)
    OBVIOUS
<1>3. Knows(acc.abis, t.abi)
    BY <1>1 DEF Knows, Near
<1> HIDE DEF item
<1>4. /\ StateDocs(new.docs, s, t) /\ Longer(acc.docs, new.docs)
      /\ Knows(new.abis, t.abi)
      /\ \A id \in RowIds(item.kind, item.row, t) : HasId(new.docs, id)
    BY <1>1, <1>2, <1>3, StateRowStep
<1> HIDE DEF new
<1>5. new.abis[Token] = Usable(t.abi) /\ Near(new.abis, s, t)
    BY <1>4 DEF Knows, Near
<1>6. ASSUME NEW j \in n + 1 .. k, NEW id \in RowIds(work[j].kind, work[j].row, t)
      PROVE  HasId(new.docs, id)
  <2>1. CASE j = k
    BY <1>4, <1>6, <2>1 DEF item
  <2>2. CASE j # k
    <3>1. j \in n + 1 .. m
      BY <2>2
    <3>2. HasId(acc.docs, id)
      BY <1>1, <3>1
    <3> QED
      BY <1>4, <3>2, HasIdKept
  <2> QED
    BY <2>1, <2>2
<1> HIDE DEF k
<1>7. StateSoFar(new, work, n, k, s, t)
    BY <1>4, <1>5, <1>6 DEF StateSoFar
<1> QED
    BY <1>7 DEF new, item, k

\* The documents of a block are what it leaves of permissions and balances,
\* all of those it touched, and the cache knows its ABI.
LEMMA BlockState ==
    ASSUME DataMarked, Operated, NEW height, NEW s, NEW tx, NEW known, Runs(tx),
           IsFiniteSet(s.perms), IsFiniteSet(tx.after.perms), Keyed(s), OfState(tx, s),
           Knows(known, s.abi)
    PROVE  LET made == ProcessBlock(height, Reported(height, s, tx), known) IN
           /\ StateDocs(made.docs, s, tx.after)
           /\ Knows(made.abis, tx.after.abi)
           /\ \A id \in Touched(s, tx.after) : HasId(made.docs, id)
<1> DEFINE block == Reported(height, s, tx)
           at == TransactionAt(height, Executed(s, tx).traces)
           t == tx.after
           work == Work(block)
           n == Len(Groups(at))
           header == IF block.header THEN <<Index("block", height, [block_num |-> height])>> ELSE <<>>
           F == AccAfter(height, [docs |-> header, abis |-> known, ordinal |-> 0], work)
           Good(k) == StateSoFar(F[k], work, n, k, s, t)
           T == {k \in Nat : k <= Len(work) => Good(k)}
<1>1. /\ IsSeq(work) /\ n \in 0 .. Len(work)
      /\ \A k \in 1 .. n : work[k] = ActionItem(at, k)
      /\ \A k \in n + 1 .. Len(work) :
           work[k].kind \in Kinds /\ RowOf(work[k].kind, work[k].row, s, t)
      /\ \A kind \in Kinds : \A row : RowOf(kind, row, s, t) /\ row.data # Garbage =>
           \E k \in n + 1 .. Len(work) : work[k] = [kind |-> kind, row |-> row]
    BY WorkIs
<1>2. Len(work) \in Nat /\ n \in Nat /\ n <= Len(work)
    BY <1>1 DEF IsSeq
<1>3. ProcessBlock(height, block, known) = F[Len(work)]
    BY DEF ProcessBlock
<1>4. F[0].docs = header /\ F[0].abis = known
    BY <1>2, LoopEquations
<1>5. \A k \in 1 .. Len(work) : F[k] = Process(height, F[k - 1], work[k])
    BY <1>2, LoopEquations
<1>6. StateDocs(header, s, t)
  <2> DEFINE doc == Index("block", height, [block_num |-> height])
  <2>1. StateDoc(doc, s, t)
    BY DEF StateDoc, IsStateId, Index
  <2>2. <<>> \in Seq({doc}) /\ <<doc>> \in Seq({doc})
    BY EmptySeq
  <2>3. header \in Seq({doc})
    BY <2>2
  <2> HIDE DEF doc, header
  <2> QED
    BY <2>1, <2>3, SeqIs DEF StateDocs
<1>7. GroupsOf(Groups(at), tx)
    BY GroupActs
<1> HIDE DEF F, work, at, header, n
<1>8. \A g \in 1 .. n : work[g].kind = "action" /\ work[g].group = Groups(at)[g]
  <2> SUFFICES ASSUME NEW g \in 1 .. n
               PROVE  work[g].kind = "action" /\ work[g].group = Groups(at)[g]
    OBVIOUS
  <2>1. work[g] = ActionItem(at, g)
    BY <1>1
  <2> QED
    BY <2>1 DEF ActionItem
<1>9. \A g \in 1 .. n : LET act == Primary(work[g].group).act IN
        SetsAbi(act) => act.data.account = Token /\ act.data.abi = t.abi
  <2> SUFFICES ASSUME NEW g \in 1 .. n
               PROVE  LET act == Primary(work[g].group).act IN
                      SetsAbi(act) => act.data.account = Token /\ act.data.abi = t.abi
    OBVIOUS
  <2>1. PICK j \in 1 .. Len(tx.steps) : Primary(work[g].group).act = tx.steps[j].act
    BY <1>7, <1>8 DEF GroupsOf, n
  <2> QED
    BY <2>1 DEF OfState
<1>10. s.abi # t.abi => \E g \in 1 .. n : SetsAbi(Primary(work[g].group).act)
    BY <1>7, <1>8 DEF OfState, GroupsOf, n
<1>11. Keyed(t)
    BY DEF OfState
<1>12. ASSUME NEW k \in Nat, n <= k, Good(k)
       PROVE  F[k].abis[Token] = Usable(t.abi)
  <2>1. /\ (\E g \in 1 .. k : g <= n /\ SetsAbi(Primary(work[g].group).act)) =>
             F[k].abis[Token] = Usable(t.abi)
        /\ s.abi = t.abi => F[k].abis[Token] = Usable(t.abi)
    BY <1>12 DEF StateSoFar
  <2>2. \A g \in 1 .. n : g \in 1 .. k /\ g <= n
    BY <1>2, <1>12
  <2> QED
    BY <1>10, <2>1, <2>2
<1>13. 0 \in T
  <2>1. 1 .. 0 = {} /\ n + 1 .. 0 = {}
    BY <1>2
  <2>2. Near(F[0].abis, s, t) /\ (s.abi = t.abi => F[0].abis[Token] = Usable(t.abi))
    BY <1>4 DEF Near, Knows
  <2>3. Good(0)
    BY <1>4, <1>6, <2>1, <2>2 DEF StateSoFar
  <2> QED
    BY <2>3
<1> HIDE DEF Good
<1>14. ASSUME NEW m \in Nat, m \in T PROVE m + 1 \in T
  <2> SUFFICES ASSUME m + 1 <= Len(work) PROVE Good(m + 1)
    OBVIOUS
  <2>1. m + 1 \in 1 .. Len(work) /\ (m + 1) - 1 = m /\ m <= Len(work)
    BY <1>2
  <2>2. Good(m)
    BY <1>14, <2>1
  <2>3. F[m + 1] = Process(height, F[m], work[m + 1])
    BY <1>5, <2>1
  <2> DEFINE acc == F[m]
  <2>4. StateSoFar(acc, work, n, m, s, t)
    BY <2>2 DEF Good
  <2>5. CASE m + 1 <= n
    <3>1. m + 1 \in 1 .. n
      BY <1>2, <2>5
    <3>2. /\ work[m + 1].kind = "action"
          /\ LET act == Primary(work[m + 1].group).act IN
             SetsAbi(act) => act.data.account = Token /\ act.data.abi = t.abi
      BY <1>8, <1>9, <3>1
    <3> HIDE DEF acc
    <3>3. StateSoFar(Process(height, acc, work[m + 1]), work, n, m + 1, s, t)
      BY <1>2, <2>4, <2>5, <3>2, SoFarAction
    <3> QED
      BY <2>3, <3>3 DEF Good, acc
  <2>6. CASE ~(m + 1 <= n)
    <3>1. n <= m /\ m + 1 \in n + 1 .. Len(work)
      BY <1>2, <2>1, <2>6
    <3>2. RowOf(work[m + 1].kind, work[m + 1].row, s, t)
      BY <1>1, <3>1
    <3>3. acc.abis[Token] = Usable(t.abi)
      BY <1>12, <2>2, <3>1
    <3> HIDE DEF acc
    <3>4. StateSoFar(Process(height, acc, work[m + 1]), work, n, m + 1, s, t)
      BY <1>2, <1>11, <2>4, <3>1, <3>2, <3>3, SoFarRow
    <3> QED
      BY <2>3, <3>4 DEF Good, acc
  <2> QED
    BY <2>5, <2>6
<1> HIDE DEF T
<1>15. Len(work) \in T
    BY <1>2, <1>13, <1>14, Induction
<1>16. Good(Len(work))
    BY <1>2, <1>15 DEF T
<1> DEFINE made == F[Len(work)]
<1>17. made.abis[Token] = Usable(t.abi)
    BY <1>2, <1>12, <1>16
<1>18. /\ StateDocs(made.docs, s, t) /\ Near(made.abis, s, t)
       /\ \A m \in n + 1 .. Len(work) : \A id \in RowIds(work[m].kind, work[m].row, t) :
            HasId(made.docs, id)
    BY <1>16 DEF Good, StateSoFar
<1>19. Knows(made.abis, t.abi)
    BY <1>17, <1>18 DEF Knows, Near
<1>20. ASSUME NEW id \in Touched(s, t)
       PROVE  HasId(made.docs, id)
  <2>1. PICK kind \in Kinds : \E row :
          RowOf(kind, row, s, t) /\ row.data # Garbage /\ id \in RowIds(kind, row, t)
    BY <1>11, TouchedByRow
  <2>2. PICK row : RowOf(kind, row, s, t) /\ row.data # Garbage /\ id \in RowIds(kind, row, t)
    BY <2>1
  <2>3. PICK k \in n + 1 .. Len(work) : work[k] = [kind |-> kind, row |-> row]
    BY <1>1, <2>2
  <2>4. id \in RowIds(work[k].kind, work[k].row, t)
    BY <2>2, <2>3
  <2> HIDE DEF made
  <2> QED
    BY <1>18, <2>4
<1> HIDE DEF made
<1> QED
    BY <1>3, <1>18, <1>19, <1>20 DEF made

-----------------------------------------------------------------------------
(* The state on its way and in the store.                                    *)

LEMMA ExecutedFields ==
    ASSUME NEW s, NEW tx, IsState(tx.after)
    PROVE  LET after == Executed(s, tx).after IN
           after.perms = tx.after.perms /\ after.balance = tx.after.balance
           /\ after.abi = tx.after.abi
<1> DEFINE b == Executed(s, tx)
           v == tx.after.sequence + Len(b.traces)
<1>1. b.after = [tx.after EXCEPT !.sequence = v]
    BY DEF Executed
<1> HIDE DEF b, v
<1>2. b.after = [perms |-> tx.after.perms, balance |-> tx.after.balance, abi |-> tx.after.abi,
                 sequence |-> v]
    BY <1>1 DEF IsState
<1> QED
    BY <1>2 DEF b

\* What is said of a state is said of one alike.
SameState(t, u) == t.perms = u.perms /\ t.balance = u.balance /\ t.abi = u.abi

LEMMA SameStates ==
    ASSUME NEW s, NEW t, NEW u, SameState(t, u)
    PROVE  /\ Touched(s, t) = Touched(s, u)
           /\ \A id, value, deleted : Holds(t, id, value, deleted) = Holds(u, id, value, deleted)
           /\ \A made : StateDocs(made, s, t) => StateDocs(made, s, u)
           /\ Keyed(t) => Keyed(u)
<1>1. ShowsTable(t) = ShowsTable(u)
    BY DEF ShowsTable, SameState
<1>2. Touched(s, t) = Touched(s, u)
    BY <1>1 DEF Touched, SameState
<1>3. \A id, value, deleted : Holds(t, id, value, deleted) = Holds(u, id, value, deleted)
    BY DEF Holds, SameState
<1>4. \A doc : StateDoc(doc, s, t) => StateDoc(doc, s, u)
    BY <1>2, <1>3 DEF StateDoc
<1>5. \A made : StateDocs(made, s, t) => StateDocs(made, s, u)
    BY <1>4 DEF StateDocs
<1>6. Keyed(t) => Keyed(u)
    BY DEF Keyed, SameState
<1> QED
    BY <1>2, <1>3, <1>5, <1>6

\* The versions of two blocks are apart.
LEMMA VersionOfBlock ==
    ASSUME NEW most \in Nat, NEW height \in Nat, NEW k \in 1 .. most
    PROVE  LET version == height * most + k - 1 IN
           height * most <= version /\ version < (height + 1) * most
<1> DEFINE p == height * most
           q == (height + 1) * most
<1>1. p \in Nat /\ q = p + most
    OBVIOUS
<1> HIDE DEF p, q
<1>2. p <= p + k - 1 /\ p + k - 1 < q
    BY <1>1
<1> QED
    BY <1>2 DEF p, q

LEMMA BlocksApart ==
    ASSUME NEW version \in Nat, NEW g \in Nat, NEW h \in Nat,
           version < (g + 1) * Versions, h * Versions <= version
    PROVE  h <= g
<1>1. Versions \in Nat
    BY HistoryAssumption
<1>2. CASE g + 1 <= h
  <2>1. PICK d \in Nat : h = (g + 1) + d
    <3>1. h - (g + 1) \in Nat /\ h = (g + 1) + (h - (g + 1))
      BY <1>2
    <3> QED
      BY <3>1
  <2> DEFINE p == (g + 1) * Versions
             q == d * Versions
  <2>2. h * Versions = p + q /\ p \in Nat /\ q \in Nat
    BY <1>1, <2>1
  <2>3. version < p
    OBVIOUS
  <2>4. p + q <= version
    BY <2>2
  <2> HIDE DEF p, q
  <2> QED
    BY <2>2, <2>3, <2>4
<1> QED
    BY <1>2

LEMMA VersionedState ==
    ASSUME NEW height \in Nat, NEW made, NEW s, NEW t, StateDocs(made, s, t), Len(made) <= Versions
    PROVE  LET items == Versioned(height, Versions, made) IN
           /\ StateDocs(items, s, t)
           /\ \A k \in 1 .. Len(items) : OfBlock(items[k].version, height)
           /\ \A id : HasId(made, id) => HasId(items, id)
<1> DEFINE items == Versioned(height, Versions, made)
           n == Len(made)
           Version(k) == height * Versions + k - 1
<1>1. n \in Nat /\ DOMAIN made = 1 .. n /\ \A k \in 1 .. n : StateDoc(made[k], s, t)
    BY DEF StateDocs, IsSeq
<1>2. items = [k \in 1 .. n |-> [op |-> made[k].op, id |-> made[k].id, version |-> Version(k),
                                 value |-> made[k].value]]
    BY <1>1 DEF Versioned
<1>3. \A k \in 1 .. n : OfBlock(Version(k), height)
  <2>1. Versions \in Nat
    BY HistoryAssumption
  <2>2. \A k \in 1 .. n : k \in 1 .. Versions
    BY <1>1, <2>1
  <2> QED
    BY <2>1, <2>2, VersionOfBlock DEF OfBlock
<1> HIDE DEF items, n, Version
<1>4. items = [k \in 1 .. n |-> items[k]]
    BY <1>2
<1>5. IsSeq(items) /\ Len(items) = n
    BY <1>1, <1>4, MadeSeq
<1>6. \A k \in 1 .. n : /\ items[k].op = made[k].op /\ items[k].id = made[k].id
                        /\ items[k].value = made[k].value /\ items[k].version = Version(k)
  <2> SUFFICES ASSUME NEW k \in 1 .. n
               PROVE  /\ items[k].op = made[k].op /\ items[k].id = made[k].id
                      /\ items[k].value = made[k].value /\ items[k].version = Version(k)
    OBVIOUS
  <2>1. items[k] = [op |-> made[k].op, id |-> made[k].id, version |-> Version(k),
                    value |-> made[k].value]
    BY <1>2
  <2> QED
    BY <2>1
<1>7. \A k \in 1 .. n : StateDoc(items[k], s, t)
    BY <1>1, <1>6 DEF StateDoc
<1>8. StateDocs(items, s, t)
    BY <1>5, <1>7 DEF StateDocs
<1>9. \A k \in 1 .. Len(items) : OfBlock(items[k].version, height)
    BY <1>3, <1>5, <1>6
<1>10. \A id : HasId(made, id) => HasId(items, id)
    BY <1>5, <1>6 DEF HasId, n
<1> QED
    BY <1>8, <1>9, <1>10 DEF items

\* A chain that grows keeps what it was.
LEMMA PriorKept ==
    ASSUME NEW c, IsSeq(c), NEW b
    PROVE  LET d == Append(c, b)
               n == Len(c)
           IN  /\ n \in Nat /\ Len(d) = n + 1
               /\ \A h \in 1 .. n : Prior(d, h) = Prior(c, h) /\ AfterOf(d, h) = AfterOf(c, h)
               /\ Prior(d, n + 1) = AfterOf(c, n) /\ AfterOf(d, n + 1) = b.after
<1> DEFINE d == Append(c, b)
           n == Len(c)
<1>1. n \in Nat
    BY DEF IsSeq
<1>2. /\ Len(d) = n + 1 /\ AfterOf(d, n + 1) = b.after
      /\ \A h \in 0 .. n : AfterOf(d, h) = AfterOf(c, h)
    BY AppendBlock
<1> HIDE DEF d, n
<1>3. \A h \in 1 .. n : h \in 0 .. n /\ h - 1 \in 0 .. n
    BY <1>1
<1>4. (n + 1) - 1 = n /\ n \in 0 .. n
    BY <1>1
<1> QED
    BY <1>1, <1>2, <1>3, <1>4 DEF Prior, d, n

LEMMA StateOnItsWayKept ==
    ASSUME NEW c, IsSeq(c), NEW b, NEW w, StateOnItsWay(c, w)
    PROVE  StateOnItsWay(Append(c, b), w)
<1> DEFINE d == Append(c, b)
           h == w.height
<1>1. /\ h \in 1 .. Len(c)
      /\ \A k \in 1 .. Len(w.items) : OfBlock(w.items[k].version, h)
      /\ StateDocs(w.items, Prior(c, h), AfterOf(c, h))
      /\ \A id \in Touched(Prior(c, h), AfterOf(c, h)) : HasId(w.items, id)
    BY DEF StateOnItsWay
<1>2. /\ Len(c) \in Nat /\ Len(d) = Len(c) + 1
      /\ Prior(d, h) = Prior(c, h) /\ AfterOf(d, h) = AfterOf(c, h)
    BY <1>1, PriorKept
<1> HIDE DEF d
<1>3. h \in 1 .. Len(d)
    BY <1>1, <1>2
<1>4. StateOnItsWay(d, w)
    BY <1>1, <1>2, <1>3 DEF StateOnItsWay
<1> QED
    BY <1>4 DEF d

LEMMA StateLeftKept ==
    ASSUME NEW c, IsSeq(c), NEW b, NEW id, NEW doc, StateLeft(c, id, doc)
    PROVE  StateLeft(Append(c, b), id, doc)
<1> DEFINE d == Append(c, b)
<1>1. PICK h \in 1 .. Len(c) :
        /\ OfBlock(doc.version, h)
        /\ id \in Touched(Prior(c, h), AfterOf(c, h))
        /\ Holds(AfterOf(c, h), id, doc.value, doc.value = NoValue)
    BY DEF StateLeft
<1>2. /\ Len(c) \in Nat /\ Len(d) = Len(c) + 1
      /\ Prior(d, h) = Prior(c, h) /\ AfterOf(d, h) = AfterOf(c, h)
    BY PriorKept
<1> HIDE DEF d
<1>3. h \in 1 .. Len(d)
    BY <1>2
<1>4. StateLeft(d, id, doc)
    BY <1>1, <1>2, <1>3 DEF StateLeft
<1> QED
    BY <1>4 DEF d

LEMMA StateLandedKept ==
    ASSUME NEW c, IsSeq(c), NEW b, NEW f, NEW d, StateLanded(c, f, d),
           NEW w, w.height = Len(c) + 1
    PROVE  StateLanded(Append(c, b), f \cup {w}, d)
<1> DEFINE e == Append(c, b)
           n == Len(c)
           g == f \cup {w}
<1>1. /\ n \in Nat /\ Len(e) = n + 1
      /\ \A h \in 1 .. n : Prior(e, h) = Prior(c, h) /\ AfterOf(e, h) = AfterOf(c, h)
    BY PriorKept
<1> HIDE DEF e, n, g
<1>2. w \in g /\ f \subseteq g
    BY DEF g
<1>3. ASSUME NEW h \in 1 .. Len(e), \A v \in g : v.height # h
      PROVE  StateThere(e, h, d)
  <2>1. h # n + 1
    BY <1>2, <1>3 DEF n
  <2>2. h \in 1 .. n
    BY <1>1, <2>1
  <2>3. StateThere(c, h, d)
    BY <1>2, <1>3, <2>2 DEF StateLanded, n
  <2> QED
    BY <1>1, <2>2, <2>3 DEF StateThere
<1>4. StateLanded(e, g, d)
    BY <1>3 DEF StateLanded
<1> QED
    BY <1>4 DEF e, g

\* The documents of the new block, and what it leaves.
LEMMA NewStateOnItsWay ==
    ASSUME DataMarked, Operated, NEW c, ChainOK(c), NEW tx,
           GoodTx(tx, AfterOf(c, Len(c))), OfState(tx, AfterOf(c, Len(c))),
           Keyed(AfterOf(c, Len(c))), NEW known, Knows(known, AfterOf(c, Len(c)).abi),
           NEW made, NEW w, NEW d,
           made = ProcessBlock(Len(c) + 1, Reported(Len(c) + 1, AfterOf(c, Len(c)), tx), known),
           Len(made.docs) <= Versions,
           w = [height |-> Len(c) + 1, items |-> Versioned(Len(c) + 1, Versions, made.docs)],
           d = Append(c, Executed(AfterOf(c, Len(c)), tx))
    PROVE  /\ StateOnItsWay(d, w)
           /\ Knows(made.abis, AfterOf(d, Len(d)).abi)
           /\ Keyed(AfterOf(d, Len(d)))
<1> DEFINE n == Len(c)
           s == AfterOf(c, n)
           t == tx.after
           b == Executed(s, tx)
           items == Versioned(n + 1, Versions, made.docs)
<1>1. n \in Nat /\ IsSeq(c)
    BY DEF ChainOK, IsSeq
<1>2. IsState(s) /\ Runs(tx) /\ IsState(t) /\ IsFiniteSet(s.perms) /\ IsFiniteSet(t.perms)
    BY <1>1, AfterIsState DEF GoodTx, IsState
<1>3. /\ StateDocs(made.docs, s, t) /\ Knows(made.abis, t.abi)
      /\ \A id \in Touched(s, t) : HasId(made.docs, id)
    BY <1>2, BlockState
<1>4. SameState(t, b.after)
    BY <1>2, ExecutedFields DEF SameState
<1>5. Len(d) = n + 1 /\ Prior(d, n + 1) = s /\ AfterOf(d, n + 1) = b.after
    BY <1>1, PriorKept
<1>6. /\ StateDocs(items, s, t)
      /\ \A k \in 1 .. Len(items) : OfBlock(items[k].version, n + 1)
      /\ \A id : HasId(made.docs, id) => HasId(items, id)
  <2>1. n + 1 \in Nat
    BY <1>1
  <2> HIDE DEF s, t, n
  <2> QED
    BY <1>3, <2>1, VersionedState
<1>7. w.height = n + 1 /\ w.items = items
    OBVIOUS
<1>8. Keyed(t)
    BY DEF OfState
<1> HIDE DEF items, b, s, t
<1>9. /\ StateDocs(items, s, b.after)
      /\ \A id \in Touched(s, b.after) : HasId(items, id)
      /\ Keyed(b.after) /\ Knows(made.abis, b.after.abi)
    BY <1>3, <1>4, <1>6, <1>8, SameStates DEF SameState
<1>10. w.height \in 1 .. Len(d)
    BY <1>1, <1>5, <1>7
<1> HIDE DEF n
<1>11. StateOnItsWay(d, w)
    BY <1>5, <1>6, <1>7, <1>9, <1>10 DEF StateOnItsWay
<1> QED
    BY <1>5, <1>9, <1>11

LEMMA StateProduceKeeps ==
    ASSUME DataMarked, Operated, IInv, SInv,
           NEW txs, txs \subseteq UNION {Transfers(Current), Creations(Current), Updates(Current),
                                         Deletions(Current), Deployments(Current),
                                         Unindexed(Current)},
           Produce(txs)
    PROVE  SInv'
<1> DEFINE n == Len(chain)
           s == AfterOf(chain, n)
<1>1. Current = s
    BY DEF Current, After, AfterOf
<1>2. PICK tx \in txs :
        LET made == ProcessBlock(n + 1, Reported(n + 1, Current, tx), abis) IN
        /\ Len(made.docs) <= Versions
        /\ chain' = Append(chain, Executed(Current, tx))
        /\ abis' = made.abis
        /\ flying' = flying \cup {[height |-> n + 1,
                                   items |-> Versioned(n + 1, Versions, made.docs)]}
    BY DEF Produce
<1> DEFINE made == ProcessBlock(n + 1, Reported(n + 1, s, tx), abis)
           w == [height |-> n + 1, items |-> Versioned(n + 1, Versions, made.docs)]
           b == Executed(s, tx)
<1>3. /\ Len(made.docs) <= Versions
      /\ chain' = Append(chain, b) /\ abis' = made.abis
      /\ flying' = flying \cup {w}
      /\ docs' = docs
    BY <1>1, <1>2 DEF Produce
<1>4. ChainOK(chain) /\ IsSeq(chain) /\ n \in Nat /\ n \in 0 .. n
  <2>1. ChainOK(chain) /\ IsSeq(chain)
    BY DEF IInv, ChainOK
  <2>2. n \in Nat
    BY <2>1 DEF IsSeq
  <2> QED
    BY <2>1, <2>2
<1>5. /\ \A h \in 0 .. n : Keyed(AfterOf(chain, h))
      /\ Knows(abis, s.abi)
      /\ \A v \in flying : StateOnItsWay(chain, v)
      /\ StateStored(chain, docs)
      /\ StateLanded(chain, flying, docs)
    BY DEF SInv
<1>6. IsState(s) /\ Keyed(s)
    BY <1>4, <1>5, AfterIsState
<1>7. GoodTx(tx, s) /\ OfState(tx, s)
  <2> HIDE DEF s
  <2> QED
    BY <1>1, <1>6, TransactionsAre, TransactionsOfState
<1> DEFINE d == Append(chain, b)
<1>8. StateOnItsWay(d, w) /\ Knows(made.abis, AfterOf(d, Len(d)).abi) /\ Keyed(AfterOf(d, Len(d)))
    BY <1>3, <1>4, <1>5, <1>6, <1>7, NewStateOnItsWay
<1>9. w.height = n + 1
    OBVIOUS
<1> HIDE DEF w, b, s, made
<1>10. Len(d) = n + 1 /\ \A h \in 0 .. n : AfterOf(d, h) = AfterOf(chain, h)
    BY <1>4, AppendBlock
<1>11. \A v \in flying \cup {w} : StateOnItsWay(d, v)
    BY <1>4, <1>5, <1>8, StateOnItsWayKept
<1>12. StateStored(d, docs)
    BY <1>4, <1>5, StateLeftKept DEF StateStored
<1>13. StateLanded(d, flying \cup {w}, docs)
    BY <1>4, <1>5, <1>9, StateLandedKept
<1> HIDE DEF d
<1>14. \A h \in 0 .. Len(d) : Keyed(AfterOf(d, h))
  <2>1. \A h \in 0 .. Len(d) : h \in 0 .. n \/ h = Len(d)
    BY <1>4, <1>10
  <2> QED
    BY <1>5, <1>8, <1>10, <2>1
<1>15. chain' = d
    BY <1>3 DEF d
<1> QED
    BY <1>3, <1>8, <1>11, <1>12, <1>13, <1>14, <1>15 DEF SInv

LEMMA StateLandKeeps ==
    ASSUME IInv, SInv, NEW w \in flying, Land(w)
    PROVE  SInv'
<1> DEFINE items == w.items
           after == BulkResult(Opened(items), items).docs
           h == w.height
           s == Prior(chain, h)
           t == AfterOf(chain, h)
<1>1. docs' = after /\ flying' = flying \ {w} /\ chain' = chain /\ abis' = abis
    BY DEF Land
<1>2. /\ IsSeq(chain) /\ IsSeq(items) /\ Stored(docs)
      /\ \A k \in 1 .. Len(items) : IsItem(items[k]) /\ items[k].version > 0
    BY DEF IInv, ChainOK, DocsOK, FlyingOK, OnItsWay, Entry
<1>3. /\ \A v \in flying : StateOnItsWay(chain, v)
      /\ StateStored(chain, docs) /\ StateLanded(chain, flying, docs)
    BY DEF SInv
<1>4. /\ h \in 1 .. Len(chain)
      /\ \A k \in 1 .. Len(items) : OfBlock(items[k].version, h) /\ StateDoc(items[k], s, t)
      /\ \A id \in Touched(s, t) : HasId(items, id)
    BY <1>3 DEF StateOnItsWay, StateDocs
<1>5. /\ Stored(after)
      /\ DOMAIN after = DOMAIN docs \cup {items[k].id : k \in 1 .. Len(items)}
      /\ \A id \in DOMAIN after :
           \/ id \in DOMAIN docs /\ after[id] = docs[id]
           \/ \E k \in 1 .. Len(items) : items[k].id = id /\ after[id] = Leaves(items[k])
           \/ id \notin DOMAIN docs /\ after[id] = Absent
      /\ \A k \in 1 .. Len(items) : after[items[k].id].version >= items[k].version
      /\ \A id \in DOMAIN docs : after[id].version >= docs[id].version
    BY <1>2, LandingIs
<1> HIDE DEF after, items, h, s, t
<1>6. \A k \in 1 .. Len(items) : after[items[k].id] # Absent
  <2> SUFFICES ASSUME NEW k \in 1 .. Len(items)
               PROVE  after[items[k].id] # Absent
    OBVIOUS
  <2>1. items[k].version \in Nat /\ items[k].version > 0
    BY <1>2 DEF IsItem
  <2>2. Absent.version = 0
    BY DEF Absent
  <2> QED
    BY <1>5, <2>1, <2>2
<1>7. ASSUME NEW k \in 1 .. Len(items), IsStateId(items[k].id)
      PROVE  StateLeft(chain, items[k].id, Leaves(items[k]))
  <2> DEFINE item == items[k]
             doc == Leaves(item)
  <2>1. OfBlock(item.version, h) /\ item.id \in Touched(s, t)
        /\ Holds(t, item.id, item.value, item.op = "delete")
    BY <1>4, <1>7 DEF StateDoc
  <2> HIDE DEF item
  <2>2. doc.version = item.version
        /\ doc.value = IF item.op = "delete" THEN NoValue ELSE item.value
    BY DEF Leaves
  <2> HIDE DEF doc
  <2>3. CASE item.op = "delete"
    <3>1. Holds(t, item.id, doc.value, TRUE)
      BY <2>1, <2>3 DEF Holds
    <3> QED
      BY <1>4, <2>1, <2>2, <2>3, <3>1 DEF StateLeft, s, t, item, doc
  <2>4. CASE item.op # "delete"
    <3>1. Holds(t, item.id, item.value, FALSE)
      BY <2>1, <2>4
    <3>2. item.value # NoValue
      BY <3>1 DEF Holds
    <3>3. Holds(t, item.id, doc.value, doc.value = NoValue)
      BY <2>2, <2>4, <3>1, <3>2
    <3> QED
      BY <1>4, <2>1, <2>2, <3>3 DEF StateLeft, s, t, item, doc
  <2> QED
    BY <2>3, <2>4
<1>8. ASSUME NEW id \in DOMAIN after, IsStateId(id)
      PROVE  StateLeft(chain, id, after[id])
  <2>1. CASE id \in DOMAIN docs /\ after[id] = docs[id]
    BY <1>3, <1>8, <2>1 DEF StateStored
  <2>2. CASE \E k \in 1 .. Len(items) : items[k].id = id /\ after[id] = Leaves(items[k])
    BY <1>7, <1>8, <2>2
  <2>3. ~(id \notin DOMAIN docs /\ after[id] = Absent)
    BY <1>5, <1>6
  <2> QED
    BY <1>5, <2>1, <2>2, <2>3
<1>9. \A id \in DOMAIN after : after[id].version \in Nat
    BY <1>5 DEF Stored
<1>10. ASSUME NEW g \in 1 .. Len(chain), \A v \in flying \ {w} : v.height # g,
              NEW id \in Touched(Prior(chain, g), AfterOf(chain, g))
       PROVE  id \in DOMAIN after /\ after[id].version >= g * Versions
  <2> DEFINE first == g * Versions
  <2>1. first \in Nat
    <3>1. g \in Nat /\ Versions \in Nat
      BY <1>2, HistoryAssumption DEF IsSeq
    <3> QED
      BY <3>1
  <2>2. CASE h = g
    <3>1. id \in Touched(s, t)
      BY <1>10, <2>2 DEF s, t
    <3>2. PICK k \in 1 .. Len(items) : items[k].id = id
      BY <1>4, <3>1 DEF HasId
    <3>3. id \in DOMAIN after /\ after[id].version >= items[k].version
      BY <1>5, <3>2
    <3>4. first <= items[k].version
      BY <1>4, <2>2 DEF OfBlock
    <3>5. items[k].version \in Nat
      BY <1>2 DEF IsItem
    <3> HIDE DEF first
    <3>6. after[id].version >= first
      BY <1>9, <2>1, <3>3, <3>4, <3>5
    <3> QED
      BY <3>3, <3>6 DEF first
  <2>3. CASE h # g
    <3>1. \A v \in flying : v.height # g
      BY <1>10, <2>3 DEF h
    <3>2. id \in DOMAIN docs /\ docs[id].version >= first
      BY <1>3, <1>10, <3>1 DEF StateLanded, StateThere
    <3>3. id \in DOMAIN after /\ after[id].version >= docs[id].version
      BY <1>5, <3>2
    <3>4. docs[id].version \in Nat
      BY <1>2, <3>2 DEF Stored
    <3> HIDE DEF first
    <3>5. after[id].version >= first
      BY <1>9, <2>1, <3>2, <3>3, <3>4
    <3> QED
      BY <3>3, <3>5 DEF first
  <2> QED
    BY <2>2, <2>3
<1>11. StateLanded(chain, flying \ {w}, after)
    BY <1>10 DEF StateLanded, StateThere
<1>12. StateStored(chain, after)
    BY <1>8 DEF StateStored
<1>13. \A v \in flying \ {w} : StateOnItsWay(chain, v)
    BY <1>3
<1> QED
    BY <1>1, <1>11, <1>12, <1>13 DEF SInv

LEMMA StateInit == ASSUME Operated, Init PROVE SInv
<1>1. chain = <<>> /\ flying = {} /\ docs = [id \in {} |-> Absent]
    BY DEF Init
<1>2. Len(chain) = 0 /\ 1 .. 0 = {} /\ \A h \in 0 .. 0 : h = 0
    BY <1>1
<1>3. Keyed(Genesis)
  <2> DEFINE balance == [a \in Holders |-> IF a = First THEN Supply ELSE 0]
  <2>1. \A a \in Holders : balance[a] \in Nat
    BY HistoryAssumption
  <2>2. Genesis.perms = {} /\ Genesis.balance = balance
    BY DEF Genesis
  <2> HIDE DEF balance
  <2> QED
    BY <2>1, <2>2 DEF Keyed
<1>4. \A h \in 0 .. Len(chain) : Keyed(AfterOf(chain, h))
    BY <1>2, <1>3 DEF AfterOf
<1>5. Knows(abis, AfterOf(chain, Len(chain)).abi)
  <2>1. abis = [a \in {System, Token} |-> IF a = System THEN SystemAbi ELSE {}]
    BY DEF Init
  <2>2. abis = [a \in {System, Token} |-> abis[a]] /\ abis[Token] = {}
    BY <2>1 DEF Operated
  <2>3. AfterOf(chain, Len(chain)).abi = {}
    BY <1>2 DEF AfterOf, Genesis
  <2>4. Usable({}) = {}
    BY DEF Usable
  <2> QED
    BY <2>2, <2>3, <2>4 DEF Knows, IsCache
<1>6. StateStored(chain, docs)
  <2>1. DOMAIN docs = {}
    BY <1>1
  <2> QED
    BY <2>1 DEF StateStored
<1>7. StateLanded(chain, flying, docs)
    BY <1>2 DEF StateLanded
<1>8. \A w \in flying : StateOnItsWay(chain, w)
    BY <1>1
<1> QED
    BY <1>4, <1>5, <1>6, <1>7, <1>8 DEF SInv

\* The invariant of permissions and balances: each document stored, or on its
\* way, is what the block it is of left, and what a block that has landed
\* touched is no older than that block.
THEOREM StateInvariance ==
    ASSUME DataMarked, Operated
    PROVE  Spec => []SInv
<1>1. Init => SInv
    BY StateInit
<1>2. IInv /\ SInv /\ [Next]_vars => SInv'
  <2> SUFFICES ASSUME IInv, SInv, [Next]_vars
               PROVE  SInv'
    OBVIOUS
  <2> DEFINE All == UNION {Transfers(Current), Creations(Current), Updates(Current),
                           Deletions(Current), Deployments(Current), Unindexed(Current)}
  <2>0. /\ Transfers(Current) \subseteq All /\ Creations(Current) \subseteq All
        /\ Updates(Current) \subseteq All /\ Deletions(Current) \subseteq All
        /\ Deployments(Current) \subseteq All /\ Unindexed(Current) \subseteq All
    OBVIOUS
  <2>1. CASE Produce(Transfers(Current))
    BY <2>0, <2>1, StateProduceKeeps
  <2>2. CASE Produce(Creations(Current))
    BY <2>0, <2>2, StateProduceKeeps
  <2>3. CASE Produce(Updates(Current))
    BY <2>0, <2>3, StateProduceKeeps
  <2>4. CASE Produce(Deletions(Current))
    BY <2>0, <2>4, StateProduceKeeps
  <2>5. CASE Produce(Deployments(Current))
    BY <2>0, <2>5, StateProduceKeeps
  <2>6. CASE Produce(Unindexed(Current))
    BY <2>0, <2>6, StateProduceKeeps
  <2>7. CASE \E w \in flying : Land(w)
    BY <2>7, StateLandKeeps
  <2>8. CASE UNCHANGED vars
    BY <2>8 DEF vars, SInv
  <2> QED
    BY <2>1, <2>2, <2>3, <2>4, <2>5, <2>6, <2>7, <2>8 DEF Next
<1> QED
    BY <1>1, <1>2, Invariance, PTL DEF Spec

-----------------------------------------------------------------------------
(* What the invariant says of the state once everything landed.              *)

\* The blocks that touch a document.
Writers(c, id) == {h \in 1 .. Len(c) : id \in Touched(Prior(c, h), AfterOf(c, h))}

\* A document is what the last of them left.
LEMMA LastWriter ==
    ASSUME IInv, SInv, Settled, NEW id \in DOMAIN docs, IsStateId(id)
    PROVE  \E h \in Writers(chain, id) :
             /\ \A g \in Writers(chain, id) : g <= h
             /\ Holds(AfterOf(chain, h), id, docs[id].value, docs[id].value = NoValue)
<1> DEFINE n == Len(chain)
           version == docs[id].version
<1>1. n \in Nat /\ version \in Nat
    BY DEF IInv, ChainOK, IsSeq, DocsOK, Stored
<1>2. PICK h \in 1 .. n :
        /\ OfBlock(version, h)
        /\ id \in Touched(Prior(chain, h), AfterOf(chain, h))
        /\ Holds(AfterOf(chain, h), id, docs[id].value, docs[id].value = NoValue)
    BY DEF SInv, StateStored, StateLeft
<1>3. ASSUME NEW g \in Writers(chain, id)
      PROVE  g <= h
  <2>1. g \in 1 .. n /\ id \in Touched(Prior(chain, g), AfterOf(chain, g))
    BY DEF Writers
  <2>2. StateThere(chain, g, docs)
    BY <2>1 DEF SInv, StateLanded, Settled
  <2>3. version >= g * Versions
    BY <2>1, <2>2 DEF StateThere
  <2>4. version < (h + 1) * Versions
    BY <1>2 DEF OfBlock
  <2> DEFINE first == g * Versions
  <2>5. first \in Nat
    BY <1>1, <2>1, HistoryAssumption
  <2>6. g * Versions <= version
    <3> HIDE DEF first, version
    <3>1. version >= first
      BY <2>3 DEF first
    <3>2. first <= version
      BY <1>1, <2>5, <3>1
    <3> QED
      BY <3>2 DEF first
  <2>7. g \in Nat /\ h \in Nat
    BY <1>1, <2>1
  <2> HIDE DEF version, n
  <2> QED
    BY <1>1, <2>4, <2>6, <2>7, BlocksApart
<1> QED
    BY <1>2, <1>3 DEF Writers

LEMMA WrittenIsThere ==
    ASSUME SInv, Settled, NEW id, NEW h \in Writers(chain, id)
    PROVE  id \in DOMAIN docs
BY DEF Writers, SInv, StateLanded, StateThere, Settled

\* The permission of an id stays what it is while no block touches it.
PermsOf(s, id) == {p \in s.perms : PermId(p) = id}

LEMMA PermsUntouched ==
    ASSUME NEW c, IsSeq(c), NEW id, NEW h \in 0 .. Len(c),
           \A g \in Writers(c, id) : g <= h
    PROVE  PermsOf(AfterOf(c, Len(c)), id) = PermsOf(AfterOf(c, h), id)
<1> DEFINE n == Len(c)
           T == {k \in Nat : h + k <= n => PermsOf(AfterOf(c, h + k), id) = PermsOf(AfterOf(c, h), id)}
<1>1. n \in Nat /\ h \in Nat /\ h <= n
    BY DEF IsSeq
<1>2. 0 \in T
    BY <1>1
<1>3. ASSUME NEW k \in Nat, k \in T PROVE k + 1 \in T
  <2> SUFFICES ASSUME h + (k + 1) <= n
               PROVE  PermsOf(AfterOf(c, h + (k + 1)), id) = PermsOf(AfterOf(c, h), id)
    OBVIOUS
  <2> DEFINE g == h + (k + 1)
  <2>1. g \in 1 .. n /\ ~(g <= h) /\ g - 1 = h + k /\ h + k <= n
    BY <1>1
  <2>2. PermsOf(AfterOf(c, h + k), id) = PermsOf(AfterOf(c, h), id)
    BY <1>3, <2>1
  <2>3. id \notin Touched(AfterOf(c, h + k), AfterOf(c, g))
    <3> HIDE DEF g
    <3> QED
      BY <2>1 DEF Writers, Prior
  <2> HIDE DEF g
  <2>4. PermsOf(AfterOf(c, h + k), id) = PermsOf(AfterOf(c, g), id)
    BY <2>3 DEF Touched, PermsOf
  <2> QED
    BY <2>2, <2>4 DEF g
<1> HIDE DEF T
<1>4. n - h \in T
  <2>1. n - h \in Nat
    BY <1>1
  <2> QED
    BY <1>2, <1>3, <2>1, Induction
<1>5. h + (n - h) = n /\ h + (n - h) <= n
    BY <1>1
<1> QED
    BY <1>4, <1>5 DEF T

LEMMA PermsStored ==
    ASSUME IInv, SInv, Settled
    PROVE  /\ LiveDocs("perm") = Current.perms
           /\ \A id \in DocsOf("perm") : id[2] = <<docs[id].value.owner, docs[id].value.name>>
<1> DEFINE n == Len(chain)
           t == AfterOf(chain, n)
<1>1. Current = t
    BY DEF Current, After, AfterOf
<1>2. IsSeq(chain) /\ n \in Nat
    BY DEF IInv, ChainOK, IsSeq
<1>3. Keyed(t)
    BY <1>2 DEF SInv
<1>4. \A id : id \in DocsOf("perm") <=>
                id \in DOMAIN docs /\ id[1] = "perm" /\ docs[id].value # NoValue
    BY DEF DocsOf, Ids, Live
<1> HIDE DEF t
\* The document of an id is what the chain has under it.
<1>5. ASSUME NEW id \in DOMAIN docs, id[1] = "perm"
      PROVE  IF docs[id].value = NoValue THEN PermsOf(t, id) = {}
             ELSE docs[id].value \in PermsOf(t, id)
  <2>1. PICK h \in Writers(chain, id) :
          /\ \A g \in Writers(chain, id) : g <= h
          /\ Holds(AfterOf(chain, h), id, docs[id].value, docs[id].value = NoValue)
    BY <1>5, LastWriter DEF IsStateId
  <2>2. h \in 0 .. n
    BY <1>2 DEF Writers
  <2>3. PermsOf(t, id) = PermsOf(AfterOf(chain, h), id)
    BY <1>2, <2>1, <2>2, PermsUntouched DEF t
  <2> QED
    BY <1>5, <2>1, <2>3 DEF Holds, PermsOf
<1>6. ASSUME NEW p \in t.perms
      PROVE  PermId(p) \in DocsOf("perm") /\ docs[PermId(p)].value = p
  <2> DEFINE id == PermId(p)
  <2>0. p \in PermsOf(t, id) /\ id[1] = "perm"
    BY DEF PermsOf, PermId
  <2> HIDE DEF id
  <2>1. id \in DOMAIN docs
    <3>1. CASE Writers(chain, id) = {}
      <4>1. 0 \in 0 .. n
        BY <1>2
      <4>2. PermsOf(t, id) = PermsOf(Genesis, id)
        BY <1>2, <3>1, <4>1, PermsUntouched DEF AfterOf, t
      <4>3. PermsOf(Genesis, id) = {}
        BY DEF PermsOf, Genesis
      <4> QED
        BY <2>0, <4>2, <4>3
    <3>2. CASE Writers(chain, id) # {}
      BY <3>2, WrittenIsThere
    <3> QED
      BY <3>1, <3>2
  <2>2. docs[id].value # NoValue /\ docs[id].value \in PermsOf(t, id)
    BY <1>5, <2>0, <2>1
  <2>3. docs[id].value = p
    BY <1>3, <2>0, <2>2 DEF PermsOf, Keyed
  <2> QED
    BY <1>4, <2>0, <2>1, <2>2, <2>3 DEF id
<1>7. \A id \in DocsOf("perm") : docs[id].value \in t.perms /\ PermId(docs[id].value) = id
    BY <1>4, <1>5 DEF PermsOf
<1>8. LiveDocs("perm") = t.perms
    BY <1>6, <1>7 DEF LiveDocs
<1>9. \A id \in DocsOf("perm") : id[2] = <<docs[id].value.owner, docs[id].value.name>>
    BY <1>7 DEF PermId
<1> QED
    BY <1>1, <1>8, <1>9

\* What the documents show of a balance was written by the block that
\* TokenSeen names.
LEMMA TokenWriters ==
    ASSUME IInv, NEW a \in Holders
    PROVE  LET hs == Writers(chain, TokenId(a)) IN
           TokenSeen(a) = IF hs = {} THEN 0 ELSE AfterOf(chain, Max(hs)).balance[a]
<1> DEFINE hs == Writers(chain, TokenId(a))
           seen == {h \in DOMAIN chain : /\ After(h).balance[a] # After(h - 1).balance[a]
                                         /\ "accounts" \in Usable(After(h).abi)}
<1>1. DOMAIN chain = 1 .. Len(chain)
    BY DEF IInv, ChainOK, IsSeq
<1>2. \A h : After(h) = AfterOf(chain, h)
    BY DEF After, AfterOf
<1>3. \A p : PermId(p) # TokenId(a)
    BY DEF PermId, TokenId
<1>4. \A b : TokenId(b) = TokenId(a) => b = a
    BY DEF TokenId
<1>5. \A s, t : TokenId(a) \in Touched(s, t) <=> s.balance[a] # t.balance[a] /\ ShowsTable(t)
    BY <1>3, <1>4 DEF Touched
<1>6. \A h \in DOMAIN chain : h \in seen <=> h \in hs
    BY <1>1, <1>2, <1>5 DEF Writers, Prior, ShowsTable
<1>7. seen \subseteq DOMAIN chain /\ hs \subseteq DOMAIN chain
    BY <1>1 DEF Writers
<1>8. TokenSeen(a) = IF seen = {} THEN 0 ELSE After(Max(seen)).balance[a]
    BY DEF TokenSeen
<1> HIDE DEF hs, seen
<1>9. seen = hs
    BY <1>6, <1>7
<1> QED
    BY <1>2, <1>8, <1>9 DEF hs

LEMMA TokensStored ==
    ASSUME IInv, SInv, Settled, NEW a \in Holders
    PROVE  IF TokenSeen(a) = 0 THEN TokensOf(a) = {}
           ELSE \E id \in TokensOf(a) : TokensOf(a) = {id} /\ docs[id].value.amount = TokenSeen(a)
<1> DEFINE id == TokenId(a)
           hs == Writers(chain, id)
           value == docs[id].value
           shown == AfterOf(chain, Max(hs)).balance[a]
<1>1. TokenSeen(a) = IF hs = {} THEN 0 ELSE shown
    BY TokenWriters
<1>2. \A i : i \in TokensOf(a) <=> /\ i \in DOMAIN docs /\ i[1] = "token"
                                   /\ docs[i].value # NoValue /\ docs[i].value.scope = a
    BY DEF TokensOf, DocsOf, Ids, Live
<1>3. IsStateId(id) /\ id[1] = "token" /\ \A b : id = TokenId(b) => b = a
    BY DEF IsStateId, TokenId
<1> HIDE DEF id, hs, value, shown
\* No other document shows a.
<1>4. ASSUME NEW i \in TokensOf(a)
      PROVE  i = id
  <2>1. i \in DOMAIN docs /\ i[1] = "token" /\ docs[i].value # NoValue /\ docs[i].value.scope = a
    BY <1>2
  <2>2. \E h \in Writers(chain, i) :
          Holds(AfterOf(chain, h), i, docs[i].value, docs[i].value = NoValue)
    BY <2>1, LastWriter DEF IsStateId
  <2>3. \E b \in Holders : i = TokenId(b) /\ docs[i].value.scope = b
    BY <2>1, <2>2 DEF Holds
  <2> QED
    BY <2>1, <2>3 DEF id
\* The document of a is what the last block that touched it left.
<1>5. ASSUME id \in DOMAIN docs
      PROVE  /\ hs # {}
             /\ IF value = NoValue THEN shown = 0
                ELSE shown > 0 /\ value.scope = a /\ value.amount = shown
  <2>1. PICK h \in hs : /\ \A g \in hs : g <= h
                        /\ Holds(AfterOf(chain, h), id, value, value = NoValue)
    BY <1>3, <1>5, LastWriter DEF hs, value
  <2>2. \A g \in hs : g \in Int
    BY DEF hs, Writers
  <2>3. h \in hs /\ \A g \in hs : h >= g
    BY <2>1, <2>2
  <2>4. Max(hs) \in hs /\ \A g \in hs : Max(hs) >= g
    BY <2>3 DEF Max
  <2>5. Max(hs) = h
    BY <2>2, <2>3, <2>4
  <2>6. IF value = NoValue THEN AfterOf(chain, h).balance[a] = 0
        ELSE /\ AfterOf(chain, h).balance[a] > 0 /\ value.scope = a
             /\ value.amount = AfterOf(chain, h).balance[a]
    BY <1>3, <2>1 DEF Holds
  <2> QED
    BY <2>1, <2>5, <2>6 DEF shown
<1>6. hs # {} => id \in DOMAIN docs
    BY WrittenIsThere DEF hs
<1>7. CASE id \in DOMAIN docs /\ value # NoValue
  <2>1. TokenSeen(a) = shown /\ shown > 0 /\ value.scope = a /\ value.amount = shown
    BY <1>1, <1>5, <1>7
  <2>2. shown # 0
    BY <2>1
  <2>3. id \in TokensOf(a)
    BY <1>2, <1>3, <1>7, <2>1 DEF value
  <2>4. TokensOf(a) = {id}
    BY <1>4, <2>3
  <2> QED
    BY <2>1, <2>2, <2>3, <2>4 DEF value
<1>8. CASE ~(id \in DOMAIN docs /\ value # NoValue)
  <2>1. TokenSeen(a) = 0
    BY <1>1, <1>5, <1>6, <1>8
  <2>2. id \notin TokensOf(a)
    BY <1>2, <1>8 DEF value
  <2>3. TokensOf(a) = {}
    BY <1>4, <2>2
  <2> QED
    BY <2>1, <2>3
<1> QED
    BY <1>7, <1>8

\* Whatever order the blocks of a window landed in, the permissions stored in
\* the end are those of the chain's last block, each under its owner and name,
\* and every holder has the one token document that the chain last had a
\* reason to write, if no operator skips setabi.
THEOREM StateSafety ==
    ASSUME DataMarked, Operated
    PROVE  Spec => []StateExact
<1>1. IInv /\ SInv => StateExact
    BY PermsStored, TokensStored DEF StateExact
<1> QED
    BY <1>1, Invariance, StateInvariance, PTL
-----------------------------------------------------------------------------
(* Walking the pages of get_actions.                                         *)

\* The documents of M as a query by sequence finds them.
Sequence(d, M) == [id \in M |-> d[id].value.global_sequence]
BySequence(dir) == [dir |-> dir, field |-> "global_sequence"]
Order(d, M, dir) == Ordered(M, [id \in M |-> Rank(d[id].value, BySequence(dir))])
Hits(d, M, dir) == [k \in DOMAIN Order(d, M, dir) |-> d[Order(d, M, dir)[k]].value]

\* Documents that have sequences of their own.
Sequenced(d, M) ==
    /\ IsFiniteSet(M)
    /\ \A id \in M : d[id].value.global_sequence \in Int
    /\ \A id \in M : \A j \in M :
         d[id].value.global_sequence = d[j].value.global_sequence => id = j

LEMMA AscendingIs ==
    ASSUME NEW d, NEW M, Sequenced(d, M)
    PROVE  /\ Enumerates(Order(d, M, "asc"), M, Sequence(d, M))
           /\ Hits(d, M, "asc") = [k \in 1 .. Len(Order(d, M, "asc")) |->
                                      d[Order(d, M, "asc")[k]].value]
           /\ Hits(d, M, "asc") \in Seq({d[id].value : id \in M})
           /\ Len(Hits(d, M, "asc")) = Len(Order(d, M, "asc"))
           /\ Len(Hits(d, M, "asc")) = Cardinality(M)
<1> DEFINE key == [id \in M |-> Rank(d[id].value, BySequence("asc"))]
           e == Order(d, M, "asc")
           hits == Hits(d, M, "asc")
           S == {d[id].value : id \in M}
<1>1. \A id \in M : key[id] = d[id].value.global_sequence
    BY DEF Rank, BySequence
<1>2. e = Ordered(M, key)
    BY DEF Order
<1> HIDE DEF key
<1>3. \A id \in M : key[id] \in Int
    BY <1>1 DEF Sequenced
<1>4. Enumerates(e, M, key)
    BY <1>2, <1>3, OrderedEnumerates DEF Sequenced
<1>5. \A id \in M : key[id] = Sequence(d, M)[id]
    BY <1>1 DEF Sequence
<1>6. Enumerates(e, M, Sequence(d, M))
    BY <1>4, <1>5, SameKeys
<1>7. hits = [k \in DOMAIN e |-> d[e[k]].value]
    BY DEF Hits
<1> HIDE DEF e, hits
<1>8. Len(e) \in Nat /\ DOMAIN e = 1 .. Len(e) /\ \A k \in 1 .. Len(e) : e[k] \in M
    BY <1>6 DEF Enumerates, IsSeq
<1>9. hits = [k \in 1 .. Len(e) |-> hits[k]] /\ \A k \in 1 .. Len(e) : hits[k] \in S
    BY <1>7, <1>8
<1>10. IsSeq(hits) /\ Len(hits) = Len(e)
    BY <1>8, <1>9, MadeSeq
<1> HIDE DEF S
<1>11. hits \in Seq(S)
    BY <1>9, <1>10, SeqOver
<1>12. Cardinality(M) = Len(e)
    BY <1>6, CountIs
<1> QED
    BY <1>6, <1>7, <1>8, <1>10, <1>11, <1>12 DEF e, hits, S

LEMMA DescendingIs ==
    ASSUME NEW d, NEW M, Sequenced(d, M)
    PROVE  Hits(d, M, "desc") = Reverse(Hits(d, M, "asc"))
<1> DEFINE key == [id \in M |-> Rank(d[id].value, BySequence("desc"))]
           a == Order(d, M, "asc")
           e == Order(d, M, "desc")
           n == Len(e)
           f == [k \in 1 .. n |-> e[(n - k) + 1]]
           s == Sequence(d, M)
           up == Hits(d, M, "asc")
           down == Hits(d, M, "desc")
<1>1. \A id \in M : key[id] = -d[id].value.global_sequence
    BY DEF Rank, BySequence
<1>2. e = Ordered(M, key)
    BY DEF Order
<1>3. \A id \in M : s[id] = d[id].value.global_sequence
    BY DEF Sequence
<1>4. /\ \A id \in M : s[id] \in Int
      /\ \A id \in M : \A j \in M : s[id] = s[j] => id = j
    BY <1>3 DEF Sequenced
<1> HIDE DEF key, s
<1>5. \A id \in M : key[id] = -s[id]
    BY <1>1, <1>3
<1>6. \A id \in M : key[id] \in Int
    BY <1>4, <1>5
<1>7. Enumerates(e, M, key)
    BY <1>2, <1>6, OrderedEnumerates DEF Sequenced
<1>8. down = [k \in DOMAIN e |-> d[e[k]].value]
    BY DEF Hits
<1>9. Enumerates(a, M, s)
    BY AscendingIs DEF s
<1>10. up = [k \in 1 .. Len(a) |-> d[a[k]].value] /\ Len(up) = Len(a)
    BY AscendingIs
<1> HIDE DEF a, e, up, down
<1>11. /\ n \in Nat /\ DOMAIN e = 1 .. n
       /\ \A k \in 1 .. n : e[k] \in M
       /\ \A x \in M : \E k \in 1 .. n : e[k] = x
       /\ \A i \in 1 .. n : \A j \in 1 .. n : i < j => e[i] # e[j] /\ key[e[i]] <= key[e[j]]
    BY <1>7 DEF Enumerates, IsSeq
<1>12. f = [k \in 1 .. n |-> f[k]] /\ \A k \in 1 .. n : f[k] = e[(n - k) + 1]
    OBVIOUS
<1> HIDE DEF f, n
<1>13. IsSeq(f) /\ Len(f) = n
    BY <1>11, <1>12, MadeSeq
<1>14. \A k \in 1 .. n : (n - k) + 1 \in 1 .. n /\ (n - ((n - k) + 1)) + 1 = k
    BY <1>11
<1>15. \A k \in 1 .. n : f[k] \in M
    BY <1>11, <1>12, <1>14
<1>16. ASSUME NEW x \in M PROVE \E k \in 1 .. n : f[k] = x
  <2>1. PICK k \in 1 .. n : e[k] = x
    BY <1>11
  <2>2. (n - k) + 1 \in 1 .. n /\ f[(n - k) + 1] = e[(n - ((n - k) + 1)) + 1]
    BY <1>12, <1>14
  <2> QED
    BY <1>14, <2>1, <2>2
<1>17. ASSUME NEW i \in 1 .. n, NEW j \in 1 .. n, i < j
       PROVE  f[i] # f[j] /\ s[f[i]] <= s[f[j]]
  <2> DEFINE p == (n - j) + 1
             q == (n - i) + 1
  <2>1. p \in 1 .. n /\ q \in 1 .. n /\ p < q /\ f[i] = e[q] /\ f[j] = e[p]
    BY <1>11, <1>12, <1>14, <1>17
  <2>2. e[p] # e[q] /\ key[e[p]] <= key[e[q]] /\ e[p] \in M /\ e[q] \in M
    BY <1>11, <2>1
  <2>3. key[e[p]] = -s[e[p]] /\ key[e[q]] = -s[e[q]] /\ s[e[p]] \in Int /\ s[e[q]] \in Int
    BY <1>4, <1>5, <2>2
  <2> HIDE DEF p, q
  <2>4. s[e[q]] <= s[e[p]]
    BY <2>2, <2>3
  <2> QED
    BY <2>1, <2>2, <2>4
<1>18. Enumerates(f, M, s)
    BY <1>13, <1>15, <1>16, <1>17 DEF Enumerates
<1>19. a = f
    BY <1>4, <1>9, <1>18, OneOrder
<1>20. Len(a) = n
    BY <1>13, <1>19
<1>21. ASSUME NEW k \in 1 .. n PROVE down[k] = up[(n - k) + 1]
  <2>1. up[(n - k) + 1] = d[a[(n - k) + 1]].value
    BY <1>10, <1>14, <1>20
  <2>2. a[(n - k) + 1] = e[k]
    BY <1>12, <1>14, <1>19
  <2>3. down[k] = d[e[k]].value
    BY <1>8, <1>11
  <2> QED
    BY <2>1, <2>2, <2>3
<1>22. down = [k \in 1 .. n |-> up[(n - k) + 1]]
  <2>1. down = [k \in 1 .. n |-> down[k]]
    BY <1>8, <1>11
  <2> QED
    BY <1>21, <2>1
<1>23. Reverse(up) = [k \in 1 .. n |-> up[(n - k) + 1]]
    BY <1>10, <1>20 DEF Reverse
<1> QED
    BY <1>22, <1>23 DEF up, down

LEMMA SearchIs ==
    ASSUME NEW d, NEW M, NEW dir \in {"asc", "desc"}, NEW from, NEW size
    PROVE  Search(d, M, IF dir = "asc" THEN Asc("global_sequence") ELSE Desc("global_sequence"),
                  from, size) = Page(Hits(d, M, dir), from, size)
BY DEF Search, Asc, Desc, Hits, Order, BySequence

LEMMA GetActionsIs ==
    ASSUME NEW d, NEW a, NEW skip, NEW limit \in 0 .. MaxLimit, NEW dir \in {"asc", "desc"}
    PROVE  GetActions(d, Params(a, skip, limit, dir)) = Page(Hits(d, Notified(d, a), dir), skip, limit)
<1> DEFINE p == Params(a, skip, limit, dir)
           M == Notified(d, a)
<1>1. /\ p.account = a /\ p.filter = Wild /\ p.after = Wild /\ p.before = Wild
      /\ p.skip = skip /\ p.limit = limit /\ p.sort = dir
    BY DEF Params
<1>2. {id \in M : InFilter(p.filter, d[id].value) /\ InRange(d[id].value, p)} = M
    BY <1>1 DEF InFilter, InRange
<1>3. ClampLimit(limit) = limit
    BY QueriesAssumption DEF ClampLimit
<1> HIDE DEF p, M
<1>4. GetActions(d, p) = Search(d, M, IF dir = "asc" THEN Asc("global_sequence")
                                                    ELSE Desc("global_sequence"), skip, limit)
    BY <1>1, <1>2, <1>3 DEF GetActions, M
<1> QED
    BY <1>4, SearchIs DEF p, M

\* A walk gives what a query without pages would.
LEMMA WalkIs ==
    ASSUME NEW d, IsFiniteSet(Ids(d, "action")), NEW a, Sequenced(d, Notified(d, a)),
           NEW limit \in 1 .. MaxLimit, NEW dir \in {"asc", "desc"}
    PROVE  Walk(d, a, limit, dir) = Hits(d, Notified(d, a), dir)
<1> DEFINE M == Notified(d, a)
           N == Cardinality(Ids(d, "action"))
           S == {d[id].value : id \in M}
           hits == Hits(d, M, dir)
<1>1. N \in Nat /\ limit \in Nat /\ limit > 0 /\ limit \in 0 .. MaxLimit
    BY FS_CardinalityType, QueriesAssumption
<1>2. M \in SUBSET Ids(d, "action")
    BY DEF Notified
<1>3. Cardinality(M) <= N /\ Cardinality(M) \in Nat
    BY <1>2, FS_Subset, FS_CardinalityType
<1>4. hits \in Seq(S) /\ Len(hits) = Cardinality(M)
  <2>1. Hits(d, M, "asc") \in Seq(S) /\ Len(Hits(d, M, "asc")) = Cardinality(M)
    BY AscendingIs
  <2>2. Hits(d, M, "desc") = Reverse(Hits(d, M, "asc"))
    BY DescendingIs
  <2> DEFINE up == Hits(d, M, "asc")
             down == Reverse(up)
  <2>3. down = [k \in 1 .. Len(up) |-> up[(Len(up) - k) + 1]]
    BY DEF Reverse
  <2>4. Len(up) \in Nat /\ \A k \in 1 .. Len(up) : up[k] \in S
    BY <2>1, LenProperties, ElementOfSeq
  <2> HIDE DEF up, down, S
  <2>5. down = [k \in 1 .. Len(up) |-> down[k]] /\ \A k \in 1 .. Len(up) : down[k] \in S
    <3>1. \A k \in 1 .. Len(up) : (Len(up) - k) + 1 \in 1 .. Len(up)
      BY <2>4
    <3> QED
      BY <2>3, <2>4, <3>1
  <2>6. IsSeq(down) /\ Len(down) = Len(up)
    BY <2>4, <2>5, MadeSeq
  <2>7. down \in Seq(S)
    BY <2>5, <2>6, SeqOver
  <2> QED
    BY <2>1, <2>2, <2>6, <2>7 DEF up, down
<1>5. Walk(d, a, limit, dir) = FlattenSeq([n \in 1 .. N |-> Page(hits, (n - 1) * limit, limit)])
  <2>1. \A n \in 1 .. N : GetActions(d, Params(a, (n - 1) * limit, limit, dir))
                              = Page(hits, (n - 1) * limit, limit)
    BY <1>1, GetActionsIs
  <2> QED
    BY <2>1 DEF Walk
<1> HIDE DEF hits, S, M, N
<1>6. Walk(d, a, limit, dir)
        = SubSeq(hits, 1, IF N * limit < Len(hits) THEN N * limit ELSE Len(hits))
    BY <1>1, <1>4, <1>5, PagesAre
<1>7. ~(N * limit < Len(hits))
  <2>1. N * limit >= N
    BY <1>1
  <2> QED
    BY <1>1, <1>3, <1>4, <2>1
<1>8. SubSeq(hits, 1, Len(hits)) = hits
    BY <1>4, SubSeqFull
<1> QED
    BY <1>6, <1>7, <1>8 DEF hits, M
-----------------------------------------------------------------------------
(* The order of stored actions.                                              *)

\* The sequences of a block are between those of its neighbours.
LEMMA SequenceIn ==
    ASSUME NEW c, ChainOK(c), Growing(c), NEW h \in 1 .. Len(c), NEW x, Ran(c, h, x)
    PROVE  /\ x.sequence \in Nat
           /\ AfterOf(c, h - 1).sequence < x.sequence /\ x.sequence <= AfterOf(c, h).sequence
<1> DEFINE S(j) == AfterOf(c, j).sequence
           n == Len(c[h].traces)
<1>1. Len(c) \in Nat /\ h - 1 \in 0 .. Len(c) /\ h \in 0 .. Len(c)
    BY DEF ChainOK, IsSeq
<1>2. S(h - 1) \in Nat /\ S(h) \in Nat
    BY <1>1, AfterIsState
<1>3. /\ IsSeq(c[h].traces) /\ S(h) = S(h - 1) + n
      /\ \A k \in 1 .. n : c[h].traces[k].sequence = S(h - 1) + k
    BY DEF ChainOK
<1>4. PICK k \in 1 .. n : x = c[h].traces[k]
    BY DEF Ran
<1>5. n \in Nat /\ x.sequence = S(h - 1) + k
    BY <1>3, <1>4 DEF IsSeq
<1> HIDE DEF S, n
<1>6. k \in Nat /\ 0 < k /\ k <= n
    BY <1>5
<1>7. x.sequence \in Nat /\ S(h - 1) < x.sequence /\ x.sequence <= S(h)
    BY <1>2, <1>3, <1>5, <1>6
<1> QED
    BY <1>7 DEF S

LEMMA LaterBlock ==
    ASSUME NEW c, ChainOK(c), Growing(c), NEW h \in 1 .. Len(c), NEW i \in 1 .. Len(c), h < i,
           NEW x, NEW y, Ran(c, h, x), Ran(c, i, y)
    PROVE  x.sequence < y.sequence
<1> DEFINE S(j) == AfterOf(c, j).sequence
<1>1. Len(c) \in Nat /\ h \in 0 .. i - 1 /\ i - 1 \in 0 .. Len(c)
    BY DEF ChainOK, IsSeq
<1>2. S(h) <= S(i - 1)
    BY <1>1 DEF Growing
<1>3. S(h) \in Nat /\ S(i - 1) \in Nat
    BY <1>1, AfterIsState
<1>4. x.sequence \in Nat /\ x.sequence <= S(h) /\ y.sequence \in Nat /\ S(i - 1) < y.sequence
    BY SequenceIn
<1> HIDE DEF S
<1> QED
    BY <1>2, <1>3, <1>4

\* The sequence of a document is that of its first receipt of its own.
LEMMA SequenceTold ==
    ASSUME NEW c, ChainOK(c), NEW id, NEW doc, NEW h, NEW g, Known(c, id, doc, h, g)
    PROVE  /\ h \in 1 .. Len(c) /\ g \in 1 .. Len(Groups(At(c, h)))
           /\ doc.global_sequence = Primary(Groups(At(c, h))[g]).sequence
           /\ id = <<"action", doc.global_sequence>>
           /\ doc.block_num = h
           /\ Ran(c, h, Primary(Groups(At(c, h))[g]))
<1> DEFINE G == Groups(At(c, h))[g]
           at == At(c, h)
<1>1. h \in 1 .. Len(c) /\ g \in 1 .. Len(Groups(At(c, h)))
    BY DEF Known
<1>2. Tells(c, id, doc, h, g)
    BY KnownIs
<1>3. doc = ActionDoc(h, at, G, doc.data) /\ id = <<"action", Primary(G).sequence>>
      /\ doc.block_num = h
    BY <1>2 DEF Tells
<1>4. Ran(c, h, Primary(G))
    BY <1>1, GroupIs DEF GroupOf
<1> HIDE DEF G, at
<1>5. \A data : ActionDoc(h, at, G, data).global_sequence = Primary(G).sequence
    BY DEF ActionDoc
<1>6. doc.global_sequence = Primary(G).sequence
  <2> DEFINE data == doc.data
  <2>1. doc = ActionDoc(h, at, G, data)
    BY <1>3
  <2> HIDE DEF data
  <2> QED
    BY <1>5, <2>1
<1> QED
    BY <1>1, <1>3, <1>4, <1>6 DEF G

LEMMA ActionsStored ==
    ASSUME NEW c, ChainOK(c), Growing(c), NEW d, DocsOK(c, d)
    PROVE  /\ IsFiniteSet(Ids(d, "action"))
           /\ \A id \in Ids(d, "action") : \E h, g : Known(c, id, d[id].value, h, g)
           /\ \A M \in SUBSET Ids(d, "action") : Sequenced(d, M)
<1> DEFINE I == Ids(d, "action")
           n == AfterOf(c, Len(c)).sequence
           J == {<<"action", q>> : q \in 0 .. n}
<1>1. \A id \in I : \E h, g : Known(c, id, d[id].value, h, g)
  <2> SUFFICES ASSUME NEW id \in I PROVE \E h, g : Known(c, id, d[id].value, h, g)
    OBVIOUS
  <2>1. id[1] = "action" /\ Left(c, id, d[id])
    BY DEF Ids, DocsOK
  <2> QED
    BY <2>1, ActionIsKnown
<1>2. Len(c) \in Nat /\ Len(c) \in 0 .. Len(c)
    BY DEF ChainOK, IsSeq
<1>3. n \in Nat
    BY <1>2, AfterIsState
<1>4. ASSUME NEW id \in I
      PROVE  /\ d[id].value.global_sequence \in 0 .. n
             /\ id = <<"action", d[id].value.global_sequence>>
  <2> DEFINE doc == d[id].value
  <2>1. PICK h, g : Known(c, id, doc, h, g)
    BY <1>1
  <2> DEFINE p == Primary(Groups(At(c, h))[g])
  <2>2. h \in 1 .. Len(c) /\ Ran(c, h, p) /\ doc.global_sequence = p.sequence
        /\ id = <<"action", doc.global_sequence>>
    BY <2>1, SequenceTold
  <2> HIDE DEF p, doc
  <2>3. p.sequence \in Nat /\ p.sequence <= AfterOf(c, h).sequence
    BY <2>2, SequenceIn
  <2>4. h \in 0 .. Len(c)
    BY <1>2, <2>2
  <2>5. AfterOf(c, h).sequence <= n /\ AfterOf(c, h).sequence \in Nat
    BY <1>2, <2>4, AfterIsState DEF Growing
  <2>6. doc.global_sequence \in 0 .. n
    BY <1>3, <2>2, <2>3, <2>5
  <2> QED
    BY <2>2, <2>6 DEF doc
<1> HIDE DEF n, I
<1>5. IsFiniteSet(J)
  <2>1. IsFiniteSet(0 .. n)
    BY <1>3, FS_Interval
  <2> DEFINE f == [q \in 0 .. n |-> <<"action", q>>]
  <2>2. J = {f[q] : q \in 0 .. n}
    OBVIOUS
  <2> HIDE DEF f, J
  <2> QED
    BY <2>1, <2>2, FiniteImage
<1>6. I \subseteq J
    BY <1>4
<1>7. IsFiniteSet(I)
    BY <1>5, <1>6, FS_Subset
<1>8. ASSUME NEW M \in SUBSET I PROVE Sequenced(d, M)
  <2>1. IsFiniteSet(M)
    BY <1>7, FS_Subset
  <2>2. \A id \in M : d[id].value.global_sequence \in Int
    BY <1>3, <1>4
  <2>3. \A id \in M : \A j \in M :
          d[id].value.global_sequence = d[j].value.global_sequence => id = j
    BY <1>4
  <2> QED
    BY <2>1, <2>2, <2>3 DEF Sequenced
<1> QED
    BY <1>1, <1>7, <1>8 DEF I
-----------------------------------------------------------------------------
(* Pages while blocks land in their order.                                   *)

LEMMA StepLands ==
    ASSUME [Next]_vars, NEW w \in flying, flying' = flying \ {w}
    PROVE  Land(w)
<1>1. ASSUME NEW txs, Produce(txs) PROVE FALSE
  <2>1. \E v : flying' = flying \cup {v}
    BY <1>1 DEF Produce
  <2> QED
    BY <2>1
<1>2. ASSUME NEW v \in flying, Land(v) PROVE v = w
  <2>1. flying' = flying \ {v}
    BY <1>2 DEF Land
  <2> QED
    BY <2>1
<1>3. ~UNCHANGED vars
  <2>1. UNCHANGED vars => flying' = flying
    BY DEF vars
  <2> QED
    BY <2>1
<1> QED
  <2>1. Next
    BY <1>3
  <2>2. PICK v \in flying : Land(v)
    BY <1>1, <2>1 DEF Next
  <2> QED
    BY <1>2, <2>2

\* A block that lands after those below it adds its actions, and leaves those
\* that are stored.
LEMMA ActionsLand ==
    ASSUME IInv, NEW w \in flying, Land(w), SettledBelow
    PROVE  /\ \A id \in Ids(docs, "action") :
                /\ id \in Ids(docs', "action") /\ docs'[id] = docs[id]
                /\ docs[id].value.block_num < w.height
           /\ \A id \in Ids(docs', "action") \ Ids(docs, "action") :
                \E g : Known(chain, id, docs'[id].value, w.height, g)
<1> DEFINE items == w.items
           after == BulkResult(Opened(items), items).docs
           h == w.height
<1>1. ChainOK(chain) /\ Growing(chain) /\ FlyingOK(chain, flying) /\ DocsOK(chain, docs)
    BY DEF IInv
<1>2. /\ h \in 1 .. Len(chain) /\ IsSeq(items)
      /\ \A k \in 1 .. Len(items) :
           /\ IsItem(items[k])
           /\ Entry(chain, items[k].id, items[k].value, items[k].op = "delete", items[k].version)
           /\ items[k].version \div Versions = h
    BY <1>1 DEF FlyingOK, OnItsWay
<1>3. Stored(docs)
    BY <1>1 DEF DocsOK
<1>4. /\ DOMAIN after = DOMAIN docs \cup {items[k].id : k \in 1 .. Len(items)}
      /\ \A id \in DOMAIN after :
           \/ id \in DOMAIN docs /\ after[id] = docs[id]
           \/ \E k \in 1 .. Len(items) : items[k].id = id /\ after[id] = Leaves(items[k])
           \/ id \notin DOMAIN docs /\ after[id] = Absent
    BY <1>2, <1>3, LandingIs
<1>5. docs' = after
    BY DEF Land
<1> HIDE DEF after, items, h
\* What the request writes of an action is of a group of its block.
<1>6. ASSUME NEW k \in 1 .. Len(items), items[k].id[1] = "action"
      PROVE  \E g : Known(chain, items[k].id, Leaves(items[k]).value, h, g)
  <2>1. items[k].op # "delete" /\ Says(items[k].id, items[k].value, h, AfterOf(chain, h), At(chain, h))
    BY <1>2, <1>6 DEF Entry
  <2>2. Leaves(items[k]).value = items[k].value
    BY <2>1 DEF Leaves
  <2>3. PICK g \in 1 .. Len(Groups(At(chain, h))) :
          OfGroup(items[k].id, items[k].value, h, At(chain, h), Groups(At(chain, h))[g])
    BY <1>6, <2>1 DEF Says
  <2>4. Known(chain, items[k].id, items[k].value, h, g)
    BY <1>2, <2>3 DEF Known
  <2> QED
    BY <2>2, <2>4
<1>7. ASSUME NEW id \in Ids(docs, "action")
      PROVE  /\ docs[id].value.block_num < h
             /\ \A k \in 1 .. Len(items) : items[k].id # id
  <2>1. docs[id].value.block_num < h
    BY DEF SettledBelow, DocsOf, h
  <2>2. PICK i, m : Known(chain, id, docs[id].value, i, m)
    BY <1>1, ActionsStored
  <2> DEFINE p == Primary(Groups(At(chain, i))[m])
  <2>3. i \in 1 .. Len(chain) /\ Ran(chain, i, p) /\ docs[id].value.block_num = i
        /\ docs[id].value.global_sequence = p.sequence
        /\ id = <<"action", p.sequence>>
    BY <1>1, <2>2, SequenceTold
  <2> HIDE DEF p
  <2>4. ASSUME NEW k \in 1 .. Len(items), items[k].id = id PROVE FALSE
    <3>1. items[k].id[1] = "action"
      BY <2>3, <2>4
    <3>2. PICK g : Known(chain, id, Leaves(items[k]).value, h, g)
      BY <1>6, <2>4, <3>1
    <3> DEFINE q == Primary(Groups(At(chain, h))[g])
               s == Leaves(items[k]).value.global_sequence
    <3>3. Ran(chain, h, q) /\ s = q.sequence /\ id = <<"action", s>>
      BY <1>1, <3>2, SequenceTold
    <3> HIDE DEF q, s
    <3>4. p.sequence = q.sequence
      BY <2>3, <3>3
    <3>5. i = h
      BY <1>1, <1>2, <2>3, <3>3, <3>4, OneTrace
    <3> QED
      BY <1>2, <2>1, <2>3, <3>5
  <2> QED
    BY <2>1, <2>4
<1>8. ASSUME NEW id \in Ids(docs, "action")
      PROVE  id \in Ids(docs', "action") /\ docs'[id] = docs[id]
  <2>1. id \in DOMAIN docs /\ id[1] = "action" /\ Live(docs[id])
    BY DEF Ids
  <2>2. id \in DOMAIN after /\ after[id] = docs[id]
    BY <1>4, <1>7, <2>1
  <2> QED
    BY <1>5, <2>1, <2>2 DEF Ids
<1>9. ASSUME NEW id \in Ids(docs', "action"), id \notin Ids(docs, "action")
      PROVE  \E g : Known(chain, id, docs'[id].value, h, g)
  <2>1. id \in DOMAIN after /\ id[1] = "action" /\ Live(after[id])
    BY <1>5 DEF Ids
  <2>2. ~(id \in DOMAIN docs /\ after[id] = docs[id])
    BY <1>9, <2>1 DEF Ids
  <2>3. after[id] # Absent
    BY <2>1 DEF Live, Absent
  <2>4. PICK k \in 1 .. Len(items) : items[k].id = id /\ after[id] = Leaves(items[k])
    BY <1>4, <2>1, <2>2, <2>3
  <2> QED
    BY <1>5, <1>6, <2>1, <2>4
<1> QED
  <2>1. \A id \in Ids(docs, "action") : docs[id].value.block_num < w.height
    BY <1>7 DEF h
  <2>2. \A id \in Ids(docs', "action") \ Ids(docs, "action") :
          \E g : Known(chain, id, docs'[id].value, w.height, g)
    BY <1>9 DEF h
  <2> QED
    BY <1>8, <2>1, <2>2

\* Without a limit a page is empty.
LEMMA WalkNone ==
    ASSUME NEW d, IsFiniteSet(Ids(d, "action")), NEW a, Sequenced(d, Notified(d, a)), MaxLimit = 0
    PROVE  Walk(d, a, MaxLimit, "asc") = <<>>
<1> DEFINE M == Notified(d, a)
           N == Cardinality(Ids(d, "action"))
           hits == Hits(d, M, "asc")
           S == {d[id].value : id \in M}
<1>1. N \in Nat
    BY FS_CardinalityType
<1>2. hits \in Seq(S)
    BY AscendingIs
<1>3. Walk(d, a, 0, "asc") = FlattenSeq([n \in 1 .. N |-> Page(hits, (n - 1) * 0, 0)])
  <2>1. \A n \in 1 .. N : GetActions(d, Params(a, (n - 1) * 0, 0, "asc")) = Page(hits, (n - 1) * 0, 0)
    <3>1. 0 \in 0 .. MaxLimit /\ "asc" \in {"asc", "desc"}
      OBVIOUS
    <3> QED
      BY <3>1, GetActionsIs
  <2> QED
    BY <2>1 DEF Walk
<1> HIDE DEF hits, S, N
<1>4. Walk(d, a, 0, "asc") = SubSeq(hits, 1, IF N * 0 < Len(hits) THEN N * 0 ELSE Len(hits))
    BY <1>1, <1>2, <1>3, PagesAre
<1>5. (IF N * 0 < Len(hits) THEN N * 0 ELSE Len(hits)) = 0
  <2>1. N * 0 = 0 /\ Len(hits) \in Nat
    BY <1>1, <1>2, LenProperties
  <2> QED
    BY <2>1
<1>6. SubSeq(hits, 1, 0) = <<>>
    BY SubSeqEmpty
<1> QED
    BY <1>4, <1>5, <1>6

\* The documents that come after those of S in their sequence do not move them.
LEMMA HitsKept ==
    ASSUME NEW d, NEW S, NEW n, NEW T, S \subseteq T, Sequenced(d, S), Sequenced(n, T),
           \A id \in S : n[id] = d[id],
           \A id \in S : \A j \in T \ S :
               n[id].value.global_sequence < n[j].value.global_sequence
    PROVE  IsPrefix(Hits(d, S, "asc"), Hits(n, T, "asc"))
<1> DEFINE e == Order(d, S, "asc")
           f == Order(n, T, "asc")
           key == Sequence(n, T)
           old == Hits(d, S, "asc")
           new == Hits(n, T, "asc")
<1>1. /\ Enumerates(e, S, Sequence(d, S)) /\ old = [k \in 1 .. Len(e) |-> d[e[k]].value]
      /\ old \in Seq({d[id].value : id \in S}) /\ Len(old) = Len(e)
  <2>1. Enumerates(e, S, Sequence(d, S))
    BY AscendingIs
  <2>2. old = [k \in 1 .. Len(e) |-> d[e[k]].value]
    BY AscendingIs
  <2>3. old \in Seq({d[id].value : id \in S}) /\ Len(old) = Len(e)
    BY AscendingIs
  <2> QED
    BY <2>1, <2>2, <2>3
<1>2. /\ Enumerates(f, T, key) /\ new = [k \in 1 .. Len(f) |-> n[f[k]].value]
      /\ new \in Seq({n[id].value : id \in T}) /\ Len(new) = Len(f)
  <2>1. Enumerates(f, T, key)
    BY AscendingIs
  <2>2. new = [k \in 1 .. Len(f) |-> n[f[k]].value]
    BY AscendingIs
  <2>3. new \in Seq({n[id].value : id \in T}) /\ Len(new) = Len(f)
    BY AscendingIs
  <2> QED
    BY <2>1, <2>2, <2>3
<1>3. \A id \in T : key[id] = n[id].value.global_sequence
    BY DEF Sequence
<1>4. \A id \in S : Sequence(d, S)[id] = d[id].value.global_sequence
    BY DEF Sequence
<1>5. \A id \in S : Sequence(d, S)[id] = key[id]
    BY <1>3, <1>4
<1> HIDE DEF e, f, key, old, new
<1>6. Enumerates(e, S, key)
    BY <1>1, <1>5, SameKeys
<1>7. /\ \A id \in T : key[id] \in Int
      /\ \A id \in T : \A j \in T : key[id] = key[j] => id = j
    BY <1>3 DEF Sequenced
<1>8. \A id \in S : \A j \in T \ S : key[id] < key[j]
    BY <1>3
<1>9. Len(e) <= Len(f) /\ \A k \in 1 .. Len(e) : f[k] = e[k]
    BY <1>2, <1>6, <1>7, <1>8, SameStart
<1>10. Len(e) \in Nat /\ Len(f) \in Nat /\ \A k \in 1 .. Len(e) : e[k] \in S
    BY <1>2, <1>6 DEF Enumerates, IsSeq
<1>11. \A k \in 1 .. Len(old) : k \in 1 .. Len(new) /\ old[k] = new[k]
  <2> SUFFICES ASSUME NEW k \in 1 .. Len(e) PROVE k \in 1 .. Len(new) /\ old[k] = new[k]
    BY <1>1
  <2>1. k \in 1 .. Len(f)
    BY <1>9, <1>10
  <2>2. old[k] = d[e[k]].value /\ new[k] = n[f[k]].value
    BY <1>1, <1>2, <2>1
  <2> QED
    BY <1>2, <1>9, <1>10, <2>1, <2>2
<1> DEFINE V == {old[k] : k \in 1 .. Len(old)}
           W == {new[k] : k \in 1 .. Len(new)}
           p == SubSeq(new, 1, Len(old))
<1>12. Len(old) \in Nat /\ Len(new) \in Nat /\ Len(old) <= Len(new)
    BY <1>1, <1>2, <1>9, <1>10
<1>13. SubSeq(old, 1, Len(old)) = old
    BY <1>1, SubSeqFull
<1>14. p = old
  <2>1. \A k \in 1 .. Len(old) : new[k] \in W
    BY <1>11
  <2>2. 1 \in Int /\ Len(old) \in Int
    BY <1>12
  <2> HIDE DEF W
  <2>3. /\ p \in Seq(W)
        /\ Len(p) = IF 1 <= Len(old) THEN Len(old) - 1 + 1 ELSE 0
        /\ \A k \in 1 .. Len(old) - 1 + 1 : p[k] = new[1 + k - 1]
    BY <2>1, <2>2, SubSeqProperties
  <2> HIDE DEF p
  <2>4. Len(p) = Len(old) /\ \A k \in 1 .. Len(old) : p[k] = old[k]
    BY <1>11, <1>12, <2>3
  <2>5. p = [k \in 1 .. Len(p) |-> p[k]] /\ old = [k \in 1 .. Len(old) |-> old[k]]
    BY <1>1, <2>3, SeqIs DEF IsSeq
  <2> QED
    BY <2>4, <2>5
<1> QED
    BY <1>12, <1>13, <1>14 DEF IsPrefix, old, new

\* Blocks that land in their order leave the pages of get_actions as they
\* are, and add to them: a client that goes on where it was misses nothing.
THEOREM PagesStability == Spec => PagesStable
<1>1. IInv /\ IInv' /\ [Next]_vars => (InOrder /\ SettledBelow => Extends)
  <2> SUFFICES ASSUME IInv, IInv', [Next]_vars, InOrder, SettledBelow, NEW a \in Holders
               PROVE  IsPrefix(Walk(docs, a, MaxLimit, "asc"), Walk(docs', a, MaxLimit, "asc"))
    BY DEF Extends
  <2>1. PICK w \in flying : flying' = flying \ {w}
    BY DEF InOrder
  <2>2. Land(w)
    BY <2>1, StepLands
  <2>3. chain' = chain
    BY <2>2 DEF Land
  <2>4. ChainOK(chain) /\ Growing(chain) /\ DocsOK(chain, docs) /\ DocsOK(chain, docs')
        /\ w.height \in 1 .. Len(chain)
    BY <2>3 DEF IInv, FlyingOK, OnItsWay
  <2>5. /\ \A id \in Ids(docs, "action") :
             /\ id \in Ids(docs', "action") /\ docs'[id] = docs[id]
             /\ docs[id].value.block_num < w.height
        /\ \A id \in Ids(docs', "action") \ Ids(docs, "action") :
             \E g : Known(chain, id, docs'[id].value, w.height, g)
    BY <2>2, ActionsLand
  <2>6. /\ IsFiniteSet(Ids(docs, "action"))
        /\ \A id \in Ids(docs, "action") : \E h, g : Known(chain, id, docs[id].value, h, g)
        /\ \A M \in SUBSET Ids(docs, "action") : Sequenced(docs, M)
    BY <2>4, ActionsStored
  <2>7. /\ IsFiniteSet(Ids(docs', "action"))
        /\ \A M \in SUBSET Ids(docs', "action") : Sequenced(docs', M)
    BY <2>4, ActionsStored
  <2> DEFINE S == Notified(docs, a)
             T == Notified(docs', a)
  <2>8. S \in SUBSET Ids(docs, "action") /\ T \in SUBSET Ids(docs', "action")
    BY DEF Notified
  <2>9. Sequenced(docs, S) /\ Sequenced(docs', T)
    BY <2>6, <2>7, <2>8
  <2>10. /\ \A id \in S : id \in T /\ docs'[id] = docs[id]
         /\ \A id \in T : id \in Ids(docs, "action") => id \in S
    BY <2>5, <2>8 DEF Notified
  <2>11. ASSUME NEW id \in S, NEW j \in T \ S
         PROVE  docs'[id].value.global_sequence < docs'[j].value.global_sequence
    <3>1. id \in Ids(docs, "action") /\ j \in Ids(docs', "action") \ Ids(docs, "action")
      BY <2>8, <2>10
    <3>2. PICK h, g : Known(chain, id, docs[id].value, h, g)
      BY <2>6, <3>1
    <3>3. PICK k : Known(chain, j, docs'[j].value, w.height, k)
      BY <2>5, <3>1
    <3> DEFINE x == Primary(Groups(At(chain, h))[g])
               y == Primary(Groups(At(chain, w.height))[k])
    <3>4. h \in 1 .. Len(chain) /\ docs[id].value.global_sequence = x.sequence
          /\ docs[id].value.block_num = h /\ Ran(chain, h, x)
      BY <2>4, <3>2, SequenceTold
    <3>5. docs'[j].value.global_sequence = y.sequence /\ Ran(chain, w.height, y)
      BY <2>4, <3>3, SequenceTold
    <3> HIDE DEF x, y
    <3>6. h < w.height
      BY <2>5, <3>1, <3>4
    <3>7. x.sequence < y.sequence
      BY <2>4, <3>4, <3>5, <3>6, LaterBlock
    <3> QED
      BY <2>10, <3>4, <3>5, <3>7
  <2>12. IsPrefix(Hits(docs, S, "asc"), Hits(docs', T, "asc"))
    <3>1. S \subseteq T /\ \A id \in S : docs'[id] = docs[id]
      BY <2>10
    <3> HIDE DEF S, T
    <3> QED
      BY <2>9, <2>11, <3>1, HitsKept
  <2>13. CASE MaxLimit = 0
    <3>1. Walk(docs, a, MaxLimit, "asc") = <<>> /\ Walk(docs', a, MaxLimit, "asc") = <<>>
      BY <2>6, <2>7, <2>9, <2>13, WalkNone
    <3>2. IsPrefix(<<>>, <<>>)
      BY DEF IsPrefix
    <3> QED
      BY <3>1, <3>2
  <2>14. CASE MaxLimit # 0
    <3>1. MaxLimit \in 1 .. MaxLimit /\ "asc" \in {"asc", "desc"}
      BY <2>14, QueriesAssumption
    <3>2. Walk(docs, a, MaxLimit, "asc") = Hits(docs, S, "asc")
      BY <2>6, <2>9, <3>1, WalkIs
    <3>3. Walk(docs', a, MaxLimit, "asc") = Hits(docs', T, "asc")
      BY <2>7, <2>9, <3>1, WalkIs
    <3> QED
      BY <2>12, <3>2, <3>3
  <2> QED
    BY <2>13, <2>14
<1> QED
    BY <1>1, Invariance, PTL DEF Spec, PagesStable
-----------------------------------------------------------------------------
(* The actions of an account, and their documents.                           *)

RanOn(a) == {r \in Indexed : r.trace.receiver = a}
FirstsOn(a) ==
    {r \in RanOn(a) : ~\E q \in RanOn(a) : q.height = r.height /\ q.trace.act = r.trace.act
                                           /\ q.trace.sequence < r.trace.sequence}

LEMMA IndexedIs ==
    ASSUME ChainOK(chain)
    PROVE  /\ \A h \in 1 .. Len(chain) : \A x :
                /\ Ran(chain, h, x)
                /\ <<x.act.account, x.act.name>> \notin SkipActions
                => [height |-> h, trace |-> x] \in Indexed
           /\ \A r \in Indexed :
                /\ r = [height |-> r.height, trace |-> r.trace]
                /\ r.height \in 1 .. Len(chain) /\ Ran(chain, r.height, r.trace)
                /\ <<r.trace.act.account, r.trace.act.name>> \notin SkipActions
<1>1. DOMAIN chain = 1 .. Len(chain)
      /\ \A h \in 1 .. Len(chain) : DOMAIN chain[h].traces = 1 .. Len(chain[h].traces)
    BY DEF ChainOK, IsSeq
<1>2. ASSUME NEW h \in 1 .. Len(chain), NEW x, Ran(chain, h, x),
             <<x.act.account, x.act.name>> \notin SkipActions
      PROVE  [height |-> h, trace |-> x] \in Indexed
  <2> DEFINE r == [height |-> h, trace |-> x]
  <2>1. PICK k \in 1 .. Len(chain[h].traces) : x = chain[h].traces[k]
    BY <1>2 DEF Ran
  <2>2. r \in {[height |-> h, trace |-> chain[h].traces[m]] : m \in DOMAIN chain[h].traces}
    BY <1>1, <2>1
  <2>3. r \in Receipts
    BY <1>1, <2>2 DEF Receipts
  <2>4. r.height = h /\ r.trace = x
    OBVIOUS
  <2> HIDE DEF r
  <2>5. r \in Indexed
    BY <1>2, <2>3, <2>4 DEF Indexed
  <2> QED
    BY <2>5 DEF r
<1>3. ASSUME NEW r \in Indexed
      PROVE  /\ r = [height |-> r.height, trace |-> r.trace]
             /\ r.height \in 1 .. Len(chain) /\ Ran(chain, r.height, r.trace)
             /\ <<r.trace.act.account, r.trace.act.name>> \notin SkipActions
  <2>1. r \in Receipts /\ <<r.trace.act.account, r.trace.act.name>> \notin SkipActions
    BY DEF Indexed
  <2>2. PICK h \in DOMAIN chain :
          r \in {[height |-> h, trace |-> chain[h].traces[k]] : k \in DOMAIN chain[h].traces}
    BY <2>1 DEF Receipts
  <2>3. PICK k \in DOMAIN chain[h].traces : r = [height |-> h, trace |-> chain[h].traces[k]]
    BY <2>2
  <2>4. r.height = h /\ r.trace = chain[h].traces[k]
    BY <2>3
  <2>5. Ran(chain, r.height, r.trace)
    BY <1>1, <2>4 DEF Ran
  <2> QED
    BY <1>1, <2>1, <2>3, <2>4, <2>5
<1> QED
  <2> HIDE DEF Indexed
  <2> QED
    BY <1>2, <1>3

\* The document of a receipt.
Fits(id, r) ==
    \E g : /\ Known(chain, id, docs[id].value, r.height, g)
           /\ \E j \in 1 .. Len(Groups(At(chain, r.height))[g]) :
                Groups(At(chain, r.height))[g][j] = r.trace

LEMMA FitsIs ==
    ASSUME ChainOK(chain), Growing(chain), NEW id, NEW r, Fits(id, r)
    PROVE  /\ docs[id].value.block_num = r.height
           /\ docs[id].value.name = r.trace.act.name
           /\ r.height \in 1 .. Len(chain) /\ Ran(chain, r.height, r.trace)
           /\ \E p : /\ Ran(chain, r.height, p) /\ p.act = r.trace.act
                     /\ p.sequence = docs[id].value.global_sequence
<1> DEFINE h == r.height
           doc == docs[id].value
<1>1. PICK g : /\ Known(chain, id, doc, h, g)
               /\ \E j \in 1 .. Len(Groups(At(chain, h))[g]) : Groups(At(chain, h))[g][j] = r.trace
    BY DEF Fits
<1> DEFINE G == Groups(At(chain, h))[g]
<1>2. h \in 1 .. Len(chain) /\ g \in 1 .. Len(Groups(At(chain, h)))
      /\ doc.global_sequence = Primary(G).sequence
    BY <1>1, SequenceTold
<1>3. Tells(chain, id, doc, h, g)
    BY <1>1, KnownIs
<1>4. doc.block_num = h /\ doc.name = G[1].act.name
    BY <1>3 DEF Tells
<1>5. /\ \A j \in 1 .. Len(G) : Ran(chain, h, G[j]) /\ G[j].act = G[1].act
      /\ Ran(chain, h, Primary(G)) /\ Primary(G).act = G[1].act
    BY <1>2, GroupIs DEF GroupOf
<1>6. PICK j \in 1 .. Len(G) : G[j] = r.trace
    BY <1>1
<1> HIDE DEF G, doc, h
<1>7. Ran(chain, h, r.trace) /\ r.trace.act = G[1].act
    BY <1>5, <1>6
<1>8. doc.name = r.trace.act.name /\ Primary(G).act = r.trace.act
    BY <1>4, <1>5, <1>7
<1> QED
    BY <1>2, <1>4, <1>5, <1>7, <1>8 DEF doc, h

\* Documents come in the order of the actions they are of.
LEMMA FitsInOrder ==
    ASSUME ChainOK(chain), Growing(chain), NEW id, NEW r, Fits(id, r), NEW j, NEW q, Fits(j, q),
           docs[id].value.global_sequence < docs[j].value.global_sequence
    PROVE  r.trace.sequence < q.trace.sequence
<1> DEFINE h == r.height
           i == q.height
           x == r.trace
           y == q.trace
<1>1. h \in 1 .. Len(chain) /\ Ran(chain, h, x) /\ i \in 1 .. Len(chain) /\ Ran(chain, i, y)
    BY FitsIs
<1>2. PICK p : Ran(chain, h, p) /\ p.act = x.act /\ p.sequence = docs[id].value.global_sequence
    BY FitsIs
<1>3. PICK s : Ran(chain, i, s) /\ s.act = y.act /\ s.sequence = docs[j].value.global_sequence
    BY FitsIs
<1>4. PICK g, k : Known(chain, id, docs[id].value, h, g) /\ Known(chain, j, docs[j].value, i, k)
    BY DEF Fits
<1>5. p.sequence < s.sequence
    BY <1>2, <1>3
<1> HIDE DEF h, i, x, y
<1>6. h \in Nat /\ i \in Nat
  <2>1. Len(chain) \in Nat
    BY DEF ChainOK, IsSeq
  <2> QED
    BY <1>1, <2>1
<1>7. CASE h < i
    BY <1>1, <1>7, LaterBlock DEF x, y
<1>8. CASE i < h
  <2>1. s.sequence < p.sequence
    BY <1>1, <1>2, <1>3, <1>8, LaterBlock
  <2>2. s.sequence \in Nat /\ p.sequence \in Nat
    BY <1>1, <1>2, <1>3, SequenceIn
  <2> QED
    BY <1>5, <2>1, <2>2
<1>9. CASE h = i
  <2> DEFINE traces == chain[h].traces
             first == AfterOf(chain, h - 1).sequence
  <2>1. /\ IsSeq(traces) /\ Apart(traces)
        /\ \A m \in 1 .. Len(traces) : traces[m].sequence = first + m
    BY <1>1 DEF ChainOK
  <2>2. first \in Nat
    <3>1. h - 1 \in 0 .. Len(chain)
      BY <1>1, <1>6
    <3> QED
      BY <3>1, AfterIsState
  <2>3. \A z : Ran(chain, h, z) => \E m \in 1 .. Len(traces) : z = traces[m]
    BY DEF Ran
  <2>4. x.act # y.act
    <3> SUFFICES ASSUME x.act = y.act PROVE FALSE
      OBVIOUS
    <3> DEFINE G == Groups(At(chain, h))[g]
               K == Groups(At(chain, h))[k]
    <3>1. g \in 1 .. Len(Groups(At(chain, h))) /\ k \in 1 .. Len(Groups(At(chain, h)))
      BY <1>4, <1>9 DEF Known
    <3>2. /\ docs[id].value.global_sequence = Primary(G).sequence /\ Ran(chain, h, Primary(G))
          /\ docs[j].value.global_sequence = Primary(K).sequence /\ Ran(chain, h, Primary(K))
      BY <1>4, <1>9, SequenceTold
    <3>3. Primary(G).act = G[1].act /\ Primary(K).act = K[1].act
      BY <1>1, <3>1, GroupIs DEF GroupOf
    <3>4. G[1].act = K[1].act => g = k
      BY <1>1, <3>1, OneGroup
    <3> HIDE DEF G, K
    <3>5. Primary(G) = p /\ Primary(K) = s
      BY <1>1, <1>2, <1>3, <1>9, <3>2, OneTrace
    <3>6. g = k
      BY <1>2, <1>3, <3>3, <3>4, <3>5
    <3>7. id = j
      BY <1>4, <1>9, <3>6, SameId
    <3>8. p.sequence \in Nat
      BY <1>1, <1>2, SequenceIn
    <3> QED
      BY <1>2, <1>3, <1>5, <3>7, <3>8
  <2> HIDE DEF traces, first
  <2>5. PICK b \in 1 .. Len(traces) : p = traces[b]
    BY <1>2, <2>3
  <2>6. PICK c \in 1 .. Len(traces) : s = traces[c]
    BY <1>3, <1>9, <2>3
  <2>7. PICK m \in 1 .. Len(traces) : x = traces[m]
    BY <1>1, <2>3
  <2>8. PICK n \in 1 .. Len(traces) : y = traces[n]
    BY <1>1, <1>9, <2>3
  <2>9. b < c
    BY <1>5, <2>1, <2>2, <2>5, <2>6
  <2>10. m < n
    BY <1>2, <1>3, <2>1, <2>4, <2>5, <2>6, <2>7, <2>8, <2>9 DEF Apart
  <2>11. x.sequence < y.sequence
    BY <2>1, <2>2, <2>7, <2>8, <2>10
  <2> QED
    BY <2>11 DEF x, y
<1> QED
    BY <1>6, <1>7, <1>8, <1>9

\* A document has one first receipt of an account.
LEMMA FitsOne ==
    ASSUME ChainOK(chain), Growing(chain), NEW a, NEW id,
           NEW r \in FirstsOn(a), Fits(id, r), NEW q \in FirstsOn(a), Fits(id, q)
    PROVE  r = q
<1> DEFINE x == r.trace
           y == q.trace
           h == r.height
<1>1. /\ docs[id].value.block_num = r.height /\ docs[id].value.block_num = q.height
      /\ r.height \in 1 .. Len(chain) /\ Ran(chain, r.height, r.trace)
      /\ Ran(chain, q.height, q.trace)
    BY FitsIs
<1>2. q.height = h /\ h \in 1 .. Len(chain) /\ Ran(chain, h, x) /\ Ran(chain, h, y)
    BY <1>1
<1>3. PICK p : /\ Ran(chain, h, p) /\ p.act = x.act
               /\ p.sequence = docs[id].value.global_sequence
    BY FitsIs
<1>4. PICK s : /\ Ran(chain, h, s) /\ s.act = y.act
               /\ s.sequence = docs[id].value.global_sequence
    BY <1>2, FitsIs
<1>5. p = s
    BY <1>2, <1>3, <1>4, OneTrace
<1>6. x.act = y.act
    BY <1>3, <1>4, <1>5
<1>7. r \in Indexed /\ q \in Indexed /\ r \in RanOn(a) /\ q \in RanOn(a)
    BY DEF FirstsOn, RanOn
<1>8. ~(y.sequence < x.sequence) /\ ~(x.sequence < y.sequence)
    BY <1>2, <1>6, <1>7 DEF FirstsOn
<1>9. x.sequence \in Nat /\ y.sequence \in Nat
    BY <1>2, SequenceIn
<1>10. x.sequence = y.sequence
    BY <1>8, <1>9
<1>11. x = y
    BY <1>2, <1>10, OneTrace
<1>12. r = [height |-> r.height, trace |-> r.trace] /\ q = [height |-> q.height, trace |-> q.trace]
    BY <1>7, IndexedIs
<1> QED
    BY <1>2, <1>11, <1>12

\* Who is notified by a document.
LEMMA NotifiedIs ==
    ASSUME ChainOK(chain), NEW id, NEW doc, NEW h, NEW g, Known(chain, id, doc, h, g)
    PROVE  \A a : a \in doc.notified <=>
               \E j \in 1 .. Len(Groups(At(chain, h))[g]) :
                   Groups(At(chain, h))[g][j].receiver = a
<1> DEFINE G == Groups(At(chain, h))[g]
           at == At(chain, h)
<1>1. Tells(chain, id, doc, h, g) /\ GroupOf(chain, h, G)
    BY KnownIs, GroupIs DEF Known
<1>2. doc = ActionDoc(h, at, G, doc.data) /\ DOMAIN G = 1 .. Len(G)
    BY <1>1 DEF Tells, GroupOf
<1> HIDE DEF G, at
<1>3. \A data : ActionDoc(h, at, G, data).notified = {G[k].receiver : k \in DOMAIN G}
    BY DEF ActionDoc
<1>4. doc.notified = {G[k].receiver : k \in 1 .. Len(G)}
  <2> DEFINE data == doc.data
  <2>1. doc = ActionDoc(h, at, G, data)
    BY <1>2
  <2> HIDE DEF data
  <2> QED
    BY <1>2, <1>3, <2>1
<1> QED
    BY <1>4 DEF G

LEMMA FirstOf ==
    ASSUME IInv, NEW a \in Holders, NEW id \in Notified(docs, a)
    PROVE  \E r \in FirstsOn(a) : Fits(id, r)
<1> DEFINE doc == docs[id].value
<1>1. ChainOK(chain) /\ Growing(chain) /\ DocsOK(chain, docs)
    BY DEF IInv
<1>2. id \in Ids(docs, "action") /\ a \in doc.notified
    BY HistoryAssumption, QueriesAssumption DEF Notified
<1>3. PICK h, g : Known(chain, id, doc, h, g)
    BY <1>1, <1>2, ActionsStored
<1> DEFINE G == Groups(At(chain, h))[g]
           traces == chain[h].traces
           act == G[1].act
<1>4. h \in 1 .. Len(chain) /\ g \in 1 .. Len(Groups(At(chain, h)))
    BY <1>3 DEF Known
<1>5. <<act.account, act.name>> \notin SkipActions
  <2>1. Tells(chain, id, doc, h, g)
    BY <1>1, <1>3, KnownIs
  <2> QED
    BY <2>1 DEF Tells
<1>6. PICK j \in 1 .. Len(G) : G[j].receiver = a
    BY <1>1, <1>2, <1>3, NotifiedIs
<1>7. Ran(chain, h, G[j]) /\ G[j].act = act
    BY <1>1, <1>4, GroupIs DEF GroupOf
<1>8. /\ IsSeq(traces)
      /\ \A k \in 1 .. Len(traces) :
           traces[k].receipt /\ traces[k].sequence = AfterOf(chain, h - 1).sequence + k
    BY <1>1, <1>4 DEF ChainOK
<1>9. AfterOf(chain, h - 1).sequence \in Nat
  <2>1. h - 1 \in 0 .. Len(chain)
    BY <1>1, <1>4 DEF ChainOK, IsSeq
  <2> QED
    BY <1>1, <2>1, AfterIsState
<1>10. \A k \in 1 .. Len(traces) : traces[k].act = act => \E m \in 1 .. Len(G) : G[m] = traces[k]
  <2> SUFFICES ASSUME NEW k \in 1 .. Len(traces), traces[k].act = act
               PROVE  \E m \in 1 .. Len(G) : G[m] = traces[k]
    OBVIOUS
  <2> DEFINE groups == Groups(At(chain, h))
  <2>1. Grouped(groups, traces)
    BY <1>1, <1>4, GroupedAt
  <2> HIDE DEF groups
  <2>2. PICK i \in 1 .. Len(groups) : \E m \in 1 .. Len(groups[i]) : groups[i][m] = traces[k]
    BY <1>8, <2>1 DEF Grouped
  <2>3. PICK m \in 1 .. Len(groups[i]) : groups[i][m] = traces[k]
    BY <2>2
  <2>4. groups[i][1].act = act
    BY <2>1, <2>3 DEF Grouped
  <2>5. i = g
    BY <1>4, <2>1, <2>4 DEF Grouped, groups
  <2> QED
    BY <2>3, <2>5 DEF groups
<1> DEFINE P == {k \in 1 .. Len(traces) : traces[k].act = act /\ traces[k].receiver = a}
<1>11. P # {} /\ P \in SUBSET (1 .. Len(traces))
  <2>1. \E k \in 1 .. Len(traces) : G[j] = traces[k]
    BY <1>7 DEF Ran
  <2> QED
    BY <1>6, <1>7, <2>1
<1>12. PICK m \in P : \A k \in P : m <= k
  <2> HIDE DEF P
  <2>1. Len(traces) \in Nat
    BY <1>8 DEF IsSeq
  <2> QED
    BY <1>11, <2>1, LeastOf
<1> DEFINE x == traces[m]
           r == [height |-> h, trace |-> x]
<1>13. m \in 1 .. Len(traces) /\ x.act = act /\ x.receiver = a
    BY <1>12
<1>14. r.height = h /\ r.trace = x
    OBVIOUS
<1>15. Ran(chain, h, x)
    BY <1>13 DEF Ran
<1>16. r \in Indexed
    BY <1>1, <1>4, <1>5, <1>13, <1>15, IndexedIs
<1> HIDE DEF r, x
<1>17. r \in RanOn(a)
    BY <1>13, <1>14, <1>16 DEF RanOn
<1>18. ASSUME NEW q \in RanOn(a), q.height = h, q.trace.act = act
       PROVE  ~(q.trace.sequence < x.sequence)
  <2>1. q \in Indexed /\ q.trace.receiver = a
    BY DEF RanOn
  <2>2. Ran(chain, h, q.trace)
    BY <1>1, <1>18, <2>1, IndexedIs
  <2>3. PICK k \in 1 .. Len(traces) : q.trace = traces[k]
    BY <2>2 DEF Ran
  <2>4. m <= k
    BY <1>12, <1>18, <2>1, <2>3
  <2>5. /\ x.sequence = AfterOf(chain, h - 1).sequence + m
        /\ q.trace.sequence = AfterOf(chain, h - 1).sequence + k
    BY <1>8, <1>13, <2>3 DEF x
  <2>6. m \in Int /\ k \in Int
    BY <1>13, <2>3
  <2> HIDE DEF P
  <2> QED
    BY <1>9, <2>4, <2>5, <2>6
<1>19. r \in FirstsOn(a)
    BY <1>13, <1>14, <1>17, <1>18 DEF FirstsOn
<1>20. Fits(id, r)
  <2>1. \E k \in 1 .. Len(G) : G[k] = x
    BY <1>10, <1>13 DEF x
  <2> QED
    BY <1>3, <1>14, <2>1 DEF Fits
<1> QED
    BY <1>19, <1>20

LEMMA DocOfFirst ==
    ASSUME IInv, AbsenceMarked, Settled, NEW a, NEW r \in FirstsOn(a)
    PROVE  \E id \in Notified(docs, a) : Fits(id, r)
<1> DEFINE h == r.height
           x == r.trace
<1>1. ChainOK(chain) /\ Growing(chain) /\ DocsOK(chain, docs)
    BY DEF IInv
<1>2. r \in Indexed /\ x.receiver = a
    BY DEF FirstsOn, RanOn
<1>3. h \in 1 .. Len(chain) /\ Ran(chain, h, x) /\ <<x.act.account, x.act.name>> \notin SkipActions
    BY <1>1, <1>2, IndexedIs
<1> HIDE DEF h, x
<1>4. PICK k \in 1 .. Len(chain[h].traces) : x = chain[h].traces[k]
    BY <1>3 DEF Ran
<1>5. PICK id \in DocsOf("action") : ReceiptOf(h, x) \in ReceiptsOf(docs[id].value)
    BY <1>3, <1>4, ReceiptIsFound
<1>6. id \in Ids(docs, "action")
    BY DEF DocsOf
<1>7. PICK i, g : Known(chain, id, docs[id].value, i, g)
    BY <1>1, <1>6, ActionsStored
<1> DEFINE G == Groups(At(chain, i))[g]
<1>8. i \in 1 .. Len(chain) /\ g \in 1 .. Len(Groups(At(chain, i)))
    BY <1>7 DEF Known
<1>9. ReceiptsOf(docs[id].value) = GroupReceipts(i, G)
  <2>1. Tells(chain, id, docs[id].value, i, g)
    BY <1>1, <1>7, KnownIs
  <2> QED
    BY <2>1 DEF Tells
<1>10. \A j \in 1 .. Len(G) : Ran(chain, i, G[j])
    BY <1>1, <1>8, GroupIs DEF GroupOf
<1> HIDE DEF G
<1>11. PICK j \in 1 .. Len(G) : ReceiptOf(h, x) = ReceiptOf(i, G[j])
    BY <1>5, <1>9 DEF GroupReceipts
<1>12. x.sequence = G[j].sequence
    BY <1>11 DEF ReceiptOf
<1>13. h = i /\ x = G[j]
    BY <1>1, <1>3, <1>8, <1>10, <1>12, OneTrace
<1>14. a \in docs[id].value.notified
    BY <1>1, <1>2, <1>7, <1>13, NotifiedIs DEF x, G
<1>15. id \in Notified(docs, a)
    BY <1>6, <1>14 DEF Notified
<1>16. Fits(id, r)
    BY <1>7, <1>13 DEF Fits, G, h, x
<1> QED
    BY <1>15, <1>16
-----------------------------------------------------------------------------
(* The pages once everything landed.                                         *)

\* What a query without pages gives are the actions of the account.
LEMMA ShownIs ==
    ASSUME IInv, AbsenceMarked, Settled, NEW a \in Holders
    PROVE  Shown(Hits(docs, Notified(docs, a), "asc")) = Actions(a)
<1> DEFINE M == Notified(docs, a)
           F == FirstsOn(a)
           key == [r \in F |-> r.trace.sequence]
           s == Sequence(docs, M)
           e == Order(docs, M, "asc")
           order == Ordered(F, key)
           first == [id \in M |-> CHOOSE r \in F : Fits(id, r)]
           f == [k \in 1 .. Len(e) |-> first[e[k]]]
           hits == Hits(docs, M, "asc")
<1>1. ChainOK(chain) /\ Growing(chain) /\ DocsOK(chain, docs)
    BY DEF IInv
<1>2. M \in SUBSET Ids(docs, "action")
    BY DEF Notified
<1>3. Sequenced(docs, M)
    BY <1>1, <1>2, ActionsStored
<1>4. /\ Enumerates(e, M, s) /\ hits = [k \in 1 .. Len(e) |-> docs[e[k]].value]
      /\ Len(hits) = Len(e)
    BY <1>3, AscendingIs
<1>5. \A id \in M : s[id] = docs[id].value.global_sequence
    BY DEF Sequence
<1>6. \A id \in M : first[id] \in F /\ Fits(id, first[id])
  <2> SUFFICES ASSUME NEW id \in M PROVE first[id] \in F /\ Fits(id, first[id])
    OBVIOUS
  <2>1. \E r \in F : Fits(id, r)
    BY FirstOf
  <2> QED
    BY <2>1
<1>7. \A r \in F : key[r] = r.trace.sequence
    OBVIOUS
<1>8. Actions(a) = [k \in DOMAIN order |-> <<order[k].height, order[k].trace.act.name>>]
    BY DEF Actions, FirstsOn, RanOn
<1>9. f = [k \in 1 .. Len(e) |-> f[k]] /\ \A k \in 1 .. Len(e) : f[k] = first[e[k]]
    OBVIOUS
<1>10. first = [id \in M |-> first[id]]
    OBVIOUS
<1> HIDE DEF M, F, key, s, e, order, first, f, hits
<1>11. /\ Len(e) \in Nat /\ DOMAIN e = 1 .. Len(e) /\ \A k \in 1 .. Len(e) : e[k] \in M
       /\ \A id \in M : \E k \in 1 .. Len(e) : e[k] = id
       /\ \A i \in 1 .. Len(e) : \A j \in 1 .. Len(e) : i < j => e[i] # e[j] /\ s[e[i]] <= s[e[j]]
    BY <1>4 DEF Enumerates, IsSeq
<1>12. \A r \in F : \E id \in M : first[id] = r
  <2> SUFFICES ASSUME NEW r \in F PROVE \E id \in M : first[id] = r
    OBVIOUS
  <2>1. PICK id \in M : Fits(id, r)
    BY DocOfFirst DEF M, F
  <2>2. first[id] = r
    BY <1>1, <1>6, <2>1, FitsOne DEF F
  <2> QED
    BY <2>2
<1>13. IsFiniteSet(F)
  <2>1. F = {first[id] : id \in M}
    BY <1>6, <1>12
  <2>2. IsFiniteSet(M)
    BY <1>3 DEF Sequenced
  <2> QED
    BY <2>1, <2>2, FiniteImage
<1>14. \A r \in F : /\ r.height \in 1 .. Len(chain) /\ Ran(chain, r.height, r.trace)
                    /\ r = [height |-> r.height, trace |-> r.trace]
  <2>1. \A r \in F : r \in Indexed
    BY DEF F, FirstsOn, RanOn
  <2> QED
    BY <1>1, <2>1, IndexedIs
<1>15. \A r \in F : key[r] \in Int
  <2>1. \A r \in F : r.trace.sequence \in Nat
    BY <1>1, <1>14, SequenceIn
  <2> QED
    BY <1>7, <2>1
<1>16. \A r \in F : \A q \in F : key[r] = key[q] => r = q
  <2> SUFFICES ASSUME NEW r \in F, NEW q \in F, key[r] = key[q] PROVE r = q
    OBVIOUS
  <2>1. r.trace.sequence = q.trace.sequence
    BY <1>7
  <2>2. r.height = q.height /\ r.trace = q.trace
    BY <1>1, <1>14, <2>1, OneTrace
  <2> QED
    BY <1>14, <2>2
<1>17. Enumerates(order, F, key)
    BY <1>13, <1>15, OrderedEnumerates DEF order
<1>18. IsSeq(f) /\ Len(f) = Len(e)
    BY <1>9, <1>11, MadeSeq
<1>19. \A k \in 1 .. Len(e) : f[k] \in F
    BY <1>6, <1>9, <1>11
<1>20. ASSUME NEW r \in F PROVE \E k \in 1 .. Len(e) : f[k] = r
  <2>1. PICK id \in M : first[id] = r
    BY <1>12
  <2>2. PICK k \in 1 .. Len(e) : e[k] = id
    BY <1>11
  <2> QED
    BY <1>9, <2>1, <2>2
<1>21. ASSUME NEW i \in 1 .. Len(e), NEW j \in 1 .. Len(e), i < j
       PROVE  f[i] # f[j] /\ key[f[i]] <= key[f[j]]
  <2>1. e[i] \in M /\ e[j] \in M /\ e[i] # e[j] /\ s[e[i]] <= s[e[j]]
    BY <1>11, <1>21
  <2>2. Fits(e[i], f[i]) /\ Fits(e[j], f[j]) /\ f[i] \in F /\ f[j] \in F
    BY <1>6, <1>9, <2>1
  <2>3. s[e[i]] < s[e[j]]
    BY <1>3, <1>5, <2>1 DEF Sequenced
  <2>4. f[i].trace.sequence < f[j].trace.sequence
    BY <1>1, <1>5, <2>1, <2>2, <2>3, FitsInOrder
  <2>5. key[f[i]] < key[f[j]] /\ key[f[i]] \in Int /\ key[f[j]] \in Int
    BY <1>7, <1>15, <2>2, <2>4
  <2> QED
    BY <2>5
<1>22. Enumerates(f, F, key)
    BY <1>18, <1>19, <1>20, <1>21 DEF Enumerates
<1>23. order = f
    BY <1>15, <1>16, <1>17, <1>22, OneOrder
<1>24. ASSUME NEW k \in 1 .. Len(e)
       PROVE  hits[k].block_num = f[k].height /\ hits[k].name = f[k].trace.act.name
  <2>1. e[k] \in M /\ Fits(e[k], f[k])
    BY <1>6, <1>9, <1>11
  <2>2. hits[k] = docs[e[k]].value
    BY <1>4
  <2> QED
    BY <1>1, <2>1, <2>2, FitsIs
<1>25. DOMAIN hits = 1 .. Len(e) /\ DOMAIN f = 1 .. Len(e)
    BY <1>4, <1>9
<1>26. Shown(hits) = [k \in 1 .. Len(e) |-> <<f[k].height, f[k].trace.act.name>>]
    BY <1>24, <1>25 DEF Shown
<1> QED
    BY <1>8, <1>23, <1>25, <1>26 DEF hits, M

\* The pages of v1 from a place on.
LEMMA V1From ==
    ASSUME NEW d, NEW a, NEW pos \in Nat, NEW n \in 1 .. MaxHits
    PROVE  LET page == Page(Hits(d, Notified(d, a), "asc"), pos, n) IN
           V1GetActions(d, a, pos, n) =
               [k \in DOMAIN page |-> [account_action_seq |-> pos + k - 1, action |-> page[k]]]
<1> DEFINE M == Notified(d, a)
           page == Page(Hits(d, M, "asc"), pos, n)
<1>1. ~(pos < 0) /\ ~(pos < 0 /\ n < 0) /\ ~(n > MaxHits) /\ ~(n < 1)
    BY QueriesAssumption
<1>2. Search(d, M, Asc("global_sequence"), pos, n) = page
    BY SearchIs
<1> HIDE DEF M, page
<1>3. V1GetActions(d, a, pos, n) =
        LET hits == Search(d, M, Asc("global_sequence"), pos, n) IN
        [k \in DOMAIN hits |-> [account_action_seq |-> pos + k - 1, action |-> hits[k]]]
    BY <1>1 DEF V1GetActions, M
<1> QED
    BY <1>2, <1>3 DEF page, M

\* The last ones.
LEMMA V1Last ==
    ASSUME NEW d, NEW a, NEW n \in 1 .. MaxHits
    PROVE  LET hits == Reverse(Page(Hits(d, Notified(d, a), "desc"), 0, n)) IN
           V1GetActions(d, a, -1, -n) =
               [k \in DOMAIN hits |-> [account_action_seq |-> 0 + k - 1, action |-> hits[k]]]
<1> DEFINE M == Notified(d, a)
           page == Page(Hits(d, M, "desc"), 0, n)
<1>1. -1 < 0 /\ -n < 0 /\ -(-n) = n /\ ~(n > MaxHits) /\ ~(n < 0)
    BY QueriesAssumption
<1>2. Search(d, M, Desc("global_sequence"), 0, n) = page
    BY SearchIs
<1> HIDE DEF M, page
<1>3. V1GetActions(d, a, -1, -n) =
        LET hits == Reverse(Search(d, M, Desc("global_sequence"), 0, n)) IN
        [k \in DOMAIN hits |-> [account_action_seq |-> 0 + k - 1, action |-> hits[k]]]
    BY <1>1 DEF V1GetActions, M
<1> QED
    BY <1>2, <1>3 DEF page, M

\* What the pages are once everything landed: those of get_actions, whatever
\* their size and direction, and those of v1 by their place, are the actions
\* that ran on the account, each once, in order.
THEOREM PagesSafety == ASSUME AbsenceMarked, MaxLimit # 0 PROVE Spec => []PagesExact
<1>1. IInv => PagesExact
  <2> SUFFICES ASSUME IInv, Settled, NEW a \in Holders
               PROVE  LET all == Walk(docs, a, MaxLimit, "asc")
                          v1(pos, offset) == V1GetActions(docs, a, pos, offset)
                      IN  /\ Shown(all) = Actions(a)
                          /\ \A limit \in 1 .. MaxLimit :
                                 /\ Walk(docs, a, limit, "asc") = all
                                 /\ Walk(docs, a, limit, "desc") = Reverse(all)
                          /\ \A pos \in 0 .. Len(all), n \in 1 .. MaxHits :
                                 v1(pos, n) = [k \in DOMAIN Page(all, pos, n) |->
                                     [account_action_seq |-> pos + k - 1, action |-> all[pos + k]]]
                          /\ \A n \in 1 .. MaxHits :
                                 LET last == v1(-1, -n) IN
                                 [k \in DOMAIN last |-> last[k].action] =
                                     SubSeq(all, Max({1, Len(all) - n + 1}), Len(all))
    BY DEF PagesExact
  <2> DEFINE M == Notified(docs, a)
             hits == Hits(docs, M, "asc")
             S == {docs[id].value : id \in M}
             all == Walk(docs, a, MaxLimit, "asc")
  <2>1. ChainOK(chain) /\ Growing(chain) /\ DocsOK(chain, docs)
    BY DEF IInv
  <2>2. M \in SUBSET Ids(docs, "action")
    BY DEF Notified
  <2>3. IsFiniteSet(Ids(docs, "action")) /\ Sequenced(docs, M)
    BY <2>1, <2>2, ActionsStored
  <2>4. hits \in Seq(S) /\ Len(hits) \in Nat
    BY <2>3, AscendingIs, LenProperties
  <2>5. Hits(docs, M, "desc") = Reverse(hits)
    BY <2>3, DescendingIs
  <2>6. \A limit \in 1 .. MaxLimit :
          Walk(docs, a, limit, "asc") = hits /\ Walk(docs, a, limit, "desc") = Reverse(hits)
    BY <2>3, <2>5, WalkIs
  <2>7. all = hits
    <3>1. MaxLimit \in 1 .. MaxLimit
      BY QueriesAssumption
    <3> QED
      BY <2>6, <3>1
  <2>8. Shown(hits) = Actions(a)
    BY ShownIs
  <2>9. ASSUME NEW pos \in 0 .. Len(hits), NEW n \in 1 .. MaxHits
        PROVE  V1GetActions(docs, a, pos, n) =
                 [k \in DOMAIN Page(hits, pos, n) |->
                     [account_action_seq |-> pos + k - 1, action |-> hits[pos + k]]]
    <3> DEFINE page == Page(hits, pos, n)
    <3>1. pos \in Nat /\ n \in Nat
      BY <2>4
    <3>2. V1GetActions(docs, a, pos, n) =
            [k \in DOMAIN page |-> [account_action_seq |-> pos + k - 1, action |-> page[k]]]
      BY <3>1, V1From
    <3> HIDE DEF hits, S
    <3>3. page \in Seq(S) /\ \A k \in 1 .. Len(page) : page[k] = hits[pos + k]
      BY <2>4, <3>1, PageIs
    <3> HIDE DEF page
    <3>4. DOMAIN page = 1 .. Len(page)
      BY <3>3, SeqIs
    <3>5. [k \in DOMAIN page |-> [account_action_seq |-> pos + k - 1, action |-> page[k]]] =
            [k \in DOMAIN page |-> [account_action_seq |-> pos + k - 1, action |-> hits[pos + k]]]
      BY <3>3, <3>4
    <3> QED
      BY <3>2, <3>5 DEF page
  <2>10. ASSUME NEW n \in 1 .. MaxHits
         PROVE  LET last == V1GetActions(docs, a, -1, -n) IN
                [k \in DOMAIN last |-> last[k].action] =
                    SubSeq(hits, Max({1, Len(hits) - n + 1}), Len(hits))
    <3> DEFINE end == Reverse(Page(Reverse(hits), 0, n))
               last == V1GetActions(docs, a, -1, -n)
    <3>1. last = [k \in DOMAIN end |-> [account_action_seq |-> 0 + k - 1, action |-> end[k]]]
      BY <2>5, V1Last
    <3>2. n \in Nat \ {0}
      OBVIOUS
    <3>3. end = SubSeq(hits, Max({1, Len(hits) - n + 1}), Len(hits))
      <4> HIDE DEF hits, S
      <4> QED
        BY <2>4, <3>2, LastOnes
    <3>4. end = [k \in DOMAIN end |-> end[k]]
      BY DEF Reverse
    <3> HIDE DEF end, last
    <3>5. [k \in DOMAIN last |-> last[k].action] = end
      BY <3>1, <3>4
    <3> QED
      BY <3>3, <3>5 DEF last
  <2> HIDE DEF hits, all, M
  <2>11. Shown(all) = Actions(a)
    BY <2>7, <2>8
  <2>12. \A limit \in 1 .. MaxLimit :
           /\ Walk(docs, a, limit, "asc") = all
           /\ Walk(docs, a, limit, "desc") = Reverse(all)
    BY <2>6, <2>7
  <2>13. \A pos \in 0 .. Len(all), n \in 1 .. MaxHits :
           V1GetActions(docs, a, pos, n) =
             [k \in DOMAIN Page(all, pos, n) |->
                 [account_action_seq |-> pos + k - 1, action |-> all[pos + k]]]
    BY <2>7, <2>9
  <2>14. \A n \in 1 .. MaxHits :
           LET last == V1GetActions(docs, a, -1, -n) IN
           [k \in DOMAIN last |-> last[k].action] =
               SubSeq(all, Max({1, Len(all) - n + 1}), Len(all))
    BY <2>7, <2>10
  <2> QED
    BY <2>11, <2>12, <2>13, <2>14, Zenon DEF all
<1> QED
    BY <1>1, Invariance, PTL

-----------------------------------------------------------------------------
(* Owners, each once.                                                        *)

Images(s) == {s[k] : k \in 1 .. Len(s)}
Same(S) == [x \in S |-> x]
Rising(s) ==
    /\ IsSeq(s)
    /\ \A k \in 1 .. Len(s) : s[k] \in Int
    /\ \A j \in 1 .. Len(s) : \A k \in 1 .. Len(s) : j <= k => s[j] <= s[k]

\* Of the numbers that e lists, m are not above the m-th.
LEMMA BelowIs ==
    ASSUME NEW F, NEW e, Enumerates(e, F, Same(F)), \A x \in F : x \in Int, NEW m \in 1 .. Len(e)
    PROVE  Cardinality({j \in F : j <= e[m]}) = m
<1> DEFINE B == {j \in F : j <= e[m]}
           f == [k \in 1 .. m |-> e[k]]
<1>1. Len(e) \in Nat /\ m \in Nat /\ m <= Len(e)
    BY DEF Enumerates, IsSeq
<1>2. f = [k \in 1 .. m |-> f[k]] /\ \A k \in 1 .. m : f[k] = e[k]
    OBVIOUS
<1>3. \A i \in 1 .. Len(e) : e[i] \in F /\ e[i] \in Int /\ Same(F)[e[i]] = e[i]
    BY DEF Enumerates, Same
<1>4. \A i \in 1 .. Len(e) : \A j \in 1 .. Len(e) : i < j => e[i] < e[j]
    BY <1>3 DEF Enumerates
<1> HIDE DEF f
<1>5. IsSeq(f) /\ Len(f) = m
    BY <1>1, <1>2, MadeSeq
<1>6. \A k \in 1 .. m : f[k] \in B
  <2> SUFFICES ASSUME NEW k \in 1 .. m PROVE e[k] \in F /\ e[k] <= e[m]
    BY <1>2
  <2>1. k \in 1 .. Len(e) /\ (k < m \/ k = m)
    BY <1>1
  <2> QED
    BY <1>3, <1>4, <2>1
<1>7. \A x \in B : \E k \in 1 .. m : f[k] = x
  <2> SUFFICES ASSUME NEW x \in F, x <= e[m] PROVE \E k \in 1 .. m : f[k] = x
    OBVIOUS
  <2>1. PICK k \in 1 .. Len(e) : e[k] = x
    BY DEF Enumerates
  <2>2. ~(m < k)
    BY <1>3, <1>4, <2>1
  <2>3. k \in 1 .. m
    BY <1>1, <2>1, <2>2
  <2> QED
    BY <1>2, <2>1, <2>3
<1>8. \A i \in 1 .. m : \A j \in 1 .. m :
        i < j => f[i] # f[j] /\ Same(B)[f[i]] <= Same(B)[f[j]]
  <2> SUFFICES ASSUME NEW i \in 1 .. m, NEW j \in 1 .. m, i < j
               PROVE  f[i] # f[j] /\ Same(B)[f[i]] <= Same(B)[f[j]]
    OBVIOUS
  <2>1. i \in 1 .. Len(e) /\ j \in 1 .. Len(e)
    BY <1>1
  <2>2. f[i] = e[i] /\ f[j] = e[j] /\ e[i] < e[j] /\ e[i] \in Int /\ e[j] \in Int
    BY <1>2, <1>3, <1>4, <2>1
  <2>3. Same(B)[f[i]] = f[i] /\ Same(B)[f[j]] = f[j]
    BY <1>6 DEF Same
  <2> QED
    BY <2>2, <2>3
<1> HIDE DEF B
<1>9. Enumerates(f, B, Same(B))
    BY <1>5, <1>6, <1>7, <1>8 DEF Enumerates
<1>10. Cardinality(B) = Len(f)
    BY <1>9, CountIs
<1> QED
    BY <1>5, <1>10 DEF B

\* Dedup of a sequence in order lists its elements.
LEMMA DedupIs ==
    ASSUME NEW s, Rising(s)
    PROVE  Enumerates(Dedup(s), Images(s), Same(Images(s)))
<1> DEFINE n == Len(s)
           F == {k \in DOMAIN s : k = 1 \/ s[k] # s[k - 1]}
           e == Ordered(F, Same(F))
           c == Cardinality(F)
           at(m) == CHOOSE k \in F : Cardinality({j \in F : j <= k}) = m
           u == Dedup(s)
           R == Images(s)
<1>1. n \in Nat /\ DOMAIN s = 1 .. n /\ \A k \in 1 .. n : s[k] \in Int
    BY DEF Rising, IsSeq
<1>2. \A j \in 1 .. n : \A k \in 1 .. n : j <= k => s[j] <= s[k]
    BY DEF Rising
<1>3. u = [m \in 1 .. c |-> s[at(m)]]
    BY DEF Dedup
<1>4. F \subseteq 1 .. n /\ \A k \in 1 .. n : k \in F <=> k = 1 \/ s[k] # s[k - 1]
    BY <1>1
<1>5. \A x : x \in R <=> \E k \in 1 .. n : s[k] = x
    BY DEF Images
<1> HIDE DEF F, u, R
<1>6. Enumerates(e, F, Same(F)) /\ \A k \in F : k \in Int
  <2>1. IsFiniteSet(F)
    <3>1. 1 \in Int /\ n \in Int
      BY <1>1
    <3>2. IsFiniteSet(1 .. n)
      BY <3>1, FS_Interval
    <3> QED
      BY <1>4, <3>2, FS_Subset
  <2>2. \A k \in F : k \in Int /\ Same(F)[k] \in Int
    BY <1>1, <1>4 DEF Same
  <2> QED
    BY <2>1, <2>2, OrderedEnumerates
<1> HIDE DEF e
<1>7. c = Len(e) /\ c \in Nat
    BY <1>6, CountIs DEF Enumerates, IsSeq
<1>8. \A i \in 1 .. c : e[i] \in F /\ e[i] \in 1 .. n
    BY <1>4, <1>6, <1>7 DEF Enumerates
<1> HIDE DEF c
<1>9. \A i \in 1 .. c : \A j \in 1 .. c : i < j => e[i] < e[j]
  <2> SUFFICES ASSUME NEW i \in 1 .. c, NEW j \in 1 .. c, i < j PROVE e[i] < e[j]
    OBVIOUS
  <2>1. e[i] # e[j] /\ Same(F)[e[i]] <= Same(F)[e[j]]
    BY <1>6, <1>7 DEF Enumerates
  <2> QED
    BY <1>1, <1>8, <2>1 DEF Same
<1>10. ASSUME NEW m \in 1 .. c PROVE at(m) = e[m]
  <2> DEFINE below(k) == Cardinality({j \in F : j <= k})
  <2>1. \A i \in 1 .. c : below(e[i]) = i
    BY <1>6, <1>7, BelowIs
  <2>2. \A k \in F : \E i \in 1 .. c : e[i] = k
    BY <1>6, <1>7 DEF Enumerates
  <2> HIDE DEF below
  <2>3. e[m] \in F /\ below(e[m]) = m /\ \A k \in F : below(k) = m => k = e[m]
    BY <1>8, <2>1, <2>2
  <2>4. (CHOOSE k \in F : below(k) = m) = e[m]
    BY <2>3
  <2> QED
    BY <2>4 DEF below
<1> HIDE DEF at
<1>11. \A m \in 1 .. c : u[m] = s[e[m]] /\ u[m] \in R /\ u[m] \in Int
    BY <1>1, <1>3, <1>5, <1>8, <1>10
<1>12. IsSeq(u) /\ Len(u) = c
  <2>1. u = [m \in 1 .. c |-> u[m]]
    BY <1>3
  <2> QED
    BY <1>7, <2>1, MadeSeq
\* The first place of each.
<1>13. ASSUME NEW x \in R PROVE \E m \in 1 .. c : u[m] = x
  <2> DEFINE P == {k \in 1 .. n : s[k] = x}
  <2>1. P \in SUBSET (1 .. n) /\ P # {}
    BY <1>5
  <2>2. PICK k \in P : \A j \in P : k <= j
    BY <1>1, <2>1, LeastOf
  <2>3. k \in 1 .. n /\ s[k] = x /\ \A j \in 1 .. n : s[j] = x => k <= j
    BY <2>2
  <2> HIDE DEF P
  <2>4. k \in F
    <3>1. CASE k = 1
      BY <1>4, <2>3, <3>1
    <3>2. CASE k # 1
      <4>1. k - 1 \in 1 .. n /\ ~(k <= k - 1)
        BY <1>1, <2>3, <3>2
      <4> QED
        BY <1>4, <2>3, <4>1
    <3> QED
      BY <3>1, <3>2
  <2>5. \E m \in 1 .. c : e[m] = k
    BY <1>6, <1>7, <2>4 DEF Enumerates
  <2> QED
    BY <1>11, <2>3, <2>5
\* Between the first places of two there is a step up.
<1>14. ASSUME NEW i \in 1 .. c, NEW j \in 1 .. c, i < j PROVE u[i] < u[j]
  <2>1. e[i] \in 1 .. n /\ e[j] \in 1 .. n /\ e[i] < e[j] /\ e[j] \in F
    BY <1>8, <1>9, <1>14
  <2>2. e[j] # 1 /\ e[j] - 1 \in 1 .. n /\ e[i] <= e[j] - 1 /\ e[j] - 1 <= e[j]
    BY <1>1, <2>1
  <2>3. s[e[j]] # s[e[j] - 1]
    BY <1>4, <2>1, <2>2
  <2>4. s[e[i]] <= s[e[j] - 1] /\ s[e[j] - 1] <= s[e[j]]
    BY <1>2, <2>1, <2>2
  <2>5. s[e[i]] < s[e[j]]
    <3>1. s[e[i]] \in Int /\ s[e[j]] \in Int /\ s[e[j] - 1] \in Int
      BY <1>1, <2>1, <2>2
    <3> QED
      BY <2>3, <2>4, <3>1
  <2> QED
    BY <1>11, <2>5
<1>15. \A i \in 1 .. c : \A j \in 1 .. c : i < j => u[i] # u[j] /\ Same(R)[u[i]] <= Same(R)[u[j]]
  <2> SUFFICES ASSUME NEW i \in 1 .. c, NEW j \in 1 .. c, i < j
               PROVE  u[i] # u[j] /\ Same(R)[u[i]] <= Same(R)[u[j]]
    OBVIOUS
  <2>1. u[i] < u[j] /\ u[i] \in Int /\ u[j] \in Int
    BY <1>11, <1>14
  <2>2. Same(R)[u[i]] = u[i] /\ Same(R)[u[j]] = u[j]
    BY <1>11 DEF Same
  <2> QED
    BY <2>1, <2>2
<1> QED
    BY <1>11, <1>12, <1>13, <1>15 DEF Enumerates, u, R

\* Search by owner, of documents that are all different.
LEMMA OwnersAre ==
    ASSUME NEW d, NEW M, IsFiniteSet(M), \A id \in M : d[id].value.owner \in Int,
           \A i \in M : \A j \in M : d[i].value = d[j].value => i = j
    PROVE  Answers(Owners(d, M), {d[id].value : id \in M})
<1> DEFINE sort == Asc("owner")
           hits == Search(d, M, sort, 0, MaxHits)
           s == [k \in DOMAIN hits |-> hits[k].owner]
           P == {d[id].value : id \in M}
           names == {p.owner : p \in P}
<1>1. \A id \in M : Rank(d[id].value, sort) = d[id].value.owner
    BY DEF Rank, Asc
<1> HIDE DEF sort
<1>2. Ranked(d, M, sort) /\ MaxHits \in Nat
    BY <1>1, QueriesAssumption DEF Ranked
<1>3. PICK e : Shows(e, hits, d, M, sort, MaxHits)
    BY <1>2, SearchFinds
<1>4. Owners(d, M) = Dedup(s)
    BY DEF Owners, sort
<1> HIDE DEF hits
<1> DEFINE n == Len(e)
           h == Len(hits)
<1>5. /\ n \in Nat /\ h \in Nat /\ h <= n /\ (n <= MaxHits => h = n)
      /\ IsSeq(hits) /\ DOMAIN hits = 1 .. h
  <2>1. IsSeq(hits) /\ n \in Nat /\ h = (IF MaxHits < n THEN MaxHits ELSE n)
    BY <1>3 DEF Shows
  <2>2. DOMAIN hits = 1 .. h
    BY <2>1 DEF IsSeq
  <2> QED
    BY <1>2, <2>1, <2>2
<1>6. Enumerates(e, M, Ranks(d, M, sort))
    BY <1>3 DEF Shows
<1>7. \A k \in 1 .. h : hits[k] = d[e[k]].value
    BY <1>3 DEF Shows
<1>8. /\ \A k \in 1 .. n : e[k] \in M
      /\ \A id \in M : \E k \in 1 .. n : e[k] = id
      /\ \A i \in 1 .. n : \A j \in 1 .. n :
           i < j => e[i] # e[j] /\ d[e[i]].value.owner <= d[e[j]].value.owner
    BY <1>1, <1>6 DEF Enumerates, Ranks
<1>9. s = [k \in 1 .. h |-> s[k]] /\ \A k \in 1 .. h : s[k] = d[e[k]].value.owner
    BY <1>5, <1>7
<1> HIDE DEF s
<1>10. IsSeq(s) /\ Len(s) = h
    BY <1>5, <1>9, MadeSeq
<1>11. Rising(s)
  <2>1. \A k \in 1 .. h : k \in 1 .. n /\ s[k] \in Int
    BY <1>5, <1>8, <1>9
  <2>2. ASSUME NEW j \in 1 .. h, NEW k \in 1 .. h, j <= k PROVE s[j] <= s[k]
    <3>1. CASE j = k
      BY <2>1, <3>1
    <3>2. CASE j < k
      BY <1>8, <1>9, <2>1, <3>2
    <3> QED
      BY <2>2, <3>1, <3>2
  <2> QED
    BY <1>10, <2>1, <2>2 DEF Rising
<1>12. Images(s) \subseteq names
  <2> SUFFICES ASSUME NEW k \in 1 .. h PROVE s[k] \in names
    BY <1>10 DEF Images
  <2>1. e[k] \in M
    BY <1>5, <1>8
  <2> QED
    BY <1>9, <2>1
<1>13. Enumerates(Dedup(s), Images(s), Same(Images(s)))
    BY <1>11, DedupIs
<1>14. CASE Cardinality(P) <= MaxHits
  <2> DEFINE all == [k \in 1 .. n |-> d[e[k]].value]
             by == [p \in P |-> p.owner]
  <2>1. all = [k \in 1 .. n |-> all[k]] /\ \A k \in 1 .. n : all[k] = d[e[k]].value
    OBVIOUS
  <2> HIDE DEF all
  <2>2. IsSeq(all) /\ Len(all) = n
    BY <1>5, <2>1, MadeSeq
  <2>3. \A k \in 1 .. n : all[k] \in P /\ by[all[k]] = all[k].owner
    BY <1>8, <2>1
  <2>4. \A p \in P : \E k \in 1 .. n : all[k] = p
    BY <1>8, <2>1
  <2>5. \A i \in 1 .. n : \A j \in 1 .. n :
           i < j => all[i] # all[j] /\ by[all[i]] <= by[all[j]]
    BY <1>8, <2>1, <2>3
  <2> HIDE DEF by
  <2>6. Enumerates(all, P, by)
    BY <2>2, <2>3, <2>4, <2>5 DEF Enumerates
  <2>7. Cardinality(P) = n
    BY <2>2, <2>6, CountIs
  <2>8. h = n
    BY <1>5, <1>14, <2>7
  <2>9. Images(s) = names
    <3>1. ASSUME NEW p \in P PROVE p.owner \in Images(s)
      <4>1. PICK k \in 1 .. n : all[k] = p
        BY <2>4
      <4> QED
        BY <1>9, <1>10, <2>1, <2>8, <4>1 DEF Images
    <3> QED
      BY <1>12, <3>1
  <2>10. \A x \in names : x \in Int /\ Same(names)[x] = x
    BY DEF Same
  <2>11. IsFiniteSet(names)
    BY <1>13, <2>9, CountIs
  <2> HIDE DEF names, P
  <2>12. Enumerates(Sorted(names), names, Same(names))
    BY <2>10, <2>11, OrderedEnumerates DEF Sorted, Same
  <2>13. Dedup(s) = Sorted(names)
    BY <1>13, <2>9, <2>10, <2>12, OneOrder
  <2> QED
    BY <1>4, <1>14, <2>13 DEF Answers, names, P
<1>15. CASE ~(Cardinality(P) <= MaxHits)
  <2> DEFINE u == Dedup(s)
  <2>1. u = [k \in 1 .. Len(u) |-> u[k]] /\ Len(u) \in Nat /\ \A k \in 1 .. Len(u) : u[k] \in names
    BY <1>12, <1>13 DEF Enumerates, IsSeq
  <2>2. \A i \in 1 .. Len(u) : \A j \in 1 .. Len(u) : i < j => u[i] # u[j]
    BY <1>13 DEF Enumerates
  <2> HIDE DEF u, names, P
  <2>3. Range(u) \subseteq names
    BY <2>1 DEF Range
  <2>4. IsInjective(u)
    BY <2>1, <2>2 DEF IsInjective
  <2> QED
    BY <1>4, <1>15, <2>3, <2>4 DEF Answers, u, names, P
<1> QED
    BY <1>14, <1>15
-----------------------------------------------------------------------------
(* The endpoints of accounts.                                                *)

\* An account has two permissions at most, by their names.
Named(s) == \A p \in s.perms : p.owner \in Int /\ p.name \in {"active", "extra"}

LEMMA TransferKeepsPerms ==
    ASSUME NEW s, IsState(s), NEW tx \in Transfers(s)
    PROVE  tx.after.perms = s.perms
<1>1. PICK t \in Holders \X Holders \X (1 .. 2) :
        tx = Transaction([k \in 1 .. t[3] |-> Transfer(t[1], t[2])], Move(s, t[1], t[2], t[3]))
    BY DEF Transfers
<1>2. tx.after = Move(s, t[1], t[2], t[3])
    BY <1>1 DEF Transaction
<1> QED
    BY <1>2, FieldsExcept DEF Move

LEMMA TransactionsName ==
    ASSUME NEW s, IsState(s), Named(s),
           NEW tx \in UNION {Transfers(s), Creations(s), Updates(s), Deletions(s), Deployments(s),
                             Unindexed(s)}
    PROVE  Named(tx.after)
<1>1. CASE tx \in Transfers(s)
    BY <1>1, TransferKeepsPerms DEF Named
<1>2. CASE tx \in Deployments(s)
  <2>1. PICK abi \in Abis \ {s.abi} :
          \/ tx = Transaction(<<SetAbi(abi)>>, [s EXCEPT !.abi = abi])
          \/ \E t \in Transfers(s) :
               tx = Transaction(<<SetAbi(abi), t.steps[1]>>, [t.after EXCEPT !.abi = abi])
    BY <1>2 DEF Deployments
  <2>2. CASE tx = Transaction(<<SetAbi(abi)>>, [s EXCEPT !.abi = abi])
    <3>1. tx.after = [s EXCEPT !.abi = abi]
      BY <2>2 DEF Transaction
    <3>2. tx.after.perms = s.perms
      BY <3>1, FieldsExcept
    <3> QED
      BY <3>2 DEF Named
  <2>3. ASSUME NEW t \in Transfers(s),
               tx = Transaction(<<SetAbi(abi), t.steps[1]>>, [t.after EXCEPT !.abi = abi])
        PROVE  Named(tx.after)
    <3>1. t.after.perms = s.perms /\ IsState(t.after)
      BY TransferKeepsPerms, TransfersAre DEF GoodTx
    <3>2. tx.after = [t.after EXCEPT !.abi = abi]
      BY <2>3 DEF Transaction
    <3>3. tx.after.perms = s.perms
      BY <3>1, <3>2, FieldsExcept
    <3> QED
      BY <3>3 DEF Named
  <2> QED
    BY <2>1, <2>2, <2>3
<1>3. CASE tx \in Creations(s)
  <2>1. PICK u \in Holders \X Keys : tx = Creation(s, u[1], u[2])
    BY <1>3 DEF Creations
  <2> DEFINE p == Perm(NewName, "active", [keys |-> {u[2]}, accounts |-> {}])
  <2>2. tx.after = [s EXCEPT !.perms = s.perms \cup {p}]
    BY <2>1 DEF Creation, Transaction
  <2>3. p.owner = NewName /\ p.name = "active"
    BY DEF Perm
  <2> HIDE DEF p
  <2>4. tx.after.perms = s.perms \cup {p}
    BY <2>2, FieldsExcept
  <2> QED
    BY <2>3, <2>4, HistoryAssumption DEF Named
<1>4. CASE tx \in Updates(s)
  <2>1. PICK u \in Holders \X Auths : tx = Update(s, u[1], u[2])
    BY <1>4 DEF Updates
  <2> DEFINE p == Perm(u[1], "extra", u[2])
  <2>2. tx.after = [s EXCEPT !.perms = Others(s, u[1], "extra") \cup {p}]
    BY <2>1 DEF Update, Transaction
  <2>3. p.owner = u[1] /\ p.name = "extra" /\ u[1] \in Holders
    BY DEF Perm
  <2> HIDE DEF p
  <2>4. tx.after.perms = Others(s, u[1], "extra") \cup {p}
    BY <2>2, FieldsExcept
  <2>5. Others(s, u[1], "extra") \subseteq s.perms
    BY DEF Others
  <2>6. p.owner \in Int
    <3>1. \A a \in Holders : a \in Int
      BY HistoryAssumption
    <3> QED
      BY <2>3, <3>1
  <2> QED
    BY <2>3, <2>4, <2>5, <2>6 DEF Named
<1>5. CASE tx \in Deletions(s)
  <2>1. \E o : tx = Transaction(<<Step(Act(System, "deleteauth", [owner |-> o]), <<>>)>>,
                                [s EXCEPT !.perms = Others(s, o, "extra")])
    BY <1>5 DEF Deletions
  <2>2. \E o : tx.after = [s EXCEPT !.perms = Others(s, o, "extra")]
    BY <2>1 DEF Transaction
  <2>3. \E o : tx.after.perms = Others(s, o, "extra")
    BY <2>2, FieldsExcept
  <2> QED
    BY <2>3 DEF Named, Others
<1>6. CASE tx \in Unindexed(s)
  <2>1. tx.after = s
    BY <1>6 DEF Unindexed, Transaction
  <2> QED
    BY <2>1
<1> QED
    BY <1>1, <1>2, <1>3, <1>4, <1>5, <1>6

LEMMA NamesKept == Spec => [](\A h \in 0 .. Len(chain) : Named(AfterOf(chain, h)))
<1> DEFINE NInv == \A h \in 0 .. Len(chain) : Named(AfterOf(chain, h))
<1>1. Init => NInv
  <2> SUFFICES ASSUME Init PROVE NInv
    OBVIOUS
  <2>1. Len(chain) = 0
    BY DEF Init
  <2>2. Named(Genesis)
    BY DEF Named, Genesis
  <2> QED
    BY <2>1, <2>2 DEF AfterOf
<1>2. NInv /\ IInv /\ [Next]_vars => NInv'
  <2> SUFFICES ASSUME NInv, IInv, [Next]_vars PROVE NInv'
    OBVIOUS
  <2> DEFINE s == Current
             n == Len(chain)
  <2>1. IsSeq(chain) /\ n \in Nat /\ s = AfterOf(chain, n)
    BY DEF IInv, ChainOK, IsSeq, Current, After, AfterOf
  <2>2. IsState(s) /\ Named(s)
    BY <2>1, AfterIsState DEF IInv
  <2> HIDE DEF s
  <2>3. ASSUME NEW tx \in UNION {Transfers(s), Creations(s), Updates(s), Deletions(s),
                                 Deployments(s), Unindexed(s)},
               chain' = Append(chain, Executed(s, tx))
        PROVE  NInv'
    <3> DEFINE d == Append(chain, Executed(s, tx))
    <3>1. GoodTx(tx, s) /\ Named(tx.after)
      BY <2>2, TransactionsAre, TransactionsName
    <3>2. Executed(s, tx).after.perms = tx.after.perms
      BY <2>2, <3>1, ExecutedState
    <3>3. /\ Len(d) = n + 1
          /\ \A h \in 0 .. n : AfterOf(d, h) = AfterOf(chain, h)
          /\ AfterOf(d, n + 1) = Executed(s, tx).after
      BY <2>1, AppendBlock
    <3> HIDE DEF d
    <3>4. Named(AfterOf(d, n + 1))
      BY <3>1, <3>2, <3>3 DEF Named
    <3>5. \A h \in 0 .. n + 1 : h = n + 1 \/ h \in 0 .. n
      BY <2>1
    <3>6. \A h \in 0 .. Len(d) : Named(AfterOf(d, h))
      BY <3>3, <3>4, <3>5
    <3> QED
      BY <2>3, <3>6 DEF d
  <2>4. ASSUME NEW txs, txs \subseteq UNION {Transfers(s), Creations(s), Updates(s), Deletions(s),
                                             Deployments(s), Unindexed(s)},
               Produce(txs)
        PROVE  NInv'
    <3>1. \E tx \in txs : chain' = Append(chain, Executed(s, tx))
      BY <2>4 DEF Produce, s
    <3> QED
      BY <2>3, <2>4, <3>1
  <2>5. ASSUME NEW w, Land(w) PROVE NInv'
    BY <2>5 DEF Land
  <2>6. CASE UNCHANGED vars
    BY <2>6 DEF vars
  <2>7. CASE Next
    <3>1. CASE Produce(Transfers(s))
      BY <2>4, <3>1
    <3>2. CASE Produce(Creations(s))
      BY <2>4, <3>2
    <3>3. CASE Produce(Updates(s))
      BY <2>4, <3>3
    <3>4. CASE Produce(Deletions(s))
      BY <2>4, <3>4
    <3>5. CASE Produce(Deployments(s))
      BY <2>4, <3>5
    <3>6. CASE Produce(Unindexed(s))
      BY <2>4, <3>6
    <3>7. CASE \E w \in flying : Land(w)
      BY <2>5, <3>7
    <3> QED
      BY <2>7, <3>1, <3>2, <3>3, <3>4, <3>5, <3>6, <3>7 DEF Next, s
  <2> QED
    BY <2>6, <2>7
<1> HIDE DEF NInv
<1>3. Spec => []NInv
    BY <1>1, <1>2, Invariance, PTL DEF Spec
<1> QED
    BY <1>3 DEF NInv

\* The documents of some of the permissions.
LEMMA PermsFound ==
    ASSUME IInv, SInv, Settled, NEW K \in SUBSET Current.perms
    PROVE  LET M == {id \in Ids(docs, "perm") : docs[id].value \in K} IN
           /\ IsFiniteSet(M)
           /\ \A i \in M : \A j \in M : docs[i].value = docs[j].value => i = j
           /\ {docs[id].value : id \in M} = K
<1> DEFINE M == {id \in Ids(docs, "perm") : docs[id].value \in K}
           V == {docs[id].value : id \in M}
<1>1. LiveDocs("perm") = Current.perms
    BY PermsStored
<1>2. LiveDocs("perm") = {docs[id].value : id \in Ids(docs, "perm")}
    BY DEF LiveDocs, DocsOf
<1>3. \A id \in Ids(docs, "perm") : id = PermId(docs[id].value)
  <2> SUFFICES ASSUME NEW id \in Ids(docs, "perm") PROVE id = PermId(docs[id].value)
    OBVIOUS
  <2>1. id \in DOMAIN docs /\ id[1] = "perm" /\ docs[id].value # NoValue
    BY DEF Ids, Live
  <2>2. PICK h \in Writers(chain, id) :
          Holds(AfterOf(chain, h), id, docs[id].value, docs[id].value = NoValue)
    BY <2>1, LastWriter DEF IsStateId
  <2> QED
    BY <2>1, <2>2 DEF Holds
<1>4. V = K
    BY <1>1, <1>2
<1>5. \A i \in M : \A j \in M : docs[i].value = docs[j].value => i = j
    BY <1>3
<1>6. IsFiniteSet(V)
  <2>1. IsFiniteSet(Current.perms)
    <3>1. Current = AfterOf(chain, Len(chain)) /\ Len(chain) \in 0 .. Len(chain)
      BY DEF IInv, ChainOK, IsSeq, Current, After, AfterOf
    <3> QED
      BY <3>1, AfterIsState DEF IInv, IsState
  <2> QED
    BY <1>4, <2>1, FS_Subset
<1>7. IsFiniteSet(M)
  <2> DEFINE f == [p \in V |-> PermId(p)]
  <2>1. IsFiniteSet({f[p] : p \in V})
    BY <1>6, FiniteImage
  <2>2. M \subseteq {f[p] : p \in V}
    BY <1>3
  <2> QED
    BY <2>1, <2>2, FS_Subset
<1> QED
    BY <1>4, <1>5, <1>7
LEMMA OwnersFound ==
    ASSUME IInv, SInv, Settled, NEW K \in SUBSET Current.perms, \A p \in K : p.owner \in Int
    PROVE  Answers(Owners(docs, {id \in Ids(docs, "perm") : docs[id].value \in K}), K)
<1> DEFINE M == {id \in Ids(docs, "perm") : docs[id].value \in K}
<1>1. /\ IsFiniteSet(M)
      /\ \A i \in M : \A j \in M : docs[i].value = docs[j].value => i = j
      /\ {docs[id].value : id \in M} = K
    BY PermsFound
<1>2. \A id \in M : docs[id].value.owner \in Int
    OBVIOUS
<1> HIDE DEF M
<1>3. Answers(Owners(docs, M), {docs[id].value : id \in M})
    BY <1>1, <1>2, OwnersAre
<1> QED
    BY <1>1, <1>3 DEF M

\* The permissions of an account are no more than its page holds.
LEMMA PermissionsFound ==
    ASSUME IInv, SInv, Settled, Named(Current), NEW a
    PROVE  LET found == GetAccount(docs, a).permissions IN
           {found[k] : k \in DOMAIN found} = {p \in Current.perms : p.owner = a}
<1> DEFINE K == {p \in Current.perms : p.owner = a}
           M == {id \in Ids(docs, "perm") : docs[id].value \in K}
           found == Search(docs, M, Unsorted, 0, 100)
           pair == {<<"perm", <<a, "active">>>>, <<"perm", <<a, "extra">>>>}
<1>1. IsFiniteSet(M) /\ {docs[id].value : id \in M} = K
    BY PermsFound
<1>2. LiveDocs("perm") = Current.perms
      /\ \A id \in DocsOf("perm") : id[2] = <<docs[id].value.owner, docs[id].value.name>>
    BY PermsStored
<1>3. {id \in Ids(docs, "perm") : docs[id].value.owner = a} = M
    BY <1>2 DEF LiveDocs, DocsOf
<1>4. M \subseteq pair
  <2> SUFFICES ASSUME NEW id \in Ids(docs, "perm"), docs[id].value \in K PROVE id \in pair
    OBVIOUS
  <2>1. id \in DOMAIN docs /\ id[1] = "perm" /\ docs[id].value # NoValue
    BY DEF Ids, Live
  <2>2. PICK h \in Writers(chain, id) :
          Holds(AfterOf(chain, h), id, docs[id].value, docs[id].value = NoValue)
    BY <2>1, LastWriter DEF IsStateId
  <2>3. id = PermId(docs[id].value)
    BY <2>1, <2>2 DEF Holds
  <2>4. docs[id].value.owner = a /\ docs[id].value.name \in {"active", "extra"}
    BY DEF Named
  <2> QED
    BY <2>3, <2>4 DEF PermId
<1>5. Cardinality(M) \in Nat /\ Cardinality(M) <= 2
  <2> DEFINE one == <<"perm", <<a, "active">>>>
             two == <<"perm", <<a, "extra">>>>
  <2>1. one # two
    OBVIOUS
  <2>2. pair = {one} \cup {two}
    OBVIOUS
  <2> HIDE DEF one, two, M, pair
  <2>3. IsFiniteSet({one}) /\ Cardinality({one}) = 1
    BY FS_Singleton
  <2>4. two \notin {one}
    BY <2>1
  <2>5. IsFiniteSet(pair) /\ Cardinality(pair) = 2
    BY <2>2, <2>3, <2>4, FS_AddElement
  <2> QED
    BY <1>4, <2>5, FS_Subset, FS_CardinalityType
<1>6. GetAccount(docs, a).permissions = found
    BY <1>3 DEF GetAccount
<1> HIDE DEF M, K
<1>7. Ranked(docs, M, Unsorted)
    BY <1>1 DEF Ranked, Rank, Unsorted
<1>8. Cardinality(M) <= 100 /\ 100 \in Nat
    BY <1>5
<1> DEFINE size == 100
<1>9. size \in Nat /\ Cardinality(M) <= size
    BY <1>8
<1> HIDE DEF size
<1>10. IsAll(Search(docs, M, Unsorted, 0, size), {docs[id].value : id \in M})
    BY <1>7, <1>9, SearchAll
<1>11. IsSeq(found) /\ {found[k] : k \in 1 .. Len(found)} = K
    BY <1>1, <1>10 DEF size, IsAll
<1> HIDE DEF found
<1>12. DOMAIN found = 1 .. Len(found)
    BY <1>11 DEF IsSeq
<1> QED
    BY <1>6, <1>11, <1>12 DEF K

LEMMA TokensFound ==
    ASSUME IInv, SInv, Settled, NEW a \in Holders
    PROVE  LET tokens == GetAccount(docs, a).tokens IN
           IF TokenSeen(a) = 0 THEN tokens = <<>>
           ELSE Len(tokens) = 1 /\ tokens[1].amount = TokenSeen(a)
<1> DEFINE M == TokensOf(a)
           sort == Desc("amount")
           hits(ids) == Search(docs, ids, sort, 0, MaxHits)
<1>1. GetAccount(docs, a).tokens = hits(M)
    BY DEF GetAccount, GetTokens, TokensOf, DocsOf
<1>2. MaxHits \in Nat /\ MaxHits # 0
    BY QueriesAssumption
<1>3. CASE TokenSeen(a) = 0
  <2>1. M = {}
    BY <1>3, TokensStored
  <2>2. hits({}) = <<>>
    BY <1>2, SearchNone
  <2> QED
    BY <1>1, <1>3, <2>1, <2>2
<1>4. CASE TokenSeen(a) # 0
  <2>1. PICK id \in M : M = {id} /\ docs[id].value.amount = TokenSeen(a)
    BY <1>4, TokensStored
  <2>2. docs[id].value.amount \in Int
    <3>1. id \in DOMAIN docs /\ id[1] = "token" /\ docs[id].value # NoValue
      BY <2>1 DEF TokensOf, DocsOf, Ids, Live
    <3>2. PICK h \in Writers(chain, id) :
            Holds(AfterOf(chain, h), id, docs[id].value, docs[id].value = NoValue)
      BY <3>1, LastWriter DEF IsStateId
    <3>3. PICK b \in Holders : docs[id].value.amount = AfterOf(chain, h).balance[b]
      BY <3>1, <3>2 DEF Holds
    <3>4. Keyed(AfterOf(chain, h))
      BY <3>2 DEF SInv, Writers
    <3> QED
      BY <3>3, <3>4 DEF Keyed
  <2>3. Rank(docs[id].value, sort) \in Int
    BY <2>2 DEF Rank, Desc
  <2> HIDE DEF sort
  <2>4. hits({id}) = <<docs[id].value>>
    BY <1>2, <2>3, SearchOne
  <2>5. Len(hits(M)) = 1 /\ hits(M)[1] = docs[id].value
    BY <2>1, <2>4
  <2> HIDE DEF hits, M
  <2> QED
    BY <1>1, <1>4, <2>1, <2>5
<1> QED
    BY <1>3, <1>4

\* The endpoints of accounts say what the chain's last block left: the owners
\* of a key, and of the permissions an account controls, each once and in
\* order, for more permissions than one search returns some of them; an
\* account's own permissions, all of them, and its balance as last written.
THEOREM AccountsSafety ==
    ASSUME DataMarked, Operated
    PROVE  Spec => [](Settled => AccountsExact)
<1> DEFINE NInv == \A h \in 0 .. Len(chain) : Named(AfterOf(chain, h))
<1>1. IInv /\ SInv /\ NInv => (Settled => AccountsExact)
  <2> SUFFICES ASSUME IInv, SInv, NInv, Settled PROVE AccountsExact
    OBVIOUS
  <2> DEFINE perms == Current.perms
  <2>1. Current = AfterOf(chain, Len(chain)) /\ Len(chain) \in 0 .. Len(chain)
    BY DEF IInv, ChainOK, IsSeq, Current, After, AfterOf
  <2>2. Named(Current)
    BY <2>1
  <2>3. \A p \in perms : p.owner \in Int
    BY <2>2 DEF Named
  <2>4. {docs[id].value : id \in Ids(docs, "perm")} = perms
    BY PermsStored DEF LiveDocs, DocsOf
  <2>5. ASSUME NEW key \in Keys
        PROVE  Answers(GetKeyAccounts(docs, key), {p \in perms : key \in p.keys})
    <3> DEFINE K == {p \in perms : key \in p.keys}
    <3>1. {id \in Ids(docs, "perm") : key \in docs[id].value.keys}
            = {id \in Ids(docs, "perm") : docs[id].value \in K}
      BY <2>4
    <3>2. Answers(Owners(docs, {id \in Ids(docs, "perm") : docs[id].value \in K}), K)
      BY <2>3, OwnersFound
    <3> QED
      BY <3>1, <3>2 DEF GetKeyAccounts
  <2>6. ASSUME NEW a \in Holders
        PROVE  Answers(GetControlledAccounts(docs, a),
                       {p \in perms : \E level \in p.accounts : level[1] = a})
    <3> DEFINE K == {p \in perms : \E level \in p.accounts : level[1] = a}
    <3>1. {id \in Ids(docs, "perm") : \E level \in docs[id].value.accounts : level[1] = a}
            = {id \in Ids(docs, "perm") : docs[id].value \in K}
      BY <2>4
    <3>2. Answers(Owners(docs, {id \in Ids(docs, "perm") : docs[id].value \in K}), K)
      BY <2>3, OwnersFound
    <3> QED
      BY <3>1, <3>2 DEF GetControlledAccounts
  <2> QED
    BY <2>2, <2>5, <2>6, PermissionsFound, TokensFound DEF AccountsExact
<1>2. Spec => []NInv
    BY NamesKept
<1> HIDE DEF NInv
<1> QED
    BY <1>1, <1>2, Invariance, StateInvariance, PTL

-----------------------------------------------------------------------------
(* The contract rows of a block, in their order.                             *)

Balances(s, t) == SetToSeq({BalanceRow(s, t, a) : a \in Changed(s, t)})

\* One row for each balance that changed.
LEMMA BalancesAre ==
    ASSUME NEW s, NEW t
    PROVE  LET q == Balances(s, t) IN
           /\ IsSeq(q)
           /\ \A j \in 1 .. Len(q) : \E a \in Changed(s, t) : q[j] = BalanceRow(s, t, a)
           /\ \A a \in Changed(s, t) : \E j \in 1 .. Len(q) : q[j] = BalanceRow(s, t, a)
           /\ \A i \in 1 .. Len(q) : \A j \in 1 .. Len(q) :
                q[i].data.scope = q[j].data.scope => i = j
<1> DEFINE changed == Changed(s, t)
           f == [x \in changed |-> BalanceRow(s, t, x)]
           B == {BalanceRow(s, t, x) : x \in changed}
           q == Balances(s, t)
<1>1. IsFiniteSet(changed)
    BY HistoryAssumption, FS_Subset DEF Changed
<1>2. B = {f[x] : x \in changed}
    OBVIOUS
<1>3. \A x : BalanceRow(s, t, x).data.scope = x
    BY DEF BalanceRow, Row
<1>4. \A b \in B : \E x \in changed : b = BalanceRow(s, t, x)
    OBVIOUS
<1>5. \A b \in B : \A c \in B : b.data.scope = c.data.scope => b = c
    BY <1>3, <1>4
<1>6. q = SetToSeq(B)
    BY DEF Balances
<1>7. \A x \in changed : BalanceRow(s, t, x) \in B
    OBVIOUS
<1> HIDE DEF changed, f, B, q
<1>8. IsFiniteSet(B)
    BY <1>1, <1>2, FiniteImage
<1>9. PICK n \in Nat : ExistsBijection(1 .. n, B) /\ Cardinality(B) = n
    BY <1>8, FS_CardinalityType
<1>10. PICK g : g \in Bijection(1 .. n, B)
    BY <1>9 DEF ExistsBijection
<1>11. g \in [1 .. Cardinality(B) -> B] /\ IsInjective(g)
    BY <1>9, <1>10 DEF Bijection, Injection, IsInjective
<1>12. q \in [1 .. n -> B] /\ IsInjective(q)
    BY <1>6, <1>9, <1>11 DEF SetToSeq
<1>13. q \in Seq(B) /\ \A b \in B : \E k \in 1 .. Len(q) : q[k] = b
    BY <1>6, <1>8, SetToSeqIs, SetToSeqAll
<1>14. IsSeq(q) /\ DOMAIN q = 1 .. Len(q) /\ \A k \in 1 .. Len(q) : q[k] \in B
    BY <1>13, SeqIs
<1>15. \A i \in 1 .. Len(q) : \A j \in 1 .. Len(q) : q[i].data.scope = q[j].data.scope => i = j
  <2> SUFFICES ASSUME NEW i \in 1 .. Len(q), NEW j \in 1 .. Len(q),
                      q[i].data.scope = q[j].data.scope
               PROVE  i = j
    OBVIOUS
  <2>1. q[i] = q[j]
    BY <1>5, <1>14
  <2> QED
    BY <1>12, <1>14, <2>1 DEF IsInjective
<1>16. \A j \in 1 .. Len(q) : \E a \in changed : q[j] = BalanceRow(s, t, a)
    BY <1>4, <1>14
<1>17. \A a \in changed : \E j \in 1 .. Len(q) : q[j] = BalanceRow(s, t, a)
    BY <1>7, <1>13
<1> QED
    BY <1>14, <1>15, <1>16, <1>17 DEF q, changed

\* Work without contract rows, and work that ends with those of q.
Without(w) == IsSeq(w) /\ \A k \in 1 .. Len(w) : w[k].kind # "contract_row"
EndsIn(w, q, base) ==
    /\ IsSeq(w) /\ base \in Nat /\ Len(w) = base + Len(q)
    /\ \A k \in 1 .. base : w[k].kind # "contract_row"
    /\ \A j \in 1 .. Len(q) : w[base + j] = [kind |-> "contract_row", row |-> q[j]]

LEMMA WithoutBoth ==
    ASSUME NEW a, NEW b, Without(a), Without(b)
    PROVE  Without(a \o b)
<1> DEFINE c == a \o b
<1>1. Len(a) \in Nat /\ Len(b) \in Nat
    BY DEF Without, IsSeq
<1>2. /\ IsSeq(c) /\ Len(c) = Len(a) + Len(b)
      /\ \A k \in 1 .. Len(a) : c[k] = a[k]
      /\ \A k \in 1 .. Len(b) : c[Len(a) + k] = b[k]
    BY ConcatIs DEF Without
<1> HIDE DEF c
<1>3. ASSUME NEW k \in 1 .. Len(c) PROVE c[k].kind # "contract_row"
  <2>1. CASE k <= Len(a)
    <3>1. k \in 1 .. Len(a)
      BY <1>1, <2>1
    <3> QED
      BY <1>2, <3>1 DEF Without
  <2>2. CASE ~(k <= Len(a))
    <3>1. k - Len(a) \in 1 .. Len(b) /\ Len(a) + (k - Len(a)) = k
      BY <1>1, <1>2, <2>2
    <3>2. c[k] = b[k - Len(a)]
      BY <1>2, <3>1
    <3> QED
      BY <3>1, <3>2 DEF Without
  <2> QED
    BY <2>1, <2>2
<1> QED
    BY <1>2, <1>3 DEF Without, c

LEMMA EndsAfter ==
    ASSUME NEW a, Without(a), NEW w, NEW q, IsSeq(q), NEW base, EndsIn(w, q, base)
    PROVE  EndsIn(a \o w, q, Len(a) + base)
<1> DEFINE c == a \o w
           m == Len(a) + base
<1>1. Len(a) \in Nat /\ base \in Nat /\ Len(q) \in Nat /\ Len(w) = base + Len(q)
    BY DEF Without, IsSeq, EndsIn
<1>2. /\ IsSeq(c) /\ Len(c) = Len(a) + Len(w)
      /\ \A k \in 1 .. Len(a) : c[k] = a[k]
      /\ \A k \in 1 .. Len(w) : c[Len(a) + k] = w[k]
    BY ConcatIs DEF Without, EndsIn
<1>3. m \in Nat /\ Len(c) = m + Len(q)
    BY <1>1, <1>2
<1> HIDE DEF c
<1>4. ASSUME NEW k \in 1 .. m PROVE c[k].kind # "contract_row"
  <2>1. CASE k <= Len(a)
    <3>1. k \in 1 .. Len(a)
      BY <1>1, <2>1
    <3> QED
      BY <1>2, <3>1 DEF Without
  <2>2. CASE ~(k <= Len(a))
    <3> DEFINE j == k - Len(a)
    <3>1. j \in 1 .. base /\ j \in 1 .. Len(w) /\ Len(a) + j = k
      BY <1>1, <2>2
    <3> HIDE DEF j
    <3>2. c[k] = w[j]
      BY <1>2, <3>1
    <3> QED
      BY <3>1, <3>2 DEF EndsIn
  <2> QED
    BY <2>1, <2>2
<1>5. ASSUME NEW j \in 1 .. Len(q) PROVE c[m + j] = [kind |-> "contract_row", row |-> q[j]]
  <2>1. base + j \in 1 .. Len(w) /\ m + j = Len(a) + (base + j)
    BY <1>1
  <2> HIDE DEF m
  <2>2. c[m + j] = w[base + j]
    BY <1>2, <2>1
  <2> QED
    BY <2>2 DEF EndsIn
<1> HIDE DEF m
<1>6. EndsIn(c, q, m)
    BY <1>2, <1>3, <1>4, <1>5 DEF EndsIn
<1> QED
    BY <1>6 DEF c, m

\* All but the first of some elements.
LEMMA PickRest ==
    ASSUME NEW s, IsSeq(s), NEW e, NEW K,
           \A k \in 1 .. Len(s) + 1 : k \in K <=> k # 1
    PROVE  Pick(<<e>> \o s, K) = s
<1> DEFINE n == Len(s)
           all == <<e>> \o s
           ss == [k \in DOMAIN all |-> IF k \in K THEN <<all[k]>> ELSE <<>>]
           F == CHOOSE g : IsFlat(g, ss, n + 1)
           Good(i) == /\ IsSeq(F[i + 1]) /\ Len(F[i + 1]) = i
                      /\ \A j \in 1 .. i : F[i + 1][j] = s[j]
           T == {i \in Nat : i <= n => Good(i)}
<1>1. n \in Nat
    BY DEF IsSeq
<1>0. IsSeq(<<e>>) /\ Len(<<e>>) = 1
  <2>1. <<e>> \in Seq({e}) /\ Len(<<e>>) = 1
    OBVIOUS
  <2> QED
    BY <2>1, SeqIs
<1>2. /\ IsSeq(all) /\ Len(all) = n + 1
      /\ \A k \in 1 .. n : all[k + 1] = s[k]
  <2>1. IsSeq(all) /\ Len(all) = 1 + n /\ \A k \in 1 .. n : all[1 + k] = s[k]
    BY <1>0, ConcatIs
  <2>2. 1 + n = n + 1 /\ \A k \in 1 .. n : 1 + k = k + 1
    BY <1>1
  <2> HIDE DEF all, n
  <2> QED
    BY <2>1, <2>2
<1>3. DOMAIN all = 1 .. n + 1
    BY <1>2 DEF IsSeq
<1>4. Pick(all, K) = FlattenSeq(ss)
    BY DEF Pick
<1> HIDE DEF all
<1>5. /\ ss = [k \in 1 .. n + 1 |-> ss[k]]
      /\ ss[1] = <<>> /\ \A k \in 1 .. n : ss[k + 1] = <<s[k]>>
  <2>1. \A k \in 1 .. n + 1 : ss[k] = IF k # 1 THEN <<all[k]>> ELSE <<>>
    BY <1>3
  <2>2. 1 \in 1 .. n + 1 /\ \A k \in 1 .. n : k + 1 \in 1 .. n + 1 /\ k + 1 # 1
    BY <1>1
  <2>3. ss = [k \in 1 .. n + 1 |-> ss[k]]
    BY <1>3
  <2> HIDE DEF ss
  <2> QED
    BY <1>2, <2>1, <2>2, <2>3
<1> HIDE DEF ss, n
<1>6. n + 1 \in Nat
    BY <1>1
<1>7. Len(ss) = n + 1
    BY <1>5, <1>6, MadeSeq
<1>8. FlattenSeq(ss) = F[n + 1]
  <2>1. Len(ss) # 0
    BY <1>1, <1>7
  <2> QED
    BY <1>7, <2>1 DEF FlattenSeq, IsFlat
<1>9. IsFlat(F, ss, n + 1)
    BY <1>6, FlatExists
<1> HIDE DEF F
<1>10. \A i \in 1 .. n + 1 : F[i] = IF i = 1 THEN ss[i] ELSE F[i - 1] \o ss[i]
    BY <1>9 DEF IsFlat
<1>11. 0 \in T
  <2>1. F[0 + 1] = <<>>
    BY <1>1, <1>5, <1>10
  <2>2. <<>> \in Seq({}) /\ Len(<<>>) = 0
    BY EmptySeq
  <2>3. IsSeq(<<>>)
    BY <2>2, SeqIs
  <2> QED
    BY <2>1, <2>2, <2>3
<1>12. ASSUME NEW i \in Nat, i \in T PROVE i + 1 \in T
  <2> SUFFICES ASSUME i + 1 <= n PROVE Good(i + 1)
    OBVIOUS
  <2> DEFINE f == F[i + 1]
             m == i + 1
             x == s[m]
  <2>1. IsSeq(f) /\ Len(f) = i /\ \A j \in 1 .. i : f[j] = s[j]
    BY <1>1, <1>12
  <2>2. m \in 1 .. n /\ m + 1 \in 1 .. n + 1 /\ m + 1 # 1 /\ (m + 1) - 1 = m
    BY <1>1
  <2>3. ss[m + 1] = <<x>>
    BY <1>5, <2>2
  <2>4. F[m + 1] = f \o <<x>>
    BY <1>10, <2>2, <2>3
  <2> HIDE DEF f, x
  <2> DEFINE more == f \o <<x>>
  <2>0. IsSeq(f)
    BY <2>1
  <2>5. IsSeq(more) /\ Len(more) = Len(f) + 1 /\ more[Len(f) + 1] = x
        /\ \A k \in 1 .. Len(f) : more[k] = f[k]
    BY <2>0, ConcatOne
  <2> HIDE DEF more
  <2>6. F[m + 1] = more
    BY <2>4 DEF more
  <2>7. Len(more) = i + 1 /\ more[i + 1] = x /\ \A j \in 1 .. i : more[j] = s[j]
    BY <2>1, <2>5
  <2>8. \A j \in 1 .. i + 1 : j \in 1 .. i \/ j = i + 1
    OBVIOUS
  <2>9. \A j \in 1 .. i + 1 : more[j] = s[j]
    BY <2>7, <2>8 DEF x
  <2> QED
    BY <2>5, <2>6, <2>7, <2>9
<1> HIDE DEF T
<1>13. n \in T
    BY <1>1, <1>11, <1>12, Induction
<1>14. Good(n)
    BY <1>1, <1>13 DEF T
<1>15. F[n + 1] = s
    BY <1>14 DEF IsSeq, n
<1> QED
    BY <1>4, <1>8, <1>15 DEF all

\* The rows of contracts are the balances, after one that does not parse.
LEMMA BalanceWork ==
    ASSUME DataMarked, NEW s, NEW t
    PROVE  EndsIn(RowWork([name |-> "contract_row", rows |-> ContractRows(s, t)]),
                  Balances(s, t), 0)
<1> DEFINE delta == [name |-> "contract_row", rows |-> ContractRows(s, t)]
           q == Balances(s, t)
           e == Row(TRUE, Garbage)
           all == <<e>> \o q
           K == {k \in DOMAIN all : all[k].data # Garbage}
           W == RowWork(delta)
<1>1. /\ IsSeq(q)
      /\ \A j \in 1 .. Len(q) : \E a \in Changed(s, t) : q[j] = BalanceRow(s, t, a)
    BY BalancesAre
<1>2. ContractRows(s, t) = all
    BY DEF ContractRows, Balances, Changed
<1>3. RowWork(delta) = [k \in DOMAIN Pick(all, K) |-> [kind |-> "contract_row", row |-> Pick(all, K)[k]]]
    BY <1>2 DEF RowWork
<1>4. e.data = Garbage
    BY DEF Row
<1>5. \A j \in 1 .. Len(q) : q[j].data # Garbage
    BY <1>1 DEF DataMarked
<1> HIDE DEF e, q, W
<1>6. IsSeq(<<e>>) /\ Len(<<e>>) = 1 /\ <<e>>[1] = e
  <2>1. <<e>> \in Seq({e}) /\ Len(<<e>>) = 1 /\ <<e>>[1] = e
    OBVIOUS
  <2> QED
    BY <2>1, SeqIs
<1>7. /\ IsSeq(all) /\ Len(all) = Len(q) + 1 /\ all[1] = e
      /\ \A j \in 1 .. Len(q) : all[j + 1] = q[j]
  <2> DEFINE one == <<e>>
  <2>0. IsSeq(one)
    BY <1>6
  <2>1. Len(one) = 1 /\ one[1] = e /\ 1 \in 1 .. Len(one) /\ Len(q) \in Nat
    BY <1>1, <1>6 DEF IsSeq
  <2> HIDE DEF one
  <2>2. /\ IsSeq(one \o q) /\ Len(one \o q) = Len(one) + Len(q)
        /\ \A k \in 1 .. Len(one) : (one \o q)[k] = one[k]
        /\ \A k \in 1 .. Len(q) : (one \o q)[Len(one) + k] = q[k]
    BY <1>1, <2>0, ConcatIs
  <2>3. all = one \o q
    BY DEF one
  <2> HIDE DEF all
  <2>4. Len(one) + Len(q) = Len(q) + 1 /\ \A j \in 1 .. Len(q) : Len(one) + j = j + 1
    BY <2>1
  <2> QED
    BY <2>1, <2>2, <2>3, <2>4
<1>8. \A k \in 1 .. Len(q) + 1 : k \in K <=> k # 1
  <2> HIDE DEF all
  <2> SUFFICES ASSUME NEW k \in 1 .. Len(q) + 1 PROVE k \in K <=> k # 1
    OBVIOUS
  <2>1. k \in DOMAIN all /\ Len(q) \in Nat
    BY <1>1, <1>7 DEF IsSeq
  <2>2. CASE k = 1
    BY <1>4, <1>7, <2>2
  <2>3. CASE k # 1
    <3>1. k - 1 \in 1 .. Len(q) /\ (k - 1) + 1 = k
      BY <2>1, <2>3
    <3>2. all[k] = q[k - 1]
      BY <1>7, <3>1
    <3>3. all[k].data # Garbage
      BY <1>5, <3>1, <3>2
    <3> QED
      BY <2>1, <2>3, <3>3
  <2> QED
    BY <2>2, <2>3
<1> HIDE DEF K
<1>9. Pick(all, K) = q
    BY <1>1, <1>8, PickRest
<1> HIDE DEF all
<1>10. Len(q) \in Nat /\ DOMAIN q = 1 .. Len(q)
    BY <1>1 DEF IsSeq
<1>11. /\ W = [k \in 1 .. Len(q) |-> W[k]]
       /\ \A k \in 1 .. Len(q) : W[k] = [kind |-> "contract_row", row |-> q[k]]
    BY <1>3, <1>9, <1>10 DEF W
<1>12. IsSeq(W) /\ Len(W) = Len(q)
    BY <1>10, <1>11, MadeSeq
<1>13. \A j \in 1 .. Len(q) : W[0 + j] = [kind |-> "contract_row", row |-> q[j]]
    BY <1>11
<1>14. Len(W) = 0 + Len(q) /\ 1 .. 0 = {}
    BY <1>10, <1>12
<1>15. EndsIn(W, q, 0)
    BY <1>12, <1>13, <1>14 DEF EndsIn
<1> QED
    BY <1>15 DEF W, q

LEMMA OtherWork ==
    ASSUME NEW delta, NEW s, NEW t, HasRows(delta.rows, delta.name, s, t),
           delta.name # "contract_row"
    PROVE  Without(RowWork(delta))
<1> DEFINE w == RowWork(delta)
           name == delta.name
<1>1. WorkOn(w, {name}, s, t)
    BY RowWorkIs
<1> HIDE DEF w, name
<1>2. IsSeq(w) /\ \A k \in 1 .. Len(w) : w[k].kind \in {name}
    BY <1>1 DEF WorkOn
<1>3. name # "contract_row"
    BY DEF name
<1> QED
    BY <1>2, <1>3 DEF Without, w

LEMMA RowsEnd ==
    ASSUME DataMarked, NEW s, NEW t, IsFiniteSet(s.perms), IsFiniteSet(t.perms)
    PROVE  \E base : EndsIn(RowsWork(DeltasOf(s, t)), Balances(s, t), base)
<1> DEFINE D == DeltasOf(s, t)
           q == Balances(s, t)
           usage == <<Row(TRUE, [name |-> Token])>>
           ss == [n \in DOMAIN D |-> RowWork(D[n])]
<1>1. /\ D = [k \in 1 .. 4 |-> D[k]]
      /\ D[1] = [name |-> "account", rows |-> AccountRows(s, t)]
      /\ D[2] = [name |-> "permission", rows |-> PermissionRows(s, t)]
      /\ D[3] = [name |-> "resource_usage", rows |-> usage]
      /\ D[4] = [name |-> "contract_row", rows |-> ContractRows(s, t)]
    BY DEF DeltasOf
<1>2. /\ HasRows(AccountRows(s, t), "account", s, t)
      /\ HasRows(PermissionRows(s, t), "permission", s, t)
      /\ HasRows(usage, "resource_usage", s, t)
    BY AccountRowsAre, PermissionRowsAre
<1>3. EndsIn(RowWork(D[4]), q, 0)
  <2> HIDE DEF D
  <2> QED
    BY <1>1, BalanceWork
<1>4. IsSeq(q)
    BY BalancesAre
<1> HIDE DEF D, q, usage
<1>5. Without(RowWork(D[1])) /\ Without(RowWork(D[2])) /\ Without(RowWork(D[3]))
  <2>1. /\ HasRows(D[1].rows, D[1].name, s, t) /\ D[1].name # "contract_row"
        /\ HasRows(D[2].rows, D[2].name, s, t) /\ D[2].name # "contract_row"
        /\ HasRows(D[3].rows, D[3].name, s, t) /\ D[3].name # "contract_row"
    BY <1>1, <1>2
  <2> QED
    BY <2>1, OtherWork
<1>6. /\ ss = [k \in 1 .. 4 |-> ss[k]]
      /\ ss[1] = RowWork(D[1]) /\ ss[2] = RowWork(D[2])
      /\ ss[3] = RowWork(D[3]) /\ ss[4] = RowWork(D[4])
  <2>1. DOMAIN D = 1 .. 4
    BY <1>1
  <2> QED
    BY <2>1
<1> HIDE DEF ss
<1>7. IsSeq(ss) /\ Len(ss) = 4
  <2>1. 4 \in Nat
    OBVIOUS
  <2> QED
    BY <1>6, <2>1, MadeSeq
<1> DEFINE a == (ss[1] \o ss[2]) \o ss[3]
<1>8. FlattenSeq(ss) = a \o ss[4]
    BY <1>7, FlattenFour
<1>9. Without(a)
    BY <1>5, <1>6, WithoutBoth
<1> HIDE DEF a
<1>10. EndsIn(a \o ss[4], q, Len(a) + 0)
    BY <1>3, <1>4, <1>6, <1>9, EndsAfter
<1>11. RowsWork(D) = a \o ss[4]
    BY <1>8 DEF RowsWork, ss
<1>12. \E base : EndsIn(RowsWork(D), q, base)
    BY <1>10, <1>11
<1> QED
    BY <1>12 DEF D, q

\* The work of a block ends with its contract rows.
LEMMA WorkEnds ==
    ASSUME DataMarked, NEW height, NEW s, NEW tx, Runs(tx),
           IsFiniteSet(s.perms), IsFiniteSet(tx.after.perms)
    PROVE  \E base : EndsIn(Work(Reported(height, s, tx)), Balances(s, tx.after), base)
<1> DEFINE block == Reported(height, s, tx)
           said == [id |-> height, status |-> tx.status, traces |-> TracesOf(tx, s.sequence),
                    signatures |-> {}]
           A == ActionWork(said)
           R == RowsWork(DeltasOf(s, tx.after))
           q == Balances(s, tx.after)
           groups == Groups(said)
<1>1. Without(A)
  <2>1. CASE tx.status # 0
    <3>1. A = <<>>
      BY <2>1 DEF ActionWork
    <3>2. <<>> \in Seq({}) /\ Len(<<>>) = 0
      BY EmptySeq
    <3>3. IsSeq(A) /\ Len(A) = 0
      BY <3>1, <3>2, SeqIs
    <3> HIDE DEF A
    <3>4. 1 .. Len(A) = {}
      BY <3>3
    <3> QED
      BY <3>3, <3>4 DEF Without
  <2>2. CASE tx.status = 0
    <3>1. IsSeq(said.traces)
      BY TracesAre DEF Runs
    <3>2. A = [k \in DOMAIN groups |-> [kind |-> "action", tx |-> said, group |-> groups[k]]]
      BY <2>2 DEF ActionWork
    <3> HIDE DEF said, A
    <3>3. IsSeq(groups)
      BY <3>1, GroupsAre DEF Grouped
    <3> HIDE DEF groups
    <3>4. Len(groups) \in Nat /\ DOMAIN groups = 1 .. Len(groups)
      BY <3>3 DEF IsSeq
    <3>5. A = [k \in 1 .. Len(groups) |-> A[k]] /\ \A k \in 1 .. Len(groups) : A[k].kind = "action"
      BY <3>2, <3>4
    <3>6. IsSeq(A) /\ Len(A) = Len(groups)
      BY <3>4, <3>5, MadeSeq
    <3>7. \A k \in 1 .. Len(A) : A[k].kind # "contract_row"
      BY <3>5, <3>6
    <3> QED
      BY <3>6, <3>7 DEF Without
  <2> QED
    BY <2>1, <2>2
<1>2. PICK base : EndsIn(R, q, base)
    BY RowsEnd
<1>3. IsSeq(q)
    BY BalancesAre
<1>4. Work(block) = A \o R
  <2>1. block.traces = <<said>> /\ block.deltas = DeltasOf(s, tx.after)
    BY DEF Reported
  <2>2. [k \in DOMAIN <<said>> |-> ActionWork(<<said>>[k])] = <<A>>
    OBVIOUS
  <2> DEFINE S == {A[k] : k \in 1 .. Len(A)}
  <2> HIDE DEF A
  <2>3. A \in Seq(S)
    BY <1>1, SeqOver DEF Without
  <2>4. FlattenSeq(<<A>>) = A
    BY <2>3, FlattenOne
  <2> HIDE DEF said, S, block
  <2> QED
    BY <2>1, <2>2, <2>4 DEF Work, RowsWork, A
<1> HIDE DEF A, R, q, block
<1>5. EndsIn(A \o R, q, Len(A) + base)
    BY <1>1, <1>2, <1>3, EndsAfter
<1>6. \E b : EndsIn(Work(block), q, b)
    BY <1>4, <1>5
<1> QED
    BY <1>6 DEF block, q

-----------------------------------------------------------------------------
(* The documents that are written once: of ABIs, contract rows and actions.  *)

NewAbi(s, t) == s.abi # t.abi /\ Usable(t.abi) # {}
AbiId(h) == <<"abi", <<h, Token>>>>
AbiOf(h, abi) == [block_num |-> h, account |-> Token, abi |-> Usable(abi)]

DeltaId(h, j) == <<"delta", <<h, j - 1>>>>
DeltaOf(h, row, data) ==
    [block_num |-> h, code |-> row.data.code, scope |-> row.data.scope,
     table |-> row.data.table, present |-> row.present, data |-> data]

\* The data of an action that the system contract's ABI describes.
Plain(value, act) == act.account = System /\ act.name \in SystemAbi => value.data = act.data

\* What such a document of block h says, where tx turned s into t.
RecordOf(id, value, h, s, t, tx) ==
    /\ id[1] = "abi" => NewAbi(s, t) /\ id = AbiId(h) /\ value = AbiOf(h, t.abi)
    /\ id[1] = "delta" =>
         \E j \in 1 .. Len(Balances(s, t)) :
            id = DeltaId(h, j) /\ value = DeltaOf(h, Balances(s, t)[j], value.data)
    /\ id[1] = "action" =>
         \E g \in 1 .. Len(Groups(tx)) :
            /\ OfGroup(id, value, h, tx, Groups(tx)[g])
            /\ Plain(value, Primary(Groups(tx)[g]).act)

Record(doc, h, s, t, tx) ==
    doc.id[1] \in {"abi", "delta", "action"} =>
        doc.op = "index" /\ RecordOf(doc.id, doc.value, h, s, t, tx)

Records(made, h, s, t, tx) == IsSeq(made) /\ \A k \in 1 .. Len(made) : Record(made[k], h, s, t, tx)

\* The cache knows the system contract's ABI.
Cached(known) == IsCache(known) /\ known[System] = SystemAbi

LEMMA RecordAppend ==
    ASSUME NEW made, NEW h, NEW s, NEW t, NEW tx, NEW doc,
           Records(made, h, s, t, tx), Record(doc, h, s, t, tx)
    PROVE  /\ Records(Append(made, doc), h, s, t, tx)
           /\ Longer(made, Append(made, doc))
           /\ HasId(Append(made, doc), doc.id)
<1> DEFINE more == Append(made, doc)
<1>1. Len(made) \in Nat
    BY DEF Records, IsSeq
<1>2. /\ IsSeq(more) /\ Len(more) = Len(made) + 1
      /\ \A k \in 1 .. Len(made) : more[k] = made[k]
      /\ more[Len(made) + 1] = doc
    BY AppendIs DEF Records
<1> HIDE DEF more
<1>3. ASSUME NEW k \in 1 .. Len(more) PROVE Record(more[k], h, s, t, tx)
  <2>1. k \in 1 .. Len(made) \/ k = Len(made) + 1
    BY <1>1, <1>2
  <2> QED
    BY <1>2, <2>1 DEF Records
<1>4. Longer(made, more)
    BY <1>1, <1>2 DEF Longer
<1>5. HasId(more, doc.id)
  <2>1. Len(made) + 1 \in 1 .. Len(more)
    BY <1>1, <1>2
  <2> QED
    BY <1>2, <2>1 DEF HasId
<1>6. Records(more, h, s, t, tx)
    BY <1>2, <1>3 DEF Records
<1> QED
    BY <1>4, <1>5, <1>6 DEF more

LEMMA RecordSame ==
    ASSUME NEW made
    PROVE  Longer(made, made)
BY DEF Longer

LEMMA CachedSet ==
    ASSUME Operated, NEW known, Cached(known), NEW v
    PROVE  Cached([known EXCEPT ![Token] = v])
BY DEF Cached, IsCache, Operated

LEMMA OrdinalKept ==
    ASSUME NEW h, NEW acc, NEW item, item.kind # "contract_row"
    PROVE  Process(h, acc, item).ordinal = acc.ordinal
<1>1. CASE item.kind = "action"
    BY <1>1 DEF Process, ProcessGroup
<1>2. CASE item.kind = "account"
    BY <1>2 DEF Process, ProcessAccountRow
<1>3. CASE item.kind = "permission"
    BY <1>3 DEF Process, ProcessPermissionRow
<1>4. CASE item.kind \notin {"action", "account", "permission"}
    BY <1>4 DEF Process
<1> QED
    BY <1>1, <1>2, <1>3, <1>4

LEMMA RecordActionStep ==
    ASSUME Operated, NEW h, NEW s, NEW t, NEW tx, NEW acc,
           NEW g \in 1 .. Len(Groups(tx)),
           LET act == Primary(Groups(tx)[g]).act IN SetsAbi(act) => act.data.account = Token,
           Records(acc.docs, h, s, t, tx), Cached(acc.abis)
    PROVE  LET new == Process(h, acc, ActionItem(tx, g)) IN
           /\ Records(new.docs, h, s, t, tx) /\ Longer(acc.docs, new.docs)
           /\ Cached(new.abis)
<1> DEFINE group == Groups(tx)[g]
           primary == Primary(group)
           act == primary.act
           abis0 == ApplySetabi(acc.abis, act)
           data == Decoded(abis0, act.account, act.name, act.data)
           value == ActionDoc(h, tx, group, data)
           doc == Index("action", primary.sequence, value)
           item == ActionItem(tx, g)
           new == Process(h, acc, item)
<1>1. item.kind = "action" /\ item.tx = tx /\ item.group = group
    BY DEF ActionItem
<1>2. new = ProcessGroup(h, tx, acc, group)
    BY <1>1 DEF Process
<1>3. SetsAbi(act) => act.data.account = Token
    BY <1>1
<1>4. CASE Skipped(group)
  <2>1. new = acc
    BY <1>2, <1>4 DEF ProcessGroup, Skipped
  <2> QED
    BY <2>1, RecordSame
<1>5. CASE ~Skipped(group)
  <2>1. new.docs = Append(acc.docs, doc) /\ new.abis = abis0
    BY <1>2, <1>5 DEF ProcessGroup, Skipped
  <2>2. IF SetsAbi(act) THEN abis0 = [acc.abis EXCEPT ![Token] = Usable(act.data.abi)]
        ELSE abis0 = acc.abis
    BY <1>3 DEF ApplySetabi, SetsAbi
  <2> HIDE DEF abis0
  <2>3. Cached(abis0)
    BY <2>2, CachedSet
  <2>4. Plain(value, act)
    <3>1. value.data = data
      BY DEF ActionDoc
    <3>2. act.account = System /\ act.name \in SystemAbi => data = act.data
      BY <2>3 DEF Decoded, Cached
    <3> HIDE DEF value, data, act
    <3> QED
      BY <3>1, <3>2 DEF Plain
  <2>5. value = ActionDoc(h, tx, group, value.data)
    BY DEF ActionDoc
  <2>6. doc.op = "index" /\ doc.id = <<"action", primary.sequence>> /\ doc.value = value
    BY DEF Index
  <2> HIDE DEF value, data, doc, new
  <2>7. OfGroup(doc.id, doc.value, h, tx, group)
    BY <1>5, <2>5, <2>6 DEF OfGroup
  <2>8. doc.id[1] = "action"
    BY <2>6
  <2>9. RecordOf(doc.id, doc.value, h, s, t, tx)
    BY <2>4, <2>6, <2>7, <2>8 DEF RecordOf
  <2>10. Record(doc, h, s, t, tx)
    BY <2>6, <2>9 DEF Record
  <2>11. Records(new.docs, h, s, t, tx) /\ Longer(acc.docs, new.docs)
    BY <2>1, <2>10, RecordAppend
  <2> QED
    BY <2>1, <2>3, <2>11 DEF new
<1> QED
    BY <1>4, <1>5

LEMMA RecordRowStep ==
    ASSUME Operated, NEW h, NEW s, NEW t, NEW tx, NEW acc, NEW item,
           item.kind \in Kinds \ {"contract_row"}, RowOf(item.kind, item.row, s, t),
           Records(acc.docs, h, s, t, tx), Cached(acc.abis)
    PROVE  LET new == Process(h, acc, item) IN
           /\ Records(new.docs, h, s, t, tx) /\ Longer(acc.docs, new.docs)
           /\ Cached(new.abis)
           /\ item.kind = "account" /\ NewAbi(s, t) => HasId(new.docs, AbiId(h))
<1> DEFINE new == Process(h, acc, item)
<1>0. Usable({}) = {}
    BY DEF Usable
<1>1. CASE item.kind = "account"
  <2> DEFINE abi == Usable(t.abi)
             value == AbiOf(h, t.abi)
             doc == Index("abi", <<h, Token>>, value)
  <2>1. s.abi # t.abi /\ item.row = Row(TRUE, [name |-> Token, abi |-> t.abi])
    BY <1>1 DEF RowOf
  <2>2. item.row.present /\ item.row.data.name = Token /\ item.row.data.abi = t.abi
    BY <2>1 DEF Row
  <2>3. new = ProcessAccountRow(h, acc, item.row)
    BY <1>1 DEF Process
  <2>4. CASE t.abi = {}
    <3>1. new = acc
      BY <2>2, <2>3, <2>4 DEF ProcessAccountRow
    <3>2. ~NewAbi(s, t)
      BY <1>0, <2>4 DEF NewAbi
    <3> QED
      BY <3>1, <3>2, RecordSame
  <2>5. CASE t.abi # {}
    <3>1. /\ new.docs = IF abi = {} THEN acc.docs ELSE Append(acc.docs, doc)
          /\ new.abis = [acc.abis EXCEPT ![Token] = abi]
      BY <2>2, <2>3, <2>5 DEF ProcessAccountRow, AbiOf
    <3>2. Cached(new.abis)
      BY <3>1, CachedSet
    <3>3. CASE abi = {}
      <4>1. new.docs = acc.docs /\ ~NewAbi(s, t)
        BY <3>1, <3>3 DEF NewAbi
      <4> QED
        BY <3>1, <3>2, <4>1, RecordSame
    <3>4. CASE abi # {}
      <4>1. NewAbi(s, t)
        BY <2>1, <3>4 DEF NewAbi
      <4>2. doc.op = "index" /\ doc.id = AbiId(h) /\ doc.value = value /\ doc.id[1] = "abi"
        BY DEF Index, AbiId
      <4> HIDE DEF doc, new
      <4>3. Record(doc, h, s, t, tx)
        BY <4>1, <4>2 DEF Record, RecordOf
      <4>4. new.docs = Append(acc.docs, doc)
        BY <3>1, <3>4
      <4>5. /\ Records(new.docs, h, s, t, tx) /\ Longer(acc.docs, new.docs)
            /\ HasId(new.docs, AbiId(h))
        BY <4>2, <4>3, <4>4, RecordAppend
      <4> QED
        BY <3>1, <3>2, <4>5 DEF new
    <3> QED
      BY <3>3, <3>4
  <2> QED
    BY <2>4, <2>5
<1>2. CASE item.kind = "permission"
  <2> DEFINE key == <<item.row.data.owner, item.row.data.name>>
             doc == IF item.row.present THEN Index("perm", key, item.row.data) ELSE Delete("perm", key)
  <2>1. new.docs = Append(acc.docs, doc) /\ new.abis = acc.abis
    BY <1>2 DEF Process, ProcessPermissionRow
  <2>2. doc.id[1] = "perm"
    BY DEF Index, Delete
  <2> HIDE DEF doc, new
  <2>3. Record(doc, h, s, t, tx)
    BY <2>2 DEF Record
  <2>4. Records(new.docs, h, s, t, tx) /\ Longer(acc.docs, new.docs)
    BY <2>1, <2>3, RecordAppend
  <2> QED
    BY <1>2, <2>1, <2>4 DEF new
<1>3. CASE item.kind = "resource_usage"
  <2>1. new = acc
    BY <1>3 DEF Process
  <2> QED
    BY <1>3, <2>1, RecordSame
<1> QED
    BY <1>1, <1>2, <1>3 DEF Kinds

\* A contract row, the j-th of its block.
LEMMA RecordDeltaStep ==
    ASSUME NEW h, NEW s, NEW t, NEW tx, NEW acc, NEW item,
           NEW j \in 1 .. Len(Balances(s, t)),
           item = [kind |-> "contract_row", row |-> Balances(s, t)[j]], acc.ordinal = j - 1,
           Records(acc.docs, h, s, t, tx), Cached(acc.abis)
    PROVE  LET new == Process(h, acc, item) IN
           /\ Records(new.docs, h, s, t, tx) /\ Longer(acc.docs, new.docs)
           /\ Cached(new.abis) /\ new.ordinal = j
           /\ HasId(new.docs, DeltaId(h, j))
<1> DEFINE new == Process(h, acc, item)
           row == item.row
           data == Decoded(acc.abis, row.data.code, row.data.table, row.data.value)
           value == DeltaOf(h, row, data)
           delta == Index("delta", <<h, acc.ordinal>>, value)
           token == TokenDoc(h, row, data)
           more == Append(acc.docs, delta)
           balance == data # NoValue /\ row.data.table = "accounts" /\ {"symbol", "amount"} \subseteq DOMAIN data
           made == [docs |-> IF balance THEN Append(more, token) ELSE more, abis |-> acc.abis,
                    ordinal |-> acc.ordinal + 1]
<1>1. item.kind = "contract_row" /\ row = Balances(s, t)[j]
    OBVIOUS
<1>2. new = ProcessContractRow(h, acc, row)
    BY <1>1 DEF Process
<1>3. /\ new.docs = more \/ new.docs = Append(more, token)
      /\ new.abis = acc.abis /\ new.ordinal = acc.ordinal + 1
  <2>1. new = made
    BY <1>2, Zenon DEF ProcessContractRow, DeltaOf
  <2> HIDE DEF new, balance, more, token
  <2> QED
    BY <2>1
<1>4. delta.op = "index" /\ delta.id = DeltaId(h, j) /\ delta.value = value /\ delta.id[1] = "delta"
    BY DEF Index, DeltaId
<1>5. value = DeltaOf(h, row, value.data)
    BY DEF DeltaOf
<1>6. token.id[1] = "token"
    BY DEF TokenDoc, Index, Delete
<1>7. j - 1 + 1 = j
    BY BalancesAre DEF IsSeq
<1> HIDE DEF new, row, data, value, delta, token
<1>8. RecordOf(delta.id, delta.value, h, s, t, tx)
    BY <1>1, <1>4, <1>5 DEF RecordOf
<1>9. Record(delta, h, s, t, tx)
    BY <1>4, <1>8 DEF Record
<1>10. Record(token, h, s, t, tx)
    BY <1>6 DEF Record
<1>11. Records(more, h, s, t, tx) /\ Longer(acc.docs, more) /\ HasId(more, DeltaId(h, j))
    BY <1>4, <1>9, RecordAppend
<1> DEFINE most == Append(more, token)
<1> HIDE DEF more
<1>12. Records(most, h, s, t, tx) /\ Longer(more, most)
    BY <1>10, <1>11, RecordAppend
<1>13. HasId(most, DeltaId(h, j))
    BY <1>11, <1>12, HasIdKept
<1>14. Longer(acc.docs, most)
    BY <1>11, <1>12 DEF Longer
<1> HIDE DEF most
<1>15. new.docs = more \/ new.docs = most
    BY <1>3 DEF most
<1> QED
    BY <1>3, <1>7, <1>11, <1>12, <1>13, <1>14, <1>15 DEF new

\* The marks of what is absent and of what does not parse are no documents,
\* and no data of these.
RecordsMarked ==
    /\ \A abi : [name |-> Token, abi |-> abi] # Garbage
    /\ \A h, abi : AbiOf(h, abi) # NoValue
    /\ \A h, row, data : DeltaOf(h, row, data) # NoValue

\* The documents of its ABI and its contract rows that a block has to write.
RecordIds(h, s, t) ==
    {id \in {AbiId(h)} : NewAbi(s, t)} \cup {DeltaId(h, j) : j \in 1 .. Len(Balances(s, t))}

\* The loop of a block after the first k items, of which those beyond base are
\* contract rows.
RecordsSoFar(acc, work, k, base, h, s, t, tx) ==
    /\ Records(acc.docs, h, s, t, tx) /\ Cached(acc.abis)
    /\ acc.ordinal = IF k <= base THEN 0 ELSE k - base
    /\ \A j \in 1 .. Len(Balances(s, t)) : base + j <= k => HasId(acc.docs, DeltaId(h, j))
    /\ NewAbi(s, t) => \A m \in 1 .. k : work[m].kind = "account" => HasId(acc.docs, AbiId(h))

LEMMA SoFarRecord ==
    ASSUME Operated, NEW h, NEW s, NEW t, NEW tx, NEW acc, NEW work, NEW base,
           EndsIn(work, Balances(s, t), base), NEW m \in Nat, m + 1 \in 1 .. Len(work),
           \/ \E g \in 1 .. Len(Groups(tx)) :
                /\ work[m + 1] = ActionItem(tx, g)
                /\ LET act == Primary(work[m + 1].group).act IN
                   SetsAbi(act) => act.data.account = Token
           \/ work[m + 1].kind \in Kinds /\ RowOf(work[m + 1].kind, work[m + 1].row, s, t),
           RecordsSoFar(acc, work, m, base, h, s, t, tx)
    PROVE  RecordsSoFar(Process(h, acc, work[m + 1]), work, m + 1, base, h, s, t, tx)
<1> DEFINE k == m + 1
           item == work[k]
           new == Process(h, acc, item)
           q == Balances(s, t)
<1>1. /\ Records(acc.docs, h, s, t, tx) /\ Cached(acc.abis)
      /\ acc.ordinal = IF m <= base THEN 0 ELSE m - base
      /\ \A j \in 1 .. Len(q) : base + j <= m => HasId(acc.docs, DeltaId(h, j))
      /\ NewAbi(s, t) => \A i \in 1 .. m : work[i].kind = "account" => HasId(acc.docs, AbiId(h))
    BY DEF RecordsSoFar
<1>2. /\ base \in Nat /\ Len(work) = base + Len(q)
      /\ \A i \in 1 .. base : work[i].kind # "contract_row"
      /\ \A j \in 1 .. Len(q) : work[base + j] = [kind |-> "contract_row", row |-> q[j]]
    BY DEF EndsIn
<1>3. Len(q) \in Nat
    BY BalancesAre DEF IsSeq
<1>4. \/ \E g \in 1 .. Len(Groups(tx)) :
           /\ item = ActionItem(tx, g)
           /\ SetsAbi(Primary(item.group).act) => Primary(item.group).act.data.account = Token
      \/ item.kind \in Kinds /\ RowOf(item.kind, item.row, s, t)
    OBVIOUS
<1>5. k \in Nat /\ k \in 1 .. base + Len(q) /\ \A i \in 1 .. k : i \in 1 .. m \/ i = k
    BY <1>2
<1> HIDE DEF q
<1>6. CASE k <= base
  <2>1. k \in 1 .. base
    BY <1>5, <1>6
  <2>2. item.kind # "contract_row"
    BY <1>2, <2>1
  <2> HIDE DEF item
  <2>3. /\ Records(new.docs, h, s, t, tx) /\ Longer(acc.docs, new.docs)
        /\ Cached(new.abis)
        /\ item.kind = "account" /\ NewAbi(s, t) => HasId(new.docs, AbiId(h))
    <3>1. CASE item.kind \in Kinds /\ RowOf(item.kind, item.row, s, t)
      BY <1>1, <2>2, <3>1, RecordRowStep
    <3>2. CASE \E g \in 1 .. Len(Groups(tx)) :
                 /\ item = ActionItem(tx, g)
                 /\ SetsAbi(Primary(item.group).act) => Primary(item.group).act.data.account = Token
      <4>1. ASSUME NEW g \in 1 .. Len(Groups(tx)), item = ActionItem(tx, g),
                   SetsAbi(Primary(item.group).act) =>
                       Primary(item.group).act.data.account = Token
            PROVE  /\ Records(new.docs, h, s, t, tx) /\ Longer(acc.docs, new.docs)
                   /\ Cached(new.abis) /\ item.kind = "action"
        <5> DEFINE next == Process(h, acc, ActionItem(tx, g))
        <5>1. item.kind = "action" /\ item.group = Groups(tx)[g]
          BY <4>1 DEF ActionItem
        <5>2. LET act == Primary(Groups(tx)[g]).act IN SetsAbi(act) => act.data.account = Token
          BY <4>1, <5>1
        <5>3. Records(acc.docs, h, s, t, tx) /\ Cached(acc.abis)
          BY <1>1
        <5>4. /\ Records(next.docs, h, s, t, tx) /\ Longer(acc.docs, next.docs)
              /\ Cached(next.abis)
          BY <5>2, <5>3, RecordActionStep
        <5>5. new = next
          BY <4>1
        <5> HIDE DEF new, next
        <5> QED
          BY <5>1, <5>4, <5>5
      <4> QED
        BY <3>2, <4>1
    <3> QED
      BY <1>4, <3>1, <3>2
  <2>0. new.ordinal = acc.ordinal
    BY <2>2, OrdinalKept
  <2>4. m <= base /\ \A j \in 1 .. Len(q) : ~(base + j <= k)
    BY <1>2, <1>3, <1>5, <1>6
  <2> HIDE DEF new
  <2>5. new.ordinal = IF k <= base THEN 0 ELSE k - base
    BY <1>1, <1>6, <2>0, <2>4
  <2>6. ASSUME NewAbi(s, t), NEW i \in 1 .. k, work[i].kind = "account"
        PROVE  HasId(new.docs, AbiId(h))
    <3>1. CASE i = k
      BY <2>3, <2>6, <3>1 DEF item
    <3>2. CASE i \in 1 .. m
      BY <1>1, <2>3, <2>6, <3>2, HasIdKept
    <3> QED
      BY <1>5, <3>1, <3>2
  <2> HIDE DEF k
  <2>7. RecordsSoFar(new, work, k, base, h, s, t, tx)
    BY <2>3, <2>4, <2>5, <2>6 DEF RecordsSoFar, q
  <2> QED
    BY <2>7 DEF new, item, k
<1>7. CASE ~(k <= base)
  <2> DEFINE j == k - base
  <2>1. j \in 1 .. Len(q) /\ base + j = k
    BY <1>2, <1>3, <1>5, <1>7
  <2>2. acc.ordinal = j - 1
    <3>1. CASE m <= base
      BY <1>1, <1>2, <1>7, <3>1
    <3>2. CASE ~(m <= base)
      BY <1>1, <1>2, <3>2
    <3> QED
      BY <3>1, <3>2
  <2> HIDE DEF j, k
  <2>3. item = [kind |-> "contract_row", row |-> q[j]]
    BY <1>2, <2>1
  <2> HIDE DEF item
  <2>4. /\ Records(new.docs, h, s, t, tx) /\ Longer(acc.docs, new.docs)
        /\ Cached(new.abis) /\ new.ordinal = j
        /\ HasId(new.docs, DeltaId(h, j))
    BY <1>1, <2>1, <2>2, <2>3, RecordDeltaStep DEF q
  <2> HIDE DEF new
  <2>5. ASSUME NEW i \in 1 .. Len(q), base + i <= k
        PROVE  HasId(new.docs, DeltaId(h, i))
    <3>1. CASE i = j
      BY <2>4, <3>1
    <3>2. CASE i # j
      <4>1. base + i <= m
        BY <1>2, <2>1, <2>5, <3>2 DEF k
      <4> QED
        BY <1>1, <2>4, <4>1, HasIdKept
    <3> QED
      BY <3>1, <3>2
  <2>6. ASSUME NewAbi(s, t), NEW i \in 1 .. k, work[i].kind = "account"
        PROVE  HasId(new.docs, AbiId(h))
    <3>1. i # k
      BY <2>3, <2>6 DEF item
    <3>2. i \in 1 .. m
      BY <1>5, <3>1
    <3> QED
      BY <1>1, <2>4, <2>6, <3>2, HasIdKept
  <2>7. new.ordinal = IF k <= base THEN 0 ELSE k - base
    BY <1>7, <2>4 DEF j
  <2>8. RecordsSoFar(new, work, k, base, h, s, t, tx)
    BY <2>4, <2>5, <2>6, <2>7 DEF RecordsSoFar, q
  <2> QED
    BY <2>8 DEF new, item, k
<1> QED
  <2> HIDE DEF k, new, item
  <2> QED
    BY <1>6, <1>7 DEF k, new, item

\* The documents of a block are what they say of it, each ABI and contract row
\* has its own, and the cache goes on knowing the system contract's ABI.
LEMMA BlockRecords ==
    ASSUME DataMarked, RecordsMarked, Operated, NEW h, NEW s, NEW tx, NEW known, Runs(tx),
           IsFiniteSet(s.perms), IsFiniteSet(tx.after.perms), OfState(tx, s), Cached(known)
    PROVE  LET made == ProcessBlock(h, Reported(h, s, tx), known)
               at == TransactionAt(h, Executed(s, tx).traces)
           IN  /\ Records(made.docs, h, s, tx.after, at)
               /\ Cached(made.abis)
               /\ \A id \in RecordIds(h, s, tx.after) : HasId(made.docs, id)
<1> DEFINE block == Reported(h, s, tx)
           at == TransactionAt(h, Executed(s, tx).traces)
           t == tx.after
           work == Work(block)
           n == Len(Groups(at))
           q == Balances(s, t)
           header == IF block.header THEN <<Index("block", h, [block_num |-> h])>> ELSE <<>>
           F == AccAfter(h, [docs |-> header, abis |-> known, ordinal |-> 0], work)
<1>1. /\ IsSeq(work) /\ n \in 0 .. Len(work)
      /\ \A k \in 1 .. n : work[k] = ActionItem(at, k)
      /\ \A k \in n + 1 .. Len(work) :
           work[k].kind \in Kinds /\ RowOf(work[k].kind, work[k].row, s, t)
      /\ \A kind \in Kinds : \A row : RowOf(kind, row, s, t) /\ row.data # Garbage =>
           \E k \in n + 1 .. Len(work) : work[k] = [kind |-> kind, row |-> row]
    BY WorkIs
<1>2. Len(work) \in Nat /\ n \in Nat /\ n <= Len(work)
    BY <1>1 DEF IsSeq
<1>3. ProcessBlock(h, block, known) = F[Len(work)]
    BY DEF ProcessBlock
<1>4. F[0].docs = header /\ F[0].abis = known /\ F[0].ordinal = 0
    BY <1>2, LoopEquations
<1>5. \A k \in 1 .. Len(work) : F[k] = Process(h, F[k - 1], work[k])
    BY <1>2, LoopEquations
<1>6. Records(header, h, s, t, at)
  <2> DEFINE doc == Index("block", h, [block_num |-> h])
  <2>1. Record(doc, h, s, t, at)
    BY DEF Record, Index
  <2>2. <<>> \in Seq({doc}) /\ <<doc>> \in Seq({doc})
    BY EmptySeq
  <2>3. header \in Seq({doc})
    BY <2>2
  <2> HIDE DEF doc, header, at
  <2> QED
    BY <2>1, <2>3, SeqIs DEF Records
<1>7. GroupsOf(Groups(at), tx)
    BY GroupActs
<1>8. PICK base : EndsIn(work, q, base)
    BY WorkEnds
<1> DEFINE Good(k) == RecordsSoFar(F[k], work, k, base, h, s, t, at)
           T == {k \in Nat : k <= Len(work) => Good(k)}
<1> HIDE DEF F, work, at, header, n, q
<1>9. base \in Nat /\ Len(q) \in Nat /\ Len(work) = base + Len(q)
    BY <1>8, BalancesAre DEF EndsIn, IsSeq, q
<1>10. \A g \in 1 .. n : LET act == Primary(Groups(at)[g]).act IN
         SetsAbi(act) => act.data.account = Token
  <2> SUFFICES ASSUME NEW g \in 1 .. n
               PROVE  LET act == Primary(Groups(at)[g]).act IN
                      SetsAbi(act) => act.data.account = Token
    OBVIOUS
  <2>1. PICK j \in 1 .. Len(tx.steps) : Primary(Groups(at)[g]).act = tx.steps[j].act
    BY <1>7 DEF GroupsOf, n
  <2> QED
    BY <2>1 DEF OfState
<1>11. 0 \in T
  <2>1. 1 .. 0 = {} /\ 0 <= base /\ \A j \in 1 .. Len(q) : ~(base + j <= 0)
    BY <1>9
  <2>2. Good(0)
    BY <1>4, <1>6, <2>1 DEF RecordsSoFar, q
  <2> QED
    BY <2>2
<1> HIDE DEF Good
<1>12. ASSUME NEW m \in Nat, m \in T PROVE m + 1 \in T
  <2> SUFFICES ASSUME m + 1 <= Len(work) PROVE Good(m + 1)
    OBVIOUS
  <2> DEFINE k == m + 1
             acc == F[m]
             item == work[k]
  <2>1. k \in 1 .. Len(work) /\ k - 1 = m /\ m <= Len(work)
    BY <1>2
  <2>2. RecordsSoFar(acc, work, m, base, h, s, t, at)
    BY <1>12, <2>1 DEF Good
  <2>3. F[k] = Process(h, acc, item)
    BY <1>5, <2>1
  <2>4. \/ \E g \in 1 .. Len(Groups(at)) :
             /\ item = ActionItem(at, g)
             /\ LET act == Primary(item.group).act IN
                SetsAbi(act) => act.data.account = Token
        \/ item.kind \in Kinds /\ RowOf(item.kind, item.row, s, t)
    <3>1. CASE k <= n
      <4>1. k \in 1 .. n
        BY <1>2, <3>1
      <4>2. item = ActionItem(at, k)
        BY <1>1, <4>1
      <4>3. item.group = Groups(at)[k]
        BY <4>2 DEF ActionItem
      <4> HIDE DEF item, k
      <4>4. LET act == Primary(item.group).act IN
            SetsAbi(act) => act.data.account = Token
        BY <1>10, <4>1, <4>3
      <4> QED
        BY <4>1, <4>2, <4>4 DEF n
    <3>2. CASE ~(k <= n)
      <4>1. k \in n + 1 .. Len(work)
        BY <1>2, <2>1, <3>2
      <4> QED
        BY <1>1, <4>1
    <3> QED
      BY <3>1, <3>2
  <2> HIDE DEF acc
  <2>5. RecordsSoFar(Process(h, acc, work[m + 1]), work, m + 1, base, h, s, t, at)
    <3> HIDE DEF t
    <3> QED
      BY <1>8, <2>1, <2>2, <2>4, SoFarRecord DEF q
  <2> QED
    BY <2>3, <2>5 DEF Good
<1> HIDE DEF T
<1>13. Len(work) \in T
    BY <1>2, <1>11, <1>12, Induction
<1> DEFINE made == F[Len(work)]
<1>14. RecordsSoFar(made, work, Len(work), base, h, s, t, at)
    BY <1>2, <1>13 DEF T, Good
<1> HIDE DEF made
<1>15. /\ Records(made.docs, h, s, t, at) /\ Cached(made.abis)
       /\ \A j \in 1 .. Len(q) : base + j <= Len(work) => HasId(made.docs, DeltaId(h, j))
       /\ NewAbi(s, t) => \A m \in 1 .. Len(work) :
            work[m].kind = "account" => HasId(made.docs, AbiId(h))
    BY <1>14 DEF RecordsSoFar, q
<1>16. NewAbi(s, t) => HasId(made.docs, AbiId(h))
  <2> SUFFICES ASSUME NewAbi(s, t) PROVE HasId(made.docs, AbiId(h))
    OBVIOUS
  <2> DEFINE row == Row(TRUE, [name |-> Token, abi |-> t.abi])
  <2>1. row.data # Garbage
    BY DEF Row, RecordsMarked
  <2>2. RowOf("account", row, s, t) /\ "account" \in Kinds
    BY DEF NewAbi, RowOf, Kinds
  <2> HIDE DEF row, t
  <2>3. PICK k \in n + 1 .. Len(work) : work[k] = [kind |-> "account", row |-> row]
    BY <1>1, <2>1, <2>2
  <2>4. k \in 1 .. Len(work) /\ work[k].kind = "account"
    BY <1>2, <2>3
  <2> QED
    BY <1>15, <2>4
<1>17. \A j \in 1 .. Len(q) : HasId(made.docs, DeltaId(h, j))
  <2>1. \A j \in 1 .. Len(q) : base + j <= Len(work)
    BY <1>9
  <2> QED
    BY <1>15, <2>1
<1>18. ASSUME NEW id \in RecordIds(h, s, t) PROVE HasId(made.docs, id)
  <2>1. (NewAbi(s, t) /\ id = AbiId(h)) \/ \E j \in 1 .. Len(q) : id = DeltaId(h, j)
    BY <1>18 DEF RecordIds, q
  <2> QED
    BY <1>16, <1>17, <2>1
<1> QED
    BY <1>3, <1>15, <1>18 DEF made, at

-----------------------------------------------------------------------------
(* These documents on their way and in the store.                            *)

Written(id) == id[1] \in {"abi", "delta", "action"}

RecordsOnTheirWay(c, w) ==
    LET h == w.height IN
    /\ h \in 1 .. Len(c)
    /\ Records(w.items, h, Prior(c, h), AfterOf(c, h), At(c, h))
    /\ \A id \in RecordIds(h, Prior(c, h), AfterOf(c, h)) : HasId(w.items, id)

\* Some block left the document.
RecordLeft(c, id, value) ==
    \E h \in 1 .. Len(c) : RecordOf(id, value, h, Prior(c, h), AfterOf(c, h), At(c, h))

RecordsStored(c, d) == \A id \in DOMAIN d : Written(id) => RecordLeft(c, id, d[id].value)

\* All of those of a block that has landed are there.
RecordsLanded(c, f, d) ==
    \A h \in 1 .. Len(c) : (\A w \in f : w.height # h) =>
        RecordIds(h, Prior(c, h), AfterOf(c, h)) \subseteq DOMAIN d

RInv ==
    /\ Cached(abis)
    /\ \A w \in flying : RecordsOnTheirWay(chain, w)
    /\ RecordsStored(chain, docs)
    /\ RecordsLanded(chain, flying, docs)

LEMMA SameRecords ==
    ASSUME NEW s, NEW t, NEW u, SameState(t, u)
    PROVE  /\ \A h, made, tx : Records(made, h, s, t, tx) => Records(made, h, s, u, tx)
           /\ \A h : RecordIds(h, s, t) = RecordIds(h, s, u)
<1>1. Balances(s, t) = Balances(s, u)
    BY DEF Balances, BalanceRow, Changed, SameState
<1>2. NewAbi(s, t) = NewAbi(s, u)
    BY DEF NewAbi, SameState
<1>3. \A id, value, h, tx : RecordOf(id, value, h, s, t, tx) => RecordOf(id, value, h, s, u, tx)
    BY <1>1, <1>2 DEF RecordOf, SameState
<1>4. \A doc, h, tx : Record(doc, h, s, t, tx) => Record(doc, h, s, u, tx)
    BY <1>3 DEF Record
<1>5. \A h, made, tx : Records(made, h, s, t, tx) => Records(made, h, s, u, tx)
    BY <1>4 DEF Records
<1>6. \A h : RecordIds(h, s, t) = RecordIds(h, s, u)
    BY <1>1, <1>2 DEF RecordIds
<1> QED
    BY <1>5, <1>6

LEMMA VersionedRecords ==
    ASSUME NEW height \in Nat, NEW made, NEW s, NEW t, NEW tx, Records(made, height, s, t, tx)
    PROVE  LET items == Versioned(height, Versions, made) IN
           /\ Records(items, height, s, t, tx)
           /\ \A id : HasId(made, id) => HasId(items, id)
<1> DEFINE items == Versioned(height, Versions, made)
           n == Len(made)
           Version(k) == height * Versions + k - 1
<1>1. n \in Nat /\ DOMAIN made = 1 .. n /\ \A k \in 1 .. n : Record(made[k], height, s, t, tx)
    BY DEF Records, IsSeq
<1>2. items = [k \in 1 .. n |-> [op |-> made[k].op, id |-> made[k].id, version |-> Version(k),
                                 value |-> made[k].value]]
    BY <1>1 DEF Versioned
<1> HIDE DEF items, n, Version
<1>3. items = [k \in 1 .. n |-> items[k]]
    BY <1>2
<1>4. IsSeq(items) /\ Len(items) = n
    BY <1>1, <1>3, MadeSeq
<1>5. \A k \in 1 .. n : /\ items[k].op = made[k].op /\ items[k].id = made[k].id
                        /\ items[k].value = made[k].value
  <2> SUFFICES ASSUME NEW k \in 1 .. n
               PROVE  /\ items[k].op = made[k].op /\ items[k].id = made[k].id
                      /\ items[k].value = made[k].value
    OBVIOUS
  <2>1. items[k] = [op |-> made[k].op, id |-> made[k].id, version |-> Version(k),
                    value |-> made[k].value]
    BY <1>2
  <2> QED
    BY <2>1
<1>6. \A k \in 1 .. n : Record(items[k], height, s, t, tx)
    BY <1>1, <1>5 DEF Record
<1>7. Records(items, height, s, t, tx)
    BY <1>4, <1>6 DEF Records
<1>8. \A id : HasId(made, id) => HasId(items, id)
    BY <1>4, <1>5 DEF HasId, n
<1> QED
    BY <1>7, <1>8 DEF items

\* A chain that grows keeps what it was.
LEMMA RecordsKept ==
    ASSUME NEW c, IsSeq(c), NEW b
    PROVE  LET d == Append(c, b) IN
           /\ \A w : RecordsOnTheirWay(c, w) => RecordsOnTheirWay(d, w)
           /\ \A stored : RecordsStored(c, stored) => RecordsStored(d, stored)
           /\ \A f, stored, w : RecordsLanded(c, f, stored) /\ w.height = Len(c) + 1 =>
                RecordsLanded(d, f \cup {w}, stored)
<1> DEFINE d == Append(c, b)
           n == Len(c)
<1>1. /\ n \in Nat /\ Len(d) = n + 1
      /\ \A h \in 1 .. n : Prior(d, h) = Prior(c, h) /\ AfterOf(d, h) = AfterOf(c, h)
    BY PriorKept
<1>2. \A h \in 1 .. n : At(d, h) = At(c, h)
    BY AppendBlock
<1>3. \A h \in 1 .. n : h \in 1 .. n + 1
    BY <1>1
<1> HIDE DEF d, n
<1>4. ASSUME NEW w, RecordsOnTheirWay(c, w) PROVE RecordsOnTheirWay(d, w)
  <2> DEFINE h == w.height
  <2>1. /\ h \in 1 .. n
        /\ Records(w.items, h, Prior(c, h), AfterOf(c, h), At(c, h))
        /\ \A id \in RecordIds(h, Prior(c, h), AfterOf(c, h)) : HasId(w.items, id)
    BY <1>4 DEF RecordsOnTheirWay, n
  <2> HIDE DEF h
  <2>2. /\ Prior(d, h) = Prior(c, h) /\ AfterOf(d, h) = AfterOf(c, h) /\ At(d, h) = At(c, h)
        /\ h \in 1 .. Len(d)
    BY <1>1, <1>2, <1>3, <2>1
  <2> QED
    BY <2>1, <2>2 DEF RecordsOnTheirWay, h
<1>5. ASSUME NEW id, NEW value, RecordLeft(c, id, value) PROVE RecordLeft(d, id, value)
  <2>1. PICK h \in 1 .. n : RecordOf(id, value, h, Prior(c, h), AfterOf(c, h), At(c, h))
    BY <1>5 DEF RecordLeft, n
  <2>2. h \in 1 .. Len(d) /\ RecordOf(id, value, h, Prior(d, h), AfterOf(d, h), At(d, h))
    BY <1>1, <1>2, <1>3, <2>1
  <2> QED
    BY <2>2 DEF RecordLeft
<1>6. \A stored : RecordsStored(c, stored) => RecordsStored(d, stored)
    BY <1>5 DEF RecordsStored
<1>7. ASSUME NEW f, NEW stored, NEW w, RecordsLanded(c, f, stored), w.height = n + 1
      PROVE  RecordsLanded(d, f \cup {w}, stored)
  <2> SUFFICES ASSUME NEW h \in 1 .. Len(d), \A v \in f \cup {w} : v.height # h
               PROVE  RecordIds(h, Prior(d, h), AfterOf(d, h)) \subseteq DOMAIN stored
    BY DEF RecordsLanded
  <2>1. h \in 1 .. n
    BY <1>1, <1>7
  <2>2. RecordIds(h, Prior(c, h), AfterOf(c, h)) \subseteq DOMAIN stored
    BY <1>7, <2>1 DEF RecordsLanded, n
  <2> QED
    BY <1>1, <2>1, <2>2
<1> QED
    BY <1>4, <1>6, <1>7 DEF d, n

LEMMA NewRecords ==
    ASSUME DataMarked, RecordsMarked, Operated, NEW c, ChainOK(c), NEW tx,
           GoodTx(tx, AfterOf(c, Len(c))), OfState(tx, AfterOf(c, Len(c))),
           NEW known, Cached(known), NEW made, NEW w, NEW d,
           made = ProcessBlock(Len(c) + 1, Reported(Len(c) + 1, AfterOf(c, Len(c)), tx), known),
           w = [height |-> Len(c) + 1, items |-> Versioned(Len(c) + 1, Versions, made.docs)],
           d = Append(c, Executed(AfterOf(c, Len(c)), tx))
    PROVE  RecordsOnTheirWay(d, w) /\ Cached(made.abis)
<1> DEFINE n == Len(c)
           s == AfterOf(c, n)
           t == tx.after
           b == Executed(s, tx)
           at == TransactionAt(n + 1, b.traces)
           items == Versioned(n + 1, Versions, made.docs)
<1>1. n \in Nat /\ IsSeq(c)
    BY DEF ChainOK, IsSeq
<1>2. IsState(s) /\ Runs(tx) /\ IsState(t) /\ IsFiniteSet(s.perms) /\ IsFiniteSet(t.perms)
    BY <1>1, AfterIsState DEF GoodTx, IsState
<1>3. /\ Records(made.docs, n + 1, s, t, at) /\ Cached(made.abis)
      /\ \A id \in RecordIds(n + 1, s, t) : HasId(made.docs, id)
    BY <1>2, BlockRecords
<1>4. SameState(t, b.after)
    BY <1>2, ExecutedFields DEF SameState
<1>5. /\ Len(d) = n + 1 /\ Prior(d, n + 1) = s /\ AfterOf(d, n + 1) = b.after
      /\ At(d, n + 1) = at
    BY <1>1, PriorKept, AppendBlock
<1>6. /\ Records(items, n + 1, s, t, at)
      /\ \A id : HasId(made.docs, id) => HasId(items, id)
  <2>1. n + 1 \in Nat
    BY <1>1
  <2> HIDE DEF s, t, n, at
  <2> QED
    BY <1>3, <2>1, VersionedRecords
<1>7. w.height = n + 1 /\ w.items = items
    OBVIOUS
<1> HIDE DEF items, b, s, t, at
<1>8. /\ Records(items, n + 1, s, b.after, at)
      /\ \A id \in RecordIds(n + 1, s, b.after) : HasId(items, id)
    BY <1>3, <1>4, <1>6, SameRecords
<1>9. w.height \in 1 .. Len(d)
    BY <1>1, <1>5, <1>7
<1> HIDE DEF n
<1>10. RecordsOnTheirWay(d, w)
    BY <1>5, <1>7, <1>8, <1>9 DEF RecordsOnTheirWay
<1> QED
    BY <1>3, <1>10

LEMMA RecordsProduceKeep ==
    ASSUME DataMarked, RecordsMarked, Operated, IInv, SInv, RInv,
           NEW txs, txs \subseteq UNION {Transfers(Current), Creations(Current), Updates(Current),
                                         Deletions(Current), Deployments(Current),
                                         Unindexed(Current)},
           Produce(txs)
    PROVE  RInv'
<1> DEFINE n == Len(chain)
           s == AfterOf(chain, n)
<1>1. Current = s
    BY DEF Current, After, AfterOf
<1>2. PICK tx \in txs :
        LET made == ProcessBlock(n + 1, Reported(n + 1, Current, tx), abis) IN
        /\ chain' = Append(chain, Executed(Current, tx))
        /\ abis' = made.abis
        /\ flying' = flying \cup {[height |-> n + 1,
                                   items |-> Versioned(n + 1, Versions, made.docs)]}
    BY DEF Produce
<1> DEFINE made == ProcessBlock(n + 1, Reported(n + 1, s, tx), abis)
           w == [height |-> n + 1, items |-> Versioned(n + 1, Versions, made.docs)]
           b == Executed(s, tx)
<1>3. /\ chain' = Append(chain, b) /\ abis' = made.abis
      /\ flying' = flying \cup {w} /\ docs' = docs
    BY <1>1, <1>2 DEF Produce
<1>4. ChainOK(chain) /\ IsSeq(chain) /\ n \in Nat /\ n \in 0 .. n
  <2>1. ChainOK(chain) /\ IsSeq(chain)
    BY DEF IInv, ChainOK
  <2>2. n \in Nat
    BY <2>1 DEF IsSeq
  <2> QED
    BY <2>1, <2>2
<1>5. /\ Cached(abis)
      /\ \A v \in flying : RecordsOnTheirWay(chain, v)
      /\ RecordsStored(chain, docs)
      /\ RecordsLanded(chain, flying, docs)
    BY DEF RInv
<1>6. IsState(s) /\ Keyed(s)
    BY <1>4, AfterIsState DEF SInv
<1>7. GoodTx(tx, s) /\ OfState(tx, s)
  <2> HIDE DEF s
  <2> QED
    BY <1>1, <1>6, TransactionsAre, TransactionsOfState
<1> DEFINE d == Append(chain, b)
<1>8. RecordsOnTheirWay(d, w) /\ Cached(made.abis)
    BY <1>4, <1>5, <1>7, NewRecords
<1>9. w.height = n + 1
    OBVIOUS
<1> HIDE DEF w, b, s, made
<1>10. /\ \A v : RecordsOnTheirWay(chain, v) => RecordsOnTheirWay(d, v)
       /\ RecordsStored(d, docs)
       /\ RecordsLanded(d, flying \cup {w}, docs)
    BY <1>4, <1>5, <1>9, RecordsKept
<1> HIDE DEF d
<1>11. \A v \in flying \cup {w} : RecordsOnTheirWay(d, v)
    BY <1>5, <1>8, <1>10
<1>12. chain' = d
    BY <1>3 DEF d
<1> QED
    BY <1>3, <1>8, <1>10, <1>11, <1>12 DEF RInv

LEMMA RecordsLandKeep ==
    ASSUME IInv, RInv, NEW w \in flying, Land(w)
    PROVE  RInv'
<1> DEFINE items == w.items
           after == BulkResult(Opened(items), items).docs
           h == w.height
<1>1. docs' = after /\ flying' = flying \ {w} /\ chain' = chain /\ abis' = abis
    BY DEF Land
<1>2. /\ IsSeq(chain) /\ IsSeq(items) /\ Stored(docs)
      /\ \A k \in 1 .. Len(items) : IsItem(items[k]) /\ items[k].version > 0
    BY DEF IInv, ChainOK, DocsOK, FlyingOK, OnItsWay, Entry
<1>3. /\ Cached(abis) /\ \A v \in flying : RecordsOnTheirWay(chain, v)
      /\ RecordsStored(chain, docs) /\ RecordsLanded(chain, flying, docs)
    BY DEF RInv
<1>4. /\ h \in 1 .. Len(chain)
      /\ \A k \in 1 .. Len(items) :
           Record(items[k], h, Prior(chain, h), AfterOf(chain, h), At(chain, h))
      /\ \A id \in RecordIds(h, Prior(chain, h), AfterOf(chain, h)) : HasId(items, id)
    BY <1>3 DEF RecordsOnTheirWay, Records
<1>5. /\ DOMAIN after = DOMAIN docs \cup {items[k].id : k \in 1 .. Len(items)}
      /\ \A id \in DOMAIN after :
           \/ id \in DOMAIN docs /\ after[id] = docs[id]
           \/ \E k \in 1 .. Len(items) : items[k].id = id /\ after[id] = Leaves(items[k])
           \/ id \notin DOMAIN docs /\ after[id] = Absent
      /\ \A k \in 1 .. Len(items) : after[items[k].id].version >= items[k].version
    BY <1>2, LandingIs
<1> HIDE DEF after, items, h
<1>6. \A k \in 1 .. Len(items) : after[items[k].id] # Absent
  <2> SUFFICES ASSUME NEW k \in 1 .. Len(items)
               PROVE  after[items[k].id] # Absent
    OBVIOUS
  <2>1. items[k].version \in Nat /\ items[k].version > 0
    BY <1>2 DEF IsItem
  <2>2. Absent.version = 0
    BY DEF Absent
  <2> QED
    BY <1>5, <2>1, <2>2
<1>7. ASSUME NEW k \in 1 .. Len(items), Written(items[k].id)
      PROVE  RecordLeft(chain, items[k].id, Leaves(items[k]).value)
  <2> DEFINE item == items[k]
             doc == Leaves(item)
  <2>1. item.op = "index"
        /\ RecordOf(item.id, item.value, h, Prior(chain, h), AfterOf(chain, h), At(chain, h))
    BY <1>4, <1>7 DEF Record, Written
  <2> HIDE DEF item
  <2>2. doc.value = item.value
    BY <2>1 DEF Leaves
  <2> HIDE DEF doc
  <2> QED
    BY <1>4, <2>1, <2>2 DEF RecordLeft, item, doc
<1>8. ASSUME NEW id \in DOMAIN after, Written(id)
      PROVE  RecordLeft(chain, id, after[id].value)
  <2>1. CASE id \in DOMAIN docs /\ after[id] = docs[id]
    BY <1>3, <1>8, <2>1 DEF RecordsStored
  <2>2. CASE \E k \in 1 .. Len(items) : items[k].id = id /\ after[id] = Leaves(items[k])
    BY <1>7, <1>8, <2>2
  <2>3. ~(id \notin DOMAIN docs /\ after[id] = Absent)
    BY <1>5, <1>6
  <2> QED
    BY <1>5, <2>1, <2>2, <2>3
<1>9. ASSUME NEW g \in 1 .. Len(chain), \A v \in flying \ {w} : v.height # g,
             NEW id \in RecordIds(g, Prior(chain, g), AfterOf(chain, g))
      PROVE  id \in DOMAIN after
  <2>1. CASE h = g
    <3>1. PICK k \in 1 .. Len(items) : items[k].id = id
      BY <1>4, <1>9, <2>1 DEF HasId
    <3> QED
      BY <1>5, <3>1
  <2>2. CASE h # g
    <3>1. \A v \in flying : v.height # g
      BY <1>9, <2>2 DEF h
    <3> QED
      BY <1>3, <1>5, <1>9, <3>1 DEF RecordsLanded
  <2> QED
    BY <2>1, <2>2
<1>10. RecordsLanded(chain, flying \ {w}, after)
    BY <1>9 DEF RecordsLanded
<1>11. RecordsStored(chain, after)
    BY <1>8 DEF RecordsStored
<1>12. \A v \in flying \ {w} : RecordsOnTheirWay(chain, v)
    BY <1>3
<1> QED
    BY <1>1, <1>3, <1>10, <1>11, <1>12 DEF RInv

LEMMA RecordsInit == ASSUME Init PROVE RInv
<1>1. chain = <<>> /\ flying = {} /\ docs = [id \in {} |-> Absent]
    BY DEF Init
<1>2. Len(chain) = 0 /\ 1 .. 0 = {} /\ DOMAIN docs = {}
    BY <1>1
<1>3. abis = [a \in {System, Token} |-> IF a = System THEN SystemAbi ELSE {}]
    BY DEF Init
<1>4. Cached(abis)
    BY <1>3 DEF Cached, IsCache
<1> QED
    BY <1>1, <1>2, <1>4 DEF RInv, RecordsStored, RecordsLanded

\* The invariant of the documents that are written once: each says what the
\* block did whose id it has, and of a block that has landed none is missing.
THEOREM RecordInvariance ==
    ASSUME DataMarked, RecordsMarked, Operated
    PROVE  Spec => []RInv
<1>1. Init => RInv
    BY RecordsInit
<1>2. IInv /\ SInv /\ RInv /\ [Next]_vars => RInv'
  <2> SUFFICES ASSUME IInv, SInv, RInv, [Next]_vars
               PROVE  RInv'
    OBVIOUS
  <2> DEFINE All == UNION {Transfers(Current), Creations(Current), Updates(Current),
                           Deletions(Current), Deployments(Current), Unindexed(Current)}
  <2>0. /\ Transfers(Current) \subseteq All /\ Creations(Current) \subseteq All
        /\ Updates(Current) \subseteq All /\ Deletions(Current) \subseteq All
        /\ Deployments(Current) \subseteq All /\ Unindexed(Current) \subseteq All
    OBVIOUS
  <2>1. CASE Produce(Transfers(Current))
    BY <2>0, <2>1, RecordsProduceKeep
  <2>2. CASE Produce(Creations(Current))
    BY <2>0, <2>2, RecordsProduceKeep
  <2>3. CASE Produce(Updates(Current))
    BY <2>0, <2>3, RecordsProduceKeep
  <2>4. CASE Produce(Deletions(Current))
    BY <2>0, <2>4, RecordsProduceKeep
  <2>5. CASE Produce(Deployments(Current))
    BY <2>0, <2>5, RecordsProduceKeep
  <2>6. CASE Produce(Unindexed(Current))
    BY <2>0, <2>6, RecordsProduceKeep
  <2>7. CASE \E w \in flying : Land(w)
    BY <2>7, RecordsLandKeep
  <2>8. CASE UNCHANGED vars
    BY <2>8 DEF vars, RInv
  <2> QED
    BY <2>1, <2>2, <2>3, <2>4, <2>5, <2>6, <2>7, <2>8 DEF Next
<1> QED
    BY <1>1, <1>2, Invariance, StateInvariance, PTL DEF Spec

-----------------------------------------------------------------------------
(* The endpoints of ABIs and of contract rows.                               *)

\* What the settled store holds of a kind that is written once.
LEMMA SettledRecords ==
    ASSUME RInv, Settled, NEW h \in 1 .. Len(chain)
    PROVE  \A id \in RecordIds(h, Prior(chain, h), AfterOf(chain, h)) :
             id \in DOMAIN docs /\ RecordLeft(chain, id, docs[id].value)
<1>1. RecordIds(h, Prior(chain, h), AfterOf(chain, h)) \subseteq DOMAIN docs
    BY DEF RInv, RecordsLanded, Settled
<1>2. \A id \in RecordIds(h, Prior(chain, h), AfterOf(chain, h)) : Written(id)
    BY DEF RecordIds, AbiId, DeltaId, Written
<1> QED
    BY <1>1, <1>2 DEF RInv, RecordsStored

\* The block changed the ABI to one that parses.
SetsUsable(h) == NewAbi(Prior(chain, h), AfterOf(chain, h))

LEMMA AbisStored ==
    ASSUME RInv, RecordsMarked, Settled
    PROVE  /\ \A id \in DocsOf("abi") : \E h \in 1 .. Len(chain) : SetsUsable(h) /\ id = AbiId(h)
           /\ \A h \in 1 .. Len(chain) : SetsUsable(h) =>
                /\ AbiId(h) \in DocsOf("abi")
                /\ docs[AbiId(h)].value = AbiOf(h, AfterOf(chain, h).abi)
<1>1. \A id : id \in DocsOf("abi") <=> id \in DOMAIN docs /\ id[1] = "abi" /\ docs[id].value # NoValue
    BY DEF DocsOf, Ids, Live
<1>2. \A h : AbiId(h)[1] = "abi"
    BY DEF AbiId
<1>3. \A h, g : AbiId(h) = AbiId(g) => h = g
    BY DEF AbiId
<1>4. ASSUME NEW id, NEW value, RecordLeft(chain, id, value), id[1] = "abi"
      PROVE  \E h \in 1 .. Len(chain) : /\ SetsUsable(h) /\ id = AbiId(h)
                                        /\ value = AbiOf(h, AfterOf(chain, h).abi)
    BY <1>4 DEF RecordLeft, RecordOf, SetsUsable
<1>5. ASSUME NEW id \in DocsOf("abi")
      PROVE  \E h \in 1 .. Len(chain) : SetsUsable(h) /\ id = AbiId(h)
  <2>1. id \in DOMAIN docs /\ id[1] = "abi" /\ Written(id)
    BY <1>1 DEF Written
  <2>2. RecordLeft(chain, id, docs[id].value)
    BY <2>1 DEF RInv, RecordsStored
  <2> QED
    BY <1>4, <2>1, <2>2
<1>6. ASSUME NEW h \in 1 .. Len(chain), SetsUsable(h)
      PROVE  /\ AbiId(h) \in DocsOf("abi")
             /\ docs[AbiId(h)].value = AbiOf(h, AfterOf(chain, h).abi)
  <2>1. AbiId(h) \in RecordIds(h, Prior(chain, h), AfterOf(chain, h))
    BY <1>6 DEF RecordIds, SetsUsable
  <2>2. AbiId(h) \in DOMAIN docs /\ RecordLeft(chain, AbiId(h), docs[AbiId(h)].value)
    BY <2>1, SettledRecords
  <2>3. docs[AbiId(h)].value = AbiOf(h, AfterOf(chain, h).abi)
    BY <1>2, <1>3, <1>4, <2>2
  <2> QED
    BY <1>1, <1>2, <2>2, <2>3 DEF RecordsMarked
<1> QED
    BY <1>5, <1>6

\* The ABI after block `top`, of those that parse.
AbiAt(top) ==
    LET hs == {h \in 1 .. top : SetsUsable(h)} IN
    IF hs = {} THEN {} ELSE AfterOf(chain, Max(hs)).abi

LEMMA SnapshotIs ==
    ASSUME RInv, RecordsMarked, Settled, NEW b, NEW top \in 0 .. Len(chain), Len(chain) \in Nat,
           \A h \in 1 .. Len(chain) : b = Wild \/ h <= b <=> h <= top
    PROVE  GetAbiSnapshot(docs, Token, b) = AbiAt(top)
<1> DEFINE M == Snapshots(docs, Token, b)
           hs == {h \in 1 .. top : SetsUsable(h)}
           sort == Desc("block_num")
           hits(ids) == Search(docs, ids, sort, 0, 1)
<1>1. \A id \in DocsOf("abi") : \E h \in 1 .. Len(chain) : SetsUsable(h) /\ id = AbiId(h)
    BY AbisStored
<1>2. \A h \in 1 .. Len(chain) : SetsUsable(h) =>
        /\ AbiId(h) \in DocsOf("abi")
        /\ docs[AbiId(h)].value = AbiOf(h, AfterOf(chain, h).abi)
    BY AbisStored
<1>3. \A h, abi : /\ AbiOf(h, abi).block_num = h /\ AbiOf(h, abi).account = Token
                  /\ AbiOf(h, abi).abi = Usable(abi)
    BY DEF AbiOf
<1>4. \A id : id \in M <=> /\ id \in DocsOf("abi") /\ docs[id].value.account = Token
                           /\ b = Wild \/ docs[id].value.block_num <= b
    BY DEF Snapshots, DocsOf
<1>5. \A h \in hs : h \in 1 .. Len(chain) /\ SetsUsable(h) /\ (b = Wild \/ h <= b)
    OBVIOUS
<1>6. \A h \in 1 .. Len(chain) : SetsUsable(h) /\ (b = Wild \/ h <= b) => h \in hs
    OBVIOUS
<1>7. hs \subseteq 1 .. top
    OBVIOUS
<1> HIDE DEF M, hs
<1>8. \A h \in hs : AbiId(h) \in M /\ docs[AbiId(h)].value = AbiOf(h, AfterOf(chain, h).abi)
    BY <1>2, <1>3, <1>4, <1>5
<1>9. ASSUME NEW id \in M
      PROVE  \E h \in hs : id = AbiId(h)
  <2>1. PICK h \in 1 .. Len(chain) : SetsUsable(h) /\ id = AbiId(h)
    BY <1>1, <1>4
  <2>2. docs[id].value.block_num = h
    BY <1>2, <1>3, <2>1
  <2> QED
    BY <1>4, <1>6, <2>1, <2>2
<1>10. \A h \in hs : Rank(docs[AbiId(h)].value, sort) = -h
    BY <1>3, <1>8 DEF Rank, Desc
<1>11. GetAbiSnapshot(docs, Token, b) = IF hits(M) = <<>> THEN {} ELSE hits(M)[1].abi
    BY DEF GetAbiSnapshot, M
<1>12. AbiAt(top) = IF hs = {} THEN {} ELSE AfterOf(chain, Max(hs)).abi
    BY DEF AbiAt, hs
<1>13. 1 \in Nat
    OBVIOUS
<1>14. CASE hs = {}
  <2>1. M = {}
    BY <1>9, <1>14
  <2>2. hits(M) = <<>>
    BY <1>13, <2>1, SearchNone
  <2> QED
    BY <1>11, <1>12, <1>14, <2>2
<1>15. CASE hs # {}
  <2>1. M # {}
    BY <1>8, <1>15
  <2>2. Ranked(docs, M, sort)
    <3>1. M = {AbiId(h) : h \in hs}
      BY <1>8, <1>9
    <3> DEFINE f == [h \in hs |-> AbiId(h)]
    <3>2. M = {f[h] : h \in hs}
      BY <3>1
    <3>3. IsFiniteSet(hs)
      <4>1. 1 \in Int /\ top \in Int
        OBVIOUS
      <4>2. IsFiniteSet(1 .. top)
        BY <4>1, FS_Interval
      <4> QED
        BY <1>7, <4>2, FS_Subset
    <3> HIDE DEF f, sort
    <3>4. IsFiniteSet(M)
      BY <3>2, <3>3, FiniteImage
    <3>5. \A h \in hs : -h \in Int
      BY <1>7
    <3> QED
      BY <1>9, <1>10, <3>4, <3>5 DEF Ranked
  <2>3. PICK id \in M : /\ hits(M) = <<docs[id].value>>
                        /\ \A other \in M : Rank(docs[id].value, sort) <= Rank(docs[other].value, sort)
    BY <2>1, <2>2, SearchFirst
  <2>4. PICK h \in hs : id = AbiId(h)
    BY <1>9
  <2> HIDE DEF sort, hits
  <2>5. \A g \in hs : -h <= -g
    BY <1>8, <1>10, <2>3, <2>4
  <2>6. \A g \in hs : g \in Int
    BY <1>7
  <2>7. \A g \in hs : h >= g
    BY <2>5, <2>6
  <2>8. Max(hs) \in hs /\ \A g \in hs : Max(hs) >= g
    BY <2>4, <2>7 DEF Max
  <2>9. Max(hs) = h
    BY <2>6, <2>7, <2>8
  <2>10. hits(M) # <<>> /\ hits(M)[1].abi = Usable(AfterOf(chain, h).abi)
    BY <1>3, <1>8, <2>3, <2>4
  <2>11. Usable(AfterOf(chain, h).abi) = AfterOf(chain, h).abi
    BY <1>5 DEF SetsUsable, NewAbi, Usable
  <2> QED
    BY <1>11, <1>12, <1>15, <2>9, <2>10, <2>11
<1> QED
    BY <1>14, <1>15

LEMMA SnapshotsFound ==
    ASSUME IInv, RInv, RecordsMarked, Settled
    PROVE  /\ \A b \in DOMAIN chain : GetAbiSnapshot(docs, Token, b) = AbiAt(b)
           /\ GetAbiSnapshot(docs, Token, Wild) = AbiAt(Len(chain))
<1>1. Len(chain) \in Nat /\ DOMAIN chain = 1 .. Len(chain)
    BY DEF IInv, ChainOK, IsSeq
<1>2. ASSUME NEW b \in 1 .. Len(chain) PROVE GetAbiSnapshot(docs, Token, b) = AbiAt(b)
  <2>1. b # Wild /\ b \in 0 .. Len(chain)
    BY <1>1, QueriesAssumption
  <2> QED
    BY <1>1, <2>1, SnapshotIs
<1>3. GetAbiSnapshot(docs, Token, Wild) = AbiAt(Len(chain))
  <2>1. Len(chain) \in 0 .. Len(chain)
    BY <1>1
  <2>2. \A h \in 1 .. Len(chain) : (Wild = Wild \/ h <= Wild) <=> h <= Len(chain)
    BY <1>1
  <2> QED
    BY <1>1, <2>1, <2>2, SnapshotIs
<1> QED
    BY <1>1, <1>2, <1>3

\* What get_deltas is asked of a balance in a block.
OfBalance(a, h) ==
    [code |-> Token, scope |-> a, table |-> "accounts", present |-> Wild, after |-> h,
     before |-> h, skip |-> 0, limit |-> Wild, sort |-> "asc"]

LEMMA DeltasStored ==
    ASSUME IInv, RInv, RecordsMarked, Settled, NEW a \in Holders, NEW h \in 1 .. Len(chain)
    PROVE  LET s == Prior(chain, h)
               t == AfterOf(chain, h)
               q == Balances(s, t)
               M == {id \in DocsOf("delta") : /\ docs[id].value.block_num = h
                                              /\ docs[id].value.scope = a}
           IN  /\ \A id \in DocsOf("delta") : /\ docs[id].value.code = Token
                                              /\ docs[id].value.table = "accounts"
                                              /\ docs[id].value.block_num \in Nat
               /\ s.balance[a] = t.balance[a] => M = {}
               /\ s.balance[a] # t.balance[a] => \E id \in M :
                    M = {id} /\ docs[id].value.present = (t.balance[a] > 0)
<1> DEFINE s == Prior(chain, h)
           t == AfterOf(chain, h)
           q == Balances(s, t)
           M == {id \in DocsOf("delta") : /\ docs[id].value.block_num = h
                                          /\ docs[id].value.scope = a}
           Row0(g, j) == Balances(Prior(chain, g), AfterOf(chain, g))[j]
           Rows(g) == 1 .. Len(Balances(Prior(chain, g), AfterOf(chain, g)))
<1>1. \A id : id \in DocsOf("delta") <=> id \in DOMAIN docs /\ id[1] = "delta" /\ docs[id].value # NoValue
    BY DEF DocsOf, Ids, Live
<1>2. \A g, row, data : LET doc == DeltaOf(g, row, data) IN
        /\ doc.block_num = g /\ doc.code = row.data.code /\ doc.scope = row.data.scope
        /\ doc.table = row.data.table /\ doc.present = row.present
    BY DEF DeltaOf
<1>3. \A g : \A j \in Rows(g) : \E b \in Changed(Prior(chain, g), AfterOf(chain, g)) :
        Row0(g, j) = BalanceRow(Prior(chain, g), AfterOf(chain, g), b)
    BY BalancesAre
<1>4. \A u, v, b : LET row == BalanceRow(u, v, b) IN
        /\ row.data.code = Token /\ row.data.scope = b /\ row.data.table = "accounts"
        /\ row.present = (v.balance[b] > 0)
    BY DEF BalanceRow, Row
<1>5. ASSUME NEW id \in DocsOf("delta")
      PROVE  \E g \in 1 .. Len(chain) : \E j \in Rows(g) :
               id = DeltaId(g, j) /\ docs[id].value = DeltaOf(g, Row0(g, j), docs[id].value.data)
  <2>1. id \in DOMAIN docs /\ id[1] = "delta" /\ Written(id)
    BY <1>1 DEF Written
  <2>2. RecordLeft(chain, id, docs[id].value)
    BY <2>1 DEF RInv, RecordsStored
  <2> QED
    BY <2>1, <2>2 DEF RecordLeft, RecordOf
<1> HIDE DEF Row0, Rows
<1>6. ASSUME NEW id \in DocsOf("delta")
      PROVE  \E g \in 1 .. Len(chain) : \E j \in Rows(g) :
               /\ id = DeltaId(g, j)
               /\ docs[id].value.block_num = g /\ docs[id].value.code = Token
               /\ docs[id].value.table = "accounts"
               /\ docs[id].value.scope = Row0(g, j).data.scope
               /\ docs[id].value.present = Row0(g, j).present
  <2>1. PICK g \in 1 .. Len(chain) : \E j \in Rows(g) :
          id = DeltaId(g, j) /\ docs[id].value = DeltaOf(g, Row0(g, j), docs[id].value.data)
    BY <1>5
  <2>2. PICK j \in Rows(g) :
          id = DeltaId(g, j) /\ docs[id].value = DeltaOf(g, Row0(g, j), docs[id].value.data)
    BY <2>1
  <2>3. Row0(g, j).data.code = Token /\ Row0(g, j).data.table = "accounts"
    BY <1>3, <1>4
  <2> QED
    BY <1>2, <2>2, <2>3
<1>7. \A id \in DocsOf("delta") : /\ docs[id].value.code = Token
                                  /\ docs[id].value.table = "accounts"
                                  /\ docs[id].value.block_num \in Nat
  <2>1. \A g \in 1 .. Len(chain) : g \in Nat
    OBVIOUS
  <2> QED
    BY <1>6, <2>1
\* The documents of this balance in this block.
<1>8. ASSUME NEW id \in M
      PROVE  \E j \in Rows(h) : /\ id = DeltaId(h, j) /\ Row0(h, j).data.scope = a
                                /\ docs[id].value.present = Row0(h, j).present
    BY <1>6
<1>9. ASSUME NEW j \in Rows(h), Row0(h, j).data.scope = a
      PROVE  DeltaId(h, j) \in M
  <2> DEFINE id == DeltaId(h, j)
  <2>1. id \in RecordIds(h, s, t)
    BY DEF RecordIds, Rows
  <2>2. id \in DOMAIN docs /\ RecordLeft(chain, id, docs[id].value)
    BY <2>1, SettledRecords
  <2>3. id[1] = "delta"
    BY DEF DeltaId
  <2>4. PICK g \in 1 .. Len(chain) :
          RecordOf(id, docs[id].value, g, Prior(chain, g), AfterOf(chain, g), At(chain, g))
    BY <2>2 DEF RecordLeft
  <2>5. PICK i \in Rows(g) :
          id = DeltaId(g, i) /\ docs[id].value = DeltaOf(g, Row0(g, i), docs[id].value.data)
    BY <2>3, <2>4 DEF RecordOf, Rows, Row0
  <2>6. g = h /\ i = j
    <3>1. DeltaId(g, i) = DeltaId(h, j)
      BY <2>5
    <3>2. <<g, i - 1>> = <<h, j - 1>>
      BY <3>1 DEF DeltaId
    <3>3. g = h /\ i - 1 = j - 1
      BY <3>2
    <3>4. i \in Int /\ j \in Int
      BY DEF Rows
    <3> QED
      BY <3>3, <3>4
  <2> HIDE DEF id
  <2>7. docs[id].value # NoValue
    BY <2>5 DEF RecordsMarked
  <2>8. docs[id].value.block_num = h /\ docs[id].value.scope = a
    BY <1>2, <1>9, <2>5, <2>6
  <2> QED
    BY <1>1, <2>2, <2>3, <2>7, <2>8 DEF id
<1>10. CASE s.balance[a] = t.balance[a]
  <2>1. a \notin Changed(s, t)
    BY <1>10 DEF Changed
  <2>2. \A j \in Rows(h) : Row0(h, j).data.scope # a
    BY <1>3, <1>4, <2>1
  <2>3. M = {}
    BY <1>8, <2>2
  <2> QED
    BY <1>7, <1>10, <2>3
<1>11. CASE s.balance[a] # t.balance[a]
  <2>1. a \in Changed(s, t)
    BY <1>11 DEF Changed
  <2>2. PICK j \in Rows(h) : Row0(h, j) = BalanceRow(s, t, a)
    BY <2>1, BalancesAre DEF Rows, Row0
  <2>3. Row0(h, j).data.scope = a /\ Row0(h, j).present = (t.balance[a] > 0)
    BY <1>4, <2>2
  <2>4. \A i \in Rows(h) : Row0(h, i).data.scope = a => i = j
    BY <2>3, BalancesAre DEF Rows, Row0
  <2>5. DeltaId(h, j) \in M
    BY <1>9, <2>3
  <2>6. \A id \in M : id = DeltaId(h, j)
    BY <1>8, <2>4
  <2>7. M = {DeltaId(h, j)}
    BY <2>5, <2>6
  <2>8. docs[DeltaId(h, j)].value.present = (t.balance[a] > 0)
    <3>1. PICK i \in Rows(h) : /\ DeltaId(h, j) = DeltaId(h, i) /\ Row0(h, i).data.scope = a
                               /\ docs[DeltaId(h, j)].value.present = Row0(h, i).present
      BY <1>8, <2>5
    <3> QED
      BY <2>3, <2>4, <3>1
  <2> QED
    BY <1>7, <1>11, <2>5, <2>7, <2>8
<1> QED
    BY <1>10, <1>11

LEMMA DeltasFound ==
    ASSUME IInv, RInv, RecordsMarked, Settled, MaxLimit # 0,
           NEW a \in Holders, NEW h \in 1 .. Len(chain)
    PROVE  LET found == GetDeltas(docs, OfBalance(a, h)) IN
           IF AfterOf(chain, h).balance[a] = Prior(chain, h).balance[a] THEN found = <<>>
           ELSE Len(found) = 1 /\ found[1].present = (AfterOf(chain, h).balance[a] > 0)
<1> DEFINE p == OfBalance(a, h)
           s == Prior(chain, h)
           t == AfterOf(chain, h)
           D == DocsOf("delta")
           M == {id \in D : docs[id].value.block_num = h /\ docs[id].value.scope = a}
           sort == Asc("block_num")
           size == ClampLimit(Wild)
           hits(ids) == Search(docs, ids, sort, 0, size)
<1>1. /\ \A id \in D : /\ docs[id].value.code = Token /\ docs[id].value.table = "accounts"
                       /\ docs[id].value.block_num \in Nat
      /\ s.balance[a] = t.balance[a] => M = {}
      /\ s.balance[a] # t.balance[a] => \E id \in M :
           M = {id} /\ docs[id].value.present = (t.balance[a] > 0)
    BY DeltasStored
<1>2. h # Wild /\ a # Wild /\ h \in Nat
  <2>1. h \in Nat /\ a \in Nat
    BY HistoryAssumption
  <2> QED
    BY <2>1, QueriesAssumption
<1>3. /\ p.code = Token /\ p.scope = a /\ p.table = "accounts" /\ p.present = Wild
      /\ p.after = h /\ p.before = h /\ p.skip = 0 /\ p.limit = Wild /\ p.sort = "asc"
    BY DEF OfBalance
<1>4. size \in Nat /\ size # 0
  <2>1. MaxLimit \in Nat
    BY QueriesAssumption
  <2> QED
    BY <2>1 DEF ClampLimit
<1> HIDE DEF p, s, t, D, size
<1> DEFINE Matches(doc) == /\ Allows(p.code, doc.code) /\ Allows(p.scope, doc.scope)
                           /\ Allows(p.table, doc.table) /\ Allows(p.present, doc.present)
                           /\ InRange(doc, p)
<1>5. ASSUME NEW id \in D
      PROVE  Matches(docs[id].value) <=> docs[id].value.block_num = h /\ docs[id].value.scope = a
  <2> DEFINE doc == docs[id].value
  <2>1. doc.code = Token /\ doc.table = "accounts" /\ doc.block_num \in Nat
    BY <1>1
  <2> HIDE DEF doc
  <2>2. InRange(doc, p) <=> doc.block_num = h
    BY <1>2, <1>3, <2>1 DEF InRange
  <2>3. Matches(doc) <=> doc.scope = a /\ doc.block_num = h
    BY <1>2, <1>3, <2>1, <2>2 DEF Allows
  <2> QED
    BY <2>3 DEF doc
<1>6. {id \in D : Matches(docs[id].value)} = M
    BY <1>5
<1>7. GetDeltas(docs, p) = hits(M)
  <2>1. GetDeltas(docs, p) = Search(docs, {id \in D : Matches(docs[id].value)}, sort, 0, size)
    BY <1>3 DEF GetDeltas, D, DocsOf, size
  <2> QED
    BY <1>6, <2>1
<1> HIDE DEF Matches
<1>8. CASE s.balance[a] = t.balance[a]
  <2>1. hits({}) = <<>>
    BY <1>4, SearchNone
  <2>2. M = {}
    BY <1>1, <1>8
  <2>3. hits(M) = <<>>
    BY <2>1, <2>2
  <2> QED
    BY <1>7, <1>8, <2>3 DEF p, s, t
<1>9. CASE s.balance[a] # t.balance[a]
  <2>1. PICK id \in M : M = {id} /\ docs[id].value.present = (t.balance[a] > 0)
    BY <1>1, <1>9
  <2>2. docs[id].value.block_num = h
    BY <2>1
  <2>3. Rank(docs[id].value, sort) \in Int
    BY <1>2, <2>2 DEF Rank, Asc
  <2> HIDE DEF sort, M
  <2>4. hits({id}) = <<docs[id].value>>
    BY <1>4, <2>3, SearchOne
  <2>5. hits(M) = <<docs[id].value>>
    BY <2>1, <2>4
  <2> HIDE DEF hits
  <2>6. Len(hits(M)) = 1 /\ hits(M)[1].present = (t.balance[a] > 0)
    BY <2>1, <2>5
  <2> QED
    BY <1>7, <1>9, <2>6 DEF p, s, t
<1> QED
    BY <1>8, <1>9

-----------------------------------------------------------------------------
(* The account that may be created.                                          *)

Born(s) == \E p \in s.perms : p.owner = NewName /\ p.name = "active"
Founding(act) ==
    \E c \in Holders : act = Act(System, "newaccount", [creator |-> c, name |-> NewName])

\* It is created at most once, and then it stays.
OfBirth(tx, s) ==
    /\ Born(s) => Born(tx.after)
    /\ \A n \in 1 .. Len(tx.steps) : tx.steps[n].act.name = "newaccount" =>
         Founding(tx.steps[n].act) /\ ~Born(s) /\ Born(tx.after)

LEMMA OneStepOfBirth ==
    ASSUME NEW act, NEW after, NEW s, NEW status, Born(s) => Born(after),
           act.name = "newaccount" => Founding(act) /\ ~Born(s) /\ Born(after),
           NEW notify, NEW S, notify \in Seq(S)
    PROVE  OfBirth([status |-> status, steps |-> <<Step(act, notify)>>, after |-> after], s)
<1> DEFINE step == Step(act, notify)
           tx == [status |-> status, steps |-> <<step>>, after |-> after]
<1>1. step.act = act
    BY StepHasReceiver
<1> HIDE DEF step
<1>2. tx.steps = <<step>> /\ tx.after = after
    OBVIOUS
<1>3. Len(<<step>>) = 1 /\ \A n \in 1 .. 1 : <<step>>[n] = step
    OBVIOUS
<1> HIDE DEF tx
<1>4. OfBirth(tx, s)
    BY <1>1, <1>2, <1>3 DEF OfBirth
<1> QED
    BY <1>4 DEF tx, step

LEMMA TransfersOfBirth ==
    ASSUME NEW s, IsState(s), NEW tx \in Transfers(s)
    PROVE  /\ OfBirth(tx, s)
           /\ tx.after.perms = s.perms
           /\ tx.steps[1].act.name = "transfer"
<1>1. PICK t \in Holders \X Holders \X (1 .. 2) :
        tx = Transaction([k \in 1 .. t[3] |-> Transfer(t[1], t[2])], Move(s, t[1], t[2], t[3]))
    BY DEF Transfers
<1> DEFINE step == Transfer(t[1], t[2])
           steps == [k \in 1 .. t[3] |-> step]
           act == Act(Token, "transfer", [from |-> t[1], to |-> t[2], quantity |-> 1])
<1>2. t[3] \in Nat /\ 1 \in 1 .. t[3] /\ t[1] \in Holders /\ t[2] \in Holders
    OBVIOUS
<1>3. step.act = act
  <2>1. <<t[1], t[2]>> \in Seq(Holders)
    BY <1>2
  <2> HIDE DEF act
  <2> QED
    BY <2>1, StepIs DEF Transfer, act
<1>4. act.name = "transfer"
    BY DEF Act
<1>5. tx.steps = steps
    BY <1>1 DEF Transaction
<1>6. tx.after.perms = s.perms
    BY TransferKeepsPerms
<1> HIDE DEF step, act
<1>7. steps = [k \in 1 .. t[3] |-> steps[k]] /\ \A k \in 1 .. t[3] : steps[k] = step
    OBVIOUS
<1> HIDE DEF steps
<1>8. Len(steps) = t[3]
    BY <1>2, <1>7, MadeSeq
<1>9. \A n \in 1 .. Len(tx.steps) : tx.steps[n].act.name = "transfer"
    BY <1>3, <1>4, <1>5, <1>7, <1>8
<1>10. OfBirth(tx, s)
    BY <1>6, <1>9 DEF OfBirth, Born
<1> QED
    BY <1>2, <1>5, <1>6, <1>8, <1>9, <1>10

LEMMA DeploymentsOfBirth ==
    ASSUME NEW s, IsState(s), NEW tx \in Deployments(s)
    PROVE  OfBirth(tx, s)
<1>1. PICK abi \in Abis \ {s.abi} :
        \/ tx = Transaction(<<SetAbi(abi)>>, [s EXCEPT !.abi = abi])
        \/ \E t \in Transfers(s) :
             tx = Transaction(<<SetAbi(abi), t.steps[1]>>, [t.after EXCEPT !.abi = abi])
    BY DEF Deployments
<1> DEFINE act == Act(System, "setabi", [account |-> Token, abi |-> abi])
<1>2. SetAbi(abi) = Step(act, <<>>) /\ act.name = "setabi" /\ <<>> \in Seq({})
    BY EmptySeq DEF SetAbi, Act
<1>3. SetAbi(abi).act.name = "setabi"
  <2> HIDE DEF act
  <2>1. Step(act, <<>>).act = act
    BY <1>2, StepIs
  <2> QED
    BY <1>2, <2>1
<1>4. CASE tx = Transaction(<<SetAbi(abi)>>, [s EXCEPT !.abi = abi])
  <2>1. tx = [status |-> 0, steps |-> <<Step(act, <<>>)>>, after |-> [s EXCEPT !.abi = abi]]
    BY <1>2, <1>4 DEF Transaction
  <2> DEFINE after == [s EXCEPT !.abi = abi]
  <2>2. after.perms = s.perms
    BY FieldsExcept
  <2> HIDE DEF after, act
  <2>3. Born(s) => Born(after)
    BY <2>2 DEF Born
  <2>4. act.name # "newaccount"
    BY <1>2
  <2>5. OfBirth([status |-> 0, steps |-> <<Step(act, <<>>)>>, after |-> after], s)
    BY <1>2, <2>3, <2>4, OneStepOfBirth
  <2> QED
    BY <2>1, <2>5 DEF after
<1>5. ASSUME NEW t \in Transfers(s),
             tx = Transaction(<<SetAbi(abi), t.steps[1]>>, [t.after EXCEPT !.abi = abi])
      PROVE  OfBirth(tx, s)
  <2> DEFINE one == SetAbi(abi)
             two == t.steps[1]
             after == [t.after EXCEPT !.abi = abi]
  <2>1. t.after.perms = s.perms /\ IsState(t.after) /\ two.act.name = "transfer"
    BY TransfersOfBirth, TransfersAre DEF GoodTx
  <2>2. after.perms = s.perms
    BY <2>1, FieldsExcept
  <2>3. tx.steps = <<one, two>> /\ tx.after = after
    BY <1>5 DEF Transaction
  <2>4. one.act.name = "setabi"
    BY <1>3
  <2> HIDE DEF one, two, after
  <2>5. Len(<<one, two>>) = 2 /\ <<one, two>>[1] = one /\ <<one, two>>[2] = two
    OBVIOUS
  <2>6. \A n \in 1 .. 2 : n = 1 \/ n = 2
    OBVIOUS
  <2>7. \A n \in 1 .. Len(tx.steps) : tx.steps[n].act.name # "newaccount"
    BY <2>1, <2>3, <2>4, <2>5, <2>6
  <2> QED
    BY <2>2, <2>3, <2>7 DEF OfBirth, Born
<1> QED
    BY <1>1, <1>4, <1>5

LEMMA TransactionsOfBirth ==
    ASSUME NEW s, IsState(s),
           NEW tx \in UNION {Transfers(s), Creations(s), Updates(s), Deletions(s), Deployments(s),
                             Unindexed(s)}
    PROVE  OfBirth(tx, s)
<1>1. CASE tx \in Transfers(s)
    BY <1>1, TransfersOfBirth
<1>2. CASE tx \in Deployments(s)
    BY <1>2, DeploymentsOfBirth
<1>0. <<>> \in Seq({})
    BY EmptySeq
<1>3. CASE tx \in Creations(s)
  <2>1. /\ \A p \in s.perms : p.owner # NewName
        /\ \E u \in Holders \X Keys : tx = Creation(s, u[1], u[2])
    BY <1>3 DEF Creations
  <2>2. PICK u \in Holders \X Keys : tx = Creation(s, u[1], u[2])
    BY <2>1
  <2> DEFINE act == Act(System, "newaccount", [creator |-> u[1], name |-> NewName])
             new == Perm(NewName, "active", [keys |-> {u[2]}, accounts |-> {}])
             v == s.perms \cup {new}
             after == [s EXCEPT !.perms = v]
  <2>3. new.owner = NewName /\ new.name = "active"
    BY DEF Perm
  <2>4. tx = [status |-> 0, steps |-> <<Step(act, <<>>)>>, after |-> after]
    BY <2>2 DEF Creation, Transaction
  <2>5. Founding(act)
    BY DEF Founding
  <2> HIDE DEF new
  <2>6. after.perms = v /\ new \in v
    BY FieldsExcept
  <2> HIDE DEF after, act, v
  <2>7. Born(after) /\ ~Born(s)
    BY <2>1, <2>3, <2>6 DEF Born
  <2> QED
    BY <1>0, <2>4, <2>5, <2>7, OneStepOfBirth
<1>4. CASE tx \in Updates(s)
  <2>1. PICK u \in Holders \X Auths : tx = Update(s, u[1], u[2])
    BY <1>4 DEF Updates
  <2> DEFINE act == Act(System, "updateauth", [owner |-> u[1], auth |-> u[2]])
             v == Others(s, u[1], "extra") \cup {Perm(u[1], "extra", u[2])}
             after == [s EXCEPT !.perms = v]
  <2>2. tx = [status |-> 0, steps |-> <<Step(act, <<>>)>>, after |-> after]
    BY <2>1 DEF Update, Transaction
  <2>3. act.name # "newaccount"
    BY DEF Act
  <2>4. \A p \in s.perms : p.name = "active" => p \in v
    BY DEF Others
  <2> HIDE DEF act, v
  <2>5. after.perms = v
    BY FieldsExcept
  <2> HIDE DEF after
  <2>6. Born(s) => Born(after)
    BY <2>4, <2>5 DEF Born
  <2> QED
    BY <1>0, <2>2, <2>3, <2>6, OneStepOfBirth
<1>5. CASE tx \in Deletions(s)
  <2>1. \E o : tx = Transaction(<<Step(Act(System, "deleteauth", [owner |-> o]), <<>>)>>,
                                [s EXCEPT !.perms = Others(s, o, "extra")])
    BY <1>5 DEF Deletions
  <2>2. PICK o : tx = Transaction(<<Step(Act(System, "deleteauth", [owner |-> o]), <<>>)>>,
                                  [s EXCEPT !.perms = Others(s, o, "extra")])
    BY <2>1
  <2> DEFINE act == Act(System, "deleteauth", [owner |-> o])
             v == Others(s, o, "extra")
             after == [s EXCEPT !.perms = v]
  <2>3. tx = [status |-> 0, steps |-> <<Step(act, <<>>)>>, after |-> after]
    BY <2>2 DEF Transaction
  <2>4. act.name # "newaccount"
    BY DEF Act
  <2>5. \A p \in s.perms : p.name = "active" => p \in v
    BY DEF Others
  <2> HIDE DEF act, v
  <2>6. after.perms = v
    BY FieldsExcept
  <2> HIDE DEF after
  <2>7. Born(s) => Born(after)
    BY <2>5, <2>6 DEF Born
  <2> QED
    BY <1>0, <2>3, <2>4, <2>7, OneStepOfBirth
<1>6. CASE tx \in Unindexed(s)
  <2>1. \/ tx = Transaction(<<Step(Act(Token, "ping", [memo |-> 0]), <<First>>)>>, s)
        \/ tx = [status |-> 1, steps |-> <<Transfer(First, First)>>, after |-> s]
    BY <1>6 DEF Unindexed
  <2> DEFINE ping == Act(Token, "ping", [memo |-> 0])
             send == Act(Token, "transfer", [from |-> First, to |-> First, quantity |-> 1])
  <2>2. \/ tx = [status |-> 0, steps |-> <<Step(ping, <<First>>)>>, after |-> s]
        \/ tx = [status |-> 1, steps |-> <<Step(send, <<First, First>>)>>, after |-> s]
    BY <2>1 DEF Transaction, Transfer
  <2>3. <<First>> \in Seq({First}) /\ <<First, First>> \in Seq({First})
    OBVIOUS
  <2>4. ping.name # "newaccount" /\ send.name # "newaccount"
    BY DEF Act
  <2> HIDE DEF ping, send
  <2>5. CASE tx = [status |-> 0, steps |-> <<Step(ping, <<First>>)>>, after |-> s]
    BY <2>3, <2>4, <2>5, OneStepOfBirth
  <2>6. CASE tx = [status |-> 1, steps |-> <<Step(send, <<First, First>>)>>, after |-> s]
    BY <2>3, <2>4, <2>6, OneStepOfBirth
  <2> QED
    BY <2>2, <2>5, <2>6
<1> QED
    BY <1>1, <1>2, <1>3, <1>4, <1>5, <1>6

\* A block has two actions at most, and a creation is the first of its account
\* and holds ever after.
BlockActs(c, h) ==
    LET traces == c[h].traces IN
    /\ \E x, y : \A k \in 1 .. Len(traces) : traces[k].act \in {x, y}
    /\ \A k \in 1 .. Len(traces) : traces[k].act.name = "newaccount" =>
         /\ Founding(traces[k].act) /\ ~Born(Prior(c, h))
         /\ \A g \in h .. Len(c) : Born(AfterOf(c, g))

BInv == \A h \in 1 .. Len(chain) : BlockActs(chain, h)

LEMMA BlockActsKept ==
    ASSUME NEW c, ChainOK(c), \A h \in 1 .. Len(c) : BlockActs(c, h),
           NEW tx, GoodTx(tx, AfterOf(c, Len(c))), OfBirth(tx, AfterOf(c, Len(c)))
    PROVE  LET d == Append(c, Executed(AfterOf(c, Len(c)), tx)) IN
           \A h \in 1 .. Len(d) : BlockActs(d, h)
<1> DEFINE n == Len(c)
           s == AfterOf(c, n)
           b == Executed(s, tx)
           d == Append(c, b)
<1>1. n \in Nat /\ IsSeq(c)
    BY DEF ChainOK, IsSeq
<1>2. IsState(s) /\ Runs(tx) /\ IsState(tx.after) /\ Len(tx.steps) \in 1 .. 2
    BY <1>1, AfterIsState DEF GoodTx
<1>3. \A k \in 1 .. Len(b.traces) : \E m \in 1 .. Len(tx.steps) : b.traces[k].act = tx.steps[m].act
    BY <1>2, ExecutedAre
<1>4. b.after.perms = tx.after.perms
    BY <1>2, ExecutedFields
<1>5. /\ Born(s) => Born(b.after)
      /\ \A m \in 1 .. Len(tx.steps) : tx.steps[m].act.name = "newaccount" =>
           Founding(tx.steps[m].act) /\ ~Born(s) /\ Born(b.after)
    BY <1>4 DEF OfBirth, Born
<1>6. /\ Len(d) = n + 1 /\ Prior(d, n + 1) = s /\ AfterOf(d, n + 1) = b.after
      /\ \A h \in 1 .. n : Prior(d, h) = Prior(c, h) /\ AfterOf(d, h) = AfterOf(c, h)
    BY <1>1, PriorKept, AppendBlock
<1>7. d[n + 1] = b /\ \A h \in 1 .. n : d[h] = c[h]
    BY <1>1, AppendIs
<1> HIDE DEF b, d
<1>8. ASSUME NEW h \in 1 .. n PROVE BlockActs(d, h)
  <2> DEFINE traces == c[h].traces
  <2>1. BlockActs(c, h)
    BY DEF n
  <2>2. \E x, y : \A k \in 1 .. Len(traces) : traces[k].act \in {x, y}
    BY <2>1 DEF BlockActs
  <2>3. ASSUME NEW k \in 1 .. Len(traces), traces[k].act.name = "newaccount"
        PROVE  /\ Founding(traces[k].act) /\ ~Born(Prior(d, h))
               /\ \A g \in h .. n + 1 : Born(AfterOf(d, g))
    <3>1. /\ Founding(traces[k].act) /\ ~Born(Prior(c, h))
          /\ \A g \in h .. n : Born(AfterOf(c, g))
      BY <2>1, <2>3 DEF BlockActs, n
    <3>2. n \in h .. n
      BY <1>1
    <3>3. Born(b.after)
      BY <1>5, <3>1, <3>2
    <3>4. ASSUME NEW g \in h .. n + 1 PROVE Born(AfterOf(d, g))
      <4>1. CASE g = n + 1
        BY <1>6, <3>3, <4>1
      <4>2. CASE g # n + 1
        <5>1. g \in h .. n /\ g \in 1 .. n
          BY <1>1, <4>2
        <5> QED
          BY <1>6, <3>1, <5>1
      <4> QED
        BY <4>1, <4>2
    <3> QED
      BY <1>6, <3>1, <3>4
  <2>4. d[h].traces = traces
    BY <1>7
  <2> HIDE DEF traces
  <2> QED
    BY <1>6, <2>2, <2>3, <2>4 DEF BlockActs
<1>9. BlockActs(d, n + 1)
  <2> DEFINE traces == b.traces
  <2>1. \E x, y : \A k \in 1 .. Len(traces) : traces[k].act \in {x, y}
    <3>0. \A l \in 1 .. 2 : \A m \in 1 .. l : m = 1 \/ m = 2
      OBVIOUS
    <3>1. \A m \in 1 .. Len(tx.steps) : m = 1 \/ m = 2
      BY <1>2, <3>0
    <3>2. \A k \in 1 .. Len(traces) : traces[k].act \in {tx.steps[1].act, tx.steps[2].act}
      BY <1>3, <3>1
    <3> QED
      BY <3>2
  <2>2. ASSUME NEW k \in 1 .. Len(traces), traces[k].act.name = "newaccount"
        PROVE  /\ Founding(traces[k].act) /\ ~Born(s)
               /\ \A g \in n + 1 .. n + 1 : Born(AfterOf(d, g))
    <3>1. Founding(traces[k].act) /\ ~Born(s) /\ Born(b.after)
      BY <1>3, <1>5, <2>2
    <3>2. \A g \in n + 1 .. n + 1 : g = n + 1
      BY <1>1
    <3> QED
      BY <1>6, <3>1, <3>2
  <2>3. d[n + 1].traces = traces
    BY <1>7
  <2> HIDE DEF traces, n, s
  <2> QED
    BY <1>6, <2>1, <2>2, <2>3 DEF BlockActs
<1>10. \A h \in 1 .. n + 1 : h = n + 1 \/ h \in 1 .. n
    BY <1>1
<1>11. \A h \in 1 .. Len(d) : BlockActs(d, h)
    BY <1>6, <1>8, <1>9, <1>10
<1> QED
    BY <1>11 DEF d, b

LEMMA BirthInvariance == Spec => []BInv
<1>1. Init => BInv
  <2> SUFFICES ASSUME Init PROVE BInv
    OBVIOUS
  <2>1. Len(chain) = 0 /\ 1 .. 0 = {}
    BY DEF Init
  <2> QED
    BY <2>1 DEF BInv
<1>2. BInv /\ IInv /\ [Next]_vars => BInv'
  <2> SUFFICES ASSUME BInv, IInv, [Next]_vars PROVE BInv'
    OBVIOUS
  <2> DEFINE s == Current
             n == Len(chain)
  <2>1. ChainOK(chain) /\ IsSeq(chain) /\ n \in Nat /\ s = AfterOf(chain, n)
    BY DEF IInv, ChainOK, IsSeq, Current, After, AfterOf
  <2>2. IsState(s)
    BY <2>1, AfterIsState DEF IInv
  <2> HIDE DEF s
  <2>3. ASSUME NEW tx \in UNION {Transfers(s), Creations(s), Updates(s), Deletions(s),
                                 Deployments(s), Unindexed(s)},
               chain' = Append(chain, Executed(s, tx))
        PROVE  BInv'
    <3>1. GoodTx(tx, s) /\ OfBirth(tx, s)
      BY <2>2, TransactionsAre, TransactionsOfBirth
    <3>2. \A h \in 1 .. Len(chain') : BlockActs(chain', h)
      BY <2>1, <2>3, <3>1, BlockActsKept DEF BInv
    <3> QED
      BY <3>2 DEF BInv
  <2>4. ASSUME NEW txs, txs \subseteq UNION {Transfers(s), Creations(s), Updates(s), Deletions(s),
                                             Deployments(s), Unindexed(s)},
               Produce(txs)
        PROVE  BInv'
    <3>1. \E tx \in txs : chain' = Append(chain, Executed(s, tx))
      BY <2>4 DEF Produce, s
    <3> QED
      BY <2>3, <2>4, <3>1
  <2>5. ASSUME NEW w, Land(w) PROVE BInv'
    <3>1. chain' = chain
      BY <2>5 DEF Land
    <3> QED
      BY <3>1 DEF BInv
  <2>6. CASE UNCHANGED vars
    BY <2>6 DEF vars, BInv
  <2>7. CASE Next
    <3>1. CASE Produce(Transfers(s))
      BY <2>4, <3>1
    <3>2. CASE Produce(Creations(s))
      BY <2>4, <3>2
    <3>3. CASE Produce(Updates(s))
      BY <2>4, <3>3
    <3>4. CASE Produce(Deletions(s))
      BY <2>4, <3>4
    <3>5. CASE Produce(Deployments(s))
      BY <2>4, <3>5
    <3>6. CASE Produce(Unindexed(s))
      BY <2>4, <3>6
    <3>7. CASE \E w \in flying : Land(w)
      BY <2>5, <3>7
    <3> QED
      BY <2>7, <3>1, <3>2, <3>3, <3>4, <3>5, <3>6, <3>7 DEF Next, s
  <2> QED
    BY <2>6, <2>7
<1> QED
    BY <1>1, <1>2, Invariance, PTL DEF Spec

-----------------------------------------------------------------------------
(* The endpoints of transactions and of creations.                           *)

\* The stored actions of a block are those of its groups.
LEMMA ActionOfBlock ==
    ASSUME IInv, NEW id \in DocsOf("action"), NEW h, docs[id].value.trx_id = h
    PROVE  /\ docs[id].value.block_num = h /\ h \in 1 .. Len(chain)
           /\ \E g : Known(chain, id, docs[id].value, h, g)
<1>1. ChainOK(chain) /\ Growing(chain) /\ DocsOK(chain, docs)
    BY DEF IInv
<1>2. PICK i, g : Known(chain, id, docs[id].value, i, g)
    BY <1>1, ActionsStored DEF DocsOf
<1>3. Tells(chain, id, docs[id].value, i, g)
    BY <1>1, <1>2, KnownIs
<1>4. docs[id].value.block_num = i /\ docs[id].value.trx_id = i
    BY <1>3 DEF Tells
<1>5. i = h
    BY <1>4
<1> QED
    BY <1>2, <1>4, <1>5 DEF Known

\* Two of them are of different actions.
LEMMA ActionsApart ==
    ASSUME IInv, NEW h, NEW i \in DocsOf("action"), NEW j \in DocsOf("action"),
           NEW g, NEW k, Known(chain, i, docs[i].value, h, g), Known(chain, j, docs[j].value, h, k),
           Groups(At(chain, h))[g][1].act = Groups(At(chain, h))[k][1].act
    PROVE  i = j
<1>1. ChainOK(chain)
    BY DEF IInv
<1>2. /\ h \in 1 .. Len(chain)
      /\ g \in 1 .. Len(Groups(At(chain, h))) /\ k \in 1 .. Len(Groups(At(chain, h)))
    BY DEF Known
<1>3. g = k
    BY <1>1, <1>2, OneGroup
<1> QED
    BY <1>1, <1>3, SameId

LEMMA FewActions ==
    ASSUME IInv, BInv, NEW h \in 1 .. Len(chain)
    PROVE  LET M == {id \in DocsOf("action") : docs[id].value.trx_id = h} IN
           IsFiniteSet(M) /\ Cardinality(M) <= 2
<1> DEFINE M == {id \in DocsOf("action") : docs[id].value.trx_id = h}
           ActOf(g) == Groups(At(chain, h))[g][1].act
           K(id, g) == Known(chain, id, docs[id].value, h, g)
<1>1. ChainOK(chain) /\ BlockActs(chain, h)
    BY DEF IInv, BInv
<1>2. PICK x, y : \A k \in 1 .. Len(chain[h].traces) : chain[h].traces[k].act \in {x, y}
    BY <1>1 DEF BlockActs
<1>3. \A id \in M : \E g : K(id, g)
    BY ActionOfBlock
<1>4. ASSUME NEW id \in M, NEW g, K(id, g) PROVE ActOf(g) \in {x, y}
  <2>1. g \in 1 .. Len(Groups(At(chain, h)))
    BY <1>4 DEF Known
  <2>2. GroupOf(chain, h, Groups(At(chain, h))[g])
    BY <1>1, <2>1, GroupIs
  <2>3. \E k \in 1 .. Len(chain[h].traces) : ActOf(g) = chain[h].traces[k].act
    BY <2>2 DEF GroupOf, Ran
  <2> QED
    BY <1>2, <2>3
<1>5. \A i \in M, j \in M : \A g, k : K(i, g) /\ K(j, k) /\ ActOf(g) = ActOf(k) => i = j
    BY ActionsApart
<1> HIDE DEF M, ActOf, K
<1> DEFINE Of(act, id) == id \in M /\ \E g : K(id, g) /\ ActOf(g) = act
<1>6. \A act, i, j : Of(act, i) /\ Of(act, j) => i = j
    BY <1>5
<1>7. \A id \in M : Of(x, id) \/ Of(y, id)
    BY <1>3, <1>4
<1> HIDE DEF Of
<1>8. \E i, j : M \subseteq {i, j}
  <2> DEFINE i == CHOOSE id : Of(x, id)
             j == CHOOSE id : Of(y, id)
  <2>1. \A id : Of(x, id) => id = i
    <3> SUFFICES ASSUME NEW id, Of(x, id) PROVE id = i
      OBVIOUS
    <3>1. Of(x, i)
      OBVIOUS
    <3> QED
      BY <1>6, <3>1
  <2>2. \A id : Of(y, id) => id = j
    <3> SUFFICES ASSUME NEW id, Of(y, id) PROVE id = j
      OBVIOUS
    <3>1. Of(y, j)
      OBVIOUS
    <3> QED
      BY <1>6, <3>1
  <2> HIDE DEF i, j
  <2>3. M \subseteq {i, j}
    BY <1>7, <2>1, <2>2
  <2> QED
    BY <2>3
<1>9. PICK i, j : M \subseteq {i, j}
    BY <1>8
<1>10. IsFiniteSet({i, j}) /\ Cardinality({i, j}) <= 2
  <2>1. {i, j} = {i} \cup {j}
    OBVIOUS
  <2>2. IsFiniteSet({i}) /\ Cardinality({i}) = 1
    BY FS_Singleton
  <2> DEFINE one == {i}
  <2> HIDE DEF one
  <2>3. /\ IsFiniteSet(one \cup {j})
        /\ Cardinality(one \cup {j}) = IF j \in one THEN 1 ELSE 2
    <3>1. IsFiniteSet(one) /\ Cardinality(one) = 1
      BY <2>2 DEF one
    <3>2. /\ IsFiniteSet(one \cup {j})
          /\ Cardinality(one \cup {j}) =
               IF j \in one THEN Cardinality(one) ELSE Cardinality(one) + 1
      BY <3>1, FS_AddElement
    <3> QED
      BY <3>1, <3>2
  <2> QED
    BY <2>1, <2>3 DEF one
<1>11. IsFiniteSet(M) /\ Cardinality(M) <= 2
  <2>1. IsFiniteSet(M) /\ Cardinality(M) <= Cardinality({i, j})
    BY <1>9, <1>10, FS_Subset
  <2>2. Cardinality(M) \in Nat /\ Cardinality({i, j}) \in Nat
    BY <1>10, <2>1, FS_CardinalityType
  <2> QED
    BY <1>10, <2>1, <2>2
<1> QED
    BY <1>11 DEF M

LEMMA TransactionFound ==
    ASSUME IInv, BInv, MaxHits >= 2, NEW h \in 1 .. Len(chain)
    PROVE  {doc.global_sequence : doc \in Range(GetTransaction(docs, h))} =
           {doc.global_sequence : doc \in {d \in LiveDocs("action") : d.block_num = h}}
<1> DEFINE M == {id \in DocsOf("action") : docs[id].value.trx_id = h}
           sort == Asc("global_sequence")
           hits == Search(docs, M, sort, 0, MaxHits)
           V == {docs[id].value : id \in M}
<1>1. GetTransaction(docs, h) = hits
    BY DEF GetTransaction, DocsOf
<1>2. V = {d \in LiveDocs("action") : d.block_num = h}
  <2>1. \A id \in DocsOf("action") : docs[id].value.trx_id = docs[id].value.block_num
    BY ActionOfBlock
  <2> QED
    BY <2>1 DEF LiveDocs
<1>3. IsFiniteSet(M) /\ Cardinality(M) <= 2
    BY FewActions
<1>4. MaxHits \in Nat
    BY QueriesAssumption
<1>5. M \subseteq Ids(docs, "action")
    BY DEF DocsOf
<1>6. ChainOK(chain) /\ Growing(chain) /\ DocsOK(chain, docs)
    BY DEF IInv
<1> HIDE DEF M
<1>7. Sequenced(docs, M)
    BY <1>5, <1>6, ActionsStored
<1>8. \A id \in M : Rank(docs[id].value, sort) \in Int
    BY <1>7 DEF Sequenced, Sequence, Rank, Asc
<1>9. Cardinality(M) <= MaxHits
    BY <1>3, <1>4, FS_CardinalityType
<1> HIDE DEF sort
<1>10. Ranked(docs, M, sort)
    BY <1>3, <1>8 DEF Ranked
<1>11. IsAll(hits, V)
    BY <1>4, <1>9, <1>10, SearchAll
<1> HIDE DEF hits, V
<1>12. Range(hits) = V
    BY <1>11 DEF IsAll, IsSeq, Range
<1> QED
    BY <1>1, <1>2, <1>12

\* Nor is what a creation says the mark of absence.
CreationMarked == \A c : [creator |-> c, name |-> NewName] # NoValue

\* Block h has the action of a creation.
Founded(h, act) ==
    \E k \in 1 .. Len(chain[h].traces) :
        chain[h].traces[k].act = act /\ act.name = "newaccount"

LEMMA FoundedIs ==
    ASSUME IInv, BInv, NEW h \in 1 .. Len(chain), NEW act, Founded(h, act)
    PROVE  \E c \in Holders : /\ act.account = System /\ act.name = "newaccount"
                              /\ act.data = [creator |-> c, name |-> NewName]
<1>1. PICK k \in 1 .. Len(chain[h].traces) :
        chain[h].traces[k].act = act /\ act.name = "newaccount"
    BY DEF Founded
<1>2. Founding(act)
    BY <1>1 DEF BInv, BlockActs
<1>3. PICK c \in Holders : act = Act(System, "newaccount", [creator |-> c, name |-> NewName])
    BY <1>2 DEF Founding
<1> QED
    BY <1>3 DEF Act

LEMMA FoundedOnce ==
    ASSUME IInv, BInv, NEW h \in 1 .. Len(chain), NEW i \in 1 .. Len(chain),
           NEW act, NEW other, Founded(h, act), Founded(i, other)
    PROVE  h = i /\ act = other
<1>1. Len(chain) \in Nat
    BY DEF IInv, ChainOK, IsSeq
<1>2. \A m \in 1 .. Len(chain) : \A a : Founded(m, a) =>
        ~Born(AfterOf(chain, m - 1)) /\ \A g \in m .. Len(chain) : Born(AfterOf(chain, g))
    BY DEF Founded, BInv, BlockActs, Prior
<1>3. ~(h < i)
  <2>1. h < i => i - 1 \in h .. Len(chain)
    BY <1>1
  <2> QED
    BY <1>2, <2>1
<1>4. ~(i < h)
  <2>1. i < h => h - 1 \in i .. Len(chain)
    BY <1>1
  <2> QED
    BY <1>2, <2>1
<1>5. h = i
    BY <1>1, <1>3, <1>4
<1>6. act.account = other.account /\ act.name = other.name
    BY FoundedIs
<1>7. ByName({chain[h].traces[k].act : k \in 1 .. Len(chain[h].traces)})
    BY DEF IInv, ChainOK
<1>8. /\ act \in {chain[h].traces[k].act : k \in 1 .. Len(chain[h].traces)}
      /\ other \in {chain[h].traces[k].act : k \in 1 .. Len(chain[h].traces)}
    BY <1>5 DEF Founded
<1>9. act = other
    BY <1>6, <1>7, <1>8 DEF ByName
<1> QED
    BY <1>5, <1>9

\* The fields taken from a creation are its data.
LEMMA CreationFields ==
    ASSUME CreationMarked, NEW c, NEW data, data = [creator |-> c, name |-> NewName]
    PROVE  Extract("newaccount", data) = data
<1>1. data # NoValue
    BY DEF CreationMarked
<1>2. DOMAIN data = {"creator", "name"}
    OBVIOUS
<1>3. {"name"} \subseteq DOMAIN data /\ ({"name"} \cup {"creator"}) \cap DOMAIN data = DOMAIN data
    BY <1>2
<1>4. Extract("newaccount", data) = [f \in DOMAIN data |-> data[f]]
    BY <1>1, <1>3 DEF Extract
<1> QED
    BY <1>4

\* Block h has the action of a creation, and the document is that of it.
OfCreation(id, h, act) ==
    /\ Founded(h, act)
    /\ \E g : Known(chain, id, docs[id].value, h, g) /\ Groups(At(chain, h))[g][1].act = act
    /\ docs[id].value.data = act.data /\ docs[id].value.extract = act.data

\* A stored creation says what the creation said.
LEMMA CreationTold ==
    ASSUME IInv, BInv, RInv, CreationMarked,
           NEW id \in DocsOf("action"), docs[id].value.name = "newaccount"
    PROVE  \E h \in 1 .. Len(chain) : \E act : OfCreation(id, h, act)
<1> DEFINE value == docs[id].value
<1>1. id \in DOMAIN docs /\ id[1] = "action" /\ Written(id)
    BY DEF DocsOf, Ids, Written
<1>2. RecordLeft(chain, id, value)
    BY <1>1 DEF RInv, RecordsStored
<1>3. PICK h \in 1 .. Len(chain) : \E g \in 1 .. Len(Groups(At(chain, h))) :
        /\ OfGroup(id, value, h, At(chain, h), Groups(At(chain, h))[g])
        /\ Plain(value, Primary(Groups(At(chain, h))[g]).act)
    BY <1>1, <1>2 DEF RecordLeft, RecordOf
<1>4. PICK g \in 1 .. Len(Groups(At(chain, h))) :
        /\ OfGroup(id, value, h, At(chain, h), Groups(At(chain, h))[g])
        /\ Plain(value, Primary(Groups(At(chain, h))[g]).act)
    BY <1>3
<1> DEFINE G == Groups(At(chain, h))[g]
           act == Primary(G).act
           at == At(chain, h)
<1>5. ChainOK(chain)
    BY DEF IInv
<1>6. Known(chain, id, value, h, g)
    BY <1>4 DEF Known
<1>7. Tells(chain, id, value, h, g) /\ GroupOf(chain, h, G)
    BY <1>4, <1>5, <1>6, KnownIs, GroupIs
<1>8. act = G[1].act /\ Ran(chain, h, Primary(G))
    BY <1>7 DEF GroupOf
<1>9. act.name = "newaccount"
    BY <1>7, <1>8 DEF Tells
<1>10. Founded(h, act)
    BY <1>8, <1>9 DEF Ran, Founded
<1>11. PICK c \in Holders : act.account = System /\ act.data = [creator |-> c, name |-> NewName]
    BY <1>10, FoundedIs
<1>12. value.data = act.data
  <2>1. act.name \in SystemAbi
    BY <1>9 DEF SystemAbi
  <2> QED
    BY <1>4, <1>11, <2>1 DEF Plain
<1>13. value.extract = Extract(act.name, value.data)
  <2> DEFINE data == value.data
  <2>1. value = ActionDoc(h, at, G, data)
    BY <1>4 DEF OfGroup
  <2> HIDE DEF data, value, G, at
  <2>2. ActionDoc(h, at, G, data).extract = Extract(Primary(G).act.name, data)
    BY DEF ActionDoc
  <2>3. value.extract = Extract(act.name, data)
    BY <2>1, <2>2
  <2> QED
    BY <2>3 DEF data
<1>14. value.extract = act.data
    BY <1>9, <1>11, <1>12, <1>13, CreationFields
<1> QED
    BY <1>6, <1>8, <1>10, <1>12, <1>14 DEF OfCreation

\* Once everything has landed there is one document of the creation, if there
\* was one.
LEMMA CreationsStored ==
    ASSUME IInv, BInv, RInv, AbsenceMarked, CreationMarked, Settled,
           <<System, "newaccount">> \notin SkipActions
    PROVE  /\ (\A h \in 1 .. Len(chain) : \A act : ~Founded(h, act)) => NewAccounts(docs) = {}
           /\ \A h \in 1 .. Len(chain) : \A act : Founded(h, act) => \E id :
                NewAccounts(docs) = {id} /\ id \in DocsOf("action") /\ OfCreation(id, h, act)
<1>1. \A id : id \in NewAccounts(docs) <=> /\ id \in DocsOf("action")
                                           /\ docs[id].value.name = "newaccount"
                                           /\ docs[id].value.extract # NoValue
    BY DEF NewAccounts, DocsOf
<1>2. ASSUME NEW id \in DocsOf("action"), docs[id].value.name = "newaccount"
      PROVE  \E h \in 1 .. Len(chain) : \E act : OfCreation(id, h, act)
    BY <1>2, CreationTold
<1>3. ASSUME NEW h \in 1 .. Len(chain), NEW act, Founded(h, act)
      PROVE  \E id : NewAccounts(docs) = {id} /\ id \in DocsOf("action") /\ OfCreation(id, h, act)
  <2>1. PICK k \in 1 .. Len(chain[h].traces) :
          chain[h].traces[k].act = act /\ act.name = "newaccount"
    BY <1>3 DEF Founded
  <2>2. PICK c \in Holders : act.account = System /\ act.data = [creator |-> c, name |-> NewName]
    BY <1>3, FoundedIs
  <2>3. <<chain[h].traces[k].act.account, chain[h].traces[k].act.name>> \notin SkipActions
    BY <2>1, <2>2
  <2>4. PICK id \in DocsOf("action") :
          ReceiptOf(h, chain[h].traces[k]) \in ReceiptsOf(docs[id].value)
    BY <2>3, ReceiptIsFound
  <2>5. docs[id].value.name = "newaccount"
    <3>1. ReceiptOf(h, chain[h].traces[k]).name = "newaccount"
      BY <2>1 DEF ReceiptOf
    <3>2. \A r \in ReceiptsOf(docs[id].value) : r.name = docs[id].value.name
      BY DEF ReceiptsOf
    <3> QED
      BY <2>4, <3>1, <3>2
  <2>6. ASSUME NEW i \in DocsOf("action"), docs[i].value.name = "newaccount"
        PROVE  OfCreation(i, h, act)
    <3>1. PICK m \in 1 .. Len(chain) : \E other : OfCreation(i, m, other)
      BY <1>2, <2>6
    <3>2. PICK other : OfCreation(i, m, other)
      BY <3>1
    <3>3. m = h /\ other = act
      BY <1>3, <3>2, FoundedOnce DEF OfCreation
    <3> QED
      BY <3>2, <3>3
  <2>7. OfCreation(id, h, act)
    BY <2>5, <2>6
  <2>8. id \in NewAccounts(docs)
    <3>1. docs[id].value.extract # NoValue
      BY <2>2, <2>7 DEF OfCreation, CreationMarked
    <3> QED
      BY <1>1, <2>5, <3>1
  <2>9. ASSUME NEW i \in NewAccounts(docs) PROVE i = id
    <3>1. i \in DocsOf("action") /\ docs[i].value.name = "newaccount"
      BY <1>1
    <3>2. OfCreation(i, h, act)
      BY <2>6, <3>1
    <3>3. PICK g : Known(chain, i, docs[i].value, h, g) /\ Groups(At(chain, h))[g][1].act = act
      BY <3>2 DEF OfCreation
    <3>4. PICK j : Known(chain, id, docs[id].value, h, j) /\ Groups(At(chain, h))[j][1].act = act
      BY <2>7 DEF OfCreation
    <3> QED
      BY <3>1, <3>3, <3>4, ActionsApart
  <2>10. NewAccounts(docs) = {id}
    BY <2>8, <2>9
  <2> QED
    BY <2>7, <2>10
<1>4. ASSUME \A h \in 1 .. Len(chain) : \A act : ~Founded(h, act)
      PROVE  NewAccounts(docs) = {}
    BY <1>1, <1>2, <1>4 DEF OfCreation
<1> QED
    BY <1>3, <1>4

Made == {r \in Receipts : r.trace.act.name = "newaccount"}

LEMMA MadeIs ==
    ASSUME IInv
    PROVE  /\ \A r \in Made : \E h \in 1 .. Len(chain) : Founded(h, r.trace.act)
           /\ \A h \in 1 .. Len(chain) : \A act : Founded(h, act) => \E r \in Made : r.trace.act = act
<1> DEFINE T(h) == chain[h].traces
           R(h) == {[height |-> h, trace |-> T(h)[k]] : k \in DOMAIN T(h)}
<1>1. DOMAIN chain = 1 .. Len(chain)
    BY DEF IInv, ChainOK, IsSeq
<1>2. \A h \in 1 .. Len(chain) : DOMAIN T(h) = 1 .. Len(T(h))
    BY DEF IInv, ChainOK, IsSeq
<1>3. Receipts = UNION {R(h) : h \in 1 .. Len(chain)}
    BY <1>1 DEF Receipts
<1> HIDE DEF T
<1>4. ASSUME NEW r \in Made PROVE \E h \in 1 .. Len(chain) : Founded(h, r.trace.act)
  <2>1. r \in Receipts /\ r.trace.act.name = "newaccount"
    BY DEF Made
  <2>2. PICK h \in 1 .. Len(chain) : r \in R(h)
    BY <1>3, <2>1
  <2>3. PICK k \in DOMAIN T(h) : r = [height |-> h, trace |-> T(h)[k]]
    BY <2>2
  <2>4. r.trace = T(h)[k]
    BY <2>3
  <2> QED
    BY <1>2, <2>1, <2>4 DEF Founded, T
<1>5. ASSUME NEW h \in 1 .. Len(chain), NEW act, Founded(h, act)
      PROVE  \E r \in Made : r.trace.act = act
  <2>1. PICK k \in 1 .. Len(T(h)) : T(h)[k].act = act /\ act.name = "newaccount"
    BY <1>5 DEF Founded, T
  <2> DEFINE r == [height |-> h, trace |-> T(h)[k]]
  <2>2. r \in R(h) /\ r.trace = T(h)[k]
    BY <1>2
  <2> HIDE DEF r, R
  <2>3. r \in Receipts
    BY <1>3, <2>2
  <2> QED
    BY <2>1, <2>2, <2>3 DEF Made
<1> QED
    BY <1>4, <1>5

LEMMA CreationFound ==
    ASSUME IInv, BInv, RInv, AbsenceMarked, CreationMarked, Settled,
           <<System, "newaccount">> \notin SkipActions
    PROVE  /\ GetCreator(docs, NewName) =
                IF Made = {} THEN NoValue ELSE (CHOOSE r \in Made : TRUE).trace.act.data.creator
           /\ \A c \in Holders : GetCreatedAccounts(docs, c) =
                IF \E r \in Made : r.trace.act.data.creator = c THEN <<NewName>> ELSE <<>>
<1> DEFINE N == NewAccounts(docs)
           asc == Asc("global_sequence")
           desc == Desc("global_sequence")
           one(ids) == Search(docs, ids, asc, 0, 1)
           all(ids) == Search(docs, ids, desc, 0, 100)
           By(c) == {id \in N : "creator" \in DOMAIN docs[id].value.extract
                                /\ docs[id].value.extract.creator = c}
           Of == {id \in N : docs[id].value.extract.name = NewName}
<1>1. /\ GetCreator(docs, NewName) =
           IF one(Of) = <<>> THEN NoValue ELSE one(Of)[1].data.creator
      /\ \A c : GetCreatedAccounts(docs, c) =
           [k \in DOMAIN all(By(c)) |-> all(By(c))[k].data.name]
    BY DEF GetCreator, GetCreatedAccounts
<1>2. 1 \in Nat /\ 100 \in Nat /\ 1 # 0 /\ 100 # 0
    OBVIOUS
<1>3. one({}) = <<>> /\ all({}) = <<>>
    BY <1>2, SearchNone
<1>4. ASSUME NEW c, all(By(c)) = <<>> PROVE GetCreatedAccounts(docs, c) = <<>>
  <2> DEFINE hits == <<>>
  <2>1. [k \in DOMAIN hits |-> hits[k].data.name] = <<>>
    OBVIOUS
  <2> HIDE DEF all, By
  <2>2. GetCreatedAccounts(docs, c) = [k \in DOMAIN all(By(c)) |-> all(By(c))[k].data.name]
    BY <1>1
  <2>3. all(By(c)) = hits
    BY <1>4
  <2> HIDE DEF hits
  <2> QED
    BY <2>1, <2>2, <2>3
<1>5. CASE Made = {}
  <2>1. \A h \in 1 .. Len(chain) : \A act : ~Founded(h, act)
    BY <1>5, MadeIs
  <2>2. N = {}
    BY <2>1, CreationsStored
  <2>3. Of = {} /\ \A c : By(c) = {}
    BY <2>2
  <2> HIDE DEF Of, By, one, all
  <2>4. GetCreator(docs, NewName) = NoValue
    BY <1>1, <1>3, <2>3
  <2>5. \A c : GetCreatedAccounts(docs, c) = <<>>
    BY <1>3, <1>4, <2>3
  <2> QED
    BY <1>5, <2>4, <2>5
<1>6. CASE Made # {}
  <2> DEFINE r == CHOOSE x \in Made : TRUE
             act == r.trace.act
  <2>1. r \in Made
    BY <1>6
  <2> HIDE DEF r
  <2>2. PICK h \in 1 .. Len(chain) : Founded(h, act)
    BY <2>1, MadeIs
  <2>3. PICK c \in Holders : act.data = [creator |-> c, name |-> NewName]
    BY <2>2, FoundedIs
  <2>4. \A x \in Made : x.trace.act = act
    BY <2>2, MadeIs, FoundedOnce
  <2>5. PICK id : N = {id} /\ id \in DocsOf("action") /\ OfCreation(id, h, act)
    BY <2>2, CreationsStored
  <2> DEFINE value == docs[id].value
  <2>6. value.data = [creator |-> c, name |-> NewName] /\ value.extract = value.data
    BY <2>3, <2>5 DEF OfCreation
  <2>7. /\ value.data.creator = c /\ value.data.name = NewName
        /\ "creator" \in DOMAIN value.extract
        /\ value.extract.creator = c /\ value.extract.name = NewName
    BY <2>6
  <2>8. Rank(value, asc) \in Int /\ Rank(value, desc) \in Int
    <3>1. ChainOK(chain) /\ Growing(chain) /\ DocsOK(chain, docs)
      BY DEF IInv
    <3>2. {id} \subseteq Ids(docs, "action")
      BY <2>5 DEF DocsOf
    <3>3. Sequenced(docs, {id})
      BY <3>1, <3>2, ActionsStored
    <3>4. value.global_sequence \in Int
      BY <3>3 DEF Sequenced
    <3> QED
      BY <3>4 DEF Rank, Asc, Desc
  <2> HIDE DEF asc, desc
  <2>9. one({id}) = <<value>> /\ all({id}) = <<value>>
    BY <1>2, <2>8, SearchOne
  <2>10. Of = {id} /\ By(c) = {id} /\ \A a : a # c => By(a) = {}
    BY <2>5, <2>7
  <2> HIDE DEF Of, By, one, all, value
  <2>11. GetCreator(docs, NewName) = c
    <3>1. one(Of) = <<value>>
      BY <2>9, <2>10
    <3>2. one(Of) # <<>> /\ one(Of)[1] = value
      BY <3>1
    <3> QED
      BY <1>1, <2>7, <3>2
  <2>12. GetCreatedAccounts(docs, c) = <<NewName>>
    <3>1. all(By(c)) = <<value>>
      BY <2>9, <2>10
    <3> DEFINE hits == <<value>>
    <3>2. [k \in DOMAIN hits |-> hits[k].data.name] = <<value.data.name>>
      OBVIOUS
    <3>3. GetCreatedAccounts(docs, c) = [k \in DOMAIN hits |-> hits[k].data.name]
      BY <1>1, <3>1
    <3> HIDE DEF hits
    <3> QED
      BY <2>7, <3>2, <3>3
  <2>13. \A a : a # c => GetCreatedAccounts(docs, a) = <<>>
    BY <1>3, <1>4, <2>10
  <2>14. \A a : (\E x \in Made : x.trace.act.data.creator = a) <=> a = c
    BY <2>1, <2>3, <2>4
  <2>15. act.data.creator = c
    BY <2>3
  <2> QED
    BY <1>6, <2>11, <2>12, <2>13, <2>14, <2>15 DEF r
<1> QED
    BY <1>5, <1>6

\* The lookups of ABIs, contract rows, transactions and creations say what
\* the chain did, block by block, whatever order the blocks landed in, and
\* the endpoints of accounts what its last block left: the ABI snapshot of a
\* block is the last one before it that parses, a balance has one row in a
\* block that changed it and none elsewhere, a transaction has its own
\* actions, all of them, and the creator of an account is the one who paid.
THEOREM LookupsSafety ==
    ASSUME AbsenceMarked, DataMarked, RecordsMarked, CreationMarked, Operated,
           <<System, "newaccount">> \notin SkipActions, MaxLimit # 0, MaxHits >= 2
    PROVE  Spec => []LookupsExact
<1>1. IInv /\ SInv /\ RInv /\ BInv /\ (Settled => AccountsExact) => LookupsExact
  <2> SUFFICES ASSUME IInv, SInv, RInv, BInv, Settled, AccountsExact
               PROVE  LookupsExact
    BY DEF LookupsExact
  <2> DEFINE Set(h) == After(h).abi # After(h - 1).abi /\ Usable(After(h).abi) # {}
             Abi(b) == LET hs == {h \in 1 .. b : Set(h)} IN
                       IF hs = {} THEN {} ELSE After(Max(hs)).abi
             Deltas(a, h) == GetDeltas(docs, OfBalance(a, h))
  <2>1. DOMAIN chain = 1 .. Len(chain)
    BY DEF IInv, ChainOK, IsSeq
  <2>2. \A h : After(h) = AfterOf(chain, h) /\ Prior(chain, h) = AfterOf(chain, h - 1)
    BY DEF After, AfterOf, Prior
  <2>3. \A h : Set(h) <=> SetsUsable(h)
    BY <2>2 DEF SetsUsable, NewAbi
  <2> HIDE DEF Set
  <2>4. \A b : Abi(b) = AbiAt(b)
    BY <2>2, <2>3 DEF AbiAt
  <2> HIDE DEF Abi
  <2>5. /\ \A b \in DOMAIN chain : GetAbiSnapshot(docs, Token, b) = Abi(b)
        /\ GetAbiSnapshot(docs, Token, Wild) = Abi(Len(chain))
    BY <2>4, SnapshotsFound
  <2>6. ASSUME NEW a \in Holders, NEW h \in DOMAIN chain
        PROVE  IF After(h).balance[a] = After(h - 1).balance[a] THEN Deltas(a, h) = <<>>
               ELSE /\ Len(Deltas(a, h)) = 1
                    /\ Deltas(a, h)[1].present = (After(h).balance[a] > 0)
    BY <2>1, <2>2, DeltasFound
  <2>7. \A h \in DOMAIN chain :
          {doc.global_sequence : doc \in Range(GetTransaction(docs, h))} =
          {doc.global_sequence : doc \in {d \in LiveDocs("action") : d.block_num = h}}
    BY <2>1, TransactionFound
  <2>8. /\ GetCreator(docs, NewName) =
             IF Made = {} THEN NoValue ELSE (CHOOSE r \in Made : TRUE).trace.act.data.creator
        /\ \A c \in Holders : GetCreatedAccounts(docs, c) =
             IF \E r \in Made : r.trace.act.data.creator = c THEN <<NewName>> ELSE <<>>
    BY CreationFound
  <2> QED
    BY <2>5, <2>6, <2>7, <2>8 DEF LookupsExact, Set, Abi, OfBalance, Made
<1> QED
    BY <1>1, Invariance, StateInvariance, RecordInvariance, BirthInvariance, AccountsSafety, PTL
====
