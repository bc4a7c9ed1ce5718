--------------------------- MODULE Family_proofs ---------------------------
(***************************************************************************)
(* Proofs about the rows and their relations.  A step of Next is first     *)
(* summed up for the table alone (Step: what an insertion brings and what  *)
(* an update may change); every invariant of the table follows from that,  *)
(* and what remains is what each request leaves in its own slot.           *)
(***************************************************************************)
EXTENDS Family, Sums_proofs

(* A parent is older than its child: an id yet to come is nobody's parent. *)
RowsOK == \A r \in Table : IsRow(rows[r]) /\ rows[r].parent < next

\* A summary is one of those made, of quotes there were.
SummariesOK ==
  \A r \in Table : rows[r].resumen # NoRecord =>
    /\ rows[r].resumen.n \in 1..made
    /\ ToSet(rows[r].resumen.ids) \subseteq 1..(next - 1)

\* What a summary says is what its quotes cost.
AddsUp(ids, bds, data) ==
  /\ data.ars = MaterialOf(ids, bds, "ARS") + LabourOf(bds)
  /\ data.usd = MaterialOf(ids, bds, "USD")

\* It was the root of a family once; it may be deleted since.
IsRoot(root) == root \in 1..(next - 1) /\ (root \in Table => rows[root].parent = None)

DeriveOK(j) ==
  /\ IsRow(j.new) /\ HasPieces(j.new) /\ j.new.status = "draft" /\ j.new.resumen = NoRecord
  /\ IsRoot(j.new.parent)

\* Of the rows there were at the read, the list holds those of one family.
ListsFamily(j, root) ==
  \A q \in Table : q < j.before => (q \in j.ids <=> q = root \/ rows[q].parent = root)
DeleteOK(j) ==
  /\ j.before \in 1..next /\ j.ids \subseteq 1..(j.before - 1)
  /\ \E root \in 1..(j.before - 1) : IsRoot(root) /\ ListsFamily(j, root)

JobOK(j) ==
  /\ j.op = "derive" => DeriveOK(j)
  /\ j.op = "delete" => DeleteOK(j)
  /\ j.op = "resumen" => ToSet(j.ids) \subseteq 1..(next - 1) /\ AddsUp(j.ids, j.of, j.data)
  /\ j.op = "web" => /\ j = [op |-> "web", in |-> j.in, pieces |-> j.pieces, todo |-> j.todo]
                     /\ j.pieces \in Seq(Piece)
JobsOK == \A s \in Slots : JobOK(job[s])

IInv == TypeOK /\ RowsOK /\ FamiliesAreFlat /\ SummariesOK /\ OneRecordForAll /\ ResumenAddsUp /\ JobsOK

-----------------------------------------------------------------------------
(* Lists of pieces *)

LEMMA SomeOfList ==
    ASSUME NEW X, NEW s \in Seq(X), NEW at \in SUBSET DOMAIN s
    PROVE  /\ Cardinality(at) \in Nat /\ \A k \in 1..Cardinality(at) : Nth(at, k) \in at
           /\ [k \in 1..Cardinality(at) |-> s[Nth(at, k)]] \in Seq(X)
<1>1. Len(s) \in Nat /\ DOMAIN s = 1..Len(s) /\ \A i \in DOMAIN s : s[i] \in X
  BY Indices
<1>2. Cardinality(at) \in Nat /\ \A k \in 1..Cardinality(at) : Nth(at, k) \in at
  BY <1>1, CountedOnce
<1> DEFINE n == Cardinality(at)
<1> HIDE DEF n
<1>3. [k \in 1..n |-> s[Nth(at, k)]] \in Seq(X)
  BY <1>1, <1>2 DEF n
<1> QED BY <1>2, <1>3 DEF n

LEMMA ReadIs == ASSUME NEW dual \in Seq(Piece) PROVE ExtractFromDualRead(dual) \in Seq(Piece)
<1> DEFINE at == {i \in DOMAIN dual : dual[i].largo > 0}
<1>1. ExtractFromDualRead(dual) = [k \in 1..Cardinality(at) |-> dual[Nth(at, k)]]
  BY DEF ExtractFromDualRead, Picked
<1>2. at \in SUBSET DOMAIN dual
  OBVIOUS
<1> HIDE DEF at
<1> QED BY <1>1, <1>2, SomeOfList

\* Merging pieces adds naturals up.
LEMMA DetailsAre == ASSUME NEW pieces \in Seq(Piece) PROVE Details(pieces) \in Seq(Piece)
<1> DEFINE first == {i \in DOMAIN pieces : \A j \in 1..(i - 1) : ~SamePiece(pieces[i], pieces[j])}
           quantity(i) == TotalOf(pieces, LAMBDA q : SamePiece(q, pieces[i]), LAMBDA q : q.qty)
           n == Cardinality(first)
           detail == [k \in 1..n |-> LET i == Nth(first, k) IN [pieces[i] EXCEPT !.qty = quantity(i)]]
<1>1. Details(pieces) = detail
  BY DEF Details
<1>2. n \in Nat /\ \A k \in 1..n : Nth(first, k) \in DOMAIN pieces
  <2>1. first \in SUBSET DOMAIN pieces
    OBVIOUS
  <2> HIDE DEF first
  <2> QED BY <2>1, SomeOfList
<1>3. IsFiniteSet(DOMAIN pieces) /\ \A i \in DOMAIN pieces : pieces[i] \in Piece
  BY Indices
<1>4. ASSUME NEW i \in DOMAIN pieces PROVE quantity(i) \in Nat
  <2> DEFINE f == [j \in DOMAIN pieces |-> IF SamePiece(pieces[j], pieces[i]) THEN pieces[j].qty ELSE 0]
  <2>1. quantity(i) = SumOf(f)
    BY DEF TotalOf, Total
  <2>2. f \in [DOMAIN pieces -> Nat]
    BY <1>3 DEF Piece
  <2> HIDE DEF f, quantity
  <2> QED BY <1>3, <2>1, <2>2, SumOfNats
<1> HIDE DEF quantity, n, first
<1>5. ASSUME NEW k \in 1..n PROVE detail[k] \in Piece
  <2> DEFINE i == Nth(first, k)
  <2>1. i \in DOMAIN pieces
    BY <1>2
  <2> HIDE DEF i
  <2>2. pieces[i] \in Piece /\ quantity(i) \in Nat
    BY <1>3, <1>4, <2>1
  <2>3. [pieces[i] EXCEPT !.qty = quantity(i)] \in Piece
    BY <2>2 DEF Piece
  <2> QED BY <2>3 DEF i
<1>6. detail = [k \in 1..n |-> detail[k]]
  OBVIOUS
<1> HIDE DEF detail
<1>7. detail \in Seq(Piece)
  BY <1>2, <1>5, <1>6
<1> QED BY <1>1, <1>7

LEMMA CalculatedIs ==
    ASSUME NEW mat \in Materials, NEW pieces \in Seq(Piece)
    PROVE  IsBreakdown(Calculated(mat, pieces))
<1> DEFINE ds == Details(pieces)
<1>1. Calculated(mat, pieces) = [[mat |-> "", details |-> <<>>, dual |-> <<>>] EXCEPT !.mat = mat, !.details = ds]
  BY DEF Calculated, NoCalc
<1>2. ds \in Seq(Piece)
  BY DetailsAre
<1> HIDE DEF ds
<1>3. Calculated(mat, pieces) = [mat |-> mat, details |-> ds, dual |-> <<>>]
  BY <1>1
<1>4. <<>> \in Seq(Piece)
  OBVIOUS
<1> QED BY <1>2, <1>3, <1>4 DEF IsBreakdown

LEMMA SourceIs == ASSUME NEW q, HasPieces(q) PROVE SourcePieces(q) \in Seq(Piece)
<1>1. q.raw \in Seq(Piece) /\ q.bd.details \in Seq(Piece) /\ q.bd.dual \in Seq(Piece)
  BY DEF HasPieces, IsBreakdown
<1>2. Reconstructed(q.bd.details) \in Seq(Piece)
  <2> DEFINE ds == q.bd.details
  <2>1. Len(ds) \in Nat /\ DOMAIN ds = 1..Len(ds) /\ \A i \in DOMAIN ds : ds[i] \in Piece
    BY <1>1, Indices
  <2> HIDE DEF ds
  <2>2. \A i \in DOMAIN ds : [ds[i] EXCEPT !.qty = 1] \in Piece
    BY <2>1 DEF Piece
  <2>3. Reconstructed(ds) = [i \in 1..Len(ds) |-> [ds[i] EXCEPT !.qty = 1]]
    BY <2>1 DEF Reconstructed
  <2>4. Reconstructed(ds) \in Seq(Piece)
    BY <2>1, <2>2, <2>3
  <2> QED BY <2>4 DEF ds
<1> QED BY <1>1, <1>2, ReadIs DEF SourcePieces

-----------------------------------------------------------------------------
(* What a summary adds up *)

Placed(bd) == bd.details \in Seq(Piece) /\ (bd.details # <<>> => bd.mat \in Materials)

LEMMA M2IsNat == ASSUME NEW ps \in Seq(Piece) PROVE M2(ps) \in Nat
<1> DEFINE f == [i \in DOMAIN ps |-> ps[i].largo * ps[i].dim2 * ps[i].qty]
<1>1. IsFiniteSet(DOMAIN ps) /\ \A i \in DOMAIN ps : ps[i] \in Piece
  BY Indices
<1>2. \A a, b \in Nat : a * b \in Nat
  OBVIOUS
<1>3. \A i \in DOMAIN ps : ps[i].largo \in Nat /\ ps[i].dim2 \in Nat /\ ps[i].qty \in Nat
  BY <1>1 DEF Piece
<1>4. \A i \in DOMAIN ps : ps[i].largo * ps[i].dim2 * ps[i].qty \in Nat
  BY <1>2, <1>3, Zenon
<1>5. f \in [DOMAIN ps -> Nat]
  BY <1>4, Zenon
<1>6. M2(ps) = SumOf(f)
  BY Zenon DEF M2, Total
<1> HIDE DEF f
<1> QED BY <1>1, <1>5, <1>6, SumOfNats

MaterialNet(bd, currency) ==
  IF bd.details # <<>> /\ Price[bd.mat].currency = currency THEN M2(bd.details) * Price[bd.mat].unit ELSE 0

LEMMA NetOfOne ==
    ASSUME NEW bd, Placed(bd), NEW currency
    PROVE  TotalOf(MaterialRow(bd), LAMBDA r : r.currency = currency, LAMBDA r : r.net) = MaterialNet(bd, currency)
<1> DEFINE row == MaterialRow(bd)
           f == [i \in DOMAIN row |-> IF row[i].currency = currency THEN row[i].net ELSE 0]
<1>1. TotalOf(MaterialRow(bd), LAMBDA r : r.currency = currency, LAMBDA r : r.net) = SumOf(f)
  BY DEF TotalOf, Total
<1>2. CASE bd.details = <<>>
  <2>1. DOMAIN row = {}
    BY <1>2 DEF MaterialRow
  <2>2. f = Over(f, {})
    BY <2>1 DEF Over
  <2> HIDE DEF f
  <2>3. SumOf(f) = 0
    BY <2>2, SumOfNothing
  <2> QED BY <1>1, <1>2, <2>3 DEF MaterialNet
<1>3. CASE bd.details # <<>>
  <2> DEFINE net == M2(bd.details) * Price[bd.mat].unit
             only == [name |-> bd.mat, currency |-> Price[bd.mat].currency, net |-> net]
  <2>0. M2(bd.details) \in Nat /\ Price[bd.mat].unit \in Nat
    BY <1>3, M2IsNat, PricesAssumption DEF Placed, Materials
  <2>1. net \in Nat
    BY <2>0
  <2>2. row = <<only>>
    BY <1>3 DEF MaterialRow
  <2> HIDE DEF net, row
  <2>3. DOMAIN row = {1} /\ row[1].net = net /\ row[1].currency = Price[bd.mat].currency
    BY <2>2
  <2>4. f = Over(f, {1}) /\ f[1] = MaterialNet(bd, currency) /\ f[1] \in Int
    BY <1>3, <2>1, <2>3 DEF Over, MaterialNet, net
  <2> HIDE DEF f
  <2>5. IsFiniteSet({1}) /\ \A x \in {1} \ {1} : f[x] = 0
    BY FS_Singleton
  <2>6. SumOf(Over(f, {1})) = f[1]
    BY <2>4, <2>5, SumOfOne
  <2> QED BY <1>1, <2>4, <2>6
<1> QED BY <1>2, <1>3

LEMMA MaterialsAddUp ==
    ASSUME NEW ids, NEW bds, DOMAIN ids = DOMAIN bds, \A i \in DOMAIN bds : Placed(bds[i]), NEW currency
    PROVE  NetIn([i \in DOMAIN bds |-> MaterialRow(bds[i])], currency) = MaterialOf(ids, bds, currency)
<1> DEFINE rs == [i \in DOMAIN bds |-> MaterialRow(bds[i])]
           f == [i \in DOMAIN rs |-> TotalOf(rs[i], LAMBDA r : r.currency = currency, LAMBDA r : r.net)]
           g == [i \in DOMAIN ids |-> IF bds[i].details # <<>> /\ Price[bds[i].mat].currency = currency
                                        THEN M2(bds[i].details) * Price[bds[i].mat].unit ELSE 0]
<1>1. NetIn(rs, currency) = SumOf(f)
  BY DEF NetIn, Total
<1>2. MaterialOf(ids, bds, currency) = SumOf(g)
  BY DEF MaterialOf
<1>3. ASSUME NEW i \in DOMAIN bds PROVE f[i] = g[i]
  <2>1. TotalOf(MaterialRow(bds[i]), LAMBDA r : r.currency = currency, LAMBDA r : r.net) = MaterialNet(bds[i], currency)
    BY NetOfOne
  <2>2. f[i] = TotalOf(MaterialRow(bds[i]), LAMBDA r : r.currency = currency, LAMBDA r : r.net)
    BY DEF TotalOf, Total
  <2>3. g[i] = MaterialNet(bds[i], currency)
    BY DEF MaterialNet
  <2> QED BY <2>1, <2>2, <2>3
<1>4. f = [i \in DOMAIN bds |-> f[i]] /\ g = [i \in DOMAIN bds |-> g[i]]
  OBVIOUS
<1> HIDE DEF f, g
<1>5. f = g
  BY <1>3, <1>4
<1> QED BY <1>1, <1>2, <1>5

\* The labour of several quotes: the work of each is one line, and its freight another.
Worked(bds) == {i \in DOMAIN bds : bds[i].details # <<>>}
LabourOfAll(bds) == [i \in DOMAIN bds |-> Labour(bds[i])]
Work(bds) == [i \in Worked(bds) |-> <<M2(bds[i].details), Price[bds[i].mat].labour>>]

LEMMA WorkIs ==
    ASSUME NEW bds, \A i \in DOMAIN bds : Placed(bds[i])
    PROVE  \A i \in Worked(bds) : Work(bds)[i] \in Nat \X Nat
<1>1. ASSUME NEW i \in Worked(bds) PROVE Work(bds)[i] \in Nat \X Nat
  <2>1. i \in DOMAIN bds /\ Placed(bds[i]) /\ bds[i].details # <<>>
    BY DEF Worked
  <2>2. M2(bds[i].details) \in Nat /\ Price[bds[i].mat].labour \in Nat
    BY <2>1, M2IsNat, PricesAssumption DEF Placed, Materials
  <2> QED BY <2>2 DEF Work
<1> QED BY <1>1

LEMMA LinesOfLabour ==
    ASSUME NEW bds
    PROVE  /\ Places(LabourOfAll(bds)) = Worked(bds) \X {1, 2}
           /\ \A i \in Worked(bds) :
                /\ Work(bds)[i] = <<Work(bds)[i][1], Work(bds)[i][2]>>
                /\ MoAt(LabourOfAll(bds), <<i, 1>>).total = Work(bds)[i][1] * Work(bds)[i][2]
                /\ MoAt(LabourOfAll(bds), <<i, 2>>).total = FLETE
                /\ Key(MoAt(LabourOfAll(bds), <<i, 1>>)) = <<"colocacion", Work(bds)[i][1], Work(bds)[i][2]>>
                /\ Key(MoAt(LabourOfAll(bds), <<i, 2>>)) = <<"flete", 1, FLETE>>
<1> DEFINE all == LabourOfAll(bds)
<1>1. DOMAIN all = DOMAIN bds /\ \A i \in DOMAIN bds : all[i] = Labour(bds[i])
  BY DEF LabourOfAll
<1>2. ASSUME NEW i \in Worked(bds)
      PROVE  /\ i \in DOMAIN bds /\ Work(bds)[i] = <<M2(bds[i].details), Price[bds[i].mat].labour>>
             /\ all[i] = MoItems(bds[i].mat, bds[i].details)
  BY <1>1 DEF Worked, Work, Labour
<1>3. ASSUME NEW i \in DOMAIN bds, i \notin Worked(bds) PROVE all[i] = <<>>
  BY <1>1, <1>3 DEF Worked, Labour
<1>4. ASSUME NEW mat, NEW ps
      PROVE  /\ DOMAIN MoItems(mat, ps) = {1, 2}
             /\ MoItems(mat, ps)[1].total = M2(ps) * Price[mat].labour /\ MoItems(mat, ps)[2].total = FLETE
             /\ Key(MoItems(mat, ps)[1]) = <<"colocacion", M2(ps), Price[mat].labour>>
             /\ Key(MoItems(mat, ps)[2]) = <<"flete", 1, FLETE>>
  <2> DEFINE work == M2(ps)
             price == Price[mat].labour
             total == work * price
             first == [desc |-> "colocacion", qty |-> work, price |-> price, total |-> total]
             second == [desc |-> "flete", qty |-> 1, price |-> FLETE, total |-> FLETE]
  <2>1. MoItems(mat, ps) = <<first, second>>
    BY DEF MoItems
  <2> HIDE DEF total
  <2>2. Key(first) = <<"colocacion", work, price>> /\ Key(second) = <<"flete", 1, FLETE>>
    BY DEF Key
  <2>3. first.total = total /\ second.total = FLETE
    OBVIOUS
  <2> HIDE DEF first, second, work, price
  <2>4. DOMAIN MoItems(mat, ps) = {1, 2} /\ MoItems(mat, ps)[1] = first /\ MoItems(mat, ps)[2] = second
    BY <2>1
  <2>5. Key(MoItems(mat, ps)[1]) = <<"colocacion", work, price>> /\ MoItems(mat, ps)[1].total = work * price
    BY <2>2, <2>3, <2>4 DEF total
  <2>6. Key(MoItems(mat, ps)[2]) = <<"flete", 1, FLETE>> /\ MoItems(mat, ps)[2].total = FLETE
    BY <2>2, <2>3, <2>4
  <2> QED BY <2>4, <2>5, <2>6 DEF work, price
<1> HIDE DEF all
<1>5. Places(all) = Worked(bds) \X {1, 2}
  <2>1. \A i \in DOMAIN bds : DOMAIN all[i] = IF i \in Worked(bds) THEN {1, 2} ELSE {}
    BY <1>2, <1>3, <1>4
  <2>2. Worked(bds) \subseteq DOMAIN bds
    BY DEF Worked
  <2>3. Places(all) = UNION {{i} \X (IF i \in Worked(bds) THEN {1, 2} ELSE {}) : i \in DOMAIN bds}
    BY <1>1, <2>1 DEF Places
  <2> QED BY <2>2, <2>3
<1>6. ASSUME NEW i \in Worked(bds)
      PROVE  /\ Work(bds)[i] = <<Work(bds)[i][1], Work(bds)[i][2]>>
             /\ MoAt(all, <<i, 1>>).total = Work(bds)[i][1] * Work(bds)[i][2]
             /\ MoAt(all, <<i, 2>>).total = FLETE
             /\ Key(MoAt(all, <<i, 1>>)) = <<"colocacion", Work(bds)[i][1], Work(bds)[i][2]>>
             /\ Key(MoAt(all, <<i, 2>>)) = <<"flete", 1, FLETE>>
  <2> DEFINE mat == bds[i].mat
             ps == bds[i].details
  <2>1. MoAt(all, <<i, 1>>) = MoItems(mat, ps)[1] /\ MoAt(all, <<i, 2>>) = MoItems(mat, ps)[2]
    BY <1>2 DEF MoAt
  <2>2. Work(bds)[i][1] = M2(ps) /\ Work(bds)[i][2] = Price[mat].labour
        /\ Work(bds)[i] = <<Work(bds)[i][1], Work(bds)[i][2]>>
    BY <1>2
  <2> HIDE DEF mat, ps
  <2> QED BY <1>4, <2>1, <2>2
<1> QED BY <1>5, <1>6 DEF all

\* What is kept of it: the first line of each amount of work, and the first freight.
Foremost(bds) == {i \in Worked(bds) : \A j \in Worked(bds) : j < i => Work(bds)[j] # Work(bds)[i]}

LEMMA WhatIsKept ==
    ASSUME NEW bds, NEW n \in Nat, DOMAIN bds = 1..n,
           NEW least \in Worked(bds), \A j \in Worked(bds) : least <= j
    PROVE  Deduplicated(LabourOfAll(bds)) = {<<i, 1>> : i \in Foremost(bds)} \cup {<<least, 2>>}
<1> DEFINE all == LabourOfAll(bds)
           W == Worked(bds)
           w == Work(bds)
           F == Foremost(bds)
           key(p) == Key(MoAt(all, p))
<1>1. /\ Places(all) = W \X {1, 2}
      /\ \A i \in W : /\ w[i] = <<w[i][1], w[i][2]>>
                     /\ key(<<i, 1>>) = <<"colocacion", w[i][1], w[i][2]>> /\ key(<<i, 2>>) = <<"flete", 1, FLETE>>
  BY LinesOfLabour
<1>2. W \subseteq Nat /\ least \in W /\ \A j \in W : least <= j
  BY DEF Worked
<1>3. F = {i \in W : \A j \in W : j < i => w[j] # w[i]}
  BY DEF Foremost
<1>4. Deduplicated(all) = {p \in Places(all) : \A q \in Places(all) : Before(q, p) => key(q) # key(p)}
  BY DEF Deduplicated
<1> HIDE DEF all, W, w, F, key
<1>5. ASSUME NEW i \in W, NEW j \in W
      PROVE  /\ key(<<i, 1>>) # key(<<j, 2>>) /\ key(<<i, 2>>) = key(<<j, 2>>)
             /\ (key(<<i, 1>>) = key(<<j, 1>>) <=> w[i] = w[j])
  <2>1. /\ key(<<i, 1>>) = <<"colocacion", w[i][1], w[i][2]>>
        /\ key(<<j, 1>>) = <<"colocacion", w[j][1], w[j][2]>>
    BY <1>1
  <2>2. key(<<i, 2>>) = <<"flete", 1, FLETE>> /\ key(<<j, 2>>) = <<"flete", 1, FLETE>>
    BY <1>1
  <2>3. <<"colocacion", w[i][1], w[i][2]>> # <<"flete", 1, FLETE>>
    OBVIOUS
  <2>4. <<"colocacion", w[i][1], w[i][2]>> = <<"colocacion", w[j][1], w[j][2]>> <=> w[i] = w[j]
    <3>1. w[i] = <<w[i][1], w[i][2]>> /\ w[j] = <<w[j][1], w[j][2]>>
      BY <1>1
    <3> QED BY <3>1
  <2> QED BY <2>1, <2>2, <2>3, <2>4
<1>6. ASSUME NEW i \in W, NEW j \in W
      PROVE  /\ Before(<<i, 1>>, <<j, 1>>) <=> i < j
             /\ Before(<<i, 2>>, <<j, 2>>) <=> i < j
  BY <1>2 DEF Before
<1>6a. \A p \in Places(all) : p \in Deduplicated(all) <=> \A q \in Places(all) : Before(q, p) => key(q) # key(p)
  BY <1>4, Zenon
<1> HIDE DEF Before
<1>7. ASSUME NEW i \in W PROVE <<i, 1>> \in Deduplicated(all) <=> i \in F
  <2>1. <<i, 1>> \in Places(all) /\ \A j \in W : <<j, 1>> \in Places(all)
    BY <1>1
  <2>2. ASSUME <<i, 1>> \in Deduplicated(all), NEW j \in W, j < i PROVE w[j] # w[i]
    <3>1. Before(<<j, 1>>, <<i, 1>>) => key(<<j, 1>>) # key(<<i, 1>>)
      BY <1>6a, <2>1, <2>2, Zenon
    <3> QED BY <1>5, <1>6, <2>2, <3>1
  <2>3. ASSUME i \in F, NEW q \in Places(all), Before(q, <<i, 1>>) PROVE key(q) # key(<<i, 1>>)
    <3>1. PICK j \in W : q = <<j, 1>> \/ q = <<j, 2>>
      BY <1>1, <2>3
    <3>2. CASE q = <<j, 1>>
      <4>1. j < i
        BY <1>6, <2>3, <3>2
      <4>2. w[j] # w[i]
        BY <1>3, <2>3, <4>1
      <4> QED BY <1>5, <3>2, <4>2
    <3>3. CASE q = <<j, 2>>
      BY <1>5, <3>3
    <3> QED BY <3>1, <3>2, <3>3
  <2>4. <<i, 1>> \in Deduplicated(all) => i \in F
    BY <1>3, <2>2
  <2>5. i \in F => <<i, 1>> \in Deduplicated(all)
    BY <1>6a, <2>1, <2>3, Zenon
  <2> QED BY <2>4, <2>5
<1>8. ASSUME NEW i \in W PROVE <<i, 2>> \in Deduplicated(all) <=> i = least
  <2>1. <<i, 2>> \in Places(all) /\ <<least, 2>> \in Places(all)
    BY <1>1, <1>2
  <2>2. ASSUME <<i, 2>> \in Deduplicated(all), i # least PROVE FALSE
    <3>1. Before(<<least, 2>>, <<i, 2>>) => key(<<least, 2>>) # key(<<i, 2>>)
      BY <1>6a, <2>1, <2>2, Zenon
    <3>2. least < i
      BY <1>2, <2>2
    <3> QED BY <1>2, <1>5, <1>6, <3>1, <3>2
  <2>3. ASSUME NEW q \in Places(all), Before(q, <<least, 2>>) PROVE key(q) # key(<<least, 2>>)
    <3>1. PICK j \in W : q = <<j, 1>> \/ q = <<j, 2>>
      BY <1>1
    <3>2. CASE q = <<j, 1>>
      BY <1>2, <1>5, <3>2
    <3>3. CASE q = <<j, 2>>
      <4>1. j < least
        BY <1>2, <1>6, <2>3, <3>3
      <4> QED BY <1>2, <4>1
    <3> QED BY <3>1, <3>2, <3>3
  <2>4. <<least, 2>> \in Deduplicated(all)
    BY <1>6a, <2>1, <2>3, Zenon
  <2> QED BY <2>2, <2>4
<1>9. Deduplicated(all) \subseteq W \X {1, 2}
  BY <1>1, <1>4
<1>10. F \subseteq W
  BY <1>3
<1>11. ASSUME NEW p \in W \X {1, 2}
       PROVE  p \in Deduplicated(all) <=> p \in {<<i, 1>> : i \in F} \cup {<<least, 2>>}
  <2>1. PICK i \in W : p = <<i, 1>> \/ p = <<i, 2>>
    OBVIOUS
  <2>2. \A j : <<i, 1>> = <<j, 1>> <=> i = j
    OBVIOUS
  <2>3. \A j : <<i, 1>> # <<j, 2>> /\ <<i, 2>> # <<j, 1>> /\ (<<i, 2>> = <<j, 2>> <=> i = j)
    OBVIOUS
  <2>4. <<i, 1>> \in {<<j, 1>> : j \in F} \cup {<<least, 2>>} <=> i \in F
    BY <2>2, <2>3
  <2>5. <<i, 2>> \in {<<j, 1>> : j \in F} \cup {<<least, 2>>} <=> i = least
    BY <2>2, <2>3
  <2> QED BY <1>7, <1>8, <2>1, <2>4, <2>5
<1>12. {<<i, 1>> : i \in F} \cup {<<least, 2>>} \subseteq W \X {1, 2}
  BY <1>2, <1>10
<1>13. Deduplicated(all) = {<<i, 1>> : i \in F} \cup {<<least, 2>>}
  BY <1>9, <1>11, <1>12, Zenon
<1> QED BY <1>13 DEF all, F

LEMMA WorksOnce ==
    ASSUME NEW bds, NEW n \in Nat, DOMAIN bds = 1..n, \A i \in DOMAIN bds : Placed(bds[i]),
           NEW t, \A i \in Foremost(bds) : t[<<i, 1>>] = Work(bds)[i][1] * Work(bds)[i][2]
    PROVE  LET works == {Work(bds)[i] : i \in Worked(bds)}
           IN  SumOf(Over(t, {<<i, 1>> : i \in Foremost(bds)})) = SumOf(Over([x \in works |-> x[1] * x[2]], works))
<1> DEFINE W == Worked(bds)
           w == Work(bds)
           F == Foremost(bds)
           works == {w[i] : i \in W}
           A == {<<i, 1>> : i \in F}
           h == [p \in A |-> w[p[1]]]
           f == [x \in works |-> x[1] * x[2]]
<1>1. IsFiniteSet(W) /\ W \subseteq Nat
  <2>1. IsFiniteSet(1..n)
    BY FS_Interval
  <2>2. W \subseteq 1..n
    BY DEF Worked
  <2> QED BY <2>1, <2>2, FS_Subset
<1>2. \A i \in W : w[i] \in Nat \X Nat
  BY WorkIs
<1>3. F = {i \in W : \A j \in W : j < i => w[j] # w[i]}
  BY DEF Foremost
<1> HIDE DEF W, w, F
<1>4. IsFiniteSet(A)
  <2>1. IsFiniteSet(W \X {1})
    BY <1>1, FS_Singleton, FS_Product
  <2>2. A \subseteq W \X {1}
    BY <1>3
  <2> QED BY <2>1, <2>2, FS_Subset
<1>5. IsFiniteSet(works) /\ \A x \in works : x \in Nat \X Nat
  <2>1. [i \in W |-> w[i]] \in Surjection(W, works)
    BY DEF Surjection
  <2> QED BY <1>1, <1>2, <2>1, FS_Surjection
<1>6. h \in Bijection(A, works)
  <2>1. h \in [A -> works]
    BY <1>3
  <2>2. ASSUME NEW i \in F, NEW j \in F, w[i] = w[j] PROVE i = j
    <3>1. i \in W /\ j \in W /\ ~(i < j) /\ ~(j < i)
      BY <1>3, <2>2
    <3> QED BY <1>1, <3>1
  <2>3. ASSUME NEW p \in A, NEW q \in A, h[p] = h[q] PROVE p = q
    <3>1. PICK i \in F, j \in F : p = <<i, 1>> /\ q = <<j, 1>>
      OBVIOUS
    <3>2. w[i] = w[j]
      BY <2>3, <3>1
    <3> QED BY <2>2, <3>1, <3>2
  <2>4. ASSUME NEW x \in works PROVE \E p \in A : h[p] = x
    <3> DEFINE same == {i \in W : w[i] = x}
    <3>1. same \subseteq Nat /\ same # {}
      BY <1>1
    <3> HIDE DEF same
    <3>2. PICK i \in same : \A j \in same : i <= j
      BY <3>1, Least
    <3>3. i \in W /\ w[i] = x /\ \A j \in W : w[j] = x => i <= j
      BY <3>2 DEF same
    <3>4. i \in F
      BY <1>1, <1>3, <3>3
    <3>5. <<i, 1>> \in A /\ h[<<i, 1>>] = x
      BY <3>3, <3>4
    <3> QED BY <3>5
  <2> HIDE DEF h, A, works
  <2> QED BY <2>1, <2>3, <2>4 DEF Bijection, Injection, Surjection, IsInjective
<1>7. \A p \in A : t[p] = f[h[p]]
  <2>1. ASSUME NEW p \in A PROVE t[p] = f[h[p]]
    <3>1. PICK i \in F : p = <<i, 1>>
      OBVIOUS
    <3>2. t[p] = w[i][1] * w[i][2]
      BY <3>1 DEF F, w
    <3>3. h[p] = w[i] /\ w[i] \in works
      BY <1>3, <3>1
    <3> QED BY <3>2, <3>3, Zenon
  <2> QED BY <2>1
<1>8. \A x \in works : f[x] \in Int
  <2>1. \A a, b \in Nat : a * b \in Int
    OBVIOUS
  <2>2. \A x \in works : x[1] \in Nat /\ x[2] \in Nat
    BY <1>5
  <2>3. \A x \in works : f[x] = x[1] * x[2]
    OBVIOUS
  <2> HIDE DEF f, works
  <2> QED BY <2>1, <2>2, <2>3, Zenon
<1> HIDE DEF h, A, works, f
<1>9. SumOf(Over(t, A)) = SumOf(Over(f, works))
  BY <1>4, <1>5, <1>6, <1>7, <1>8, SumRenamed
<1> QED BY <1>9 DEF A, works, f, F, w, W

LEMMA LabourAddsUp ==
    ASSUME NEW bds, NEW n \in Nat, DOMAIN bds = 1..n, \A i \in DOMAIN bds : Placed(bds[i])
    PROVE  SumOf([p \in Deduplicated(LabourOfAll(bds)) |-> MoAt(LabourOfAll(bds), p).total]) = LabourOf(bds)
<1> DEFINE all == LabourOfAll(bds)
           W == Worked(bds)
           works == {Work(bds)[i] : i \in W}
           D == Deduplicated(all)
           t == [p \in D |-> MoAt(all, p).total]
<1>1. {<<M2(bds[i].details), Price[bds[i].mat].labour>> : i \in {k \in DOMAIN bds : bds[k].details # <<>>}} = works
  BY DEF Worked, Work
<1>2. LabourOf(bds) = IF works = {} THEN 0 ELSE FLETE + SumOf([x \in works |-> x[1] * x[2]])
  BY <1>1 DEF LabourOf
<1>3. CASE W = {}
  <2>1. Places(all) = {}
    BY <1>3, LinesOfLabour
  <2>2. D = {}
    BY <2>1 DEF Deduplicated
  <2>3. t = Over(t, {})
    BY <2>2 DEF Over
  <2>4. works = {}
    BY <1>3
  <2> HIDE DEF t, works
  <2>5. SumOf(t) = 0
    BY <2>3, SumOfNothing
  <2> QED BY <1>2, <2>4, <2>5 DEF t
<1>4. CASE W # {}
  <2>1. W \subseteq Nat /\ W \subseteq 1..n
    BY DEF Worked
  <2>2. PICK least \in W : \A j \in W : least <= j
    BY <1>4, <2>1, Least
  <2> DEFINE A == {<<i, 1>> : i \in Foremost(bds)}
             x == <<least, 2>>
  <2>3. D = A \cup {x}
    BY <2>2, WhatIsKept
  <2>4. Foremost(bds) \subseteq W
    BY DEF Foremost
  <2>5. A \subseteq D /\ x \in D /\ x \notin A
    BY <2>3
  <2>6. /\ \A i \in Foremost(bds) : t[<<i, 1>>] = Work(bds)[i][1] * Work(bds)[i][2]
        /\ t[x] = FLETE
    <3>1. \A i \in W : /\ MoAt(all, <<i, 1>>).total = Work(bds)[i][1] * Work(bds)[i][2]
                      /\ MoAt(all, <<i, 2>>).total = FLETE
      BY LinesOfLabour
    <3>2. \A i \in Foremost(bds) : <<i, 1>> \in D
      BY <2>5
    <3> QED BY <2>2, <2>4, <2>5, <3>1, <3>2
  <2>7. IsFiniteSet(D)
    <3>1. IsFiniteSet(W)
      <4>1. IsFiniteSet(1..n)
        BY FS_Interval
      <4> QED BY <2>1, <4>1, FS_Subset
    <3>2. IsFiniteSet({1, 2})
      <4>1. IsFiniteSet({1} \cup {2})
        BY FS_Singleton, FS_AddElement
      <4>2. {1} \cup {2} = {1, 2}
        OBVIOUS
      <4> QED BY <4>1, <4>2
    <3>3. IsFiniteSet(W \X {1, 2})
      BY <3>1, <3>2, FS_Product
    <3>4. D \subseteq W \X {1, 2}
      BY LinesOfLabour DEF Deduplicated
    <3> QED BY <3>3, <3>4, FS_Subset
  <2>8. \A p \in D : t[p] \in Int
    <3>1. \A i \in W : Work(bds)[i][1] * Work(bds)[i][2] \in Int
      <4>1. \A a, b \in Nat : a * b \in Int
        OBVIOUS
      <4>2. \A i \in W : Work(bds)[i][1] \in Nat /\ Work(bds)[i][2] \in Nat
        BY WorkIs
      <4> QED BY <4>1, <4>2, Zenon
    <3>2. FLETE \in Nat
      BY PricesAssumption
    <3>3. ASSUME NEW p \in D PROVE t[p] \in Int
      <4>1. CASE p = x
        BY <2>6, <3>2, <4>1
      <4>2. CASE p \in A
        <5>1. PICK i \in Foremost(bds) : p = <<i, 1>>
          BY <4>2
        <5> HIDE DEF t
        <5> QED BY <2>4, <2>6, <3>1, <5>1
      <4> QED BY <2>3, <4>1, <4>2
    <3> QED BY <3>3
  <2>9. SumOf(Over(t, A)) = SumOf(Over([y \in works |-> y[1] * y[2]], works))
    <3> HIDE DEF t
    <3> QED BY <2>6, WorksOnce
  <2>10. t = Over(t, D) /\ [y \in works |-> y[1] * y[2]] = Over([y \in works |-> y[1] * y[2]], works)
    BY DEF Over
  <2>11. works # {}
    BY <1>4
  <2> DEFINE cost == [y \in works |-> y[1] * y[2]]
  <2>12. cost = Over(cost, works)
    BY <2>10
  <2>13. SumOf(Over(t, A)) = SumOf(cost)
    BY <2>9, <2>12
  <2> HIDE DEF A, x, D, t
  <2>14. SumOf(Over(t, A \cup {x})) = t[x] + SumOf(Over(t, A))
    BY <2>5, <2>7, <2>8, SumGrows
  <2>15. SumOf(t) = FLETE + SumOf(cost)
    BY <2>3, <2>6, <2>10, <2>13, <2>14
  <2> QED BY <1>2, <2>11, <2>15 DEF t, D
<1> QED BY <1>3, <1>4

LEMMA SummaryAddsUp ==
    ASSUME NEW ids, NEW bds, NEW n \in Nat, DOMAIN ids = 1..n, DOMAIN bds = 1..n,
           \A i \in 1..n : Placed(bds[i]), NEW names
    PROVE  AddsUp(ids, bds, BuildResumenData(names, bds))
<1> DEFINE rs == [i \in DOMAIN bds |-> MaterialRow(bds[i])]
           labour == [i \in DOMAIN bds |-> Labour(bds[i])]
           moTotal == SumOf([p \in Deduplicated(labour) |-> MoAt(labour, p).total])
<1>1. BuildResumenData(names, bds) =
        [client |-> Canonical(names), mo |-> moTotal, ars |-> NetIn(rs, "ARS") + moTotal, usd |-> NetIn(rs, "USD")]
  BY DEF BuildResumenData
<1>2. labour = LabourOfAll(bds)
  BY DEF LabourOfAll
<1>3. moTotal = LabourOf(bds)
  BY <1>2, LabourAddsUp
<1>4. \A c : NetIn(rs, c) = MaterialOf(ids, bds, c)
  BY MaterialsAddUp
<1> HIDE DEF rs, moTotal
<1> QED BY <1>1, <1>3, <1>4 DEF AddsUp

-----------------------------------------------------------------------------
(* Rows *)

\* An update: no row moves in its family.
Kin(new, old) ==
  IsRow(new) /\ HasPieces(new) /\ new.status \in Statuses /\ new.parent = old.parent

\* No name is wiped.
Spares(new, old) == old.client # <<>> => new.client # <<>>

\* Every update but the one that attaches a summary and the one that clears a name.
Revises(new, old) == Kin(new, old) /\ Spares(new, old) /\ new.resumen = old.resumen

LEMMA RevisesTwice ==
    ASSUME NEW a, NEW b, NEW c, Revises(b, a), Revises(c, b) PROVE Revises(c, a)
BY DEF Revises, Kin, Spares

LEMMA ColumnWrites ==
    ASSUME NEW q, IsRow(q), HasPieces(q), q.status \in Statuses
    PROVE  /\ Revises(q, q)
           /\ \A v : Revises([q EXCEPT !.idle = v], q)
           /\ \A v \in Seq(Piece) : Revises([q EXCEPT !.raw = v], q)
           /\ \A v : Revises([q EXCEPT !.files = v], q)
           /\ \A v : IsBreakdown(v) => Revises([q EXCEPT !.bd = v], q)
           /\ \A v : Revises([q EXCEPT !.chat = v], q)
           /\ \A v : Revises([q EXCEPT !.said = v], q)
           /\ \A v : v # <<>> => Revises([q EXCEPT !.client = v], q)
           /\ \A v \in Statuses : Revises([q EXCEPT !.status = v], q)
<1>1. Revises(q, q)
  BY DEF Revises, Kin, Spares, IsRow, HasPieces
<1>2. \A v : Revises([q EXCEPT !.idle = v], q)
  BY DEF Revises, Kin, Spares, IsRow, HasPieces
<1>3. \A v \in Seq(Piece) : Revises([q EXCEPT !.raw = v], q)
  BY DEF Revises, Kin, Spares, IsRow, HasPieces
<1>4. \A v : Revises([q EXCEPT !.files = v], q)
  BY DEF Revises, Kin, Spares, IsRow, HasPieces
<1>5. \A v : IsBreakdown(v) => Revises([q EXCEPT !.bd = v], q)
  BY DEF Revises, Kin, Spares, IsRow, HasPieces
<1>6. \A v : Revises([q EXCEPT !.chat = v], q)
  BY DEF Revises, Kin, Spares, IsRow, HasPieces
<1>7. \A v : Revises([q EXCEPT !.said = v], q)
  BY DEF Revises, Kin, Spares, IsRow, HasPieces
<1>8. \A v : v # <<>> => Revises([q EXCEPT !.client = v], q)
  BY DEF Revises, Kin, Spares, IsRow, HasPieces
<1>9. \A v \in Statuses : Revises([q EXCEPT !.status = v], q)
  BY DEF Revises, Kin, Spares, IsRow, HasPieces
<1> QED BY <1>1, <1>2, <1>3, <1>4, <1>5, <1>6, <1>7, <1>8, <1>9

LEMMA Read ==
    ASSUME NEW q, IsRow(q), HasPieces(q), q.status \in Statuses, NEW v, NEW w, IsBreakdown(w)
    PROVE  Revises([q EXCEPT !.said = v, !.bd = w], q)
<1>1. Revises([q EXCEPT !.said = v], q)
  BY ColumnWrites
<1> DEFINE read == [q EXCEPT !.said = v]
<1>2. Revises([read EXCEPT !.bd = w], read)
  <2>1. IsRow(read) /\ HasPieces(read) /\ read.status \in Statuses
    BY <1>1 DEF Revises, Kin
  <2> HIDE DEF read
  <2> QED BY <2>1, ColumnWrites
<1>3. [q EXCEPT !.said = v, !.bd = w] = [read EXCEPT !.bd = w]
  OBVIOUS
<1> QED BY <1>1, <1>2, <1>3, RevisesTwice

\* What an UPDATE does to a row, with updated_at.
LEMMA Dated ==
    ASSUME NEW a, NEW b, Revises(b, a) PROVE Revises([b EXCEPT !.idle = FALSE], a)
<1>1. IsRow(b) /\ HasPieces(b) /\ b.status \in Statuses
  BY DEF Revises, Kin
<1>2. Revises([b EXCEPT !.idle = FALSE], b)
  BY <1>1, ColumnWrites
<1> QED BY <1>2, RevisesTwice
-----------------------------------------------------------------------------
(* Steps, as the table sees them *)

\* A row an insertion may bring.
Fresh(q) ==
  /\ IsRow(q) /\ HasPieces(q) /\ q.status \in Statuses /\ q.resumen = NoRecord
  /\ q.parent = None \/ IsRoot(q.parent)

Kept == DOMAIN rows' \cap Table
Added == DOMAIN rows' \ Table

TableStep ==
  /\ next' = next \/ (next \in Ids /\ next' = next + 1)
  /\ Added \subseteq {next} /\ (Added # {} => next' = next + 1)
  /\ \A r \in Added : Fresh(rows'[r])
  /\ \A r \in Kept : Kin(rows'[r], rows[r])

\* Every step but the commit of a summary.
NoSummary == made' = made /\ \A r \in Kept : rows'[r].resumen = rows[r].resumen

LEMMA Bounds == MaxRows \in Nat /\ PieceLists \subseteq Seq(Piece)
BY FamilyAssumption

LEMMA IdsOnlyGrow ==
    ASSUME TypeOK, TableStep
    PROVE  next \in Nat /\ next' \in Nat /\ next <= next' /\ 1..(next - 1) \subseteq 1..(next' - 1)
<1>1. next \in Nat /\ (next' = next \/ next' = next + 1)
  BY Bounds DEF TypeOK, TableStep
<1> QED BY <1>1

LEMMA TableKept ==
    ASSUME IInv, TableStep
    PROVE  /\ Table' \subseteq 1..(next' - 1) /\ next' \in 1..(MaxRows + 1)
           /\ \A r \in Table' : rows'[r].status \in Statuses /\ rows'[r].parent \in Ids \cup {None} /\ HasPieces(rows'[r])
           /\ RowsOK' /\ FamiliesAreFlat'
<1> USE Bounds DEF IInv, TypeOK, Ids, None
<1>1. Table' \subseteq 1..(next' - 1) /\ next' \in 1..(MaxRows + 1)
  BY DEF TableStep, Added, Table
<1>2. ASSUME NEW r \in Table'
      PROVE  /\ IsRow(rows'[r]) /\ HasPieces(rows'[r]) /\ rows'[r].status \in Statuses
             /\ rows'[r].parent \in Ids \cup {None} /\ rows'[r].parent < next'
  <2>1. CASE r \in Added
    BY <2>1 DEF TableStep, Fresh, IsRoot
  <2>2. CASE r \in Kept
    <3>1. r \in Table /\ Kin(rows'[r], rows[r]) /\ rows[r].parent < next
      BY <2>2 DEF TableStep, Kept, RowsOK
    <3>2. rows[r].parent \in Ids \cup {None} /\ rows[r].parent < next'
      BY <3>1, IdsOnlyGrow
    <3> QED BY <3>1, <3>2 DEF Kin
  <2> QED BY <2>1, <2>2 DEF Added, Kept, Table
<1>3. ASSUME NEW r \in Table', rows'[r].parent \in Table'
      PROVE  rows'[rows'[r].parent].parent = None
  <2>1. CASE r \in Added
    <3>0. Fresh(rows'[r])
      BY <2>1, Zenon DEF TableStep
    <3>3. rows'[r].parent # None
      <4> HIDE Bounds DEF IInv, TypeOK
      <4>1. rows'[r].parent \in 1..(next' - 1)
        BY <1>1, <1>3, Zenon
      <4> QED BY <1>1, <4>1
    <3>1. IsRoot(rows'[r].parent)
      BY <3>0, <3>3, Zenon DEF Fresh
    <3>2. rows'[r].parent \in Kept
      BY <1>3, <3>1 DEF TableStep, Added, Kept, IsRoot, Table
    <3> QED BY <3>1, <3>2 DEF IsRoot, TableStep, Kin, Kept
  <2>2. CASE r \in Kept
    <3>1. rows'[r].parent = rows[r].parent /\ r \in Table
      BY <2>2 DEF TableStep, Kin, Kept
    <3>2. rows'[r].parent \in Kept
      BY <1>3, <3>1 DEF TableStep, Added, Kept, RowsOK, Table
    <3> QED BY <3>1, <3>2 DEF FamiliesAreFlat, TableStep, Kin, Kept
  <2> QED BY <1>3, <2>1, <2>2 DEF Added, Kept, Table
<1> QED BY <1>1, <1>2, <1>3 DEF RowsOK, FamiliesAreFlat

LEMMA SummariesKept ==
    ASSUME IInv, TableStep, NoSummary PROVE SummariesOK' /\ OneRecordForAll' /\ ResumenAddsUp'
<1> USE DEF IInv, TypeOK
<1>1. ASSUME NEW r \in Table', rows'[r].resumen # NoRecord
      PROVE  r \in Kept /\ rows'[r].resumen = rows[r].resumen
  BY <1>1 DEF TableStep, NoSummary, Fresh, Added, Kept, Table
<1>2. SummariesOK'
  <2> SUFFICES ASSUME NEW r \in Table', rows'[r].resumen # NoRecord
               PROVE  /\ rows'[r].resumen.n \in 1..made'
                      /\ ToSet(rows'[r].resumen.ids) \subseteq 1..(next' - 1)
    BY DEF SummariesOK
  <2>1. r \in Table /\ rows'[r].resumen = rows[r].resumen
    BY <1>1 DEF Kept
  <2>2. rows[r].resumen.n \in 1..made /\ ToSet(rows[r].resumen.ids) \subseteq 1..(next - 1)
    BY <2>1 DEF SummariesOK
  <2> QED BY <2>1, <2>2, IdsOnlyGrow DEF NoSummary
<1>3. ASSUME NEW r \in Table', rows'[r].resumen # NoRecord,
             NEW q \in ToSet(rows'[r].resumen.ids) \cap Table'
      PROVE  rows'[q].resumen.n >= rows'[r].resumen.n
  <2>1. r \in Kept /\ rows'[r].resumen = rows[r].resumen
    BY <1>1, <1>3
  <2>2. q \in Kept
    BY <1>3, <2>1 DEF SummariesOK, TableStep, Added, Kept, Table
  <2> QED BY <1>3, <2>1, <2>2 DEF OneRecordForAll, NoSummary, Kept
<1>4. ResumenAddsUp'
  <2> SUFFICES ASSUME NEW r \in Table', rows'[r].resumen # NoRecord
               PROVE  AddsUp(rows'[r].resumen.ids, rows'[r].resumen.of, rows'[r].resumen.data)
    BY DEF ResumenAddsUp, AddsUp
  <2>1. r \in Table /\ rows'[r].resumen = rows[r].resumen
    BY <1>1 DEF Kept
  <2> QED BY <2>1 DEF ResumenAddsUp, AddsUp
<1> QED BY <1>2, <1>3, <1>4 DEF OneRecordForAll

\* What a request under way knows of the table stays true while others run.
LEMMA JobKept ==
    ASSUME IInv, TableStep, NEW s \in Slots, job'[s] = job[s]
    PROVE  JobOK(job[s])'
<1> USE DEF IInv, TypeOK
<1>1. next \in Nat /\ next' \in Nat /\ next <= next' /\ 1..(next - 1) \subseteq 1..(next' - 1)
  BY IdsOnlyGrow
<1>2. ASSUME NEW root \in 1..(next - 1) PROVE root \in Table' => root \in Kept /\ rows'[root].parent = rows[root].parent
  BY <1>2 DEF TableStep, Kin, Kept, Added, Table
<1>3. ASSUME NEW root, IsRoot(root)
      PROVE  root \in 1..(next' - 1) /\ (root \in Table' => rows'[root].parent = None)
  <2>1. root \in 1..(next - 1) /\ (root \in Table => rows[root].parent = None)
    BY <1>3 DEF IsRoot
  <2>2. root \in Table' => root \in Table /\ rows'[root].parent = rows[root].parent
    BY <1>2, <2>1 DEF Kept
  <2> QED BY <1>1, <2>1, <2>2
<1>4. JobOK(job[s])
  BY DEF JobsOK
<1>5. job[s].op = "derive" => DeriveOK(job[s])'
  BY <1>3, <1>4 DEF JobOK, DeriveOK, IsRoot
<1>6. job[s].op = "delete" => DeleteOK(job[s])'
  <2> SUFFICES ASSUME job[s].op = "delete" PROVE DeleteOK(job[s])'
    OBVIOUS
  <2>1. job[s].before \in 1..next /\ job[s].ids \subseteq 1..(job[s].before - 1)
    BY <1>4 DEF JobOK, DeleteOK
  <2>2. PICK root \in 1..(job[s].before - 1) : IsRoot(root) /\ ListsFamily(job[s], root)
    BY <1>4 DEF JobOK, DeleteOK
  <2>3. ASSUME NEW q \in Table', q < job[s].before
        PROVE  q \in job[s].ids <=> q = root \/ rows'[q].parent = root
    <3>0. q \in 1..(next - 1)
      <4>1. q \in 1..(next' - 1)
        BY <2>3, TableKept
      <4>2. job[s].before \in Nat /\ job[s].before <= next
        BY <1>1, <2>1
      <4> QED BY <1>1, <2>3, <4>1, <4>2
    <3>1. q \in Kept /\ rows'[q].parent = rows[q].parent
      BY <1>2, <2>3, <3>0
    <3> QED BY <2>2, <2>3, <3>1 DEF ListsFamily, Kept
  <2>4. ListsFamily(job[s], root)'
    BY <2>3 DEF ListsFamily
  <2>5. IsRoot(root)'
    BY <1>3, <2>2 DEF IsRoot
  <2>6. job'[s].before \in 1..next' /\ job'[s].ids \subseteq 1..(job'[s].before - 1) /\ root \in 1..(job'[s].before - 1)
    BY <1>1, <2>1, <2>2
  <2> QED BY <2>4, <2>5, <2>6 DEF DeleteOK
<1>7. job[s].op = "resumen" =>
        ToSet(job'[s].ids) \subseteq 1..(next' - 1) /\ AddsUp(job'[s].ids, job'[s].of, job'[s].data)
  <2>1. job[s].op = "resumen" =>
          ToSet(job[s].ids) \subseteq 1..(next - 1) /\ AddsUp(job[s].ids, job[s].of, job[s].data)
    BY <1>4 DEF JobOK
  <2> QED BY <1>1, <2>1
<1> QED BY <1>4, <1>5, <1>6, <1>7 DEF JobOK

LEMMA JobsKept ==
    ASSUME IInv, TableStep, NEW s \in Slots, NEW j,
           job' = [job EXCEPT ![s] = j], JobOK(job[s])'
    PROVE  DOMAIN job' = Slots /\ JobsOK'
<1>1. DOMAIN job' = Slots /\ \A t \in Slots \ {s} : job'[t] = job[t]
  BY DEF IInv, TypeOK
<1>2. ASSUME NEW t \in Slots PROVE JobOK(job[t])'
  BY <1>1, JobKept
<1> QED BY <1>1, <1>2 DEF JobsOK

-----------------------------------------------------------------------------
(* What the statements do to the table *)

Revised == DOMAIN rows' = Table /\ \A q \in Table : Revises(rows'[q], rows[q])

LEMMA RevisedStep ==
    ASSUME Revised, next' = next, made' = made PROVE TableStep /\ NoSummary
BY DEF Revised, Revises, TableStep, NoSummary, Kept, Added

LEMMA ColumnsNow ==
    ASSUME IInv, NEW q \in Table
    PROVE  /\ IsRow(rows[q]) /\ HasPieces(rows[q]) /\ rows[q].status \in Statuses
           /\ Revises(rows[q], rows[q])
BY ColumnWrites DEF IInv, TypeOK, RowsOK

LEMMA UntouchedStep ==
    ASSUME IInv, rows' = rows, next' = next, made' = made PROVE TableStep /\ NoSummary
BY ColumnsNow, RevisedStep DEF Revised, Table

LEMMA InsertedStep ==
    ASSUME IInv, NEW new, InsertRow(new), Fresh(new), made' = made
    PROVE  TableStep /\ NoSummary
<1>1. next \notin Table /\ next \in Ids /\ next' = next + 1
  BY Bounds DEF IInv, TypeOK, InsertRow
<1>2. DOMAIN rows' = Table \cup {next} /\ rows'[next] = new /\ \A q \in Table : rows'[q] = rows[q]
  BY <1>1 DEF InsertRow
<1>3. \A q \in Table : Kin(rows'[q], rows[q])
  BY <1>2, ColumnsNow DEF Revises
<1> QED BY <1>1, <1>2, <1>3 DEF TableStep, NoSummary, Kept, Added

LEMMA DeletedStep ==
    ASSUME IInv, NEW ids, DeleteRows(ids), next' = next, made' = made
    PROVE  TableStep /\ NoSummary
<1>1. DOMAIN rows' = Table \ ids /\ \A q \in Table \ ids : rows'[q] = rows[q]
  BY DEF DeleteRows
<1>2. \A q \in Table \ ids : Kin(rows'[q], rows[q])
  BY <1>1, ColumnsNow DEF Revises
<1> QED BY <1>1, <1>2 DEF TableStep, NoSummary, Kept, Added

-----------------------------------------------------------------------------
(* The updates *)

LEMMA StepByPatchName ==
    ASSUME IInv, NEW r \in Table, NEW name, PatchName(r, name)
    PROVE  /\ TableStep /\ NoSummary
           /\ \A q \in Table : Spares(rows'[q], rows[q]) \/ (q = r /\ name = <<>>)
<1>1. rows' = [q \in Table |->
                 IF q \in {r} THEN [[rows[q] EXCEPT !.client = name] EXCEPT !.idle = FALSE] ELSE rows[q]]
  BY DEF PatchName, Update
<1> DEFINE named == [rows[r] EXCEPT !.client = name]
<1>2. Kin(named, rows[r]) /\ named.resumen = rows[r].resumen /\ named.client = name
  <2> DEFINE q == rows[r]
  <2>1. IsRow(q) /\ HasPieces(q) /\ q.status \in Statuses
    BY ColumnsNow
  <2> HIDE DEF q
  <2>2. /\ IsRow([q EXCEPT !.client = name]) /\ HasPieces([q EXCEPT !.client = name])
        /\ [q EXCEPT !.client = name].client = name
    BY <2>1 DEF IsRow, HasPieces
  <2>3. /\ [q EXCEPT !.client = name].status = q.status /\ [q EXCEPT !.client = name].parent = q.parent
        /\ [q EXCEPT !.client = name].resumen = q.resumen
    BY <2>1 DEF IsRow
  <2> QED BY <2>1, <2>2, <2>3 DEF Kin, q
<1>3. Revises([named EXCEPT !.idle = FALSE], named)
  <2> HIDE DEF named
  <2> QED BY <1>2, ColumnWrites DEF Kin
<1>4. rows'[r] = [named EXCEPT !.idle = FALSE]
  BY <1>1
<1> HIDE DEF named
<1>5. Kin(rows'[r], rows[r]) /\ rows'[r].resumen = rows[r].resumen /\ (name # <<>> => rows'[r].client # <<>>)
  BY <1>2, <1>3, <1>4 DEF Revises, Kin, Spares
<1>6. DOMAIN rows' = Table /\ \A q \in Table \ {r} : rows'[q] = rows[q]
  BY <1>1
<1>7. \A q \in Table : Revises(rows[q], rows[q])
  BY ColumnsNow
<1>8. \A q \in Table : Kin(rows'[q], rows[q]) /\ rows'[q].resumen = rows[q].resumen
  BY <1>5, <1>6, <1>7 DEF Revises
<1>9. \A q \in Table : Spares(rows'[q], rows[q]) \/ (q = r /\ name = <<>>)
  BY <1>5, <1>6, <1>7 DEF Revises, Spares
<1>10. next' = next /\ made' = made
  BY DEF PatchName, Quick
<1> QED BY <1>6, <1>8, <1>9, <1>10 DEF TableStep, NoSummary, Kept, Added

LEMMA RevisedByMergeClient ==
    ASSUME IInv, NEW ids, NEW name, MergeClient(ids, name) PROVE Revised
<1>1. rows' = [q \in Table |-> IF q \in {r \in ids : rows[r].client # name}
                               THEN [[rows[q] EXCEPT !.client = name] EXCEPT !.idle = FALSE] ELSE rows[q]]
  BY DEF MergeClient, Update
<1>2. ASSUME NEW q \in Table PROVE Revises([[rows[q] EXCEPT !.client = name] EXCEPT !.idle = FALSE], rows[q])
  BY ColumnsNow, ColumnWrites, Dated DEF MergeClient
<1> QED BY <1>1, <1>2, ColumnsNow DEF Revised

LEMMA RevisedByGetQuote ==
    ASSUME IInv, NEW r \in Table, GetQuote(r) PROVE Revised
<1>1. rows' = [q \in Table |-> IF q \in {r}
                               THEN [[rows[q] EXCEPT !.client = rows[q].said] EXCEPT !.idle = FALSE] ELSE rows[q]]
  BY DEF GetQuote, Update
<1>2. rows[r].said # <<>>
  BY DEF GetQuote
<1>3. Revises([[rows[r] EXCEPT !.client = rows[r].said] EXCEPT !.idle = FALSE], rows[r])
  BY <1>2, ColumnsNow, ColumnWrites, Dated
<1> QED BY <1>1, <1>3, ColumnsNow DEF Revised

LEMMA RevisedByPatchPieces ==
    ASSUME IInv, NEW r \in Table, NEW pieces \in PieceLists, PatchPieces(r, pieces) PROVE Revised
<1>1. rows' = [q \in Table |->
                 IF q \in {r} THEN [[rows[q] EXCEPT !.raw = pieces] EXCEPT !.idle = FALSE] ELSE rows[q]]
  BY DEF PatchPieces, Update
<1>2. ASSUME NEW q \in Table PROVE Revises([[rows[q] EXCEPT !.raw = pieces] EXCEPT !.idle = FALSE], rows[q])
  BY Bounds, ColumnsNow, ColumnWrites, Dated
<1> QED BY <1>1, <1>2, ColumnsNow DEF Revised

LEMMA RevisedByMarkAsRead ==
    ASSUME IInv, NEW r \in Table, MarkAsRead(r) PROVE Revised
<1>1. rows' = [q \in Table |-> IF q \in {r} THEN [rows[q] EXCEPT !.idle = FALSE] ELSE rows[q]]
  BY DEF MarkAsRead, Update
<1> QED BY <1>1, ColumnsNow, Dated DEF Revised

LEMMA RevisedByUpdateStatus ==
    ASSUME IInv, NEW r \in Table, NEW target \in Statuses, UpdateStatus(r, target) PROVE Revised
<1>1. rows' = [q \in Table |->
                 IF q \in {r} THEN [[rows[q] EXCEPT !.status = target] EXCEPT !.idle = FALSE] ELSE rows[q]]
  BY DEF UpdateStatus, Update
<1>2. ASSUME NEW q \in Table PROVE Revises([[rows[q] EXCEPT !.status = target] EXCEPT !.idle = FALSE], rows[q])
  BY ColumnsNow, ColumnWrites, Dated
<1> QED BY <1>1, <1>2, ColumnsNow DEF Revised

LEMMA RevisedByCommitUpload ==
    ASSUME IInv, NEW s, CommitUpload(s) PROVE Revised
<1>1. PICK saved \in BOOLEAN :
        rows' = [q \in Table |-> IF q \in {job[s].row}
                   THEN [[rows[q] EXCEPT !.files = saved \/ job[s].of.files] EXCEPT !.idle = FALSE] ELSE rows[q]]
  BY DEF CommitUpload, Update
<1> DEFINE files == saved \/ job[s].of.files
<1> HIDE DEF files
<1>2. ASSUME NEW q \in Table PROVE Revises([[rows[q] EXCEPT !.files = files] EXCEPT !.idle = FALSE], rows[q])
  BY ColumnsNow, ColumnWrites, Dated
<1> QED BY <1>1, <1>2, ColumnsNow DEF Revised, files

LEMMA RevisedByAnHour == ASSUME IInv, AnHourPasses PROVE Revised
<1>1. rows' = [r \in Table |-> [rows[r] EXCEPT !.idle = TRUE]]
  BY DEF AnHourPasses
<1> QED BY <1>1, ColumnsNow, ColumnWrites DEF Revised

LEMMA RevisedByVerify ==
    ASSUME IInv, NEW s \in Slots, VerifyBackground(s) PROVE Revised
<1> DEFINE r == job[s].row
<1>1. CASE rows' = rows
  BY <1>1, ColumnsNow DEF Revised, Table
<1>2. ASSUME NEW mat \in Materials, r \in Table,
             rows' = [q \in Table |->
                        IF q \in {r} THEN [[rows[q] EXCEPT !.bd = Calculated(mat, rows[q].raw)] EXCEPT !.idle = FALSE]
                        ELSE rows[q]]
      PROVE  Revised
  <2>1. ASSUME NEW q \in Table
        PROVE  Revises([[rows[q] EXCEPT !.bd = Calculated(mat, rows[q].raw)] EXCEPT !.idle = FALSE], rows[q])
    <3>1. HasPieces(rows[q])
      BY ColumnsNow
    <3>2. IsBreakdown(Calculated(mat, rows[q].raw))
      BY <3>1, CalculatedIs DEF HasPieces
    <3> QED BY <3>2, ColumnsNow, ColumnWrites, Dated
  <2> QED BY <1>2, <2>1, ColumnsNow DEF Revised
<1> QED BY <1>1, <1>2 DEF VerifyBackground, Update

LEMMA TurnRevises ==
    ASSUME NEW q, IsRow(q), HasPieces(q), q.status \in Statuses, NEW row \in TurnLeaves(q)
    PROVE  Revises([[row EXCEPT !.chat = TRUE] EXCEPT !.idle = FALSE], q)
<1>1. Revises(row, q)
  <2>1. CASE row = q
    BY <2>1, ColumnWrites
  <2>2. ASSUME NEW name, NEW ps \in PieceLists, row = WithReading(q, name, ps) PROVE Revises(row, q)
    <3> DEFINE w == [q.bd EXCEPT !.dual = ps]
    <3>1. row = [q EXCEPT !.said = name, !.bd = w]
      BY <2>2 DEF WithReading
    <3>2. IsBreakdown(w)
      BY Bounds DEF HasPieces, IsBreakdown
    <3> HIDE DEF w
    <3> QED BY <3>1, <3>2, Read
  <2>3. ASSUME NEW mat \in Materials, row = WithPrices(q, mat) PROVE Revises(row, q)
    <3> DEFINE w == [q.bd EXCEPT !.mat = mat, !.details = Details(ExtractFromDualRead(q.bd.dual))]
    <3>1. row = [q EXCEPT !.bd = w]
      BY <2>3 DEF WithPrices
    <3> DEFINE ds == Details(ExtractFromDualRead(q.bd.dual))
    <3>2. ds \in Seq(Piece)
      BY ReadIs, DetailsAre DEF HasPieces, IsBreakdown
    <3>3. w = [q.bd EXCEPT !.mat = mat, !.details = ds]
      OBVIOUS
    <3> HIDE DEF ds, w
    <3>4. w = [mat |-> mat, details |-> ds, dual |-> q.bd.dual]
      BY <3>3 DEF HasPieces, IsBreakdown
    <3>5. IsBreakdown(w)
      BY <3>2, <3>4 DEF HasPieces, IsBreakdown
    <3> QED BY <3>1, <3>5, ColumnWrites
  <2> QED BY <2>1, <2>2, <2>3 DEF TurnLeaves
<1>2. Revises([row EXCEPT !.chat = TRUE], row)
  BY <1>1, ColumnWrites DEF Revises, Kin
<1> QED BY <1>1, <1>2, RevisesTwice, Dated

LEMMA RevisedBySaveTurn ==
    ASSUME IInv, NEW s \in Slots, SaveTurn(s) PROVE Revised
<1> DEFINE r == job[s].row
<1>1. CASE rows' = rows
  BY <1>1, ColumnsNow DEF Revised, Table
<1>2. ASSUME r \in Table, NEW row \in TurnLeaves(rows[r]),
             rows' = [q \in Table |->
                        IF q \in {r} THEN [[row EXCEPT !.chat = TRUE] EXCEPT !.idle = FALSE] ELSE rows[q]]
      PROVE  Revised
  <2>1. Revises([[row EXCEPT !.chat = TRUE] EXCEPT !.idle = FALSE], rows[r])
    BY <1>2, ColumnsNow, TurnRevises
  <2> QED BY <1>2, <2>1, ColumnsNow DEF Revised
<1> QED BY <1>1, <1>2 DEF SaveTurn, Update

-----------------------------------------------------------------------------
(* Every request, step by step *)

Holds ==
  /\ TableStep /\ NoSummary
  /\ DOMAIN job' = Slots /\ JobsOK'
  /\ sweeps' \in Nat /\ left' \in Nat

LEMMA Jobless ==
    ASSUME IInv, TableStep, NoSummary, job' = job, sweeps' \in Nat, left' \in Nat PROVE Holds
BY JobKept DEF Holds, JobsOK, IInv, TypeOK

LEMMA Spent == ASSUME IInv, Request PROVE left' \in Nat
BY DEF IInv, TypeOK, Request

LEMMA QuickRevision ==
    ASSUME IInv, Revised, Request, Quick, UNCHANGED next PROVE Holds
BY RevisedStep, Spent, Jobless DEF Quick, IInv, TypeOK

\* What a new row is written with, one column after the other.
Bears(q, parent, status) == HasPieces(q) /\ q.parent = parent /\ q.status = status /\ q.resumen = NoRecord

LEMMA EmptyIsRow == IsRow(EmptyRow) /\ Bears(EmptyRow, None, "draft")
<1>1. <<>> \in Seq(Piece)
  OBVIOUS
<1>2. IsBreakdown(NoCalc)
  BY <1>1 DEF IsBreakdown, NoCalc
<1>3. IsRow(EmptyRow)
  BY DEF IsRow, EmptyRow
<1>4. EmptyRow.raw = <<>> /\ EmptyRow.bd = NoCalc
  BY DEF EmptyRow
<1>5. HasPieces(EmptyRow)
  BY <1>1, <1>2, <1>4 DEF HasPieces
<1> QED BY <1>3, <1>5 DEF Bears, EmptyRow

LEMMA BearsOn ==
    ASSUME NEW q, IsRow(q), NEW parent, NEW status, Bears(q, parent, status)
    PROVE  /\ \A v : IsRow([q EXCEPT !.parent = v]) /\ Bears([q EXCEPT !.parent = v], v, status)
           /\ \A v : IsRow([q EXCEPT !.status = v]) /\ Bears([q EXCEPT !.status = v], parent, v)
           /\ \A v : IsRow([q EXCEPT !.client = v]) /\ Bears([q EXCEPT !.client = v], parent, status)
           /\ \A v : IsRow([q EXCEPT !.web = v]) /\ Bears([q EXCEPT !.web = v], parent, status)
           /\ \A v \in Seq(Piece) : IsRow([q EXCEPT !.raw = v]) /\ Bears([q EXCEPT !.raw = v], parent, status)
           /\ \A v : IsBreakdown(v) => IsRow([q EXCEPT !.bd = v]) /\ Bears([q EXCEPT !.bd = v], parent, status)
<1>1. \A v : IsRow([q EXCEPT !.parent = v]) /\ Bears([q EXCEPT !.parent = v], v, status)
  BY DEF IsRow, Bears, HasPieces
<1>2. \A v : IsRow([q EXCEPT !.status = v]) /\ Bears([q EXCEPT !.status = v], parent, v)
  BY DEF IsRow, Bears, HasPieces
<1>3. \A v : IsRow([q EXCEPT !.client = v]) /\ Bears([q EXCEPT !.client = v], parent, status)
  BY DEF IsRow, Bears, HasPieces
<1>4. \A v : IsRow([q EXCEPT !.web = v]) /\ Bears([q EXCEPT !.web = v], parent, status)
  BY DEF IsRow, Bears, HasPieces
<1>5. \A v \in Seq(Piece) : IsRow([q EXCEPT !.raw = v]) /\ Bears([q EXCEPT !.raw = v], parent, status)
  BY DEF IsRow, Bears, HasPieces
<1>6. \A v : IsBreakdown(v) => IsRow([q EXCEPT !.bd = v]) /\ Bears([q EXCEPT !.bd = v], parent, status)
  BY DEF IsRow, Bears, HasPieces
<1> QED BY <1>1, <1>2, <1>3, <1>4, <1>5, <1>6

LEMMA WebRowIsRow == ASSUME NEW in PROVE IsRow(WebRow(in)) /\ Bears(WebRow(in), None, "draft")
<1> DEFINE q1 == [EmptyRow EXCEPT !.web = TRUE]
           q2 == [q1 EXCEPT !.client = in.client]
<1>1. IsRow(q1) /\ Bears(q1, None, "draft")
  BY EmptyIsRow, BearsOn
<1> HIDE DEF q1
<1>2. IsRow(q2) /\ Bears(q2, None, "draft")
  BY <1>1, BearsOn
<1>3. WebRow(in) = q2
  BY DEF WebRow, q1
<1> QED BY <1>2, <1>3

LEMMA CreationHolds ==
    ASSUME IInv, CreateQuote \/ CleanupEmptyDrafts \/ \E in \in WebInputs : CreateWithoutPieces(in)
    PROVE  Holds
<1>1. CASE CreateQuote
  <2>1. Fresh(EmptyRow)
    BY EmptyIsRow DEF Fresh, Bears, Statuses
  <2>2. sweeps' \in Nat
    BY <1>1 DEF CreateQuote, IInv, TypeOK
  <2> QED BY <1>1, <2>1, <2>2, InsertedStep, Spent, Jobless DEF CreateQuote
<1>2. CASE CleanupEmptyDrafts
  <2>1. sweeps' \in Nat /\ left' \in Nat
    BY <1>2 DEF CleanupEmptyDrafts, IInv, TypeOK
  <2> QED BY <1>2, <2>1, DeletedStep, Jobless DEF CleanupEmptyDrafts
<1>3. ASSUME NEW in \in WebInputs, CreateWithoutPieces(in) PROVE Holds
  <2>1. Fresh([WebRow(in) EXCEPT !.status = IF in.notes THEN "pending" ELSE "draft"])
    <3> DEFINE status == IF in.notes THEN "pending" ELSE "draft"
    <3>1. IsRow(WebRow(in)) /\ Bears(WebRow(in), None, "draft")
      BY WebRowIsRow
    <3>2. IsRow([WebRow(in) EXCEPT !.status = status]) /\ Bears([WebRow(in) EXCEPT !.status = status], None, status)
      BY <3>1, BearsOn DEF Bears
    <3> QED BY <3>2 DEF Fresh, Bears, Statuses
  <2>2. sweeps' \in Nat
    BY <1>3 DEF CreateWithoutPieces, Quick, IInv, TypeOK
  <2> QED BY <1>3, <2>1, <2>2, InsertedStep, Spent, Jobless DEF CreateWithoutPieces, Quick
<1> QED BY <1>1, <1>2, <1>3

LEMMA HourHolds == ASSUME IInv, AnHourPasses PROVE Holds
<1>1. sweeps' \in Nat /\ left' \in Nat
  BY DEF AnHourPasses, IInv, TypeOK
<1> QED BY <1>1, RevisedByAnHour, RevisedStep, Jobless DEF AnHourPasses

LEMMA OneRowHolds == ASSUME IInv, OfOneRow PROVE Holds
<1>1. ASSUME NEW r \in Table, GetQuote(r) PROVE Holds
  BY <1>1, RevisedByGetQuote, QuickRevision DEF GetQuote
<1>2. ASSUME NEW r \in Table, MarkAsRead(r) PROVE Holds
  BY <1>2, RevisedByMarkAsRead, QuickRevision DEF MarkAsRead
<1>3. ASSUME NEW r \in Table, NEW name, PatchName(r, name) PROVE Holds
  <2>1. TableStep /\ NoSummary
    BY <1>3, StepByPatchName
  <2>2. Request /\ job' = job /\ sweeps' = sweeps
    BY <1>3, Zenon DEF PatchName, Quick
  <2>3. sweeps' \in Nat /\ left' \in Nat
    BY <2>2, Spent DEF IInv, TypeOK
  <2> QED BY <2>1, <2>2, <2>3, Jobless
<1>4. ASSUME NEW r \in Table, NEW ps \in PieceLists, PatchPieces(r, ps) PROVE Holds
  BY <1>4, RevisedByPatchPieces, QuickRevision DEF PatchPieces
<1>5. ASSUME NEW r \in Table, NEW target \in Statuses, UpdateStatus(r, target) PROVE Holds
  BY <1>5, RevisedByUpdateStatus, QuickRevision DEF UpdateStatus
<1> QED BY <1>1, <1>2, <1>3, <1>4, <1>5 DEF OfOneRow

LEMMA SeveralRowsHold == ASSUME IInv, OfSeveralRows PROVE Holds
<1>1. ASSUME NEW ids, ClientMatchCheck(ids) PROVE Holds
  <2>1. rows' = rows /\ next' = next /\ made' = made /\ job' = job /\ sweeps' \in Nat /\ left' \in Nat
    BY <1>1, Spent DEF ClientMatchCheck, Quick, IInv, TypeOK
  <2> QED BY <2>1, UntouchedStep, Jobless
<1>2. ASSUME NEW ids, NEW name, MergeClient(ids, name) PROVE Holds
  <2>1. Revised
    BY <1>2, RevisedByMergeClient
  <2>2. Request /\ Quick /\ UNCHANGED next
    BY <1>2, Zenon DEF MergeClient
  <2> QED BY <2>1, <2>2, QuickRevision
<1> QED BY <1>1, <1>2 DEF OfSeveralRows

LEMMA StartHolds ==
    ASSUME IInv, NEW s \in Slots, NEW j, Request, job' = [job EXCEPT ![s] = j], JobOK(job[s])',
           TableStep, NoSummary, sweeps' = sweeps
    PROVE  Holds
BY Spent, JobsKept DEF Holds, IInv, TypeOK

LEMMA EndHolds ==
    ASSUME IInv, NEW s \in Slots, Ends(s), TableStep, NoSummary, UNCHANGED <<sweeps, left>>
    PROVE  Holds
<1>1. job' = [job EXCEPT ![s] = Idle] /\ JobOK(job[s])'
  BY DEF Ends, JobOK, Idle, IInv, TypeOK
<1> QED BY <1>1, JobsKept DEF Holds, IInv, TypeOK

LEMMA RootsAreRoots == ASSUME IInv, NEW r \in Table PROVE IsRoot(RootOf(r))
<1>1. r \in 1..(next - 1) /\ next \in Nat /\ rows[r].parent \in Nat /\ rows[r].parent < next
  BY Bounds DEF IInv, TypeOK, RowsOK, Ids, None
<1> QED BY <1>1 DEF RootOf, IsRoot, IInv, FamiliesAreFlat, None

LEMMA BeginningHolds == ASSUME IInv, NEW s \in Slots, Begins(s) PROVE Holds
<1>1. ASSUME NEW ids \in Selections, NEW force \in BOOLEAN, ReadResumen(s, ids, force) PROVE Holds
  <2>1. TableStep /\ NoSummary
    BY <1>1, UntouchedStep DEF ReadResumen
  <2>2. CASE job' = job
    BY <1>1, <2>1, <2>2, Spent, Jobless DEF ReadResumen, IInv, TypeOK
  <2> DEFINE bds == [i \in DOMAIN ids |-> rows[ids[i]].bd]
             data == BuildResumenData([i \in DOMAIN ids |-> rows[ids[i]].client], bds)
  <2>3. CASE job' = [job EXCEPT ![s] = [op |-> "resumen", ids |-> ids, of |-> bds, data |-> data]]
    <3>1. PICK n \in 1..Cardinality(Table) : ids \in [1..n -> Table]
      BY DEF Selections
    <3>2. job'[s] = [op |-> "resumen", ids |-> ids, of |-> bds, data |-> data]
      BY <2>3 DEF IInv, TypeOK
    <3>3. ToSet(ids) \subseteq Table
      BY <3>1 DEF ToSet
    <3>4. AddsUp(ids, bds, data)
      <4>1. n \in Nat
        <5>1. IsFiniteSet(1..(next - 1))
          BY Bounds, FS_Interval DEF IInv, TypeOK
        <5>2. Cardinality(Table) \in Nat
          BY <5>1, FS_Subset, FS_CardinalityType DEF IInv, TypeOK
        <5> QED BY <3>1, <5>2
      <4>2. DOMAIN ids = 1..n /\ DOMAIN bds = 1..n
        BY <3>1
      <4>3. ASSUME NEW i \in 1..n PROVE Placed(bds[i])
        <5>1. bds[i] = rows[ids[i]].bd /\ ids[i] \in Table
          BY <3>1
        <5> HIDE DEF bds
        <5> QED BY <5>1, ColumnsNow DEF HasPieces, IsBreakdown, Placed
      <4> HIDE DEF bds
      <4> QED BY <4>1, <4>2, <4>3, SummaryAddsUp
    <3> HIDE DEF bds, data
    <3>5. ToSet(ids) \subseteq 1..(next' - 1)
      BY <3>3, <1>1 DEF ReadResumen, IInv, TypeOK
    <3>6. JobOK(job[s])'
      BY <3>2, <3>5, <3>4 DEF JobOK
    <3> QED BY <1>1, <2>1, <2>3, <3>6, StartHolds DEF ReadResumen
  <2> QED BY <1>1, <2>2, <2>3 DEF ReadResumen, Starts
<1>2. ASSUME NEW r \in Table, ReadDelete(s, r) PROVE Holds
  <2>1. TableStep /\ NoSummary
    BY <1>2, UntouchedStep DEF ReadDelete
  <2>2. job' = [job EXCEPT ![s] = [op |-> "delete", ids |-> FamilyOf(r), before |-> next]]
    BY <1>2 DEF ReadDelete, Starts
  <2>3. job'[s] = [op |-> "delete", ids |-> FamilyOf(r), before |-> next]
    BY <2>2 DEF IInv, TypeOK
  <2>4. IsRoot(RootOf(r))
    BY RootsAreRoots
  <2>5. rows' = rows /\ next' = next /\ next \in Nat
    BY <1>2, Bounds DEF ReadDelete, IInv, TypeOK
  <2>6. IsRoot(RootOf(r))'
    BY <2>4, <2>5 DEF IsRoot, RootOf, Table
  <2> QED
    <3> DEFINE root == RootOf(r)
    <3>1. root \in 1..(next - 1) /\ (root \in Table => rows[root].parent = None)
      BY <2>4 DEF IsRoot
    <3>2. \A q \in Table : q \in FamilyOf(r) <=> q = root \/ rows[q].parent = root
      BY DEF FamilyOf
    <3> HIDE DEF root
    <3>3. next \in 1..next' /\ Table \subseteq 1..(next - 1)
      BY <2>5, Bounds DEF IInv, TypeOK
    <3>4. FamilyOf(r) \subseteq 1..(next - 1)
      BY <3>3, Zenon DEF FamilyOf
    <3>5. DeleteOK(job[s])'
      BY <2>3, <2>5, <3>1, <3>2, <3>3, <3>4 DEF DeleteOK, ListsFamily, IsRoot, Table
    <3>6. JobOK(job[s])'
      BY <2>3, <3>5 DEF JobOK
    <3> QED BY <1>2, <2>1, <2>2, <3>6, StartHolds DEF ReadDelete
<1>3. ASSUME NEW r \in Table, ReadUpload(s, r) PROVE Holds
  <2>1. TableStep /\ NoSummary
    BY <1>3, UntouchedStep DEF ReadUpload
  <2>2. job' = [job EXCEPT ![s] = [op |-> "upload", row |-> r, of |-> rows[r]]]
    BY <1>3 DEF ReadUpload, Starts
  <2>3. JobOK(job[s])'
    BY <2>2 DEF JobOK, IInv, TypeOK
  <2> QED BY <1>3, <2>1, <2>2, <2>3, StartHolds DEF ReadUpload
<1>4. ASSUME NEW r \in Table, StartTurn(s, r) PROVE Holds
  <2>1. TableStep /\ NoSummary
    BY <1>4, UntouchedStep DEF StartTurn
  <2>2. job' = [job EXCEPT ![s] = [op |-> "turn", row |-> r, auto |-> FALSE]]
    BY <1>4 DEF StartTurn, Starts
  <2>3. JobOK(job[s])'
    BY <2>2 DEF JobOK, IInv, TypeOK
  <2> QED BY <1>4, <2>1, <2>2, <2>3, StartHolds DEF StartTurn
<1>5. ASSUME NEW r \in Table, NEW mat \in Materials, ReadDerive(s, r, mat) PROVE Holds
  <2>1. TableStep /\ NoSummary
    BY <1>5, UntouchedStep DEF ReadDerive
  <2> DEFINE new == [EmptyRow EXCEPT
                       !.parent = RootOf(r), !.client = rows[r].client, !.web = rows[r].web,
                       !.raw = SourcePieces(rows[r]), !.bd = Calculated(mat, SourcePieces(rows[r]))]
  <2>2. job' = [job EXCEPT ![s] = [op |-> "derive", of |-> rows[r], new |-> new]]
    BY <1>5 DEF ReadDerive, Starts
  <2>3. /\ IsRow(new) /\ HasPieces(new) /\ new.status = "draft" /\ new.resumen = NoRecord
        /\ new.parent = RootOf(r)
    <3>0. SourcePieces(rows[r]) \in Seq(Piece) /\ IsBreakdown(Calculated(mat, SourcePieces(rows[r])))
      BY ColumnsNow, SourceIs, CalculatedIs
    <3> DEFINE q1 == [EmptyRow EXCEPT !.parent = RootOf(r)]
               q2 == [q1 EXCEPT !.client = rows[r].client]
               q3 == [q2 EXCEPT !.web = rows[r].web]
               q4 == [q3 EXCEPT !.raw = SourcePieces(rows[r])]
               q5 == [q4 EXCEPT !.bd = Calculated(mat, SourcePieces(rows[r]))]
    <3>1. IsRow(q1) /\ Bears(q1, RootOf(r), "draft")
      BY EmptyIsRow, BearsOn DEF Bears
    <3> HIDE DEF q1
    <3>2. IsRow(q2) /\ Bears(q2, RootOf(r), "draft")
      BY <3>1, BearsOn
    <3> HIDE DEF q2
    <3>3. IsRow(q3) /\ Bears(q3, RootOf(r), "draft")
      BY <3>2, BearsOn
    <3> HIDE DEF q3
    <3>4. IsRow(q4) /\ Bears(q4, RootOf(r), "draft")
      BY <3>0, <3>3, BearsOn
    <3> HIDE DEF q4
    <3>5. IsRow(q5) /\ Bears(q5, RootOf(r), "draft")
      BY <3>0, <3>4, BearsOn
    <3>6. new = q5
      BY DEF q1, q2, q3, q4
    <3> QED BY <3>5, <3>6 DEF Bears
  <2> HIDE DEF new
  <2>4. job'[s].op = "derive" /\ job'[s].new = new
    BY <2>2 DEF IInv, TypeOK
  <2>5. new.parent \in 1..(next' - 1) /\ (new.parent \in Table' => rows'[new.parent].parent = None)
    BY <1>5, <2>3, RootsAreRoots DEF ReadDerive, IsRoot, Table
  <2>6. JobOK(job[s])'
    BY <2>3, <2>4, <2>5 DEF JobOK, DeriveOK, IsRoot
  <2> QED BY <1>5, <2>1, <2>2, <2>6, StartHolds DEF ReadDerive
<1>6. ASSUME NEW in \in WebInputs, NEW pieces \in PieceLists, StartWebQuote(s, in, pieces) PROVE Holds
  <2>1. TableStep /\ NoSummary
    BY <1>6, UntouchedStep DEF StartWebQuote
  <2>2. job' = [job EXCEPT ![s] = [op |-> "web", in |-> in, pieces |-> pieces, todo |-> in.materials]]
    BY <1>6 DEF StartWebQuote, Starts
  <2>3. JobOK(job[s])'
    BY <2>2, Bounds DEF JobOK, IInv, TypeOK
  <2> QED BY <1>6, <2>1, <2>2, <2>3, StartHolds DEF StartWebQuote
<1> QED BY <1>1, <1>2, <1>3, <1>4, <1>5, <1>6 DEF Begins

LEMMA WebTodo ==
    ASSUME NEW j, j = [op |-> "web", in |-> j.in, pieces |-> j.pieces, todo |-> j.todo], NEW todo
    PROVE  [j EXCEPT !.todo = todo] = [op |-> "web", in |-> j.in, pieces |-> j.pieces, todo |-> todo]
OBVIOUS

LEMMA ContinuingHolds ==
    ASSUME IInv, NEW s \in Slots, Continues(s), ~CommitResumen(s) PROVE Holds
<1>1. CASE CommitDerive(s)
  <2>1. Fresh(job[s].new)
    BY <1>1 DEF CommitDerive, IInv, JobsOK, JobOK, DeriveOK, Fresh, Statuses
  <2> QED BY <1>1, <2>1, InsertedStep, EndHolds DEF CommitDerive
<1>2. CASE CommitDelete(s)
  BY <1>2, DeletedStep, EndHolds DEF CommitDelete
<1>3. CASE CommitWebQuote(s)
  <2> DEFINE priced == Calculated(Head(job[s].todo), job[s].pieces)
             q1 == [WebRow(job[s].in) EXCEPT !.status = "pending"]
             q2 == [q1 EXCEPT !.raw = job[s].pieces]
             q3 == [q2 EXCEPT !.bd = priced]
  <2>1. IsRow(q1) /\ Bears(q1, None, "pending")
    BY WebRowIsRow, BearsOn
  <2> HIDE DEF q1
  <2>0. job[s].pieces \in Seq(Piece)
    BY <1>3 DEF CommitWebQuote, IInv, JobsOK, JobOK
  <2>2. IsRow(q2) /\ Bears(q2, None, "pending")
    BY <2>0, <2>1, BearsOn
  <2> HIDE DEF q2
  <2>3. IsRow(q3) /\ Bears(q3, None, "pending")
    <3>1. IsBreakdown(priced)
      BY <1>3, <2>0, CalculatedIs DEF CommitWebQuote
    <3> HIDE DEF priced
    <3> QED BY <2>2, <3>1, BearsOn
  <2>4. Fresh(q3)
    BY <2>3 DEF Fresh, Bears, Statuses
  <2>5. InsertRow(q3)
    BY <1>3 DEF CommitWebQuote, q1, q2
  <2> HIDE DEF q3
  <2>6. TableStep /\ NoSummary
    BY <1>3, <2>4, <2>5, InsertedStep DEF CommitWebQuote
  <2>7. job[s] = [op |-> "web", in |-> job[s].in, pieces |-> job[s].pieces, todo |-> job[s].todo]
    BY <1>3 DEF CommitWebQuote, IInv, JobsOK, JobOK
  <2>8. CASE job' = [job EXCEPT ![s] = Idle]
    BY <1>3, <2>6, <2>8, EndHolds DEF CommitWebQuote, Ends
  <2>9. CASE job' = [job EXCEPT ![s] = [job[s] EXCEPT !.todo = Tail(@)]]
    <3>1. job'[s] = [job[s] EXCEPT !.todo = Tail(job[s].todo)]
      BY <2>9 DEF IInv, TypeOK
    <3>2. job'[s] = [op |-> "web", in |-> job[s].in, pieces |-> job[s].pieces, todo |-> Tail(job[s].todo)]
      BY <2>7, <3>1, WebTodo
    <3>3. JobOK(job[s])'
      BY <2>0, <3>2 DEF JobOK
    <3> QED BY <1>3, <2>6, <2>9, <3>3, JobsKept DEF CommitWebQuote, Holds, IInv, TypeOK
  <2> QED BY <1>3, <2>8, <2>9 DEF CommitWebQuote
<1>4. CASE WebQuoteFails(s)
  BY <1>4, UntouchedStep, EndHolds DEF WebQuoteFails
<1>5. CASE SaveTurn(s)
  <2>1. TableStep /\ NoSummary
    BY <1>5, RevisedBySaveTurn, RevisedStep DEF SaveTurn
  <2>2. job'[s] \in {Idle, [op |-> "verify", row |-> job[s].row]}
    BY <1>5 DEF SaveTurn, IInv, TypeOK
  <2>3. JobOK(job[s])'
    BY <2>2 DEF JobOK, Idle
  <2> QED BY <1>5, <2>1, <2>3, JobsKept DEF SaveTurn, Holds, IInv, TypeOK
<1>6. CASE VerifyBackground(s)
  BY <1>6, RevisedByVerify, RevisedStep, EndHolds DEF VerifyBackground
<1>7. CASE CommitUpload(s)
  <2>1. TableStep /\ NoSummary
    BY <1>7, RevisedByCommitUpload, RevisedStep DEF CommitUpload
  <2>2. PICK j \in {Idle, [op |-> "turn", row |-> job[s].row, auto |-> TRUE]} : job' = [job EXCEPT ![s] = j]
    BY <1>7 DEF CommitUpload
  <2>3. JobOK(job[s])'
    BY <2>2 DEF JobOK, Idle, IInv, TypeOK
  <2> QED BY <1>7, <2>1, <2>2, <2>3, JobsKept DEF CommitUpload, Holds, IInv, TypeOK
<1> QED BY <1>1, <1>2, <1>3, <1>4, <1>5, <1>6, <1>7 DEF Continues

-----------------------------------------------------------------------------
(* The commit of a summary *)

LEMMA Attaches ==
    ASSUME IInv, NEW q \in Table, NEW record
    PROVE  /\ Kin([Attached(q, record) EXCEPT !.idle = FALSE], rows[q])
           /\ Spares([Attached(q, record) EXCEPT !.idle = FALSE], rows[q])
           /\ [Attached(q, record) EXCEPT !.idle = FALSE].resumen = record
<1> DEFINE q1 == [rows[q] EXCEPT !.resumen = record]
           name == IF record.data.client = <<>> THEN rows[q].client ELSE record.data.client
           q2 == [q1 EXCEPT !.client = name]
           q3 == [q2 EXCEPT !.idle = FALSE]
<1>1. IsRow(rows[q]) /\ HasPieces(rows[q]) /\ rows[q].status \in Statuses
  BY ColumnsNow
<1>2. Kin(q1, rows[q]) /\ q1.resumen = record
  BY <1>1 DEF Kin, IsRow, HasPieces
<1>3. rows[q].client # <<>> => name # <<>>
  OBVIOUS
<1> HIDE DEF name
<1>4. Kin(q2, rows[q]) /\ Spares(q2, rows[q]) /\ q2.resumen = record
  <2> HIDE DEF q1
  <2> QED BY <1>2, <1>3 DEF Kin, Spares, IsRow, HasPieces
<1>5. Kin(q3, rows[q]) /\ Spares(q3, rows[q]) /\ q3.resumen = record
  <2> HIDE DEF q2
  <2>1. IsRow(q2) /\ HasPieces(q2) /\ q2.status \in Statuses
    BY <1>4 DEF Kin
  <2>2. Revises(q3, q2)
    BY <2>1, ColumnWrites
  <2> QED BY <1>4, <2>2 DEF Revises, Kin, Spares
<1>6. [Attached(q, record) EXCEPT !.idle = FALSE] = q3
  BY DEF Attached, name
<1> QED BY <1>5, <1>6

LEMMA CommitResumenHolds ==
    ASSUME IInv, NEW s \in Slots, CommitResumen(s)
    PROVE  /\ TableStep /\ DOMAIN job' = Slots /\ JobsOK'
           /\ sweeps' \in Nat /\ left' \in Nat /\ made' \in Nat
           /\ SummariesOK' /\ OneRecordForAll' /\ ResumenAddsUp'
<1> DEFINE record == [n |-> made + 1, ids |-> job[s].ids, of |-> job[s].of, data |-> job[s].data]
           holders == Holders(job[s].ids)
<1>1. /\ rows' = [q \in Table |->
                    IF q \in holders THEN [Attached(q, record) EXCEPT !.idle = FALSE] ELSE rows[q]]
      /\ made' = made + 1 /\ next' = next /\ UNCHANGED <<sweeps, left>>
      /\ job' = [job EXCEPT ![s] = Idle]
  BY DEF CommitResumen, Update, Ends
<1>2. /\ record.n = made + 1 /\ record.n # NoRecord.n /\ ToSet(record.ids) = holders
      /\ holders \subseteq 1..(next - 1) /\ made \in Nat
      /\ AddsUp(record.ids, record.of, record.data)
  BY DEF NoRecord, Holders, CommitResumen, IInv, JobsOK, JobOK, TypeOK
<1> HIDE DEF record, holders
<1>3. /\ DOMAIN rows' = Table
      /\ \A q \in Table : Kin(rows'[q], rows[q])
      /\ \A q \in Table \cap holders : rows'[q].resumen = record
      /\ \A q \in Table \ holders : rows'[q].resumen = rows[q].resumen
  BY <1>1, Attaches, ColumnsNow DEF Revises
<1>4. TableStep
  BY <1>1, <1>3 DEF TableStep, Kept, Added
<1>5. JobOK(job[s])'
  BY <1>1 DEF JobOK, Idle, IInv, TypeOK
<1>6. DOMAIN job' = Slots /\ JobsOK'
  BY <1>1, <1>4, <1>5, JobsKept
<1>7. ASSUME NEW r \in Table, rows[r].resumen # NoRecord
      PROVE  rows[r].resumen.n \in 1..made /\ ToSet(rows[r].resumen.ids) \subseteq 1..(next - 1)
  BY <1>7 DEF IInv, SummariesOK
<1>8. SummariesOK'
  <2> SUFFICES ASSUME NEW r \in Table, rows'[r].resumen # NoRecord
               PROVE  rows'[r].resumen.n \in 1..(made + 1) /\ ToSet(rows'[r].resumen.ids) \subseteq 1..(next - 1)
    BY <1>1, <1>3 DEF SummariesOK, Table
  <2>1. CASE r \in holders
    <3>1. rows'[r].resumen = record
      BY <1>3, <2>1
    <3>2. record.n \in 1..(made + 1) /\ ToSet(record.ids) \subseteq 1..(next - 1)
      BY <1>2
    <3> QED BY <3>1, <3>2
  <2>2. CASE r \notin holders
    BY <1>2, <1>3, <1>7, <2>2
  <2> QED BY <2>1, <2>2
<1>9. OneRecordForAll'
  <2> SUFFICES ASSUME NEW r \in Table, rows'[r].resumen # NoRecord,
                      NEW q \in ToSet(rows'[r].resumen.ids) \cap Table
               PROVE  rows'[q].resumen.n >= rows'[r].resumen.n
    BY <1>3 DEF OneRecordForAll, Table
  <2>1. CASE r \in holders
    <3>1. rows'[r].resumen = record /\ q \in holders
      BY <1>2, <1>3, <2>1
    <3> QED BY <1>2, <1>3, <3>1
  <2>2. CASE r \notin holders /\ q \in holders
    <3>1. rows'[r].resumen.n \in 1..made
      BY <1>3, <1>7, <2>2
    <3> QED BY <1>2, <1>3, <2>2, <3>1
  <2>3. CASE r \notin holders /\ q \notin holders
    BY <1>3, <2>3 DEF IInv, OneRecordForAll
  <2> QED BY <2>1, <2>2, <2>3
<1>10. ResumenAddsUp'
  <2> SUFFICES ASSUME NEW r \in Table, rows'[r].resumen # NoRecord
               PROVE  AddsUp(rows'[r].resumen.ids, rows'[r].resumen.of, rows'[r].resumen.data)
    BY <1>3 DEF ResumenAddsUp, AddsUp, Table
  <2>1. CASE r \in holders
    BY <1>2, <1>3, <2>1
  <2>2. CASE r \notin holders
    BY <1>3, <2>2 DEF IInv, ResumenAddsUp, AddsUp
  <2> QED BY <2>1, <2>2
<1> QED BY <1>1, <1>2, <1>4, <1>6, <1>8, <1>9, <1>10 DEF IInv, TypeOK

-----------------------------------------------------------------------------
(* The invariant *)

LEMMA StepHolds ==
    ASSUME IInv, Next
    PROVE  TableStep /\ (Holds \/ \E s \in Slots : CommitResumen(s))
<1>1. CASE CreateQuote \/ CleanupEmptyDrafts \/ \E in \in WebInputs : CreateWithoutPieces(in)
  BY <1>1, CreationHolds DEF Holds
<1>2. CASE AnHourPasses
  BY <1>2, HourHolds DEF Holds
<1>3. CASE OfOneRow \/ OfSeveralRows
  BY <1>3, OneRowHolds, SeveralRowsHold DEF Holds
<1>4. ASSUME NEW s \in Slots, Begins(s) \/ Continues(s)
      PROVE  TableStep /\ (Holds \/ CommitResumen(s))
  BY <1>4, BeginningHolds, ContinuingHolds, CommitResumenHolds DEF Holds
<1> QED BY <1>1, <1>2, <1>3, <1>4 DEF Next

LEMMA Inductive == ASSUME IInv, [Next]_vars PROVE IInv'
<1>1. CASE UNCHANGED vars
  BY <1>1 DEF vars, IInv, TypeOK, RowsOK, FamiliesAreFlat, SummariesOK, OneRecordForAll, ResumenAddsUp,
              JobsOK, JobOK,
              DeriveOK, DeleteOK, ListsFamily, IsRoot, Table
<1>2. CASE Holds
  <2>1. TypeOK'
    BY <1>2, TableKept DEF Holds, NoSummary, TypeOK, IInv
  <2> QED BY <1>2, <2>1, TableKept, SummariesKept DEF Holds, IInv
<1>3. ASSUME NEW s \in Slots, CommitResumen(s) PROVE IInv'
  <2>1. TypeOK'
    BY <1>3, TableKept, CommitResumenHolds DEF TypeOK
  <2> QED BY <1>3, <2>1, TableKept, CommitResumenHolds DEF IInv
<1> QED BY <1>1, <1>2, <1>3, StepHolds

LEMMA InitInv == Init => IInv
<1> SUFFICES ASSUME Init PROVE IInv
  OBVIOUS
<1>1. PICK db \in Databases : rows = db /\ next = Len(db) + 1 /\ left = MaxRequests[Len(db)]
  BY DEF Init
<1>2. /\ Len(db) \in 0..MaxRows /\ DOMAIN db = 1..Len(db)
      /\ \A r \in DOMAIN db :
            /\ IsRow(db[r]) /\ HasPieces(db[r])
            /\ db[r].status \in Statuses /\ db[r].resumen = NoRecord
            /\ db[r].parent \in 0..Len(db)
            /\ db[r].parent # None => db[db[r].parent].parent = None
  BY FamilyAssumption
<1>3. MaxRows \in Nat /\ left \in Nat
  BY <1>1, <1>2, FamilyAssumption
<1>4. TypeOK
  BY <1>1, <1>2, <1>3 DEF Init, TypeOK, Table, Ids, None
<1>5. RowsOK /\ FamiliesAreFlat /\ SummariesOK /\ OneRecordForAll /\ ResumenAddsUp
  BY <1>1, <1>2 DEF RowsOK, FamiliesAreFlat, SummariesOK, OneRecordForAll, ResumenAddsUp, Table, None
<1>6. JobsOK
  BY DEF Init, JobsOK, JobOK, Idle
<1> QED BY <1>4, <1>5, <1>6 DEF IInv

LEMMA Invariance == Spec => []IInv
BY InitInv, Inductive, PTL DEF Spec

-----------------------------------------------------------------------------
(* The theorems *)

(* Types: no id is given twice, a status is one of the four, a parent is a *)
(* row there may be or none, and the bounds are kept.                      *)
THEOREM TypeCorrect == Spec => []TypeOK
BY Invariance, PTL DEF IInv

(* No variant hangs from a variant, whatever derives, deletes and web      *)
(* quotes overlap: derive-material, which reads the source and inserts     *)
(* after a calculation, always hangs the new row from a root.              *)
THEOREM FamiliesStayFlat == Spec => []FamiliesAreFlat
BY Invariance, PTL DEF IInv

(* A quote another one's summary names holds that summary or a later one:  *)
(* the one commit of generate_resumen_obra attaches it to all or to none,  *)
(* and overlapping summaries leave no quote with an older one.  What it    *)
(* says is the sum of the materials of its quotes and of their work, each  *)
(* amount of it once at each price of placing it, whatever has become of   *)
(* the quotes since they were read.                                        *)
THEOREM SummaryHolds == Spec => []ResumenHolds
BY Invariance, PTL DEF IInv, ResumenHolds

LEMMA WhoWipes ==
    ASSUME IInv, Next, NEW r \in Table \cap DOMAIN rows', ~PatchName(r, <<>>)
    PROVE  Spares(rows'[r], rows[r])
<1>1. CASE rows'[r] = rows[r]
  BY <1>1 DEF Spares
<1>2. CASE Revised
  BY <1>2 DEF Revised, Revises
<1>3. ASSUME NEW new, InsertRow(new) PROVE rows'[r] = rows[r]
  BY <1>3, Bounds DEF InsertRow, IInv, TypeOK
<1>4. ASSUME NEW ids, DeleteRows(ids) PROVE rows'[r] = rows[r]
  BY <1>4 DEF DeleteRows
<1>5. CASE CreateQuote \/ CleanupEmptyDrafts \/ AnHourPasses \/ \E in \in WebInputs : CreateWithoutPieces(in)
  BY <1>1, <1>2, <1>3, <1>4, <1>5, RevisedByAnHour DEF CreateQuote, CleanupEmptyDrafts, CreateWithoutPieces
<1>6. CASE OfOneRow
  <2>1. ASSUME NEW q \in Table, NEW name, PatchName(q, name) PROVE Spares(rows'[r], rows[r])
    BY <2>1, StepByPatchName
  <2> QED BY <1>2, <1>6, <2>1, RevisedByGetQuote, RevisedByMarkAsRead, RevisedByPatchPieces,
             RevisedByUpdateStatus DEF OfOneRow
<1>7. CASE OfSeveralRows
  BY <1>1, <1>2, <1>7, RevisedByMergeClient DEF OfSeveralRows, ClientMatchCheck
<1>8. ASSUME NEW s \in Slots, Begins(s) PROVE rows' = rows
  BY <1>8 DEF Begins, ReadResumen, ReadDelete, ReadUpload, StartTurn, ReadDerive, StartWebQuote
<1>9. ASSUME NEW s \in Slots, Continues(s) PROVE Spares(rows'[r], rows[r])
  <2>1. CASE CommitResumen(s)
    <3> DEFINE record == [n |-> made + 1, ids |-> job[s].ids, of |-> job[s].of, data |-> job[s].data]
    <3>1. rows' = [q \in Table |-> IF q \in Holders(job[s].ids)
                     THEN [Attached(q, record) EXCEPT !.idle = FALSE] ELSE rows[q]]
      BY <2>1 DEF CommitResumen, Update
    <3>2. Spares([Attached(r, record) EXCEPT !.idle = FALSE], rows[r])
      BY Attaches
    <3> HIDE DEF record
    <3> QED BY <1>1, <3>1, <3>2
  <2>2. CASE CommitDerive(s) \/ CommitDelete(s) \/ CommitWebQuote(s) \/ WebQuoteFails(s)
    BY <1>1, <1>3, <1>4, <2>2 DEF CommitDerive, CommitDelete, CommitWebQuote, WebQuoteFails
  <2>3. CASE CommitUpload(s) \/ SaveTurn(s) \/ VerifyBackground(s)
    BY <1>2, <2>3, RevisedByCommitUpload, RevisedBySaveTurn, RevisedByVerify
  <2> QED BY <1>9, <2>1, <2>2, <2>3 DEF Continues
<1> QED BY <1>1, <1>5, <1>6, <1>7, <1>8, <1>9 DEF Next

(* Only the operator who clears the field empties a name: the name read in *)
(* the chat and a merge bring one, and the summary of quotes that had none *)
(* leaves the names given since as they are.                               *)
THEOREM NamesAreNeverBlanked == Spec => ClientNeverBlanked
<1>1. IInv /\ [Next]_vars =>
        [\A r \in Table \cap DOMAIN rows' :
           rows[r].client # <<>> /\ rows'[r].client = <<>> => PatchName(r, <<>>)]_vars
  <2> SUFFICES ASSUME IInv, Next, NEW r \in Table \cap DOMAIN rows', rows[r].client # <<>>, rows'[r].client = <<>>
               PROVE  PatchName(r, <<>>)
    OBVIOUS
  <2> QED BY WhoWipes DEF Spares
<1> QED BY <1>1, Invariance, PTL DEF Spec, ClientNeverBlanked

LEMMA DeleteEndsInItsCommit ==
    ASSUME IInv, Next, NEW s \in Slots, job[s].op = "delete", job'[s] = Idle
    PROVE  CommitDelete(s)
<1>1. job'[s] # job[s] /\ job[s] # Idle
  BY DEF Idle
<1>2. ~(CreateQuote \/ CleanupEmptyDrafts \/ AnHourPasses
        \/ (\E in \in WebInputs : CreateWithoutPieces(in)) \/ OfOneRow \/ OfSeveralRows)
  BY <1>1 DEF CreateQuote, CleanupEmptyDrafts, AnHourPasses, CreateWithoutPieces, OfOneRow, OfSeveralRows,
              GetQuote, MarkAsRead, PatchName, PatchPieces, UpdateStatus, ClientMatchCheck, MergeClient, Quick
<1>3. PICK t \in Slots : Begins(t) \/ Continues(t)
  BY <1>2 DEF Next
<1>4. CASE Begins(t)
  <2>1. job[t] = Idle /\ \E j : job' = [job EXCEPT ![t] = j]
    BY <1>1, <1>4 DEF Begins, ReadResumen, ReadDelete, ReadUpload, StartTurn, ReadDerive, StartWebQuote,
                      Starts
  <2> QED BY <1>1, <2>1 DEF IInv, TypeOK
<1>5. CASE Continues(t)
  <2>1. CASE CommitDelete(t)
    BY <1>1, <2>1 DEF CommitDelete, Ends, IInv, TypeOK
  <2>2. ASSUME ~CommitDelete(t) PROVE FALSE
    <3>1. job[t].op # "delete" /\ \E j : job' = [job EXCEPT ![t] = j]
      BY <1>5, <2>2 DEF Continues, CommitResumen, CommitDerive, CommitWebQuote, WebQuoteFails, CommitUpload,
                        SaveTurn, VerifyBackground, Ends
    <3> QED BY <1>1, <3>1 DEF IInv, TypeOK
  <2> QED BY <2>1, <2>2
<1> QED BY <1>3, <1>4, <1>5

(* A delete leaves no orphan behind but one that was inserted after it     *)
(* read the family: the list it read holds a root and its variants, ids    *)
(* are given once, and no row changes its family meanwhile.                *)
THEOREM FamiliesGoTogether == Spec => FamilyGoesTogether
<1>1. ASSUME IInv, Next, NEW s \in Slots, job[s].op = "delete", job'[s] = Idle,
             NEW gone \in job[s].ids \cap Table, NEW kept \in DOMAIN rows',
             rows[kept].parent = gone \/ rows[gone].parent = kept
      PROVE  kept >= job[s].before
  <2>1. CommitDelete(s)
    BY <1>1, DeleteEndsInItsCommit
  <2>2. kept \in Table \ job[s].ids
    BY <1>1, <2>1 DEF CommitDelete, DeleteRows
  <2>3. DeleteOK(job[s])
    BY <1>1 DEF IInv, JobsOK, JobOK
  <2>4. PICK root \in 1..(job[s].before - 1) : IsRoot(root) /\ ListsFamily(job[s], root)
    BY <2>3 DEF DeleteOK
  <2>5. /\ job[s].before \in Nat /\ job[s].ids \subseteq 1..(job[s].before - 1)
        /\ Table \subseteq 1..(next - 1) /\ next \in Nat
    BY <1>1, <2>3, Bounds DEF DeleteOK, IInv, TypeOK
  <2>6. gone \in Table /\ gone < job[s].before /\ kept \in Nat /\ kept # None /\ root # None
    <3>1. gone \in Table /\ gone \in 1..(job[s].before - 1)
      BY <1>1, <2>5
    <3>2. kept \in 1..(next - 1)
      BY <2>2, <2>5
    <3> QED BY <2>4, <2>5, <3>1, <3>2 DEF None
  <2>7. gone = root \/ rows[gone].parent = root
    BY <1>1, <2>4, <2>6 DEF ListsFamily
  <2> SUFFICES ASSUME kept < job[s].before PROVE FALSE
    BY <2>5, <2>6
  <2>8. kept # root /\ rows[kept].parent # root
    BY <2>2, <2>4 DEF ListsFamily
  <2>9. CASE rows[kept].parent = gone
    <3>1. rows[gone].parent = None
      BY <1>1, <2>2, <2>6, <2>9 DEF IInv, FamiliesAreFlat
    <3> QED BY <2>6, <2>7, <2>8, <2>9, <3>1
  <2>10. CASE rows[gone].parent = kept
    BY <2>4, <2>6, <2>7, <2>8, <2>10 DEF IsRoot
  <2> QED BY <1>1, <2>9, <2>10
<1>2. IInv /\ [Next]_vars =>
        [\A s \in Slots : job[s].op = "delete" /\ job'[s] = Idle =>
           \A gone \in job[s].ids \cap Table, kept \in DOMAIN rows' :
             rows[kept].parent = gone \/ rows[gone].parent = kept => kept >= job[s].before]_vars
  BY <1>1
<1> QED BY <1>2, Invariance, PTL DEF Spec, FamilyGoesTogether

-----------------------------------------------------------------------------
(* The preview's answer is about the rows as they are: any request that    *)
(* changes one answers something else.                                     *)
CheckOK ==
  last.op = "check" /\ last.result = "exact" =>
    Cardinality(last.ids) = 1 \/ \A p, q \in last.ids : rows[p].client = rows[q].client

LEMMA LastAnswer ==
    ASSUME Next
    PROVE  \/ last'.op # "check" /\ last'.op # "resumen"
           \/ \E ids \in SUBSET Table \ {{}} : ClientMatchCheck(ids)
           \/ \E s \in Slots, ids \in Selections, force \in BOOLEAN : ReadResumen(s, ids, force)
<1>1. NoAnswer.op = "none" /\ Answer("web", {}, "error").op = "web"
  BY DEF NoAnswer, Answer
<1>2. CASE CreateQuote \/ CleanupEmptyDrafts \/ AnHourPasses \/ \E in \in WebInputs : CreateWithoutPieces(in)
  BY <1>1, <1>2 DEF CreateQuote, CleanupEmptyDrafts, AnHourPasses, CreateWithoutPieces
<1>3. CASE OfOneRow
  BY <1>1, <1>3 DEF OfOneRow, GetQuote, MarkAsRead, PatchName, PatchPieces, UpdateStatus
<1>4. CASE OfSeveralRows
  BY <1>1, <1>4 DEF OfSeveralRows, MergeClient
<1>5. ASSUME NEW s \in Slots, Begins(s),
             ~\E ids \in Selections, force \in BOOLEAN : ReadResumen(s, ids, force)
      PROVE  last' = NoAnswer
  BY <1>5 DEF Begins, ReadDelete, ReadUpload, StartTurn, ReadDerive, StartWebQuote
<1>6. ASSUME NEW s \in Slots, Continues(s) PROVE last' \in {NoAnswer, Answer("web", {}, "error")}
  BY <1>6 DEF Continues, CommitResumen, CommitDerive, CommitDelete, CommitWebQuote, WebQuoteFails, CommitUpload,
              SaveTurn, VerifyBackground
<1> QED BY <1>1, <1>2, <1>3, <1>4, <1>5, <1>6 DEF Next

LEMMA CheckInvariance == Spec => []CheckOK
<1>1. Init => CheckOK
  BY DEF Init, CheckOK, NoAnswer
<1>2. CheckOK /\ [Next]_vars => CheckOK'
  <2> SUFFICES ASSUME CheckOK, Next, last'.op = "check" PROVE CheckOK'
    BY DEF vars, CheckOK
  <2>1. ASSUME NEW s, NEW ids, NEW force, ReadResumen(s, ids, force) PROVE FALSE
    BY <2>1 DEF ReadResumen, Answer
  <2>2. PICK ids \in SUBSET Table \ {{}} : ClientMatchCheck(ids)
    BY <2>1, LastAnswer
  <2>3. PICK anchor \in ids : last' = Answer("check", ids, Verdict(ids, anchor))
    BY <2>2 DEF ClientMatchCheck
  <2>4. last'.ids = ids /\ last'.result = Verdict(ids, anchor) /\ rows' = rows
    BY <2>2, <2>3 DEF Answer, ClientMatchCheck
  <2>5. ASSUME Verdict(ids, anchor) = "exact", Cardinality(ids) # 1, NEW p \in ids
        PROVE  rows[p].client = rows[anchor].client
    BY <2>5 DEF Verdict, SameNormalized
  <2> QED BY <2>3, <2>4, <2>5 DEF CheckOK
<1> QED BY <1>1, <1>2, PTL DEF Spec

(* When the preview finds one name, the summary asked for next is not      *)
(* refused for its clients, whichever row the database returns first to    *)
(* either of the two requests.                                             *)
THEOREM WhatIsExactIsAccepted == Spec => ExactIsAccepted
<1>1. ASSUME CheckOK, Next, last.op = "check", last.result = "exact", last'.op = "resumen",
             last'.ids = last.ids, last'.result = "clients"
      PROVE  FALSE
  <2>1. ASSUME NEW ids, ClientMatchCheck(ids) PROVE FALSE
    BY <1>1, <2>1 DEF ClientMatchCheck, Answer
  <2>2. PICK s \in Slots, ids \in Selections, force \in BOOLEAN : ReadResumen(s, ids, force)
    BY <1>1, <2>1, LastAnswer
  <2>3. last'.ids = ToSet(ids) /\ last'.result \in Refusal(ids, force)
    BY <2>2 DEF ReadResumen, Answer
  <2>4. PICK anchor \in ToSet(ids) :
          ~FuzzyGroup({rows[r].client : r \in ToSet(ids)}, rows[anchor].client) /\ Cardinality(ToSet(ids)) # 1
    BY <1>1, <2>3 DEF Refusal
  <2>5. \A p, q \in ToSet(ids) : rows[p].client = rows[q].client
    BY <1>1, <2>3, <2>4 DEF CheckOK
  <2> QED BY <2>4, <2>5 DEF FuzzyGroup
<1>2. CheckOK /\ [Next]_vars =>
        [last.op = "check" /\ last.result = "exact" /\ last'.op = "resumen" /\ last'.ids = last.ids
           => last'.result # "clients"]_vars
  BY <1>1
<1> QED BY <1>2, CheckInvariance, PTL DEF Spec, ExactIsAccepted
=============================================================================
