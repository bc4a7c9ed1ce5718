-------------------------- MODULE Building_proofs --------------------------
(***************************************************************************)
(* Proofs about a building's quote.  What is true of the breakdown in the  *)
(* row must be true of the copy a turn carries (Breakdown is stated of     *)
(* both), as step 2 and step 3 write the copy back whole.  That the quotes *)
(* per material charge what the building does is arithmetic of one plan    *)
(* (DocumentsAddUp: every trip is given to one material, every job charged *)
(* at the price of its line), and the quotes of a batch being those of its *)
(* plan, one by one (Batched).                                             *)
(***************************************************************************)
EXTENDS Building, Sums_proofs

\* What the documents of a plan charge, material by material, and what the
\* building's quote charges.
Context(p) == DocContexts(Summary(p), Paso2(Summary(p), Zone))
Ars(p) == [n \in PricedOf(p) |-> Context(p)[n].ars]
Usd(p) == [n \in PricedOf(p) |-> Context(p)[n].usd]
TotalsOf(p) == [plan |-> p, ars |-> Paso2(Summary(p), Zone).ars, usd |-> Paso2(Summary(p), Zone).usd]

IsBreakdown(b) ==
  DOMAIN b = {"step", "plan", "paso2", "done", "failed", "tips", "geo", "zone", "learnt", "confirmed", "skipped"}

\* Every L of a page that is shown was one in the first reading.
KeepsLs(tips) ==
  \E first \in TipReadings :
    /\ Len(first) = Len(tips)
    /\ \A i \in DOMAIN tips : Inverted(tips[i]) => Inverted(first[i])

\* The typologies come last: a correction is the only step that computes them.
Breakdown(b) ==
  /\ IsBreakdown(b)
  /\ b.step \in Steps \cup {None} /\ b.plan \in Plans \cup {None}
  /\ b.step # None => b.plan \in Plans
  /\ b.step = None => b.paso2 = None
  /\ b.step \in {"step2_quote", "awaiting_client_name"} => b.paso2.plan = b.plan
  /\ b.paso2 # None => b.paso2 = TotalsOf(b.plan)
  /\ b.step = "page_1_confirm" => KeepsLs(b.tips)
  /\ b.geo = Geometries(b.tips, Slab)

RowOK ==
  /\ DOMAIN row = {"building", "web", "plan", "client", "totals", "validated", "analysed"}
  /\ row.plan \in Plans \cup {None} /\ (disk => row.plan \in Plans)
  /\ row.totals # None => row.totals.plan \in Plans

TurnOK(j) ==
  /\ j.kind \in {"idle", "read", "extract", "state", "pricing", "children", "documents", "announce"}
  /\ j.kind \in {"read", "extract", "children"} => j.plan \in Plans
  /\ j.kind = "state" => j.message \in Messages
  /\ j.kind = "pricing" => Breakdown(j.bd) /\ j.bd.step = "step1_review"
  /\ j.kind \in {"documents", "announce"} =>
       DOMAIN j = {"kind", "bd"} /\ Breakdown(j.bd) /\ j.bd.step = "step2_quote"

TurnsOK == turn = [t \in Tabs |-> turn[t]] /\ \A t \in Tabs : TurnOK(turn[t])

\* What the documents of a quote are, whichever material's they may be.
OwnOf(c) ==
  OverlapsNoOther(c.doc.name) =>
    /\ Resolves[c.doc.name] = c.sku
    /\ BeginsNoOther(c.doc.name) => c.doc.files = {c.sku}

IsQuote(c) ==
  /\ DOMAIN c = {"plan", "sku", "ars", "usd", "batch", "validated", "doc"}
  /\ c.sku \in Materials /\ c.plan \in Plans
  /\ c.validated => OwnOf(c)

\* The quotes made together follow each other, one for each priced material of
\* their plan, and the number of the batch is the place of its first.
Together(cs, b) == {i \in DOMAIN cs : cs[i].batch = b}
Placed(cs, i) ==
  LET c == cs[i]
      N == PricedOf(c.plan)
      name == SetToSeq(N)[i - c.batch + 1]
  IN /\ c.batch \in 1..i /\ cs[c.batch].plan = c.plan
     /\ Together(cs, c.batch) = c.batch..(c.batch + Cardinality(N) - 1)
     /\ c.ars = Ars(c.plan)[name] /\ c.usd = Usd(c.plan)[name]
Batched(cs) == \A i \in DOMAIN cs : Placed(cs, i)

ChildrenOK ==
  /\ children \in Seq(Range(children))
  /\ \A i \in DOMAIN children : IsQuote(children[i])
  /\ Batched(children)

\* Whoever writes documents has a client, and so has what was written.
Printing(j) == j.kind \in {"documents", "announce"}
ClientKnown ==
  (\E s \in Materials : files[s] # None) \/ (\E t \in Tabs : Printing(turn[t])) => row.client # None

FilesOK ==
  /\ files = [s \in Materials |-> files[s]]
  /\ \A s \in Materials : files[s] # None => files[s].name \in Names

IInv == /\ Breakdown(bd) /\ RowOK /\ TurnsOK /\ ChildrenOK /\ FilesOK /\ ClientKnown
        /\ sent \in 0..MaxMessages

-----------------------------------------------------------------------------
(* Plans and materials *)

LEMMA MaterialsAreNamed == ASSUME NEW p \in Plans PROVE MaterialsOf(p) \subseteq Names
<1>1. SUFFICES ASSUME NEW i \in DOMAIN Sections[p], NEW r \in DOMAIN Sections[p][i].rows
               PROVE  Sections[p][i].rows[r].mat \in Names
  BY DEF MaterialsOf
<1>2. Sections[p] = ParseTables(Tables[p])
  BY DEF Sections
<1>3. i \in DOMAIN Tables[p]
  BY <1>2 DEF ParseTables
<1>4. /\ r \in DOMAIN Tables[p][i].rows
      /\ Sections[p][i].rows[r] = Tables[p][i].rows[r]
  BY <1>2, <1>3 DEF ParseTables, Restrict
<1> QED BY <1>3, <1>4, EdificioAssumption DEF Plans

\* The aggregates are those of the materials the tables name.
LEMMA Summarised == ASSUME NEW p \in Plans PROVE DOMAIN Summary(p).of = MaterialsOf(p)
<1> DEFINE pieces == PiecesOf(Sections[p])
           places == UNION {{i} \X DOMAIN Sections[p][i].rows : i \in DOMAIN Sections[p]}
<1>1. DOMAIN pieces = places /\ \A at \in places : pieces[at].mat = Sections[p][at[1]].rows[at[2]].mat
  BY DEF PiecesOf, Normalize
<1>2. {pieces[at].mat : at \in DOMAIN pieces} = MaterialsOf(p)
  <2>1. ASSUME NEW at \in places PROVE pieces[at].mat \in MaterialsOf(p)
    BY <1>1 DEF MaterialsOf
  <2>2. ASSUME NEW i \in DOMAIN Sections[p], NEW r \in DOMAIN Sections[p][i].rows
        PROVE  Sections[p][i].rows[r].mat \in {pieces[at].mat : at \in DOMAIN pieces}
    <3>1. <<i, r>> \in places
      OBVIOUS
    <3> QED BY <1>1, <3>1
  <2> QED BY <1>1, <2>1, <2>2 DEF MaterialsOf
<1> HIDE DEF pieces
<1>3. DOMAIN Aggregates(pieces).of = {pieces[at].mat : at \in DOMAIN pieces}
  BY DEF Aggregates
<1> QED BY <1>2, <1>3 DEF Summary, pieces

\* The document of a priced material is named after its row of the catalogue.
LEMMA PricedSku ==
    ASSUME NEW p \in Plans, NEW n \in PricedOf(p)
    PROVE  /\ Resolves[n] \in Materials /\ n \in Names
           /\ DocContexts(Summary(p), Paso2(Summary(p), Zone))[n].sku = Resolves[n]
<1> DEFINE s == Summary(p)
           p2 == Paso2(s, Zone)
<1>1. n \in MaterialsOf(p) /\ Resolves[n] # None
  BY DEF PricedOf
<1>2. n \in Names /\ Resolves[n] \in Materials
  BY <1>1, MaterialsAreNamed, EdificioAssumption
<1>3. n \in DOMAIN s.of
  BY <1>1, Summarised
<1> HIDE DEF s
<1>4. DOMAIN p2.results = DOMAIN s.of /\ p2.results[n] = PricedMaterial(s, n)
  BY <1>1, <1>3 DEF Paso2
<1>5. p2.results[n].ok /\ p2.results[n].sku = Resolves[n]
  BY <1>4 DEF PricedMaterial
<1> HIDE DEF p2
<1>6. DocContexts(s, p2)[n] = DocContext(s, p2, n)
  BY <1>3, <1>4, <1>5 DEF DocContexts
<1>7. DocContext(s, p2, n).sku = Resolves[n]
  BY <1>5 DEF DocContext
<1> QED BY <1>2, <1>6, <1>7 DEF s, p2

LEMMA NamesAreFinite == IsFiniteSet(Names)
<1>1. Len(RawNames) \in Nat /\ DOMAIN RawNames = 1..Len(RawNames)
  BY EdificioAssumption, LenProperties
<1>2. IsFiniteSet(DOMAIN RawNames)
  BY <1>1, FS_Interval
<1>3. RawNames \in [DOMAIN RawNames -> Names]
  BY EdificioAssumption, LenProperties DEF Names
<1>4. RawNames \in Surjection(DOMAIN RawNames, Names)
  BY <1>3 DEF Surjection, Names
<1> QED BY <1>2, <1>4, FS_Surjection DEF ExistsSurjection

LEMMA Listed ==
    ASSUME NEW S, IsFiniteSet(S)
    PROVE  /\ Cardinality(S) \in Nat
           /\ SetToSeq(S) \in [1..Cardinality(S) -> S] /\ SetToSeq(S) \in Bijection(1..Cardinality(S), S)
<1>1. Cardinality(S) \in Nat /\ ExistsBijection(1..Cardinality(S), S)
  BY FS_CardinalityType
<1>2. \E f \in [1..Cardinality(S) -> S] : IsInjective(f)
  BY <1>1 DEF ExistsBijection, Bijection, Injection
<1>3. SetToSeq(S) \in [1..Cardinality(S) -> S] /\ IsInjective(SetToSeq(S))
  BY <1>1, <1>2 DEF SetToSeq
<1>4. SetToSeq(S) \in Injection(1..Cardinality(S), S)
  BY <1>3 DEF Injection
<1>5. IsFiniteSet(1..Cardinality(S)) /\ Cardinality(1..Cardinality(S)) = Cardinality(S)
  BY <1>1, FS_Interval
<1>6. SetToSeq(S) \in Surjection(1..Cardinality(S), S)
  BY <1>4, <1>5, FS_Injection
<1> QED BY <1>1, <1>3, <1>4, <1>6 DEF Bijection

-----------------------------------------------------------------------------
(* Pieces of a plan *)
Pieces(p) == PiecesOf(Sections[p])

IsBuildingPiece(x) ==
  /\ x.mat \in Names /\ x.qty \in Nat \ {0} /\ x.piletas \in Nat /\ x.faldon \in Nat
  /\ x.m2 \in Nat /\ x.faldonMl \in Nat

LEMMA TablesAreFinite ==
    ASSUME NEW p \in Plans
    PROVE  /\ IsFiniteSet(DOMAIN Sections[p])
           /\ \A i \in DOMAIN Sections[p] :
                /\ IsFiniteSet(DOMAIN Sections[p][i].rows)
                /\ \A r \in DOMAIN Sections[p][i].rows : IsBuildingPiece(Normalize(Sections[p][i].rows[r]))
<1>1. Sections[p] = ParseTables(Tables[p])
  BY DEF Sections
<1>2. IsFiniteSet(DOMAIN Tables[p])
  BY Indices, EdificioAssumption DEF Plans
<1>3. DOMAIN Sections[p] \in SUBSET DOMAIN Tables[p]
  BY <1>1 DEF ParseTables
<1>4. ASSUME NEW i \in DOMAIN Sections[p]
      PROVE  /\ IsFiniteSet(DOMAIN Sections[p][i].rows)
             /\ \A r \in DOMAIN Sections[p][i].rows : IsBuildingPiece(Normalize(Sections[p][i].rows[r]))
  <2> DEFINE rows == Tables[p][i].rows
  <2>1. /\ i \in DOMAIN Tables[p]
        /\ DOMAIN Sections[p][i].rows \in SUBSET DOMAIN rows
        /\ \A r \in DOMAIN Sections[p][i].rows : Sections[p][i].rows[r] = rows[r]
    BY <1>1, <1>3 DEF ParseTables, Restrict
  <2>2. /\ rows \in Seq(Range(rows))
        /\ \A r \in DOMAIN rows :
             /\ rows[r].mat \in Names /\ rows[r].largo \in Nat /\ rows[r].ancho \in Nat
             /\ rows[r].qty \in Nat /\ rows[r].piletas \in Nat /\ rows[r].faldon \in Nat
    BY <2>1, EdificioAssumption DEF Plans
  <2> HIDE DEF rows
  <2>3. IsFiniteSet(DOMAIN Sections[p][i].rows)
    BY <2>1, <2>2, Indices, FS_Subset
  <2>4. ASSUME NEW r \in DOMAIN rows PROVE IsBuildingPiece(Normalize(rows[r]))
    <3>1. PICK a, b, q, f : a = rows[r].largo /\ b = rows[r].ancho /\ q = Greatest(rows[r].qty, 1) /\ f = rows[r].faldon
      OBVIOUS
    <3>2. a \in Nat /\ b \in Nat /\ q \in Nat \ {0} /\ f \in Nat
      BY <2>2, <3>1 DEF Greatest
    <3>3. a * b * q \in Nat /\ a * q \in Nat
      BY <3>2
    <3>4. Normalize(rows[r]) = [mat |-> rows[r].mat, qty |-> q, piletas |-> rows[r].piletas, apoyo |-> rows[r].apoyo,
                                faldon |-> f, m2 |-> a * b * q, faldonMl |-> IF f > 0 THEN a * q ELSE 0]
      BY <3>1 DEF Normalize
    <3> QED BY <2>2, <3>2, <3>3, <3>4 DEF IsBuildingPiece
  <2> QED BY <2>1, <2>3, <2>4
<1> QED BY <1>2, <1>3, <1>4, FS_Subset

LEMMA PiecesAreFinite ==
    ASSUME NEW p \in Plans
    PROVE  /\ IsFiniteSet(DOMAIN Pieces(p))
           /\ \A at \in DOMAIN Pieces(p) : IsBuildingPiece(Pieces(p)[at])
<1> DEFINE sections == Sections[p]
           D == DOMAIN sections
           Block(i) == {i} \X DOMAIN sections[i].rows
           places == UNION {Block(i) : i \in D}
<1>1. DOMAIN Pieces(p) = places /\ \A at \in places : Pieces(p)[at] = Normalize(sections[at[1]].rows[at[2]])
  BY DEF Pieces, PiecesOf
<1>2. IsFiniteSet(D) /\ \A i \in D : IsFiniteSet(DOMAIN sections[i].rows)
  BY TablesAreFinite
<1>3. \A i \in D : IsFiniteSet(Block(i))
  <2>1. ASSUME NEW i \in D PROVE IsFiniteSet(Block(i))
    <3>1. IsFiniteSet({i}) /\ IsFiniteSet(DOMAIN sections[i].rows)
      BY <1>2, FS_Singleton
    <3> HIDE DEF sections
    <3> QED BY <3>1, FS_Product
  <2> QED BY <2>1
<1>4. IsFiniteSet({Block(i) : i \in D})
  <2> DEFINE block == [i \in D |-> Block(i)]
  <2>1. block \in Surjection(D, {Block(i) : i \in D})
    BY DEF Surjection
  <2> HIDE DEF block, Block, D
  <2> QED BY <1>2, <2>1, FS_Surjection
<1>5. IsFiniteSet(places)
  <2> HIDE DEF Block, D
  <2>1. \A T \in {Block(i) : i \in D} : IsFiniteSet(T)
    BY <1>3
  <2> QED BY <1>4, <2>1, FS_UNION
<1>6. ASSUME NEW at \in places PROVE at[1] \in D /\ at[2] \in DOMAIN sections[at[1]].rows
  OBVIOUS
<1>7. \A at \in places : IsBuildingPiece(Normalize(sections[at[1]].rows[at[2]]))
  <2> HIDE DEF places
  <2> QED BY <1>6, TablesAreFinite
<1> QED BY <1>1, <1>5, <1>7

LEMMA MaterialIsSummed ==
    ASSUME NEW p \in Plans, NEW n \in {Pieces(p)[at].mat : at \in DOMAIN Pieces(p)}
    PROVE  LET of == MaterialSummary(Pieces(p), n) IN
           /\ of.m2 \in Nat /\ of.pegado \in Nat /\ of.apoyo \in Nat /\ of.faldonMl \in Nat
           /\ of.physical \in Nat /\ of.physical > 0
<1> DEFINE pieces == Pieces(p)
           D == {at \in DOMAIN pieces : pieces[at].mat = n}
           of == Restrict(pieces, D)
           area == SumOf([i \in D |-> of[i].m2])
           skirt == SumOf([i \in D |-> of[i].faldonMl * of[i].faldon])
           mesadas == 100 * HalfEven(area, 100)
           faldones == 10 * HalfEven(skirt, 10)
           pegado == SumOf([i \in D |-> IF of[i].apoyo THEN 0 ELSE of[i].piletas])
           apoyo == SumOf([i \in D |-> IF of[i].apoyo THEN of[i].piletas ELSE 0])
           ml == SumOf([i \in D |-> of[i].faldonMl])
           physical == SumOf([i \in D |-> of[i].qty])
<1>1. IsFiniteSet(D) /\ DOMAIN of = D /\ \A i \in D : of[i] = pieces[i] /\ IsBuildingPiece(of[i])
  <2>1. D \in SUBSET DOMAIN pieces /\ IsFiniteSet(DOMAIN pieces)
    BY PiecesAreFinite
  <2>2. DOMAIN of = D /\ \A i \in D : of[i] = pieces[i]
    BY DEF Restrict
  <2>3. \A i \in D : IsBuildingPiece(pieces[i])
    BY PiecesAreFinite
  <2> HIDE DEF D, of, pieces
  <2> QED BY <2>1, <2>2, <2>3, FS_Subset
<1>2. MaterialSummary(pieces, n) =
        [mesadas |-> mesadas, faldones |-> faldones, m2 |-> 100 * HalfEven(mesadas + faldones, 100),
         pegado |-> pegado, apoyo |-> apoyo, faldonMl |-> ml, physical |-> physical]
  <2>1. DOMAIN of = D
    BY <1>1
  <2> HIDE DEF D
  <2> QED BY <2>1 DEF MaterialSummary, Total, D
<1>3. \E i \in D : TRUE
  OBVIOUS
<1> HIDE DEF of, D, pieces
<1>4. area \in Nat /\ ml \in Nat
  <2>1. [i \in D |-> of[i].m2] \in [D -> Nat] /\ [i \in D |-> of[i].faldonMl] \in [D -> Nat]
    BY <1>1 DEF IsBuildingPiece
  <2> QED BY <1>1, <2>1, SumOfNats
<1>5. skirt \in Nat
  <2>1. [i \in D |-> of[i].faldonMl * of[i].faldon] \in [D -> Nat]
    <3>1. ASSUME NEW i \in D PROVE of[i].faldonMl * of[i].faldon \in Nat
      <4>1. of[i].faldonMl \in Nat /\ of[i].faldon \in Nat
        BY <1>1 DEF IsBuildingPiece
      <4> QED BY <4>1
    <3> QED BY <3>1
  <2> QED BY <1>1, <2>1, SumOfNats
<1>6. pegado \in Nat /\ apoyo \in Nat
  <2>1. [i \in D |-> IF of[i].apoyo THEN 0 ELSE of[i].piletas] \in [D -> Nat]
    BY <1>1 DEF IsBuildingPiece
  <2>2. [i \in D |-> IF of[i].apoyo THEN of[i].piletas ELSE 0] \in [D -> Nat]
    BY <1>1 DEF IsBuildingPiece
  <2> QED BY <1>1, <2>1, <2>2, SumOfNats
<1>7. physical \in Nat /\ physical > 0
  <2> DEFINE f == [i \in D |-> of[i].qty]
  <2>1. f \in [D -> Nat] /\ \A i \in D : f[i] > 0
    BY <1>1 DEF IsBuildingPiece
  <2> HIDE DEF f
  <2>2. SumOf(f) \in Nat /\ SumOf(f) > 0
    BY <1>1, <1>3, <2>1, SumOfNats, SumIsPositive
  <2> QED BY <2>2 DEF f
<1>8. 100 * HalfEven(mesadas + faldones, 100) \in Nat
  <2> HIDE DEF area, skirt
  <2>1. HalfEven(area, 100) \in Nat /\ HalfEven(skirt, 10) \in Nat
    <3>1. HalfEven(area, 100) \in Nat
      BY <1>4, HalfEvenNear
    <3>2. HalfEven(skirt, 10) \in Nat
      BY <1>5, HalfEvenNear
    <3> QED BY <3>1, <3>2
  <2>2. mesadas + faldones \in Nat
    BY <2>1
  <2> HIDE DEF mesadas, faldones
  <2>3. PICK m : m = mesadas + faldones /\ m \in Nat
    BY <2>2
  <2>4. HalfEven(m, 100) \in Nat
    BY <2>3, HalfEvenNear
  <2> QED BY <2>3, <2>4
<1> HIDE DEF mesadas, faldones, pegado, apoyo, ml, physical
<1> QED BY <1>2, <1>4, <1>6, <1>7, <1>8 DEF pieces

-----------------------------------------------------------------------------
(* Trips *)

\* A row of the alphabet for every name.
LEMMA NamesAreOrdered ==
    ASSUME NEW n \in Names
    PROVE  LET i == CHOOSE i \in DOMAIN RawNames : RawNames[i] = n
           IN i \in Nat /\ i \in DOMAIN RawNames /\ RawNames[i] = n
<1>1. \E i \in DOMAIN RawNames : RawNames[i] = n
  BY DEF Names
<1>2. \A i \in DOMAIN RawNames : i \in Nat
  <2>1. Len(RawNames) \in Nat /\ DOMAIN RawNames = 1..Len(RawNames)
    BY EdificioAssumption, LenProperties
  <2> QED BY <2>1
<1> QED BY <1>1, <1>2

\* The trips of a building are all given to its materials, none twice.
LEMMA TripsAreShared ==
    ASSUME NEW counts, NEW S \in SUBSET Names, S # {}, DOMAIN counts = S,
           \A n \in S : counts[n] \in Nat,
           SumOf(Over(counts, S)) > 0, NEW total \in Nat \ {0}
    PROVE  LET trips == DistributeFlete(total, counts)
           IN /\ DOMAIN trips = S /\ \A n \in S : trips[n] \in Nat
              /\ SumOf(Over(trips, S)) = total
<1> DEFINE all == SumOver(DOMAIN counts, LAMBDA n : counts[n])
           base == [n \in DOMAIN counts |-> (total * counts[n]) \div all]
           rest == [n \in DOMAIN counts |-> (total * counts[n]) % all]
           At(n) == CHOOSE i \in DOMAIN RawNames : RawNames[i] = n
           Before(m, n) == rest[m] > rest[n] \/ (rest[m] = rest[n] /\ At(m) < At(n))
           left == total - SumOver(DOMAIN counts, LAMBDA n : base[n])
           R == {x \in S \X S : Before(x[1], x[2])}
           trips == DistributeFlete(total, counts)
<1>1. IsFiniteSet(S) /\ Cardinality(S) \in Nat /\ Cardinality(S) # 0
  BY NamesAreFinite, FS_Subset, FS_CardinalityType, FS_EmptySet
<1>3. all = SumOf(Over(counts, S))
  BY DEF SumOver, Over
<1>2. all \in Nat \ {0}
  <2>1. SumOf(Over(counts, S)) \in Nat
    BY <1>1, SumIsNat
  <2> HIDE DEF all
  <2> QED BY <1>3, <2>1
<1>4. left = total - SumOf(Over(base, S))
  <2> HIDE DEF base
  <2> QED BY DEF SumOver, Over
<1>5. trips = [n \in DOMAIN counts |->
                 base[n] + (IF Cardinality({m \in DOMAIN counts : Before(m, n)}) < left THEN 1 ELSE 0)]
  <2>1. all # 0 /\ total # 0
    BY <1>2
  <2>2. trips = IF all = 0 \/ total = 0 THEN [n \in DOMAIN counts |-> 0]
                ELSE [n \in DOMAIN counts |->
                       base[n] + (IF Cardinality({m \in DOMAIN counts : Before(m, n)}) < left THEN 1 ELSE 0)]
    BY DEF DistributeFlete
  <2> HIDE DEF all, trips, base, Before, left
  <2> QED BY <2>1, <2>2
<1>6. ASSUME NEW n \in S PROVE Cardinality({m \in S : Before(m, n)}) = Rank(R, S, n)
  <2> HIDE DEF Before
  <2>1. {m \in S : Before(m, n)} = {m \in S : <<m, n>> \in R}
    OBVIOUS
  <2> QED BY <2>1 DEF Rank
<1>7. ASSUME NEW n \in S
      PROVE  /\ total * counts[n] \in Nat /\ base[n] \in Nat /\ rest[n] \in Nat /\ rest[n] < all
             /\ total * counts[n] = all * base[n] + rest[n]
  <2>1. PICK c : c = total * counts[n] /\ c \in Nat
    OBVIOUS
  <2>2. base[n] = c \div all /\ rest[n] = c % all
    BY <2>1
  <2> HIDE DEF base, rest, all
  <2>3. c \div all \in Nat /\ c % all \in 0..(all - 1) /\ c = all * (c \div all) + (c % all)
    BY <1>2, <2>1, Divided
  <2>4. rest[n] \in Nat /\ rest[n] < all
    BY <1>2, <2>2, <2>3
  <2> QED BY <2>1, <2>2, <2>3, <2>4
<1>8. StrictOrder(R, S)
  <2>1. \A n \in S : At(n) \in Nat /\ RawNames[At(n)] = n
    BY NamesAreOrdered
  <2>2. \A n \in S : rest[n] \in Nat
    BY <1>7
  <2>3. \A m, n \in S : <<m, n>> \in R <=> Before(m, n)
    OBVIOUS
  <2> HIDE DEF rest, At, R
  <2>4. \A m \in S : <<m, m>> \notin R
    BY <2>1, <2>2, <2>3
  <2>5. ASSUME NEW l \in S, NEW m \in S, NEW n \in S, Before(l, m), Before(m, n) PROVE Before(l, n)
    BY <2>1, <2>2, <2>5
  <2>6. ASSUME NEW m \in S, NEW n \in S, m # n PROVE Before(m, n) \/ Before(n, m)
    <3>1. At(m) # At(n)
      BY <2>1, <2>6
    <3> QED BY <2>1, <2>2, <3>1
  <2> HIDE DEF Before
  <2> QED BY <2>3, <2>4, <2>5, <2>6 DEF StrictOrder
<1> HIDE DEF base, rest, R, trips, all
<1> DEFINE product == [n \in S |-> total * counts[n]]
           whole == [n \in S |-> all * base[n]]
<1>9. SumOf(Over(product, S)) = total * all
  <2>1. \A n \in S : counts[n] \in Int /\ product[n] = total * counts[n]
    OBVIOUS
  <2> HIDE DEF product
  <2>2. SumOf(Over(product, S)) = total * SumOf(Over(counts, S))
    BY <1>1, <2>1, SumIsScaled
  <2> QED BY <1>3, <2>2
<1>10. SumOf(Over(whole, S)) = all * SumOf(Over(base, S))
  <2>1. \A n \in S : base[n] \in Int /\ whole[n] = all * base[n]
    BY <1>7
  <2> HIDE DEF whole
  <2> QED BY <1>1, <1>2, <2>1, SumIsScaled
<1>11. SumOf(Over(product, S)) = SumOf(Over(whole, S)) + SumOf(Over(rest, S))
  <2>1. \A n \in S : whole[n] \in Int /\ rest[n] \in Int /\ product[n] = whole[n] + rest[n]
    <3>1. ASSUME NEW n \in S PROVE whole[n] \in Int /\ rest[n] \in Int /\ product[n] = whole[n] + rest[n]
      <4>1. product[n] = total * counts[n] /\ whole[n] = all * base[n]
        OBVIOUS
      <4> HIDE DEF product, whole
      <4>2. total * counts[n] = all * base[n] + rest[n] /\ rest[n] \in Nat
        BY <1>7
      <4>3. all * base[n] \in Int
        <5>1. base[n] \in Nat /\ all \in Nat
          BY <1>2, <1>7
        <5> QED BY <5>1
      <4> QED BY <4>1, <4>2, <4>3
    <3> QED BY <3>1
  <2> HIDE DEF product, whole
  <2> QED BY <1>1, <2>1, SumsAdd
<1>12. PICK b, r, k : b = SumOf(Over(base, S)) /\ r = SumOf(Over(rest, S)) /\ k = Cardinality(S)
  OBVIOUS
<1>13. b \in Nat /\ r \in Nat /\ k \in Nat \ {0} /\ all * total = all * b + r
  <2>1. b \in Nat
    BY <1>1, <1>7, <1>12, SumIsNat
  <2>2. r \in Nat
    BY <1>1, <1>7, <1>12, SumIsNat
  <2>3. total * all = all * b + r
    BY <1>9, <1>10, <1>11, <1>12
  <2>4. all * total = total * all
    BY <1>2
  <2> QED BY <1>1, <1>12, <2>1, <2>2, <2>3, <2>4
<1>14. r <= (all - 1) * k
  <2> DEFINE most == [n \in S |-> (all - 1) * 1]
             one == [n \in S |-> 1]
  <2>1. \A n \in S : /\ rest[n] \in Int /\ most[n] \in Int /\ rest[n] <= most[n]
                     /\ one[n] \in Int /\ one[n] = 1 /\ most[n] = (all - 1) * one[n]
    BY <1>2, <1>7
  <2>2. all - 1 \in Int
    BY <1>2
  <2> HIDE DEF most, one
  <2>3. SumOf(Over(rest, S)) <= SumOf(Over(most, S))
    BY <1>1, <2>1, SumIsMonotone
  <2>4. SumOf(Over(most, S)) = (all - 1) * SumOf(Over(one, S))
    BY <1>1, <2>1, <2>2, SumIsScaled
  <2>5. SumOf(Over(one, S)) = k
    BY <1>1, <1>12, <2>1, SumOfOnes
  <2> QED BY <1>12, <2>3, <2>4, <2>5
<1>15. left \in 0..k
  <2>1. left = total - b /\ left \in Int
    BY <1>4, <1>12, <1>13
  <2> HIDE DEF left
  <2>2. all * left = all * total - all * b
    BY <1>2, <1>13, <2>1
  <2>3. all * left >= 0 /\ all * left <= (all - 1) * k
    <3>1. all * total \in Int /\ all * b \in Int
      BY <1>2, <1>13
    <3>2. all * left = r
      BY <1>13, <2>2, <3>1
    <3> QED BY <1>13, <1>14, <3>2
  <2>4. ASSUME left < 0 PROVE FALSE
    <3>1. all * left <= all * (-1)
      BY <1>2, <2>1, <2>4
    <3>2. all * left <= -all
      BY <1>2, <2>1, <3>1
    <3> QED BY <1>2, <2>1, <2>3, <3>2
  <2>5. ASSUME left > k PROVE FALSE
    <3>1. all * left >= all * k
      BY <1>2, <1>13, <2>1, <2>5
    <3>2. (all - 1) * k = all * k - k
      BY <1>2, <1>13
    <3>3. all * k \in Int
      BY <1>2, <1>13
    <3>4. PICK x, y : x = all * left /\ y = all * k /\ x \in Int /\ y \in Int
      BY <1>2, <2>1, <3>3
    <3>5. x <= y - k /\ x >= y
      BY <2>3, <3>1, <3>2, <3>4
    <3> QED BY <1>13, <3>4, <3>5
  <2> QED BY <1>13, <2>1, <2>4, <2>5
<1> DEFINE first == {n \in S : Rank(R, S, n) < left}
           more == [n \in S |-> IF n \in first THEN 1 ELSE 0]
           ones == [n \in S |-> 1]
<1>16. Cardinality(first) = left
  <2> HIDE DEF left
  <2> QED BY <1>1, <1>8, <1>12, <1>15, FirstOnes
<1>17. SumOf(Over(more, S)) = left
  <2>1. /\ first \in SUBSET S /\ \A n \in first : ones[n] \in Int /\ ones[n] = 1
        /\ \A n \in S : more[n] = IF n \in first THEN ones[n] ELSE 0
    <3> HIDE DEF left
    <3> QED OBVIOUS
  <2> HIDE DEF more, first, ones
  <2>2. SumOf(Over(more, S)) = SumOf(Over(ones, first))
    BY <1>1, <2>1, SumOfKept
  <2>3. IsFiniteSet(first)
    BY <1>1, <2>1, FS_Subset
  <2>4. SumOf(Over(ones, first)) = Cardinality(first)
    BY <2>1, <2>3, SumOfOnes
  <2> QED BY <1>16, <2>2, <2>4
<1>18. ASSUME NEW n \in S
       PROVE  trips[n] = base[n] + more[n] /\ base[n] \in Nat /\ more[n] \in Nat /\ trips[n] \in Nat
  <2>1. trips[n] = base[n] + (IF Rank(R, S, n) < left THEN 1 ELSE 0)
    <3> HIDE DEF left, Before, base, trips
    <3>1. trips[n] = base[n] + (IF Cardinality({m \in S : Before(m, n)}) < left THEN 1 ELSE 0)
      BY <1>5
    <3> QED BY <1>6, <3>1
  <2>2. more[n] = IF Rank(R, S, n) < left THEN 1 ELSE 0
    OBVIOUS
  <2> HIDE DEF more, left
  <2>3. more[n] \in Nat /\ base[n] \in Nat
    BY <1>7, <2>2
  <2> QED BY <2>1, <2>2, <2>3
<1>19. SumOf(Over(trips, S)) = SumOf(Over(base, S)) + SumOf(Over(more, S))
  <2> HIDE DEF more, left
  <2>1. \A n \in S : base[n] \in Int /\ more[n] \in Int /\ trips[n] = base[n] + more[n]
    BY <1>18
  <2> QED BY <1>1, <2>1, SumsAdd
<1>20. SumOf(Over(trips, S)) = total
  <2>1. SumOf(Over(trips, S)) = b + (total - b)
    BY <1>4, <1>12, <1>17, <1>19
  <2> QED BY <1>13, <2>1
<1>21. DOMAIN trips = S
  <2> HIDE DEF trips, Before, left
  <2> QED BY <1>5
<1> QED BY <1>18, <1>20, <1>21 DEF trips

-----------------------------------------------------------------------------
(* Summaries *)

\* What a building's quote is the sum of.
LEMMA SummaryIsSummed ==
    ASSUME NEW p \in Plans
    PROVE  LET s == Summary(p)
               N == MaterialsOf(p)
           IN /\ DOMAIN s.of = N /\ N \in SUBSET Names /\ IsFiniteSet(N)
              /\ \A n \in N : /\ s.of[n].m2 \in Nat /\ s.of[n].pegado \in Nat /\ s.of[n].apoyo \in Nat
                              /\ s.of[n].faldonMl \in Nat /\ s.of[n].physical \in Nat
              /\ s.pegado = SumOf([n \in N |-> s.of[n].pegado]) /\ s.pegado \in Nat
              /\ s.apoyo = SumOf([n \in N |-> s.of[n].apoyo]) /\ s.apoyo \in Nat
              /\ s.faldonMl = SumOf([n \in N |-> s.of[n].faldonMl]) /\ s.faldonMl \in Nat
              /\ N # {} => SumOf([n \in N |-> s.of[n].physical]) > 0
              /\ s.flete \in Nat \ {0} /\ s.discount \in Nat
<1> DEFINE pieces == Pieces(p)
           s == Summary(p)
           N == {pieces[at].mat : at \in DOMAIN pieces}
           of == [n \in N |-> MaterialSummary(pieces, n)]
<1>1. s = Aggregates(pieces)
  BY DEF Summary, Pieces
<1>2. DOMAIN s.of = N /\ s.of = of
  BY <1>1 DEF Aggregates
<1>3. N = MaterialsOf(p)
  BY <1>2, Summarised
<1>4. N \in SUBSET Names /\ IsFiniteSet(N)
  BY <1>3, MaterialsAreNamed, NamesAreFinite, FS_Subset
<1>5. \A n \in N : /\ of[n].m2 \in Nat /\ of[n].pegado \in Nat /\ of[n].apoyo \in Nat /\ of[n].faldonMl \in Nat
                   /\ of[n].physical \in Nat /\ of[n].physical > 0
  <2>1. ASSUME NEW n \in N
        PROVE  /\ of[n].m2 \in Nat /\ of[n].pegado \in Nat /\ of[n].apoyo \in Nat /\ of[n].faldonMl \in Nat
               /\ of[n].physical \in Nat /\ of[n].physical > 0
    <3>1. of[n] = MaterialSummary(pieces, n)
      OBVIOUS
    <3>2. n \in {Pieces(p)[at].mat : at \in DOMAIN Pieces(p)}
      OBVIOUS
    <3> HIDE DEF of, pieces
    <3> QED BY <3>1, <3>2, MaterialIsSummed DEF pieces
  <2> QED BY <2>1
<1> DEFINE physical == SumOf([n \in N |-> of[n].physical])
           m2 == SumOf([n \in N |-> of[n].m2])
<1>6. s = [of |-> of, physical |-> physical, m2 |-> m2,
           pegado |-> SumOf([n \in N |-> of[n].pegado]),
           apoyo |-> SumOf([n \in N |-> of[n].apoyo]),
           faldonMl |-> SumOf([n \in N |-> of[n].faldonMl]),
           flete |-> IF physical > 0 THEN Ceil(physical, PerTrip) ELSE 1,
           discount |-> IF m2 > 15 * Metre THEN 18 ELSE 0]
  BY <1>1 DEF Aggregates, SumOver
<1> HIDE DEF s, of, N
<1>7. \A c \in {"m2", "pegado", "apoyo", "faldonMl", "physical"} : SumOf([n \in N |-> of[n][c]]) \in Nat
  <2>1. ASSUME NEW c \in {"m2", "pegado", "apoyo", "faldonMl", "physical"}
        PROVE  SumOf([n \in N |-> of[n][c]]) \in Nat
    <3>1. [n \in N |-> of[n][c]] \in [N -> Nat]
      BY <1>5
    <3> QED BY <1>4, <3>1, SumOfNats
  <2> QED BY <2>1
<1>8. N # {} => physical > 0
  <2> DEFINE f == [n \in N |-> of[n].physical]
  <2>1. f \in [N -> Nat] /\ \A n \in N : f[n] > 0
    BY <1>5
  <2> HIDE DEF f
  <2>2. ASSUME NEW n \in N PROVE SumOf(f) > 0
    BY <1>4, <2>1, SumIsPositive
  <2>3. N # {} => SumOf(f) > 0
    BY <2>2
  <2> QED BY <2>3 DEF f
<1>9. (IF physical > 0 THEN Ceil(physical, PerTrip) ELSE 1) \in Nat \ {0}
  <2>1. physical \in Nat
    BY <1>7
  <2> HIDE DEF physical
  <2>2. ASSUME physical > 0 PROVE Ceil(physical, PerTrip) \in Nat \ {0}
    <3>1. PICK x, d : x = physical /\ d = PerTrip /\ x \in Nat \ {0} /\ d \in Nat \ {0}
      BY <2>1, <2>2, EdificioAssumption
    <3>2. PICK y : y = x + d - 1 /\ y \in Nat /\ y >= d
      BY <3>1
    <3>3. y \div d \in Nat /\ y % d \in 0..(d - 1) /\ y = d * (y \div d) + (y % d)
      BY <3>1, <3>2, Divided
    <3>4. y \div d # 0
      <4>1. ASSUME y \div d = 0 PROVE FALSE
        <5>1. y = d * 0 + (y % d) /\ d * 0 = 0
          BY <3>1, <3>3, <4>1
        <5> QED BY <3>1, <3>2, <3>3, <5>1
      <4> QED BY <4>1
    <3> QED BY <3>1, <3>2, <3>3, <3>4 DEF Ceil
  <2> QED BY <2>2
<1>10. /\ s.of = of /\ s.pegado = SumOf([n \in N |-> of[n].pegado]) /\ s.apoyo = SumOf([n \in N |-> of[n].apoyo])
       /\ s.faldonMl = SumOf([n \in N |-> of[n].faldonMl])
       /\ s.flete = (IF physical > 0 THEN Ceil(physical, PerTrip) ELSE 1)
       /\ s.discount \in Nat
  BY <1>6
<1>11. /\ SumOf([n \in N |-> of[n].pegado]) \in Nat /\ SumOf([n \in N |-> of[n].apoyo]) \in Nat
       /\ SumOf([n \in N |-> of[n].faldonMl]) \in Nat
  BY <1>7
<1> HIDE DEF physical, m2
<1>12. /\ DOMAIN s.of = N /\ s.of = of
       /\ s.pegado \in Nat /\ s.apoyo \in Nat /\ s.faldonMl \in Nat /\ s.flete \in Nat \ {0}
  BY <1>2, <1>9, <1>10, <1>11
<1>13. N # {} => SumOf([n \in N |-> s.of[n].physical]) > 0
  BY <1>8, <1>12 DEF physical
<1>14. /\ \A n \in N : /\ s.of[n].m2 \in Nat /\ s.of[n].pegado \in Nat /\ s.of[n].apoyo \in Nat
                       /\ s.of[n].faldonMl \in Nat /\ s.of[n].physical \in Nat
       /\ s.pegado = SumOf([n \in N |-> s.of[n].pegado]) /\ s.apoyo = SumOf([n \in N |-> s.of[n].apoyo])
       /\ s.faldonMl = SumOf([n \in N |-> s.of[n].faldonMl])
  BY <1>5, <1>10
<1> QED BY <1>3, <1>4, <1>10, <1>12, <1>13, <1>14 DEF s

-----------------------------------------------------------------------------
(* Labour *)

Jobs == {"pileta", "apoyo", "faldon"}
Kinds == Jobs \cup {"flete"}
SkuOf(s, k) == IF DOMAIN s.of \cap Sintered # {} THEN k \o "_dekton" ELSE k
QtyOf(s) == [pileta |-> s.pegado, apoyo |-> s.apoyo, faldon |-> s.faldonMl, flete |-> s.flete]
Lines(s) == [k \in Kinds |-> IF k = "flete" THEN FleteLine(Zone, s.flete) ELSE BuildingLine(k, SkuOf(s, k), QtyOf(s)[k])]
Charged(l) == LineTotal(l.kind, l.unit, l.qty)

LEMMA WithVatIsNat == ASSUME NEW base \in Nat, NEW currency PROVE WithVat(base, currency) \in Nat
<1>1. PICK n : n = base * 121 /\ n \in Nat
  OBVIOUS
<1>2. n \div 100 \in Nat /\ HalfEven(n, 100) \in Nat
  BY <1>1, HalfEvenNear
<1> QED BY <1>1, <1>2 DEF WithVat

\* The four lines a building may have, each of its kind.
LEMMA LinesAreWhole ==
    ASSUME NEW p \in Plans, NEW k \in Kinds
    PROVE  LET l == Lines(Summary(p))[k] IN l.kind = k /\ l.unit \in Nat /\ l.qty \in Nat /\ l.qty = QtyOf(Summary(p))[k]
<1> DEFINE s == Summary(p)
<1>1. s.pegado \in Nat /\ s.apoyo \in Nat /\ s.faldonMl \in Nat /\ s.flete \in Nat
  BY SummaryIsSummed
<1> HIDE DEF s
<1>2. CASE k = "flete"
  <2>1. FindFlete(Zone).price \in Nat
    <3> DEFINE z == IF Zone \in DOMAIN Zones THEN Zone ELSE Rosario
    <3>1. z \in DOMAIN Zones /\ Zones[z].base \in Nat
      BY EdificioListsAssumption
    <3>2. FindFlete(Zone).price = IF Zones[z].vat THEN Zones[z].base ELSE WithVat(Zones[z].base, "ARS")
      BY DEF FindFlete
    <3> HIDE DEF z
    <3> QED BY <3>1, <3>2, WithVatIsNat
  <2>2. Lines(s)[k] = [kind |-> "flete", qty |-> s.flete, unit |-> FindFlete(Zone).price]
    BY <1>2 DEF Lines, Kinds, FleteLine
  <2> QED BY <1>1, <1>2, <2>1, <2>2 DEF QtyOf, s
<1>3. CASE k \in Jobs
  <2> DEFINE sku == SkuOf(s, k)
  <2>1. Labor[k] \in Nat /\ Labor[k \o "_dekton"] \in Nat
    BY <1>3, EdificioListsAssumption DEF Jobs
  <2>2. Labor[sku] \in Nat
    BY <2>1 DEF SkuOf
  <2> HIDE DEF sku
  <2>3. PICK n : n = 100 * MoPrice(sku) /\ n \in Nat
    <3>1. MoPrice(sku) \in Nat
      BY <2>2, WithVatIsNat DEF MoPrice
    <3> QED BY <3>1
  <2>4. HalfEven(n, 105) \in Nat
    <3>1. n \in Nat /\ 105 \in Nat \ {0}
      BY <2>3
    <3> HIDE DEF Lines
    <3> QED BY <3>1, HalfEvenNear
  <2>5. Lines(s)[k] = [kind |-> k, qty |-> QtyOf(s)[k], unit |-> HalfEven(n, 105)]
    BY <1>3, <2>3 DEF Lines, Kinds, Jobs, BuildingLine, sku
  <2>6. QtyOf(s)[k] \in Nat
    BY <1>1, <1>3 DEF QtyOf, Jobs
  <2> QED BY <2>4, <2>5, <2>6 DEF s
<1> QED BY <1>2, <1>3 DEF Kinds

LEMMA MoIs == ASSUME NEW s PROVE BuildingMo(s, Zone) = {l \in {Lines(s)[k] : k \in Kinds} : l.qty > 0}
<1>1. /\ Lines(s)["pileta"] = BuildingLine("pileta", SkuOf(s, "pileta"), s.pegado)
      /\ Lines(s)["apoyo"] = BuildingLine("apoyo", SkuOf(s, "apoyo"), s.apoyo)
      /\ Lines(s)["faldon"] = BuildingLine("faldon", SkuOf(s, "faldon"), s.faldonMl)
      /\ Lines(s)["flete"] = FleteLine(Zone, s.flete)
  BY DEF Lines, Kinds, Jobs, QtyOf
<1>2. {Lines(s)[k] : k \in Kinds} = {Lines(s)["pileta"], Lines(s)["apoyo"], Lines(s)["faldon"], Lines(s)["flete"]}
  BY DEF Kinds, Jobs
<1> QED BY <1>1, <1>2 DEF BuildingMo, SkuOf

\* Nothing of a job costs nothing, so a line that is not there is missed by nobody.
LEMMA Nothing == ASSUME NEW k, NEW u \in Nat PROVE LineTotal(k, u, 0) = 0 /\ LineTotal(k, 0, u) = 0
<1>1. u * 0 = 0 /\ 0 * u = 0
  OBVIOUS
<1>2. HalfEven(0, 100) = 0
  BY DEF HalfEven
<1> QED BY <1>1, <1>2 DEF LineTotal

LEMMA LabourAddsUp ==
    ASSUME NEW p \in Plans
    PROVE  LET s == Summary(p)
               C(k) == Charged(Lines(s)[k])
           IN SumOver(BuildingMo(s, Zone), LAMBDA l : LineTotal(l.kind, l.unit, l.qty))
                = C("pileta") + (C("apoyo") + (C("faldon") + C("flete")))
<1> DEFINE s == Summary(p)
           mo == BuildingMo(s, Zone)
           lines == Lines(s)
           allLines == {lines[k] : k \in Kinds}
           f == [l \in allLines |-> Charged(l)]
           g == [k \in Kinds |-> Charged(lines[k])]
<1>1. \A k \in Kinds : lines[k].kind = k /\ lines[k].unit \in Nat /\ lines[k].qty \in Nat
  BY LinesAreWhole
<1>2. mo = {l \in allLines : l.qty > 0}
  BY MoIs
<1>3. \A l \in allLines : l.unit \in Nat /\ l.qty \in Nat
  <2> HIDE DEF lines
  <2> QED BY <1>1
<1>4. IsFiniteSet(Kinds)
  <2>1. Kinds = (({"pileta"} \cup {"apoyo"}) \cup {"faldon"}) \cup {"flete"}
    BY DEF Kinds, Jobs
  <2> QED BY <2>1, FS_Singleton, FS_Union
<1>5. lines \in Bijection(Kinds, allLines)
  <2>1. DOMAIN lines = Kinds /\ lines = [k \in Kinds |-> lines[k]]
    BY DEF Lines
  <2> HIDE DEF lines
  <2>2. lines \in [Kinds -> allLines]
    BY <2>1
  <2>3. \A j, k \in Kinds : lines[j] = lines[k] => j = k
    BY <1>1
  <2> QED BY <2>2, <2>3 DEF Bijection, Injection, Surjection, IsInjective
<1>6. IsFiniteSet(allLines)
  <2> HIDE DEF allLines, lines
  <2> QED BY <1>4, <1>5, FS_Bijection DEF ExistsBijection
<1> HIDE DEF lines, mo, s
<1>7. ASSUME NEW l \in allLines
      PROVE  f[l] \in Int /\ f[l] = Charged(l) /\ (l \notin mo => f[l] = 0)
  <2>1. l.unit \in Nat /\ l.qty \in Nat
    BY <1>3
  <2>2. f[l] = Charged(l)
    OBVIOUS
  <2>3. PICK u, q : u = l.unit /\ q = l.qty /\ u \in Nat /\ q \in Nat
    BY <2>1
  <2>4. Charged(l) \in Nat
    <3>1. PICK n : n = u * q /\ n \in Nat
      BY <2>3
    <3>2. HalfEven(n, 100) \in Nat
      BY <3>1, HalfEvenNear
    <3> QED BY <2>3, <3>1, <3>2 DEF Charged, LineTotal
  <2>5. ASSUME l \notin mo PROVE Charged(l) = 0
    <3>1. q = 0
      BY <1>2, <2>3, <2>5
    <3> QED BY <2>3, <3>1, Nothing DEF Charged
  <2> QED BY <2>2, <2>4, <2>5
<1>8. \A k \in Kinds : g[k] = f[lines[k]] /\ g[k] \in Int /\ lines[k] \in allLines
  <2>1. ASSUME NEW k \in Kinds PROVE g[k] = f[lines[k]] /\ g[k] \in Int /\ lines[k] \in allLines
    <3>1. lines[k] \in allLines /\ g[k] = Charged(lines[k])
      OBVIOUS
    <3> HIDE DEF f, g, allLines
    <3> QED BY <1>7, <3>1
  <2> QED BY <2>1
<1> HIDE DEF f, g, allLines
<1>9. SumOf(Over(g, Kinds)) = SumOf(Over(f, allLines))
  <2>1. (\A l \in allLines : f[l] \in Int) /\ (\A k \in Kinds : g[k] = f[lines[k]])
    BY <1>7, <1>8
  <2> QED BY <1>4, <1>5, <1>6, <2>1, SumRenamed
<1>10. SumOf(Over(f, allLines)) = SumOf(Over(f, mo))
  <2>1. mo \in SUBSET allLines
    BY <1>2
  <2>2. \A l \in mo : f[l] \in Int
    BY <1>7, <2>1
  <2>3. \A l \in allLines : f[l] = IF l \in mo THEN f[l] ELSE 0
    BY <1>7
  <2> QED BY <1>6, <2>1, <2>2, <2>3, SumOfKept
<1>11. SumOver(mo, LAMBDA l : LineTotal(l.kind, l.unit, l.qty)) = SumOf(Over(f, mo))
  <2>1. mo \subseteq allLines
    BY <1>2
  <2>2. Over(f, mo) = [l \in mo |-> LineTotal(l.kind, l.unit, l.qty)]
    BY <1>7, <2>1 DEF Over, Charged
  <2> QED BY <2>2 DEF SumOver
<1>12. SumOf(Over(g, Kinds)) = g["pileta"] + (g["apoyo"] + (g["faldon"] + g["flete"]))
  <2>1. \A k \in Kinds : g[k] \in Int
    BY <1>8
  <2>2. ASSUME NEW A \in SUBSET Kinds, NEW k \in Kinds, k \notin A
        PROVE  SumOf(Over(g, A \cup {k})) = g[k] + SumOf(Over(g, A))
    BY <1>4, <2>1, <2>2, SumGrows
  <2>3. SumOf(Over(g, {"flete"})) = g["flete"] + SumOf(Over(g, {}))
    <3>1. {} \in SUBSET Kinds /\ "flete" \in Kinds /\ {} \cup {"flete"} = {"flete"}
      BY DEF Kinds
    <3> QED BY <2>2, <3>1
  <2>4. SumOf(Over(g, {"flete", "faldon"})) = g["faldon"] + SumOf(Over(g, {"flete"}))
    <3>1. {"flete"} \in SUBSET Kinds /\ "faldon" \in Kinds /\ "faldon" \notin {"flete"}
          /\ {"flete"} \cup {"faldon"} = {"flete", "faldon"}
      BY DEF Kinds, Jobs
    <3> QED BY <2>2, <3>1
  <2>5. SumOf(Over(g, {"flete", "faldon", "apoyo"})) = g["apoyo"] + SumOf(Over(g, {"flete", "faldon"}))
    <3>1. {"flete", "faldon"} \in SUBSET Kinds /\ "apoyo" \in Kinds /\ "apoyo" \notin {"flete", "faldon"}
          /\ {"flete", "faldon"} \cup {"apoyo"} = {"flete", "faldon", "apoyo"}
      BY DEF Kinds, Jobs
    <3> QED BY <2>2, <3>1
  <2>6. SumOf(Over(g, Kinds)) = g["pileta"] + SumOf(Over(g, {"flete", "faldon", "apoyo"}))
    <3>1. {"flete", "faldon", "apoyo"} \in SUBSET Kinds /\ "pileta" \in Kinds
          /\ "pileta" \notin {"flete", "faldon", "apoyo"}
          /\ {"flete", "faldon", "apoyo"} \cup {"pileta"} = Kinds
      BY DEF Kinds, Jobs
    <3> QED BY <2>2, <3>1
  <2>7. SumOf(Over(g, {})) = 0
    BY SumOfNothing
  <2>8. g["flete"] + 0 = g["flete"]
    BY <2>1 DEF Kinds
  <2> QED BY <2>3, <2>4, <2>5, <2>6, <2>7, <2>8
<1>13. \A k \in Kinds : g[k] = Charged(lines[k])
  BY DEF g
<1>14. g["pileta"] = Charged(lines["pileta"]) /\ g["apoyo"] = Charged(lines["apoyo"])
       /\ g["faldon"] = Charged(lines["faldon"]) /\ g["flete"] = Charged(lines["flete"])
  BY <1>13 DEF Kinds, Jobs
<1> QED BY <1>9, <1>10, <1>11, <1>12, <1>14 DEF mo, lines, s

-----------------------------------------------------------------------------
(* Documents *)

Trips(s) == DistributeFlete(s.flete, [m \in DOMAIN s.of |-> s.of[m].physical])
UnitOf(mo, kind) ==
  LET of == {l \in mo : l.kind = kind} IN IF of = {} THEN 0 ELSE (CHOOSE l \in of : TRUE).unit

\* The document of a material charges a job at the price of its line.
LEMMA UnitsAreCharged ==
    ASSUME NEW p \in Plans, NEW k \in Kinds
    PROVE  LET s == Summary(p)
               u == UnitOf(BuildingMo(s, Zone), k)
           IN u \in Nat /\ LineTotal(k, u, QtyOf(s)[k]) = Charged(Lines(s)[k])
<1> DEFINE s == Summary(p)
           mo == BuildingMo(s, Zone)
           lines == Lines(s)
           of == {l \in mo : l.kind = k}
           u == UnitOf(mo, k)
<1>1. \A j \in Kinds : lines[j].kind = j /\ lines[j].unit \in Nat /\ lines[j].qty \in Nat /\ lines[j].qty = QtyOf(s)[j]
  BY LinesAreWhole
<1>2. mo = {l \in {lines[j] : j \in Kinds} : l.qty > 0}
  BY MoIs
<1>3. u = IF of = {} THEN 0 ELSE (CHOOSE l \in of : TRUE).unit
  BY DEF UnitOf
<1> HIDE DEF s, mo, lines, u
<1>4. CASE lines[k].qty > 0
  <2>1. of = {lines[k]}
    BY <1>1, <1>2, <1>4
  <2> HIDE DEF of
  <2>2. (CHOOSE l \in of : TRUE) = lines[k]
    BY <2>1
  <2>3. u = lines[k].unit
    BY <1>3, <2>1, <2>2
  <2> QED BY <1>1, <2>3 DEF Charged, s, mo, lines, u
<1>5. CASE lines[k].qty = 0
  <2>1. of = {}
    BY <1>1, <1>2, <1>5
  <2>2. u = 0
    BY <1>3, <2>1
  <2>3. LineTotal(k, u, 0) = 0 /\ LineTotal(k, lines[k].unit, 0) = 0
    BY <1>1, <2>2, Nothing
  <2>4. Charged(lines[k]) = 0 /\ LineTotal(k, u, QtyOf(s)[k]) = 0
    BY <1>1, <1>5, <2>3 DEF Charged
  <2> QED BY <2>2, <2>4 DEF s, mo, lines, u
<1> QED BY <1>1, <1>4, <1>5

\* What a document and the building charge of a material, and of the jobs.
LEMMA ContextIs ==
    ASSUME NEW p \in Plans, NEW n \in PricedOf(p)
    PROVE  LET s == Summary(p)
               mo == BuildingMo(s, Zone)
               r == PricedMaterial(s, n)
           IN /\ Ars(p)[n] = UnitOf(mo, "pileta") * s.of[n].pegado + UnitOf(mo, "apoyo") * s.of[n].apoyo
                             + LineTotal("faldon", UnitOf(mo, "faldon"), s.of[n].faldonMl)
                             + UnitOf(mo, "flete") * Trips(s)[n]
                             + (IF r.currency = "ARS" THEN r.net ELSE 0)
              /\ Usd(p)[n] = IF r.currency = "USD" THEN r.net ELSE 0
              /\ r.net \in Int
<1> DEFINE s == Summary(p)
           p2 == Paso2(s, Zone)
           mo == BuildingMo(s, Zone)
           r == PricedMaterial(s, n)
<1>1. n \in MaterialsOf(p) /\ Resolves[n] # None /\ n \in Names /\ Resolves[n] \in Materials
  BY PricedSku DEF PricedOf
<1>2. n \in DOMAIN s.of /\ s.of[n].m2 \in Nat /\ s.discount \in Nat
  BY <1>1, SummaryIsSummed
<1> HIDE DEF s
<1>3. DOMAIN p2.results = DOMAIN s.of /\ p2.results[n] = r /\ p2.mo = mo
  BY <1>1, <1>2 DEF Paso2
<1>4. r.ok
  BY DEF PricedMaterial
<1> HIDE DEF p2, r, mo
<1>5. Context(p)[n] = DocContext(s, p2, n)
  BY <1>2, <1>3, <1>4 DEF DocContexts, Context, s, p2
<1>6. /\ DocContext(s, p2, n).ars =
           UnitOf(mo, "pileta") * s.of[n].pegado + UnitOf(mo, "apoyo") * s.of[n].apoyo
           + LineTotal("faldon", UnitOf(mo, "faldon"), s.of[n].faldonMl)
           + UnitOf(mo, "flete") * Trips(s)[n]
           + (IF r.currency = "ARS" THEN r.net ELSE 0)
      /\ DocContext(s, p2, n).usd = IF r.currency = "USD" THEN r.net ELSE 0
  BY <1>3 DEF DocContext, UnitOf, Trips
<1>7. r.net \in Int
  <2> DEFINE unit == WithVat(Catalog[Resolves[n]].base, Catalog[Resolves[n]].currency)
             total == HalfEven(s.of[n].m2 * unit, Metre)
             discount == HalfEven(total * s.discount, 100)
  <2>1. r.net = total - discount
    BY DEF PricedMaterial, r
  <2>2. unit \in Nat
    BY <1>1, WithVatIsNat, CatalogAssumption
  <2>3. total \in Nat
    <3>1. PICK x : x = s.of[n].m2 * unit /\ x \in Nat
      <4> HIDE DEF unit
      <4> QED BY <1>2, <2>2
    <3>2. HalfEven(x, Metre) \in Nat
      BY <3>1, HalfEvenNear DEF Metre
    <3> QED BY <3>1, <3>2
  <2> HIDE DEF total
  <2>4. discount \in Nat
    <3>1. PICK x : x = total * s.discount /\ x \in Nat
      BY <1>2, <2>3
    <3>2. HalfEven(x, 100) \in Nat
      BY <3>1, HalfEvenNear
    <3> QED BY <3>1, <3>2
  <2> HIDE DEF discount
  <2> QED BY <2>1, <2>3, <2>4
<1>8. Ars(p)[n] = Context(p)[n].ars /\ Usd(p)[n] = Context(p)[n].usd
  BY DEF Ars, Usd
<1> QED BY <1>5, <1>6, <1>7, <1>8 DEF s, mo, r

LEMMA TotalsAre ==
    ASSUME NEW p \in Plans, PricedOf(p) = MaterialsOf(p)
    PROVE  LET s == Summary(p)
               N == MaterialsOf(p)
               Net(c) == SumOf([n \in {m \in N : PricedMaterial(s, m).currency = c} |-> PricedMaterial(s, n).net])
               labour == SumOver(BuildingMo(s, Zone), LAMBDA l : LineTotal(l.kind, l.unit, l.qty))
           IN TotalsOf(p).ars = Net("ARS") + labour /\ TotalsOf(p).usd = Net("USD")
<1> DEFINE s == Summary(p)
           N == MaterialsOf(p)
           p2 == Paso2(s, Zone)
           results == [n \in DOMAIN s.of |-> IF Resolves[n] = None THEN NotPriced ELSE PricedMaterial(s, n)]
           priced == {n \in DOMAIN s.of : results[n].ok}
           Of(c) == {n \in priced : results[n].currency = c}
           labour == SumOver(BuildingMo(s, Zone), LAMBDA l : LineTotal(l.kind, l.unit, l.qty))
<1>1. DOMAIN s.of = N /\ \A n \in N : Resolves[n] # None
  BY SummaryIsSummed DEF PricedOf
<1> HIDE DEF s, N
<1>2. p2.ars = SumOver(Of("ARS"), LAMBDA n : results[n].net) + labour
      /\ p2.usd = SumOver(Of("USD"), LAMBDA n : results[n].net)
  BY DEF Paso2
<1>3. \A n \in N : results[n] = PricedMaterial(s, n) /\ results[n].ok
  BY <1>1 DEF PricedMaterial
<1>4. priced = N
  BY <1>1, <1>3
<1>5. ASSUME NEW c PROVE SumOver(Of(c), LAMBDA n : results[n].net)
                           = SumOf([n \in {m \in N : PricedMaterial(s, m).currency = c} |-> PricedMaterial(s, n).net])
  <2> HIDE DEF results, priced
  <2>1. Of(c) = {m \in N : PricedMaterial(s, m).currency = c}
    BY <1>3, <1>4
  <2> HIDE DEF Of
  <2>2. [n \in Of(c) |-> results[n].net] = [n \in {m \in N : PricedMaterial(s, m).currency = c} |-> PricedMaterial(s, n).net]
    BY <1>3, <2>1
  <2> QED BY <2>2 DEF SumOver
<1>6. TotalsOf(p).ars = p2.ars /\ TotalsOf(p).usd = p2.usd
  BY DEF TotalsOf, s
<1> HIDE DEF p2, labour, results, Of
<1>7. TotalsOf(p).ars = SumOf([n \in {m \in N : PricedMaterial(s, m).currency = "ARS"} |-> PricedMaterial(s, n).net]) + labour
  BY <1>2, <1>5, <1>6
<1>8. TotalsOf(p).usd = SumOf([n \in {m \in N : PricedMaterial(s, m).currency = "USD"} |-> PricedMaterial(s, n).net])
  BY <1>2, <1>5, <1>6
<1> QED BY <1>7, <1>8 DEF s, N, labour

\* The documents of a building's materials charge what its quote charges.
LEMMA DocumentsAddUp ==
    ASSUME NEW p \in Plans, PricedOf(p) = MaterialsOf(p), MaterialsOf(p) # {}
    PROVE  LET N == PricedOf(p)
           IN /\ \A n \in N : Ars(p)[n] \in Int /\ Usd(p)[n] \in Int
              /\ Distance(SumOf(Over(Ars(p), N)), TotalsOf(p).ars) <= Cardinality(N)
              /\ SumOf(Over(Usd(p), N)) = TotalsOf(p).usd
<1> DEFINE N == MaterialsOf(p)
           s == Summary(p)
           mo == BuildingMo(s, Zone)
           Unit(k) == UnitOf(mo, k)
           C(k) == Charged(Lines(s)[k])
           net == [n \in N |-> PricedMaterial(s, n).net]
           In(c) == {n \in N : PricedMaterial(s, n).currency = c}
           own(c) == [n \in N |-> IF PricedMaterial(s, n).currency = c THEN net[n] ELSE 0]
           pegado == [n \in N |-> s.of[n].pegado]
           apoyo == [n \in N |-> s.of[n].apoyo]
           ml == [n \in N |-> s.of[n].faldonMl]
           trips == Trips(s)
           a == [n \in N |-> Unit("pileta") * pegado[n]]
           b == [n \in N |-> Unit("apoyo") * apoyo[n]]
           skirt == [n \in N |-> Unit("faldon") * ml[n]]
           c == [n \in N |-> HalfEven(skirt[n], 100)]
           d == [n \in N |-> Unit("flete") * trips[n]]
           e == own("ARS")
<1>1. /\ DOMAIN s.of = N /\ N \in SUBSET Names /\ IsFiniteSet(N)
      /\ s.pegado = SumOf(Over(pegado, N)) /\ s.apoyo = SumOf(Over(apoyo, N)) /\ s.faldonMl = SumOf(Over(ml, N))
      /\ s.pegado \in Nat /\ s.apoyo \in Nat /\ s.faldonMl \in Nat /\ s.flete \in Nat \ {0}
      /\ \A n \in N : pegado[n] \in Nat /\ apoyo[n] \in Nat /\ ml[n] \in Nat
  BY SummaryIsSummed DEF Over
<1>2. DOMAIN trips = N /\ (\A n \in N : trips[n] \in Nat) /\ SumOf(Over(trips, N)) = s.flete
  <2> DEFINE counts == [m \in DOMAIN s.of |-> s.of[m].physical]
  <2>1. DOMAIN counts = N /\ \A n \in N : counts[n] \in Nat
    BY <1>1, SummaryIsSummed
  <2>2. SumOf(Over(counts, N)) > 0
    <3>1. SumOf([n \in N |-> s.of[n].physical]) > 0
      BY SummaryIsSummed
    <3>2. Over(counts, N) = [n \in N |-> s.of[n].physical]
      BY <1>1 DEF Over
    <3> QED BY <3>1, <3>2
  <2>3. trips = DistributeFlete(s.flete, counts)
    BY DEF Trips
  <2> HIDE DEF counts, trips, s, N
  <2>4. N # {}
    BY DEF N
  <2> QED BY <1>1, <2>1, <2>2, <2>3, <2>4, TripsAreShared
<1>3. \A k \in Kinds : Unit(k) \in Nat /\ LineTotal(k, Unit(k), QtyOf(s)[k]) = C(k)
  BY UnitsAreCharged
<1>4. /\ Unit("pileta") \in Nat /\ Unit("apoyo") \in Nat /\ Unit("faldon") \in Nat /\ Unit("flete") \in Nat
      /\ Unit("pileta") * s.pegado = C("pileta") /\ Unit("apoyo") * s.apoyo = C("apoyo")
      /\ HalfEven(Unit("faldon") * s.faldonMl, 100) = C("faldon") /\ Unit("flete") * s.flete = C("flete")
  <2> HIDE DEF s, mo, C
  <2> QED BY <1>3 DEF Kinds, Jobs, QtyOf, LineTotal
<1>5. \A n \in N : net[n] \in Int /\ e[n] \in Int /\ own("USD")[n] \in Int
  <2>1. \A n \in N : PricedMaterial(s, n).net \in Int
    BY ContextIs
  <2> QED BY <2>1
<1>6. \A n \in N : /\ Ars(p)[n] = a[n] + b[n] + c[n] + d[n] + e[n]
                   /\ Usd(p)[n] = own("USD")[n]
  <2>1. ASSUME NEW n \in N
        PROVE  /\ Ars(p)[n] = a[n] + b[n] + c[n] + d[n] + e[n]
               /\ Usd(p)[n] = own("USD")[n]
    <3>1. /\ Ars(p)[n] = Unit("pileta") * s.of[n].pegado + Unit("apoyo") * s.of[n].apoyo
                         + LineTotal("faldon", Unit("faldon"), s.of[n].faldonMl)
                         + Unit("flete") * trips[n]
                         + (IF PricedMaterial(s, n).currency = "ARS" THEN PricedMaterial(s, n).net ELSE 0)
          /\ Usd(p)[n] = IF PricedMaterial(s, n).currency = "USD" THEN PricedMaterial(s, n).net ELSE 0
      BY ContextIs
    <3>2. /\ a[n] = Unit("pileta") * s.of[n].pegado /\ b[n] = Unit("apoyo") * s.of[n].apoyo
          /\ c[n] = LineTotal("faldon", Unit("faldon"), s.of[n].faldonMl) /\ d[n] = Unit("flete") * trips[n]
          /\ e[n] = IF PricedMaterial(s, n).currency = "ARS" THEN PricedMaterial(s, n).net ELSE 0
          /\ own("USD")[n] = IF PricedMaterial(s, n).currency = "USD" THEN PricedMaterial(s, n).net ELSE 0
      BY DEF LineTotal
    <3> HIDE DEF a, b, c, d, e, own, s, mo, trips
    <3> QED BY <3>1, <3>2
  <2> QED BY <2>1
<1>7. ASSUME NEW cur \in {"ARS", "USD"}
      PROVE  SumOf(Over(own(cur), N)) = SumOf([n \in {m \in N : PricedMaterial(s, m).currency = cur} |-> PricedMaterial(s, n).net])
             /\ SumOf(Over(own(cur), N)) \in Int
  <2> DEFINE A == In(cur)
             h == own(cur)
  <2>1. A \in SUBSET N /\ \A n \in N : h[n] = IF n \in A THEN net[n] ELSE 0
    OBVIOUS
  <2>2. \A n \in A : net[n] \in Int
    BY <1>5
  <2>3. Over(net, A) = [n \in {m \in N : PricedMaterial(s, m).currency = cur} |-> PricedMaterial(s, n).net]
    BY DEF Over
  <2> HIDE DEF A, h, net
  <2>4. SumOf(Over(h, N)) = SumOf(Over(net, A))
    BY <1>1, <2>1, <2>2, SumOfKept
  <2>5. \A n \in N : h[n] \in Int
    BY <2>1, <2>2
  <2>6. SumOf(Over(h, N)) \in Int
    BY <1>1, <2>5, SumIsInt
  <2> QED BY <2>3, <2>4, <2>6 DEF h
<1>8. /\ TotalsOf(p).ars = SumOf(Over(e, N)) + (C("pileta") + (C("apoyo") + (C("faldon") + C("flete"))))
      /\ TotalsOf(p).usd = SumOf(Over(own("USD"), N)) /\ SumOf(Over(e, N)) \in Int
  <2> DEFINE Net(cur) == SumOf([n \in {m \in N : PricedMaterial(s, m).currency = cur} |-> PricedMaterial(s, n).net])
             labour == SumOver(BuildingMo(s, Zone), LAMBDA l : LineTotal(l.kind, l.unit, l.qty))
  <2>1. TotalsOf(p).ars = Net("ARS") + labour /\ TotalsOf(p).usd = Net("USD")
    BY TotalsAre
  <2>2. labour = C("pileta") + (C("apoyo") + (C("faldon") + C("flete")))
    BY LabourAddsUp
  <2>3. SumOf(Over(e, N)) = Net("ARS") /\ SumOf(Over(own("USD"), N)) = Net("USD") /\ SumOf(Over(e, N)) \in Int
    BY <1>7
  <2> HIDE DEF Net, labour, own, C
  <2> QED BY <2>1, <2>2, <2>3
<1> HIDE DEF N, s, mo, Unit, C, net, In, own, pegado, apoyo, ml, trips, e
<1>9. SumOf(Over(a, N)) = C("pileta")
  <2>1. \A n \in N : pegado[n] \in Int /\ a[n] = Unit("pileta") * pegado[n]
    BY <1>1
  <2>2. Unit("pileta") \in Int
    BY <1>4
  <2> HIDE DEF a
  <2>3. SumOf(Over(a, N)) = Unit("pileta") * SumOf(Over(pegado, N))
    BY <1>1, <2>1, <2>2, SumIsScaled
  <2> QED BY <1>1, <1>4, <2>3
<1>10. SumOf(Over(b, N)) = C("apoyo")
  <2>1. \A n \in N : apoyo[n] \in Int /\ b[n] = Unit("apoyo") * apoyo[n]
    BY <1>1
  <2>2. Unit("apoyo") \in Int
    BY <1>4
  <2> HIDE DEF b
  <2>3. SumOf(Over(b, N)) = Unit("apoyo") * SumOf(Over(apoyo, N))
    BY <1>1, <2>1, <2>2, SumIsScaled
  <2> QED BY <1>1, <1>4, <2>3
<1>11. SumOf(Over(d, N)) = C("flete")
  <2>1. \A n \in N : trips[n] \in Int /\ d[n] = Unit("flete") * trips[n]
    BY <1>2
  <2>2. Unit("flete") \in Int
    BY <1>4
  <2> HIDE DEF d
  <2>3. SumOf(Over(d, N)) = Unit("flete") * SumOf(Over(trips, N))
    BY <1>1, <2>1, <2>2, SumIsScaled
  <2> QED BY <1>2, <1>4, <2>3
<1>12. SumOf(Over(skirt, N)) = Unit("faldon") * s.faldonMl
  <2>1. \A n \in N : ml[n] \in Int /\ skirt[n] = Unit("faldon") * ml[n]
    BY <1>1
  <2>2. Unit("faldon") \in Int
    BY <1>4
  <2> HIDE DEF skirt
  <2>3. SumOf(Over(skirt, N)) = Unit("faldon") * SumOf(Over(ml, N))
    BY <1>1, <2>1, <2>2, SumIsScaled
  <2> QED BY <1>1, <2>3
<1>13. \A n \in N : a[n] \in Int /\ b[n] \in Int /\ d[n] \in Int /\ skirt[n] \in Nat
  <2>1. ASSUME NEW n \in N PROVE a[n] \in Int /\ b[n] \in Int /\ d[n] \in Int /\ skirt[n] \in Nat
    <3>1. /\ pegado[n] \in Nat /\ apoyo[n] \in Nat /\ ml[n] \in Nat /\ trips[n] \in Nat
          /\ Unit("pileta") \in Nat /\ Unit("apoyo") \in Nat /\ Unit("faldon") \in Nat /\ Unit("flete") \in Nat
      BY <1>1, <1>2, <1>4
    <3> QED BY <3>1
  <2> QED BY <2>1
<1>14. \A n \in N : skirt[n] \in Nat /\ c[n] = HalfEven(skirt[n], 100)
  BY <1>13
<1> HIDE DEF skirt, a, b, c, d
<1>15. \A n \in N : c[n] \in Nat
  <2>1. ASSUME NEW n \in N PROVE HalfEven(skirt[n], 100) \in Nat
    <3>1. PICK x : x = skirt[n] /\ x \in Nat
      BY <1>14
    <3>2. HalfEven(x, 100) \in Nat
      BY <3>1, HalfEvenNear
    <3> QED BY <3>1, <3>2
  <2> QED BY <1>14, <2>1
<1>16. Distance(SumOf(Over(c, N)), C("faldon")) <= Cardinality(N)
  <2>1. N # {}
    BY DEF N
  <2>2. Distance(SumOf(Over(c, N)), HalfEven(SumOf(Over(skirt, N)), 100)) <= Cardinality(N)
    BY <1>1, <1>14, <2>1, RoundedApart
  <2> QED BY <1>4, <1>12, <2>2
<1>17. SumOf(Over(Ars(p), N)) = C("pileta") + C("apoyo") + SumOf(Over(c, N)) + C("flete") + SumOf(Over(e, N))
  <2>1. \A n \in N : /\ a[n] \in Int /\ b[n] \in Int /\ c[n] \in Int /\ d[n] \in Int /\ e[n] \in Int
                     /\ Ars(p)[n] = a[n] + b[n] + c[n] + d[n] + e[n]
    BY <1>5, <1>6, <1>13, <1>15
  <2>2. SumOf(Over(Ars(p), N)) = SumOf(Over(a, N)) + SumOf(Over(b, N)) + SumOf(Over(c, N))
                                   + SumOf(Over(d, N)) + SumOf(Over(e, N))
    BY <1>1, <2>1, FiveSums
  <2> QED BY <1>9, <1>10, <1>11, <2>2
<1>18. C("pileta") \in Int /\ C("apoyo") \in Int /\ C("flete") \in Int /\ C("faldon") \in Int
  <2>1. Unit("pileta") * s.pegado \in Int /\ Unit("apoyo") * s.apoyo \in Int /\ Unit("flete") * s.flete \in Int
    BY <1>1, <1>4
  <2>2. PICK x : x = Unit("faldon") * s.faldonMl /\ x \in Nat
    BY <1>1, <1>4
  <2>3. HalfEven(x, 100) \in Nat
    BY <2>2, HalfEvenNear
  <2> QED BY <1>4, <2>1, <2>2, <2>3
<1>19. SumOf(Over(c, N)) \in Int
  BY <1>1, <1>15, SumIsInt
<1>20. Distance(SumOf(Over(Ars(p), N)), TotalsOf(p).ars) <= Cardinality(N)
  <2>1. PICK x, y, z, w : /\ x = SumOf(Over(c, N)) /\ y = C("faldon") /\ x \in Int /\ y \in Int
                          /\ z = SumOf(Over(e, N)) /\ w = C("pileta") + C("apoyo") + C("flete") /\ z \in Int /\ w \in Int
    BY <1>8, <1>18, <1>19
  <2>2. SumOf(Over(Ars(p), N)) = x + (z + w) /\ TotalsOf(p).ars = y + (z + w)
    BY <1>8, <1>17, <1>18, <2>1
  <2>3. Distance(x + (z + w), y + (z + w)) = Distance(x, y)
    BY <2>1 DEF Distance
  <2> QED BY <1>16, <2>1, <2>2, <2>3
<1>21. SumOf(Over(Usd(p), N)) = TotalsOf(p).usd
  <2>1. Over(Usd(p), N) = Over(own("USD"), N)
    BY <1>6 DEF Over
  <2> QED BY <1>8, <2>1
<1>22. \A n \in N : Ars(p)[n] \in Int /\ Usd(p)[n] \in Int
  BY <1>5, <1>6, <1>13, <1>15
<1> QED BY <1>20, <1>21, <1>22 DEF N

-----------------------------------------------------------------------------
(* Breakdowns *)

LEMMA NoGeometries == Geometries(<<>>, Slab) = <<>>
<1>1. DOMAIN <<>> = {}
  OBVIOUS
<1>2. Geometries(<<>>, Slab) = [i \in {} |-> Geometry(<<>>[i], Slab)]
  BY <1>1 DEF Geometries
<1> QED BY <1>1, <1>2

\* The merge of a second reading turns no L over.
LEMMA MergeKeepsL ==
    ASSUME NEW x, IsTypology(x), NEW second, Inverted(MergeSecondPass(x, second))
    PROVE  Inverted(x)
<1> DEFINE merged == [x EXCEPT !.shape = second.shape, !.segs = second.segs, !.depth = second.depth,
                               !.method = second.method]
<1>1. merged.segs = second.segs
  BY DEF IsTypology
<1>2. [merged EXCEPT !.segs = x.segs, !.method = "inferred"].segs = x.segs
  BY DEF IsTypology
<1> QED BY <1>1, <1>2 DEF MergeSecondPass, Inverted

LEMMA ReadingKeepsLs ==
    ASSUME NEW tips \in TipReadings, NEW again
    PROVE  KeepsLs(SecondPass(tips, LAMBDA x : again))
<1> DEFINE new == SecondPass(tips, LAMBDA x : again)
<1>1. DOMAIN new = DOMAIN tips /\ \A i \in DOMAIN tips : new[i] \in {tips[i], MergeSecondPass(tips[i], again)}
  BY DEF SecondPass
<1>2. \A i \in DOMAIN tips : IsTypology(tips[i]) /\ tips \in Seq(Range(tips))
  BY BuildingAssumption
<1>3. ASSUME NEW i \in DOMAIN new, Inverted(new[i]) PROVE Inverted(tips[i])
  BY <1>1, <1>2, <1>3, MergeKeepsL
<1>4. Len(tips) = Len(new)
  <2>1. Len(tips) \in Nat /\ DOMAIN tips = 1..Len(tips)
    BY BuildingAssumption, LenProperties
  <2>2. DOMAIN new = 1..Len(tips) /\ new = [i \in 1..Len(tips) |-> new[i]]
    BY <1>1, <2>1 DEF SecondPass
  <2> HIDE DEF new
  <2> QED BY <2>1, <2>2
<1> QED BY <1>3, <1>4 DEF KeepsLs

LEMMA EmptyBreakdown ==
    /\ Breakdown(NoBreakdown)
    /\ \A p \in Plans : Breakdown(Review(p))
<1>1. Breakdown(NoBreakdown)
  BY NoGeometries, BuildingAssumption DEF Breakdown, IsBreakdown, NoBreakdown, Steps
<1>2. ASSUME NEW p \in Plans PROVE Breakdown(Review(p))
  <2> DEFINE r == Review(p)
  <2>1. IsBreakdown(r)
    BY DEF IsBreakdown, NoBreakdown, Review
  <2>2. r.step = "step1_review" /\ r.plan = p /\ r.paso2 = None /\ r.tips = <<>> /\ r.geo = <<>>
    BY DEF NoBreakdown, Review
  <2> HIDE DEF r
  <2>3. Breakdown(r)
    BY <2>1, <2>2, NoGeometries, BuildingAssumption DEF Breakdown, Steps
  <2> QED BY <2>3 DEF r
<1> QED BY <1>1, <1>2

\* Steps a breakdown takes without a new drawing, prices or typologies.
Moved(c, b) ==
  /\ IsBreakdown(c)
  /\ c.plan = b.plan /\ c.paso2 = b.paso2 /\ c.tips = b.tips /\ c.geo = b.geo

LEMMA StepTaken ==
    ASSUME NEW b, Breakdown(b), b.plan \in Plans, NEW c, Moved(c, b),
           c.step \in Steps \ {"page_1_confirm"},
           c.step \in {"step2_quote", "awaiting_client_name"} => b.paso2.plan = b.plan
    PROVE  Breakdown(c)
BY BuildingAssumption DEF Breakdown, Moved

-----------------------------------------------------------------------------
(* Turns *)

LEMMA IdleIsOK == TurnOK(Idle) /\ ~Printing(Idle)
BY DEF TurnOK, Printing, Idle

\* What one turn does to the turns, and to who is known to write documents.
LEMMA TurnTaken ==
    ASSUME IInv, NEW t \in Tabs, NEW what, Turn(t, what), TurnOK(what)
    PROVE  /\ TurnsOK'
           /\ turn'[t] = what /\ \A u \in Tabs \ {t} : turn'[u] = turn[u]
<1>1. turn' = [turn EXCEPT ![t] = what] /\ turn = [u \in Tabs |-> turn[u]]
  BY DEF Turn, IInv, TurnsOK
<1>2. turn' = [u \in Tabs |-> turn'[u]] /\ turn'[t] = what /\ \A u \in Tabs \ {t} : turn'[u] = turn[u]
  BY <1>1
<1> QED BY <1>2 DEF IInv, TurnsOK

LEMMA ClientStays ==
    ASSUME IInv, NEW t \in Tabs, NEW what, Turn(t, what), TurnOK(what), UNCHANGED files,
           row.client # None => row'.client # None,
           Printing(what) => row'.client # None
    PROVE  ClientKnown'
BY TurnTaken DEF IInv, ClientKnown

\* A turn that ends, or goes on, without a trace.
LEMMA OnlyTurn ==
    ASSUME IInv, NEW t \in Tabs, NEW what, Turn(t, what), TurnOK(what),
           Printing(what) => row.client # None,
           UNCHANGED <<row, bd, children, files, disk, sent>>
    PROVE  IInv'
<1>1. TurnsOK' /\ ClientKnown'
  BY TurnTaken, ClientStays
<1> QED BY <1>1 DEF IInv, RowOK, ChildrenOK, FilesOK

\* A turn that ends with another breakdown.
LEMMA OnlyBreakdown ==
    ASSUME IInv, NEW t \in Tabs, Turn(t, Idle), Breakdown(bd'), RowOK',
           row'.client = row.client,
           UNCHANGED <<children, files, sent>>
    PROVE  IInv'
<1>1. TurnsOK' /\ ClientKnown'
  BY IdleIsOK, TurnTaken, ClientStays
<1> QED BY <1>1 DEF IInv, ChildrenOK, FilesOK

-----------------------------------------------------------------------------
(* Steps *)

LEMMA Sends ==
    ASSUME IInv, NEW t \in Tabs, NEW m \in Messages, NEW upload \in Plans \cup {None}, Send(t, m, upload)
    PROVE  IInv'
<1> DEFINE has == upload # None \/ (disk /\ m.says # "trigger")
           plan == IF upload # None THEN upload ELSE row.plan
<1>1. plan \in Plans \cup {None} /\ (has \/ disk => plan \in Plans)
  BY BuildingAssumption DEF IInv, RowOK
<1>2. PICK what : Turn(t, what) /\ TurnOK(what) /\ ~Printing(what)
  <2>1. PICK what \in {Idle, [kind |-> "read", plan |-> plan, words |-> m.words, new |-> upload # None],
                       [kind |-> "state", message |-> m]} :
          Turn(t, what) /\ (what.kind = "read" => has)
    BY DEF Send, Idle
  <2>2. TurnOK(what) /\ ~Printing(what)
    BY <1>1, <2>1 DEF TurnOK, Printing, Idle
  <2> QED BY <2>1, <2>2
<1>3. PICK building : row' = [row EXCEPT !.plan = plan, !.building = building]
  BY DEF Send
<1>4. DOMAIN row' = DOMAIN row /\ row'.plan = plan /\ row'.client = row.client /\ row'.totals = row.totals
  BY <1>3 DEF IInv, RowOK
<1>5. RowOK'
  <2>1. disk' => disk \/ upload # None
    BY DEF Send
  <2>2. disk' => plan \in Plans
    BY <1>1, <2>1
  <2> HIDE DEF plan
  <2> QED BY <1>1, <1>4, <2>2 DEF IInv, RowOK
<1>6. TurnsOK' /\ ClientKnown'
  BY <1>2, <1>4, TurnTaken, ClientStays DEF Send
<1>7. sent' \in 0..MaxMessages
  BY BuildingAssumption DEF Send, IInv
<1> QED BY <1>5, <1>6, <1>7 DEF IInv, ChildrenOK, FilesOK, Send

LEMMA RunsInBackground == ASSUME IInv, NEW t \in Tabs, BackgroundRun(t) PROVE IInv'
<1>1. PICK words \in Notes :
        /\ row' = [row EXCEPT !.analysed = TRUE, !.building = words # "none"]
        /\ Turn(t, [kind |-> "read", plan |-> row.plan, words |-> words, new |-> TRUE])
  BY DEF BackgroundRun
<1> DEFINE what == [kind |-> "read", plan |-> row.plan, words |-> words, new |-> TRUE]
<1>2. TurnOK(what) /\ ~Printing(what)
  BY DEF BackgroundRun, IInv, RowOK, TurnOK, Printing
<1>3. DOMAIN row' = DOMAIN row /\ row'.plan = row.plan /\ row'.client = row.client /\ row'.totals = row.totals
  BY <1>1 DEF IInv, RowOK
<1>4. TurnsOK' /\ ClientKnown'
  BY <1>1, <1>2, <1>3, TurnTaken, ClientStays DEF BackgroundRun
<1> QED BY <1>3, <1>4 DEF BackgroundRun, IInv, RowOK, ChildrenOK, FilesOK

LEMMA Redeploys == ASSUME IInv, Redeploy PROVE IInv'
BY IdleIsOK DEF Redeploy, IInv, RowOK, TurnsOK, ChildrenOK, FilesOK, ClientKnown

LEMMA Reads == ASSUME IInv, NEW t \in Tabs, ReadTables(t) PROVE IInv'
<1>1. turn[t].plan \in Plans
  BY DEF ReadTables, IInv, TurnsOK, TurnOK
<1>2. Breakdown(bd')
  BY <1>1, EmptyBreakdown DEF ReadTables
<1>3. RowOK' /\ row'.client = row.client
  BY DEF ReadTables, IInv, RowOK
<1> QED BY <1>2, <1>3, OnlyBreakdown DEF ReadTables

LEMMA Extracts == ASSUME IInv, NEW t \in Tabs, Extracted(t) PROVE IInv'
<1> DEFINE p == turn[t].plan
           b == [NoBreakdown EXCEPT !.step = "awaiting_material_choice", !.failed = TRUE, !.plan = p]
<1>1. p \in Plans
  BY DEF Extracted, IInv, TurnsOK, TurnOK
<1>2. IsBreakdown(b)
  BY DEF IsBreakdown, NoBreakdown
<1>3. /\ b.step = "awaiting_material_choice" /\ b.plan = p /\ b.paso2 = None
      /\ b.tips = <<>> /\ b.geo = <<>>
  BY DEF NoBreakdown
<1>4. bd' = b
  BY DEF Extracted
<1> HIDE DEF b, p
<1>5. Breakdown(b)
  BY <1>1, <1>2, <1>3, NoGeometries, BuildingAssumption DEF Breakdown, Steps
<1>6. RowOK' /\ row'.client = row.client
  BY DEF Extracted, IInv, RowOK
<1> QED BY <1>4, <1>5, <1>6, OnlyBreakdown DEF Extracted

\* Of a drawing that has no step yet nothing is priced.
LEMMA ReadsPage == ASSUME IInv, NEW t \in Tabs, ReadPage(t) PROVE IInv'
<1> DEFINE p == turn[t].plan
<1>1. p \in Plans /\ bd.step = None /\ bd.paso2 = None /\ IsBreakdown(bd) /\ bd.geo = Geometries(bd.tips, Slab)
  BY DEF ReadPage, IInv, TurnsOK, TurnOK, Breakdown
<1>2. Breakdown(bd')
  <2>1. PICK zones \in ZoneReadings, tips \in TipReadings, again \in Rereadings, saved \in BOOLEAN :
          bd' = IF NeedsSelector(zones) /\ saved
                THEN [bd EXCEPT !.step = "page_1_zone_selector", !.plan = p]
                ELSE [bd EXCEPT !.step = "page_1_confirm", !.plan = p,
                                !.zone = AutoSelectZone(zones, None),
                                !.tips = SecondPass(tips, LAMBDA x : again),
                                !.geo = Geometries(SecondPass(tips, LAMBDA x : again), Slab)]
    BY DEF ReadPage
  <2> DEFINE read == SecondPass(tips, LAMBDA x : again)
  <2>2. KeepsLs(read)
    BY ReadingKeepsLs DEF SecondPass
  <2> HIDE DEF read
  <2>3. CASE bd' = [bd EXCEPT !.step = "page_1_zone_selector", !.plan = p]
    <3>1. /\ IsBreakdown(bd') /\ bd'.step = "page_1_zone_selector" /\ bd'.plan = p
          /\ bd'.paso2 = None /\ bd'.geo = bd.geo /\ bd'.tips = bd.tips
      BY <1>1, <2>3 DEF IsBreakdown
    <3> QED BY <1>1, <3>1, BuildingAssumption DEF Breakdown, Steps
  <2>4. ASSUME NEW zone, bd' = [bd EXCEPT !.step = "page_1_confirm", !.plan = p, !.zone = zone,
                                          !.tips = read, !.geo = Geometries(read, Slab)]
        PROVE  Breakdown(bd')
    <3>1. /\ IsBreakdown(bd') /\ bd'.step = "page_1_confirm" /\ bd'.plan = p
          /\ bd'.paso2 = None /\ bd'.geo = Geometries(read, Slab) /\ bd'.tips = read
      BY <1>1, <2>4 DEF IsBreakdown
    <3> QED BY <1>1, <2>2, <3>1, BuildingAssumption DEF Breakdown, Steps
  <2> QED BY <2>1, <2>3, <2>4 DEF read
<1>3. RowOK' /\ row'.client = row.client
  BY DEF ReadPage, IInv, RowOK
<1> QED BY <1>2, <1>3, OnlyBreakdown DEF ReadPage

LEMMA SelectsZone == ASSUME IInv, ZoneSelect PROVE IInv'
<1>1. Moved(bd', bd) /\ bd'.step = "page_1"
  BY DEF ZoneSelect, IInv, Breakdown, IsBreakdown, Moved
<1>2. Breakdown(bd')
  BY <1>1, StepTaken, BuildingAssumption DEF ZoneSelect, IInv, Breakdown, Steps
<1> QED BY <1>2 DEF ZoneSelect, IInv, RowOK, TurnsOK, ChildrenOK, FilesOK, ClientKnown

LEMMA Dismisses == ASSUME IInv, NEW t \in Tabs, DismissFailed(t) PROVE IInv'
<1>1. Breakdown(bd')
  <2>1. CASE bd' = [bd EXCEPT !.step = "step1_review", !.failed = FALSE]
    <3>1. Moved(bd', bd) /\ bd'.step = "step1_review"
      BY <2>1 DEF IInv, Breakdown, IsBreakdown, Moved
    <3> QED BY <3>1, StepTaken, BuildingAssumption DEF DismissFailed, IInv, Breakdown, Steps
  <2> QED BY <2>1 DEF DismissFailed, IInv
<1>2. RowOK' /\ row'.client = row.client
  BY DEF DismissFailed, IInv, RowOK
<1> QED BY <1>1, <1>2, OnlyBreakdown DEF DismissFailed

\* A correction computes again what follows from the measures.
LEMMA Corrects ==
    ASSUME Breakdown(bd), NEW c
    PROVE  /\ DOMAIN Corrected(c) = DOMAIN bd
           /\ Corrected(c).step = bd.step /\ Corrected(c).plan = bd.plan /\ Corrected(c).paso2 = bd.paso2
           /\ Corrected(c).geo = Geometries(Corrected(c).tips, Slab)
<1> DEFINE tips == ApplyCorrections(bd.tips, c)
           geo == Geometries(tips, Slab)
<1>1. Corrected(c) = [bd EXCEPT !.tips = tips, !.geo = geo]
  BY DEF Corrected
<1> HIDE DEF tips, geo
<1>2. /\ DOMAIN Corrected(c) = DOMAIN bd
      /\ Corrected(c).step = bd.step /\ Corrected(c).plan = bd.plan /\ Corrected(c).paso2 = bd.paso2
      /\ Corrected(c).tips = tips /\ Corrected(c).geo = geo
  BY <1>1 DEF Breakdown, IsBreakdown
<1> QED BY <1>2 DEF geo

LEMMA ConfirmsPage == ASSUME IInv, NEW t \in Tabs, ConfirmPage(t) PROVE IInv'
<1>1. Breakdown(bd) /\ bd.step = "page_1_confirm" /\ bd.plan \in Plans
  BY BuildingAssumption DEF ConfirmPage, IInv, Breakdown, Steps
<1>2. ASSUME \/ bd' = [bd EXCEPT !.step = "page_2", !.confirmed = @ \cup {1}, !.learnt = bd.zone]
             \/ bd' = [bd EXCEPT !.step = "page_2", !.confirmed = @ \cup {1}, !.skipped = @ \cup {1}]
      PROVE  Breakdown(bd')
  <2>1. Moved(bd', bd) /\ bd'.step = "page_2"
    BY <1>1, <1>2 DEF Breakdown, IsBreakdown, Moved
  <2> QED BY <1>1, <2>1, StepTaken DEF Steps
<1>3. ASSUME NEW c, bd' = [Corrected(c) EXCEPT !.step = "page_2", !.confirmed = @ \cup {1}, !.learnt = bd.zone]
      PROVE  Breakdown(bd')
  <2>1. /\ IsBreakdown(bd') /\ bd'.step = "page_2" /\ bd'.plan = bd.plan /\ bd'.paso2 = bd.paso2
        /\ bd'.tips = Corrected(c).tips /\ bd'.geo = Corrected(c).geo
    BY <1>1, <1>3, Corrects DEF Breakdown, IsBreakdown
  <2> QED BY <1>1, <2>1, Corrects, BuildingAssumption DEF Breakdown, Steps
<1>4. ASSUME bd' = [bd EXCEPT !.step = "page_1", !.tips = <<>>, !.geo = <<>>,
                              !.learnt = "PLANTA", !.zone = "PLANTA"]
      PROVE  Breakdown(bd')
  <2>1. /\ IsBreakdown(bd') /\ bd'.step = "page_1" /\ bd'.plan = bd.plan /\ bd'.paso2 = bd.paso2
        /\ bd'.tips = <<>> /\ bd'.geo = <<>>
    BY <1>1, <1>4 DEF Breakdown, IsBreakdown
  <2> QED BY <1>1, <2>1, NoGeometries, BuildingAssumption DEF Breakdown, Steps
<1>5. Breakdown(bd')
  BY <1>1, <1>2, <1>3, <1>4 DEF ConfirmPage
<1>6. RowOK' /\ row'.client = row.client
  BY DEF ConfirmPage, IInv, RowOK
<1> QED BY <1>5, <1>6, OnlyBreakdown DEF ConfirmPage

LEMMA ConfirmsStep1 == ASSUME IInv, NEW t \in Tabs, ConfirmStep1(t) PROVE IInv'
<1> DEFINE what == [kind |-> "pricing", bd |-> bd]
<1>1. TurnOK(what) /\ ~Printing(what)
  BY DEF ConfirmStep1, IInv, TurnOK, Printing
<1> QED BY <1>1, OnlyTurn DEF ConfirmStep1

LEMMA SavesPrices == ASSUME IInv, NEW t \in Tabs, SavePrices(t) PROVE IInv'
<1>1. PICK b : b = turn[t].bd /\ Breakdown(b) /\ b.step = "step1_review" /\ b.plan \in Plans
  BY BuildingAssumption DEF SavePrices, IInv, TurnsOK, TurnOK, Breakdown, Steps
<1> DEFINE totals == TotalsOf(b.plan)
<1>2. /\ bd' = [b EXCEPT !.step = "step2_quote", !.paso2 = totals]
      /\ row' = [row EXCEPT !.totals = totals]
  BY <1>1 DEF SavePrices, TotalsOf
<1>3. totals.plan = b.plan
  BY DEF TotalsOf
<1>4. Turn(t, [kind |-> "children", plan |-> b.plan])
  BY <1>1 DEF SavePrices
<1> HIDE DEF totals
<1>5. /\ IsBreakdown(bd') /\ bd'.step = "step2_quote" /\ bd'.plan = b.plan /\ bd'.paso2 = totals
      /\ bd'.tips = b.tips /\ bd'.geo = b.geo
  BY <1>1, <1>2 DEF Breakdown, IsBreakdown
<1>6. Breakdown(bd')
  <2>1. bd'.paso2 = TotalsOf(bd'.plan)
    BY <1>5 DEF totals
  <2> QED BY <1>1, <1>3, <1>5, <2>1, BuildingAssumption DEF Breakdown, Steps
<1>7. RowOK' /\ row'.client = row.client
  <2>1. row' = [row EXCEPT !.totals = totals]
    BY <1>2
  <2> QED BY <1>1, <1>3, <2>1 DEF SavePrices, IInv, RowOK
<1>8. TurnsOK' /\ ClientKnown'
  <2>1. PICK what : what = [kind |-> "children", plan |-> b.plan]
    OBVIOUS
  <2>2. TurnOK(what) /\ ~Printing(what)
    BY <1>1, <2>1 DEF TurnOK, Printing
  <2> QED BY <1>4, <1>7, <2>1, <2>2, TurnTaken, ClientStays DEF SavePrices
<1> QED BY <1>6, <1>7, <1>8 DEF SavePrices, IInv, ChildrenOK, FilesOK

LEMMA Widened == ASSUME NEW S, NEW T, NEW s \in Seq(S) PROVE s \in Seq(S \cup T)
<1>1. Len(s) \in Nat /\ s \in [1..Len(s) -> S]
  BY LenProperties
<1>2. s \in [1..Len(s) -> S \cup T]
  BY <1>1
<1> QED BY <1>1, <1>2

\* A batch at the end leaves the others as they are.
LEMMA BatchAdded ==
    ASSUME NEW cs, NEW L \in Nat, DOMAIN cs = 1..L, Batched(cs), NEW p \in Plans,
           NEW n \in Nat, n = Cardinality(PricedOf(p)), NEW ds, DOMAIN ds = 1..(L + n),
           \A i \in 1..L : ds[i] = cs[i],
           \A i \in (L + 1)..(L + n) :
             /\ ds[i].plan = p /\ ds[i].batch = L + 1
             /\ ds[i].ars = Ars(p)[SetToSeq(PricedOf(p))[i - L]]
             /\ ds[i].usd = Usd(p)[SetToSeq(PricedOf(p))[i - L]]
    PROVE  Batched(ds)
<1>1. ASSUME NEW i \in 1..L PROVE Placed(ds, i)
  <2> DEFINE c == cs[i]
             N == PricedOf(c.plan)
  <2>1. /\ c.batch \in 1..i /\ cs[c.batch].plan = c.plan
        /\ Together(cs, c.batch) = c.batch..(c.batch + Cardinality(N) - 1)
        /\ c.ars = Ars(c.plan)[SetToSeq(N)[i - c.batch + 1]] /\ c.usd = Usd(c.plan)[SetToSeq(N)[i - c.batch + 1]]
    BY DEF Batched, Placed
  <2>2. Together(ds, c.batch) = Together(cs, c.batch)
    <3>1. \A j \in (L + 1)..(L + n) : ds[j].batch = L + 1
      OBVIOUS
    <3>2. c.batch # L + 1
      BY <2>1
    <3>3. \A j \in DOMAIN ds : j \in 1..L \/ j \in (L + 1)..(L + n)
      OBVIOUS
    <3> QED BY <3>1, <3>2, <3>3 DEF Together
  <2>3. ds[i] = c /\ ds[c.batch] = cs[c.batch]
    BY <2>1
  <2> HIDE DEF c, N
  <2> QED BY <2>1, <2>2, <2>3 DEF Placed, N
<1>2. ASSUME NEW i \in (L + 1)..(L + n) PROVE Placed(ds, i)
  <2> DEFINE N == PricedOf(p)
  <2>1. /\ ds[i].plan = p /\ ds[i].batch = L + 1
        /\ ds[i].ars = Ars(p)[SetToSeq(N)[i - L]] /\ ds[i].usd = Usd(p)[SetToSeq(N)[i - L]]
    OBVIOUS
  <2>2. L + 1 \in 1..i /\ ds[L + 1].plan = p /\ i - (L + 1) + 1 = i - L
    OBVIOUS
  <2>3. Together(ds, L + 1) = (L + 1)..(L + 1 + n - 1)
    <3>1. \A j \in 1..L : ds[j].batch # L + 1
      <4>1. \A j \in 1..L : ds[j] = cs[j] /\ cs[j].batch \in 1..j
        BY DEF Batched, Placed
      <4> QED BY <4>1
    <3>2. \A j \in (L + 1)..(L + n) : ds[j].batch = L + 1
      OBVIOUS
    <3> QED BY <3>1, <3>2 DEF Together
  <2> HIDE DEF N
  <2> QED BY <2>1, <2>2, <2>3 DEF Placed, N
<1> QED BY <1>1, <1>2 DEF Batched

\* Documents are no part of what a batch charges.
LEMMA BatchesKept ==
    ASSUME NEW cs, NEW L \in Nat, DOMAIN cs = 1..L, Batched(cs), NEW ds, DOMAIN ds = 1..L,
           \A i \in 1..L : ds[i].plan = cs[i].plan /\ ds[i].batch = cs[i].batch
                            /\ ds[i].ars = cs[i].ars /\ ds[i].usd = cs[i].usd
    PROVE  Batched(ds)
<1>1. \A b : Together(ds, b) = Together(cs, b)
  BY DEF Together
<1>2. ASSUME NEW i \in 1..L PROVE Placed(ds, i)
  <2>1. Placed(cs, i) /\ cs[i].batch \in 1..L
    BY DEF Batched, Placed
  <2> QED BY <1>1, <2>1 DEF Placed
<1> QED BY <1>2 DEF Batched

\* A quote per material is of its plan and its row of the catalogue.
LEMMA CreatesChildren == ASSUME IInv, NEW t \in Tabs, CreateChildren(t) PROVE IInv'
<1> DEFINE p == turn[t].plan
           contexts == DocContexts(Summary(p), Paso2(Summary(p), Zone))
           order == SetToSeq(PricedOf(p))
           batch == Len(children) + 1
           new == [i \in DOMAIN order |-> Child(p, contexts[order[i]], batch)]
<1>1. p \in Plans
  BY DEF CreateChildren, IInv, TurnsOK, TurnOK
<1>2. IsFiniteSet(PricedOf(p))
  <2>1. PricedOf(p) \in SUBSET Names
    BY <1>1, MaterialsAreNamed DEF PricedOf
  <2> QED BY <2>1, NamesAreFinite, FS_Subset
<1>3. PICK n \in Nat : order \in [1..n -> PricedOf(p)] /\ n = Cardinality(PricedOf(p))
  BY <1>2, Listed
<1>4. children' = children \o new
  BY DEF CreateChildren
<1>5. ASSUME NEW i \in 1..n PROVE IsQuote(new[i])
  <2>1. contexts[order[i]].sku \in Materials
    BY <1>1, <1>3, <1>5, PricedSku
  <2>2. new[i] = Child(p, contexts[order[i]], batch)
    BY <1>3
  <2> HIDE DEF new, contexts, order, p, batch
  <2> QED BY <1>1, <2>1, <2>2 DEF IsQuote, Child
<1>a. ASSUME NEW i \in 1..n
      PROVE  /\ new[i].plan = p /\ new[i].batch = batch
             /\ new[i].ars = Ars(p)[order[i]] /\ new[i].usd = Usd(p)[order[i]]
  <2>1. new[i] = Child(p, contexts[order[i]], batch) /\ order[i] \in PricedOf(p)
    BY <1>3
  <2>2. Ars(p)[order[i]] = contexts[order[i]].ars /\ Usd(p)[order[i]] = contexts[order[i]].usd
    BY <2>1 DEF Ars, Usd, Context
  <2> HIDE DEF new, contexts, order, p, batch
  <2> QED BY <2>1, <2>2 DEF Child
<1>6. DOMAIN new = 1..n
  BY <1>3
<1>7. new = [i \in 1..n |-> new[i]]
  BY <1>3
<1> HIDE DEF new
<1>8. children \in Seq(Range(children)) /\ Batched(children) /\ \A i \in DOMAIN children : IsQuote(children[i])
  BY DEF IInv, ChildrenOK
<1>9. ChildrenOK'
  <2> DEFINE S == Range(children) \cup {new[i] : i \in 1..n}
  <2>a. children \in Seq(S)
    BY <1>8, Widened
  <2>b. new \in [1..n -> S]
    BY <1>7
  <2>c. new \in Seq(S) /\ Len(new) = n
    BY <1>6, <2>b
  <2>1. children \in Seq(S) /\ new \in Seq(S) /\ Len(new) = n
    BY <2>a, <2>c
  <2>2. /\ children' \in Seq(S) /\ Len(children') = Len(children) + n
        /\ \A i \in 1..(Len(children) + n) :
             children'[i] = IF i <= Len(children) THEN children[i] ELSE new[i - Len(children)]
    BY <1>4, <2>1, ConcatProperties
  <2>3. Len(children) \in Nat /\ DOMAIN children = 1..Len(children) /\ DOMAIN children' = 1..(Len(children) + n)
    BY <1>8, <2>2, LenProperties
  <2>4. ASSUME NEW i \in DOMAIN children' PROVE IsQuote(children'[i])
    <3>1. CASE i <= Len(children)
      BY <1>8, <2>2, <2>3, <3>1
    <3>2. CASE ~(i <= Len(children))
      <4>1. i - Len(children) \in 1..n
        BY <2>3, <3>2
      <4> QED BY <1>5, <2>2, <2>3, <3>2, <4>1
    <3> QED BY <3>1, <3>2
  <2>5. children' \in Seq(Range(children'))
    BY <2>2, <2>3 DEF Range
  <2>6. Batched(children')
    <3> DEFINE L == Len(children)
    <3>1. \A i \in 1..L : children'[i] = children[i]
      BY <2>2, <2>3
    <3>2. ASSUME NEW i \in (L + 1)..(L + n)
          PROVE  /\ children'[i].plan = p /\ children'[i].batch = L + 1
                 /\ children'[i].ars = Ars(p)[order[i - L]] /\ children'[i].usd = Usd(p)[order[i - L]]
      <4>1. i - L \in 1..n /\ children'[i] = new[i - L]
        BY <2>2, <2>3
      <4> HIDE DEF p, order
      <4> QED BY <1>a, <4>1
    <3> HIDE DEF L, p
    <3>3. DOMAIN children = 1..L /\ DOMAIN children' = 1..(L + n) /\ L \in Nat
      BY <2>3 DEF L
    <3> QED BY <1>1, <1>3, <1>8, <3>1, <3>2, <3>3, BatchAdded
  <2> QED BY <2>4, <2>5, <2>6 DEF ChildrenOK
<1>10. Turn(t, Idle) /\ UNCHANGED <<row, bd, files, disk, sent>>
  BY DEF CreateChildren
<1>11. TurnsOK' /\ ClientKnown'
  BY <1>10, IdleIsOK, TurnTaken, ClientStays
<1> QED BY <1>9, <1>10, <1>11 DEF IInv, RowOK, FilesOK

LEMMA AsksClient == ASSUME IInv, NEW t \in Tabs, AskClient(t) PROVE IInv'
<1>1. Breakdown(bd) /\ bd.step = "step2_quote" /\ bd.plan \in Plans
  BY BuildingAssumption DEF AskClient, IInv, Breakdown, Steps
<1>2. CASE row.client = None
  <2>1. Moved(bd', bd) /\ bd'.step = "awaiting_client_name"
    BY <1>1, <1>2 DEF AskClient, Breakdown, IsBreakdown, Moved
  <2>2. Breakdown(bd')
    <3>1. bd.paso2.plan = bd.plan
      BY <1>1 DEF Breakdown
    <3> QED BY <1>1, <2>1, <3>1, StepTaken DEF Steps
  <2>3. RowOK' /\ row'.client = row.client
    BY DEF AskClient, IInv, RowOK
  <2> QED BY <1>2, <2>2, <2>3, OnlyBreakdown DEF AskClient
<1>3. CASE row.client # None
  <2> DEFINE what == Documents(bd)
  <2>1. TurnOK(what)
    BY <1>1 DEF TurnOK, Documents
  <2> QED BY <1>3, <2>1, OnlyTurn DEF AskClient
<1> QED BY <1>2, <1>3

LEMMA TakesName == ASSUME IInv, NEW t \in Tabs, TakeName(t) PROVE IInv'
<1>1. Breakdown(bd) /\ bd.step = "awaiting_client_name" /\ bd.plan \in Plans
  BY BuildingAssumption DEF TakeName, IInv, Breakdown, Steps
<1>2. Moved(bd', bd) /\ bd'.step = "step2_quote"
  BY <1>1 DEF TakeName, Breakdown, IsBreakdown, Moved
<1>3. Breakdown(bd')
  <2>1. bd.paso2.plan = bd.plan
    BY <1>1 DEF Breakdown
  <2> QED BY <1>1, <1>2, <2>1, StepTaken DEF Steps
<1>4. RowOK' /\ row'.client # None
  <2>1. turn[t].message.says # None
    BY BuildingAssumption DEF TakeName, IInv, TurnsOK, TurnOK
  <2> QED BY <2>1 DEF TakeName, IInv, RowOK
<1>5. PICK what : what = Documents(bd')
  OBVIOUS
<1>6. TurnOK(what) /\ Turn(t, what)
  BY <1>2, <1>3, <1>5 DEF TurnOK, Documents, TakeName
<1>7. TurnsOK' /\ ClientKnown'
  BY <1>4, <1>6, TurnTaken, ClientStays DEF TakeName
<1> QED BY <1>3, <1>4, <1>7 DEF TakeName, IInv, ChildrenOK, FilesOK

\* Names of files are names of priced materials; the client is known already.
LEMMA WritesDocuments == ASSUME IInv, NEW t \in Tabs, WriteDocuments(t) PROVE IInv'
<1> DEFINE j == turn[t]
           p == j.bd.paso2.plan
           made == {Resolves[n] : n \in PricedOf(p)}
<1>1. /\ j.kind = "documents" /\ DOMAIN j = {"kind", "bd"} /\ Breakdown(j.bd) /\ j.bd.step = "step2_quote"
      /\ row.client # None
  BY DEF WriteDocuments, IInv, TurnsOK, TurnOK, ClientKnown, Printing
<1>2. p \in Plans
  BY <1>1, BuildingAssumption DEF Breakdown, Steps
<1>3. PICK last \in [made -> PricedOf(p)] :
        files' = [s \in Materials |-> IF s \in made THEN [name |-> last[s], plan |-> p] ELSE files[s]]
  BY DEF WriteDocuments
<1>4. FilesOK'
  <2>1. \A s \in made : last[s] \in Names
    BY <1>2, <1>3, PricedSku
  <2> HIDE DEF made, p
  <2>2. \A s \in Materials : files'[s].name = last[s] \/ files'[s] = files[s] \/ s \in made
    BY <1>3
  <2>3. ASSUME NEW s \in Materials, files'[s] # None PROVE files'[s].name \in Names
    <3>1. CASE s \in made
      BY <1>3, <2>1, <3>1
    <3>2. CASE s \notin made
      BY <1>3, <2>3, <3>2 DEF IInv, FilesOK
    <3> QED BY <3>1, <3>2
  <2> QED BY <1>3, <2>3 DEF FilesOK
<1>5. PICK what : what = [j EXCEPT !.kind = "announce"]
  OBVIOUS
<1>6. DOMAIN what = {"kind", "bd"} /\ what.kind = "announce" /\ what.bd = j.bd
  BY <1>1, <1>5
<1>7. TurnOK(what) /\ Turn(t, what)
  BY <1>1, <1>5, <1>6 DEF TurnOK, WriteDocuments
<1>8. TurnsOK'
  BY <1>7, TurnTaken
<1>9. ClientKnown'
  BY <1>1 DEF ClientKnown, WriteDocuments
<1> QED BY <1>4, <1>8, <1>9 DEF WriteDocuments, IInv, RowOK, ChildrenOK

\* A name that overlaps no other row of the catalogue finds only its own
\* quote, and what begins with it is its own.
LEMMA DocumentsAreOwn ==
    ASSUME NEW p \in Plans, NEW n \in PricedOf(p), NEW skus, NEW s \in Matches(n, skus), s \in Materials,
           OverlapsNoOther(n)
    PROVE  /\ Resolves[n] = s
           /\ BeginsNoOther(n) => DocumentsOf(p, n).files = {s}
<1>1. n \in Names
  BY MaterialsAreNamed DEF PricedOf
<1>2. <<n, s>> \in Overlaps
  <2>1. CASE Spelled[n] \in skus
    <3>1. s = Spelled[n] /\ s # None
      BY <2>1, CatalogAssumption DEF Matches
    <3> QED BY <1>1, <3>1, SpellingAssumption
  <2>2. CASE Spelled[n] \notin skus
    BY <2>2 DEF Matches
  <2> QED BY <2>1, <2>2
<1>3. Resolves[n] = s
  BY <1>2 DEF OverlapsNoOther
<1>4. ASSUME BeginsNoOther(n) PROVE DocumentsOf(p, n).files = {s}
  <2> DEFINE of == {m \in PricedOf(p) : <<n, m>> \in Begins}
  <2>1. n \in of
    BY <1>1, SpellingAssumption
  <2>2. \A m \in of : Resolves[m] = s
    <3>1. PricedOf(p) \subseteq Names
      BY MaterialsAreNamed DEF PricedOf
    <3> QED BY <1>3, <1>4, <3>1 DEF BeginsNoOther
  <2> QED BY <2>1, <2>2 DEF DocumentsOf
<1> QED BY <1>3, <1>4

\* A quote per material takes a document only of its own name.
LEMMA SavesDocuments == ASSUME IInv, NEW t \in Tabs, SaveDocuments(t) PROVE IInv'
<1> DEFINE p == turn[t].bd.paso2.plan
           skus == {children[i].sku : i \in DOMAIN children}
           found == {n \in PricedOf(p) : Matches(n, skus) # {}}
<1>1. PICK b : /\ b = turn[t].bd /\ Breakdown(b) /\ b.step = "step2_quote"
               /\ bd' = [b EXCEPT !.step = "step3_done", !.done = TRUE]
  BY DEF SaveDocuments, IInv, TurnsOK, TurnOK
<1>2. Breakdown(bd')
  <2>1. b.plan \in Plans
    BY <1>1, BuildingAssumption DEF Breakdown, Steps
  <2>2. Moved(bd', b) /\ bd'.step = "step3_done"
    BY <1>1 DEF Breakdown, IsBreakdown, Moved
  <2> QED BY <1>1, <2>1, <2>2, StepTaken DEF Steps
<1>3. PICK of \in [found -> skus] :
        /\ \A n \in found : of[n] \in Matches(n, skus)
        /\ \E one \in [Range(of) -> DOMAIN children], last \in [Range(of) -> found] :
             /\ \A s \in Range(of) : children[one[s]].sku = s /\ of[last[s]] = s
             /\ children' = [i \in DOMAIN children |->
                  IF i \notin Range(one) THEN children[i]
                  ELSE [children[i] EXCEPT !.validated = TRUE, !.doc = DocumentsOf(p, last[children[i].sku])]]
  BY DEF SaveDocuments
<1>a. PICK one \in [Range(of) -> DOMAIN children], last \in [Range(of) -> found] :
             /\ \A s \in Range(of) : children[one[s]].sku = s /\ of[last[s]] = s
             /\ children' = [i \in DOMAIN children |->
                  IF i \notin Range(one) THEN children[i]
                  ELSE [children[i] EXCEPT !.validated = TRUE, !.doc = DocumentsOf(p, last[children[i].sku])]]
  BY <1>3
<1>4. ASSUME NEW i \in DOMAIN children PROVE IsQuote(children'[i])
  <2>1. IsQuote(children[i])
    BY DEF IInv, ChildrenOK
  <2>2. CASE i \notin Range(one)
    BY <1>a, <2>1, <2>2
  <2>3. CASE i \in Range(one)
    <3> DEFINE s == children[i].sku
               n == last[s]
               doc == DocumentsOf(p, n)
    <3>1. s \in Range(of) /\ n \in found /\ of[n] = s
      <4>1. PICK r \in Range(of) : one[r] = i
        BY <2>3 DEF Range
      <4> QED BY <1>a, <4>1
    <3>2. p \in Plans
      <4>1. b.plan \in Plans /\ b.paso2.plan = b.plan
        BY <1>1, BuildingAssumption DEF Breakdown, Steps
      <4> QED BY <1>1, <4>1
    <3>3. s \in Matches(n, skus) /\ s \in Materials
      BY <1>3, <2>1, <3>1 DEF IsQuote
    <3>4. children'[i] = [children[i] EXCEPT !.validated = TRUE, !.doc = doc]
      BY <1>a, <2>3
    <3>5. doc.name = n
      BY DEF DocumentsOf
    <3>6. OverlapsNoOther(n) => Resolves[n] = s /\ (BeginsNoOther(n) => doc.files = {s})
      BY <3>1, <3>2, <3>3, DocumentsAreOwn
    <3> HIDE DEF doc, n, p, skus, found
    <3> QED BY <2>1, <3>4, <3>5, <3>6 DEF IsQuote, OwnOf
  <2> QED BY <2>2, <2>3
<1>5. ChildrenOK'
  <2>1. Len(children) \in Nat /\ DOMAIN children = 1..Len(children)
    BY LenProperties DEF IInv, ChildrenOK
  <2>2. DOMAIN children' = 1..Len(children) /\ children' = [i \in 1..Len(children) |-> children'[i]]
    BY <1>a, <2>1
  <2>3. children' \in [1..Len(children) -> Range(children')]
    BY <2>2 DEF Range
  <2>4. children' \in Seq(Range(children'))
    BY <2>1, <2>3
  <2>5. ASSUME NEW i \in 1..Len(children)
        PROVE  /\ children'[i].plan = children[i].plan /\ children'[i].batch = children[i].batch
               /\ children'[i].ars = children[i].ars /\ children'[i].usd = children[i].usd
    <3>1. IsQuote(children[i])
      BY <2>1 DEF IInv, ChildrenOK
    <3>2. PICK doc : children'[i] = children[i] \/ children'[i] = [children[i] EXCEPT !.validated = TRUE, !.doc = doc]
      BY <1>a, <2>1
    <3> QED BY <3>1, <3>2 DEF IsQuote
  <2>6. Batched(children')
    BY <2>1, <2>2, <2>5, BatchesKept DEF IInv, ChildrenOK
  <2> QED BY <1>4, <2>1, <2>2, <2>4, <2>6 DEF ChildrenOK
<1>6. RowOK' /\ row'.client = row.client
  BY DEF SaveDocuments, IInv, RowOK
<1>7. TurnsOK' /\ ClientKnown'
  BY <1>6, IdleIsOK, TurnTaken, ClientStays DEF SaveDocuments
<1> QED BY <1>2, <1>5, <1>6, <1>7 DEF SaveDocuments, IInv, FilesOK

LEMMA Starts == Init => IInv
<1> SUFFICES ASSUME Init PROVE IInv
  OBVIOUS
<1>1. PICK p \in Plans \cup {None} :
        row = [building |-> FALSE, web |-> p # None, plan |-> p, client |-> None,
               totals |-> None, validated |-> FALSE, analysed |-> FALSE]
  BY DEF Init
<1>2. RowOK
  BY <1>1 DEF Init, RowOK
<1>3. Breakdown(bd) /\ ChildrenOK
  BY EmptyBreakdown DEF Init, ChildrenOK, Batched, Range
<1>4. TurnsOK /\ FilesOK /\ ClientKnown
  BY IdleIsOK DEF Init, TurnsOK, FilesOK, ClientKnown
<1>5. sent \in 0..MaxMessages
  BY BuildingAssumption DEF Init
<1> QED BY <1>2, <1>3, <1>4, <1>5 DEF IInv

LEMMA TurnsGoOn == ASSUME IInv, NEW t \in Tabs, Step(t) PROVE IInv'
<1>1. CASE ReadNoTables(t)
  <2>1. turn[t].plan \in Plans
    BY <1>1 DEF ReadNoTables, IInv, TurnsOK, TurnOK
  <2>2. PICK what \in {Idle, [kind |-> "extract", plan |-> turn[t].plan]} : Turn(t, what)
    BY <1>1 DEF ReadNoTables
  <2>3. TurnOK(what) /\ ~Printing(what)
    BY <2>1, <2>2 DEF TurnOK, Printing, Idle
  <2> QED BY <1>1, <2>2, <2>3, OnlyTurn DEF ReadNoTables
<1>2. CASE ReadOther(t) \/ StateOther(t)
  BY <1>2, IdleIsOK, OnlyTurn DEF ReadOther, StateOther
<1>3. CASE ReadTables(t) \/ Extracted(t) \/ ReadPage(t)
  BY <1>3, Reads, Extracts, ReadsPage
<1>4. CASE DismissFailed(t) \/ ConfirmPage(t) \/ ConfirmStep1(t)
  BY <1>4, Dismisses, ConfirmsPage, ConfirmsStep1
<1>5. CASE SavePrices(t) \/ CreateChildren(t) \/ AskClient(t)
  BY <1>5, SavesPrices, CreatesChildren, AsksClient
<1>6. CASE TakeName(t) \/ WriteDocuments(t) \/ SaveDocuments(t)
  BY <1>6, TakesName, WritesDocuments, SavesDocuments
<1> QED BY <1>1, <1>2, <1>3, <1>4, <1>5, <1>6 DEF Step

LEMMA Goes == IInv /\ [Next]_vars => IInv'
<1> SUFFICES ASSUME IInv, [Next]_vars PROVE IInv'
  OBVIOUS
<1>1. ASSUME NEW t \in Tabs, Leave(t) PROVE IInv'
  BY <1>1, IdleIsOK, OnlyTurn DEF Leave
<1>2. CASE UNCHANGED vars
  BY <1>2 DEF vars, IInv, RowOK, TurnsOK, ChildrenOK, FilesOK, ClientKnown
<1> QED BY <1>1, <1>2, TurnsGoOn, RunsInBackground, Sends, SelectsZone, Redeploys DEF Next

LEMMA Invariance == Spec => []IInv
BY Starts, Goes, PTL DEF Spec

-----------------------------------------------------------------------------
(* Every variable of a building keeps its type: a quote per material is of *)
(* a plan and a row of the catalogue, a file is named after a material.    *)
THEOREM TypeCorrect == Spec => []TypeOK
<1>1. IInv => TypeOK
  <2> SUFFICES ASSUME IInv PROVE TypeOK
    OBVIOUS
  <2>1. bd.step \in Steps \cup {None} /\ bd.plan \in Plans \cup {None}
    BY DEF IInv, Breakdown
  <2>2. row.totals # None => row.totals.plan \in Plans
    BY DEF IInv, RowOK
  <2>3. \A i \in DOMAIN children : children[i].sku \in Materials /\ children[i].plan \in Plans
    BY DEF IInv, ChildrenOK, IsQuote
  <2> QED BY <2>1, <2>2, <2>3 DEF IInv, FilesOK, TypeOK
<1> QED BY <1>1, Invariance, PTL

(* The prices a breakdown holds are those of the plan it holds, whatever   *)
(* drawings other tabs sent while a turn priced or printed.                *)
THEOREM PricesFollowThePlan == Spec => []PricesOfTheDespiece
<1>1. IInv => PricesOfTheDespiece
  BY DEF IInv, Breakdown, TotalsOf, PricesOfTheDespiece
<1> QED BY <1>1, Invariance, PTL

\* The quotes of a batch and the priced materials of its plan are the same.
LEMMA BatchIs ==
    ASSUME IInv, NEW i \in DOMAIN children
    PROVE  LET b == children[i].batch
               p == children[b].plan
               N == PricedOf(p)
           IN /\ p \in Plans /\ IsFiniteSet(N) /\ N # {} /\ IsFiniteSet(Batch(b))
              /\ Cardinality(Batch(b)) = Cardinality(N)
              /\ \E h \in Bijection(Batch(b), N) :
                   \A j \in Batch(b) : children[j].ars = Ars(p)[h[j]] /\ children[j].usd = Usd(p)[h[j]]
<1> DEFINE b == children[i].batch
           p == children[b].plan
           N == PricedOf(p)
           k == Cardinality(N)
           order == SetToSeq(N)
           h == [j \in Batch(b) |-> order[j - b + 1]]
<1>1. Len(children) \in Nat /\ DOMAIN children = 1..Len(children) /\ \A j \in DOMAIN children : IsQuote(children[j])
  BY LenProperties DEF IInv, ChildrenOK
<1>2. \A j \in DOMAIN children : Placed(children, j)
  BY DEF IInv, ChildrenOK, Batched
<1>3. b \in 1..i /\ b \in DOMAIN children
  BY <1>1, <1>2 DEF Placed
<1>4. p \in Plans
  BY <1>1, <1>3 DEF IsQuote
<1>5. IsFiniteSet(N) /\ k \in Nat /\ order \in Bijection(1..k, N)
  <2>1. N \in SUBSET Names
    BY <1>4, MaterialsAreNamed DEF PricedOf
  <2> QED BY <2>1, NamesAreFinite, FS_Subset, Listed
<1>6. Batch(b) = b..(b + k - 1) /\ i \in Batch(b)
  BY <1>2, <1>3 DEF Placed, Together, Batch
<1> HIDE DEF h, order, N, p, b, k
<1>7. k >= 1 /\ N # {}
  <2>1. k >= 1
    BY <1>3, <1>5, <1>6
  <2> QED BY <2>1, FS_EmptySet DEF k
<1>8. IsFiniteSet(Batch(b)) /\ Cardinality(Batch(b)) = k
  <2>1. b \in Int /\ b + k - 1 \in Int
    BY <1>3, <1>5
  <2>2. IsFiniteSet(b..(b + k - 1)) /\ Cardinality(b..(b + k - 1)) = IF b > b + k - 1 THEN 0 ELSE (b + k - 1) - b + 1
    BY <2>1, FS_Interval
  <2>3. (b + k - 1) - b + 1 = k /\ ~(b > b + k - 1)
    BY <1>5, <1>7, <2>1
  <2> QED BY <1>6, <2>2, <2>3
<1>9. h \in Bijection(Batch(b), N)
  <2>1. \A j \in Batch(b) : j - b + 1 \in 1..k /\ j \in Int
    BY <1>3, <1>5, <1>6
  <2>2. \A x \in 1..k : order[x] \in N
    BY <1>5 DEF Bijection, Injection
  <2>3. \A x, y \in 1..k : order[x] = order[y] => x = y
    BY <1>5 DEF Bijection, Injection, IsInjective
  <2>4. \A n \in N : \E x \in 1..k : order[x] = n
    BY <1>5 DEF Bijection, Surjection
  <2>5. h \in [Batch(b) -> N]
    BY <2>1, <2>2 DEF h
  <2>6. ASSUME NEW j \in Batch(b), NEW l \in Batch(b), h[j] = h[l] PROVE j = l
    <3>1. j - b + 1 = l - b + 1
      BY <2>1, <2>3, <2>6 DEF h
    <3> QED BY <1>3, <2>1, <3>1
  <2>7. ASSUME NEW n \in N PROVE \E j \in Batch(b) : h[j] = n
    <3>1. PICK x \in 1..k : order[x] = n
      BY <2>4
    <3>2. b + x - 1 \in Batch(b) /\ (b + x - 1) - b + 1 = x
      BY <1>3, <1>5, <1>6
    <3> QED BY <3>1, <3>2 DEF h
  <2> QED BY <2>5, <2>6, <2>7 DEF Bijection, Injection, Surjection, IsInjective
<1>10. ASSUME NEW j \in Batch(b) PROVE children[j].ars = Ars(p)[h[j]] /\ children[j].usd = Usd(p)[h[j]]
  <2>1. j \in DOMAIN children /\ children[j].batch = b
    BY DEF Batch
  <2>2. children[j].plan = p
    BY <1>2, <2>1 DEF Placed, p
  <2>3. h[j] = SetToSeq(PricedOf(p))[j - b + 1]
    BY DEF h, order, N
  <2> QED BY <1>2, <2>1, <2>2, <2>3 DEF Placed
<1> QED BY <1>4, <1>5, <1>7, <1>8, <1>9, <1>10 DEF b, p, N, k

LEMMA QuotesAddUp == IInv => ChildrenAddUp
<1> SUFFICES ASSUME IInv, NEW i \in DOMAIN children, bd.paso2 # None,
                    children[children[i].batch].plan = bd.paso2.plan, PricedOf(bd.plan) = MaterialsOf(bd.plan)
             PROVE  LET of == Batch(children[i].batch)
                    IN /\ Distance(SumOver(of, LAMBDA j : children[j].ars), bd.paso2.ars) <= Cardinality(of)
                       /\ SumOver(of, LAMBDA j : children[j].usd) = bd.paso2.usd
  BY DEF ChildrenAddUp
<1> DEFINE of == Batch(children[i].batch)
           p == bd.plan
           N == PricedOf(p)
           ars == [j \in of |-> children[j].ars]
           usd == [j \in of |-> children[j].usd]
<1>1. bd.paso2 = TotalsOf(p) /\ bd.paso2.plan = p
  BY DEF IInv, Breakdown, TotalsOf
<1>2. children[children[i].batch].plan = p
  BY <1>1
<1>3. /\ p \in Plans /\ IsFiniteSet(N) /\ N # {} /\ IsFiniteSet(of) /\ Cardinality(of) = Cardinality(N)
      /\ \E h \in Bijection(of, N) :
           \A j \in of : children[j].ars = Ars(p)[h[j]] /\ children[j].usd = Usd(p)[h[j]]
  BY <1>2, BatchIs
<1>4. PICK h \in Bijection(of, N) :
        \A j \in of : ars[j] = Ars(p)[h[j]] /\ usd[j] = Usd(p)[h[j]]
  BY <1>3
<1>5. /\ \A n \in N : Ars(p)[n] \in Int /\ Usd(p)[n] \in Int
      /\ Distance(SumOf(Over(Ars(p), N)), TotalsOf(p).ars) <= Cardinality(N)
      /\ SumOf(Over(Usd(p), N)) = TotalsOf(p).usd
  BY <1>3, DocumentsAddUp
<1>6. /\ SumOver(of, LAMBDA j : children[j].ars) = SumOf(Over(ars, of))
      /\ SumOver(of, LAMBDA j : children[j].usd) = SumOf(Over(usd, of))
  BY DEF SumOver, Over
<1> HIDE DEF of, ars, usd, N
<1>7. SumOf(Over(ars, of)) = SumOf(Over(Ars(p), N))
  BY <1>3, <1>4, <1>5, SumRenamed
<1>8. SumOf(Over(usd, of)) = SumOf(Over(Usd(p), N))
  BY <1>3, <1>4, <1>5, SumRenamed
<1> QED BY <1>1, <1>3, <1>5, <1>6, <1>7, <1>8 DEF of

(* Between any two messages the prices of the building are those of its    *)
(* despiece, and what its quotes per material charge adds up to them:      *)
(* whatever was uploaded, answered or lost in between, no trip, job or     *)
(* square metre is charged by no document, or by two.                      *)
THEOREM PricesAlwaysHold == Spec => []PricesHold
<1>1. IInv => ChildrenAddUp
  BY QuotesAddUp
<1> QED BY <1>1, TypeCorrect, PricesFollowThePlan, Invariance, PTL DEF PricesHold

(* A quote per material shows only its own documents, if the name the table *)
(* gives the material overlaps no other's, and no document is written for a *)
(* client without a name.                                                   *)
THEOREM DocumentsAlwaysHold == Spec => []DocumentsHold
<1>1. IInv => OwnDocuments
  BY DEF IInv, ChildrenOK, IsQuote, OwnOf, OwnDocuments
<1>2. IInv => DocumentsHaveAClient
  BY DEF IInv, ClientKnown, DocumentsHaveAClient
<1> QED BY <1>1, <1>2, Invariance, PTL DEF DocumentsHold

(* No second reading turns an L over, and what is shown of a typology is   *)
(* computed of the measures shown with it.                                 *)
THEOREM DrawingsAlwaysHold == Spec => []DrawingsHold
<1>1. IInv => SecondPassKeepsLs
  BY DEF IInv, Breakdown, KeepsLs, SecondPassKeepsLs
<1>2. IInv => GeometryIsFresh
  BY DEF IInv, Breakdown, GeometryIsFresh
<1> QED BY <1>1, <1>2, Invariance, PTL DEF DrawingsHold

(* A drawing that arrives later starts from step 1, without prices, and    *)
(* leaves the quotes per material that there are alone.                    *)
THEOREM NewDrawingsStartAgain == Spec => NewDrawingStartsAgain
<1>1. IInv /\ [Next]_vars =>
        (bd'.plan # bd.plan /\ bd'.step = "step1_review" => bd'.paso2 = None /\ ~bd'.done /\ children' = children)
  <2> SUFFICES ASSUME IInv, [Next]_vars, bd'.plan # bd.plan, bd'.step = "step1_review"
               PROVE  bd'.paso2 = None /\ ~bd'.done /\ children' = children
    OBVIOUS
  <2>1. Breakdown(bd) /\ IsBreakdown(bd)
    BY DEF IInv, Breakdown
  <2>2. PICK t \in Tabs : Step(t)
    BY <2>1 DEF Next, BackgroundRun, Leave, Send, ZoneSelect, Redeploy, vars, IsBreakdown
  <2>3. CASE ReadTables(t)
    BY <2>3 DEF ReadTables, Review, NoBreakdown
  <2>4. CASE Extracted(t) \/ ReadPage(t)
    BY <2>1, <2>4 DEF Extracted, ReadPage, NoBreakdown, IsBreakdown
  <2>5. CASE DismissFailed(t)
    BY <2>1, <2>5 DEF DismissFailed, IsBreakdown
  <2>6. CASE ConfirmPage(t)
    BY <2>1, <2>6, Corrects DEF ConfirmPage, IsBreakdown
  <2>7. CASE SavePrices(t) \/ SaveDocuments(t)
    <3>1. IsBreakdown(turn[t].bd)
      BY <2>7 DEF SavePrices, SaveDocuments, IInv, TurnsOK, TurnOK, Breakdown
    <3> QED BY <2>7, <3>1 DEF SavePrices, SaveDocuments, IsBreakdown
  <2>8. CASE AskClient(t) \/ TakeName(t)
    BY <2>1, <2>8 DEF AskClient, TakeName, IsBreakdown
  <2> QED BY <2>2, <2>3, <2>4, <2>5, <2>6, <2>7, <2>8
        DEF Step, ReadNoTables, ReadOther, StateOther, ConfirmStep1, CreateChildren, WriteDocuments
<1> QED BY <1>1, Invariance, PTL DEF Spec, NewDrawingStartsAgain

=============================================================================
