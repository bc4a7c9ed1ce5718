--------------------------- MODULE Pricing_proofs ---------------------------
(***************************************************************************)
(* Proofs about the pricing tools.  Everything rests on one invariant: a   *)
(* priced breakdown is what the calculator returned for what was asked,    *)
(* but for the labour lines patch_quote_mo has edited and the totals it    *)
(* added up again.                                                         *)
(***************************************************************************)
EXTENDS Pricing, Sums_proofs

-----------------------------------------------------------------------------
(* The table of the pieces *)

LEMMA PieceM2Near ==
    ASSUME NEW p, IsPiece(p)
    PROVE  /\ PieceM2(p) \in Nat
           /\ \E n \in Nat : PieceM2(p) = 100 * n
           /\ ~IsFrentin(p) =>
                Distance(PieceM2(p), IF p.override > 0 THEN p.override ELSE p.largo * p.dim2) <= 50
<1> DEFINE raw == IF p.override > 0 THEN p.override ELSE p.largo * p.dim2
<1>1. raw \in Nat
  BY DEF IsPiece
<1>2. PieceM2(p) = IF IsFrentin(p) THEN 0 ELSE 100 * HalfUp(raw, 100)
  BY DEF PieceM2
<1> HIDE DEF raw
<1>3. HalfUp(raw, 100) \in Nat /\ 100 * HalfUp(raw, 100) - raw \in -50..50
  BY <1>1, HalfUpNear
<1>4. Distance(100 * HalfUp(raw, 100), raw) <= 50
  BY <1>1, <1>3 DEF Distance
<1>5. 0 = 100 * 0
  OBVIOUS
<1> QED BY <1>2, <1>3, <1>4, <1>5 DEF raw

FirstOf(pieces) == {i \in DOMAIN pieces : \A j \in 1..(i - 1) : ~SameRow(pieces[i], pieces[j])}

\* Every row of the pieces has one of its kind that comes first.
LEMMA OneFirst ==
    ASSUME NEW pieces, pieces \in Seq(Range(pieces)), NEW j \in DOMAIN pieces
    PROVE  /\ \E i \in FirstOf(pieces) : SameRow(pieces[j], pieces[i])
           /\ \A h, i \in FirstOf(pieces) :
                SameRow(pieces[j], pieces[h]) /\ SameRow(pieces[j], pieces[i]) => h = i
<1>1. Len(pieces) \in Nat /\ DOMAIN pieces = 1..Len(pieces)
  BY LenProperties
<1> DEFINE Same == {i \in DOMAIN pieces : SameRow(pieces[j], pieces[i])}
<1>2. Same \subseteq Nat /\ j \in Same
  BY <1>1 DEF SameRow
<1>3. PICK k \in Same : \A y \in Nat : <<y, k>> \in OpToRel(<, Nat) => y \notin Same
  <2> HIDE DEF Same
  <2> QED BY <1>2, NatLessThanWellFounded, WFMin
<1>4. k \in FirstOf(pieces)
  <2>1. ASSUME NEW y \in 1..(k - 1), SameRow(pieces[k], pieces[y]) PROVE FALSE
    <3>1. y \in Nat /\ y < k /\ y \in DOMAIN pieces /\ k \in Nat
      BY <1>1
    <3>2. y \in Same
      BY <2>1, <3>1 DEF SameRow
    <3>3. <<y, k>> \in OpToRel(<, Nat)
      BY <3>1 DEF OpToRel
    <3> QED BY <1>3, <3>1, <3>2, <3>3
  <2> QED BY <2>1 DEF FirstOf
<1>5. ASSUME NEW h \in FirstOf(pieces), NEW i \in FirstOf(pieces),
             SameRow(pieces[j], pieces[h]), SameRow(pieces[j], pieces[i]), h # i
      PROVE  FALSE
  <2>1. h \in 1..Len(pieces) /\ i \in 1..Len(pieces)
    BY <1>1 DEF FirstOf
  <2>2. SameRow(pieces[h], pieces[i]) /\ SameRow(pieces[i], pieces[h])
    BY <1>5 DEF SameRow
  <2>3. h \in 1..(i - 1) \/ i \in 1..(h - 1)
    BY <1>5, <2>1
  <2> QED BY <2>2, <2>3 DEF FirstOf
<1> QED BY <1>4, <1>5

\* The areas a table shows, times their quantities, are the areas of the
\* pieces, if rows that look equal measure the same.
LEMMA DetailsAre ==
    ASSUME NEW pieces, pieces \in Seq(Range(pieces))
    PROVE  LET first == FirstOf(pieces)
               n == Cardinality(first)
               details == PieceDetails(pieces)
               Quantity(i) == SumOf([j \in DOMAIN pieces |->
                                      IF SameRow(pieces[j], pieces[i]) THEN pieces[j].qty ELSE 0])
           IN  /\ first \in SUBSET (1..Len(pieces))
               /\ DOMAIN details = 1..n
               /\ details = [k \in 1..n |-> details[k]]
               /\ \A k \in 1..n :
                    LET i == Nth(first, k)
                    IN details[k] = [desc |-> pieces[i].desc, amb |-> pieces[i].amb, largo |-> pieces[i].largo,
                                     dim2 |-> pieces[i].dim2, override |-> pieces[i].override > 0,
                                     m2 |-> PieceM2(pieces[i]), qty |-> Quantity(i)]
<1>1. DOMAIN pieces = 1..Len(pieces)
  BY LenProperties
<1>2. FirstOf(pieces) \in SUBSET (1..Len(pieces))
  BY <1>1 DEF FirstOf
<1> QED BY <1>2 DEF PieceDetails, FirstOf, TotalOf, Total

Measured(pieces) == pieces \in Seq(Range(pieces)) /\ \A i \in DOMAIN pieces : IsPiece(pieces[i])

IsDetail(d) ==
  DOMAIN d = {"desc", "amb", "largo", "dim2", "override", "m2", "qty"} /\ d.m2 \in Nat /\ d.qty \in Nat

LEMMA DetailsAreTyped ==
    ASSUME NEW pieces, Measured(pieces)
    PROVE  LET details == PieceDetails(pieces)
               n == Cardinality(FirstOf(pieces))
           IN  /\ n \in Nat /\ IsFiniteSet(1..n) /\ DOMAIN details = 1..n
               /\ \A k \in 1..n : IsDetail(details[k])
<1> DEFINE first == FirstOf(pieces)
           n == Cardinality(first)
           details == PieceDetails(pieces)
           Quantity(i) == SumOf([j \in DOMAIN pieces |->
                                  IF SameRow(pieces[j], pieces[i]) THEN pieces[j].qty ELSE 0])
<1>1. Len(pieces) \in Nat /\ DOMAIN pieces = 1..Len(pieces) /\ IsFiniteSet(DOMAIN pieces)
  BY Indices DEF Measured
<1>2. /\ first \in SUBSET (1..Len(pieces)) /\ DOMAIN details = 1..n
      /\ \A k \in 1..n :
           LET i == Nth(first, k)
           IN details[k] = [desc |-> pieces[i].desc, amb |-> pieces[i].amb, largo |-> pieces[i].largo,
                            dim2 |-> pieces[i].dim2, override |-> pieces[i].override > 0,
                            m2 |-> PieceM2(pieces[i]), qty |-> Quantity(i)]
  BY DetailsAre DEF Measured
<1>3. n \in Nat /\ \A k \in 1..n : Nth(first, k) \in first
  <2> HIDE DEF first
  <2> QED BY <1>1, <1>2, CountedOnce
<1>4. IsFiniteSet(1..n)
  <2> HIDE DEF n
  <2> QED BY <1>3, FS_Interval
<1>5. ASSUME NEW i \in DOMAIN pieces PROVE Quantity(i) \in Nat /\ PieceM2(pieces[i]) \in Nat
  <2>1. [j \in DOMAIN pieces |-> IF SameRow(pieces[j], pieces[i]) THEN pieces[j].qty ELSE 0]
          \in [DOMAIN pieces -> Nat]
    BY DEF Measured, IsPiece
  <2> QED BY <1>1, <2>1, SumOfNats, PieceM2Near DEF Measured
<1>6. ASSUME NEW k \in 1..n PROVE IsDetail(details[k])
  <2> DEFINE i == Nth(first, k)
  <2>1. i \in DOMAIN pieces
    BY <1>1, <1>2, <1>3
  <2>2. details[k] = [desc |-> pieces[i].desc, amb |-> pieces[i].amb, largo |-> pieces[i].largo,
                            dim2 |-> pieces[i].dim2, override |-> pieces[i].override > 0,
                            m2 |-> PieceM2(pieces[i]), qty |-> Quantity(i)]
    BY <1>2
  <2> HIDE DEF i, details, n, first, Quantity
  <2> QED BY <1>5, <2>1, <2>2 DEF IsDetail
<1> QED BY <1>2, <1>3, <1>4, <1>6

\* The table adds up to the area that is charged, if rows that look the same
\* measure the same.
LEMMA TableAddsUp ==
    ASSUME NEW pieces, Measured(pieces),
           \A i, j \in DOMAIN pieces :
             SameRow(pieces[i], pieces[j]) => PieceM2(pieces[i]) = PieceM2(pieces[j])
    PROVE  Total(PieceDetails(pieces), LAMBDA d : d.m2 * d.qty) = CalculateM2(pieces)
<1> DEFINE D == DOMAIN pieces
           first == FirstOf(pieces)
           n == Cardinality(first)
           details == PieceDetails(pieces)
           v == [j \in D |-> PieceM2(pieces[j])]
           w == [j \in D |-> PieceM2(pieces[j]) * pieces[j].qty]
           same(k, j) == SameRow(pieces[j], pieces[Nth(first, k)])
           q(k) == [j \in D |-> IF same(k, j) THEN pieces[j].qty ELSE 0]
           m == [k \in 1..n |-> [j \in D |-> IF same(k, j) THEN w[j] ELSE 0]]
<1>1. Len(pieces) \in Nat /\ D = 1..Len(pieces) /\ IsFiniteSet(D)
  BY Indices DEF Measured
<1>2. /\ first \in SUBSET (1..Len(pieces)) /\ DOMAIN details = 1..n
      /\ \A k \in 1..n : details[k].m2 = v[Nth(first, k)] /\ details[k].qty = SumOf(q(k))
  <2>1. first \in SUBSET (1..Len(pieces))
    BY DetailsAre DEF Measured
  <2>2. \A k \in 1..n : Nth(first, k) \in D
    <3> HIDE DEF first
    <3> QED BY <1>1, <2>1, CountedOnce
  <2>3. DOMAIN details = 1..n
    BY DetailsAre DEF Measured
  <2>4. ASSUME NEW k \in 1..n
        PROVE  details[k].m2 = PieceM2(pieces[Nth(first, k)]) /\ details[k].qty = SumOf(q(k))
    <3> DEFINE i == Nth(first, k)
               sum == SumOf([j \in DOMAIN pieces |->
                              IF SameRow(pieces[j], pieces[i]) THEN pieces[j].qty ELSE 0])
    <3>1. details[k] = [desc |-> pieces[i].desc, amb |-> pieces[i].amb, largo |-> pieces[i].largo,
                        dim2 |-> pieces[i].dim2, override |-> pieces[i].override > 0,
                        m2 |-> PieceM2(pieces[i]), qty |-> sum]
      BY DetailsAre DEF Measured
    <3>2. sum = SumOf(q(k))
      OBVIOUS
    <3> HIDE DEF sum, details, i, q
    <3>3. details[k].m2 = PieceM2(pieces[i]) /\ details[k].qty = sum
      BY <3>1
    <3> QED BY <3>2, <3>3 DEF i
  <2>5. \A k \in 1..n : v[Nth(first, k)] = PieceM2(pieces[Nth(first, k)])
    BY <2>2
  <2> HIDE DEF first, details, n, v, q
  <2> QED BY <2>1, <2>3, <2>4, <2>5
<1>3. /\ n \in Nat
      /\ \A k \in 1..n : Nth(first, k) \in D
      /\ \A h, k \in 1..n : Nth(first, h) = Nth(first, k) => h = k
      /\ \A i \in first : \E k \in 1..n : Nth(first, k) = i
      /\ \A k \in 1..n : Nth(first, k) \in first
  <2> HIDE DEF first
  <2> QED BY <1>1, <1>2, CountedOnce
<1>4. IsFiniteSet(1..n)
  <2> HIDE DEF n
  <2> QED BY <1>3, FS_Interval
<1>5. \A j \in D : v[j] \in Nat /\ pieces[j].qty \in Nat /\ w[j] = v[j] * pieces[j].qty /\ w[j] \in Nat
  BY PieceM2Near DEF Measured, IsPiece
<1>6. \A k \in 1..n, j \in D : m[k][j] = (IF same(k, j) THEN w[j] ELSE 0) /\ m[k][j] \in Int
  BY <1>5
<1>7. SumOf(Rows(m, 1..n, D)) = SumOf(Columns(m, 1..n, D))
  <2> HIDE DEF m, n, D
  <2> QED BY <1>1, <1>4, <1>6, SumsExchange
<1>8. ASSUME NEW k \in 1..n PROVE SumOf(Over(m[k], D)) = details[k].m2 * details[k].qty
  <2> DEFINE c == v[Nth(first, k)]
             f == q(k)
             h == m[k]
  <2>1. Nth(first, k) \in D /\ c \in Int
    BY <1>3, <1>5
  <2>2. ASSUME NEW j \in D PROVE f[j] \in Int /\ h[j] = c * f[j]
    <3>1. f[j] = (IF same(k, j) THEN pieces[j].qty ELSE 0) /\ h[j] = IF same(k, j) THEN w[j] ELSE 0
      OBVIOUS
    <3>2. same(k, j) => c = v[j]
      BY <2>1
    <3> HIDE DEF f, h, c, same, v, w
    <3>3. c * 0 = 0
      BY <2>1
    <3> QED BY <1>5, <3>1, <3>2, <3>3
  <2>3. f = Over(f, D) /\ details[k].qty = SumOf(f) /\ details[k].m2 = c
    BY <1>2 DEF Over
  <2> HIDE DEF f, h, c, D
  <2>4. SumOf(Over(h, D)) = c * SumOf(Over(f, D))
    BY <1>1, <2>1, <2>2, SumIsScaled
  <2> QED BY <2>3, <2>4 DEF h
<1>9. ASSUME NEW j \in D PROVE SumOf(Column(m, 1..n, j)) = w[j]
  <2>1. PICK i \in first : SameRow(pieces[j], pieces[i])
    BY OneFirst DEF Measured
  <2>2. PICK r \in 1..n : Nth(first, r) = i
    BY <1>3
  <2> DEFINE f == [k \in 1..n |-> m[k][j]]
  <2>3. f[r] = w[j] /\ f[r] \in Int
    BY <1>5, <1>6, <2>1, <2>2
  <2>4. ASSUME NEW k \in (1..n) \ {r} PROVE f[k] = 0
    <3>1. Nth(first, k) \in first /\ Nth(first, k) # i
      BY <1>3, <2>2
    <3>2. ~same(k, j)
      BY <2>1, <3>1, OneFirst DEF Measured
    <3> QED BY <1>6, <3>2
  <2>5. Column(m, 1..n, j) = Over(f, 1..n)
    BY DEF Column, Over
  <2> HIDE DEF f, m, n, w
  <2>6. SumOf(Over(f, 1..n)) = f[r]
    BY <1>4, <2>3, <2>4, SumOfOne
  <2> QED BY <2>3, <2>5, <2>6
<1>10. Rows(m, 1..n, D) = [k \in DOMAIN details |-> details[k].m2 * details[k].qty]
  <2> HIDE DEF m, n, details, D
  <2> QED BY <1>2, <1>8 DEF Rows
<1>11. Columns(m, 1..n, D) = [j \in DOMAIN pieces |-> PieceM2(pieces[j]) * pieces[j].qty]
  <2> HIDE DEF m, n
  <2> QED BY <1>9 DEF Columns
<1> HIDE DEF m, n, details, D
<1> QED BY <1>7, <1>10, <1>11 DEF Total, CalculateM2, details

-----------------------------------------------------------------------------

Result == {"ok", "mode", "sku", "m2", "price", "base", "currency", "gross", "net", "discount",
           "discountAmount", "moDiscount", "moDiscountAmount", "merma", "sobrante", "details",
           "mo", "sinks", "totalMo", "totalArs", "totalUsd", "colocacion", "edificio", "pileta",
           "piletaQty", "anafe", "frentin", "regrueso", "regruesoMl", "inglete", "skipFlete"}

\* The part of a breakdown that patch_quote_mo writes.
Patched == {"mo", "totalArs", "totalUsd"}

IsRow(row) ==
  /\ DOMAIN row = {"exists", "bd", "docs", "paso1", "material"}
  /\ Measured(row.paso1)

\* A line of labour; the price of the flete is that of its zone, and no less.
Charged(line) ==
  /\ DOMAIN line = {"kind", "qty", "unit", "base", "total", "vat", "edif"}
  /\ line.qty \in Nat /\ line.unit \in Nat /\ line.base \in Nat /\ line.total \in Nat
  /\ line.kind = "flete" =>
       \E z \in DOMAIN Zones : line.total * 100 = FindFlete(z).price * line.qty

IsList(s) == s \in Seq(Range(s))
Sold(sinks) == IsList(sinks) /\ \A i \in DOMAIN sinks : IsSink(sinks[i])

Sound(bd) ==
  /\ bd.mode \in {"full", "products_only"}
  /\ bd.mode = "full" => bd.sku \in Materials
  /\ bd.m2 \in Nat /\ bd.net \in Nat /\ bd.totalArs \in Nat /\ bd.totalUsd \in Nat
  /\ bd.piletaQty \in Nat /\ bd.moDiscount \in 0..100
  /\ IsList(bd.mo) /\ \A i \in DOMAIN bd.mo : Charged(bd.mo[i])
  /\ Sold(bd.sinks)

(* What is known of a priced row. *)
Computed(bd, in, edited) ==
  LET result == CalculateQuote(in)
  IN /\ IsInput(in) /\ result.ok /\ Sound(bd)
     /\ DOMAIN bd = Result /\ DOMAIN result = Result
     /\ \A f \in Result \ Patched : bd[f] = result[f]
     /\ ~edited => bd = result

IInv ==
  /\ DOMAIN quotes = Ids /\ DOMAIN asked = Ids
  /\ quotes[Main].exists
  /\ \A i \in Ids : quotes[i].exists => IsRow(quotes[i])
  /\ \A i \in Priceds : Computed(quotes[i].bd, asked[i], i \in patched)

-----------------------------------------------------------------------------
(* What the guards make of an input is an input.                           *)
LEMMA PreserveKeepsInput ==
    ASSUME NEW in, IsInput(in), NEW bd, bd.ok => Sound(bd), NEW now
    PROVE  IsInput(Preserve(in, bd, now))
<1>1. CASE bd.ok
  <2> DEFINE kept == Preserve(in, bd, now)
  <2>1. /\ DOMAIN kept = DOMAIN in
        /\ \A f \in DOMAIN in \ {"pileta", "anafe", "frentin", "inglete", "skipFlete", "moDiscount", "piletaQty"} :
             kept[f] = in[f]
        /\ kept.moDiscount \in 0..100 /\ kept.piletaQty \in Nat
    BY <1>1 DEF IsInput, Preserve, Sound
  <2> HIDE DEF kept
  <2>2. kept.discount = in.discount /\ kept.pieces = in.pieces /\ kept.sinks = in.sinks /\ kept.material = in.material
    BY <2>1 DEF IsInput
  <2>3. /\ kept.anafeQty = in.anafeQty /\ kept.frentinMl = in.frentinMl /\ kept.regruesoMl = in.regruesoMl
        /\ kept.briefRegrueso = in.briefRegrueso /\ kept.fleteQty = in.fleteQty /\ kept.tomasQty = in.tomasQty
    BY <2>1 DEF IsInput
  <2>4. \A f \in {"piletaQty", "anafeQty", "frentinMl", "regruesoMl", "briefRegrueso", "fleteQty",
               "tomasQty"} : kept[f] \in Nat
    BY <2>1, <2>3 DEF IsInput
  <2>5. IsText(kept.material) /\ kept.discount \in 0..100
    BY <2>2 DEF IsInput
  <2>6. /\ kept.pieces \in Seq(Range(kept.pieces)) /\ \A i \in DOMAIN kept.pieces : IsPiece(kept.pieces[i])
        /\ kept.sinks \in Seq(Range(kept.sinks)) /\ \A i \in DOMAIN kept.sinks : IsSink(kept.sinks[i])
    BY <2>2 DEF IsInput
  <2>7. IsInput(kept)
    BY <2>1, <2>4, <2>5, <2>6 DEF IsInput
  <2> QED BY <2>7 DEF kept
<1>2. CASE ~bd.ok
  BY <1>2 DEF Preserve
<1> QED BY <1>1, <1>2

LEMMA GuardsKeepInput ==
    ASSUME NEW in, IsInput(in), NEW bd, bd.ok => Sound(bd), NEW now, NEW said
    PROVE  IsInput(Effective(in, bd, now, said))
<1>1. IsInput(Preserve(in, bd, now))
  BY PreserveKeepsInput
<1>2. ASSUME NEW x, IsInput(x) PROVE IsInput(NoProduct(x, said))
  BY <1>2 DEF IsInput, NoProduct
<1>3. ASSUME NEW x, IsInput(x) PROVE IsInput(MoListAuthority(x, said))
  BY <1>3 DEF IsInput, MoListAuthority
<1>4. ASSUME NEW x, IsInput(x) PROVE IsInput(GrisMaraGuard(x))
  BY <1>4 DEF IsInput, IsText, GrisMaraGuard
<1>5. ASSUME NEW x, IsInput(x) PROVE IsInput(RegruesoGuard(x))
  BY <1>5 DEF IsInput, RegruesoGuard
<1>6. ASSUME NEW x, IsInput(x) PROVE IsInput(KeywordPileta(x, said))
  BY <1>6 DEF IsInput, KeywordPileta
<1>7. ASSUME NEW x, IsInput(x) PROVE IsInput(SkipFlete(x, said))
  BY <1>7 DEF IsInput, SkipFlete
<1> QED BY <1>1, <1>2, <1>3, <1>4, <1>5, <1>6, <1>7 DEF Effective

LEMMA Paso1KeepsInput ==
    ASSUME NEW in, IsInput(in), NEW paso1, Measured(paso1)
    PROVE  IsInput(WithPaso1(in, paso1))
<1> DEFINE listed == [in EXCEPT !.pieces = paso1]
<1>1. WithPaso1(in, paso1) \in {in, listed}
  BY DEF WithPaso1
<1>2. /\ DOMAIN listed = DOMAIN in /\ listed.pieces = paso1
      /\ \A f \in DOMAIN in \ {"pieces"} : listed[f] = in[f]
  BY DEF IsInput
<1> HIDE DEF listed
<1>3. IsInput(listed)
  BY <1>2 DEF IsInput, Measured
<1> QED BY <1>1, <1>3

-----------------------------------------------------------------------------
(* The search *)

\* Of percentages one is the highest.
LEMMA Highest ==
    ASSUME NEW S, S # {}, NEW score, \A m \in S : score[m] \in 0..100
    PROVE  \E m \in S : \A n \in S : score[m] >= score[n]
<1> DEFINE Off == {k \in Nat : \E m \in S : k = 100 - score[m]}
<1>1. \A m \in S : score[m] \in 0..100 /\ 100 - score[m] \in Off
  OBVIOUS
<1>2. Off \subseteq Nat /\ Off # {}
  BY <1>1
<1>3. \E k \in Off : \A y \in Nat : <<y, k>> \in OpToRel(<, Nat) => y \notin Off
  <2> HIDE DEF Off
  <2> QED BY <1>2, NatLessThanWellFounded, WFMin
<1>4. PICK k \in Off : \A y \in Nat : <<y, k>> \in OpToRel(<, Nat) => y \notin Off
  BY <1>3
<1>5. PICK m \in S : k = 100 - score[m]
  BY <1>4
<1>6. ASSUME NEW n \in S, score[n] > score[m] PROVE FALSE
  <2>1. 100 - score[n] \in Off /\ 100 - score[n] < k /\ 100 - score[n] \in Nat /\ k \in Nat
    <3>1. score[n] \in 0..100 /\ score[m] \in 0..100 /\ 100 - score[n] \in Off
      BY <1>1
    <3> QED BY <3>1, <1>2, <1>5, <1>6
  <2>2. <<100 - score[n], k>> \in OpToRel(<, Nat)
    BY <2>1 DEF OpToRel
  <2> QED BY <1>4, <2>1, <2>2
<1>7. ASSUME NEW n \in S PROVE score[m] >= score[n]
  <2>1. score[n] \in 0..100 /\ score[m] \in 0..100
    OBVIOUS
  <2> QED BY <1>6, <2>1
<1> QED BY <1>7

LEMMA FinishedInScope == ASSUME NEW text PROVE Finished(text) \subseteq Scope(text)
BY DEF Finished

(* The fuzzy search finds a row of the family asked for, EXTRA or not.     *)
LEMMA FuzzyInScope ==
    ASSUME NEW text, IsText(text), FuzzyBest(text) # None
    PROVE  FuzzyBest(text) \in Scope(text)
<1> DEFINE close == {m \in Finished(text) : text.score[m] >= Cutoff(text)}
           best == CHOOSE m \in close : \A n \in close : text.score[m] >= text.score[n]
<1>1. close \subseteq Scope(text) /\ Scope(text) \subseteq Materials
  BY FinishedInScope DEF Scope
<1>2. close # {}
  BY DEF FuzzyBest
<1>3. best \in close
  <2>1. \A m \in close : text.score[m] \in 0..100
    BY <1>1 DEF IsText
  <2> HIDE DEF close
  <2>2. \E m \in close : \A n \in close : text.score[m] >= text.score[n]
    BY <1>2, <2>1, Highest
  <2> QED BY <2>2
<1>4. ExtraSiblings(text, best) \subseteq Scope(text)
  BY FinishedInScope DEF ExtraSiblings
<1>5. ExtraSiblings(text, best) # {} => (CHOOSE n \in ExtraSiblings(text, best) : TRUE) \in ExtraSiblings(text, best)
  OBVIOUS
<1>6. FuzzyBest(text) = IF ~Catalog[best].extra /\ ExtraSiblings(text, best) # {}
                        THEN CHOOSE n \in ExtraSiblings(text, best) : TRUE ELSE best
  BY <1>2 DEF FuzzyBest
<1> HIDE DEF best
<1> QED BY <1>1, <1>3, <1>4, <1>5, <1>6

LEMMA FoundInFamily ==
    ASSUME NEW text, IsText(text), FindMaterial(text).found
    PROVE  LET named == IF SettledGrisMara(text) THEN "granito" ELSE text.family
           IN  named # None => Catalog[FindMaterial(text).sku].family = named
<1> DEFINE sku == FindMaterial(text).sku
<1>1. CASE SettledGrisMara(text)
  <2>1. sku = GrisMara
    BY <1>1 DEF FindMaterial
  <2> QED BY <1>1, <2>1, CatalogAssumption DEF SettledGrisMara
<1>2. CASE ~SettledGrisMara(text)
  <2>1. sku \in Scope(text)
    <3>1. ~text.generic
      BY <1>2 DEF FindMaterial, NotFound
    <3>2. CASE text.exact \in Scope(text)
      BY <1>2, <3>1, <3>2 DEF FindMaterial
    <3>3. CASE text.exact \notin Scope(text)
      <4>1. FuzzyBest(text) # None /\ sku = FuzzyBest(text)
        BY <1>2, <3>1, <3>3 DEF FindMaterial, NotFound
      <4> QED BY <4>1, FuzzyInScope
    <3> QED BY <3>2, <3>3
  <2> QED BY <1>2, <2>1 DEF Scope
<1> QED BY <1>1, <1>2

-----------------------------------------------------------------------------
(* The calculator *)

AddsUp(result) == DOMAIN result = Result /\ <<result.totalArs, result.totalUsd>> = Due(result)

LEMMA BillAddsUp ==
    ASSUME NEW in, NEW m, NEW m2, NEW price, NEW mo
    PROVE  AddsUp(Bill(in, m, m2, price, mo)) /\ Bill(in, m, m2, price, mo).sku = m
<1> DEFINE bill == Bill(in, m, m2, price, mo)
           gross == HalfEven(m2 * price, Metre)
           off == HalfEven(gross * DiscountPct(in, m, m2), 100)
           sobrante == HalfEven(CalculateMerma(m2, m, in.edificio).sobrante * price, Metre)
           moOff == MoDiscount(mo, in.moDiscount)
           grand == GrandTotal(Catalog[m].currency, (MoTotal(mo) - moOff) + SinksTotal(Sinks(in)),
                               (gross - off) + sobrante)
<1>1. /\ DOMAIN bill = Result /\ bill.ok = TRUE /\ bill.mode = "full" /\ bill.sku = m
      /\ bill.currency = Catalog[m].currency /\ bill.net = gross - off
      /\ bill.sobrante = sobrante /\ bill.mo = mo /\ bill.moDiscountAmount = moOff
      /\ bill.sinks = Sinks(in) /\ bill.totalArs = grand[1] /\ bill.totalUsd = grand[2]
  BY DEF Bill, Result
<1> HIDE DEF bill, gross, off, sobrante, moOff
<1>2. <<grand[1], grand[2]>> = grand
  BY DEF GrandTotal
<1>3. Due(bill) = grand
  BY <1>1 DEF Due, GrandTotal
<1> QED BY <1>1, <1>2, <1>3 DEF bill, AddsUp

LEMMA SinksAddUp ==
    ASSUME NEW in, ProductsOnly(in) # Refused("no_sink")
    PROVE  AddsUp(ProductsOnly(in)) /\ ProductsOnly(in).mode = "products_only"
<1> DEFINE valid == Picked(in.sinks, LAMBDA s : s.qty > 0 /\ s.price > 0)
           sinks == IF in.sinks # <<>> THEN valid
               ELSE IF in.sku \in DOMAIN SinkPrices
                    THEN <<[qty |-> in.piletaQty, price |-> SinkPrices[in.sku]]>> ELSE <<>>
           sale == ProductsOnly(in)
           off == HalfEven(SinksTotal(sinks) * in.discount, 100)
<1>1. /\ DOMAIN sale = Result /\ sale.ok = TRUE /\ sale.mode = "products_only"
      /\ sale.sinks = sinks /\ sale.discountAmount = off
      /\ sale.totalArs = SinksTotal(sinks) - off /\ sale.totalUsd = 0
  BY DEF ProductsOnly, Result
<1> HIDE DEF sinks, off, sale
<1>2. Due(sale) = <<sale.totalArs, sale.totalUsd>>
  BY <1>1 DEF Due
<1> QED BY <1>1, <1>2 DEF sale, AddsUp

(* A result has the fields the tools read; unless it is a sale of sinks    *)
(* alone, its material is the one the search found.                        *)
LEMMA Results ==
    ASSUME NEW in, CalculateQuote(in).ok
    PROVE  LET result == CalculateQuote(in) IN
           /\ AddsUp(result)
           /\ result.mode = "full" =>
                FindMaterial(in.material).found /\ result.sku = FindMaterial(in.material).sku
<1> DEFINE result == CalculateQuote(in)
           found == FindMaterial(in.material)
<1>1. \/ result = ProductsOnly(in) /\ result # Refused("no_sink")
      \/ found.found /\ result = Priced(in, found.sku)
  <2>1. \A why : ~Refused(why).ok
    BY DEF Refused
  <2> QED BY <2>1 DEF CalculateQuote
<1>2. CASE result = ProductsOnly(in) /\ result # Refused("no_sink")
  BY <1>2, SinksAddUp
<1>3. CASE found.found /\ result = Priced(in, found.sku)
  <2> DEFINE m2 == MaterialM2(in)
             price == WithVat(Catalog[found.sku].base, Catalog[found.sku].currency)
             mo == MoItems(in, found.sku)
  <2>1. result = Bill(in, found.sku, m2, price, mo)
    BY <1>3 DEF Priced
  <2>2. AddsUp(Bill(in, found.sku, m2, price, mo)) /\ Bill(in, found.sku, m2, price, mo).sku = found.sku
    BY BillAddsUp
  <2> QED BY <1>3, <2>1, <2>2
<1> QED BY <1>1, <1>2, <1>3

-----------------------------------------------------------------------------
(* The lines of a calculation *)

LEMMA FunctionsAreSequences ==
    ASSUME NEW S, NEW n \in Nat, NEW f \in [1..n -> S] PROVE f \in Seq(S)
BY SeqDef

LEMMA DetailsAreListed ==
    ASSUME NEW pieces, pieces \in Seq(Range(pieces))
    PROVE  \E n \in Nat : DOMAIN PieceDetails(pieces) = 1..n
<1> DEFINE first == {i \in DOMAIN pieces : \A j \in 1..(i - 1) : ~SameRow(pieces[i], pieces[j])}
<1>1. Len(pieces) \in Nat /\ DOMAIN pieces = 1..Len(pieces)
  BY LenProperties
<1>2. IsFiniteSet(DOMAIN pieces)
  BY <1>1, FS_Interval
<1>3. Cardinality(first) \in Nat
  <2>1. first \in SUBSET DOMAIN pieces
    OBVIOUS
  <2> HIDE DEF first
  <2> QED BY <1>2, <2>1, FS_Subset, FS_CardinalityType
<1>4. DOMAIN PieceDetails(pieces) = 1..Cardinality(first)
  BY DEF PieceDetails
<1> QED BY <1>3, <1>4

\* The rooms can be put in a row, whatever the pieces are.
LEMMA PlacementsAreListed ==
    ASSUME NEW in, in.pieces \in Seq(Range(in.pieces)), NEW sint
    PROVE  ColocacionLines(in, sint) \in Seq(Range(ColocacionLines(in, sint)))
<1> DEFINE details == PieceDetails(in.pieces)
           placed == {k \in DOMAIN details : ~IsFrentin(details[k]) /\ details[k].amb # None}
           rooms == {details[i].amb : i \in placed}
           order == SetToSeq(rooms)
           lines == ColocacionLines(in, sint)
<1>1. IsFiniteSet(rooms)
  <2>1. PICK n \in Nat : DOMAIN details = 1..n
    BY DetailsAreListed
  <2> DEFINE room == [i \in placed |-> details[i].amb]
  <2>2. IsFiniteSet(placed)
    <3>1. placed \in SUBSET (1..n)
      BY <2>1
    <3> HIDE DEF placed
    <3>2. IsFiniteSet(1..n)
      BY FS_Interval
    <3> QED BY <3>1, <3>2, FS_Subset
  <2> HIDE DEF details, placed
  <2>3. room \in Surjection(placed, rooms)
    BY DEF Surjection
  <2> QED BY <2>2, <2>3, FS_Surjection
<1>2. order \in [1..Cardinality(rooms) -> rooms] /\ Cardinality(rooms) \in Nat
  <2> HIDE DEF rooms
  <2>1. PICK f \in Bijection(1..Cardinality(rooms), rooms) : TRUE
    BY <1>1, FS_CardinalityType DEF ExistsBijection
  <2>2. f \in [1..Cardinality(rooms) -> rooms] /\ IsInjective(f)
    BY <2>1 DEF Bijection, Injection
  <2> QED BY <1>1, <2>2, FS_CardinalityType DEF SetToSeq
<1>3. \/ lines = <<>>
      \/ DOMAIN lines = DOMAIN order /\ lines = [i \in DOMAIN lines |-> lines[i]]
      \/ \E line : lines = <<line>>
  BY DEF ColocacionLines
<1> HIDE DEF order, lines
<1>4. ASSUME DOMAIN lines = DOMAIN order, lines = [i \in DOMAIN lines |-> lines[i]]
      PROVE  lines \in Seq(Range(lines))
  <2>1. lines \in [1..Cardinality(rooms) -> Range(lines)]
    BY <1>2, <1>4 DEF Range
  <2> QED BY <1>2, <2>1, FunctionsAreSequences
<1>5. ASSUME NEW line, lines = <<line>> PROVE lines \in Seq(Range(lines))
  BY <1>5 DEF Range
<1>6. lines = <<>> => lines \in Seq(Range(lines))
  OBVIOUS
<1>7. lines \in Seq(Range(lines))
  BY <1>3, <1>4, <1>5, <1>6
<1> QED BY <1>7 DEF lines

HasLine(s, kinds) == \E i \in DOMAIN s : "kind" \in DOMAIN s[i] /\ s[i].kind \in kinds

LEMMA EmptyIsList == IsList(<<>>)
BY DEF IsList

LEMMA OneIsList == ASSUME NEW x PROVE IsList(<<x>>)
BY DEF IsList, Range

LEMMA Joined ==
    ASSUME NEW s, NEW t, IsList(s), IsList(t)
    PROVE  /\ IsList(s \o t)
           /\ \A kinds : HasLine(s, kinds) \/ HasLine(t, kinds) => HasLine(s \o t, kinds)
<1> DEFINE All == Range(s) \cup Range(t)
           st == s \o t
<1>1. s \in Seq(All) /\ t \in Seq(All)
  BY DEF IsList
<1>2. st \in Seq(All)
  BY <1>1, ConcatProperties
<1> HIDE DEF All
<1>3. /\ Len(s) \in Nat /\ DOMAIN s = 1..Len(s) /\ Len(t) \in Nat /\ DOMAIN t = 1..Len(t)
      /\ Len(st) \in Nat /\ DOMAIN st = 1..Len(st) /\ Len(st) = Len(s) + Len(t)
      /\ \A i \in 1..Len(s) : st[i] = s[i]
      /\ \A i \in 1..Len(t) : st[Len(s) + i] = t[i]
  BY <1>1, <1>2, LenProperties, ConcatProperties
<1> HIDE DEF st
<1>4. IsList(st)
  <2>1. st \in [1..Len(st) -> Range(st)]
    BY <1>2, <1>3 DEF Range
  <2> QED BY <1>3, <2>1, FunctionsAreSequences DEF IsList
<1>5. ASSUME NEW kinds, HasLine(s, kinds) PROVE HasLine(st, kinds)
  <2>1. PICK i \in 1..Len(s) : "kind" \in DOMAIN s[i] /\ s[i].kind \in kinds
    BY <1>3, <1>5 DEF HasLine
  <2> QED BY <1>3, <2>1 DEF HasLine
<1>6. ASSUME NEW kinds, HasLine(t, kinds) PROVE HasLine(st, kinds)
  <2>1. PICK i \in 1..Len(t) : "kind" \in DOMAIN t[i] /\ t[i].kind \in kinds
    BY <1>3, <1>6 DEF HasLine
  <2>2. Len(s) + i \in 1..Len(st)
    BY <1>3
  <2> QED BY <1>3, <2>1, <2>2 DEF HasLine
<1> QED BY <1>4, <1>5, <1>6 DEF st

(* The lines of the sink and the cooktop reach the table of labour.        *)
LEMMA WorkIsBilled ==
    ASSUME NEW in, in.pieces \in Seq(Range(in.pieces)), NEW m
    PROVE  /\ in.anafe => HasLine(MoItems(in, m), {"anafe"})
           /\ in.pileta # None /\ PiletaQty(in) # 0 => HasLine(MoItems(in, m), {"pileta", "apoyo"})
<1> DEFINE sint == Sinterized(m)
           P == PiletaLines(in, sint)
           A == AnafeLines(in, sint)
           C == ColocacionLines(in, sint)
           F == FrentinLines(in, sint)
           R == RegruesoLines(in)
           T == FleteLines(in)
           E == TomasLines(in, sint)
           lines == P \o A \o C \o F \o R \o T \o E
<1>1. IsList(P) /\ IsList(A) /\ IsList(C) /\ IsList(F) /\ IsList(R) /\ IsList(T) /\ IsList(E)
  <2>1. IsList(P) /\ IsList(A) /\ IsList(R) /\ IsList(E)
    BY EmptyIsList, OneIsList, Joined DEF PiletaLines, AnafeLines, RegruesoLines, TomasLines
  <2>2. IsList(C)
    BY PlacementsAreListed DEF IsList
  <2>3. IsList(F) /\ IsList(T)
    BY EmptyIsList, OneIsList, Joined DEF FrentinLines, FleteLines
  <2> QED BY <2>1, <2>2, <2>3
<1>2. in.anafe => HasLine(A, {"anafe"})
  BY DEF AnafeLines, MoLine, Line, HasLine
<1>3. in.pileta # None /\ PiletaQty(in) # 0 => HasLine(P, {"pileta", "apoyo"})
  BY DEF PiletaLines, MoLine, Line, HasLine
<1> HIDE DEF P, A, C, F, R, T, E
<1>4. ASSUME NEW kinds, HasLine(P, kinds) \/ HasLine(A, kinds) PROVE HasLine(lines, kinds)
  <2>1. IsList(P \o A) /\ HasLine(P \o A, kinds)
    BY <1>1, <1>4, Joined
  <2>2. IsList(P \o A \o C) /\ HasLine(P \o A \o C, kinds)
    BY <1>1, <2>1, Joined
  <2>3. IsList(P \o A \o C \o F) /\ HasLine(P \o A \o C \o F, kinds)
    BY <1>1, <2>2, Joined
  <2>4. IsList(P \o A \o C \o F \o R) /\ HasLine(P \o A \o C \o F \o R, kinds)
    BY <1>1, <2>3, Joined
  <2>5. IsList(P \o A \o C \o F \o R \o T) /\ HasLine(P \o A \o C \o F \o R \o T, kinds)
    BY <1>1, <2>4, Joined
  <2> QED BY <1>1, <2>5, Joined
<1>5. ASSUME NEW kinds, HasLine(lines, kinds) PROVE HasLine(MoItems(in, m), kinds)
  <2> DEFINE all == lines
  <2>1. MoItems(in, m) = IF in.edificio THEN [i \in DOMAIN all |-> Edificio(all[i])] ELSE all
    BY DEF MoItems, P, A, C, F, R, T, E
  <2> HIDE DEF all
  <2>2. ASSUME NEW line, "kind" \in DOMAIN line
        PROVE  "kind" \in DOMAIN Edificio(line) /\ Edificio(line).kind = line.kind
    BY <2>2 DEF Edificio
  <2>3. PICK i \in DOMAIN all : "kind" \in DOMAIN all[i] /\ all[i].kind \in kinds
    BY <1>5 DEF HasLine, all
  <2> QED BY <2>1, <2>2, <2>3 DEF HasLine
<1> QED BY <1>2, <1>3, <1>4, <1>5

\* A calculation with material has the lines of its labour.
LEMMA FullHasLabour ==
    ASSUME NEW in, CalculateQuote(in).ok, CalculateQuote(in).mode = "full"
    PROVE  CalculateQuote(in).mo = MoItems(in, FindMaterial(in.material).sku)
<1> DEFINE result == CalculateQuote(in)
           sku == FindMaterial(in.material).sku
<1>1. \/ result = ProductsOnly(in) /\ result # Refused("no_sink")
      \/ result = Priced(in, sku)
  <2>1. \A why : ~Refused(why).ok
    BY DEF Refused
  <2> QED BY <2>1 DEF CalculateQuote
<1>2. result = Priced(in, sku)
  BY <1>1, SinksAddUp
<1>3. \A m2, price, mo : Bill(in, sku, m2, price, mo).mo = mo
  BY DEF Bill
<1> QED BY <1>2, <1>3 DEF Priced

(* What the saved breakdown has survives the guards, unless the operator   *)
(* writes otherwise.                                                       *)
LEMMA GuardsKeepWork ==
    ASSUME NEW in, IsInput(in), NEW bd, bd.ok, Sound(bd), NEW said, NEW now \in SUBSET said,
           {"no_pileta", "no_anafe", "no_product", "mo_list"} \cap said = {}
    PROVE  /\ Lines(bd, {"anafe"}) # {} => Effective(in, bd, now, said).anafe
           /\ Lines(bd, {"pileta", "apoyo"}) # {} => Effective(in, bd, now, said).pileta # None
<1> DEFINE kept == Preserve(in, bd, now)
           Work(x) == /\ Lines(bd, {"anafe"}) # {} => x.anafe
                      /\ Lines(bd, {"pileta", "apoyo"}) # {} => x.pileta # None
<1>1. "no_pileta" \notin now /\ "no_anafe" \notin now
  OBVIOUS
<1>2. Lines(bd, {"pileta", "apoyo"}) # {} => ExistingPileta(bd) # None
  BY CatalogAssumption DEF Lines, ExistingPileta
<1>3. IsInput(kept) /\ Work(kept)
  <2>1. IsInput(kept)
    BY PreserveKeepsInput
  <2>2. /\ kept.pileta = IF in.pileta = None THEN ExistingPileta(bd) ELSE in.pileta
        /\ kept.anafe = (in.anafe \/ bd.anafe \/ Lines(bd, {"anafe"}) # {})
    BY <1>1 DEF IsInput, Preserve
  <2> QED BY <1>2, <2>1, <2>2
<1> HIDE DEF kept
<1>4. NoProduct(kept, said) = kept /\ MoListAuthority(kept, said) = kept
  BY DEF NoProduct, MoListAuthority
<1>5. ASSUME NEW x, IsInput(x), Work(x) PROVE IsInput(GrisMaraGuard(x)) /\ Work(GrisMaraGuard(x))
  BY <1>5 DEF IsInput, IsText, GrisMaraGuard
<1>6. ASSUME NEW x, IsInput(x), Work(x) PROVE IsInput(RegruesoGuard(x)) /\ Work(RegruesoGuard(x))
  BY <1>6 DEF IsInput, RegruesoGuard
<1>7. ASSUME NEW x, IsInput(x), Work(x) PROVE IsInput(KeywordPileta(x, said)) /\ Work(KeywordPileta(x, said))
  BY <1>7, CatalogAssumption DEF IsInput, KeywordPileta
<1>8. ASSUME NEW x, IsInput(x), Work(x) PROVE Work(SkipFlete(x, said))
  BY <1>8 DEF IsInput, SkipFlete
<1>9. Effective(in, bd, now, said) = SkipFlete(KeywordPileta(RegruesoGuard(GrisMaraGuard(kept)), said), said)
  BY <1>4 DEF Effective, kept
<1> QED BY <1>3, <1>5, <1>6, <1>7, <1>8, <1>9

-----------------------------------------------------------------------------
(* Money *)

LEMMA PercentOff ==
    ASSUME NEW n \in Nat, NEW pct \in 0..100
    PROVE  HalfEven(n * pct, 100) \in 0..n
<1> DEFINE h == HalfEven(n * pct, 100)
<1>1. n * pct \in Nat /\ n * pct <= 100 * n
  <2>1. pct \in Nat /\ 100 - pct \in Nat /\ n * (100 - pct) \in Nat
    OBVIOUS
  <2>2. n * (100 - pct) = 100 * n - n * pct
    OBVIOUS
  <2> QED BY <2>1, <2>2
<1>2. h \in Nat /\ 2 * (100 * h) <= 2 * (n * pct) + 100
  BY <1>1, HalfEvenNear
<1> HIDE DEF h
<1>3. h <= n
  BY <1>1, <1>2
<1> QED BY <1>2, <1>3 DEF h

LEMMA WholeEven == ASSUME NEW n \in Nat PROVE HalfEven(100 * n, 100) = n
<1> DEFINE h == HalfEven(100 * n, 100)
<1>1. h \in Nat /\ 2 * (100 * h) <= 2 * (100 * n) + 100 /\ 2 * (100 * n) <= 2 * (100 * h) + 100
  BY HalfEvenNear
<1>2. (100 * n) \div 100 = n /\ (100 * n) % 100 = 0
  OBVIOUS
<1> QED BY <1>2 DEF HalfEven

LEMMA CeilCovers ==
    ASSUME NEW n \in Nat, NEW d \in Nat \ {0}
    PROVE  Ceil(n, d) * d - n \in Nat
<1> DEFINE q == (n + d - 1) \div d
           r == (n + d - 1) % d
<1>1. n + d - 1 \in Nat
  OBVIOUS
<1>2. q \in Nat /\ r \in 0..(d - 1) /\ n + d - 1 = d * q + r
  BY <1>1, Divided
<1>3. Ceil(n, d) = q /\ q * d = d * q /\ d * q \in Nat
  BY <1>2 DEF Ceil
<1> HIDE DEF q, r
<1> QED BY <1>2, <1>3

LEMMA WithVatIsNat == ASSUME NEW base \in Nat, NEW currency PROVE WithVat(base, currency) \in Nat
<1>1. base * 121 \in Nat /\ (base * 121) \div 100 \in Nat
  OBVIOUS
<1>2. HalfEven(base * 121, 100) \in Nat
  <2> DEFINE n == base * 121
  <2>1. n \in Nat
    OBVIOUS
  <2> HIDE DEF n
  <2>2. HalfEven(n, 100) \in Nat
    BY <2>1, HalfEvenNear
  <2> QED BY <2>2 DEF n
<1> QED BY <1>1, <1>2 DEF WithVat

LEMMA FleteIsPriced ==
    ASSUME NEW zone
    PROVE  LET f == FindFlete(zone) IN
           /\ f.zone \in DOMAIN Zones /\ FindFlete(f.zone) = f
           /\ f.base \in Nat /\ f.price \in Nat
           /\ f.price = IF f.vat THEN f.base ELSE HalfEven(f.base * 121, 100)
<1> DEFINE z == IF zone \in DOMAIN Zones THEN zone ELSE Rosario
<1>1. z \in DOMAIN Zones /\ Zones[z].base \in Nat
  BY ListsAssumption
<1>2. FindFlete(zone) = [zone |-> z, base |-> Zones[z].base, vat |-> Zones[z].vat, pulido |-> Zones[z].pulido,
                         price |-> IF Zones[z].vat THEN Zones[z].base ELSE WithVat(Zones[z].base, "ARS")]
  BY DEF FindFlete
<1> HIDE DEF z
<1>3. FindFlete(z) = FindFlete(zone)
  BY <1>1, <1>2 DEF FindFlete
<1>4. WithVat(Zones[z].base, "ARS") = HalfEven(Zones[z].base * 121, 100) /\ WithVat(Zones[z].base, "ARS") \in Nat
  BY <1>1, WithVatIsNat DEF WithVat
<1> QED BY <1>1, <1>2, <1>3, <1>4

LEMMA MermaIsNat ==
    ASSUME NEW m2 \in Nat, NEW m \in Materials, NEW edificio
    PROVE  CalculateMerma(m2, m, edificio).sobrante \in Nat
<1> DEFINE ref == IF Catalog[m].named = "silestone" THEN PlateM2(m) \div 2 ELSE PlateM2(m)
           left == Ceil(m2, ref) * ref - m2
           waste == 100 * HalfEven(left, 100)
<1>1. ref \in Nat \ {0}
  BY DEF PlateM2
<1>2. left \in Nat
  <2> HIDE DEF ref
  <2> QED BY <1>1, CeilCovers
<1>3. waste \in Nat
  <2> HIDE DEF left
  <2> QED BY <1>2, HalfEvenNear
<1>4. 100 * HalfEven(waste, 200) \in Nat
  <2> HIDE DEF waste
  <2> QED BY <1>3, HalfEvenNear
<1> QED BY <1>4 DEF CalculateMerma, NoMerma

LEMMA DiscountIsPercent ==
    ASSUME NEW in, IsInput(in), NEW m, NEW m2
    PROVE  DiscountPct(in, m, m2) \in 0..100
BY DEF IsInput, DiscountPct, ByCurrency

-----------------------------------------------------------------------------
(* Quantities *)

LEMMA PiecesAreCounted ==
    ASSUME NEW in, IsInput(in)
    PROVE  /\ Measured(in.pieces)
           /\ PiletaQty(in) \in Nat /\ FrentinMl(in) \in Nat /\ RegruesoMl(in) \in Nat
           /\ CalculateM2(in.pieces) \in Nat /\ MaterialM2(in) \in Nat /\ FleteQty(in) \in Nat
<1> DEFINE pieces == in.pieces
           D == DOMAIN in.pieces
<1>1. Measured(in.pieces) /\ IsFiniteSet(D) /\ \A i \in D : IsPiece(pieces[i])
  BY Indices DEF IsInput, Measured
<1>2. ASSUME NEW S, NEW f, \A i \in D : f[i] \in Nat PROVE SumOf([i \in D |-> IF i \in S THEN f[i] ELSE 0]) \in Nat
  <2>1. [i \in D |-> IF i \in S THEN f[i] ELSE 0] \in [D -> Nat]
    BY <1>2
  <2> QED BY <1>1, <2>1, SumOfNats
<1>3. \A i \in D : pieces[i].qty \in Nat /\ pieces[i].largo \in Nat
  BY <1>1 DEF IsPiece
<1>4. PiletaQty(in) \in Nat
  <2> DEFINE a == [i \in D |-> IF HasPileta(pieces[i]) THEN pieces[i].qty ELSE 0]
             b == [i \in D |-> IF IsMesada(pieces[i]) THEN pieces[i].qty ELSE 0]
  <2>1. SumOf(a) \in Nat /\ SumOf(b) \in Nat
    <3>1. a \in [D -> Nat] /\ b \in [D -> Nat]
      BY <1>3
    <3> QED BY <1>1, <3>1, SumOfNats
  <2>2. PiletaQty(in) \in {in.piletaQty, SumOf(a), SumOf(b)}
    BY DEF PiletaQty, TotalOf, Total
  <2>3. in.piletaQty \in Nat
    BY DEF IsInput
  <2> HIDE DEF a, b
  <2> QED BY <2>1, <2>2, <2>3
<1>5. FrentinMl(in) \in Nat /\ RegruesoMl(in) \in Nat
  <2> DEFINE a == [i \in D |-> IF IsFrentin(pieces[i]) THEN pieces[i].largo ELSE 0]
             b == [i \in D |-> IF IsRegrueso(pieces[i]) THEN pieces[i].largo ELSE 0]
  <2>1. SumOf(a) \in Nat /\ SumOf(b) \in Nat
    <3>1. a \in [D -> Nat] /\ b \in [D -> Nat]
      BY <1>3
    <3> QED BY <1>1, <3>1, SumOfNats
  <2>2. FrentinMl(in) \in {in.frentinMl, SumOf(a), 100} /\ RegruesoMl(in) \in {in.regruesoMl, SumOf(b), 100}
    BY DEF FrentinMl, RegruesoMl, Metres, TotalOf, Total
  <2>3. in.frentinMl \in Nat /\ in.regruesoMl \in Nat
    BY DEF IsInput
  <2> HIDE DEF a, b
  <2> QED BY <2>1, <2>2, <2>3
<1>6. CalculateM2(in.pieces) \in Nat
  <2>1. [i \in D |-> PieceM2(pieces[i]) * pieces[i].qty] \in [D -> Nat]
    BY <1>1, <1>3, PieceM2Near
  <2> QED BY <1>1, <2>1, SumOfNats DEF CalculateM2, Total
<1>7. MaterialM2(in) \in Nat
  BY <1>5, <1>6 DEF MaterialM2
<1>8. FleteQty(in) \in Nat
  <2> DEFINE a == [i \in D |-> IF pieces[i].desc \notin {"frentin", "zocalo"} THEN pieces[i].qty ELSE 0]
  <2>1. SumOf(a) \in Nat
    <3>1. a \in [D -> Nat]
      BY <1>3
    <3> QED BY <1>1, <3>1, SumOfNats
  <2>2. FleteQty(in) \in {in.fleteQty, Greatest(1, Ceil(SumOf(a), 6)), 1}
    BY DEF FleteQty, TotalOf, Total
  <2>3. in.fleteQty \in Nat
    BY DEF IsInput
  <2> HIDE DEF a
  <2>4. Greatest(1, Ceil(SumOf(a), 6)) \in Nat
    BY <2>1 DEF Greatest, Ceil
  <2> QED BY <2>2, <2>3, <2>4
<1> QED BY <1>1, <1>4, <1>5, <1>6, <1>7, <1>8

-----------------------------------------------------------------------------
(* The lines of labour *)

WithIva(line) ==
  Distance(line.unit, IF line.vat THEN line.base
                      ELSE IF line.edif THEN HalfEven(line.base * 121, 105)
                      ELSE HalfEven(line.base * 121, 100)) <= 1

\* A job of the list of labour, a trip, and half of one for the polishing.
IsJob(line) ==
  Charged(line) /\ line.kind # "flete" /\ line.vat = FALSE /\ line.edif = FALSE
    /\ line.unit = HalfEven(line.base * 121, 100)
Polishes(in) == Colocacion(in) /\ ~in.skipFlete /\ FindFlete(in.zone).pulido
Made(line, in) ==
  \/ IsJob(line)
  \/ Charged(line) /\ line.kind = "flete" /\ WithIva(line)
  \/ Charged(line) /\ Polishes(in) /\ line.kind = "pulido" /\ (~FindFlete(in.zone).vat => WithIva(line))

LEMMA AtMostOne == ASSUME NEW a \in Nat, NEW b \in Nat, a <= b + 1, b <= a + 1 PROVE Distance(a, b) <= 1
BY DEF Distance

LEMMA RangeJoined ==
    ASSUME NEW s, NEW t, IsList(s), IsList(t)
    PROVE  IsList(s \o t) /\ Range(s \o t) \subseteq Range(s) \cup Range(t)
<1> DEFINE All == Range(s) \cup Range(t)
<1>1. s \in Seq(All) /\ t \in Seq(All)
  BY DEF IsList
<1>2. s \o t \in Seq(All)
  <2> HIDE DEF All
  <2> QED BY <1>1, ConcatProperties
<1>3. \A i \in DOMAIN (s \o t) : (s \o t)[i] \in All
  <2> HIDE DEF All
  <2> QED BY <1>2, Indices
<1> QED BY <1>3, Joined DEF Range

IsLine(line, kind, qty, price, base, vat) ==
  /\ DOMAIN line = {"kind", "qty", "unit", "base", "total", "vat", "edif"}
  /\ line.kind = kind /\ line.qty = qty /\ line.unit = price /\ line.base = base
  /\ line.vat = vat /\ line.edif = FALSE
  /\ line.total = HalfEven(price * qty, 100) /\ line.total \in Nat

LEMMA LineIs ==
    ASSUME NEW kind, NEW qty \in Nat, NEW price \in Nat, NEW base, NEW vat
    PROVE  IsLine(Line(kind, qty, price, base, vat), kind, qty, price, base, vat)
<1>1. HalfEven(price * qty, 100) \in Nat
  <2> DEFINE n == price * qty
  <2>1. n \in Nat
    OBVIOUS
  <2> HIDE DEF n
  <2>2. HalfEven(n, 100) \in Nat
    BY <2>1, HalfEvenNear
  <2> QED BY <2>2 DEF n
<1> QED BY <1>1 DEF Line, IsLine

LEMMA JobIsPriced ==
    ASSUME NEW sku \in WorkSkus, NEW sint
    PROVE  LET s == IF sint THEN sku \o "_dekton" ELSE sku IN
           Labor[s] \in Nat /\ MoPrice(s) \in Nat /\ MoPrice(s) = HalfEven(Labor[s] * 121, 100)
<1> DEFINE s == IF sint THEN sku \o "_dekton" ELSE sku
<1>1. Labor[s] \in Nat
  BY ListsAssumption
<1> HIDE DEF s
<1>2. MoPrice(s) \in Nat /\ MoPrice(s) = HalfEven(Labor[s] * 121, 100)
  BY <1>1, WithVatIsNat DEF MoPrice, WithVat
<1> QED BY <1>1, <1>2 DEF s

LEMMA MoLineIsJob ==
    ASSUME NEW kind, kind # "flete", NEW qty \in Nat, NEW sku \in WorkSkus, NEW sint
    PROVE  IsJob(MoLine(kind, qty, sku, sint))
<1> DEFINE s == IF sint THEN sku \o "_dekton" ELSE sku
<1>1. Labor[s] \in Nat /\ MoPrice(s) \in Nat /\ MoPrice(s) = HalfEven(Labor[s] * 121, 100)
  BY JobIsPriced
<1>2. MoLine(kind, qty, sku, sint) = Line(kind, qty, MoPrice(s), Labor[s], FALSE)
  BY DEF MoLine
<1> HIDE DEF s
<1> DEFINE line == MoLine(kind, qty, sku, sint)
<1>3. IsLine(line, kind, qty, MoPrice(s), Labor[s], FALSE)
  BY <1>1, <1>2, LineIs
<1> HIDE DEF line
<1>4. IsJob(line)
  BY <1>1, <1>3 DEF IsJob, Charged, IsLine
<1> QED BY <1>4 DEF line

LEMMA TripIsMade ==
    ASSUME NEW zone, NEW qty \in Nat, NEW vat, NEW in
    PROVE  LET f == FindFlete(zone)
               line == Line("flete", 100 * qty, f.price, f.base, vat)
           IN  Charged(line) /\ (vat = f.vat => WithIva(line))
<1> DEFINE f == FindFlete(zone)
           line == Line("flete", 100 * qty, f.price, f.base, vat)
<1>1. /\ f.zone \in DOMAIN Zones /\ FindFlete(f.zone) = f
      /\ f.base \in Nat /\ f.price \in Nat
      /\ f.price = IF f.vat THEN f.base ELSE HalfEven(f.base * 121, 100)
  BY FleteIsPriced
<1> HIDE DEF f
<1>0. 100 * qty \in Nat
  OBVIOUS
<1>2. IsLine(line, "flete", 100 * qty, f.price, f.base, vat)
  BY <1>0, <1>1, LineIs
<1>3. line.total * 100 = f.price * line.qty
  <2> DEFINE n == f.price * qty
  <2>1. n \in Nat /\ f.price * (100 * qty) = 100 * n
    BY <1>1
  <2> HIDE DEF n
  <2>2. line.total = n
    BY <1>2, <2>1, WholeEven DEF IsLine
  <2> QED BY <1>2, <2>1, <2>2 DEF IsLine
<1> HIDE DEF line
<1>4. Charged(line)
  BY <1>0, <1>1, <1>2, <1>3 DEF Charged, IsLine
<1>5. vat = f.vat => WithIva(line)
  BY <1>1, <1>2 DEF WithIva, Distance, IsLine
<1> QED BY <1>4, <1>5 DEF line, f

LEMMA PlacedIsJob ==
    ASSUME NEW qty \in Nat, NEW area \in Nat, NEW sint
    PROVE  LET line == MoLine("colocacion", qty, "colocacion", sint)
           IN  IsJob([line EXCEPT !.total = HalfEven(line.unit * area, Metre)])
<1> DEFINE line == MoLine("colocacion", qty, "colocacion", sint)
           room == [line EXCEPT !.total = HalfEven(line.unit * area, Metre)]
<1>1. IsJob(line)
  BY MoLineIsJob DEF WorkSkus
<1> HIDE DEF line
<1>2. HalfEven(line.unit * area, Metre) \in Nat
  <2> DEFINE n == line.unit * area
  <2>1. n \in Nat
    BY <1>1 DEF IsJob, Charged
  <2> HIDE DEF n
  <2>2. HalfEven(n, Metre) \in Nat
    BY <2>1, HalfEvenNear DEF Metre
  <2> QED BY <2>2 DEF n
<1>3. /\ DOMAIN room = DOMAIN line /\ room.kind = line.kind /\ room.qty = line.qty
      /\ room.unit = line.unit /\ room.base = line.base /\ room.vat = line.vat /\ room.edif = line.edif
      /\ room.total = HalfEven(line.unit * area, Metre)
  BY <1>1 DEF IsJob, Charged
<1> HIDE DEF room
<1>4. IsJob(room)
  BY <1>1, <1>2, <1>3 DEF IsJob, Charged
<1> QED BY <1>4 DEF room, line

LEMMA RoomIsJob ==
    ASSUME NEW m2 \in Nat, NEW sint
    PROVE  LET area == Greatest(m2, Metre)
               line == MoLine("colocacion", HalfUp(area, 100), "colocacion", sint)
           IN  IsJob([line EXCEPT !.total = HalfEven(line.unit * area, Metre)])
<1> DEFINE area == Greatest(m2, Metre)
<1>1. area \in Nat
  BY DEF Greatest, Metre
<1> HIDE DEF area
<1>2. HalfUp(area, 100) \in Nat
  BY <1>1, HalfUpNear
<1> QED BY <1>1, <1>2, PlacedIsJob DEF area

(* Half of a trip polishes the edges: a peso more or less than half its    *)
(* price with VAT.                                                         *)
LEMMA HalvesAgree ==
    ASSUME NEW base \in Nat
    PROVE  LET half == HalfEven(base, 2)
               unit == HalfEven(HalfEven(base * 121, 100), 2)
           IN  /\ half \in Nat /\ unit \in Nat /\ HalfEven(half * 121, 100) \in Nat
               /\ Distance(unit, HalfEven(half * 121, 100)) <= 1
<1> DEFINE half == HalfEven(base, 2)
           n == base * 121
           price == HalfEven(n, 100)
           unit == HalfEven(price, 2)
           m == half * 121
           other == HalfEven(m, 100)
<1>1. half \in Nat /\ 2 * (2 * half) <= 2 * base + 2 /\ 2 * base <= 2 * (2 * half) + 2
  BY HalfEvenNear
<1>2. n \in Nat /\ price \in Nat /\ 2 * (100 * price) <= 2 * n + 100 /\ 2 * n <= 2 * (100 * price) + 100
  <2>1. n \in Nat
    OBVIOUS
  <2> HIDE DEF n
  <2> QED BY <2>1, HalfEvenNear
<1>3. unit \in Nat /\ 2 * (2 * unit) <= 2 * price + 2 /\ 2 * price <= 2 * (2 * unit) + 2
  <2> HIDE DEF price
  <2> QED BY <1>2, HalfEvenNear
<1>4. m \in Nat /\ other \in Nat /\ 2 * (100 * other) <= 2 * m + 100 /\ 2 * m <= 2 * (100 * other) + 100
  <2>1. m \in Nat
    <3> HIDE DEF half
    <3> QED BY <1>1
  <2> HIDE DEF m
  <2> QED BY <2>1, HalfEvenNear
<1> HIDE DEF half, price, unit, other
<1>5. unit <= other + 1 /\ other <= unit + 1
  BY <1>1, <1>2, <1>3, <1>4
<1>6. Distance(unit, other) <= 1
  BY <1>3, <1>4, <1>5, AtMostOne
<1> QED BY <1>1, <1>3, <1>4, <1>6 DEF half, price, unit, other

(* Every line a calculation has is one of the three kinds.                 *)
AllMade(s, in) == IsList(s) /\ \A line \in Range(s) : Made(line, in)

LEMMA NoLines == ASSUME NEW in PROVE AllMade(<<>>, in)
BY EmptyIsList DEF AllMade, Range

LEMMA OneLine == ASSUME NEW in, NEW line, Made(line, in) PROVE AllMade(<<line>>, in)
BY OneIsList DEF AllMade, Range

LEMMA MoreLines ==
    ASSUME NEW in, NEW s, NEW t, AllMade(s, in), AllMade(t, in)
    PROVE  AllMade(s \o t, in)
<1>1. IsList(s \o t) /\ Range(s \o t) \subseteq Range(s) \cup Range(t)
  BY RangeJoined DEF AllMade
<1> QED BY <1>1 DEF AllMade

LEMMA PlacementsAreMade ==
    ASSUME NEW in, IsInput(in), NEW sint
    PROVE  AllMade(ColocacionLines(in, sint), in)
<1> DEFINE details == PieceDetails(in.pieces)
           rooms == {details[i].amb : i \in {k \in DOMAIN details : ~IsFrentin(details[k]) /\ details[k].amb # None}}
           RoomM2(a) == TotalOf(details, LAMBDA d : (~IsFrentin(d) /\ d.amb # None) /\ d.amb = a, LAMBDA d : d.m2 * d.qty)
           Room(m2) == LET area == Greatest(m2, Metre)
                           line == MoLine("colocacion", HalfUp(area, 100), "colocacion", sint)
                       IN [line EXCEPT !.total = HalfEven(line.unit * area, Metre)]
           order == SetToSeq(rooms)
           lines == ColocacionLines(in, sint)
<1>1. MaterialM2(in) \in Nat
  BY PiecesAreCounted
<1>2. \A a : RoomM2(a) \in Nat
  <2> TAKE a
  <2> DEFINE n == Cardinality(FirstOf(in.pieces))
  <2>1. IsFiniteSet(1..n) /\ DOMAIN details = 1..n /\ \A k \in 1..n : IsDetail(details[k])
    BY DetailsAreTyped DEF IsInput, Measured
  <2> HIDE DEF details, n
  <2> DEFINE f == [i \in 1..n |-> IF (~IsFrentin(details[i]) /\ details[i].amb # None) /\ details[i].amb = a
                                  THEN details[i].m2 * details[i].qty ELSE 0]
  <2>2. f \in [1..n -> Nat]
    BY <2>1 DEF IsDetail
  <2>3. RoomM2(a) = SumOf(f)
    BY <2>1 DEF TotalOf, Total
  <2> QED BY <2>1, <2>2, <2>3, SumOfNats
<1>3. \A m2 \in Nat : IsJob(Room(m2))
  BY RoomIsJob
<1>4. lines = IF ~Colocacion(in) THEN <<>>
              ELSE IF Cardinality(rooms) >= 2 THEN [i \in DOMAIN order |-> Room(RoomM2(order[i]))]
              ELSE <<Room(MaterialM2(in))>>
  BY DEF ColocacionLines
<1>5. IsList(lines)
  BY PlacementsAreListed DEF IsInput, IsList
<1> HIDE DEF lines, order, rooms, RoomM2, Room
<1>6. \A i \in DOMAIN lines : IsJob(lines[i])
  <2>1. CASE lines = <<>>
    BY <2>1
  <2>2. CASE lines = <<Room(MaterialM2(in))>>
    BY <1>1, <1>3, <2>2
  <2>3. CASE lines = [i \in DOMAIN order |-> Room(RoomM2(order[i]))]
    BY <1>2, <1>3, <2>3
  <2> QED BY <1>4, <2>1, <2>2, <2>3
<1>7. \A i \in DOMAIN lines : Made(lines[i], in)
  BY <1>6 DEF Made
<1> QED BY <1>5, <1>7 DEF lines, AllMade, Range

LEMMA TripsAreMade == ASSUME NEW in, IsInput(in) PROVE AllMade(FleteLines(in), in)
<1> DEFINE f == FindFlete(in.zone)
           trip == Line("flete", 100 * FleteQty(in), f.price, f.base, f.vat)
           polish == Line("pulido", 100, HalfEven(f.price, 2), HalfEven(f.base, 2), FALSE)
           half == [polish EXCEPT !.total = HalfEven(f.price, 2)]
<1>1. /\ f.base \in Nat /\ f.price \in Nat
      /\ f.price = IF f.vat THEN f.base ELSE HalfEven(f.base * 121, 100)
  BY FleteIsPriced
<1>2. Made(trip, in)
  <2>1. FleteQty(in) \in Nat
    BY PiecesAreCounted
  <2>2. Charged(trip) /\ WithIva(trip)
    BY <2>1, TripIsMade
  <2>3. trip.kind = "flete"
    BY DEF Line
  <2> HIDE DEF trip
  <2> QED BY <2>2, <2>3 DEF Made
<1>3. HalfEven(f.price, 2) \in Nat /\ HalfEven(f.base, 2) \in Nat
  <2> DEFINE price == f.price
             base == f.base
  <2>1. price \in Nat /\ base \in Nat
    BY <1>1
  <2> HIDE DEF price, base
  <2>2. HalfEven(price, 2) \in Nat
    BY <2>1, HalfEvenNear
  <2>3. HalfEven(base, 2) \in Nat
    BY <2>1, HalfEvenNear
  <2> QED BY <2>2, <2>3 DEF price, base
<1>4. ~f.vat => Distance(HalfEven(f.price, 2), HalfEven(HalfEven(f.base, 2) * 121, 100)) <= 1
  <2> HIDE DEF f
  <2> QED BY <1>1, HalvesAgree
<1>5. Polishes(in) => Made(half, in)
  <2> DEFINE vat == f.vat
  <2> HIDE DEF vat
  <2>1. IsLine(polish, "pulido", 100, HalfEven(f.price, 2), HalfEven(f.base, 2), FALSE)
    <3> HIDE DEF f
    <3> QED BY <1>3, LineIs
  <2> HIDE DEF polish
  <2>2. /\ DOMAIN half = DOMAIN polish /\ half.kind = polish.kind /\ half.qty = polish.qty
        /\ half.unit = polish.unit /\ half.base = polish.base /\ half.vat = polish.vat /\ half.edif = polish.edif
        /\ half.total = HalfEven(f.price, 2)
    BY <2>1 DEF IsLine
  <2> HIDE DEF half, f
  <2>3. Charged(half)
    BY <1>3, <2>1, <2>2 DEF IsLine, Charged
  <2>4. ~f.vat => WithIva(half)
    BY <1>4, <2>1, <2>2 DEF IsLine, WithIva
  <2> QED BY <2>1, <2>2, <2>3, <2>4 DEF Made, IsLine, f
<1> HIDE DEF trip, half
<1>6. FleteLines(in) = IF in.skipFlete THEN <<>>
                       ELSE <<trip>> \o (IF Colocacion(in) /\ f.pulido THEN <<half>> ELSE <<>>)
  BY DEF FleteLines, trip, half
<1>7. AllMade(<<trip>>, in) /\ AllMade(<<>>, in)
  BY <1>2, NoLines, OneLine
<1>8. ~in.skipFlete /\ Colocacion(in) /\ f.pulido => AllMade(<<half>>, in)
  BY <1>5, OneLine DEF Polishes
<1> HIDE DEF f
<1>9. CASE in.skipFlete
  BY <1>6, <1>7, <1>9
<1>10. CASE ~in.skipFlete /\ Colocacion(in) /\ f.pulido
  BY <1>6, <1>7, <1>8, <1>10, MoreLines
<1>11. CASE ~in.skipFlete /\ ~(Colocacion(in) /\ f.pulido)
  BY <1>6, <1>7, <1>11, MoreLines
<1> QED BY <1>9, <1>10, <1>11

LEMMA LinesAreMade ==
    ASSUME NEW in, IsInput(in), NEW sint
    PROVE  AllMade(PiletaLines(in, sint) \o AnafeLines(in, sint) \o ColocacionLines(in, sint)
                   \o FrentinLines(in, sint) \o RegruesoLines(in) \o FleteLines(in)
                   \o TomasLines(in, sint), in)
<1>1. ASSUME NEW kind, kind # "flete", NEW qty \in Nat, NEW sku \in WorkSkus, NEW sinter
      PROVE  AllMade(<<MoLine(kind, qty, sku, sinter)>>, in)
  BY <1>1, MoLineIsJob, OneLine DEF Made
<1>2. /\ 100 * PiletaQty(in) \in Nat /\ 100 * in.anafeQty \in Nat /\ FrentinMl(in) \in Nat
      /\ 2 * FrentinMl(in) \in Nat /\ RegruesoMl(in) \in Nat /\ 100 * in.tomasQty \in Nat
  <2>1. in.anafeQty \in Nat /\ in.tomasQty \in Nat
    BY DEF IsInput
  <2> QED BY <2>1, PiecesAreCounted
<1>3. AllMade(PiletaLines(in, sint), in)
  <2>1. AllMade(<<MoLine("apoyo", 100 * PiletaQty(in), "apoyo", sint)>>, in)
        /\ AllMade(<<MoLine("pileta", 100 * PiletaQty(in), "pileta", sint)>>, in)
    BY <1>1, <1>2 DEF WorkSkus
  <2> QED BY <2>1, NoLines DEF PiletaLines
<1>4. AllMade(AnafeLines(in, sint), in)
  <2>1. AllMade(<<MoLine("anafe", 100 * in.anafeQty, "anafe", sint)>>, in)
    BY <1>1, <1>2 DEF WorkSkus
  <2> QED BY <2>1, NoLines DEF AnafeLines
<1>5. AllMade(FrentinLines(in, sint), in)
  <2>1. AllMade(<<MoLine("frentin", FrentinMl(in), "frentin", sint)>>, in)
        /\ AllMade(<<MoLine("corte45", 2 * FrentinMl(in), "corte45", sint)>>, in)
    BY <1>1, <1>2 DEF WorkSkus
  <2> QED BY <2>1, NoLines, MoreLines DEF FrentinLines
<1>6. AllMade(RegruesoLines(in), in)
  <2>1. AllMade(<<MoLine("regrueso", RegruesoMl(in), "regrueso", FALSE)>>, in)
    BY <1>1, <1>2 DEF WorkSkus
  <2> QED BY <2>1, NoLines DEF RegruesoLines
<1>7. AllMade(TomasLines(in, sint), in)
  <2>1. AllMade(<<MoLine("tomas", 100 * in.tomasQty, "tomas", sint)>>, in)
    BY <1>1, <1>2 DEF WorkSkus
  <2> QED BY <2>1, NoLines DEF TomasLines
<1>8. AllMade(ColocacionLines(in, sint), in) /\ AllMade(FleteLines(in), in)
  BY PlacementsAreMade, TripsAreMade
<1> QED BY <1>3, <1>4, <1>5, <1>6, <1>7, <1>8, MoreLines

(* A building divides a job by 1.05 before it rounds, the validator after. *)
LEMMA BuildingAgrees ==
    ASSUME NEW base \in Nat
    PROVE  LET unit == HalfEven(HalfEven(base * 121, 100) * 100, 105)
           IN  /\ unit \in Nat /\ HalfEven(base * 121, 105) \in Nat
               /\ Distance(unit, HalfEven(base * 121, 105)) <= 1
<1> DEFINE n == base * 121
           price == HalfEven(n, 100)
           m == price * 100
           unit == HalfEven(m, 105)
           other == HalfEven(n, 105)
<1>1. n \in Nat
  OBVIOUS
<1> HIDE DEF n
<1>2. price \in Nat /\ 2 * (100 * price) <= 2 * n + 100 /\ 2 * n <= 2 * (100 * price) + 100
  BY <1>1, HalfEvenNear
<1> HIDE DEF price
<1>3. m \in Nat
  BY <1>2
<1>4. unit \in Nat /\ 2 * (105 * unit) <= 2 * m + 105 /\ 2 * m <= 2 * (105 * unit) + 105
  <2> HIDE DEF m
  <2> QED BY <1>3, HalfEvenNear
<1>8. other \in Nat /\ 2 * (105 * other) <= 2 * n + 105 /\ 2 * n <= 2 * (105 * other) + 105
  BY <1>1, HalfEvenNear
<1>5. m = 100 * price
  BY <1>2
<1> HIDE DEF m, unit, other
<1>6. unit <= other + 1 /\ other <= unit + 1
  BY <1>1, <1>2, <1>4, <1>5, <1>8
<1>7. Distance(unit, other) <= 1
  BY <1>4, <1>6, <1>8, AtMostOne
<1> QED BY <1>4, <1>7, <1>8 DEF n, price, m, unit, other

LEMMA BuildingCharges ==
    ASSUME NEW line, Charged(line)
    PROVE  /\ Charged(Edificio(line)) /\ Edificio(line).kind = line.kind
           /\ IsJob(line) => WithIva(Edificio(line))
<1>1. CASE line.kind = "flete"
  BY <1>1 DEF Edificio, IsJob
<1>2. CASE line.kind # "flete"
  <2> DEFINE unit == HalfEven(line.unit * 100, 105)
             total == HalfEven(unit * line.qty, 100)
             new == Edificio(line)
  <2>1. unit \in Nat
    <3> DEFINE n == line.unit * 100
    <3>1. n \in Nat
      BY DEF Charged
    <3> HIDE DEF n
    <3>2. HalfEven(n, 105) \in Nat
      BY <3>1, HalfEvenNear
    <3> QED BY <3>2 DEF n
  <2> HIDE DEF unit
  <2>2. total \in Nat
    <3> DEFINE n == unit * line.qty
    <3>1. n \in Nat
      BY <2>1 DEF Charged
    <3> HIDE DEF n
    <3>2. HalfEven(n, 100) \in Nat
      BY <3>1, HalfEvenNear
    <3> QED BY <3>2 DEF n
  <2> HIDE DEF total
  <2>3. new = [line EXCEPT !.unit = unit, !.total = total, !.edif = TRUE]
    BY <1>2 DEF Edificio, unit, total
  <2> HIDE DEF new
  <2>4. /\ DOMAIN new = DOMAIN line /\ new.kind = line.kind /\ new.qty = line.qty /\ new.unit = unit
        /\ new.base = line.base /\ new.vat = line.vat /\ new.edif = TRUE /\ new.total = total
    BY <2>3 DEF Charged
  <2>5. Charged(new)
    BY <1>2, <2>1, <2>2, <2>4 DEF Charged
  <2>6. ASSUME IsJob(line) PROVE WithIva(new)
    <3>1. line.base \in Nat /\ unit = HalfEven(HalfEven(line.base * 121, 100) * 100, 105) /\ new.vat = FALSE
      BY <2>4, <2>6 DEF IsJob, Charged, unit
    <3>2. Distance(unit, HalfEven(line.base * 121, 105)) <= 1
      BY <3>1, BuildingAgrees
    <3> QED BY <2>4, <3>1, <3>2 DEF WithIva
  <2> QED BY <2>4, <2>5, <2>6 DEF new
<1> QED BY <1>1, <1>2

(* What a calculation charges for labour, and which of it the validators   *)
(* take for right.                                                         *)
LEMMA WorkIsCharged ==
    ASSUME NEW in, IsInput(in), NEW m
    PROVE  LET mo == MoItems(in, m) IN
           /\ IsList(mo) /\ \A i \in DOMAIN mo : Charged(mo[i])
           /\ ~(Polishes(in) /\ FindFlete(in.zone).vat) => \A i \in DOMAIN mo : WithIva(mo[i])
<1> DEFINE sint == Sinterized(m)
           lines == PiletaLines(in, sint) \o AnafeLines(in, sint) \o ColocacionLines(in, sint)
                    \o FrentinLines(in, sint) \o RegruesoLines(in) \o FleteLines(in)
                    \o TomasLines(in, sint)
           mo == MoItems(in, m)
<1>1. AllMade(lines, in)
  BY LinesAreMade
<1>2. mo = IF in.edificio THEN [i \in DOMAIN lines |-> Edificio(lines[i])] ELSE lines
  BY DEF MoItems
<1> HIDE DEF lines, mo
<1>3. DOMAIN mo = DOMAIN lines /\ IsList(lines) /\ \A i \in DOMAIN lines : Made(lines[i], in)
  BY <1>1, <1>2 DEF AllMade, Range
<1>4. IsList(mo)
  <2>1. CASE in.edificio
    <3>1. Len(lines) \in Nat /\ DOMAIN lines = 1..Len(lines)
      BY <1>3, Indices DEF IsList
    <3>2. mo \in [1..Len(lines) -> Range(mo)]
      BY <1>2, <2>1, <3>1 DEF Range
    <3> QED BY <3>1, <3>2, FunctionsAreSequences DEF IsList
  <2> QED BY <1>2, <1>3, <2>1
<1>5. ASSUME NEW i \in DOMAIN lines
      PROVE  Charged(mo[i]) /\ (~(Polishes(in) /\ FindFlete(in.zone).vat) => WithIva(mo[i]))
  <2>1. Made(lines[i], in) /\ Charged(lines[i])
    BY <1>3 DEF Made, IsJob
  <2>2. CASE in.edificio
    <3>1. mo[i] = Edificio(lines[i]) /\ ~Polishes(in)
      BY <1>2, <2>2 DEF Polishes, Colocacion
    <3>2. lines[i].kind = "flete" => mo[i] = lines[i]
      BY <3>1 DEF Edificio
    <3> QED BY <2>1, <3>1, <3>2, BuildingCharges DEF Made
  <2>3. CASE ~in.edificio
    <3>1. mo[i] = lines[i]
      BY <1>2, <2>3
    <3>2. IsJob(lines[i]) => WithIva(lines[i])
      BY DEF IsJob, Charged, WithIva, Distance
    <3> QED BY <2>1, <3>1, <3>2 DEF Made
  <2> QED BY <2>2, <2>3
<1> QED BY <1>3, <1>4, <1>5 DEF mo

-----------------------------------------------------------------------------
(* Breakdowns *)

\* Some elements of a list, in their order.
LEMMA SomeOfList ==
    ASSUME NEW s, IsList(s), NEW at \in SUBSET DOMAIN s
    PROVE  LET some == [k \in 1..Cardinality(at) |-> s[Nth(at, k)]]
           IN  IsList(some) /\ Range(some) \subseteq Range(s)
<1> DEFINE n == Cardinality(at)
           some == [k \in 1..n |-> s[Nth(at, k)]]
<1>1. Len(s) \in Nat /\ DOMAIN s = 1..Len(s)
  BY Indices DEF IsList
<1>2. n \in Nat /\ \A k \in 1..n : Nth(at, k) \in DOMAIN s
  BY <1>1, CountedOnce
<1> HIDE DEF n
<1>3. \A k \in 1..n : some[k] \in Range(s)
  BY <1>2 DEF Range
<1>4. some \in [1..n -> Range(some)]
  BY DEF Range
<1>5. IsList(some)
  <2> HIDE DEF some
  <2> QED BY <1>2, <1>4, FunctionsAreSequences DEF IsList
<1>6. Range(some) \subseteq Range(s)
  BY <1>3 DEF Range
<1> QED BY <1>5, <1>6 DEF n

LEMMA LabourIsNat ==
    ASSUME NEW mo, IsList(mo), \A i \in DOMAIN mo : Charged(mo[i])
    PROVE  MoTotal(mo) \in Nat /\ MoTotalOf(mo, NotFlete) \in Nat /\ MoTotalOf(mo, NotFlete) <= MoTotal(mo)
<1> DEFINE all == [i \in DOMAIN mo |-> mo[i].total]
           rest == [i \in DOMAIN mo |-> IF NotFlete(mo[i]) THEN mo[i].total ELSE 0]
<1>1. IsFiniteSet(DOMAIN mo)
  BY Indices DEF IsList
<1>2. all \in [DOMAIN mo -> Nat] /\ rest \in [DOMAIN mo -> Nat]
  BY DEF Charged
<1>3. all \in [DOMAIN mo -> Int] /\ rest \in [DOMAIN mo -> Int] /\ \A i \in DOMAIN mo : rest[i] <= all[i]
  BY <1>2
<1> HIDE DEF all, rest
<1>4. SumOf(all) \in Nat /\ SumOf(rest) \in Nat /\ SumOf(rest) <= SumOf(all)
  BY <1>1, <1>2, <1>3, SumOfNats, SumOfLess
<1>5. MoTotal(mo) = SumOf(all) /\ MoTotalOf(mo, NotFlete) = SumOf(rest)
  BY DEF MoTotal, MoTotalOf, TotalOf, Total, all, rest
<1> QED BY <1>4, <1>5

LEMMA SinksAreNat ==
    ASSUME NEW sinks, Sold(sinks)
    PROVE  SinksTotal(sinks) \in Nat /\ Total(sinks, LAMBDA s : s.qty) \in Nat
<1> DEFINE money == [i \in DOMAIN sinks |-> sinks[i].qty * sinks[i].price]
           many == [i \in DOMAIN sinks |-> sinks[i].qty]
<1>1. IsFiniteSet(DOMAIN sinks)
  BY Indices DEF Sold, IsList
<1>2. money \in [DOMAIN sinks -> Nat] /\ many \in [DOMAIN sinks -> Nat]
  BY DEF Sold, IsSink
<1> HIDE DEF money, many
<1>3. SumOf(money) \in Nat /\ SumOf(many) \in Nat
  BY <1>1, <1>2, SumOfNats
<1>4. SinksTotal(sinks) = SumOf(money) /\ Total(sinks, LAMBDA s : s.qty) = SumOf(many)
  BY DEF SinksTotal, Total, money, many
<1> QED BY <1>3, <1>4

(* The discount of labour is the percentage of what is not flete.          *)
LEMMA LabourDiscount ==
    ASSUME NEW mo, IsList(mo), \A i \in DOMAIN mo : Charged(mo[i]), NEW pct \in 0..100
    PROVE  /\ MoDiscount(mo, pct) \in Nat /\ MoDiscount(mo, pct) <= MoTotal(mo)
           /\ 100 * MoDiscount(mo, pct) <= pct * MoTotalOf(mo, NotFlete) + 50
<1> DEFINE rest == MoTotalOf(mo, NotFlete)
           n == rest * pct
           off == HalfEven(n, 100)
<1>1. rest \in Nat /\ rest <= MoTotal(mo) /\ MoTotal(mo) \in Nat
  BY LabourIsNat
<1>2. MoDiscount(mo, pct) = off
  BY DEF MoDiscount
<1> HIDE DEF rest
<1>3. off \in 0..rest
  BY <1>1, PercentOff
<1>4. n \in Nat /\ n = pct * rest
  BY <1>1
<1>5. 2 * (100 * off) <= 2 * n + 100
  <2> HIDE DEF n
  <2> QED BY <1>4, HalfEvenNear
<1> HIDE DEF n, off
<1>6. 100 * off <= n + 50 /\ off \in Nat /\ off <= MoTotal(mo)
  BY <1>1, <1>3, <1>4, <1>5
<1> QED BY <1>2, <1>4, <1>6 DEF rest

LEMMA BillIsSound ==
    ASSUME NEW in, IsInput(in), NEW m \in Materials, NEW m2 \in Nat, NEW price \in Nat,
           NEW mo, IsList(mo), \A i \in DOMAIN mo : Charged(mo[i])
    PROVE  Sound(Bill(in, m, m2, price, mo))
<1> DEFINE bill == Bill(in, m, m2, price, mo)
           cost == m2 * price
           gross == HalfEven(cost, Metre)
           off == HalfEven(gross * DiscountPct(in, m, m2), 100)
           waste == CalculateMerma(m2, m, in.edificio).sobrante * price
           sobrante == HalfEven(waste, Metre)
           moOff == MoDiscount(mo, in.moDiscount)
           labour == MoTotal(mo) - moOff + SinksTotal(Sinks(in))
           material == gross - off + sobrante
           grand == GrandTotal(Catalog[m].currency, labour, material)
<1>1. /\ bill.mode = "full" /\ bill.sku = m /\ bill.m2 = m2 /\ bill.net = gross - off
      /\ bill.totalArs = grand[1] /\ bill.totalUsd = grand[2]
      /\ bill.piletaQty = PiletaQty(in) /\ bill.moDiscount = in.moDiscount
      /\ bill.mo = mo /\ bill.sinks = Sinks(in)
  BY DEF Bill
<1> HIDE DEF bill
<1>2. gross \in Nat
  <2>1. cost \in Nat
    OBVIOUS
  <2> HIDE DEF cost
  <2> QED BY <2>1, HalfEvenNear DEF Metre
<1>3. off \in 0..gross
  <2> HIDE DEF gross
  <2> QED BY <1>2, DiscountIsPercent, PercentOff
<1>4. sobrante \in Nat
  <2>1. waste \in Nat
    BY MermaIsNat
  <2> HIDE DEF waste
  <2> QED BY <2>1, HalfEvenNear DEF Metre
<1>5. in.moDiscount \in 0..100 /\ PiletaQty(in) \in Nat
  BY PiecesAreCounted DEF IsInput
<1>6. MoTotal(mo) \in Nat /\ moOff \in Nat /\ moOff <= MoTotal(mo)
  BY <1>5, LabourIsNat, LabourDiscount
<1>7. Sold(Sinks(in))
  <2>1. Sold(<<>>)
    BY EmptyIsList DEF Sold
  <2>2. \A price_ \in Nat : Sold(<<[qty |-> 1, price |-> price_]>>)
    BY OneIsList DEF Sold, IsSink
  <2> QED BY <2>1, <2>2, ListsAssumption DEF Sinks
<1>8. SinksTotal(Sinks(in)) \in Nat
  BY <1>7, SinksAreNat
<1> HIDE DEF gross, off, sobrante, moOff
<1>9. labour \in Nat /\ material \in Nat /\ gross - off \in Nat /\ labour + material \in Nat
  BY <1>2, <1>3, <1>4, <1>6, <1>8
<1> HIDE DEF labour, material
<1>10. grand[1] \in Nat /\ grand[2] \in Nat
  BY <1>9 DEF GrandTotal
<1> HIDE DEF grand
<1>11. Sound(bill)
  BY <1>1, <1>5, <1>7, <1>9, <1>10 DEF Sound
<1> QED BY <1>11 DEF bill

LEMMA SalesAreSound ==
    ASSUME NEW in, IsInput(in), ProductsOnly(in) # Refused("no_sink")
    PROVE  Sound(ProductsOnly(in))
<1> DEFINE valid == Picked(in.sinks, LAMBDA s : s.qty > 0 /\ s.price > 0)
           sinks == IF in.sinks # <<>> THEN valid
               ELSE IF in.sku \in DOMAIN SinkPrices
                    THEN <<[qty |-> in.piletaQty, price |-> SinkPrices[in.sku]]>> ELSE <<>>
           all == SinksTotal(sinks)
           off == HalfEven(all * in.discount, 100)
           sale == ProductsOnly(in)
<1>1. Sold(in.sinks) /\ in.piletaQty \in Nat /\ in.discount \in 0..100
  BY DEF IsInput, Sold, IsList
<1>2. Sold(valid)
  <2> DEFINE at == {i \in DOMAIN in.sinks : in.sinks[i].qty > 0 /\ in.sinks[i].price > 0}
             some == [k \in 1..Cardinality(at) |-> in.sinks[Nth(at, k)]]
  <2>1. valid = some
    BY DEF Picked
  <2>2. at \in SUBSET DOMAIN in.sinks
    OBVIOUS
  <2> HIDE DEF at, valid
  <2>3. IsList(some) /\ Range(some) \subseteq Range(in.sinks)
    BY <1>1, <2>2, SomeOfList DEF Sold
  <2> HIDE DEF some
  <2> QED BY <1>1, <2>1, <2>3 DEF Sold, Range
<1>3. Sold(sinks)
  <2>1. Sold(<<>>)
    BY EmptyIsList DEF Sold
  <2>2. \A price_ \in Nat : Sold(<<[qty |-> in.piletaQty, price |-> price_]>>)
    BY <1>1, OneIsList DEF Sold, IsSink
  <2> HIDE DEF valid
  <2> QED BY <1>2, <2>1, <2>2, ListsAssumption
<1>4. /\ sale.mode = "products_only" /\ sale.m2 = 0 /\ sale.net = 0
      /\ sale.totalArs = all - off /\ sale.totalUsd = 0 /\ sale.moDiscount = 0
      /\ sale.mo = <<>> /\ sale.sinks = sinks /\ sale.piletaQty = Total(sinks, LAMBDA s : s.qty)
  BY DEF ProductsOnly
<1> HIDE DEF sale, sinks
<1>5. all \in Nat /\ Total(sinks, LAMBDA s : s.qty) \in Nat
  BY <1>3, SinksAreNat
<1> HIDE DEF all
<1>6. off \in 0..all
  BY <1>1, <1>5, PercentOff
<1>7. all - off \in Nat
  BY <1>5, <1>6
<1>8. Sound(sale)
  BY <1>3, <1>4, <1>5, <1>7, EmptyIsList DEF Sound
<1> QED BY <1>8 DEF sale

LEMMA FoundInMaterials ==
    ASSUME NEW text, IsText(text), FindMaterial(text).found
    PROVE  FindMaterial(text).sku \in Materials
<1>1. CASE SettledGrisMara(text)
  BY <1>1, CatalogAssumption DEF SettledGrisMara, FindMaterial
<1>2. CASE ~SettledGrisMara(text) /\ text.exact \in Scope(text)
  BY <1>2 DEF FindMaterial, NotFound, Scope
<1>3. CASE ~SettledGrisMara(text) /\ text.exact \notin Scope(text)
  <2>1. FuzzyBest(text) # None /\ FindMaterial(text).sku = FuzzyBest(text)
    BY <1>3 DEF FindMaterial, NotFound
  <2> QED BY <2>1, FuzzyInScope DEF Scope
<1> QED BY <1>1, <1>2, <1>3

LEMMA ResultIsOf ==
    ASSUME NEW in, CalculateQuote(in).ok
    PROVE  LET result == CalculateQuote(in)
               found == FindMaterial(in.material)
           IN  \/ result = ProductsOnly(in) /\ result # Refused("no_sink")
               \/ found.found /\ result = Priced(in, found.sku)
<1>1. \A why : ~Refused(why).ok
  BY DEF Refused
<1> QED BY <1>1 DEF CalculateQuote

LEMMA ResultsAreSound ==
    ASSUME NEW in, IsInput(in), CalculateQuote(in).ok
    PROVE  Sound(CalculateQuote(in))
<1> DEFINE sku == FindMaterial(in.material).sku
<1>1. CASE CalculateQuote(in) = ProductsOnly(in) /\ CalculateQuote(in) # Refused("no_sink")
  BY <1>1, SalesAreSound
<1>2. CASE FindMaterial(in.material).found /\ CalculateQuote(in) = Priced(in, sku)
  <2>1. sku \in Materials
    BY <1>2, FoundInMaterials DEF IsInput
  <2> HIDE DEF sku
  <2>2. Catalog[sku].base \in Nat
    BY <2>1, CatalogAssumption
  <2>3. WithVat(Catalog[sku].base, Catalog[sku].currency) \in Nat
    BY <2>2, WithVatIsNat
  <2>4. MaterialM2(in) \in Nat
    BY PiecesAreCounted
  <2>5. IsList(MoItems(in, sku)) /\ \A i \in DOMAIN MoItems(in, sku) : Charged(MoItems(in, sku)[i])
    BY WorkIsCharged
  <2> QED BY <1>2, <2>1, <2>3, <2>4, <2>5, BillIsSound DEF Priced
<1> QED BY <1>1, <1>2, ResultIsOf

(* What patch_quote_mo makes of the lines of labour.                       *)
LEMMA PatchedAreCharged ==
    ASSUME NEW bd, Sound(bd), NEW patch \in Patches
    PROVE  LET mo == PatchedLines(bd, patch) IN IsList(mo) /\ \A i \in DOMAIN mo : Charged(mo[i])
<1> DEFINE f == FindFlete(patch.zone)
           flete == IF patch.zone = None THEN <<>>
                    ELSE <<Line("flete", 100 * patch.qty, f.price, f.base, FALSE)>>
           at == {i \in DOMAIN bd.mo : IF bd.mo[i].kind = "flete" /\ patch.zone # None THEN FALSE
                                       ELSE bd.mo[i].kind \notin patch.remove}
           kept == [k \in 1..Cardinality(at) |-> bd.mo[Nth(at, k)]]
           area == Greatest(bd.m2, Metre)
           line == MoLine("colocacion", HalfEven(area, 100), "colocacion", FALSE)
           placed == [line EXCEPT !.total = HalfEven(line.unit * area, Metre)]
           adds == patch.add /\ \A i \in DOMAIN kept : kept[i].kind # "colocacion"
           placing == IF adds THEN <<placed>> ELSE <<>>
           mo == PatchedLines(bd, patch)
           Good(s) == IsList(s) /\ \A x \in Range(s) : Charged(x)
<1>1. mo = kept \o placing \o flete
  BY DEF PatchedLines, Picked
<1>2. Good(<<>>)
  BY EmptyIsList DEF Range
<1>3. ASSUME NEW x, Charged(x) PROVE Good(<<x>>)
  BY <1>3, OneIsList DEF Range
<1>4. Good(flete)
  <2>1. patch.qty \in Nat
    BY PricingAssumption
  <2>2. Charged(Line("flete", 100 * patch.qty, f.price, f.base, FALSE))
    BY <2>1, TripIsMade
  <2> HIDE DEF f, Good
  <2> QED BY <1>2, <1>3, <2>2
<1>5. Good(placing)
  <2>1. area \in Nat
    BY DEF Greatest, Metre, Sound
  <2> HIDE DEF area
  <2>2. HalfEven(area, 100) \in Nat
    BY <2>1, HalfEvenNear
  <2>3. IsJob(placed)
    BY <2>1, <2>2, PlacedIsJob
  <2>4. Charged(placed)
    <3> HIDE DEF placed
    <3> QED BY <2>3 DEF IsJob
  <2> HIDE DEF placed, adds, Good
  <2> QED BY <1>2, <1>3, <2>4
<1>6. Good(kept)
  <2>1. at \in SUBSET DOMAIN bd.mo
    OBVIOUS
  <2> HIDE DEF at
  <2>2. IsList(kept) /\ Range(kept) \subseteq Range(bd.mo)
    BY <2>1, SomeOfList DEF Sound
  <2>3. \A x \in Range(bd.mo) : Charged(x)
    BY DEF Sound, Range
  <2> HIDE DEF kept
  <2> QED BY <2>2, <2>3
<1>7. ASSUME NEW s, NEW t, Good(s), Good(t) PROVE Good(s \o t)
  <2>1. IsList(s \o t) /\ Range(s \o t) \subseteq Range(s) \cup Range(t)
    BY <1>7, RangeJoined
  <2> QED BY <1>7, <2>1
<1>8. Good(mo)
  <2> HIDE DEF kept, placing, flete, mo, Good
  <2>1. Good(kept \o placing)
    BY <1>5, <1>6, <1>7
  <2> QED BY <1>1, <1>4, <1>7, <2>1
<1> HIDE DEF mo
<1> QED BY <1>8 DEF mo, Range

LEMMA PatchIsSound ==
    ASSUME NEW bd, DOMAIN bd = Result, Sound(bd), NEW patch \in Patches
    PROVE  Sound(Repriced(bd, PatchedLines(bd, patch)))
<1> DEFINE mo == PatchedLines(bd, patch)
           new == Repriced(bd, mo)
           labour == MoTotal(mo) + SinksTotal(bd.sinks)
<1>1. IsList(mo) /\ \A i \in DOMAIN mo : Charged(mo[i])
  BY PatchedAreCharged
<1> HIDE DEF mo
<1>2. labour \in Nat
  <2>1. MoTotal(mo) \in Nat
    BY <1>1, LabourIsNat
  <2>2. SinksTotal(bd.sinks) \in Nat
    BY SinksAreNat DEF Sound
  <2> QED BY <2>1, <2>2
<1>3. /\ new.mo = mo
      /\ new.totalArs = labour + (IF bd.currency = "ARS" THEN bd.net ELSE 0)
      /\ new.totalUsd = IF bd.currency = "USD" THEN bd.net ELSE 0
      /\ new.mode = bd.mode /\ new.sku = bd.sku /\ new.m2 = bd.m2 /\ new.net = bd.net
      /\ new.piletaQty = bd.piletaQty /\ new.moDiscount = bd.moDiscount /\ new.sinks = bd.sinks
  BY DEF Repriced, Result
<1> HIDE DEF new, labour
<1>4. new.totalArs \in Nat /\ new.totalUsd \in Nat
  BY <1>2, <1>3 DEF Sound
<1>5. Sound(new)
  BY <1>1, <1>3, <1>4 DEF Sound
<1> QED BY <1>5 DEF new, mo

-----------------------------------------------------------------------------
(* The tools *)

LEMMA NoPieces == Measured(<<>>)
BY DEF Measured

LEMMA Starts == Init => IInv
<1> SUFFICES ASSUME Init PROVE IInv
  OBVIOUS
<1>1. IsRow(Fresh(None)) /\ Fresh(None).exists = TRUE /\ Fresh(None).bd.ok = FALSE
  BY NoPieces DEF IsRow, Fresh, NoBreakdown, Refused
<1>2. /\ DOMAIN quotes = Ids /\ DOMAIN asked = Ids /\ Main \in Ids
      /\ quotes[Main] = Fresh(None) /\ \A i \in Ids \ {Main} : quotes[i].exists = FALSE
  BY DEF Init, Ids, Absent
<1> QED BY <1>1, <1>2 DEF IInv, Priceds

\* One row changes.
LEMMA RowChanges ==
    ASSUME IInv, NEW t \in Ids, NEW row, quotes' = [quotes EXCEPT ![t] = row],
           IsRow(row), row.exists,
           DOMAIN asked' = Ids,
           \A i \in Ids \ {t} : asked'[i] = asked[i] /\ (i \in patched' <=> i \in patched),
           row.bd.ok => Computed(row.bd, asked'[t], t \in patched')
    PROVE  IInv'
<1>1. /\ DOMAIN quotes' = Ids /\ quotes'[t] = row
      /\ \A i \in Ids \ {t} : quotes'[i] = quotes[i]
  BY DEF IInv
<1>2. \A i \in Ids : quotes'[i].exists => IsRow(quotes'[i])
  BY <1>1 DEF IInv
<1>3. quotes'[Main].exists
  BY <1>1 DEF IInv, Ids
<1>4. ASSUME NEW i \in Priceds' PROVE Computed(quotes'[i].bd, asked'[i], i \in patched')
  <2>1. CASE i = t
    BY <1>1, <1>4, <2>1 DEF Priceds
  <2>2. CASE i # t
    <3>1. i \in Priceds /\ i \in Ids \ {t}
      BY <1>1, <1>4, <2>2 DEF Priceds
    <3>2. Computed(quotes[i].bd, asked[i], i \in patched)
      BY <3>1 DEF IInv
    <3>3. quotes'[i].bd = quotes[i].bd /\ asked'[i] = asked[i] /\ (i \in patched' <=> i \in patched)
      BY <1>1, <3>1
    <3> QED BY <3>2, <3>3 DEF Computed
  <2> QED BY <2>1, <2>2
<1>5. \A i \in Priceds' : Computed(quotes[i].bd, asked[i], i \in patched)'
  BY <1>4 DEF Computed
<1> QED BY <1>1, <1>2, <1>3, <1>5 DEF IInv

LEMMA CalculationKeeps ==
    ASSUME IInv, NEW in \in Inputs, NEW now, CalculateTool(in, now)
    PROVE  IInv'
<1>1. PICK t \in Target(in) :
        \E row \in {IF quotes[t].exists THEN quotes[t] ELSE Fresh(in.material.text)} :
        \E eff \in {Effective(in, row.bd, now, history')} :
        \E run \in {WithPaso1(eff, row.paso1)} :
        \E result \in {Guarded(eff, run)} :
          /\ quotes' = [quotes EXCEPT ![t] = IF result.ok THEN Saved(row, result) ELSE row]
          /\ asked' = IF result.ok THEN [asked EXCEPT ![t] = run] ELSE asked
          /\ patched' = IF result.ok THEN patched \ {t} ELSE patched
  BY Zenon DEF CalculateTool
<1>2. PICK row, eff, run, result :
        /\ row = IF quotes[t].exists THEN quotes[t] ELSE Fresh(in.material.text)
        /\ eff = Effective(in, row.bd, now, history')
        /\ run = WithPaso1(eff, row.paso1)
        /\ result = Guarded(eff, run)
        /\ quotes' = [quotes EXCEPT ![t] = IF result.ok THEN Saved(row, result) ELSE row]
        /\ asked' = IF result.ok THEN [asked EXCEPT ![t] = run] ELSE asked
        /\ patched' = IF result.ok THEN patched \ {t} ELSE patched
  BY <1>1
<1>3. t \in Ids
  BY DEF Target, Ids, Holding, Unused
<1>4. IsRow(row) /\ row.exists /\ (~quotes[t].exists => ~row.bd.ok)
  BY <1>2, <1>3, NoPieces DEF IInv, IsRow, Fresh, NoBreakdown, Refused
<1>5. IsInput(run)
  <2>1. IsInput(in)
    BY PricingAssumption
  <2>2. row.bd.ok => Sound(row.bd)
    BY <1>2, <1>3, <1>4 DEF IInv, Priceds, Computed
  <2>3. IsInput(eff)
    BY <1>2, <2>1, <2>2, GuardsKeepInput
  <2> QED BY <1>2, <1>4, <2>3, Paso1KeepsInput DEF IsRow
<1>6. CASE result.ok
  <2>1. result = CalculateQuote(run)
    BY <1>2, <1>6 DEF Guarded, Refused
  <2>2. Computed(result, run, FALSE)
    BY <1>5, <1>6, <2>1, Results, ResultsAreSound DEF Computed, AddsUp
  <2> DEFINE new == Saved(row, result)
  <2>3. IsRow(new) /\ new.exists = row.exists /\ new.bd = result
    BY <1>4, NoPieces DEF IsRow, Saved
  <2>4. quotes' = [quotes EXCEPT ![t] = new] /\ asked' = [asked EXCEPT ![t] = run] /\ patched' = patched \ {t}
    BY <1>2, <1>6
  <2>5. /\ DOMAIN asked' = Ids /\ asked'[t] = run
        /\ \A i \in Ids \ {t} : asked'[i] = asked[i] /\ (i \in patched' <=> i \in patched)
    BY <1>3, <2>4 DEF IInv
  <2> HIDE DEF new
  <2>6. Computed(new.bd, asked'[t], t \in patched')
    BY <2>2, <2>3, <2>4, <2>5 DEF Computed
  <2> QED BY <1>3, <1>4, <2>3, <2>4, <2>5, <2>6, RowChanges
<1>7. CASE ~result.ok
  <2>1. quotes' = [quotes EXCEPT ![t] = row] /\ asked' = asked /\ patched' = patched
    BY <1>2, <1>7
  <2>2. row.bd.ok => Computed(row.bd, asked[t], t \in patched)
    BY <1>3, <1>4, <1>2 DEF IInv, Priceds
  <2>3. row.bd.ok => Computed(row.bd, asked'[t], t \in patched')
    BY <2>1, <2>2
  <2> QED BY <1>3, <1>4, <2>1, <2>3, RowChanges DEF IInv
<1> QED BY <1>6, <1>7

LEMMA PatchKeeps == ASSUME IInv, NEW patch \in Patches, PatchMo(patch) PROVE IInv'
<1> DEFINE old == quotes[Main]
           lines == PatchedLines(old.bd, patch)
           new == [old EXCEPT !.bd = Repriced(old.bd, lines)]
<1>1. Main \in Ids /\ Main \in Priceds /\ IsRow(old)
  BY DEF PatchMo, IInv, Ids, Priceds
<1>2. /\ quotes' = [quotes EXCEPT ![Main] = new]
      /\ patched' = patched \cup {Main} /\ asked' = asked
  BY <1>1 DEF PatchMo, IInv
<1>3. Computed(old.bd, asked[Main], Main \in patched)
  BY <1>1 DEF IInv
<1>4. Computed(Repriced(old.bd, lines), asked[Main], TRUE)
  <2>1. Sound(Repriced(old.bd, lines))
    BY <1>3, PatchIsSound DEF Computed
  <2> HIDE DEF lines
  <2> QED BY <1>3, <2>1 DEF Computed, Repriced, Result, Patched
<1>5. IsRow(new) /\ new.exists = old.exists /\ new.bd = Repriced(old.bd, lines)
  BY <1>1 DEF IsRow
<1> HIDE DEF new, lines
<1>6. Computed(new.bd, asked'[Main], Main \in patched')
  BY <1>2, <1>4, <1>5 DEF Computed
<1> QED BY <1>1, <1>2, <1>5, <1>6, RowChanges DEF IInv

\* Step 1 and the status of the documents are beside the breakdown.
LEMMA OthersKeep ==
    ASSUME IInv, NEW i \in Ids, quotes[i].exists, NEW row, IsRow(row), row.exists = quotes[i].exists,
           row.bd = quotes[i].bd, quotes' = [quotes EXCEPT ![i] = row], UNCHANGED <<asked, patched>>
    PROVE  IInv'
<1>1. row.bd.ok => Computed(row.bd, asked'[i], i \in patched')
  BY DEF IInv, Priceds
<1> QED BY <1>1, RowChanges DEF IInv

LEMMA Goes == IInv /\ [Next]_vars => IInv'
<1> SUFFICES ASSUME IInv, [Next]_vars PROVE IInv'
  OBVIOUS
<1>1. Main \in Ids /\ quotes[Main].exists /\ \A i \in Ids : quotes[i].exists => IsRow(quotes[i])
  BY DEF IInv, Ids
<1>2. ASSUME NEW pieces \in PieceLists, ListPiecesTool(pieces) PROVE IInv'
  <2>1. quotes' = [quotes EXCEPT ![Main] = [quotes[Main] EXCEPT !.paso1 = pieces]] /\ UNCHANGED <<asked, patched>>
    BY <1>2 DEF ListPiecesTool
  <2>2. LET row == [quotes[Main] EXCEPT !.paso1 = pieces]
        IN IsRow(row) /\ row.exists = quotes[Main].exists /\ row.bd = quotes[Main].bd
    BY <1>1, <1>2, PricingAssumption DEF IsRow, Measured
  <2> QED BY <1>1, <2>1, <2>2, OthersKeep
<1>3. ASSUME NEW i \in Ids, quotes[i].exists, quotes' = [quotes EXCEPT ![i].docs = TRUE], UNCHANGED <<asked, patched>>
      PROVE  IInv'
  <2>1. LET row == [quotes[i] EXCEPT !.docs = TRUE]
        IN IsRow(row) /\ row.exists = quotes[i].exists /\ row.bd = quotes[i].bd
    BY <1>1, <1>3 DEF IsRow
  <2>2. quotes' = [quotes EXCEPT ![i] = [quotes[i] EXCEPT !.docs = TRUE]]
    BY <1>3
  <2> QED BY <1>3, <2>1, <2>2, OthersKeep
<1>4. CASE UpdateQuote
  BY <1>1, <1>3, <1>4 DEF UpdateQuote
<1>5. ASSUME NEW i \in Ids, GenerateDocuments(i) PROVE IInv'
  BY <1>3, <1>5 DEF GenerateDocuments
<1>6. CASE UNCHANGED vars
  BY <1>6 DEF vars, IInv, Priceds, Computed
<1> QED BY <1>2, <1>4, <1>5, <1>6, CalculationKeeps, PatchKeeps DEF Next

LEMMA Invariance == Spec => []IInv
BY Starts, Goes, PTL DEF Spec

-----------------------------------------------------------------------------
(* Whatever the tools were called with and in whatever order, the totals   *)
(* of a calculation are the sum of the blocks the documents print, each in *)
(* the currency it is charged in.                                          *)
THEOREM GrandTotalsAddUp == Spec => []GrandTotalAddsUp
<1>1. IInv => GrandTotalAddsUp
  BY Results DEF IInv, Computed, GrandTotalAddsUp, AddsUp
<1> QED BY <1>1, Invariance, PTL

(* For any catalogue, texts and similarities, what is priced is of the     *)
(* family the text names, after any patches and recalculations.            *)
THEOREM FamilyAlwaysRespected == Spec => []FamilyRespected
<1>1. IInv => FamilyRespected
  <2> SUFFICES ASSUME IInv, NEW i \in Priceds, quotes[i].bd.mode = "full"
               PROVE  LET text == asked[i].material
                          named == IF SettledGrisMara(text) THEN "granito" ELSE text.family
                      IN  named # None => Catalog[quotes[i].bd.sku].family = named
    BY DEF FamilyRespected
  <2>1. Computed(quotes[i].bd, asked[i], i \in patched)
    BY DEF IInv
  <2>2. /\ CalculateQuote(asked[i]).ok /\ IsText(asked[i].material)
        /\ quotes[i].bd.mode = CalculateQuote(asked[i]).mode
        /\ quotes[i].bd.sku = CalculateQuote(asked[i]).sku
    BY <2>1 DEF Computed, IsInput, Result, Patched
  <2> QED BY <2>2, Results, FoundInFamily
<1> QED BY <1>1, Invariance, PTL

(* A recalculation keeps the sink and the cooktop, whatever the model      *)
(* forgets to pass, while the operator has not written them away: what the *)
(* guards restore from the breakdown reaches the labour that is charged.   *)
THEOREM NothingIsDropped == Spec => NothingDropped
<1> DEFINE Keeps(old, new, in) ==
             /\ Lines(old, {"anafe"}) # {} => Lines(new, {"anafe"}) # {}
             /\ Lines(old, {"pileta", "apoyo"}) # {} /\ PiletaQty(in) > 0 => Lines(new, {"pileta", "apoyo"}) # {}
<1>1. ASSUME IInv, [Next]_vars, NEW i \in Ids,
             quotes[i].exists, quotes[i].bd.ok, quotes'[i].bd.ok, Silent', i \notin patched',
             quotes'[i].bd.mode = "full"
      PROVE  Keeps(quotes[i].bd, quotes'[i].bd, asked'[i])
  <2>1. ASSUME quotes'[i].bd = quotes[i].bd PROVE Keeps(quotes[i].bd, quotes'[i].bd, asked'[i])
    BY <2>1
  <2>2. ASSUME NEW k \in Ids, NEW row, row.bd = quotes[k].bd, quotes' = [quotes EXCEPT ![k] = row]
        PROVE  quotes'[i].bd = quotes[i].bd
    BY <2>2, <1>1 DEF IInv
  <2>3. IsRow(quotes[Main]) /\ IsRow(quotes[i]) /\ Main \in Ids
    BY <1>1 DEF IInv, Ids
  <2>4. CASE \E pieces \in PieceLists : ListPiecesTool(pieces)
    <3>1. PICK pieces \in PieceLists : quotes' = [quotes EXCEPT ![Main] = [quotes[Main] EXCEPT !.paso1 = pieces]]
      BY <2>4 DEF ListPiecesTool
    <3>2. [quotes[Main] EXCEPT !.paso1 = pieces].bd = quotes[Main].bd
      BY <2>3 DEF IsRow
    <3> QED BY <2>1, <2>2, <2>3, <3>1, <3>2
  <2>5. CASE UpdateQuote \/ \E k \in Ids : GenerateDocuments(k)
    <3>1. PICK k \in Ids : quotes[k].exists /\ quotes' = [quotes EXCEPT ![k] = [quotes[k] EXCEPT !.docs = TRUE]]
      BY <2>3, <2>5, <1>1 DEF UpdateQuote, GenerateDocuments, IInv
    <3>2. [quotes[k] EXCEPT !.docs = TRUE].bd = quotes[k].bd
      BY <1>1, <3>1 DEF IsRow, IInv
    <3> QED BY <2>1, <2>2, <3>1, <3>2
  <2>6. CASE UNCHANGED vars
    BY <2>1, <2>6 DEF vars
  <2>7. ASSUME NEW patch, PatchMo(patch) PROVE quotes'[i].bd = quotes[i].bd
    BY <1>1, <2>7 DEF PatchMo, IInv
  <2>8. ASSUME NEW in \in Inputs, NEW now, CalculateTool(in, now)
        PROVE  Keeps(quotes[i].bd, quotes'[i].bd, asked'[i])
    <3>1. PICK t \in Target(in) :
        \E row \in {IF quotes[t].exists THEN quotes[t] ELSE Fresh(in.material.text)} :
        \E eff \in {Effective(in, row.bd, now, history')} :
        \E run \in {WithPaso1(eff, row.paso1)} :
        \E result \in {Guarded(eff, run)} :
          /\ quotes' = [quotes EXCEPT ![t] = IF result.ok THEN Saved(row, result) ELSE row]
          /\ asked' = IF result.ok THEN [asked EXCEPT ![t] = run] ELSE asked
          /\ patched' = IF result.ok THEN patched \ {t} ELSE patched
      BY <2>8, Zenon DEF CalculateTool
    <3>2. PICK row, eff, run, result :
        /\ row = IF quotes[t].exists THEN quotes[t] ELSE Fresh(in.material.text)
        /\ eff = Effective(in, row.bd, now, history')
        /\ run = WithPaso1(eff, row.paso1)
        /\ result = Guarded(eff, run)
        /\ quotes' = [quotes EXCEPT ![t] = IF result.ok THEN Saved(row, result) ELSE row]
        /\ asked' = IF result.ok THEN [asked EXCEPT ![t] = run] ELSE asked
      BY <3>1
    <3>3. CASE i # t \/ ~result.ok
      <4>1. quotes'[i].bd = quotes[i].bd
        BY <1>1, <3>2, <3>3 DEF IInv
      <4> QED BY <2>1, <4>1
    <3>4. CASE i = t /\ result.ok
      <4>1. row = quotes[i] /\ row.bd.ok /\ quotes'[i].bd = result /\ asked'[i] = run
        BY <1>1, <2>3, <3>2, <3>4 DEF IInv, Saved, IsRow
      <4>0. Sound(row.bd)
        BY <1>1, <4>1 DEF IInv, Priceds, Computed
      <4>2. now \subseteq history'
        BY <2>8 DEF CalculateTool
      <4>3. IsInput(in) /\ IsInput(eff) /\ IsInput(run)
        <5>1. IsInput(in)
          BY PricingAssumption
        <5>2. IsInput(eff)
          BY <3>2, <4>0, <5>1, GuardsKeepInput
        <5>3. IsInput(run)
          BY <2>3, <3>2, <4>1, <5>2, Paso1KeepsInput DEF IsRow
        <5> QED BY <5>1, <5>2, <5>3
      <4>4. run.anafe = eff.anafe /\ run.pileta = eff.pileta
        BY <3>2, <4>3 DEF WithPaso1, IsInput
      <4>5. /\ Lines(row.bd, {"anafe"}) # {} => eff.anafe
            /\ Lines(row.bd, {"pileta", "apoyo"}) # {} => eff.pileta # None
        BY <1>1, <3>2, <4>0, <4>1, <4>2, <4>3, GuardsKeepWork DEF Silent
      <4>6. result = CalculateQuote(run)
        BY <3>2, <3>4 DEF Guarded, Refused
      <4>7. result.mo = MoItems(run, FindMaterial(run.material).sku)
        BY <1>1, <3>4, <4>1, <4>6, FullHasLabour
      <4>8. run.pieces \in Seq(Range(run.pieces))
        BY <4>3 DEF IsInput
      <4>9. \A kinds : HasLine(result.mo, kinds) => Lines(result, kinds) # {}
        BY DEF HasLine, Lines
      <4>10. /\ run.anafe => HasLine(result.mo, {"anafe"})
             /\ run.pileta # None /\ PiletaQty(run) # 0 => HasLine(result.mo, {"pileta", "apoyo"})
        BY <4>7, <4>8, WorkIsBilled
      <4>11. PiletaQty(run) > 0 => PiletaQty(run) # 0
        OBVIOUS
      <4> QED BY <4>1, <4>4, <4>5, <4>9, <4>10, <4>11
    <3> QED BY <3>3, <3>4
  <2> QED BY <1>1, <2>1, <2>4, <2>5, <2>6, <2>7, <2>8 DEF Next
<1>2. IInv /\ [Next]_vars =>
        \A i \in Ids :
          quotes[i].exists /\ quotes[i].bd.ok /\ quotes'[i].bd.ok /\ Silent' /\ i \notin patched'
            /\ quotes'[i].bd.mode = "full"
          => Keeps(quotes[i].bd, quotes'[i].bd, asked'[i])
  BY <1>1
<1> QED BY <1>2, Invariance, PTL DEF NothingDropped, Spec

-----------------------------------------------------------------------------
(* The rest of what the rows hold *)

Counts == history \subseteq Phrases /\ patched \subseteq Priceds /\ calls \in 0..MaxCalls

LEMMA CountsHold == Spec => []Counts
<1>1. Init => Counts
  BY PricingAssumption DEF Init, Counts
<1>2. IInv /\ Counts /\ [Next]_vars => Counts'
  <2> SUFFICES ASSUME IInv, Counts, [Next]_vars PROVE Counts'
    OBVIOUS
  <2>1. ASSUME NEW i \in Ids, NEW row, row.exists, i \in Priceds => row.bd.ok,
               quotes' = [quotes EXCEPT ![i] = row]
        PROVE  Priceds \subseteq Priceds'
    BY <2>1 DEF IInv, Priceds
  <2>2. Main \in Ids /\ IsRow(quotes[Main]) /\ quotes[Main].exists
    BY DEF IInv, Ids
  <2>3. ASSUME NEW n \in Nat, Spend(n) PROVE calls' \in 0..MaxCalls
    BY <2>3, PricingAssumption DEF Spend, Counts
  <2>4. ASSUME NEW pieces \in PieceLists, ListPiecesTool(pieces) PROVE Counts'
    <3>1. quotes' = [quotes EXCEPT ![Main] = [quotes[Main] EXCEPT !.paso1 = pieces]]
          /\ history' = history /\ patched' = patched /\ Spend(1)
      BY <2>4 DEF ListPiecesTool
    <3>2. Priceds \subseteq Priceds'
      <4> DEFINE row == [quotes[Main] EXCEPT !.paso1 = pieces]
      <4>1. row.exists = quotes[Main].exists /\ row.bd = quotes[Main].bd
        BY <2>2 DEF IsRow
      <4>2. quotes' = [quotes EXCEPT ![Main] = row]
        BY <3>1
      <4> HIDE DEF row
      <4> QED BY <2>1, <2>2, <4>1, <4>2 DEF Priceds
    <3> QED BY <2>3, <3>1, <3>2 DEF Counts
  <2>5. ASSUME NEW i \in Ids, quotes[i].exists, quotes' = [quotes EXCEPT ![i].docs = TRUE]
        PROVE  Priceds \subseteq Priceds'
    <3> DEFINE row == [quotes[i] EXCEPT !.docs = TRUE]
    <3>1. row.exists = quotes[i].exists /\ row.bd = quotes[i].bd
      BY <2>5 DEF IInv, IsRow
    <3>2. quotes' = [quotes EXCEPT ![i] = row]
      BY <2>5
    <3> HIDE DEF row
    <3> QED BY <2>1, <2>5, <3>1, <3>2 DEF Priceds
  <2>6. CASE UpdateQuote
    BY <2>2, <2>3, <2>5, <2>6 DEF UpdateQuote, Counts
  <2>7. ASSUME NEW i \in Ids, GenerateDocuments(i) PROVE Counts'
    BY <2>5, <2>7 DEF GenerateDocuments, Counts
  <2>8. CASE UNCHANGED vars
    BY <2>8 DEF vars, Counts, Priceds
  <2>9. ASSUME NEW patch \in Patches, PatchMo(patch) PROVE Counts'
    <3> DEFINE bd == Repriced(quotes[Main].bd, PatchedLines(quotes[Main].bd, patch))
               row == [quotes[Main] EXCEPT !.bd = bd]
    <3>1. quotes' = [quotes EXCEPT ![Main] = row] /\ history' = history /\ Spend(1)
          /\ patched' = patched \cup {Main} /\ Main \in Priceds
      BY <2>2, <2>9 DEF PatchMo, Priceds
    <3>2. bd.ok = quotes[Main].bd.ok
      <4>1. DOMAIN quotes[Main].bd = Result
        BY <3>1 DEF IInv, Computed
      <4> QED BY <4>1 DEF Repriced, Result
    <3> HIDE DEF bd
    <3>3. row.exists = quotes[Main].exists /\ row.bd = bd
      BY <2>2 DEF IsRow
    <3> HIDE DEF row
    <3>4. Priceds \subseteq Priceds'
      BY <2>1, <2>2, <3>1, <3>2, <3>3 DEF Priceds
    <3>5. calls' \in 0..MaxCalls
      BY <2>3, <3>1
    <3> QED BY <3>1, <3>4, <3>5 DEF Counts
  <2>10. ASSUME NEW in \in Inputs, NEW now \in SUBSET Phrases, CalculateTool(in, now) PROVE Counts'
    <3>1. PICK t \in Target(in) :
        \E row \in {IF quotes[t].exists THEN quotes[t] ELSE Fresh(in.material.text)} :
        \E eff \in {Effective(in, row.bd, now, history')} :
        \E run \in {WithPaso1(eff, row.paso1)} :
        \E result \in {Guarded(eff, run)} :
          /\ quotes' = [quotes EXCEPT ![t] = IF result.ok THEN Saved(row, result) ELSE row]
          /\ asked' = IF result.ok THEN [asked EXCEPT ![t] = run] ELSE asked
          /\ patched' = IF result.ok THEN patched \ {t} ELSE patched
      BY <2>10, Zenon DEF CalculateTool
    <3>2. PICK row, result :
        /\ row = IF quotes[t].exists THEN quotes[t] ELSE Fresh(in.material.text)
        /\ quotes' = [quotes EXCEPT ![t] = IF result.ok THEN Saved(row, result) ELSE row]
        /\ patched' = IF result.ok THEN patched \ {t} ELSE patched
      BY <3>1
    <3>3. t \in Ids /\ history' = history \cup now /\ Spend(2)
      BY <2>10 DEF Target, Ids, Holding, Unused, CalculateTool
    <3>4. IsRow(row) /\ row.exists /\ (t \in Priceds => row.bd.ok)
      BY <3>2, <3>3, NoPieces DEF IInv, IsRow, Fresh, Priceds
    <3>5. Priceds \subseteq Priceds'
      <4>1. CASE result.ok
        <5>1. Saved(row, result).exists = row.exists /\ Saved(row, result).bd = result
          BY <3>4 DEF IsRow, Saved
        <5> QED BY <2>1, <3>2, <3>3, <3>4, <4>1, <5>1
      <4>2. CASE ~result.ok
        BY <2>1, <3>2, <3>3, <3>4, <4>2
      <4> QED BY <4>1, <4>2
    <3>6. calls' \in 0..MaxCalls
      BY <2>3, <3>3
    <3> QED BY <3>2, <3>3, <3>5, <3>6 DEF Counts
  <2> QED BY <2>4, <2>6, <2>7, <2>8, <2>9, <2>10 DEF Next
<1> QED BY <1>1, <1>2, Invariance, PTL DEF Spec

LEMMA TypesHold == IInv /\ Counts => TypeOK
<1> SUFFICES ASSUME IInv, Counts PROVE TypeOK
  OBVIOUS
<1>1. \A i \in Priceds : Sound(quotes[i].bd)
  BY DEF IInv, Computed
<1> QED BY <1>1 DEF TypeOK, Counts, Sound

\* The fields of a calculation with material that the documents show.
LEMMA FullIs ==
    ASSUME NEW in, IsInput(in), CalculateQuote(in).ok, CalculateQuote(in).mode = "full"
    PROVE  LET result == CalculateQuote(in)
               m == FindMaterial(in.material).sku
               price == WithVat(Catalog[m].base, Catalog[m].currency)
           IN  /\ m \in Materials /\ result = Bill(in, m, MaterialM2(in), price, MoItems(in, m))
               /\ result = Priced(in, m)
<1>1. FindMaterial(in.material).found /\ CalculateQuote(in) = Priced(in, FindMaterial(in.material).sku)
  BY ResultIsOf, SinksAddUp
<1> QED BY <1>1, FoundInMaterials DEF IsInput, Priced

LEMMA ResultsDiscount ==
    ASSUME NEW in, IsInput(in), CalculateQuote(in).ok
    PROVE  LET bd == CalculateQuote(in)
           IN  100 * bd.moDiscountAmount <= bd.moDiscount * MoTotalOf(bd.mo, NotFlete) + 50
<1> DEFINE bd == CalculateQuote(in)
           m == FindMaterial(in.material).sku
           price == WithVat(Catalog[m].base, Catalog[m].currency)
           mo == MoItems(in, m)
<1>1. Sound(bd)
  BY ResultsAreSound
<1>2. CASE bd.mode = "full"
  <2>1. bd = Bill(in, m, MaterialM2(in), price, mo)
    BY <1>2, FullIs
  <2> HIDE DEF bd
  <2>2. bd.mo = mo /\ bd.moDiscount = in.moDiscount /\ bd.moDiscountAmount = MoDiscount(mo, in.moDiscount)
    BY <2>1 DEF Bill
  <2>3. IsList(mo) /\ \A i \in DOMAIN mo : Charged(mo[i])
    BY WorkIsCharged
  <2>4. in.moDiscount \in 0..100
    BY DEF IsInput
  <2> HIDE DEF mo
  <2>5. 100 * bd.moDiscountAmount <= bd.moDiscount * MoTotalOf(bd.mo, NotFlete) + 50
    BY <2>2, <2>3, <2>4, LabourDiscount
  <2> QED BY <2>5 DEF bd
<1>3. CASE bd.mode # "full"
  <2>1. bd = ProductsOnly(in) /\ bd # Refused("no_sink")
    <3>1. \A m2, p, l : Bill(in, m, m2, p, l).mode = "full"
      BY DEF Bill
    <3>2. bd # Priced(in, m)
      BY <1>3, <3>1 DEF Priced
    <3> QED BY <3>2, ResultIsOf
  <2>2. bd.moDiscount = 0 /\ bd.moDiscountAmount = 0
    BY <2>1 DEF ProductsOnly, Refused
  <2>3. MoTotalOf(bd.mo, NotFlete) \in Nat
    BY <1>1, LabourIsNat DEF Sound
  <2> HIDE DEF bd
  <2>4. 100 * bd.moDiscountAmount <= bd.moDiscount * MoTotalOf(bd.mo, NotFlete) + 50
    BY <2>2, <2>3
  <2> QED BY <2>4 DEF bd
<1> QED BY <1>2, <1>3

LEMMA FleteIsLeft == IInv => FleteNeverDiscounted
<1> SUFFICES ASSUME IInv, NEW i \in Priceds
             PROVE  LET bd == quotes[i].bd
                        rest == MoTotalOf(bd.mo, NotFlete)
                    IN  /\ \A l \in Lines(bd, {"flete"}) :
                             \E z \in DOMAIN Zones : bd.mo[l].total * 100 = FindFlete(z).price * bd.mo[l].qty
                        /\ i \notin patched => 100 * bd.moDiscountAmount <= bd.moDiscount * rest + 50
  BY DEF FleteNeverDiscounted
<1>1. Computed(quotes[i].bd, asked[i], i \in patched)
  BY DEF IInv
<1>2. \A l \in DOMAIN quotes[i].bd.mo : Charged(quotes[i].bd.mo[l])
  BY <1>1 DEF Computed, Sound
<1>3. \A l \in Lines(quotes[i].bd, {"flete"}) :
        \E z \in DOMAIN Zones : quotes[i].bd.mo[l].total * 100 = FindFlete(z).price * quotes[i].bd.mo[l].qty
  BY <1>2 DEF Lines, Charged
<1>4. ASSUME i \notin patched
      PROVE  100 * quotes[i].bd.moDiscountAmount <= quotes[i].bd.moDiscount * MoTotalOf(quotes[i].bd.mo, NotFlete) + 50
  BY <1>1, <1>4, ResultsDiscount DEF Computed
<1> QED BY <1>3, <1>4

\* The table of an input that is not refused adds up to what it is charged for.
LEMMA TableIsCharged ==
    ASSUME NEW in, IsInput(in), ~KnownRefusal(in)
    PROVE  /\ Total(PieceDetails(in.pieces), LAMBDA d : d.m2 * d.qty) = MaterialM2(in)
           /\ MaterialM2(in) = CalculateM2(in.pieces)
<1>1. \A i, j \in DOMAIN in.pieces :
        SameRow(in.pieces[i], in.pieces[j]) => PieceM2(in.pieces[i]) = PieceM2(in.pieces[j])
  BY Zenon DEF KnownRefusal
<1>2. Total(PieceDetails(in.pieces), LAMBDA d : d.m2 * d.qty) = CalculateM2(in.pieces)
  BY <1>1, PiecesAreCounted, TableAddsUp
<1>3. ~(in.regrueso /\ RegruesoM2(PieceDetails(in.pieces)) = 0)
  BY DEF KnownRefusal
<1> QED BY <1>2, <1>3 DEF MaterialM2

LEMMA ShownAreCharged == IInv => ShownIsCharged
<1> SUFFICES ASSUME IInv, NEW i \in Priceds, quotes[i].bd.mode = "full", ~KnownRefusal(asked[i])
             PROVE  ShownM2(quotes[i].bd) = quotes[i].bd.m2
  BY DEF ShownIsCharged
<1> DEFINE bd == quotes[i].bd
           in == asked[i]
           result == CalculateQuote(in)
           m == FindMaterial(in.material).sku
           price == WithVat(Catalog[m].base, Catalog[m].currency)
           mo == MoItems(in, m)
           rows == Total(bd.details, LAMBDA d : d.m2 * d.qty)
<1>1. Computed(bd, in, i \in patched)
  BY DEF IInv
<1>2. IsInput(in) /\ result.ok /\ bd.mode = result.mode /\ bd.details = result.details /\ bd.m2 = result.m2
  BY <1>1 DEF Computed, Result, Patched
<1>3. result = Bill(in, m, MaterialM2(in), price, mo)
  BY <1>2, FullIs
<1> HIDE DEF result, price, mo, m
<1>4. result.details = PieceDetails(in.pieces) /\ result.m2 = MaterialM2(in)
  BY <1>3 DEF Bill
<1>5. rows = bd.m2 /\ bd.m2 \in Nat
  <2>1. Total(PieceDetails(in.pieces), LAMBDA d : d.m2 * d.qty) = MaterialM2(in) /\ MaterialM2(in) \in Nat
    BY <1>2, TableIsCharged, PiecesAreCounted
  <2> HIDE DEF bd, in
  <2> QED BY <1>2, <1>4, <2>1
<1>6. ShownM2(bd) = IF rows > 0 THEN rows ELSE 100 * HalfUp(bd.m2, 100)
  BY DEF ShownM2
<1>7. HalfUp(0, 100) = 0
  BY DEF HalfUp
<1> HIDE DEF bd, rows
<1>8. ShownM2(bd) = bd.m2
  BY <1>5, <1>6, <1>7
<1> QED BY <1>8 DEF bd

(* Whatever was asked and in whatever order, the rows hold breakdowns of   *)
(* their type, whose totals are the sum of the blocks, that leave the      *)
(* flete out of every discount and that step 2 shows as they are charged.  *)
THEOREM PricesAlwaysHold == Spec => []PricesHold
<1>1. IInv /\ Counts => PricesHold
  <2>1. IInv => GrandTotalAddsUp
    BY Results DEF IInv, Computed, GrandTotalAddsUp, AddsUp
  <2> QED BY <2>1, TypesHold, FleteIsLeft, ShownAreCharged DEF PricesHold
<1> QED BY <1>1, Invariance, CountsHold, PTL

-----------------------------------------------------------------------------
(* The calculator and its validators *)

LEMMA RowsAreMeasured ==
    ASSUME NEW pieces, Measured(pieces), NEW k \in DOMAIN PieceDetails(pieces)
    PROVE  LET d == PieceDetails(pieces)[k]
           IN  d.override \/ IsFrentin(d) \/ Distance(d.m2, d.largo * d.dim2) <= 100
<1> DEFINE first == FirstOf(pieces)
           n == Cardinality(first)
           i == Nth(first, k)
           p == pieces[i]
           d == PieceDetails(pieces)[k]
<1>1. first \in SUBSET (1..Len(pieces)) /\ Len(pieces) \in Nat /\ DOMAIN pieces = 1..Len(pieces)
  BY DetailsAre, Indices DEF Measured
<1>2. k \in 1..n
  BY DetailsAre DEF Measured
<1>3. IsPiece(p)
  <2>1. i \in first
    <3> HIDE DEF first
    <3> QED BY <1>1, <1>2, CountedOnce
  <2> HIDE DEF first, i
  <2> QED BY <1>1, <2>1 DEF Measured
<1>4. /\ d.desc = p.desc /\ d.largo = p.largo /\ d.dim2 = p.dim2 /\ d.override = (p.override > 0)
      /\ d.m2 = PieceM2(p)
  <2> DEFINE total == SumOf([j \in DOMAIN pieces |-> IF SameRow(pieces[j], pieces[i]) THEN pieces[j].qty ELSE 0])
  <2>1. d = [desc |-> pieces[i].desc, amb |-> pieces[i].amb, largo |-> pieces[i].largo,
             dim2 |-> pieces[i].dim2, override |-> pieces[i].override > 0,
             m2 |-> PieceM2(pieces[i]), qty |-> total]
    BY <1>2, DetailsAre DEF Measured
  <2> HIDE DEF d, total, i
  <2> QED BY <2>1
<1> HIDE DEF p, d, i, first
<1>5. ~IsFrentin(p) => Distance(PieceM2(p), IF p.override > 0 THEN p.override ELSE p.largo * p.dim2) <= 50
  BY <1>3, PieceM2Near
<1>6. PieceM2(p) \in Nat /\ p.largo * p.dim2 \in Nat
  BY <1>3, PieceM2Near DEF IsPiece
<1>7. d.override \/ IsFrentin(d) \/ Distance(d.m2, d.largo * d.dim2) <= 100
  <2>1. CASE IsFrentin(p)
    BY <1>4, <2>1 DEF IsFrentin
  <2>2. CASE p.override > 0
    BY <1>4, <2>2
  <2>3. CASE ~IsFrentin(p) /\ ~(p.override > 0)
    <3>1. Distance(PieceM2(p), p.largo * p.dim2) <= 50
      BY <1>5, <2>3
    <3>2. Distance(PieceM2(p), p.largo * p.dim2) <= 100
      BY <1>6, <3>1 DEF Distance
    <3> QED BY <1>4, <3>2
  <2> QED BY <2>1, <2>2, <2>3
<1> QED BY <1>7 DEF d

LEMMA PricedIsValid ==
    ASSUME NEW in, IsInput(in), ~KnownRefusal(in), NEW m \in Materials,
           m = FindMaterial(in.material).sku
    PROVE  ValidateDespiece(Priced(in, m))
<1> DEFINE q == Priced(in, m)
           m2 == MaterialM2(in)
           price == WithVat(Catalog[m].base, Catalog[m].currency)
           mo == MoItems(in, m)
           gross == HalfEven(m2 * price, Metre)
           off == HalfEven(gross * DiscountPct(in, m, m2), 100)
           details == PieceDetails(in.pieces)
           merma == CalculateMerma(m2, m, in.edificio)
<1>1. q = Bill(in, m, m2, price, mo)
  BY DEF Priced
<1>2. /\ q.mode = "full" /\ q.sku = m /\ q.m2 = m2 /\ q.price = price /\ q.base = Catalog[m].base
      /\ q.currency = Catalog[m].currency /\ q.net = gross - off /\ q.discountAmount = off
      /\ q.merma = merma /\ q.details = details /\ q.mo = mo /\ q.pileta = in.pileta
      /\ q.regrueso = in.regrueso
  <2> HIDE DEF q
  <2> QED BY <1>1 DEF Bill
<1>3. MaterialM2(in) \in Nat /\ Measured(in.pieces)
  BY PiecesAreCounted
<1>4. price \in Nat
  BY CatalogAssumption, WithVatIsNat
<1>5. price = IF Catalog[m].currency = "USD" THEN (Catalog[m].base * 121) \div 100 ELSE HalfEven(Catalog[m].base * 121, 100)
  BY DEF WithVat
<1>6. CheckRegruesoConsistency(q)
  <2>1. in.regrueso => CheckRegruesoConsistency(q)
    BY DEF KnownRefusal
  <2> HIDE DEF q
  <2> QED BY <1>2, <2>1 DEF CheckRegruesoConsistency
<1> HIDE DEF q
<1>7. CheckIvaMaterial(q)
  <2> HIDE DEF price
  <2> QED BY <1>2, <1>5 DEF CheckIvaMaterial
<1>8. CheckIvaMo(q)
  <2>1. ~(Polishes(in) /\ FindFlete(in.zone).vat)
    BY DEF KnownRefusal, Polishes
  <2>2. \A i \in DOMAIN mo : WithIva(mo[i])
    BY <2>1, WorkIsCharged
  <2> HIDE DEF mo
  <2> QED BY <1>2, <2>2 DEF CheckIvaMo, WithIva
<1>9. CheckMaterialTotal(q)
  <2>1. gross \in Nat
    <3> DEFINE n == m2 * price
    <3>1. n \in Nat
      BY <1>3, <1>4
    <3> HIDE DEF n
    <3>2. HalfEven(n, Metre) \in Nat
      BY <3>1, HalfEvenNear DEF Metre
    <3> QED BY <3>2 DEF n
  <2>2. off \in 0..gross
    <3> HIDE DEF gross
    <3> QED BY <2>1, DiscountIsPercent, PercentOff
  <2>3. q.net = HalfEven(q.m2 * q.price, Metre) - q.discountAmount /\ q.net \in Int
    <3>1. HalfEven(q.m2 * q.price, Metre) = gross
      BY <1>2
    <3> HIDE DEF gross, off
    <3> QED BY <1>2, <2>1, <2>2, <3>1
  <2> QED BY <2>3 DEF CheckMaterialTotal, Distance
<1>10. CheckMermaRules(q)
  <2>1. Catalog[m].negroBrasil => ~merma.aplica
    BY DEF CalculateMerma, NoMerma
  <2> HIDE DEF merma
  <2> QED BY <1>2, <2>1 DEF CheckMermaRules
<1>11. CheckPegadopileta(q)
  <2>1. in.pileta \in {"johnson", "cliente"} => in.pileta # None /\ PiletaQty(in) # 0
    BY CatalogAssumption DEF KnownRefusal
  <2>2. in.pileta \in {"johnson", "cliente"} => HasLine(mo, {"pileta", "apoyo"})
    BY <2>1, WorkIsBilled DEF IsInput
  <2> HIDE DEF mo
  <2> QED BY <1>2, <2>2 DEF CheckPegadopileta, HasLine
<1>12. CheckPieceM2(q)
  <2>1. \A k \in DOMAIN details :
          details[k].override \/ IsFrentin(details[k])
            \/ Distance(details[k].m2, details[k].largo * details[k].dim2) <= 100
    BY <1>3, RowsAreMeasured
  <2>2. Total(details, LAMBDA d : d.m2 * d.qty) = m2
    BY TableIsCharged
  <2>3. Distance(m2, m2) <= 100
    BY <1>3 DEF Distance
  <2> HIDE DEF details, m2
  <2>4. Distance(q.m2, Total(q.details, LAMBDA d : d.m2 * d.qty)) <= 100
    BY <1>2, <2>2, <2>3
  <2> QED BY <1>2, <2>1, <2>4 DEF CheckPieceM2
<1>13. CheckProductsOnly(q)
  BY <1>2 DEF CheckProductsOnly
<1>14. ValidateDespiece(q)
  BY <1>6, <1>7, <1>8, <1>9, <1>10, <1>11, <1>12, <1>13 DEF ValidateDespiece
<1> QED BY <1>14 DEF q

(* The formulas the validators repeat agree with the calculator for every  *)
(* price, measure and discount, rounding included, outside the refusals    *)
(* that are known: a quote is not held back for a peso of rounding.        *)
THEOREM CalculationsAreAccepted == Spec => []CalculatorAccepted
<1>1. IInv => CalculatorAccepted
  <2> SUFFICES ASSUME IInv, NEW i \in Priceds \ patched,
                      quotes[i].bd.mode = "full", ~KnownRefusal(asked[i])
               PROVE  ValidateDespiece(quotes[i].bd)
    BY DEF CalculatorAccepted
  <2> DEFINE in == asked[i]
             m == FindMaterial(in.material).sku
  <2>1. Computed(quotes[i].bd, in, FALSE)
    BY DEF IInv, Computed
  <2>2. IsInput(in) /\ CalculateQuote(in).ok /\ quotes[i].bd = CalculateQuote(in)
    BY <2>1 DEF Computed
  <2>3. m \in Materials /\ quotes[i].bd = Priced(in, m)
    BY <2>2, FullIs
  <2> HIDE DEF in
  <2>4. ValidateDespiece(Priced(in, m))
    BY <2>2, <2>3, PricedIsValid DEF in
  <2> QED BY <2>3, <2>4
<1> QED BY <1>1, Invariance, PTL

-----------------------------------------------------------------------------
(* Step 1 and step 2 *)

(* Areas rounded piece by piece are near what was measured, by half a      *)
(* hundredth of a metre each.                                              *)
LEMMA MeasuredIsNear ==
    ASSUME NEW pieces, Measured(pieces), \A k \in DOMAIN pieces : ~IsFrentin(pieces[k])
    PROVE  /\ CalculateM2(pieces) \in Nat /\ RawM2(pieces) \in Nat
           /\ Total(pieces, LAMBDA p : p.qty) \in Nat
           /\ Distance(RawM2(pieces), CalculateM2(pieces)) <= 50 * Total(pieces, LAMBDA p : p.qty)
<1> DEFINE D == DOMAIN pieces
           Area(i) == IF pieces[i].override > 0 THEN pieces[i].override ELSE pieces[i].largo * pieces[i].dim2
           raw == [i \in D |-> pieces[i].qty * Area(i)]
           m2 == [i \in D |-> PieceM2(pieces[i]) * pieces[i].qty]
           many == [i \in D |-> pieces[i].qty]
           near == [i \in D |-> 50 * pieces[i].qty]
           more == [i \in D |-> raw[i] + near[i]]
           over == [i \in D |-> m2[i] + near[i]]
<1>1. IsFiniteSet(D)
  BY Indices DEF Measured
<1>2. ASSUME NEW i \in D
      PROVE  /\ Area(i) \in Nat /\ pieces[i].qty \in Nat /\ PieceM2(pieces[i]) \in Nat
             /\ Area(i) <= PieceM2(pieces[i]) + 50 /\ PieceM2(pieces[i]) <= Area(i) + 50
  <2>1. IsPiece(pieces[i]) /\ ~IsFrentin(pieces[i])
    BY DEF Measured
  <2>2. PieceM2(pieces[i]) \in Nat /\ Distance(PieceM2(pieces[i]), Area(i)) <= 50
    BY <2>1, PieceM2Near
  <2>3. Area(i) \in Nat /\ pieces[i].qty \in Nat
    BY <2>1 DEF IsPiece
  <2> HIDE DEF Area
  <2> QED BY <2>2, <2>3 DEF Distance
<1>3. \A i \in D :
        /\ raw[i] \in Nat /\ m2[i] \in Nat /\ many[i] \in Nat /\ near[i] \in Nat /\ near[i] = 50 * many[i]
        /\ raw[i] <= over[i] /\ m2[i] <= more[i]
        /\ over[i] = m2[i] + near[i] /\ more[i] = raw[i] + near[i]
  <2> TAKE i \in D
  <2> DEFINE q == pieces[i].qty
             a == Area(i)
             b == PieceM2(pieces[i])
  <2>1. q \in Nat /\ a \in Nat /\ b \in Nat /\ a <= b + 50 /\ b <= a + 50
    BY <1>2
  <2>2. raw[i] = q * a /\ m2[i] = b * q /\ many[i] = q /\ near[i] = 50 * q
        /\ over[i] = m2[i] + near[i] /\ more[i] = raw[i] + near[i]
    OBVIOUS
  <2> HIDE DEF q, a, b, raw, m2, many, near, over, more
  <2>3. q * a \in Nat /\ b * q \in Nat /\ 50 * q \in Nat
    BY <2>1
  <2>4. q * a <= b * q + 50 * q /\ b * q <= q * a + 50 * q
    <3>1. q * (b + 50 - a) \in Nat /\ q * (b + 50 - a) = b * q + 50 * q - q * a
      BY <2>1
    <3>2. q * (a + 50 - b) \in Nat /\ q * (a + 50 - b) = q * a + 50 * q - b * q
      BY <2>1
    <3> QED BY <2>3, <3>1, <3>2
  <2> DEFINE qa == q * a
             bq == b * q
             q50 == 50 * q
  <2>5. /\ qa \in Nat /\ bq \in Nat /\ q50 \in Nat /\ qa <= bq + q50 /\ bq <= qa + q50
        /\ raw[i] = qa /\ m2[i] = bq /\ many[i] = q /\ near[i] = q50 /\ near[i] = 50 * many[i]
    BY <2>2, <2>3, <2>4
  <2> HIDE DEF qa, bq, q50
  <2> QED BY <2>1, <2>2, <2>5
<1>4. /\ raw = Over(raw, D) /\ m2 = Over(m2, D) /\ many = Over(many, D) /\ near = Over(near, D)
      /\ more = Over(more, D) /\ over = Over(over, D)
  BY DEF Over
<1>5. RawM2(pieces) = SumOf(raw) /\ CalculateM2(pieces) = SumOf(m2) /\ Total(pieces, LAMBDA p : p.qty) = SumOf(many)
  BY DEF RawM2, CalculateM2, Total
<1> HIDE DEF D, raw, m2, many, near, more, over
<1>6. SumOf(raw) \in Nat /\ SumOf(m2) \in Nat /\ SumOf(many) \in Nat
  BY <1>1, <1>3, <1>4, SumIsNat
<1>7. SumOf(near) = 50 * SumOf(many)
  BY <1>1, <1>3, <1>4, SumIsScaled
<1>8. SumOf(over) = SumOf(m2) + SumOf(near)
  BY <1>1, <1>3, <1>4, SumsAdd
<1>9. SumOf(more) = SumOf(raw) + SumOf(near)
  BY <1>1, <1>3, <1>4, SumsAdd
<1>10. \A i \in D : over[i] \in Int /\ more[i] \in Int /\ raw[i] \in Int /\ m2[i] \in Int
  BY <1>3
<1>11. SumOf(raw) <= SumOf(over)
  BY <1>1, <1>3, <1>4, <1>10, SumIsMonotone
<1>12. SumOf(m2) <= SumOf(more)
  BY <1>1, <1>3, <1>4, <1>10, SumIsMonotone
<1>13. Distance(SumOf(raw), SumOf(m2)) <= 50 * SumOf(many)
  BY <1>6, <1>7, <1>8, <1>9, <1>11, <1>12 DEF Distance
<1> QED BY <1>5, <1>6, <1>13

LEMMA AreaIsNat ==
    ASSUME NEW pieces, Measured(pieces)
    PROVE  CalculateM2(pieces) \in Nat /\ RawM2(pieces) \in Nat
<1> DEFINE Area(i) == IF pieces[i].override > 0 THEN pieces[i].override ELSE pieces[i].largo * pieces[i].dim2
           m2 == [i \in DOMAIN pieces |-> PieceM2(pieces[i]) * pieces[i].qty]
           raw == [i \in DOMAIN pieces |-> pieces[i].qty * Area(i)]
<1>1. \A i \in DOMAIN pieces : PieceM2(pieces[i]) \in Nat /\ pieces[i].qty \in Nat /\ Area(i) \in Nat
  BY PieceM2Near DEF Measured, IsPiece
<1>2. m2 \in [DOMAIN pieces -> Nat] /\ raw \in [DOMAIN pieces -> Nat]
  <2> HIDE DEF Area
  <2> QED BY <1>1
<1>3. SumOf(m2) \in Nat /\ SumOf(raw) \in Nat
  <2> HIDE DEF m2, raw
  <2> QED BY <1>2, Indices, SumOfNats DEF Measured
<1> QED BY <1>3 DEF CalculateM2, RawM2, Total

LEMMA Paso1Wins ==
    ASSUME NEW in, IsInput(in), NEW paso1, Measured(paso1), paso1 # <<>>,
           \A k \in DOMAIN paso1 : ~IsFrentin(paso1[k])
    PROVE  LET run == WithPaso1(in, paso1)
           IN  Distance(RawM2(run.pieces), CalculateM2(paso1)) <=
                 Greatest(Tolerance(CalculateM2(paso1)), 50 * Total(run.pieces, LAMBDA p : p.qty))
<1> DEFINE run == WithPaso1(in, paso1)
           listed == CalculateM2(paso1)
           off == IF listed = 0 THEN Greatest(500, Metre \div 50) ELSE Tolerance(listed)
           gap == Distance(RawM2(run.pieces), listed)
           many == Total(run.pieces, LAMBDA p : p.qty)
<1>1. listed \in Nat
  BY AreaIsNat
<1>2. Measured(run.pieces)
  BY Paso1KeepsInput DEF IsInput, Measured
<1>3. many \in Nat
  <2> DEFINE f == [i \in DOMAIN run.pieces |-> run.pieces[i].qty]
  <2>1. many = SumOf(f)
    BY DEF Total
  <2> HIDE DEF run
  <2>2. f \in [DOMAIN run.pieces -> Nat] /\ IsFiniteSet(DOMAIN run.pieces)
    BY <1>2, Indices DEF Measured, IsPiece
  <2> HIDE DEF f
  <2> QED BY <2>1, <2>2, SumOfNats
<1>4. off = Tolerance(listed) /\ off \in Nat
  <2> HIDE DEF listed
  <2>1. listed \div 50 \in Nat /\ Metre \div 50 = 200 /\ (listed = 0 => listed \div 50 = 0)
    BY <1>1 DEF Metre
  <2> QED BY <2>1 DEF Tolerance, Greatest
<1>5. CASE run.pieces = paso1
  <2>1. gap <= 50 * many
    BY <1>5, MeasuredIsNear
  <2>2. gap \in Nat
    <3>1. RawM2(run.pieces) \in Nat
      BY <1>5, MeasuredIsNear
    <3> HIDE DEF listed, run
    <3> QED BY <1>1, <3>1 DEF Distance
  <2> HIDE DEF gap, many, run, listed, off
  <2>3. gap <= Greatest(Tolerance(listed), 50 * many)
    BY <1>3, <1>4, <2>1, <2>2 DEF Greatest
  <2> QED BY <2>3 DEF gap, many, run, listed
<1>6. CASE run.pieces # paso1
  <2>1. gap <= off
    <3>1. ~(Distance(RawM2(in.pieces), listed) > off) /\ run = in
      BY <1>6 DEF WithPaso1, IsInput
    <3>2. RawM2(in.pieces) \in Nat
      BY AreaIsNat DEF IsInput, Measured
    <3>3. Distance(RawM2(in.pieces), listed) \in Nat
      <4> HIDE DEF listed
      <4> QED BY <1>1, <3>2 DEF Distance
    <3> DEFINE d == Distance(RawM2(in.pieces), listed)
    <3>4. d <= off
      <4> HIDE DEF d, off
      <4> QED BY <1>4, <3>1, <3>3 DEF d
    <3> QED BY <3>1, <3>4
  <2>2. gap \in Nat
    <3>1. RawM2(run.pieces) \in Nat
      BY <1>2, AreaIsNat
    <3> HIDE DEF listed, run
    <3> QED BY <1>1, <3>1 DEF Distance
  <2> HIDE DEF gap, many, run, listed, off
  <2>3. gap <= Greatest(Tolerance(listed), 50 * many)
    BY <1>3, <1>4, <2>1, <2>2 DEF Greatest
  <2> QED BY <2>3 DEF gap, many, run, listed
<1> QED BY <1>5, <1>6

(* For any pieces and quantities, what a calculation prices is what step 1  *)
(* listed, up to the tolerance of the guard and the rounding of each piece. *)
THEOREM Paso1AlwaysPriced == Spec => Paso1IsPriced
<1> DEFINE Close(old, run) ==
             Distance(RawM2(run.pieces), CalculateM2(old.paso1)) <=
               Greatest(Tolerance(CalculateM2(old.paso1)), 50 * Total(run.pieces, LAMBDA p : p.qty))
<1>1. ASSUME IInv, Counts, [Next]_vars, NEW i \in Ids, calls' = calls + 2,
             quotes[i].exists, quotes[i].paso1 # <<>>, quotes'[i].bd.ok, quotes'[i].paso1 = <<>>,
             \A k \in DOMAIN quotes[i].paso1 : ~IsFrentin(quotes[i].paso1[k])
      PROVE  Close(quotes[i], asked'[i])
  <2>1. calls \in Nat
    BY <1>1 DEF Counts
  <2>2. PICK in \in Inputs, now \in SUBSET Phrases : CalculateTool(in, now)
    <3>1. ~\E pieces \in PieceLists : ListPiecesTool(pieces)
      BY <1>1, <2>1 DEF ListPiecesTool, Spend
    <3>2. ~\E patch \in Patches : PatchMo(patch)
      BY <1>1, <2>1 DEF PatchMo, Spend
    <3>3. ~UpdateQuote /\ ~\E k \in Ids : GenerateDocuments(k)
      BY <1>1, <2>1 DEF UpdateQuote, GenerateDocuments, Spend
    <3>4. ~UNCHANGED vars
      BY <1>1, <2>1 DEF vars
    <3> QED BY <1>1, <3>1, <3>2, <3>3, <3>4 DEF Next
  <2>3. PICK t \in Target(in) :
        \E row \in {IF quotes[t].exists THEN quotes[t] ELSE Fresh(in.material.text)} :
        \E eff \in {Effective(in, row.bd, now, history')} :
        \E run \in {WithPaso1(eff, row.paso1)} :
        \E result \in {Guarded(eff, run)} :
          /\ quotes' = [quotes EXCEPT ![t] = IF result.ok THEN Saved(row, result) ELSE row]
          /\ asked' = IF result.ok THEN [asked EXCEPT ![t] = run] ELSE asked
          /\ patched' = IF result.ok THEN patched \ {t} ELSE patched
    BY <2>2, Zenon DEF CalculateTool
  <2>4. PICK row, eff, run, result :
        /\ row = IF quotes[t].exists THEN quotes[t] ELSE Fresh(in.material.text)
        /\ eff = Effective(in, row.bd, now, history')
        /\ run = WithPaso1(eff, row.paso1)
        /\ quotes' = [quotes EXCEPT ![t] = IF result.ok THEN Saved(row, result) ELSE row]
        /\ asked' = IF result.ok THEN [asked EXCEPT ![t] = run] ELSE asked
    BY <2>3
  <2>5. i = t /\ row = quotes[i] /\ result.ok /\ asked'[i] = run
    BY <1>1, <2>4 DEF IInv
  <2>6. IsInput(eff)
    <3>1. row.bd.ok => Sound(row.bd)
      BY <1>1, <2>5 DEF IInv, Priceds, Computed
    <3>2. IsInput(in)
      BY PricingAssumption
    <3> QED BY <2>4, <3>1, <3>2, GuardsKeepInput
  <2>7. Measured(row.paso1)
    BY <1>1, <2>5 DEF IInv, IsRow
  <2>8. Close(row, WithPaso1(eff, row.paso1))
    <3> DEFINE paso1 == row.paso1
    <3>1. Measured(paso1) /\ paso1 # <<>> /\ \A k \in DOMAIN paso1 : ~IsFrentin(paso1[k])
      BY <1>1, <2>5, <2>7
    <3> HIDE DEF paso1
    <3>2. Close([paso1 |-> paso1], WithPaso1(eff, paso1))
      BY <2>6, <3>1, Paso1Wins
    <3> QED BY <3>2 DEF paso1
  <2> HIDE DEF Close
  <2> QED BY <2>4, <2>5, <2>8
<1>2. IInv /\ Counts /\ [Next]_vars =>
        \A i \in Ids :
          LET old == quotes[i]
              run == asked'[i]
          IN /\ calls' = calls + 2
             /\ old.exists /\ old.paso1 # <<>> /\ quotes'[i].bd.ok /\ quotes'[i].paso1 = <<>>
             /\ \A k \in DOMAIN old.paso1 : ~IsFrentin(old.paso1[k])
             => Close(old, run)
  BY <1>1
<1> QED BY <1>2, Invariance, CountsHold, PTL DEF Paso1IsPriced, Spec

-----------------------------------------------------------------------------
(* Documents that were sent *)

LEMMA GuardsKeepNames ==
    ASSUME NEW in, IsInput(in), NEW bd, bd.ok => Sound(bd), NEW now, NEW said
    PROVE  Effective(in, bd, now, said).material.names = in.material.names
<1> DEFINE Same(x) == IsInput(x) /\ x.material.names = in.material.names
<1>1. Same(Preserve(in, bd, now))
  <2>1. Preserve(in, bd, now).material = in.material
    BY DEF IsInput, Preserve
  <2> QED BY <2>1, PreserveKeepsInput
<1>2. ASSUME NEW x, Same(x) PROVE Same(NoProduct(x, said))
  BY <1>2 DEF IsInput, NoProduct
<1>3. ASSUME NEW x, Same(x) PROVE Same(MoListAuthority(x, said))
  BY <1>3 DEF IsInput, MoListAuthority
<1>4. ASSUME NEW x, Same(x) PROVE Same(GrisMaraGuard(x))
  BY <1>4 DEF IsInput, IsText, GrisMaraGuard
<1>5. ASSUME NEW x, Same(x) PROVE Same(RegruesoGuard(x))
  BY <1>5 DEF IsInput, RegruesoGuard
<1>6. ASSUME NEW x, Same(x) PROVE Same(KeywordPileta(x, said))
  BY <1>6 DEF IsInput, KeywordPileta
<1>7. ASSUME NEW x, Same(x) PROVE Same(SkipFlete(x, said))
  BY <1>7 DEF IsInput, SkipFlete
<1> HIDE DEF Same
<1>8. Same(Effective(in, bd, now, said))
  BY <1>1, <1>2, <1>3, <1>4, <1>5, <1>6, <1>7 DEF Effective
<1> QED BY <1>8 DEF Same

(* A quote with documents is only calculated again for a text that names   *)
(* its material; what the search then makes of that text is another matter.*)
THEOREM SentQuotesAreNamed ==
  Spec => [][quotes[Main].docs /\ quotes[Main].bd.ok /\ quotes[Main].bd.sku # None
               => quotes'[Main].bd.sku = quotes[Main].bd.sku
                    \/ quotes[Main].bd.sku \in asked'[Main].material.names]_vars
<1>1. ASSUME IInv, [Next]_vars, quotes[Main].docs, quotes[Main].bd.ok, quotes[Main].bd.sku # None,
             quotes'[Main].bd.sku # quotes[Main].bd.sku
      PROVE  quotes[Main].bd.sku \in asked'[Main].material.names
  <2>1. Main \in Ids /\ IsRow(quotes[Main]) /\ quotes[Main].exists /\ Main \notin Siblings
    BY <1>1, PricingAssumption DEF IInv, Ids
  <2>2. ASSUME NEW k \in Ids, NEW row, row.bd.sku = quotes[k].bd.sku, quotes' = [quotes EXCEPT ![k] = row]
        PROVE  FALSE
    BY <1>1, <2>1, <2>2 DEF IInv
  <2>3. ~\E pieces \in PieceLists : ListPiecesTool(pieces)
    <3> SUFFICES ASSUME NEW pieces \in PieceLists, ListPiecesTool(pieces) PROVE FALSE
      OBVIOUS
    <3>1. [quotes[Main] EXCEPT !.paso1 = pieces].bd.sku = quotes[Main].bd.sku
      BY <2>1 DEF IsRow
    <3> QED BY <2>1, <2>2, <3>1 DEF ListPiecesTool
  <2>4. ~UpdateQuote /\ ~\E k \in Ids : GenerateDocuments(k)
    <3>1. ASSUME NEW k \in Ids, quotes[k].exists, quotes' = [quotes EXCEPT ![k].docs = TRUE] PROVE FALSE
      <4>1. [quotes[k] EXCEPT !.docs = TRUE].bd.sku = quotes[k].bd.sku
        BY <1>1, <3>1 DEF IInv, IsRow
      <4> QED BY <2>2, <3>1, <4>1
    <3> QED BY <2>1, <3>1 DEF UpdateQuote, GenerateDocuments
  <2>5. ~\E patch \in Patches : PatchMo(patch)
    <3> SUFFICES ASSUME NEW patch \in Patches, PatchMo(patch) PROVE FALSE
      OBVIOUS
    <3> DEFINE bd == Repriced(quotes[Main].bd, PatchedLines(quotes[Main].bd, patch))
               row == [quotes[Main] EXCEPT !.bd = bd]
    <3>1. bd.sku = quotes[Main].bd.sku
      <4>1. DOMAIN quotes[Main].bd = Result
        BY <1>1, <2>1 DEF IInv, Priceds, Computed
      <4> QED BY <4>1 DEF Repriced, Result
    <3>2. quotes' = [quotes EXCEPT ![Main] = row]
      BY DEF PatchMo
    <3> HIDE DEF bd
    <3>3. row.bd = bd
      BY <2>1 DEF IsRow
    <3> HIDE DEF row
    <3> QED BY <2>1, <2>2, <3>1, <3>2, <3>3
  <2>6. ~UNCHANGED vars
    BY <1>1 DEF vars
  <2>7. PICK in \in Inputs, now \in SUBSET Phrases : CalculateTool(in, now)
    BY <1>1, <2>3, <2>4, <2>5, <2>6 DEF Next
  <2>8. PICK t \in Target(in) :
        \E row \in {IF quotes[t].exists THEN quotes[t] ELSE Fresh(in.material.text)} :
        \E eff \in {Effective(in, row.bd, now, history')} :
        \E run \in {WithPaso1(eff, row.paso1)} :
        \E result \in {Guarded(eff, run)} :
          /\ quotes' = [quotes EXCEPT ![t] = IF result.ok THEN Saved(row, result) ELSE row]
          /\ asked' = IF result.ok THEN [asked EXCEPT ![t] = run] ELSE asked
          /\ patched' = IF result.ok THEN patched \ {t} ELSE patched
    BY <2>7, Zenon DEF CalculateTool
  <2>9. PICK row, eff, run, result :
        /\ row = IF quotes[t].exists THEN quotes[t] ELSE Fresh(in.material.text)
        /\ eff = Effective(in, row.bd, now, history')
        /\ run = WithPaso1(eff, row.paso1)
        /\ quotes' = [quotes EXCEPT ![t] = IF result.ok THEN Saved(row, result) ELSE row]
        /\ asked' = IF result.ok THEN [asked EXCEPT ![t] = run] ELSE asked
    BY <2>8
  <2>10. t = Main /\ row = quotes[Main] /\ result.ok /\ asked'[Main] = run
    BY <1>1, <2>1, <2>9 DEF IInv
  <2>11. quotes[Main].bd.sku \in in.material.names
    BY <1>1, <2>1, <2>10 DEF Target, NamesAnother, Holding, Unused
  <2>12. IsInput(in) /\ (row.bd.ok => Sound(row.bd)) /\ Measured(row.paso1)
    BY <1>1, <2>1, <2>10, PricingAssumption DEF IInv, Priceds, Computed, IsRow
  <2>13. IsInput(eff) /\ eff.material.names = in.material.names
    BY <2>9, <2>12, GuardsKeepInput, GuardsKeepNames
  <2>14. run.material = eff.material
    BY <2>9, <2>13 DEF WithPaso1, IsInput
  <2> QED BY <2>10, <2>11, <2>13, <2>14
<1>2. IInv /\ [Next]_vars =>
        (quotes[Main].docs /\ quotes[Main].bd.ok /\ quotes[Main].bd.sku # None
           => quotes'[Main].bd.sku = quotes[Main].bd.sku
                \/ quotes[Main].bd.sku \in asked'[Main].material.names)
  BY <1>1
<1> QED BY <1>2, Invariance, PTL DEF Spec
=============================================================================
