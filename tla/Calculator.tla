----------------------------- MODULE Calculator -----------------------------
(* The deterministic calculator of quote_engine/calculator.py and the price *)
(* lookups it makes: material search, square metres, waste, labour lines,   *)
(* discounts and totals.  A pure module: no state.                          *)
(*                                                                          *)
(* Units.  Lengths are centimetres, areas cm2 (1 m2 = 10000), quantities of *)
(* labour hundredths; money is whole pesos or dollars, as in the code.      *)
(* Python's round() is half to even, _round_half_up is half up.             *)
EXTENDS Sums, FiniteSetsExt, SequencesExt

CONSTANTS
  Catalog,       \* sku -> [family, named, stone, finish, extra, negroBrasil, currency, base]
  GrisMara,      \* the sku every "gris mara" without a finish resolves to
  Labor,         \* labour sku -> price without VAT
  Zones,         \* zone -> [base, vat, pulido], of the zone aliases
  Rosario,       \* the zone used when the asked one has no alias
  SinkPrices,    \* sink sku -> price with VAT
  None

Materials == DOMAIN Catalog
SINTERIZADOS == {"dekton", "neolith", "puraprima", "laminatto"}
SINTETICOS == SINTERIZADOS \cup {"silestone", "purastone"}
NaturalFamilies == {"granito", "marmol"}
Metre == 10000

ASSUME CatalogAssumption ==
  /\ \A m \in Materials : /\ Catalog[m].family \in SINTETICOS \cup NaturalFamilies
                          /\ Catalog[m].named \in SINTETICOS \cup NaturalFamilies \cup {None}
                          /\ Catalog[m].currency \in {"USD", "ARS"}
                          /\ Catalog[m].base \in Nat
  /\ GrisMara # None => GrisMara \in Materials /\ Catalog[GrisMara].family = "granito"
  /\ None \notin Materials \cup {"johnson", "apoyo", "cliente"}

(* catalog_lookup: dollars are floored, pesos rounded, and a price that     *)
(* already includes VAT is taken as it is.                                  *)
MutantWithVat(base, currency) == (base * 121) \div 100

WithVat(base, currency) ==
  IF currency = "USD" THEN (base * 121) \div 100 ELSE HalfEven(base * 121, 100)

MoPrice(sku) == WithVat(Labor[sku], "ARS")

FindFlete(zone) ==
  LET z == IF zone \in DOMAIN Zones THEN zone ELSE Rosario
  IN [zone |-> z, base |-> Zones[z].base, vat |-> Zones[z].vat, pulido |-> Zones[z].pulido,
      price |-> IF Zones[z].vat THEN Zones[z].base ELSE WithVat(Zones[z].base, "ARS")]

(* --------------------------- material search --------------------------- *)
(* What the operator wrote: the family it names (None if no keyword), the   *)
(* sku it equals after normalisation, whether it is a bare family name,     *)
(* the finishes it mentions or negates, and its similarity to every row.    *)
NotFound(why) == [found |-> FALSE, sku |-> None, why |-> why, negated |-> FALSE]

MutantScope(asked) == Materials

Scope(asked) == {m \in Materials : asked.family \in {None, Catalog[m].family}}

\* Polished rows only, unless the text names the other finish or nothing is left.
Finished(asked) ==
  LET kept == {m \in Scope(asked) : Catalog[m].finish \in {"plain"} \cup asked.finishes}
  IN IF kept = {} THEN Scope(asked) ELSE kept

Cutoff(asked) == IF asked.family = None THEN 85 ELSE 80

ExtraSiblings(asked, m) ==
  {n \in Finished(asked) : /\ Catalog[n].family = Catalog[m].family
                           /\ Catalog[n].stone = Catalog[m].stone
                           /\ Catalog[n].extra}

FuzzyBest(asked) ==
  LET close == {m \in Finished(asked) : asked.score[m] >= Cutoff(asked)}
      best == CHOOSE m \in close : \A n \in close : asked.score[m] >= asked.score[n]
  IN IF close = {} THEN None
     ELSE IF ~Catalog[best].extra /\ ExtraSiblings(asked, best) # {}
          THEN CHOOSE n \in ExtraSiblings(asked, best) : TRUE
          ELSE best

VariantNegated(asked, m) ==
  \/ "extra" \in asked.negated /\ Catalog[m].extra
  \/ Catalog[m].finish \in asked.negated

\* "gris mara" is settled before anything else in the text is looked at.
SettledGrisMara(asked) == asked.grisMara /\ asked.finishes = {} /\ GrisMara # None

FindMaterial(asked) ==
  IF SettledGrisMara(asked)
  THEN [found |-> TRUE, sku |-> GrisMara, why |-> "gris_mara", negated |-> FALSE]
  ELSE IF asked.generic THEN NotFound("ambiguous_family")
  ELSE IF asked.exact \in Scope(asked)
       THEN [found |-> TRUE, sku |-> asked.exact, why |-> "exact", negated |-> FALSE]
  ELSE LET m == FuzzyBest(asked)
       IN IF m = None THEN NotFound("suggestions")
          ELSE [found |-> TRUE, sku |-> m, why |-> "fuzzy", negated |-> VariantNegated(asked, m)]

Sinterized(m) == Catalog[m].family \in SINTERIZADOS

(* ------------------------------- pieces -------------------------------- *)
IsPiece(p) == p.largo \in Nat /\ p.dim2 \in Nat /\ p.qty \in Nat /\ p.override \in Nat

IsFrentin(p) == p.desc = "frentin"
IsRegrueso(p) == p.desc = "regrueso"
HasPileta(p) == p.desc = "mesada_pileta"
IsMesada(p) == p.desc \in {"mesada", "mesada_pileta"}

\* Rounded half up to two decimals per piece; a frentin is labour only.
PieceM2(p) == IF IsFrentin(p) THEN 0
              ELSE 100 * HalfUp(IF p.override > 0 THEN p.override ELSE p.largo * p.dim2, 100)

SameRow(p, q) == p.desc = q.desc /\ p.amb = q.amb /\ p.largo = q.largo /\ p.dim2 = q.dim2

\* Rows of equal description and measures become one, with the sum of the
\* quantities and the area of the first.
PieceDetails(pieces) ==
  LET first == {i \in DOMAIN pieces : \A j \in 1..(i - 1) : ~SameRow(pieces[i], pieces[j])}
      quantity(i) == TotalOf(pieces, LAMBDA q : SameRow(q, pieces[i]), LAMBDA q : q.qty)
      Detail(i) == [desc |-> pieces[i].desc, amb |-> pieces[i].amb, largo |-> pieces[i].largo,
                    dim2 |-> pieces[i].dim2, override |-> pieces[i].override > 0,
                    m2 |-> PieceM2(pieces[i]), qty |-> quantity(i)]
  IN [k \in 1..Cardinality(first) |-> Detail(Nth(first, k))]

MutantCalculateM2(pieces) == Total(pieces, PieceM2)

CalculateM2(pieces) == Total(pieces, LAMBDA p : PieceM2(p) * p.qty)

\* list_pieces: the rows of step 1 and the total it shows.
ListPieces(pieces) == [rows |-> PieceDetails(pieces), total |-> CalculateM2(pieces)]

RegruesoM2(details) ==
  TotalOf(details, IsRegrueso, LAMBDA d : d.m2 * d.qty)

(* -------------------------------- waste -------------------------------- *)
\* The waste looks for the family word in the catalogue's name of the row
\* ("named"), not at the row's material type.
PlateM2(m) == IF Catalog[m].named \in SINTERIZADOS THEN 51200 ELSE 42000

NoMerma(waste) == [aplica |-> FALSE, desperdicio |-> waste, sobrante |-> 0]

CalculateMerma(m2, m, edificio) ==
  IF edificio \/ Catalog[m].negroBrasil \/ Catalog[m].named \notin SINTETICOS THEN NoMerma(0)
  ELSE LET ref == IF Catalog[m].named = "silestone" THEN PlateM2(m) \div 2 ELSE PlateM2(m)
           waste == 100 * HalfEven(Ceil(m2, ref) * ref - m2, 100)
       IN IF waste < Metre THEN NoMerma(waste)
          ELSE [aplica |-> TRUE, desperdicio |-> waste, sobrante |-> 100 * HalfEven(waste, 200)]

(* ------------------------------ discounts ------------------------------ *)
\* Declared by hand first, then architect, then building, then quantity.
ByCurrency(m) == IF Catalog[m].currency = "USD" THEN 5 ELSE 8

DiscountPct(in, m, m2) ==
  IF in.discount > 0 THEN in.discount
  ELSE IF in.client = "architect" THEN ByCurrency(m)
  ELSE IF in.edificio /\ m2 >= 15 * Metre THEN 18
  ELSE IF m2 > 6 * Metre THEN ByCurrency(m)
  ELSE 0

(* ---------------------- what the input is taken for -------------------- *)
\* Metres declared, or the lengths of the pieces that look like it, or one.
Metres(declared, pieces, Looks(_)) ==
  LET found == TotalOf(pieces, Looks, LAMBDA p : p.largo)
  IN IF declared > 0 THEN declared ELSE IF found > 0 THEN found ELSE 100

FrentinMl(in) == Metres(in.frentinMl, in.pieces, IsFrentin)
RegruesoMl(in) == Metres(in.regruesoMl, in.pieces, IsRegrueso)

\* A building counts the sinks on its pieces, or, when a guard inferred the
\* sink, one per worktop.
PiletaQty(in) ==
  LET onPieces == TotalOf(in.pieces, HasPileta, LAMBDA p : p.qty)
      worktops == TotalOf(in.pieces, IsMesada, LAMBDA p : p.qty)
  IN IF ~in.edificio \/ in.pileta = None \/ in.piletaQty > 1 THEN in.piletaQty
     ELSE IF onPieces > 1 THEN onPieces
     ELSE IF in.inferred /\ worktops > 1 THEN worktops
     ELSE in.piletaQty

Colocacion(in) == in.colocacion /\ ~in.edificio

\* A regrueso without pieces of its own consumes 5 cm of material per metre.
MaterialM2(in) ==
  LET m2 == CalculateM2(in.pieces)
  IN IF in.regrueso /\ RegruesoM2(PieceDetails(in.pieces)) = 0
     THEN m2 + 5 * RegruesoMl(in) ELSE m2

(* ---------------------------- labour lines ----------------------------- *)
Line(kind, qty, price, base, vat) ==
  [kind |-> kind, qty |-> qty, unit |-> price, base |-> base,
   total |-> HalfEven(price * qty, 100), vat |-> vat, edif |-> FALSE]

\* Sinterized materials have a price of their own for the same job.
MoLine(kind, qty, sku, sint) ==
  LET s == IF sint THEN sku \o "_dekton" ELSE sku
  IN Line(kind, qty, MoPrice(s), Labor[s], FALSE)

PiletaLines(in, sint) ==
  IF in.pileta = None \/ PiletaQty(in) = 0 THEN <<>>
  ELSE IF in.pileta = "apoyo" THEN <<MoLine("apoyo", 100 * PiletaQty(in), "apoyo", sint)>>
  ELSE <<MoLine("pileta", 100 * PiletaQty(in), "pileta", sint)>>

AnafeLines(in, sint) ==
  IF in.anafe THEN <<MoLine("anafe", 100 * in.anafeQty, "anafe", sint)>> ELSE <<>>

\* One line per room when the pieces name two or more, each at least 1 m2.
ColocacionLines(in, sint) ==
  LET details == PieceDetails(in.pieces)
      Placed(d) == ~IsFrentin(d) /\ d.amb # None
      rooms == {details[i].amb : i \in {k \in DOMAIN details : Placed(details[k])}}
      RoomM2(a) == TotalOf(details, LAMBDA d : Placed(d) /\ d.amb = a, LAMBDA d : d.m2 * d.qty)
      Room(m2) == LET area == Greatest(m2, Metre)
                      line == MoLine("colocacion", HalfUp(area, 100), "colocacion", sint)
                  IN [line EXCEPT !.total = HalfEven(line.unit * area, Metre)]
      order == SetToSeq(rooms)
  IN IF ~Colocacion(in) THEN <<>>
     ELSE IF Cardinality(rooms) >= 2 THEN [i \in DOMAIN order |-> Room(RoomM2(order[i]))]
     ELSE <<Room(MaterialM2(in))>>

FrentinLines(in, sint) ==
  IF ~in.frentin THEN <<>>
  ELSE <<MoLine("frentin", FrentinMl(in), "frentin", sint)>>
       \o (IF in.inglete THEN <<MoLine("corte45", 2 * FrentinMl(in), "corte45", sint)>> ELSE <<>>)

RegruesoLines(in) ==
  IF in.regrueso THEN <<MoLine("regrueso", RegruesoMl(in), "regrueso", FALSE)>> ELSE <<>>

\* Six physical pieces to a trip in a building, one trip in a house.
FleteQty(in) ==
  LET travelling == TotalOf(in.pieces, LAMBDA p : p.desc \notin {"frentin", "zocalo"}, LAMBDA p : p.qty)
  IN IF in.fleteQty > 0 THEN in.fleteQty
     ELSE IF in.edificio THEN Greatest(1, Ceil(travelling, 6))
     ELSE 1

FleteLines(in) ==
  LET f == FindFlete(in.zone)
      half == [Line("pulido", 100, HalfEven(f.price, 2), HalfEven(f.base, 2), FALSE)
                 EXCEPT !.total = HalfEven(f.price, 2)]
  IN IF in.skipFlete THEN <<>>
     ELSE <<Line("flete", 100 * FleteQty(in), f.price, f.base, f.vat)>>
          \o (IF Colocacion(in) /\ f.pulido THEN <<half>> ELSE <<>>)

\* A socket hole is cut in the alzada: without one it is ignored.
TomasLines(in, sint) ==
  IF in.tomasQty > 0 /\ \E i \in DOMAIN in.pieces : in.pieces[i].desc = "alzada"
  THEN <<MoLine("tomas", 100 * in.tomasQty, "tomas", sint)>> ELSE <<>>

MutantEdificio(line) ==
  LET unit == HalfEven(line.unit * 100, 105)
  IN [line EXCEPT !.unit = unit, !.total = HalfEven(unit * line.qty, 100), !.edif = TRUE]

\* In a building every line but the flete is divided by 1.05.
Edificio(line) ==
  IF line.kind = "flete" THEN line
  ELSE LET unit == HalfEven(line.unit * 100, 105)
       IN [line EXCEPT !.unit = unit, !.total = HalfEven(unit * line.qty, 100), !.edif = TRUE]

MoItems(in, m) ==
  LET sint == Sinterized(m)
      lines == PiletaLines(in, sint) \o AnafeLines(in, sint) \o ColocacionLines(in, sint)
               \o FrentinLines(in, sint) \o RegruesoLines(in) \o FleteLines(in)
               \o TomasLines(in, sint)
  IN IF in.edificio THEN [i \in DOMAIN lines |-> Edificio(lines[i])] ELSE lines

NotFlete(line) == line.kind # "flete"
MoTotal(items) == Total(items, LAMBDA l : l.total)
MutantMoDiscount(items, pct) == MoTotal(items) * pct
MoTotalOf(items, Test(_)) == TotalOf(items, Test, LAMBDA l : l.total)
MoDiscount(items, pct) == HalfEven(MoTotalOf(items, NotFlete) * pct, 100)

\* The sink itself, only for a Johnson sink whose model the catalogue has.
Sinks(in) == IF in.pileta = "johnson" /\ in.sku \in DOMAIN SinkPrices
             THEN <<[qty |-> 1, price |-> SinkPrices[in.sku]]>> ELSE <<>>

SinksTotal(sinks) == Total(sinks, LAMBDA s : s.qty * s.price)

(* -------------------------------- quote -------------------------------- *)
Refused(why) == [ok |-> FALSE, why |-> why]

\* No pieces, a sink, and nothing that needs material.
IsProductsOnly(in) ==
  /\ in.pieces = <<>>
  /\ in.sinks # <<>> \/ in.piletaQty > 0
  /\ ~in.colocacion /\ ~in.regrueso /\ ~in.anafe

ProductsOnly(in) ==
  LET valid == Picked(in.sinks, LAMBDA s : s.qty > 0 /\ s.price > 0)
      sinks == IF in.sinks # <<>> THEN valid
               ELSE IF in.sku \in DOMAIN SinkPrices
                    THEN <<[qty |-> in.piletaQty, price |-> SinkPrices[in.sku]]>> ELSE <<>>
      off == HalfEven(SinksTotal(sinks) * in.discount, 100)
  IN IF sinks = <<>> THEN Refused("no_sink")
     ELSE [ok |-> TRUE, mode |-> "products_only", sku |-> None, m2 |-> 0, price |-> 0, base |-> 0,
           currency |-> "ARS", gross |-> 0, net |-> 0, discount |-> in.discount,
           discountAmount |-> off, moDiscount |-> 0, moDiscountAmount |-> 0,
           merma |-> NoMerma(0), sobrante |-> 0, details |-> <<>>, mo |-> <<>>, sinks |-> sinks,
           totalMo |-> 0, totalArs |-> SinksTotal(sinks) - off, totalUsd |-> 0,
           colocacion |-> FALSE, edificio |-> FALSE, pileta |-> in.pileta,
           piletaQty |-> Total(sinks, LAMBDA s : s.qty), anafe |-> FALSE, frentin |-> FALSE,
           regrueso |-> FALSE, regruesoMl |-> 0, inglete |-> FALSE, skipFlete |-> TRUE]

MutantGrandTotal(currency, labour, material) == <<labour + material, 0>>

\* Everything in pesos is one total; material priced in dollars is the other.
GrandTotal(currency, labour, material) ==
  IF currency = "USD" THEN <<labour, material>> ELSE <<labour + material, 0>>

\* calculate_quote once material, area, price and labour are known.
Bill(in, m, m2, price, mo) ==
  LET currency == Catalog[m].currency
      merma == CalculateMerma(m2, m, in.edificio)
      pct == DiscountPct(in, m, m2)
      gross == HalfEven(m2 * price, Metre)
      off == HalfEven(gross * pct, 100)
      sobrante == HalfEven(merma.sobrante * price, Metre)
      moOff == MoDiscount(mo, in.moDiscount)
      totalMo == MoTotal(mo) - moOff
      sinks == Sinks(in)
      grand == GrandTotal(currency, totalMo + SinksTotal(sinks), gross - off + sobrante)
  IN [ok |-> TRUE, mode |-> "full", sku |-> m, m2 |-> m2, price |-> price, base |-> Catalog[m].base,
      currency |-> currency, gross |-> gross, net |-> gross - off, discount |-> pct,
      discountAmount |-> off, moDiscount |-> in.moDiscount, moDiscountAmount |-> moOff,
      merma |-> merma, sobrante |-> sobrante, details |-> PieceDetails(in.pieces),
      mo |-> mo, sinks |-> sinks, totalMo |-> totalMo,
      totalArs |-> grand[1], totalUsd |-> grand[2],
      colocacion |-> Colocacion(in), edificio |-> in.edificio, pileta |-> in.pileta,
      piletaQty |-> PiletaQty(in), anafe |-> in.anafe, frentin |-> in.frentin,
      regrueso |-> in.regrueso, regruesoMl |-> IF in.regrueso THEN RegruesoMl(in) ELSE in.regruesoMl,
      inglete |-> in.inglete, skipFlete |-> in.skipFlete]

Priced(in, m) ==
  Bill(in, m, MaterialM2(in), WithVat(Catalog[m].base, Catalog[m].currency), MoItems(in, m))

CalculateQuote(in) ==
  LET found == FindMaterial(in.material)
  IN IF in.client = "placeholder" \/ ~in.project THEN Refused("no_client_or_project")
     ELSE IF IsProductsOnly(in) THEN ProductsOnly(in)
     ELSE IF ~found.found THEN Refused(found.why)
     ELSE Priced(in, found.sku)

(* ------------------------------- step 2 -------------------------------- *)
\* The square metres the table of step 2 ends with: the sum of its rows, or
\* the priced area when there is no row.
ShownM2(q) ==
  LET rows == Total(q.details, LAMBDA d : d.m2 * d.qty)
  IN IF rows > 0 THEN rows ELSE 100 * HalfUp(q.m2, 100)
=============================================================================
