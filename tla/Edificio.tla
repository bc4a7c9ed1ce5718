------------------------------ MODULE Edificio ------------------------------
(* Buildings from tables: what quote_engine/edificio_parser.py makes of the *)
(* tables of a PDF, from the detection to one document per material.  A     *)
(* pure module; units are those of Calculator.                              *)
EXTENDS Calculator

CONSTANTS
  RawNames,      \* materials as a table spells them, in alphabetical order
  Resolves,      \* raw name -> row of the catalogue, or None when no lookup finds it
  Sintered,      \* raw names that contain the word of a sintered family
  Tables,        \* plan -> its tables, see ParseTables
  PerTrip        \* worktops in one trip

Names == {RawNames[i] : i \in DOMAIN RawNames}

ASSUME EdificioAssumption ==
  /\ RawNames \in Seq(Names)
  /\ \A i, j \in DOMAIN RawNames : i # j => RawNames[i] # RawNames[j]
  /\ Resolves \in [Names -> Materials \cup {None}]
  /\ Sintered \subseteq Names
  /\ PerTrip \in Nat \ {0}
  /\ \A p \in DOMAIN Tables :
       /\ Tables[p] \in Seq(Range(Tables[p]))
       /\ \A i \in DOMAIN Tables[p] :
            LET rows == Tables[p][i].rows
            IN /\ rows \in Seq(Range(rows))
               /\ \A r \in DOMAIN rows :
                    /\ rows[r].mat \in Names /\ rows[r].largo \in Nat /\ rows[r].ancho \in Nat
                    /\ rows[r].qty \in Nat /\ rows[r].piletas \in Nat /\ rows[r].faldon \in Nat

\* What the labour of a building and its trips cost is in the lists.
ASSUME EdificioListsAssumption ==
  /\ \A job \in {"pileta", "apoyo", "faldon"} : Labor[job] \in Nat /\ Labor[job \o "_dekton"] \in Nat
  /\ Rosario \in DOMAIN Zones /\ \A z \in DOMAIN Zones : Zones[z].base \in Nat

Plans == DOMAIN Tables

(* ------------------------------- parsing ------------------------------- *)
\* A table: the section its first row names (None), what its header makes of
\* it (pieces, labor or text) and its rows.  A section type is remembered for
\* the tables that follow, whatever their kind.
SectionOf(tables, i) ==
  LET named == {j \in 1..i : tables[j].section # None}
  IN IF named = {} THEN "marmoleria"
     ELSE tables[CHOOSE j \in named : \A k \in named : k <= j].section

\* Rows without an id are skipped, and so are tables of labour and texts.  A
\* section and a row keep the place they have in the file.
ParseTables(tables) ==
  LET Rows(i) == {r \in DOMAIN tables[i].rows : tables[i].rows[r].id # None}
      kept == {i \in DOMAIN tables : tables[i].kind = "pieces" /\ Rows(i) # {}}
  IN [i \in kept |-> [type |-> SectionOf(tables, i), rows |-> Restrict(tables[i].rows, Rows(i))]]

\* detect_edificio, in tenths of confidence; declared by the operator, it is one.
Detected(words, tables) ==
  LET types == {tables[i].section : i \in DOMAIN tables} \ {None, "marmoleria"}
      mentioned == UNION {{tables[i].rows[r].mat : r \in DOMAIN tables[i].rows} : i \in DOMAIN tables}
      rows == Total(tables, LAMBDA t : Len(t.rows) + 1)
  IN \/ words = "override"
     \/ (IF words = "keyword" THEN 5 ELSE 0) + 3 * Cardinality(types)
        + (IF Cardinality(mentioned) >= 3 THEN 3 ELSE 0) + (IF rows > 15 THEN 2 ELSE 0) >= 5

(* ----------------------------- normalising ----------------------------- *)
\* No quantity is one; the count of sinks is taken as it is written, the skirt
\* as long as all its units together.
Normalize(row) ==
  LET qty == Greatest(row.qty, 1)
  IN [mat |-> row.mat, qty |-> qty, piletas |-> row.piletas, apoyo |-> row.apoyo, faldon |-> row.faldon,
      m2 |-> row.largo * row.ancho * qty,
      faldonMl |-> IF row.faldon > 0 THEN row.largo * qty ELSE 0]

\* The pieces of all sections, each by its section and its row.
PiecesOf(sections) ==
  [at \in UNION {{i} \X DOMAIN sections[i].rows : i \in DOMAIN sections} |->
     Normalize(sections[at[1]].rows[at[2]])]

(* ----------------------------- aggregates ------------------------------ *)
MaterialSummary(pieces, name) ==
  LET of == Restrict(pieces, {at \in DOMAIN pieces : pieces[at].mat = name})
      mesadas == 100 * HalfEven(Total(of, LAMBDA p : p.m2), 100)
      faldones == 10 * HalfEven(Total(of, LAMBDA p : p.faldonMl * p.faldon), 10)
  IN [mesadas |-> mesadas, faldones |-> faldones,
      m2 |-> 100 * HalfEven(mesadas + faldones, 100),
      pegado |-> Total(of, LAMBDA p : IF p.apoyo THEN 0 ELSE p.piletas),
      apoyo |-> Total(of, LAMBDA p : IF p.apoyo THEN p.piletas ELSE 0),
      faldonMl |-> Total(of, LAMBDA p : p.faldonMl),
      physical |-> Total(of, LAMBDA p : p.qty)]

SumOver(S, Value(_)) == SumOf([x \in S |-> Value(x)])

\* Discounted above fifteen square metres (the calculator discounts from
\* fifteen on).
Aggregates(pieces) ==
  LET names == {pieces[k].mat : k \in DOMAIN pieces}
      of == [n \in names |-> MaterialSummary(pieces, n)]
      physical == SumOver(names, LAMBDA n : of[n].physical)
      m2 == SumOver(names, LAMBDA n : of[n].m2)
  IN [of |-> of, physical |-> physical, m2 |-> m2,
      pegado |-> SumOver(names, LAMBDA n : of[n].pegado),
      apoyo |-> SumOver(names, LAMBDA n : of[n].apoyo),
      faldonMl |-> SumOver(names, LAMBDA n : of[n].faldonMl),
      flete |-> IF physical > 0 THEN Ceil(physical, PerTrip) ELSE 1,
      discount |-> IF m2 > 15 * Metre THEN 18 ELSE 0]

\* Hard errors: a repeated id within a section, and totals that are not those
\* of the pieces.
ValidEdificio(sections, s) ==
  LET pieces == PiecesOf(sections)
  IN /\ \A k \in DOMAIN sections : \A i, j \in DOMAIN sections[k].rows :
          i # j => sections[k].rows[i].id # sections[k].rows[j].id
     /\ s.pegado + s.apoyo = Total(pieces, LAMBDA p : p.piletas)
     /\ s.flete = IF s.physical > 0 THEN Ceil(s.physical, PerTrip) ELSE 1
     /\ \A n \in DOMAIN s.of : Distance(s.of[n].m2, s.of[n].mesadas + s.of[n].faldones) <= 500

(* -------------------------------- step 2 ------------------------------- *)
PricedMaterial(s, n) ==
  LET sku == Resolves[n]
      unit == WithVat(Catalog[sku].base, Catalog[sku].currency)
      total == HalfEven(s.of[n].m2 * unit, Metre)
      discount == HalfEven(total * s.discount, 100)
  IN [ok |-> TRUE, sku |-> sku, currency |-> Catalog[sku].currency, m2 |-> s.of[n].m2,
      unit |-> unit, total |-> total, discount |-> discount, net |-> total - discount]

NotPriced == [ok |-> FALSE]

\* One line of labour for the whole building: 5 % less than a house's price.
BuildingLine(kind, sku, qty) ==
  LET unit == HalfEven(100 * MoPrice(sku), 105)
  IN [kind |-> kind, qty |-> qty, unit |-> unit]
FleteLine(zone, qty) == [kind |-> "flete", qty |-> qty, unit |-> FindFlete(zone).price]

\* A skirt is measured in centimetres and priced by the metre.
LineTotal(kind, unit, qty) == IF kind = "faldon" THEN HalfEven(unit * qty, 100) ELSE unit * qty

\* Any sintered material makes the labour of the whole building sintered.
BuildingMo(s, zone) ==
  LET Sku(k) == IF DOMAIN s.of \cap Sintered # {} THEN k \o "_dekton" ELSE k
      all == {BuildingLine("pileta", Sku("pileta"), s.pegado),
              BuildingLine("apoyo", Sku("apoyo"), s.apoyo),
              BuildingLine("faldon", Sku("faldon"), s.faldonMl),
              FleteLine(zone, s.flete)}
  IN {l \in all : l.qty > 0}

\* A material no lookup finds is shown as an error and left out of the totals.
Paso2(s, zone) ==
  LET results == [n \in DOMAIN s.of |-> IF Resolves[n] = None THEN NotPriced ELSE PricedMaterial(s, n)]
      priced == {n \in DOMAIN s.of : results[n].ok}
      mo == BuildingMo(s, zone)
      labour == SumOver(mo, LAMBDA l : LineTotal(l.kind, l.unit, l.qty))
      Material(currency) == SumOver({n \in priced : results[n].currency = currency},
                                    LAMBDA n : results[n].net)
  IN [results |-> results, mo |-> mo, labour |-> labour,
      ars |-> Material("ARS") + labour, usd |-> Material("USD")]

(* ------------------------- documents by material ----------------------- *)
MutantDistributeFlete(total, counts) ==
  LET all == SumOver(DOMAIN counts, LAMBDA n : counts[n])
  IN [n \in DOMAIN counts |-> IF all = 0 THEN 0 ELSE (total * counts[n]) \div all]

\* Largest remainder, ties in alphabetical order.
DistributeFlete(total, counts) ==
  LET all == SumOver(DOMAIN counts, LAMBDA n : counts[n])
      base == [n \in DOMAIN counts |-> (total * counts[n]) \div all]
      rest == [n \in DOMAIN counts |-> (total * counts[n]) % all]
      At(n) == CHOOSE i \in DOMAIN RawNames : RawNames[i] = n
      Before(m, n) == rest[m] > rest[n] \/ (rest[m] = rest[n] /\ At(m) < At(n))
      left == total - SumOver(DOMAIN counts, LAMBDA n : base[n])
  IN IF all = 0 \/ total = 0 THEN [n \in DOMAIN counts |-> 0]
     ELSE [n \in DOMAIN counts |->
             base[n] + (IF Cardinality({m \in DOMAIN counts : Before(m, n)}) < left THEN 1 ELSE 0)]

\* What one material's document charges: its material, and the labour of its
\* own sinks, skirts and share of the trips at the prices of step 2.
DocContext(s, p2, n) ==
  LET result == p2.results[n]
      Unit(kind) == LET of == {l \in p2.mo : l.kind = kind}
                    IN IF of = {} THEN 0 ELSE (CHOOSE l \in of : TRUE).unit
      trips == DistributeFlete(s.flete, [m \in DOMAIN s.of |-> s.of[m].physical])[n]
      labour == Unit("pileta") * s.of[n].pegado + Unit("apoyo") * s.of[n].apoyo
                + LineTotal("faldon", Unit("faldon"), s.of[n].faldonMl) + Unit("flete") * trips
  IN [name |-> n, sku |-> result.sku,
      ars |-> labour + (IF result.currency = "ARS" THEN result.net ELSE 0),
      usd |-> IF result.currency = "USD" THEN result.net ELSE 0]

\* Only the priced materials have a document.
DocContexts(s, p2) ==
  [n \in {m \in DOMAIN p2.results : p2.results[m].ok} |-> DocContext(s, p2, n)]
=============================================================================
