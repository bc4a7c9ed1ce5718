----------------------------- MODULE MCBuilding -----------------------------
(* Three materials (one in dollars), four PDFs: two tables of a building,   *)
(* one of them with a repeated id and a material nobody can price, a drawn  *)
(* building without tables and a CAD drawing of five pages.                 *)
EXTENDS Building

Row(family, currency, base) ==
  [family |-> family, named |-> family, stone |-> family, finish |-> "plain", extra |-> FALSE,
   negroBrasil |-> FALSE, currency |-> currency, base |-> base]
MCCatalog == [boreal |-> Row("granito", "ARS", 1237), negro |-> Row("granito", "ARS", 1501),
              silestone |-> Row("silestone", "USD", 97)]
MCLabor == [j \in {"pileta", "apoyo", "faldon", "pileta_dekton", "apoyo_dekton", "faldon_dekton"} |-> 653]
MCZones == [rosario |-> [base |-> 520, vat |-> FALSE, pulido |-> FALSE]]

\* The stone of the name of a granite, and a finish nobody asked for.
MCRawNames == <<"boreal", "boreal stone", "negro", "negro pulido", "old">>
MCResolves == [n \in {"boreal", "boreal stone", "negro", "negro pulido", "old"} |->
                 CASE n = "boreal stone" -> "silestone" [] n = "negro pulido" -> "negro" [] n = "old" -> None [] OTHER -> n]
MCSpelled == [n \in DOMAIN MCResolves |-> IF n \in {"boreal", "negro"} THEN n ELSE None]
MCOverlaps == {<<"boreal", "boreal">>, <<"boreal stone", "boreal">>, <<"negro", "negro">>, <<"negro pulido", "negro">>}
MCBegins == {<<n, n>> : n \in DOMAIN MCResolves} \cup {<<"boreal", "boreal stone">>, <<"negro", "negro pulido">>}

R(id, mat, largo, ancho, qty, piletas, faldon) ==
  [id |-> id, mat |-> mat, largo |-> largo, ancho |-> ancho, qty |-> qty,
   piletas |-> piletas, apoyo |-> mat = "negro", faldon |-> faldon]
T(section, kind, rows) == [section |-> section, kind |-> kind, rows |-> rows]

MCTables == [
  tower |-> <<T("marmoleria", "pieces", <<R("m1", "boreal stone", 143, 62, 12, 1, 10), R("m2", "negro", 155, 63, 5, 2, 7),
                                          R("m3", "boreal", 97, 57, 0, 0, 0)>>),
              T(None, "labor", <<R("x", "boreal", 1, 1, 1, 1, 0)>>),
              T("umbrales", "pieces", <<R("u1", "boreal", 91, 17, 9, 0, 3), R(None, "boreal", 91, 17, 9, 0, 0)>>),
              T(None, "pieces", <<R("u1", "boreal", 113, 17, 4, 0, 0)>>)>>,
  block |-> <<T("umbrales", "pieces", <<R("a", "negro pulido", 203, 61, 3, 1, 0), R("a", "negro", 99, 33, 2, 0, 5)>>),
              T("escalones", "pieces", <<R("e", "old", 99, 33, 7, 0, 0)>>)>>,
  sketch |-> <<>>,
  cad |-> <<>>]
MCSheets == [tower |-> [pages |-> 1, drawn |-> FALSE, keywords |-> 1],
             block |-> [pages |-> 2, drawn |-> TRUE, keywords |-> 1],
             sketch |-> [pages |-> 1, drawn |-> TRUE, keywords |-> 1],
             cad |-> [pages |-> 5, drawn |-> TRUE, keywords |-> 1]]

M(words, says, short) == [words |-> words, says |-> says, short |-> short]
MCMessages == {M("keyword", "brief", FALSE), M("none", "confirm", TRUE), M("none", "dismiss", TRUE),
               M("none", "values", TRUE), M("none", "skip", TRUE), M("none", "zone", TRUE)}

Z(name, above, sure, area) == [name |-> name, above |-> above, sure |-> sure, area |-> area]
MCZoneReadings == {{Z("PLANTA", FALSE, FALSE, 3), Z("CORTE", FALSE, FALSE, 5)}, {Z("CORTE", FALSE, TRUE, 5)}}
Tip(shape, segs, method) == [id |-> "dc1", qty |-> 2, shape |-> shape, segs |-> segs, depth |-> 62,
                             backsplash |-> None, method |-> method]
MCTipReadings == {<<>>, <<Tip("L", <<235, 115>>, "inferred"), Tip("U", <<200, 115>>, "direct_read")>>}
MCRereadings == {None, Tip("L", <<115, 235>>, "direct_read"), Tip("linear", <<235>>, "direct_read")}
MCCorrections == {[id |-> "dc1", field |-> "depth", value |-> 65], [id |-> "dc1", field |-> "first", value |-> 240]}
MCNotes == {"none", "keyword"}
TabSymmetry == Permutations(Tabs)
=============================================================================
