------------------------------ MODULE MCPricing ------------------------------
(* A small catalogue with one row of every kind the rules tell apart, and   *)
(* the inputs that reach every line, discount, guard and waste rule.        *)
EXTENDS Pricing

Row(family, named, stone, finish, extra, negro, currency, base) ==
  [family |-> family, named |-> named, stone |-> stone, finish |-> finish, extra |-> extra,
   negroBrasil |-> negro, currency |-> currency, base |-> base]

MCCatalog == [
  silestone |-> Row("silestone", "silestone", "norte", "plain", FALSE, FALSE, "USD", 97),
  puraprima |-> Row("puraprima", None, "onix", "plain", FALSE, FALSE, "USD", 83),
  mara      |-> Row("granito", "granito", "mara", "plain", TRUE, FALSE, "ARS", 1237),
  leather   |-> Row("granito", "granito", "mara", "leather", FALSE, FALSE, "ARS", 1349),
  negro     |-> Row("granito", "granito", "negro", "plain", FALSE, TRUE, "ARS", 1501)]

Jobs == {"pileta", "apoyo", "anafe", "colocacion", "frentin", "corte45", "regrueso", "tomas"}
MCLabor == [j \in Jobs \cup {k \o "_dekton" : k \in Jobs} |->
              IF j = "pileta" THEN 653 ELSE IF j = "colocacion" THEN 477 ELSE 351]
MCZones == [rosario |-> [base |-> 520, vat |-> FALSE, pulido |-> FALSE],
            perez   |-> [base |-> 731, vat |-> FALSE, pulido |-> TRUE],
            pinero  |-> [base |-> 1000, vat |-> TRUE, pulido |-> TRUE]]
MCSinkPrices == [quadra |-> 900]

Text(family, exact, score) ==
  [family |-> family, exact |-> exact, generic |-> FALSE, grisMara |-> FALSE, finishes |-> {},
   negated |-> {}, score |-> score, names |-> {exact} \ {None}, text |-> exact]
Zero == [m \in DOMAIN MCCatalog |-> 0]
Exact(m) == Text(MCCatalog[m].family, m, Zero)
\* "mara leather" spelled freely, close to both rows of the stone; and a text
\* of one family that resembles a row of another one more.
FuzzyMara == [Text("granito", None, [Zero EXCEPT !.leather = 90, !.mara = 70]) EXCEPT
                !.finishes = {"leather"}, !.negated = {"extra"}, !.text = "fuzzy mara"]
FuzzyPrima == [Text("puraprima", None, [Zero EXCEPT !.puraprima = 81, !.mara = 95]) EXCEPT
                 !.text = "fuzzy prima"]
NoFamily == [Text(None, None, [Zero EXCEPT !.negro = 84]) EXCEPT !.text = "no family"]
GrisMaraText == [Exact("leather") EXCEPT !.exact = None, !.grisMara = TRUE, !.finishes = {"leather"},
                   !.names = {"mara", "leather"}, !.text = "gris mara"]
Generic == [Text("granito", None, Zero) EXCEPT !.generic = TRUE, !.text = "granito"]

P(desc, amb, largo, dim2, qty) ==
  [desc |-> desc, amb |-> amb, largo |-> largo, dim2 |-> dim2, qty |-> qty, override |-> 0]

Kitchen == <<P("mesada_pileta", "cocina", 215, 63, 1), P("zocalo", None, 215, 5, 1), P("alzada", "cocina", 215, 45, 1)>>
LargerKitchen == <<P("mesada_pileta", "cocina", 280, 63, 1), P("zocalo", None, 280, 5, 1), P("alzada", "cocina", 280, 45, 1)>>
KitchenShort == <<P("mesada_pileta", "cocina", 150, 63, 1), P("zocalo", None, 150, 5, 1)>>
TwoRooms == <<P("mesada", "cocina", 310, 65, 1), P("mesada", "lavadero", 90, 55, 1), P("frentin", None, 310, 5, 1)>>
Fronts == <<P("mesada", None, 200, 60, 2), P("mesada", None, 200, 60, 1), P("regrueso", None, 400, 5, 1)>>
Building == <<P("mesada_pileta", None, 143, 62, 12), P("mesada", None, 155, 63, 5), P("frentin", None, 143, 5, 12)>>
Planilla == <<[P("mesada", None, 143, 62, 8) EXCEPT !.override = 9333]>>

Base == [client |-> "named", project |-> TRUE, material |-> Exact("silestone"), pieces |-> Kitchen,
         colocacion |-> TRUE, edificio |-> FALSE, pileta |-> None, piletaQty |-> 1, inferred |-> FALSE,
         sku |-> None, anafe |-> FALSE, anafeQty |-> 1, frentin |-> FALSE, frentinMl |-> 0,
         inglete |-> FALSE, regrueso |-> FALSE, regruesoMl |-> 0, briefRegrueso |-> 0,
         briefFinish |-> FALSE, zone |-> "rosario", skipFlete |-> FALSE, fleteQty |-> 0,
         tomasQty |-> 0, discount |-> 0, moDiscount |-> 0, sinks |-> <<>>, declared |-> 0]
House == [Base EXCEPT !.pileta = "johnson", !.sku = "quadra", !.anafe = TRUE, !.tomasQty = 2, !.zone = "perez"]
Tower == [Base EXCEPT !.material = Exact("mara"), !.pieces = Building, !.edificio = TRUE, !.pileta = "cliente"]

MCInputs == {
  Base, House,
  [Base EXCEPT !.pieces = KitchenShort, !.material = FuzzyPrima, !.client = "architect"],
  [Base EXCEPT !.pieces = TwoRooms, !.material = Exact("puraprima"), !.frentin = TRUE, !.inglete = TRUE],
  [Base EXCEPT !.pieces = Fronts, !.material = Exact("mara"), !.regrueso = TRUE, !.discount = 7],
  [Base EXCEPT !.pieces = Fronts, !.material = FuzzyMara, !.client = "architect", !.moDiscount = 5],
  [Base EXCEPT !.material = Exact("mara"), !.briefRegrueso = 215],
  [Base EXCEPT !.material = GrisMaraText, !.pileta = "johnson", !.piletaQty = 0],
  [Base EXCEPT !.material = NoFamily],
  [Base EXCEPT !.material = Generic],
  [Base EXCEPT !.client = "placeholder"],
  [Base EXCEPT !.material = Exact("negro"), !.zone = "pinero", !.pileta = "apoyo"],
  Tower,
  [Tower EXCEPT !.pieces = Planilla, !.moDiscount = 5, !.fleteQty = 3],
  [Tower EXCEPT !.declared = 300000],
  [Base EXCEPT !.pieces = <<>>, !.colocacion = FALSE, !.sku = "quadra", !.piletaQty = 32, !.discount = 5],
  [Base EXCEPT !.pieces = <<>>, !.colocacion = FALSE, !.sinks = <<[qty |-> 2, price |-> 0]>>]}

MCPhrases == {"no_pileta", "mo_list", "no_flete", "add_flete", "pileta"}
MCPieceLists == {LargerKitchen}
MCPatches == {
  [remove |-> {"pileta", "apoyo"}, add |-> FALSE, zone |-> None, qty |-> 1],
  [remove |-> {"tomas", "flete"}, add |-> TRUE, zone |-> None, qty |-> 1],
  [remove |-> {"flete"}, add |-> FALSE, zone |-> "pinero", qty |-> 4]}
=============================================================================
