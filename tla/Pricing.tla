------------------------------- MODULE Pricing -------------------------------
(* The pricing tools of the agent (list_pieces, calculate_quote,            *)
(* patch_quote_mo, update_quote, generate_documents in agent/agent.py)      *)
(* around the calculator and its validators: what the model passes is       *)
(* completed from the saved breakdown, overridden by what the operator has  *)
(* written, checked against step 1, priced, validated and saved; a quote    *)
(* with documents asked for another material becomes an independent quote.  *)
EXTENDS Validators

CONSTANTS
  Inputs,        \* what the model passes to calculate_quote
  Phrases,       \* the operator's phrases the code looks for
  PieceLists,    \* what the model passes to list_pieces
  Patches,       \* calls of patch_quote_mo: [remove (kinds of line), add, zone, qty]
  Main, Siblings,\* the quote of the conversation and the independent ones
  PlanAttached,  \* BOOLEAN: a drawing is attached to the conversation
  MaxCalls       \* bound: calls of one behaviour, a calculation counting twice

\* The fields of a call of calculate_quote, and what is found in its text of
\* the material; a similarity is a percentage, and so is a discount.
IsText(text) ==
  /\ DOMAIN text = {"family", "exact", "generic", "grisMara", "finishes", "negated", "score",
                    "names", "text"}
  /\ \A m \in Materials : text.score[m] \in 0..100
IsSink(sink) == sink.qty \in Nat /\ sink.price \in Nat
IsInput(in) ==
  /\ DOMAIN in = {"client", "project", "material", "pieces", "colocacion", "edificio", "pileta",
                  "piletaQty", "inferred", "sku", "anafe", "anafeQty", "frentin", "frentinMl",
                  "inglete", "regrueso", "regruesoMl", "briefRegrueso", "briefFinish", "zone",
                  "skipFlete", "fleteQty", "tomasQty", "discount", "moDiscount", "sinks",
                  "declared"}
  /\ IsText(in.material)
  /\ in.pieces \in Seq(Range(in.pieces)) /\ \A i \in DOMAIN in.pieces : IsPiece(in.pieces[i])
  /\ in.sinks \in Seq(Range(in.sinks)) /\ \A i \in DOMAIN in.sinks : IsSink(in.sinks[i])
  /\ \A f \in {"piletaQty", "anafeQty", "frentinMl", "regruesoMl", "briefRegrueso", "fleteQty",
               "tomasQty"} : in[f] \in Nat
  /\ in.discount \in 0..100 /\ in.moDiscount \in 0..100

VARIABLES
  quotes,        \* id -> the row: breakdown, documents or validated, step 1, material label
  history,       \* the phrases of every message of the operator so far
  asked,         \* id -> what its last calculation ran with (history variable)
  patched,       \* the quotes whose breakdown patch_quote_mo has edited since (history variable)
  calls          \* what of the bound is spent

vars == <<quotes, history, asked, patched, calls>>

Ids == {Main} \cup Siblings

ASSUME PricingAssumption ==
  /\ Main \notin Siblings
  /\ MaxCalls \in Nat
  /\ PlanAttached \in BOOLEAN
  /\ \A in \in Inputs : IsInput(in)
  /\ \A pieces \in PieceLists :
       pieces \in Seq(Range(pieces)) /\ \A i \in DOMAIN pieces : IsPiece(pieces[i])
  /\ \A patch \in Patches : patch.qty \in Nat

\* The lists of prices: every job and zone the calculator looks for has one.
WorkSkus == {"pileta", "apoyo", "anafe", "colocacion", "frentin", "corte45", "regrueso", "tomas"}

ASSUME ListsAssumption ==
  /\ \A job \in WorkSkus : Labor[job] \in Nat /\ Labor[job \o "_dekton"] \in Nat
  /\ Rosario \in DOMAIN Zones /\ \A z \in DOMAIN Zones : Zones[z].base \in Nat
  /\ \A sku \in DOMAIN SinkPrices : SinkPrices[sku] \in Nat

Absent == [exists |-> FALSE]
NoBreakdown == Refused("none")
Fresh(label) == [exists |-> TRUE, bd |-> NoBreakdown, docs |-> FALSE,
                 paso1 |-> <<>>, material |-> label]

Init ==
  /\ quotes = [i \in Ids |-> IF i = Main THEN Fresh(None) ELSE Absent]
  /\ history = {}
  /\ asked = [i \in Ids |-> None]
  /\ patched = {}
  /\ calls = 0

Lines(bd, kinds) == {i \in DOMAIN bd.mo : bd.mo[i].kind \in kinds}

(* ------------------- completing what the model passed ------------------ *)
ExistingPileta(bd) ==
  IF bd.pileta # None THEN bd.pileta
  ELSE IF Lines(bd, {"pileta"}) # {} THEN "johnson"
  ELSE IF Lines(bd, {"apoyo"}) # {} THEN "apoyo"
  ELSE None

MutantPreserve(in, bd, now) == in

\* Whatever the saved breakdown had and the input leaves out, unless the
\* message of this turn takes it away.
Preserve(in, bd, now) ==
  IF ~bd.ok THEN in
  ELSE [in EXCEPT
    !.pileta = IF @ = None /\ "no_pileta" \notin now THEN ExistingPileta(bd) ELSE @,
    !.anafe = @ \/ ((bd.anafe \/ Lines(bd, {"anafe"}) # {}) /\ "no_anafe" \notin now),
    !.frentin = @ \/ bd.frentin \/ Lines(bd, {"regrueso"}) # {},
    !.inglete = @ \/ bd.inglete,
    !.skipFlete = @ \/ (bd.skipFlete /\ "add_flete" \notin now),
    !.moDiscount = IF @ = 0 THEN bd.moDiscount ELSE @,
    !.piletaQty = IF @ = 0 /\ bd.piletaQty > 1 THEN bd.piletaQty ELSE @]

\* The operator keeps the sink out of the sale: labour only.
NoProduct(in, said) ==
  IF said \cap {"no_pileta", "no_product"} = {} THEN in
  ELSE [in EXCEPT !.pileta = "cliente", !.sku = None]

\* A list of labour declared complete has nothing the operator does not name.
MoListAuthority(in, said) ==
  IF "mo_list" \notin said THEN in
  ELSE LET inferred == said \cap {"pileta", "no_pileta", "no_product"} = {} /\ in.pileta # "cliente"
       IN [in EXCEPT !.pileta = IF inferred THEN "cliente" ELSE @,
                     !.sku = IF inferred THEN None ELSE @,
                     !.inferred = inferred,
                     !.anafe = @ /\ said \cap {"anafe", "no_anafe"} # {},
                     !.colocacion = @ /\ "colocacion" \in said]

\* A regrueso the brief measures wins over the one the model passed.
RegruesoGuard(in) ==
  IF in.briefRegrueso = 0 THEN in
  ELSE [in EXCEPT !.regrueso = TRUE, !.regruesoMl = in.briefRegrueso]

\* "gris mara" with a finish the brief never mentions becomes the granite
\* without finish.
GrisMaraGuard(in) ==
  IF in.material.grisMara /\ in.material.finishes # {} /\ ~in.briefFinish
  THEN [in EXCEPT !.material = [@ EXCEPT !.family = "granito", !.finishes = {}, !.negated = {}]]
  ELSE in

KeywordPileta(in, said) ==
  IF in.pileta = None /\ "pileta" \in said THEN [in EXCEPT !.pileta = "johnson"] ELSE in

\* These phrases are looked for in the whole conversation.
SkipFlete(in, said) ==
  IF "no_flete" \in said THEN [in EXCEPT !.skipFlete = TRUE] ELSE in

Effective(in, bd, now, said) ==
  SkipFlete(KeywordPileta(RegruesoGuard(GrisMaraGuard(MoListAuthority(
    NoProduct(Preserve(in, bd, now), said), said))), said), said)

(* --------------------- step 1 against step 2 --------------------------- *)
RawM2(pieces) ==
  Total(pieces, LAMBDA p : p.qty * (IF p.override > 0 THEN p.override ELSE p.largo * p.dim2))

OverrideForbidden(in) ==
  PlanAttached /\ ~in.edificio /\ \E i \in DOMAIN in.pieces : in.pieces[i].override > 0

\* More than 0.05 m2, or 2 %, or another number of pieces: step 1 wins.
Tolerance(m2) == Greatest(500, m2 \div 50)

MutantWithPaso1(in, paso1) ==
  IF Len(in.pieces) # Len(paso1) /\ paso1 # <<>> THEN [in EXCEPT !.pieces = paso1] ELSE in

WithPaso1(in, paso1) ==
  LET listed == CalculateM2(paso1)
      off == IF listed = 0 THEN Greatest(500, Metre \div 50) ELSE Tolerance(listed)
  IN IF paso1 = <<>> THEN in
     ELSE IF Distance(RawM2(in.pieces), listed) > off \/ Len(in.pieces) # Len(paso1)
          THEN [in EXCEPT !.pieces = paso1] ELSE in

\* The total the operator wrote, missed by 10 % and by 2 m2: refused.  The
\* code compares the pieces the model passed, not those of step 1.
DeclaredMismatch(in) ==
  LET off == Distance(RawM2(in.pieces), in.declared)
  IN in.declared > Metre /\ 10 * off > in.declared /\ off > 2 * Metre

(* ----------------------------- the tools ------------------------------- *)
Spend(n) == calls + n <= MaxCalls /\ calls' = calls + n

ListPiecesTool(pieces) ==
  /\ Spend(1)
  /\ quotes' = [quotes EXCEPT ![Main].paso1 = pieces]
  /\ UNCHANGED <<history, asked, patched>>

MutantNamesAnother(in, row) ==
  row.bd.ok /\ ~row.docs /\ row.bd.sku # None /\ row.bd.sku \notin in.material.names

NamesAnother(in, row) ==
  row.bd.ok /\ row.docs /\ row.bd.sku # None /\ row.bd.sku \notin in.material.names

Unused == {i \in Siblings : ~quotes[i].exists}
Holding(label) == {i \in Siblings : quotes[i].exists /\ quotes[i].material = label}

\* The row the calculation is saved to: the conversation's own, or, once it
\* has documents, an independent one for another material.
Target(in) ==
  IF ~NamesAnother(in, quotes[Main]) THEN {Main}
  ELSE IF Holding(in.material.text) # {} THEN Holding(in.material.text)
  ELSE Unused

\* The result replaces the breakdown: the pieces of step 1 go with it.
Saved(row, result) ==
  [row EXCEPT !.bd = result, !.paso1 = <<>>, !.material = result.sku]

\* The two guardrails of the tool come before the calculation.
Guarded(eff, run) ==
  IF OverrideForbidden(eff) \/ DeclaredMismatch(eff) THEN Refused("guardrail")
  ELSE CalculateQuote(run)

CalculateTool(in, now) ==
  /\ Spend(2)
  /\ history' = history \cup now
  /\ \E t \in Target(in) :
     \E row \in {IF quotes[t].exists THEN quotes[t] ELSE Fresh(in.material.text)} :
     \E eff \in {Effective(in, row.bd, now, history')} :
     \E run \in {WithPaso1(eff, row.paso1)} :
     \E result \in {Guarded(eff, run)} :
          /\ quotes' = [quotes EXCEPT ![t] = IF result.ok THEN Saved(row, result) ELSE row]
          /\ asked' = IF result.ok THEN [asked EXCEPT ![t] = run] ELSE asked
          /\ patched' = IF result.ok THEN patched \ {t} ELSE patched

\* patch_quote_mo: drop lines by keyword, add placement, replace the flete,
\* and add the totals up again.
PatchedLines(bd, patch) ==
  LET flete == IF patch.zone = None THEN <<>>
               ELSE LET f == FindFlete(patch.zone)
                    IN <<Line("flete", 100 * patch.qty, f.price, f.base, FALSE)>>
      kept == Picked(bd.mo, LAMBDA l : IF l.kind = "flete" /\ patch.zone # None THEN FALSE
                                       ELSE l.kind \notin patch.remove)
      area == Greatest(bd.m2, Metre)
      placed == MoLine("colocacion", HalfEven(area, 100), "colocacion", FALSE)
      adds == patch.add /\ \A i \in DOMAIN kept : kept[i].kind # "colocacion"
  IN kept \o (IF adds THEN <<[placed EXCEPT !.total = HalfEven(placed.unit * area, Metre)]>> ELSE <<>>)
          \o flete

Repriced(bd, mo) ==
  LET labour == MoTotal(mo) + SinksTotal(bd.sinks)
  IN [bd EXCEPT !.mo = mo,
                !.totalArs = labour + (IF bd.currency = "ARS" THEN bd.net ELSE 0),
                !.totalUsd = IF bd.currency = "USD" THEN bd.net ELSE 0]

PatchMo(patch) ==
  LET bd == quotes[Main].bd
  IN /\ Spend(1)
     /\ bd.ok
     /\ patch.zone \in DOMAIN Zones \cup {None}
     /\ quotes' = [quotes EXCEPT ![Main].bd = Repriced(bd, PatchedLines(bd, patch))]
     /\ patched' = patched \cup {Main}
     /\ UNCHANGED <<history, asked>>

\* update_quote: the model may write the status column too.
UpdateQuote ==
  /\ Spend(1)
  /\ quotes' = [quotes EXCEPT ![Main].docs = TRUE]
  /\ UNCHANGED <<history, asked, patched>>

\* generate_documents: the validators run again on the saved breakdown.
GenerateDocuments(i) ==
  /\ quotes[i].exists /\ quotes[i].bd.ok /\ ~quotes[i].docs
  /\ ValidateDespiece(quotes[i].bd)
  /\ quotes' = [quotes EXCEPT ![i].docs = TRUE]
  /\ UNCHANGED <<history, asked, patched, calls>>

Next ==
  \/ \E pieces \in PieceLists : ListPiecesTool(pieces)
  \/ \E in \in Inputs, now \in SUBSET Phrases : Cardinality(now) <= 1 /\ CalculateTool(in, now)
  \/ \E patch \in Patches : PatchMo(patch)
  \/ UpdateQuote
  \/ \E i \in Ids : GenerateDocuments(i)

Spec == Init /\ [][Next]_vars

-----------------------------------------------------------------------------
Priceds == {i \in Ids : quotes[i].exists /\ quotes[i].bd.ok}

\* Types: the rows and their breakdowns have the shape the code reads.
TypeOK ==
  /\ history \subseteq Phrases
  /\ patched \subseteq Priceds
  /\ calls \in 0..MaxCalls
  /\ \A i \in Priceds :
       LET bd == quotes[i].bd
       IN /\ bd.mode \in {"full", "products_only"}
          /\ bd.m2 \in Nat /\ bd.totalArs \in Nat /\ bd.totalUsd \in Nat
          /\ (bd.mode = "full") => bd.sku \in Materials

\* What the operator is asked to pay: net material and waste in the material's
\* currency, labour after its discount and sinks in pesos.
Due(bd) ==
  LET material == bd.net + bd.sobrante
      labour == MoTotal(bd.mo) - bd.moDiscountAmount + SinksTotal(bd.sinks)
  IN IF bd.mode = "products_only" THEN <<SinksTotal(bd.sinks) - bd.discountAmount, 0>>
     ELSE IF bd.currency = "USD" THEN <<labour, material>> ELSE <<labour + material, 0>>

\* The grand total of a calculation is the sum of the blocks the documents
\* print: nothing is charged in the other currency, left out or counted twice.
GrandTotalAddsUp ==
  \A i \in Priceds \ patched : <<quotes[i].bd.totalArs, quotes[i].bd.totalUsd>> = Due(quotes[i].bd)

\* Flete is never discounted: neither by the building's 1.05, nor by the
\* percentage over labour, however many times the quote is recalculated.
FleteNeverDiscounted ==
  \A i \in Priceds :
    LET bd == quotes[i].bd
        rest == MoTotalOf(bd.mo, NotFlete)
    IN /\ \A l \in Lines(bd, {"flete"}) :
            \E z \in DOMAIN Zones : bd.mo[l].total * 100 = FindFlete(z).price * bd.mo[l].qty
       /\ i \notin patched => 100 * bd.moDiscountAmount <= bd.moDiscount * rest + 50

\* The family the operator names is the family that is priced: neither the
\* exact nor the fuzzy search nor the preference for EXTRA crosses it.  A text
\* that says "gris mara" without a finish is the granite of that name, whatever
\* family it names beside it.
FamilyRespected ==
  \A i \in Priceds :
    LET text == asked[i].material
        named == IF SettledGrisMara(text) THEN "granito" ELSE text.family
    IN quotes[i].bd.mode = "full" /\ named # None => Catalog[quotes[i].bd.sku].family = named

\* The inputs the validators are known to refuse: a regrueso with no piece of
\* its own, an embedded sink with quantity zero, the polishing of edges over
\* a zone whose price includes VAT, and equal rows of different areas.
KnownRefusal(in) ==
  \/ in.regrueso /\ RegruesoM2(PieceDetails(in.pieces)) = 0
  \/ in.regrueso /\ ~CheckRegruesoConsistency(Priced(in, FindMaterial(in.material).sku))
  \/ in.pileta \in {"johnson", "cliente"} /\ PiletaQty(in) = 0
  \/ Colocacion(in) /\ ~in.skipFlete /\ FindFlete(in.zone).vat /\ FindFlete(in.zone).pulido
  \/ \E i, j \in DOMAIN in.pieces : /\ SameRow(in.pieces[i], in.pieces[j])
                                    /\ PieceM2(in.pieces[i]) # PieceM2(in.pieces[j])

\* Calculator and validators write the same formulas twice: whatever the
\* calculator returns passes them, rounding included, outside those cases.
CalculatorAccepted ==
  \A i \in Priceds \ patched :
    quotes[i].bd.mode = "full" /\ ~KnownRefusal(asked[i]) => ValidateDespiece(quotes[i].bd)

\* The table of step 2 ends with the area that is charged, except for the
\* material of a regrueso without pieces.
ShownIsCharged ==
  \A i \in Priceds :
    LET bd == quotes[i].bd
    IN bd.mode = "full" /\ ~KnownRefusal(asked[i]) => ShownM2(bd) = bd.m2

\* Whatever was asked and in whatever order, the rows hold prices that add up,
\* that leave the flete alone and that step 2 shows as they are charged.
PricesHold == TypeOK /\ GrandTotalAddsUp /\ FleteNeverDiscounted /\ ShownIsCharged

\* The pieces the operator saw in step 1 are the pieces a calculation (two
\* calls of the bound) prices, up to the tolerance and the rounding of each
\* piece (a frentin weighs in the comparison and not in the price).
Paso1IsPriced ==
  [][\A i \in Ids :
       LET old == quotes[i]
           run == asked'[i]
       IN /\ calls' = calls + 2
          /\ old.exists /\ old.paso1 # <<>> /\ quotes'[i].bd.ok /\ quotes'[i].paso1 = <<>>
          /\ \A k \in DOMAIN old.paso1 : ~IsFrentin(old.paso1[k])
          => Distance(RawM2(run.pieces), CalculateM2(old.paso1)) <=
               Greatest(Tolerance(CalculateM2(old.paso1)), 50 * Total(run.pieces, LAMBDA p : p.qty))]_vars

\* A recalculation never drops the sink or the cooktop the quote had, unless
\* the operator has written so, or the quantity says zero.
Silent == {"no_pileta", "no_anafe", "no_product", "mo_list"} \cap history = {}

NothingDropped ==
  [][\A i \in Ids :
       quotes[i].exists /\ quotes[i].bd.ok /\ quotes'[i].bd.ok /\ Silent' /\ i \notin patched'
         /\ quotes'[i].bd.mode = "full"
       => /\ Lines(quotes[i].bd, {"anafe"}) # {} => Lines(quotes'[i].bd, {"anafe"}) # {}
          /\ Lines(quotes[i].bd, {"pileta", "apoyo"}) # {} /\ PiletaQty(asked'[i]) > 0
               => Lines(quotes'[i].bd, {"pileta", "apoyo"}) # {}]_vars

\* A quote with documents is never repriced in another material than the ones
\* the text names: that goes to an independent quote, and the breakdown the
\* documents were made from stays.
DocumentsKeepTheirMaterial ==
  [][\A i \in {Main} : quotes[i].docs /\ quotes[i].bd.ok /\ quotes[i].bd.sku # None
       => quotes'[i].bd.sku \in {quotes[i].bd.sku, None} \cup asked'[i].material.names]_vars

\* What a recalculation keeps: the sink and the cooktop of the quote, and the
\* material of the documents that were sent.
RecalculationsKeep == NothingDropped /\ DocumentsKeepTheirMaterial

\* "Synthetics should have waste": when the plates of the material leave a
\* square metre or more, a house pays for half of it.
SyntheticsHaveWaste ==
  \A i \in Priceds :
    LET bd == quotes[i].bd
        family == Catalog[bd.sku].family
        plate == IF family \in SINTERIZADOS THEN 51200 ELSE IF family = "silestone" THEN 21000 ELSE 42000
    IN bd.mode = "full" /\ ~bd.edificio /\ family \in SINTETICOS
         => (bd.merma.aplica <=> Ceil(bd.m2, plate) * plate - bd.m2 >= Metre)

\* When the operator's message asks for the flete again, the calculation of
\* that message has it.
FleteAddedBack ==
  [][\A i \in Ids : /\ "add_flete" \in history' \ history
                     /\ asked'[i] # asked[i] /\ quotes'[i].bd.mode = "full"
       => Lines(quotes'[i].bd, {"flete"}) # {}]_vars
=============================================================================
