------------------------------ MODULE Building ------------------------------
(* A building's quote in agent/agent.py: the PDF becomes step 1 by itself,  *)
(* short answers lead to prices (step 2), quotes per material and documents *)
(* (step 3), all without the model.  A turn with a drawing never reaches    *)
(* that state machine, and the chat brings back the last drawing it finds   *)
(* on the disk; what empties the disk is a new deployment.                  *)
EXTENDS Edificio, VisualPlan

CONSTANTS
  Tabs,          \* streams that may be open at once
  Messages,      \* what the operator writes: [words, says, short]
  Notes,         \* words the notes of a quote of the web may have
  Sheets,        \* plan -> [pages, drawn, keywords] of its PDF
  Spelled,       \* raw name -> the row of the catalogue of exactly that name, or None
  Overlaps,      \* <<raw name, row>>: one of the two names contains the other
  Begins,        \* <<raw name, raw name>>: 30 characters of the first begin the second
  Zone,          \* locality of the quote
  ZoneReadings,  \* sets of zones a vision model may find on page 1
  TipReadings,   \* typologies it may read in one
  Rereadings,    \* what it may answer when asked again for one
  Corrections,   \* [id, field, value] an operator may write
  Slab,          \* length of a slab of the default material
  MaxMessages    \* bound: messages of the operator

VARIABLES
  row,           \* the parent's row: is_building, source, plan, client, totals, validated
  bd,            \* its quote_breakdown
  children,      \* the quotes per material, in order of creation
  files,         \* sku -> the documents of that name on disk: [name, plan]
  disk,          \* the drawing is on disk
  turn,          \* what each stream is in the middle of
  sent           \* messages so far

vars == <<row, bd, children, files, disk, turn, sent>>

\* The values of building_step.
Steps == {"step1_review", "step2_quote", "step3_done", "awaiting_client_name",
          "awaiting_material_choice", "page_1", "page_1_zone_selector", "page_1_confirm", "page_2"}

\* A message has words; a reading is a list of typologies.
ASSUME BuildingAssumption ==
  /\ DOMAIN Sheets = Plans
  /\ None \notin Plans \cup Steps
  /\ \A m \in Messages : m.says # None
  /\ \A tips \in TipReadings : tips \in Seq(Range(tips)) /\ \A i \in DOMAIN tips : IsTypology(tips[i])
  /\ MaxMessages \in Nat

ASSUME SpellingAssumption ==
  /\ Spelled \in [Names -> Materials \cup {None}]
  /\ Overlaps \subseteq Names \X Materials /\ Begins \subseteq Names \X Names
  /\ \A n \in Names : <<n, n>> \in Begins /\ (Spelled[n] # None => <<n, Spelled[n]>> \in Overlaps)

NoBreakdown == [step |-> None, plan |-> None, paso2 |-> None, done |-> FALSE, failed |-> FALSE,
                tips |-> <<>>, geo |-> <<>>, zone |-> None, learnt |-> None, confirmed |-> {}, skipped |-> {}]
Idle == [kind |-> "idle"]

\* A quote of the operator starts empty; one of the web has its drawing.
Init ==
  /\ \E p \in Plans \cup {None} :
       row = [building |-> FALSE, web |-> p # None, plan |-> p, client |-> None,
              totals |-> None, validated |-> FALSE, analysed |-> FALSE]
  /\ bd = NoBreakdown
  /\ children = <<>>
  /\ files = [s \in Materials |-> None]
  /\ disk = (row.plan # None)
  /\ turn = [t \in Tabs |-> Idle]
  /\ sent = 0

Sections == [p \in Plans |-> ParseTables(Tables[p])]
Summary(p) == Aggregates(PiecesOf(Sections[p]))
\* The materials of a plan, and those of them some lookup finds.
MaterialsOf(p) == UNION {{Sections[p][k].rows[r].mat : r \in DOMAIN Sections[p][k].rows} : k \in DOMAIN Sections[p]}
PricedOf(p) == {n \in MaterialsOf(p) : Resolves[n] # None}

Turn(t, what) == turn' = [turn EXCEPT ![t] = what]

(* ------------------------------- messages ------------------------------ *)
\* The file is saved before anything else; a message without one gets the
\* drawing back from the disk.  A PDF of several pages stops the chat there.
Send(t, m, upload) ==
  LET has == upload # None \/ (disk /\ m.says # "trigger")
      plan == IF upload # None THEN upload ELSE row.plan
      building == row.building \/ m.words # "none"
      gated == has /\ Sheets[plan].pages > 1
  IN /\ turn[t] = Idle /\ sent < MaxMessages
     /\ sent' = sent + 1
     /\ disk' = (disk \/ upload # None)
     /\ row' = [row EXCEPT !.plan = plan, !.building = IF gated THEN @ ELSE building]
     /\ Turn(t, IF gated THEN Idle
                ELSE IF has THEN [kind |-> "read", plan |-> plan, words |-> m.words, new |-> upload # None]
                ELSE IF building THEN [kind |-> "state", message |-> m]
                ELSE Idle)
     /\ UNCHANGED <<bd, children, files>>

\* The background run of a quote of the web, which has no gate for pages.
BackgroundRun(t) ==
  /\ row.web /\ ~row.analysed /\ bd = NoBreakdown /\ disk /\ turn[t] = Idle
  /\ \E words \in Notes :
       /\ row' = [row EXCEPT !.analysed = TRUE, !.building = words # "none"]
       /\ Turn(t, [kind |-> "read", plan |-> row.plan, words |-> words, new |-> TRUE])
  /\ UNCHANGED <<bd, children, files, disk, sent>>

Redeploy ==
  /\ disk
  /\ disk' = FALSE
  /\ files' = [s \in Materials |-> None]
  /\ turn' = [t \in Tabs |-> Idle]
  /\ UNCHANGED <<row, bd, children, sent>>

\* The client leaves: what was committed stays.
Leave(t) ==
  /\ turn[t] # Idle
  /\ Turn(t, Idle)
  /\ UNCHANGED <<row, bd, children, files, disk, sent>>

(* ----------------------- the drawing of this turn ---------------------- *)
\* At least three pages and two words of a building, or five pages.
VisualBuilding(p) ==
  Sheets[p].drawn /\ ((Sheets[p].pages >= 3 /\ Sheets[p].keywords >= 2) \/ Sheets[p].pages >= 5)

MutantReview(p) == [bd EXCEPT !.step = "step1_review", !.plan = p]

\* Step 1 replaces the breakdown: prices, files and pages of a previous
\* drawing go with it.
Review(p) == [NoBreakdown EXCEPT !.step = "step1_review", !.plan = p]

ReadTables(t) ==
  LET p == turn[t].plan
  IN /\ turn[t].kind = "read"
     /\ Detected(turn[t].words, Tables[p]) /\ DOMAIN Sections[p] # {}
     /\ bd' = Review(p)
     /\ row' = [row EXCEPT !.building = TRUE]
     /\ Turn(t, Idle)
     /\ UNCHANGED <<children, files, disk, sent>>

\* A building without tables: its pages go to a vision model, or it is asked for.
ReadNoTables(t) ==
  LET p == turn[t].plan
  IN /\ turn[t].kind = "read"
     /\ Detected(turn[t].words, Tables[p]) /\ DOMAIN Sections[p] = {}
     /\ Turn(t, IF Sheets[p].drawn THEN [kind |-> "extract", plan |-> p] ELSE Idle)
     /\ UNCHANGED <<row, bd, children, files, disk, sent>>

\* Every page runs client.messages.create in a thread: the client is the
\* asynchronous one, the call returns a coroutine, and reading its content
\* fails on both attempts.
ExtractedPages(p) == [n \in 1..Sheets[p].pages |-> "failed"]

Extracted(t) ==
  LET p == turn[t].plan
  IN /\ turn[t].kind = "extract"
     /\ \E n \in 1..Sheets[p].pages : ExtractedPages(p)[n] = "failed"
     /\ bd' = [NoBreakdown EXCEPT !.step = "awaiting_material_choice", !.failed = TRUE, !.plan = p]
     /\ row' = [row EXCEPT !.building = TRUE]
     /\ Turn(t, Idle)
     /\ UNCHANGED <<children, files, disk, sent>>

\* Anything else is not this module's: the model answers.
ReadOther(t) ==
  /\ turn[t].kind = "read"
  /\ ~Detected(turn[t].words, Tables[turn[t].plan])
  /\ ~(VisualBuilding(turn[t].plan) /\ bd.step = None)
  /\ Turn(t, Idle)
  /\ UNCHANGED <<row, bd, children, files, disk, sent>>

\* The first page of a drawing of several: its zones, and the operator draws
\* one when they are many and none is a view from above (if the picture of the
\* page could be saved).
NeedsSelector(zones) == Cardinality(zones) >= 2 /\ ~\E z \in zones : z.above /\ z.sure

ReadPage(t) ==
  LET p == turn[t].plan
  IN /\ turn[t].kind = "read"
     /\ ~Detected(turn[t].words, Tables[p]) /\ VisualBuilding(p) /\ bd.step = None
     /\ \E zones \in ZoneReadings, tips \in TipReadings, again \in Rereadings, saved \in BOOLEAN :
          bd' = IF NeedsSelector(zones) /\ saved
                THEN [bd EXCEPT !.step = "page_1_zone_selector", !.plan = p]
                ELSE [bd EXCEPT !.step = "page_1_confirm", !.plan = p,
                                !.zone = AutoSelectZone(zones, None),
                                !.tips = SecondPass(tips, LAMBDA x : again),
                                !.geo = Geometries(SecondPass(tips, LAMBDA x : again), Slab)]
     /\ Turn(t, Idle)
     /\ UNCHANGED <<row, children, files, disk, sent>>

\* The rectangle is saved by an endpoint of its own.
ZoneSelect ==
  /\ bd.step = "page_1_zone_selector"
  /\ bd' = [bd EXCEPT !.step = "page_1", !.zone = "OPERADOR_SELECTION", !.learnt = "OPERADOR_SELECTION"]
  /\ UNCHANGED <<row, children, files, disk, turn, sent>>

(* ------------------------- the state machine --------------------------- *)
MutantCorrected(c) == [bd EXCEPT !.tips = ApplyCorrections(bd.tips, c)]

\* What was computed of the typologies is computed again.
Corrected(c) == LET tips == ApplyCorrections(bd.tips, c)
                IN [bd EXCEPT !.tips = tips, !.geo = Geometries(tips, Slab)]

Says(t, what) == turn[t].kind = "state" /\ turn[t].message.says = what

\* No step, or one nobody answers: the model takes the turn.
StateOther(t) ==
  /\ turn[t].kind = "state"
  /\ \/ bd.step \in {None, "step3_done", "page_1", "page_2", "page_1_zone_selector"}
     \/ bd.step = "step1_review" /\ ~turn[t].message.short
  /\ Turn(t, Idle)
  /\ UNCHANGED <<row, bd, children, files, disk, sent>>

\* Without the failed pages there are none left: an empty step 1.
DismissFailed(t) ==
  /\ turn[t].kind = "state" /\ bd.step = "awaiting_material_choice"
  /\ bd' = IF Says(t, "dismiss") THEN [bd EXCEPT !.step = "step1_review", !.failed = FALSE] ELSE bd
  /\ Turn(t, Idle)
  /\ UNCHANGED <<row, children, files, disk, sent>>

\* Page 1 confirmed, as it is or corrected; the next one is never read, as a
\* turn with a drawing of several pages does not pass the chat.
ConfirmPage(t) ==
  /\ turn[t].kind = "state" /\ bd.step = "page_1_confirm"
  /\ \/ /\ Says(t, "confirm")
        /\ bd' = [bd EXCEPT !.step = "page_2", !.confirmed = @ \cup {1}, !.learnt = bd.zone]
     \/ \E c \in Corrections :
          /\ Says(t, "values")
          /\ bd' = [Corrected(c) EXCEPT !.step = "page_2", !.confirmed = @ \cup {1}, !.learnt = bd.zone]
     \/ /\ Says(t, "skip")
        /\ bd' = [bd EXCEPT !.step = "page_2", !.confirmed = @ \cup {1}, !.skipped = @ \cup {1}]
     \/ /\ Says(t, "zone")
        /\ bd' = [bd EXCEPT !.step = "page_1", !.tips = <<>>, !.geo = <<>>, !.learnt = "PLANTA", !.zone = "PLANTA"]
     \/ /\ turn[t].message.says \notin {"confirm", "values", "skip", "zone"}
        /\ bd' = bd
  /\ Turn(t, Idle)
  /\ UNCHANGED <<row, children, files, disk, sent>>

(* Step 2.  Any message shorter than 200 characters confirms step 1.        *)
ConfirmStep1(t) ==
  /\ turn[t].kind = "state" /\ bd.step = "step1_review" /\ turn[t].message.short
  /\ Turn(t, [kind |-> "pricing", bd |-> bd])
  /\ UNCHANGED <<row, bd, children, files, disk, sent>>

SavePrices(t) ==
  LET p == turn[t].bd.plan
      p2 == Paso2(Summary(p), Zone)
      totals == [plan |-> p, ars |-> p2.ars, usd |-> p2.usd]
  IN /\ turn[t].kind = "pricing"
     /\ bd' = [turn[t].bd EXCEPT !.step = "step2_quote", !.paso2 = totals]
     /\ row' = [row EXCEPT !.totals = totals]
     /\ Turn(t, [kind |-> "children", plan |-> p])
     /\ UNCHANGED <<children, files, disk, sent>>

MutantChild(p, context, batch) ==
  [plan |-> p, sku |-> context.name, ars |-> context.ars, usd |-> context.usd, batch |-> batch,
   validated |-> FALSE, doc |-> None]

Child(p, context, batch) ==
  [plan |-> p, sku |-> context.sku, ars |-> context.ars, usd |-> context.usd, batch |-> batch,
   validated |-> FALSE, doc |-> None]

\* A commit of its own: whoever leaves before has prices and no quotes.
CreateChildren(t) ==
  LET p == turn[t].plan
      contexts == DocContexts(Summary(p), Paso2(Summary(p), Zone))
      order == SetToSeq(PricedOf(p))
  IN /\ turn[t].kind = "children"
     /\ children' = children \o [i \in DOMAIN order |-> Child(p, contexts[order[i]], Len(children) + 1)]
     /\ Turn(t, Idle)
     /\ UNCHANGED <<row, bd, files, disk, sent>>

(* Step 3.  Any message at all; a name first, if there is none.             *)
Documents(step) == [kind |-> "documents", bd |-> step]

MutantAskClient(t) ==
  /\ turn[t].kind = "state" /\ bd.step = "step2_quote"
  /\ Turn(t, Documents(bd))
  /\ UNCHANGED <<row, bd, children, files, disk, sent>>

AskClient(t) ==
  /\ turn[t].kind = "state" /\ bd.step = "step2_quote"
  /\ IF row.client = None
     THEN bd' = [bd EXCEPT !.step = "awaiting_client_name"] /\ Turn(t, Idle)
     ELSE bd' = bd /\ Turn(t, Documents(bd))
  /\ UNCHANGED <<row, children, files, disk, sent>>

\* Whatever is written next is the name.
TakeName(t) ==
  /\ turn[t].kind = "state" /\ bd.step = "awaiting_client_name"
  /\ row' = [row EXCEPT !.client = turn[t].message.says]
  /\ bd' = [bd EXCEPT !.step = "step2_quote"]
  /\ Turn(t, Documents(bd'))
  /\ UNCHANGED <<children, files, disk, sent>>

\* One PDF and one Excel per material, named after the catalogue's row; a
\* crash of the renderers ends the turn.
WriteDocuments(t) ==
  LET p == turn[t].bd.paso2.plan
      made == {Resolves[n] : n \in PricedOf(p)}
  IN /\ turn[t].kind = "documents"
     /\ \E last \in [made -> PricedOf(p)] :
          /\ \A s \in made : Resolves[last[s]] = s
          /\ files' = [s \in Materials |-> IF s \in made THEN [name |-> last[s], plan |-> p] ELSE files[s]]
     /\ Turn(t, [turn[t] EXCEPT !.kind = "announce"])
     /\ UNCHANGED <<row, bd, children, disk, sent>>

MutantMatches(n, skus) == IF Spelled[n] \in skus THEN {Spelled[n]} ELSE skus

\* A document has the name the table gives its material, a quote per material
\* that of the catalogue: the same one, or else any that contains the other.
Matches(n, skus) ==
  IF Spelled[n] \in skus THEN {Spelled[n]} ELSE {s \in skus : <<n, s>> \in Overlaps}

\* Its own document, and the files whose key begins with that of its name.
DocumentsOf(p, n) == [name |-> n, files |-> {Resolves[m] : m \in {m \in PricedOf(p) : <<n, m>> \in Begins}}]

\* The quotes are read in no order: of those of one material, one is looked
\* at; of the documents that find the same one, the last stays.  The breakdown
\* this turn began with is written back, with the step.
SaveDocuments(t) ==
  LET p == turn[t].bd.paso2.plan
      skus == {children[i].sku : i \in DOMAIN children}
      found == {n \in PricedOf(p) : Matches(n, skus) # {}}
  IN /\ turn[t].kind = "announce"
     /\ bd' = [turn[t].bd EXCEPT !.step = "step3_done", !.done = TRUE]
     /\ row' = [row EXCEPT !.validated = TRUE]
     /\ \E of \in [found -> skus] :
          /\ \A n \in found : of[n] \in Matches(n, skus)
          /\ \E one \in [Range(of) -> DOMAIN children], last \in [Range(of) -> found] :
               /\ \A s \in Range(of) : children[one[s]].sku = s /\ of[last[s]] = s
               /\ children' = [i \in DOMAIN children |->
                    IF i \notin Range(one) THEN children[i]
                    ELSE [children[i] EXCEPT !.validated = TRUE, !.doc = DocumentsOf(p, last[children[i].sku])]]
     /\ Turn(t, Idle)
     /\ UNCHANGED <<files, disk, sent>>

Step(t) ==
  \/ ReadTables(t) \/ ReadNoTables(t) \/ Extracted(t) \/ ReadOther(t) \/ ReadPage(t)
  \/ StateOther(t) \/ DismissFailed(t) \/ ConfirmPage(t)
  \/ ConfirmStep1(t) \/ SavePrices(t) \/ CreateChildren(t)
  \/ AskClient(t) \/ TakeName(t) \/ WriteDocuments(t) \/ SaveDocuments(t)

Next ==
  \/ \E t \in Tabs : Step(t) \/ BackgroundRun(t) \/ Leave(t)
  \/ \E t \in Tabs, m \in Messages, upload \in Plans \cup {None} : Send(t, m, upload)
  \/ ZoneSelect
  \/ Redeploy

Spec == Init /\ [][Next]_vars

-----------------------------------------------------------------------------
\* Types: the row, its breakdown and the quotes per material as the code reads them.
TypeOK ==
  /\ bd.step \in Steps \cup {None}
  /\ bd.plan \in Plans \cup {None} /\ (row.totals # None => row.totals.plan \in Plans)
  /\ \A i \in DOMAIN children : children[i].sku \in Materials /\ children[i].plan \in Plans
  /\ \A s \in Materials : files[s] # None => files[s].name \in Names
  /\ sent \in 0..MaxMessages

\* The prices a breakdown holds are those of the pieces it holds, whatever
\* drawings and tabs came in between: a document never prints one plan's
\* despiece with the prices of another.
PricesOfTheDespiece == bd.paso2 # None => bd.paso2.plan = bd.plan

\* The quotes per material made together charge what the building's quote
\* charges: no trip, sink or square metre is lost or counted twice.  A skirt
\* is rounded once per material; a material nobody could price is in neither.
Batch(b) == {i \in DOMAIN children : children[i].batch = b}

ChildrenAddUp ==
  \A b \in {children[i].batch : i \in DOMAIN children} :
    LET of == Batch(b)
    IN bd.paso2 # None /\ children[b].plan = bd.paso2.plan /\ PricedOf(bd.plan) = MaterialsOf(bd.plan) =>
         /\ Distance(SumOver(of, LAMBDA i : children[i].ars), bd.paso2.ars) <= Cardinality(of)
         /\ SumOver(of, LAMBDA i : children[i].usd) = bd.paso2.usd

\* Between any two messages the prices of the building are those of its
\* despiece, and those of its quotes per material.
PricesHold == TypeOK /\ PricesOfTheDespiece /\ ChildrenAddUp

\* The name of a material overlaps no other row of the catalogue; its files
\* are no other material's.
OverlapsNoOther(n) == \A s \in Materials : <<n, s>> \in Overlaps => s = Resolves[n]
BeginsNoOther(n) == \A m \in Names : <<n, m>> \in Begins => Resolves[m] = Resolves[n]

\* A quote per material shows the documents of its own material, of whatever
\* batch it is and whatever was drawn in between, if the name of the table
\* overlaps no other row of the catalogue; and lists no others' files, if the
\* name begins no other one.  A name that does gives them to the wrong quote.
OwnDocuments ==
  \A i \in DOMAIN children :
    LET name == children[i].doc.name
    IN children[i].validated /\ OverlapsNoOther(name) =>
         /\ Resolves[name] = children[i].sku
         /\ BeginsNoOther(name) => children[i].doc.files = {children[i].sku}

\* No document is written for a client without a name, whichever message the
\* operator leaves out.
DocumentsHaveAClient == (\E s \in Materials : files[s] # None) => row.client # None

\* Documents reach the quote they were made for, and a client with a name.
DocumentsHold == OwnDocuments /\ DocumentsHaveAClient

\* A second reading never turns an L over: inverted segments are only those
\* of the first reading, or of the operator.
Inverted(x) == Len(x.segs) = 2 /\ x.segs[1] < x.segs[2]

SecondPassKeepsLs ==
  bd.step = "page_1_confirm" =>
    \E first \in TipReadings :
      /\ Len(first) = Len(bd.tips)
      /\ \A i \in DOMAIN bd.tips : Inverted(bd.tips[i]) => Inverted(first[i])

\* Areas, skirtings and pieces shown for a typology are those of the measures
\* shown with it, whoever corrected what.
GeometryIsFresh == bd.geo = Geometries(bd.tips, Slab)

\* What is shown of a page is what was read and corrected: no reading turns a
\* drawing over, and nothing is shown with the areas of other measures.
DrawingsHold == SecondPassKeepsLs /\ GeometryIsFresh

\* A drawing that arrives later starts again from step 1: prices are never
\* carried to it, and no quote per material is changed by it.
NewDrawingStartsAgain ==
  [][bd'.plan # bd.plan /\ bd'.step = "step1_review" =>
       bd'.paso2 = None /\ ~bd'.done /\ children' = children]_vars

\* "Build child's own files_v2": the files of a quote's document are its own.
OwnFiles ==
  \A i \in DOMAIN children :
    children[i].validated => children[i].doc.files = {Resolves[children[i].doc.name]}

\* "Hard validation. Errors block automatic quoting."
ErrorsBlock == bd.paso2 # None => ValidEdificio(Sections[bd.plan], Summary(bd.plan))

\* "step1_review -> confirm -> render Paso 2 -> step2_quote": a short answer
\* without a new drawing is a confirmation, not step 1 again.
ConfirmAdvances ==
  [][\A t \in Tabs : bd.step = "step1_review" /\ bd'.step = "step1_review" =>
       ~(turn[t].kind = "read" /\ turn'[t] = Idle /\ ~turn[t].new /\ bd'.plan = bd.plan)]_vars

\* "the synchronous Anthropic client": a page the model answers is read.
PagesAreRead == ~bd.failed
=============================================================================
