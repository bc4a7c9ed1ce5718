# Verification of the quote operator

This directory holds the TLA+ models of the marble quote operator (`src/api`, a
FastAPI service with an LLM agent called Valentina, and `src/web`, its Next.js
front end), the TLC configurations that check them and the TLAPS proofs about
them. `PROJECT.json` maps each definition to the lines it models.

## The system

An operator sends a brief and a plan. The service reads the plan with a vision
model, asks about the context, shows the despiece (the pieces with their
measures) for confirmation, lets the model calculate prices, and produces a PDF
and an Excel, on disk and on Google Drive. All of it is one row of the table
`quotes`; most of the state is in its JSON columns `quote_breakdown` and
`messages`.

| Part | State | Operations | What is hard | What makes it correct |
|---|---|---|---|---|
| **Agent loop** (`agent.py` 4526-5668, `retry_guard.py`) | counters and the turns of one operator message | request, retry, truncation, tool calls, corrections, save | every path re-enters one loop; failures in the middle of tool calls; the client leaves | bounded work per turn, a history the Messages API accepts, an answer or a named reason for none |
| **Quote flow** (`router.py` chat, reopen, retry; `agent.py` 1890-3200, `_run_dual_read`, `calculate_quote`; `card_editor.py`) | `quote_breakdown`, `messages`, totals, status, source files | messages, uploads, confirmations, edits, reopenings, reading again, calculating, statuses set by hand | handlers work for minutes on copies of the row, write JSON columns whole, and reset or keep hand-made lists of keys | measures belong to the card shown, a waiting card can be confirmed, totals follow the calculation, nobody waits for ever |
| **Quote documents** (`validate`, `generate`, `regenerate`, status, PATCH, delete; the tool; `drive_tool.py`) | URLs and ids in the row, files on disk and on Drive, the lock of the row | render, delete old, upload, record | three places written by separate steps, each of which can fail; seven requests overlap | what the row offers exists; a clean run repairs what failures left |
| **Pricing** (`calculator.py`, `validation_tool.py`, the dispatcher's guards in `agent.py` 6300-7560) | the breakdown of the quote and of its independent siblings, the saved step 1, the phrases of the conversation | `list_pieces`, `calculate_quote`, `patch_quote_mo`, `update_quote`, `generate_documents` | nine guards rewrite the input one after the other; formulas and roundings exist twice; fuzzy material search | totals are the sums of their lines, flete is never discounted, recalculations drop nothing, validators accept what the calculator makes |
| **Buildings** (`edificio_parser.py`, `visual_quote_builder.py`, the `building_step` branches of the stream) | `building_step`, despiece, prices, quotes per material, documents | drawings, pages, zones, corrections, confirmations, prices, documents | a conversation as a state machine in which a drawing, a name or a confirmation may come in any order, from two tabs | prices are of the despiece there is, quotes per material add up to the building's, documents reach their own |
| **Questions and context** (`pending_questions.py`, `context_analyzer.py`, `dual_reader.py`, two confirmations, two reopenings) | the card, the confirmed measures, the answers | ask, answer, edit, confirm, reopen | thirteen functions change the same despiece; answers are applied again over edited cards | the answer asked for is what is confirmed, once, and the operator's lengths stay |
| **Catalogues** (`catalog/router.py`, `import_parser.py`, `catalog_dir.py`, `catalog_tool.py`, the budget) | rows, the image's files, the memory of each worker, backups | edit, import, restore, set the budget, restart, deploy | several workers that remember; an import that writes one list after the other; start-up synchronisation | nothing imported without backup, no item lost or free, a saver prices with what it saved |
| **Quotes among quotes** (`derive-material`, delete, `resumen_obra_tool.py`, `client_match.py`, web API, clean-up) | rows, their parents, records of summaries | derive, delete with family, summarise, merge and match clients, create by API, sweep | each request reads, awaits a model, Drive or a PDF, and commits | families are flat and go together, a summary is one document that adds up, names are not lost |
| Plan readers, e-mail draft, audit, authentication, usage, front end | see `PROJECT.json` | | | |

Parts interact through the row: a request loads it (router), runs the stream
(agent), and each tool or handler writes columns back. There is no lock but the
one an open transaction holds, and the column `version` is never read. The
agent loop is the inside of one step of the quote flow; `Pricing` is what its
`Calculate` computes, `Contexto` what its confirmations do to a despiece,
`QuoteDocuments` the inside of its `Generate` with the endpoints of the detail
view, and `Building` the other branch of the same stream. `Family` has the rows
from outside, `Catalogs` what the calculator looks prices up in.

Two facts about the libraries shape the models. SQLAlchemy's session keeps
objects in an identity map and is created with `expire_on_commit=False`, so a
handler that selects the row again sees its first copy plus its own writes. And
FastAPI closes the session of an endpoint before a streaming response starts:
the stream re-opens it and reads the row again, while `messages` were taken from
the first read. Hence the two loads of a chat (`Load` and `OpenStream`).

## Modules

| Module | Models | State and actions |
|---|---|---|
| `AgentLoop` | the `while True` of `stream_chat` | `pc`, counters, the list of calls and the turns produced; an action per branch of the loop body, `Disconnect` for the client |
| `QuoteFlow` | one quote, several tabs | the row's columns, the disk, and per tab the request: its copy of the row and its place in the handler. One action from one commit to the next; the status endpoint, `PATCH` and `/validate` set the status at any moment |
| `QuotePromise` | what a quote promises, without requests, copies or commits | the card, the confirmed measures, what is priced, whether the quote is delivered, which an operator may also say by hand. `QuoteFlow` implements it (`PromiseKept`) by reading these four off the row |
| `QuoteDocuments` | documents of one quote | the row's document columns, files on disk by client name, files on Drive by id, the holder of the row's lock, and per tab its request |
| `Sums` | the rounding and adding of the prices | operators only: half to even, half up, folds over functions |
| `Calculator` | `calculator.py` | operators only: material search, areas, waste, labour lines, flete, discounts, totals, with the code's roundings |
| `Validators` | `validation_tool.py` | operators only; extends `Calculator` and writes its formulas again, as the code does |
| `Pricing` | the five tools around them | the quotes by id, the phrases written so far; one action per tool, each the whole dispatcher branch with its guards |
| `Edificio`, `VisualPlan` | `edificio_parser.py`, `visual_quote_builder.py` | operators only: tables, aggregates, prices, trips and their distribution; confidence, second reading, geometry, corrections |
| `Building` | the building branch of the stream and the background run of the web | row, breakdown, quotes per material, files, disk, and the turn of each tab; an action per branch |
| `Questions` | `pending_questions.py`, the merges of `dual_reader.py` | operators only: which questions are open, what an answer changes |
| `Contexto` | the handlers of both cards | the row's cards, the card on the screen; read, confirm context, edit a length, confirm measures, reopen either |
| `Catalogs` | price lists and configuration | database and files with their times, the memory of each worker, backups, and per admin the request with what it has read |
| `Clients` | `client_match.py`, the pure part of `resumen_obra_tool.py` | operators only: normal names, core tokens, fuzzy match, deduplicated labour, totals |
| `Family` | rows among rows | the table, the jobs between their read and their commit, the clean-ups that are due |
| `AgentLoop_proofs`, `QuoteFlow_proofs`, `QuoteDocuments_proofs`, `Sums_proofs` (sums, roundings, the largest remainder), `Pricing_proofs`, `Family_proofs`, `Catalogs_proofs`, `Building_proofs` | theorems | |
| `MC...` | instances for TLC | sets of inputs and symmetry |

A definition named `Mutant...` stands before the definition it spoils; it is a
plausible slip used to see that a property notices it, and no specification
uses it. A property made of several named parts has a mutant for most of them;
`PROJECT.json` names one.

Abstractions. In `QuoteFlow` a despiece is the plan it was read from, whether
the operator corrected it and whether it holds pieces derived from the context
answers; a message is its kind; a plan file is its content, which the code
compares by hash. In `QuoteDocuments` PDF and Excel are named after the client
(material and date, the rest of the name, do not change) and hold a revision of
the data, and requests are further apart than the five seconds
`_compute_pdf_outdated` allows. In the calculator lengths are centimetres, areas
square centimetres and money whole pesos or dollars, as the code rounds them;
the regular expressions over the operator's text are the set of things they find
in it, and the score of the fuzzy search is the row it chooses. In `Contexto` each
handler runs whole (its interleavings are `QuoteFlow`'s); in `Family` a
row is what its relations need. Readings by models, Drive and rendering are
steps that succeed or fail with any of their outcomes. In `Building` how names
resemble each other is three relations (the row of exactly that name, which contain
one another, which begin another), and among the quotes of one material and the
documents that find the same quote any one may be taken, as the code reads them in no
order. In `Catalogs` the clock counts requests and starts: files may have been checked
out before, between or after any of them. In `Family` a unit of labour has the price
the material makes it have.

## Runs

| Run | Question | Bounds, and why they are enough | Result |
|---|---|---|---|
| `agent_loop` | Do the guards bound a turn, is its history well formed, does it end? | 4 tools, 3 iterations, 1 retry, threshold 2, 2 calls per response: each limit is reached, passed by one attempt, and combined with the others | holds |
| `quote_flow` | Do card, measures, totals and history stay consistent for one operator, and does the row do only what `QuotePromise` allows? | 2 plans, 2 names, 4 requests or changes of status, 2 uploads: brief or plan, confirmation, calculation or edit, reopening | holds |
| `quote_flow_tabs` | What holds for two tabs on stale copies that may leave in the middle? | 2 tabs, 3 requests, 2 uploads (two uploads of one name and a third party) | holds |
| `quote_flow_edits` | Do corrections survive a message that brings no plan? | 1 tab, 6 requests | violated |
| `quote_documents` | Is the PDF there, does a clean generation repair? | 2 tabs, all seven requests, 3 of them, 2 clients | holds |
| `quote_documents_end` | Does every request end although one may hold the lock? | 2 tabs, 2 requests | holds |
| `pricing` | Do totals, discounts, validators, step 1 and recalculations agree in every order of tools? | 17 inputs (house, architect, building, two rooms, every sink, regrueso, fuzzy and generic names, declared areas), 5 phrases, 3 patches, one sibling, 5 calls (a calculation counts two): documents, another material and a recalculation in one behaviour | holds |
| `building` | Are prices, quotes per material and documents those of the drawing there is? | 2 tabs, 4 PDFs (two with tables, one drawn, one CAD), 5 names in their tables (the catalogue's, one with a finish added, one that begins with another stone's, one unknown), 6 messages of every kind, 5 of them: two drawings, a confirmation of each, and documents with a name | holds |
| `catalogs` | What is safe when edits, imports, restores, budget, reads and restarts overlap? | 2 workers, 2 admins, 2 requests (each may import every list, in either order), 1 restart or deployment with files as old or as new as anything that happened, 1 remembered content; prices on both sides of a cent, zero, negative and missing | holds |
| `contexto` | Do confirmations say what the last answers and the operator's edits say? | 3 plans and a brief, 4 lists of answers over all thirteen questions, 2 readings, 1 edit, 1 reopening | holds |
| `family` | Do families, summaries and names survive what lies between a read and its commit? | 2 jobs at a time, 4 tables of up to 3 rows, 5 rows ever, 2 to 3 requests, 3 materials of which one is placed at another price | holds |
| `family_derive` | Does a derived quote keep its pieces? | the same | violated |

The bounds limit counters only: they stop new requests, never a request under
way. `CHECK_DEADLOCK FALSE` is set in all modules but `AgentLoop` because a
quote, a catalogue or a table whose requests are spent really stops; a request
that could not go on would be seen by `RequestsEnd` in the modules that have
requests under fairness. `AgentLoop` has an explicit `Finished`. Symmetry is used
for tabs, workers, admins and jobs, which no definition tells apart, and only in
runs without liveness.

## Disagreements found

Two runs end with a violation and are findings:

* *Corrections lost* (`quote_flow_edits`, `EditsKept`). `calculate_quote` keeps
  the card and the measures but not the plan hash. After a reopening, any message
  restores the saved plan, finds no hash and reads it again over the operator's
  corrections.
* *Pieces lost* (`family_derive`, `DerivedKeepsThePieces`). A quote calculated in
  the chat and derived for another material loses the quantities of its pieces:
  `calculate_m2` merges equal pieces into one row with a quantity, and
  `derive_material` copies description, length and width only.

The modules also state, at their end, sentences of comments and docs which the
code does not keep. Each is refuted when its name takes the place of the
properties in the cfg of the module's run:

| Definition | Sentence | What TLC shows |
|---|---|---|
| `AgentLoop!EveryCallAnswered` | `agent.py` 4779: a turn with calls needs its results | a response cut inside a call leaves the pair open |
| `QuoteFlow!LegsKept` | a confirmation keeps the pieces the answers imply | `calculate_quote` drops the answers; after a reopening the pieces go |
| `QuoteFlow!UploadIsRead` | a plan that is sent is the plan that is used | another plan under a known name invalidates nothing |
| `QuoteDocuments!SentKept` | `agent.py` 6088: regeneration preserves the status | the tool promotes by the status of its copy |
| `QuoteDocuments!LinkPreserved` | the existing link is preserved when an upload fails | `validate` deletes the Drive file before the upload |
| `Pricing!SyntheticsHaveWaste` | `validation_tool.py` 174: synthetics have waste | two classifications of one material disagree |
| `Pricing!FleteAddedBack` | a message that asks for the flete again gets it | an older phrase still removes it |
| `Building!ErrorsBlock` | `edificio_parser.py` 559: errors block quoting | errors are stored and shown; the next short answer goes on |
| `Building!ConfirmAdvances` | a confirmation of step 1 leads to step 2 | the chat brings the last drawing back and the answer is read as a new drawing |
| `Building!PagesAreRead` | a page the model answers is read | the asynchronous client is called in a thread; its coroutine has no content |
| `Building!OwnFiles` | `agent.py` 3706: the quote per material's own files | the files are those whose key begins with its name (3714): a material whose name begins another's lists both |
| `Catalogs!EditsPersist` | `catalog_dir.py` 4: edits persist across deploys | `update_budget` leaves `updated_at` alone (`usage/router.py` 139): files checked out since the last other save, but before the change, overwrite it |
| `Catalogs!PriceWithoutVat` | `import_parser.py` 10: the column with VAT is never the source | its header contains the words of the other |
| `Contexto!ZocalosAsAnswered` | `agent.py` 2264: answers replace, they do not append | a zocalo keeps the length from before an edit |
| `Family!WorkPlacedOnce` | `resumen_obra_tool.py` 192: labour is independent of the material and appears once | sintered stones are placed under SKUs of their own (`calculator.py` 1536) and the price is in the key (222): a granite and a Dekton quote of one kitchen charge its placement twice |
| `Family!NothingRealIsSwept` | the clean-up deletes only abandoned placeholders | an hour-old placeholder whose first turn is under way, and a nameless variant, look abandoned |

## Fairness

`AgentLoop` assumes weak fairness of the loop's steps: requests to the model have
a timeout, tools return or raise. The model may answer anything, and a
disconnection is never required. `QuoteFlow` and `QuoteDocuments` assume weak
fairness of the steps of each tab's request: each await is a model call, a Drive
call or an UPDATE, which return or raise; a waiting UPDATE gets the lock when its
holder commits. Nothing obliges an operator to send or to leave. The other
modules state no liveness: their handlers are either one step or a read and a
commit, and nothing waits for anything in them.

## Proofs

TLAPS proves, for all values of the constants that meet the modules' assumptions:

| Theorem | Says |
|---|---|
| **Agent loop** `TypeCorrect` | the variables of a turn keep their types, calls and history included |
| `RetryBoundHolds` | no tool fails in earnest more than `Threshold` times in a turn |
| `TurnBudgetHolds` | a turn costs at most `MaxIterations` responses and, however overloaded the model, at most `MaxRetries` + 1 requests a response; from `IterationBudgetHolds` and `RequestBudgetHolds` |
| `PairedHistoryHolds` | results always follow the calls they answer, and complete calls have results |
| `AnsweredOrLimitHolds` | a saved turn ends with words of the assistant or at the iteration limit |
| **Quote flow** `TypeCorrect` | row and copies keep their types |
| `SourcesOnDiskHolds` | any number of tabs: a source file is listed once and is on disk |
| `MeasuredOfCardHolds` | one operator: confirmed measures are those of the despiece on the card |
| `PromiseIsKept` | one operator, whatever statuses are set by hand: `QuoteFlow` implements `QuotePromise` |
| `BetweenRequestsHolds` | one operator who stays: what waits for a confirmation is on the screen and can be confirmed, unless a context was reopened whose analysis a calculation had dropped; totals are those of the calculation |
| `BriefIsKept` | one operator: no reopening cuts the first message of the chat |
| `NoSecondCardHolds` | one operator: a plan whose despiece was confirmed is not read again unless a handler said so |
| **Quote documents** `TypeCorrect` | row, disk, Drive, lock and copies keep their types |
| `PdfServedHolds` | the PDF a quote offers is on disk, until a deletion has taken the directory |
| `CleanServesHolds` | a generation without failure or company ends with the documents it says, whatever failures came before |
| `RegenerateHealsHolds` | so does a regeneration, and the warning of an outdated PDF is gone |
| `LockIsNeverLeft` | who holds the row's lock is a request that is still going to give it back |
| **Pricing** `FamilyAlwaysRespected` | neither search nor preference for EXTRA crosses the family the text names; "gris mara" is the granite of that name |
| `PricesAlwaysHold` | saved breakdowns keep their types, their totals are the sum of the blocks the documents print (`GrandTotalsAddUp`), no discount reaches the flete, the table of step 2 ends with the area that is charged |
| `CalculationsAreAccepted` | what the calculator returns passes the formulas the validators repeat, rounding included, outside the known refusals |
| `Paso1AlwaysPriced` | a calculation prices the pieces of step 1, up to the guard's tolerance and, for each unit, the rounding to a hundredth of a square metre |
| `NothingIsDropped` | no recalculation loses the line of the sink or the cooktop unless the operator wrote so (a part of `RecalculationsKeep`) |
| `SentQuotesAreNamed` | a quote with documents is only calculated again for a text that names its material (what the code decides in `DocumentsKeepTheirMaterial`) |
| **Family** `TypeCorrect` | rows, jobs' notes and answers keep their types |
| `FamiliesStayFlat` | no variant is the root of another |
| `SummaryHolds` | quotes of a summary hold the same record or a later one; its totals are all its materials, each amount of work once at each price it is placed for, and one freight |
| `NamesAreNeverBlanked` | a client's name goes only when an operator clears the field: no summary, merge, turn or other request wipes it |
| `FamiliesGoTogether` | a deletion leaves no variant of the family it read, except one committed in between |
| `WhatIsExactIsAccepted` | what the preview calls exact, the endpoint takes unforced |
| **Catalogues** `CachesAlwaysHold` | the worker that answered the last save prices with it |
| `ImportsAreSafe` | an import, over lists that are still what it read, frees no item, loses none, touches nothing its file does not name; what it or a restore replaces is in a backup, if it is still what was read; from `ImportKeepsTheRestHolds` and `ReplacedIsBackedUpHolds` |
| `StartsKeepEdits` | by the times of files and rows, whatever they are: a start of the same image takes back nothing, one of another no price list saved since its files were checked out; each makes every key of the image readable |
| **Buildings** `TypeCorrect` | breakdown, quotes per material, files and turns keep their types |
| `PricesAlwaysHold` | prices are of the despiece beside them (`PricesFollowThePlan`), the quotes per material share out all its trips and add up to its totals: dollars exactly, pesos up to one for each quote, whose skirts are rounded apart |
| `DocumentsAlwaysHold` | a document whose name overlaps no other row of the catalogue reaches its own material, and lists no other's files if its name begins no other; none is written without a client's name |
| `DrawingsAlwaysHold` | no second reading turns an L over; geometry is of the measures shown |
| `NewDrawingsStartAgain` | a later drawing starts at step 1 without prices and leaves the quotes per material alone |

Where one operator is assumed, the hypothesis is `One` (all tabs are the same
tab): with two the statements fail, since a tab left behind confirms, cuts or
shows what it still has, and `quote_flow_tabs` checks what is left then.
`BetweenRequestsHolds` also assumes `~Disconnects`: a client that leaves between
the commit of the breakdown and that of the turn leaves a despiece no turn shows.
The theorems of the other modules hold for any number of tabs, admins, workers
and jobs.

### The inductive invariants

*Agent loop.* The failures recorded by the guard are at least the failures that
happened, and a tool runs only below the threshold; the counter of iterations is
at least the number of responses, the surplus is one and exists only after the
correction; what a request has cost so far is its attempt number, and only a
response closes the account. Every path of the loop appends a sequence that is
paired in itself, and appending one paired sequence to another leaves both so
(`PairedAppends`); the save is reached only from a path whose sequence ends with
a text, or from the limit.

*Quote flow.* No property is inductive, because what a step writes comes from
the copy in its request. `IInv` says, for each place in a handler, what the copy
guarantees there: a request about to announce a file holds a name new in its list
with bytes on disk; one that reads a plan has no confirmed measures in its copy
(`StartReading` dropped them, or there were none to drop); one that reads again
has a card; one that confirms carries a card. With one operator the copy of a
running request is the row (`One`), which is what makes the card it carries the
card it confirms. The proof has a lemma per group of handlers, resting on lemmas
about what each handler makes of a breakdown (`DropsCohere`, `CardChangesCohere`,
`MeasuresCohere`, `PricesCohere`), about the list of files (`OneMoreListed`) and
about the cut of the history (`CutIsHistory`, which needs that a last card
exists, by well-founded induction on the naturals).

*The screen.* `ScreenInv` adds the history: its first message is the brief, each
place of a handler has the messages it began with, and between requests what the
row says is waiting is the last thing shown (`Confirmable`), or nothing is and the
analysis of the context is gone. It exempts the
places between the commit of the breakdown and of the turn (`Unshown`), where the
row is ahead of the chat by design.

*Refinement.* `QuotePromise` sees three things of a breakdown (`Seen`: the source
of the card, of the confirmed measures, and what was priced) and whether
documents stand. With one operator the copy is the row (`CopyIsRow`), so each
handler's write is a function of the row, and a lemma per action shows which
step of the promise it is: an edit past step 1 and a reopening take back, a new
plan forgets, a reading shows, a calculation prices what is confirmed. What is
not obvious is what the invariant is for: a reading may show a card only because
no measures are confirmed by then, and a confirmation confirms the card because
the card the tab sends is of the source of the row's.

*Documents.* Files on Drive are numbered by the request that uploads them.
`PathsInv` says which requests reach which place, `NumbersInv` that the file of a
copy is older than what its request uploads, so that dropping the old one never
drops the new one. `ServedInv`: a request that has rendered has its PDF on disk,
whoever else writes, since everybody who writes the row's URL has rendered first.
`CleanInv` follows a request that met neither failure nor company through every
place up to its save. `LockAlive` is inductive beside them: the lock's holder is
a tool's request between its upload and its save, and the row is there.

*Pricing.* The saved breakdown alone says little, so `IInv` keeps what it came from
beside it: a priced breakdown is `CalculateQuote` of what was asked, but for the
three fields `patch_quote_mo` writes (`Computed`). With that a statement about rows
is one about the calculator. The family rests on `FuzzyInScope`, for which the
highest of the similarities must exist (`Highest`, by well-founded induction on
what they lack to 100); nothing is dropped because each guard keeps
what the carry-over restored (`GuardsKeepWork`) and the line of the sink and of
the cooktop survive the concatenation of the table of labour (`WorkIsBilled`,
which needs that the rooms of a quote are finitely many).

The totals are folds, and the induction over a list's length that an argument
about them wants is not to be had from the library, whose theorems take an
operator. `Sums_proofs` states it over sets instead: a set of numbers that
has zero and every successor is `Nat` (`Numbers`), a family of subsets that has
the empty one and grows by an element is all of them (`Subsets`). By these the
recursion of the fold has a solution (`SumExists`) and the solution does not
depend on the order elements are taken in (`AddsAnyone`); what is then cited are
facts about functions: a sum of naturals is a natural, sums are monotone, the
sum of two is the sum of the sums, a double sum may be exchanged. With these, `Sound` and
`Charged` say of every breakdown that its lines are rounded naturals of which the
discount takes the flete out; `TableAddsUp` exchanges the sum over the rows with
the sum over the pieces of each; `HalvesAgree` and `BuildingAgrees` compare the
roundings of calculator and validators, which differ by at most a peso; and
`MeasuredIsNear` bounds the distance between rounded and raw areas piece by piece.
`Counts` ties the bound to the history, so that a step's cost tells a calculation
from the other tools.

*Family.* `RowsOK` and `SummariesOK` tie rows to records; `JobsOK` says what each
job's notes still mean at its commit although rows have come and gone since: the
parent a derivation noted is a root or is gone (no update ever moves a row in its
family, `Kin`), and of the rows there were at a deletion's read its list holds
those of one family. A step is first summed up for the table alone (`TableStep`: what
an insertion brings, what an update may change). The totals of a summary are those
of the breakdowns it read, not of the rows it is attached to, so `JobOK` says that
what a pending summary will write adds up (`AddsUp`), and `TypeOK` that every row
holds lists of pieces, without which nothing has a sum. What is left is one lemma
about data: the lines the deduplication keeps are the first line of each amount of
work at each price and the first freight (`WhatIsKept`); keeping one place for each
pair of both, they sum to what the works do (`WorksOnce`, a renaming of summands).
That names are kept is said of each update beside its action: one that spares the
names of what it writes (`Spares`), or the PATCH (`WhoWipes`).

*Catalogues.* A request between its save and its invalidation is the only state
in which its worker may remember something older (`SaverIsCurrent` is inductive
with the worker noted in the job); `JobOK` says that what a request is about to
replace has been written to a backup. The proofs of the import rest on lemmas on
what `Upsert` does to each item of a list, whatever their order. What a start may
take back rests on the times (`TimesOK`): once started, no row is older than its file,
and no price list older than the last request that changed it; only the configuration
is, after a change of the budget.

*Buildings.* `Breakdown` must be said of the row and of the copy of every turn,
since `SaveDocuments` writes its whole copy back: prices of the plan in that
copy, geometry of its typologies, a known client when documents are under way
(`TurnsOK`). `ChildrenOK` says of each documented quote which names its document may
have: those the matching by name lets through. For the sums, `Breakdown` also says that prices are `TotalsOf`
their plan, and `Batched` that the quotes made together stand next to each other,
one for each material priced (`QuotesAddUp`, by `SumRenamed`). What is left is the
arithmetic of one plan (`DocumentsAddUp`). Trips are shared by the largest
remainder: each material gets the whole part of its share, and the trips left are
as many as the first of an order by remainder, which takes a lemma on the rank in
a strict order of a finite set (`FirstOnes`, `TripsAreShared`). Square metres,
sinks and supports are then exchanged sums over the same pieces (`UnitsAreCharged`),
and skirts, rounded once per material instead of once, are off by half a peso each
(`RoundedApart`).

### Assumptions

All are the named ones of the modules, evaluated by the runs. `None` is no plan,
name, key or despiece, the brief is no plan, the bounds are naturals
(`NamesAssumption`, `AbsentAssumption`, `NoneAssumption`, `OffersAssumption`); the tools the loop treats specially are tools, limits are
positive where the code's are (`ToolsAssumption`, `BoundsAssumption`). The rows
a behaviour begins with are flat families without records whose measures and quantities are
naturals (`FamilyAssumption`); the freight and the prices of
materials and of placing them are naturals (`PricesAssumption`). Contents of catalogues are lists of items or a
configuration, an import's columns hold prices, negative ones included, or nothing
(`CatalogsAssumption`, `ImportsAssumption`). A name begins and overlaps itself and the row that is
spelled like it (`SpellingAssumption`). The names of a drawing's tables are names of the alias list, their
measures and quantities naturals (`EdificioAssumption`), and what their labour and
trips cost is listed (`EdificioListsAssumption`); a message has words, a model's reading is a list of
typologies (`BuildingAssumption`). Families and currencies of the price list are
those of the code, the row "gris mara" stands for is looked up among the granites
(`CatalogAssumption`); calls of the pricing tools have the fields of their schema
and similarities and discounts are percentages, quantities and measures are naturals,
as the casts of the code leave them (`PricingAssumption`); every job, zone and
sink that is listed has a price (`ListsAssumption`). All describe inputs; none says what the code
does with them.

### What the proofs changed in the models

* `QuoteDocuments`: the step after an upload was a `CASE` whose arms overlapped;
  it now follows the order of the code's conditions.
* `Catalogs`: for an item that a file names several times, `Upsert` now applies the
  updates before the normalisations and the last row of each, as the import does.
* `Edificio`: sections, their pieces and the summary by material are functions
  over the places of the tables instead of filtered sequences, so that a lemma
  can speak of one table. `Building` asks for the steps and plans to be other
  than `None`, which the proof of `NewDrawingStartsAgain` needs.
* `Calculator`, `Pricing`: what passes a test of a list is `Picked`, a sum over it
  `TotalOf`, the k-th of a set of places `Nth`, instead of `SelectSeq` and
  `SetToSortSeq`, of which no fact is installed. `Paso1IsPriced` allowed a
  hundredth of a metre per row and failed the proof for rows of more than two
  units: the rounding is per unit, and now half a hundredth for each. It speaks
  of calculations only, since an empty list of pieces empties step 1 as well.
* `Pricing`: the guard for an unmentioned finish of gris mara replaces the whole
  text, its family and its negations included; the rooms of the placement lines
  are collected over the details, not over a filtered copy.
* `Clients`, `Family`: the lines of labour of several quotes are places, of which
  the deduplication keeps those no earlier one has the key of, and the merged
  pieces of a calculation are the first of each shape with their quantities added,
  instead of folds that carry what was met. `TypeOK` of `Family` says what a row
  holds of pieces, which the sums of a summary need.
* `QuoteFlow`: the last thing shown is stated by its place in the history, not by
  a filtered copy of it.

### What stays with TLC

* Liveness (`TurnEnds`, `RequestsEnd`) needs `ENABLED` and fairness.
* `DocumentsKeepTheirMaterial` needs the two ways of reading a name to agree: the
  independent quote is decided by containment of words, the price by the search,
  and that they agree is a fact about the names in the catalogue. What the code
  itself decides is `SentQuotesAreNamed`.
* `Contexto` applies the answers one after the other, each to one of thirteen
  questions, by a recursive function over their list; `OnceForAll` and `AsAnswered`
  are about its result.
* The sentences the code does not keep, and the two violations, are not theorems.

No module uses a `RECURSIVE` operator: sums are folds, recursions are functions.

## Not modelled

* Inside the modelled parts: several materials in one breakdown, products-only
  detection, the condiciones PDF, `PATCH` of `parent_quote_id`, the planilla
  parser, the scores of the fuzzy search, the file of a summary, stock,
  architects' discounts, technical detections and the model's analysis of a brief
  (inputs of `Contexto`); names of materials with the word RESUMEN, which the code
  takes for the summary; a list of catalogues that names one twice; clocks of
  database and image that disagree.
* What the properties leave out because the code does it, each in the models:
  * A material whose name contains or begins another row's (GRANITO EBONY and EBONY
    LEATHER, NEGRO ABSOLUTO and NEGRO ABSOLUTO INDIO, SILESTONE colours with and without
    SUEDE) may get its documents on the wrong quote (`agent.py` 3702) or list the
    other's files (3714).
  * An import reads all lists first and writes them later. A save in between is lost
    without a copy, rows included that the file does not name, although `router.py`
    241 of the catalogue says they are never deleted; and a read that fails falls back
    on the image's file (61-67), which the import then backs up and writes over the
    table. A negative price is imported.
  * A deployment whose files were checked out after an edit overwrites it, also when
    only code changed and the checkout gives every file a new time.
  * A context that is reopened after a calculation has no card to come back, since
    `calculate_quote` keeps no `context_analysis_pending` (`agent.py` 7342), although
    `router.py` 1240 says it is kept. The chat then ends before it.
  * An operator may set a quote to validated or sent by hand without a price
    (`router.py` 51, 1469, 1886), and clear the name of a client (`schemas.py` 113).
* *Plan readers* (`dual_reader.py`'s calls, `multi_crop_reader.py`,
  `cotas_extractor.py`): calls of vision models and geometry of drawings, whose
  outcomes are inputs here.
* *E-mail draft*: a text of a model with a cache. Writing the draft moves
  `updated_at`, which its freshness is compared with.
* *Audit, authentication, database, usage counters, business rules, statistics,
  front end*: no protocol of their own; reasons in `PROJECT.json`.

Hazards of the code that no property covers, beside the noted ones of
`PROJECT.json`: an overload after tools have committed ends the turn without the
save (`agent.py` 4721); two streams of one quote each write the history they began
with (5594); a client that leaves between the commit of the breakdown and of the
turn leaves a despiece no turn shows until the plan is sent again (638);
`dual-read-retry` overwrites a plan read during its call (`router.py` 2655); the
prices of a building are committed before its quotes per material (`agent.py`
3798); `patch_quote_mo` adds up without waste and discounts (7513); the pieces of
step 1 protect the first calculation only (7340); a new drawing drops the measures
but not the confirmed context (418); confirmed measures leave `dual_read_result` as
it was read (2330); the limit of `read_plan` is counted after the calls have run
(4574); a web request for several materials commits some of them before it fails
(`quote_engine/router.py` 172); VAT and texts are read through copies no save
reaches (`catalog_tool.py` 57). The models show these behaviours; the code promises
nothing a property could state.

## Plan

Done: the agent loop, the quote flow and its promise, documents, pricing,
buildings, context, catalogues, family. Left:

1. Proofs: `Contexto`, question by question; `DocumentsKeepTheirMaterial`, from a property of the
   names of the catalogue.
2. The composition of `Building` with `Family`: quotes per material that are
   derived, summarised or deleted.
3. The e-mail draft's cache and the file of a summary.
