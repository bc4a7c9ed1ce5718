------------------------------- MODULE Family -------------------------------
(***************************************************************************)
(* The quotes as rows among others: how they are created by operators and  *)
(* by the web API, derived for another material, gathered in a summary of  *)
(* a client's work, renamed, and deleted with their family or as abandoned *)
(* drafts.                                                                 *)
(*                                                                         *)
(* One row is QuoteFlow's and QuoteDocuments' business; here a row is what *)
(* its relations need.  A request whose only awaits are statements of one  *)
(* transaction is one step.  A request that calls a model, Google Drive,   *)
(* the PDF writer or the calculator between its read and its commit is a   *)
(* job with a step for each side, and other requests run between them.     *)
(***************************************************************************)
EXTENDS Clients, TLC

CONSTANTS
  MaxRows,      \* bound: rows ever created
  Slots,        \* jobs under way at a time
  MaxRequests,  \* bound: requests of a behaviour, by the number of rows it starts with
  Names,        \* names an operator may write, besides the empty one
  PieceLists,   \* pieces a reading, an API call or a PATCH may bring
  WebInputs,    \* bodies of POST /v1/quote: [client, pieces, notes, materials]
  Databases     \* contents of the table at the start: sequences of rows

Ids == 1..MaxRows
None == 0
Materials == DOMAIN Price
NoRecord == [n |-> 0]
NoCalc == [mat |-> "", details |-> <<>>, dual |-> <<>>]

Statuses == {"draft", "pending", "validated", "sent"}

\* A piece, and what a row holds of them: as they were sent, as the last
\* calculation merged them, as the plan was read.
Piece == [desc : STRING, largo : Nat, dim2 : Nat, qty : Nat]
IsBreakdown(bd) ==
  /\ bd = [mat |-> bd.mat, details |-> bd.details, dual |-> bd.dual]
  /\ bd.details \in Seq(Piece) /\ bd.dual \in Seq(Piece)
  /\ bd.details # <<>> => bd.mat \in Materials
HasPieces(q) == q.raw \in Seq(Piece) /\ IsBreakdown(q.bd)

EmptyRow == [parent |-> None, status |-> "draft", web |-> FALSE, client |-> <<>>, said |-> <<>>,
             chat |-> FALSE, files |-> FALSE, raw |-> <<>>, bd |-> NoCalc,
             resumen |-> NoRecord, idle |-> FALSE]

\* The columns of a row.
IsRow(q) == q = [parent |-> q.parent, status |-> q.status, web |-> q.web, client |-> q.client,
                 said |-> q.said, chat |-> q.chat, files |-> q.files, raw |-> q.raw, bd |-> q.bd,
                 resumen |-> q.resumen, idle |-> q.idle]

\* A behaviour starts from a table these requests may have left: a parent is
\* the root of its family.  Its summaries are those the behaviour makes.
ASSUME FamilyAssumption ==
  /\ MaxRows \in Nat \ {0} /\ MaxRequests \in [0..MaxRows -> Nat]
  /\ PieceLists \subseteq Seq(Piece)
  /\ \A db \in Databases :
       /\ Len(db) \in 0..MaxRows /\ DOMAIN db = 1..Len(db)
       /\ \A r \in DOMAIN db :
            /\ IsRow(db[r]) /\ HasPieces(db[r])
            /\ db[r].status \in Statuses /\ db[r].resumen = NoRecord
            /\ db[r].parent \in 0..Len(db)
            /\ db[r].parent # None => db[db[r].parent].parent = None

VARIABLES
  rows,   \* id -> row; its domain is the table
  next,   \* the next id: a uuid is never given twice
  job,    \* slot -> the request under way in it
  sweeps, \* clean-ups fired by POST /quotes and not yet run
  made,   \* summaries committed
  last,   \* what the last finished request answered
  left    \* requests the bound still allows
vars == <<rows, next, job, sweeps, made, last, left>>

Idle == [op |-> "idle"]
NoAnswer == [op |-> "none"]
Answer(op, ids, result) == [op |-> op, ids |-> ids, result |-> result]
Table == DOMAIN rows

---------------------------------------------------------------------------
(* Statements.  Every UPDATE sets updated_at (onupdate), so the row is not *)
(* idle any more; an UPDATE of a deleted row changes nothing.              *)

Update(ids, New(_)) ==
  rows' = [r \in Table |-> IF r \in ids THEN [New(r) EXCEPT !.idle = FALSE] ELSE rows[r]]

MutantInsertRow(new) ==
  next \in Ids /\ rows' = [r \in Table \cup {next} |-> IF r = next THEN new ELSE rows[r]] /\ UNCHANGED next

InsertRow(new) ==
  /\ next \in Ids
  /\ rows' = [r \in Table \cup {next} |-> IF r = next THEN new ELSE rows[r]]
  /\ next' = next + 1

DeleteRows(ids) == rows' = [r \in Table \ ids |-> rows[r]]

Request == left > 0 /\ left' = left - 1
Quick == UNCHANGED <<job, sweeps, made>>
Starts(s, j) == job[s] = Idle /\ job' = [job EXCEPT ![s] = j]
Ends(s) == job' = [job EXCEPT ![s] = Idle]

---------------------------------------------------------------------------
(* Requests of one transaction *)

CreateQuote ==
  /\ Request
  /\ InsertRow(EmptyRow)
  /\ sweeps' = sweeps + 1
  /\ last' = NoAnswer
  /\ UNCHANGED <<job, made>>

Abandoned(r) ==
  /\ rows[r].status = "draft" /\ rows[r].idle
  /\ rows[r].client = <<>> /\ ~rows[r].files /\ ~rows[r].chat /\ ~rows[r].web

\* The task POST /quotes leaves behind: one DELETE, some time later.
CleanupEmptyDrafts ==
  /\ sweeps > 0
  /\ sweeps' = sweeps - 1
  /\ DeleteRows({r \in Table : Abandoned(r)})
  /\ last' = NoAnswer
  /\ UNCHANGED <<next, job, made, left>>

\* An hour in which nobody asks for anything; no job and no clean-up takes that long.
AnHourPasses ==
  /\ sweeps = 0 /\ \A s \in Slots : job[s] = Idle
  /\ \E r \in Table : ~rows[r].idle
  /\ rows' = [r \in Table |-> [rows[r] EXCEPT !.idle = TRUE]]
  /\ last' = NoAnswer
  /\ UNCHANGED <<next, job, sweeps, made, left>>

\* The name the wizard read is copied once to the empty column.
GetQuote(r) ==
  /\ Request
  /\ rows[r].client = <<>> /\ rows[r].said # <<>>
  /\ Update({r}, LAMBDA q : [rows[q] EXCEPT !.client = rows[q].said])
  /\ last' = NoAnswer
  /\ UNCHANGED next /\ Quick

\* The body's schema asks for no letters: an operator may clear the name.
PatchName(r, name) ==
  /\ Request
  /\ Update({r}, LAMBDA q : [rows[q] EXCEPT !.client = name])
  /\ last' = NoAnswer
  /\ UNCHANGED next /\ Quick

PatchPieces(r, pieces) ==
  /\ Request
  /\ Update({r}, LAMBDA q : [rows[q] EXCEPT !.raw = pieces])
  /\ last' = NoAnswer
  /\ UNCHANGED next /\ Quick

MarkAsRead(r) ==
  /\ Request
  /\ rows[r].idle
  /\ Update({r}, LAMBDA q : rows[q])
  /\ last' = NoAnswer
  /\ UNCHANGED next /\ Quick

VALID_TRANSITIONS ==
  [draft |-> {"validated", "pending"}, pending |-> {"validated", "draft"},
   validated |-> {"sent", "draft"}, sent |-> {"validated"}]

UpdateStatus(r, target) ==
  /\ Request
  /\ target \in VALID_TRANSITIONS[rows[r].status]
  /\ Update({r}, LAMBDA q : [rows[q] EXCEPT !.status = target])
  /\ last' = NoAnswer
  /\ UNCHANGED next /\ Quick

---------------------------------------------------------------------------
(* One client under several names *)

\* The anchor is the row the database happens to return first.
Verdict(ids, anchor) ==
  LET names(set) == {rows[r].client : r \in set}
  IN  IF Cardinality(ids) = 1 \/ SameNormalized(names(ids), rows[anchor].client) THEN "exact"
      ELSE IF PreviewGroup(names(ids \ {anchor}), rows[anchor].client) THEN "fuzzy"
      ELSE "ambiguous"

ClientMatchCheck(ids) ==
  /\ Request
  /\ \E anchor \in ids : last' = Answer("check", ids, Verdict(ids, anchor))
  /\ UNCHANGED <<rows, next>> /\ Quick

\* The ORM writes, and dates, only the rows the rename changes.  An empty name is refused.
MergeClient(ids, name) ==
  /\ Request
  /\ name # <<>>
  /\ Update({r \in ids : rows[r].client # name}, LAMBDA q : [rows[q] EXCEPT !.client = name])
  /\ last' = NoAnswer
  /\ UNCHANGED next /\ Quick

---------------------------------------------------------------------------
(* The summary of a client's work: read and validate; write the PDF and    *)
(* upload it; attach the record to every quote in one commit.              *)

Refusal(ids, force) ==
  LET set == ToSet(ids)
  IN  IF \E r \in set : rows[r].status # "validated" THEN {"status"}
      ELSE IF force \/ Cardinality(set) = 1 THEN {"ok"}
      ELSE {IF FuzzyGroup({rows[r].client : r \in set}, rows[anchor].client)
              THEN "ok" ELSE "clients" : anchor \in set}

ReadResumen(s, ids, force) ==
  /\ Request
  /\ job[s] = Idle
  /\ \E result \in Refusal(ids, force) :
       /\ last' = Answer("resumen", ToSet(ids), result)
       /\ IF result # "ok" THEN UNCHANGED job
          ELSE LET bds == [i \in DOMAIN ids |-> rows[ids[i]].bd]
               IN  Starts(s, [op |-> "resumen", ids |-> ids, of |-> bds,
                              data |-> BuildResumenData([i \in DOMAIN ids |-> rows[ids[i]].client], bds)])
  /\ UNCHANGED <<rows, next, sweeps, made>>

MutantAttached(r, record) == [rows[r] EXCEPT !.resumen = record, !.client = record.data.client]

\* A summary of quotes without a name leaves the names alone.
Attached(r, record) ==
  [rows[r] EXCEPT !.resumen = record,
                  !.client = IF record.data.client = <<>> THEN @ ELSE record.data.client]

MutantHolders(ids) == {Head(ids)}
Holders(ids) == ToSet(ids)

CommitResumen(s) ==
  /\ job[s].op = "resumen"
  /\ made' = made + 1
  /\ LET record == [n |-> made + 1, ids |-> job[s].ids, of |-> job[s].of, data |-> job[s].data]
     IN  Update(Holders(job[s].ids), LAMBDA q : Attached(q, record))
  /\ Ends(s)
  /\ last' = NoAnswer
  /\ UNCHANGED <<next, sweeps, left>>

---------------------------------------------------------------------------
(* Calculation: equal pieces become one row of the breakdown with the sum  *)
(* of their quantities.                                                    *)

SamePiece(p, q) == p.desc = q.desc /\ p.largo = q.largo /\ p.dim2 = q.dim2

Details(pieces) ==
  LET first == {i \in DOMAIN pieces : \A j \in 1..(i - 1) : ~SamePiece(pieces[i], pieces[j])}
      quantity(i) == TotalOf(pieces, LAMBDA q : SamePiece(q, pieces[i]), LAMBDA q : q.qty)
  IN [k \in 1..Cardinality(first) |->
        LET i == Nth(first, k) IN [pieces[i] EXCEPT !.qty = quantity(i)]]

Calculated(mat, pieces) == [NoCalc EXCEPT !.mat = mat, !.details = Details(pieces)]

---------------------------------------------------------------------------
(* derive-material *)

\* Tramos and zocalos whose length was never read are skipped.
ExtractFromDualRead(dual) == Picked(dual, LAMBDA p : p.largo > 0)

\* description, largo and dim2 of a row of the breakdown, and nothing else.
Reconstructed(details) == [i \in DOMAIN details |-> [details[i] EXCEPT !.qty = 1]]

SourcePieces(row) ==
  IF row.raw # <<>> THEN row.raw
  ELSE IF row.bd.details # <<>> THEN Reconstructed(row.bd.details)
  ELSE ExtractFromDualRead(row.bd.dual)

MutantRootOf(r) == r
RootOf(r) == IF rows[r].parent # None THEN rows[r].parent ELSE r

\* Read and calculation; no pieces at all, and the request is refused.
ReadDerive(s, r, mat) ==
  /\ Request
  /\ SourcePieces(rows[r]) # <<>>
  /\ Starts(s, [op |-> "derive", of |-> rows[r],
                new |-> [EmptyRow EXCEPT
                           !.parent = RootOf(r), !.client = rows[r].client, !.web = rows[r].web,
                           !.raw = SourcePieces(rows[r]),
                           !.bd = Calculated(mat, SourcePieces(rows[r]))]])
  /\ last' = NoAnswer
  /\ UNCHANGED <<rows, next, sweeps, made>>

CommitDerive(s) ==
  /\ job[s].op = "derive"
  /\ InsertRow(job[s].new)
  /\ Ends(s)
  /\ last' = NoAnswer
  /\ UNCHANGED <<sweeps, made, left>>

---------------------------------------------------------------------------
(* delete: the family is read, the files of each member go from Google     *)
(* Drive and from the disk, and one commit removes the rows read.          *)

MutantFamilyOf(r) == {q \in Table : q = r \/ rows[q].parent = r}
FamilyOf(r) == {q \in Table : q = RootOf(r) \/ rows[q].parent = RootOf(r)}

ReadDelete(s, r) ==
  /\ Request
  /\ Starts(s, [op |-> "delete", ids |-> FamilyOf(r), before |-> next])
  /\ last' = NoAnswer
  /\ UNCHANGED <<rows, next, sweeps, made>>

CommitDelete(s) ==
  /\ job[s].op = "delete"
  /\ DeleteRows(job[s].ids)
  /\ Ends(s)
  /\ last' = NoAnswer
  /\ UNCHANGED <<next, sweeps, made, left>>

---------------------------------------------------------------------------
(* The web API *)

WebRow(in) == [EmptyRow EXCEPT !.web = TRUE, !.client = in.client]

\* Neither pieces nor notes they can be parsed from: one row for an operator to look at.
CreateWithoutPieces(in) ==
  /\ Request
  /\ in.pieces = <<>>
  /\ InsertRow([WebRow(in) EXCEPT !.status = IF in.notes THEN "pending" ELSE "draft"])
  /\ last' = NoAnswer
  /\ Quick

\* Pieces of the body, or those a model finds in the notes.
StartWebQuote(s, in, pieces) ==
  /\ Request
  /\ pieces # <<>>
  /\ in.pieces = pieces \/ (in.pieces = <<>> /\ in.notes)
  /\ Starts(s, [op |-> "web", in |-> in, pieces |-> pieces, todo |-> in.materials])
  /\ last' = NoAnswer
  /\ UNCHANGED <<rows, next, sweeps, made>>

\* One material after the other, each with its own commit.
CommitWebQuote(s) ==
  /\ job[s].op = "web" /\ job[s].todo # <<>>
  /\ Head(job[s].todo) \in Materials
  /\ InsertRow([WebRow(job[s].in) EXCEPT
               !.status = "pending", !.raw = job[s].pieces,
               !.bd = Calculated(Head(job[s].todo), job[s].pieces)])
  /\ job' = [job EXCEPT ![s] = IF Len(job[s].todo) = 1 THEN Idle ELSE [job[s] EXCEPT !.todo = Tail(@)]]
  /\ last' = NoAnswer
  /\ UNCHANGED <<sweeps, made, left>>

\* A material that is not found ends the request; the rows before it stay.
WebQuoteFails(s) ==
  /\ job[s].op = "web" /\ job[s].todo # <<>>
  /\ Head(job[s].todo) \notin Materials
  /\ Ends(s)
  /\ last' = Answer("web", {}, "error")
  /\ UNCHANGED <<rows, next, sweeps, made, left>>

\* upload_source_files reads the row, writes each file to the disk and to Google
\* Drive, and commits the list; the row it read is not read again.
ReadUpload(s, r) ==
  /\ Request
  /\ Starts(s, [op |-> "upload", row |-> r, of |-> rows[r]])
  /\ last' = NoAnswer
  /\ UNCHANGED <<rows, next, sweeps, made>>

\* A plan for a quote of the web waits for an operator; for any other quote
\* that had no breakdown it starts a run of the agent nobody waits for.  When
\* every file was refused the list is written as it was read.
CommitUpload(s) ==
  /\ job[s].op = "upload"
  /\ \E saved \in BOOLEAN :
       /\ Update({job[s].row}, LAMBDA q : [rows[q] EXCEPT !.files = saved \/ job[s].of.files])
       /\ job' = [job EXCEPT ![s] =
                    IF saved /\ ~@.of.web /\ @.of.bd = NoCalc
                      THEN [op |-> "turn", row |-> @.row, auto |-> TRUE] ELSE Idle]
  /\ last' = NoAnswer
  /\ UNCHANGED <<next, sweeps, made, left>>

---------------------------------------------------------------------------
(* A turn of the chat, as the other requests see it: nothing is in the row *)
(* until its end, when a reading, a calculation or only the conversation   *)
(* are.  QuoteFlow and AgentLoop have its steps.                           *)

StartTurn(s, r) ==
  /\ Request
  /\ Starts(s, [op |-> "turn", row |-> r, auto |-> FALSE])
  /\ last' = NoAnswer
  /\ UNCHANGED <<rows, next, sweeps, made>>

WithReading(row, name, pieces) == [row EXCEPT !.said = name, !.bd = [@ EXCEPT !.dual = pieces]]
WithPrices(row, mat) ==
  [row EXCEPT !.bd = [@ EXCEPT !.mat = mat, !.details = Details(ExtractFromDualRead(row.bd.dual))]]

TurnLeaves(row) ==
  {row}
  \cup {WithReading(row, name, ps) : name \in Names, ps \in PieceLists}
  \cup {WithPrices(row, mat) : mat \in {m \in Materials : ExtractFromDualRead(row.bd.dual) # <<>>}}

SaveTurn(s) ==
  /\ job[s].op = "turn"
  /\ IF job[s].row \in Table
       THEN \E row \in TurnLeaves(rows[job[s].row]) :
              Update({job[s].row}, LAMBDA q : [row EXCEPT !.chat = TRUE])
       ELSE UNCHANGED rows
  /\ job' = [job EXCEPT ![s] = IF @.auto THEN [op |-> "verify", row |-> @.row] ELSE Idle]
  /\ last' = NoAnswer
  /\ UNCHANGED <<next, sweeps, made, left>>

\* The run of the agent left no breakdown: the pieces of the row are priced.
VerifyBackground(s) ==
  /\ job[s].op = "verify"
  /\ LET r == job[s].row
     IN  IF r \in Table /\ rows[r].bd = NoCalc /\ rows[r].raw # <<>>
         THEN \E mat \in Materials :
                Update({r}, LAMBDA q : [rows[q] EXCEPT !.bd = Calculated(mat, rows[q].raw)])
         ELSE UNCHANGED rows
  /\ Ends(s)
  /\ last' = NoAnswer
  /\ UNCHANGED <<next, sweeps, made, left>>

---------------------------------------------------------------------------
\* Lists of distinct quotes, in the order the operator ticked them.
Selections == UNION {{ids \in [1..n -> Table] : \A i, j \in 1..n : i # j => ids[i] # ids[j]} :
                     n \in 1..Cardinality(Table)}

Init ==
  /\ \E db \in Databases :
       rows = db /\ next = Len(db) + 1 /\ left = MaxRequests[Len(db)]
  /\ job = [s \in Slots |-> Idle]
  /\ sweeps = 0 /\ made = 0
  /\ last = NoAnswer

OfOneRow ==
  \E r \in Table :
    \/ GetQuote(r) \/ MarkAsRead(r)
    \/ \E name \in Names \cup {<<>>} : PatchName(r, name)
    \/ \E ps \in PieceLists : PatchPieces(r, ps)
    \/ \E target \in Statuses : UpdateStatus(r, target)

OfSeveralRows ==
  \E ids \in SUBSET Table \ {{}} :
    \/ ClientMatchCheck(ids)
    \/ \E name \in Names : MergeClient(ids, name)

Begins(s) ==
  \/ \E ids \in Selections, force \in BOOLEAN : ReadResumen(s, ids, force)
  \/ \E r \in Table : \/ ReadDelete(s, r) \/ ReadUpload(s, r) \/ StartTurn(s, r)
                      \/ \E mat \in Materials : ReadDerive(s, r, mat)
  \/ \E in \in WebInputs, pieces \in PieceLists : StartWebQuote(s, in, pieces)

Continues(s) ==
  \/ CommitResumen(s) \/ CommitDerive(s) \/ CommitDelete(s)
  \/ CommitWebQuote(s) \/ WebQuoteFails(s) \/ CommitUpload(s)
  \/ SaveTurn(s) \/ VerifyBackground(s)

Next ==
  \/ CreateQuote \/ CleanupEmptyDrafts \/ AnHourPasses
  \/ \E in \in WebInputs : CreateWithoutPieces(in)
  \/ OfOneRow \/ OfSeveralRows
  \/ \E s \in Slots : Begins(s) \/ Continues(s)

Spec == Init /\ [][Next]_vars

---------------------------------------------------------------------------
(* Properties *)

\* Types: the table, the jobs and the counters.
TypeOK ==
  /\ Table \subseteq 1..(next - 1) /\ next \in 1..(MaxRows + 1)
  /\ \A r \in Table : rows[r].status \in Statuses /\ rows[r].parent \in Ids \cup {None} /\ HasPieces(rows[r])
  /\ DOMAIN job = Slots
  /\ sweeps \in Nat /\ made \in Nat /\ left \in Nat

\* A parent is never itself a variant: delete, compare and derive-material all
\* look one level up and one level down, and would miss a grandchild.
FamiliesAreFlat ==
  \A r \in Table : rows[r].parent \in Table => rows[rows[r].parent].parent = None

\* A delete that starts from any member takes every member there was when it
\* read the family; only a variant inserted between that read and the commit
\* can be left behind.
FamilyGoesTogether ==
  [][\A s \in Slots : job[s].op = "delete" /\ job'[s] = Idle =>
       \A gone \in job[s].ids \cap Table, kept \in DOMAIN rows' :
         rows[kept].parent = gone \/ rows[gone].parent = kept => kept >= job[s].before]_vars

---------------------------------------------------------------------------
(* The summary *)

MaterialOf(ids, bds, currency) ==
  SumOf([i \in DOMAIN ids |->
    IF bds[i].details # <<>> /\ Price[bds[i].mat].currency = currency
      THEN M2(bds[i].details) * Price[bds[i].mat].unit ELSE 0])

\* What the operator pays labour for: each distinct amount of work once at each
\* price of placing it, and one freight when anything is placed.
LabourOf(bds) ==
  LET works == {<<M2(bds[i].details), Price[bds[i].mat].labour>> :
                  i \in {k \in DOMAIN bds : bds[k].details # <<>>}}
  IN  IF works = {} THEN 0 ELSE FLETE + SumOf([w \in works |-> w[1] * w[2]])

\* The totals of a summary are the materials of all its quotes and their labour,
\* where quotes whose work is placed at one price share it, however many were
\* ticked.  A sintered variant of the same work is placed at its own price and
\* pays labour again: WorkPlacedOnce.
ResumenAddsUp ==
  \A r \in Table :
    LET record == rows[r].resumen
    IN  record # NoRecord =>
          /\ record.data.ars = MaterialOf(record.ids, record.of, "ARS") + LabourOf(record.of)
          /\ record.data.usd = MaterialOf(record.ids, record.of, "USD")

\* A summary is attached to all its quotes or to none: a quote another one's
\* record names, and that still exists, holds that record or a later one,
\* whatever summaries overlapped.
OneRecordForAll ==
  \A r \in Table :
    rows[r].resumen # NoRecord =>
      \A q \in ToSet(rows[r].resumen.ids) \cap Table : rows[q].resumen.n >= rows[r].resumen.n

\* A summary is one document: the same for all its quotes, with totals that
\* are theirs, whatever overlapped with writing it.
ResumenHolds == ResumenAddsUp /\ OneRecordForAll

\* "MO represents physical work (material-independent), so when 3 quotes share
\* the same labor it should appear once, not 3x": no amount of work is paid more
\* than once, not even at the highest price it has among the quotes.
WorkPlacedOnce ==
  \A r \in Table :
    LET record == rows[r].resumen
        priced == {i \in DOMAIN record.of : record.of[i].details # <<>>}
        amount(i) == M2(record.of[i].details)
        highest(w) == Max({Price[record.of[i].mat].labour : i \in {k \in priced : amount(k) = w}})
    IN  record # NoRecord =>
          record.data.mo <= FLETE + SumOf([w \in {amount(i) : i \in priced} |-> w * highest(w)])

\* Nothing but an operator who clears the field empties a client's name: not the
\* name the wizard read, not a merge, and not the summary of quotes that had no
\* name when it was read and were given one while its PDF was written.
ClientNeverBlanked ==
  [][\A r \in Table \cap DOMAIN rows' :
       rows[r].client # <<>> /\ rows'[r].client = <<>> => PatchName(r, <<>>)]_vars

\* When the preview says the names are the same, the summary asked for next is
\* not refused for its clients, whichever row the database returns first.
ExactIsAccepted ==
  [][last.op = "check" /\ last.result = "exact" /\ last'.op = "resumen" /\ last'.ids = last.ids
       => last'.result # "clients"]_vars

\* derive-material "copies client data, pieces, and options from the original":
\* a variant has as many square metres as the breakdown it was derived from.
DerivedKeepsThePieces ==
  \A s \in Slots :
    job[s].op = "derive" /\ job[s].of.raw = <<>> /\ job[s].of.bd.details # <<>> =>
      M2(job[s].new.bd.details) = M2(job[s].of.bd.details)

\* The clean-up deletes "truly abandoned placeholders" with "nothing real
\* attached" and no "work in progress": no row that was priced and no row a
\* turn of the chat is working on.
NothingRealIsSwept ==
  [][sweeps' < sweeps =>
       \A r \in Table \ DOMAIN rows' :
         /\ rows[r].bd.details = <<>>
         /\ \A s \in Slots : ~(job[s].op = "turn" /\ job[s].row = r)]_vars
=============================================================================
