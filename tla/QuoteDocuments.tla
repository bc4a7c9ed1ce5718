--------------------------- MODULE QuoteDocuments ---------------------------
(***************************************************************************)
(* The documents of one quote: the requests that write the PDF and the     *)
(* Excel, put copies on Google Drive and record both in the row (router.py *)
(* validate, generate, regenerate, status, PATCH, read, delete; agent.py   *)
(* the generate_documents tool; drive_tool.py).                            *)
(*                                                                         *)
(* A request works on the row it loaded (see QuoteFlow). The endpoints     *)
(* write once, at their end. The tool updates the row before it writes the *)
(* files and commits after the last upload, so it holds the lock of the    *)
(* row meanwhile and every other UPDATE waits.                             *)
(*                                                                         *)
(* Abstracted: PDF and Excel on disk are one document, named after the     *)
(* client (material and date are fixed) and holding a revision of the data;*)
(* two requests are further apart than the five seconds _compute_pdf_      *)
(* outdated tolerates; one material, no building, no family.               *)
(***************************************************************************)
EXTENDS Integers, FiniteSets

CONSTANTS
    Users,        \* tabs at work on the quote
    Offers,       \* the requests they may send
    Clients,      \* client names
    None,         \* an absent value
    MaxRequests   \* bound: requests in a behaviour

Generators == {"validate", "generate", "regenerate", "chat"}
Kinds == Generators \cup {"status", "patch", "delete"}

ASSUME OffersAssumption ==
    /\ Offers \subseteq Kinds
    /\ Clients # {} /\ None \notin Clients
    /\ MaxRequests \in Nat

VARIABLES
    exists,   \* the row has not been deleted
    row,      \* its columns
    disk,     \* OUTPUT_DIR/<quote>: the data in the documents of each name
    drive,    \* the files on Drive, by id
    holder,   \* who holds the lock of the row, if anyone
    req,      \* the request each user waits for
    started   \* requests so far

vars == <<exists, row, disk, drive, holder, req, started>>

Ids == 1..(2 * MaxRequests)   \* request n uploads at most a PDF and an Excel
PdfId(n) == 2 * n - 1
XlsId(n) == 2 * n
Data == [rev: 0..MaxRequests, client: Clients]   \* the request it was edited by
Status == {"draft", "pending", "validated", "sent"}
Row ==
    [bd: Data,                       \* quote_breakdown
     client: Clients,                \* client_name
     status: Status,
     pdf: Clients \cup {None},       \* pdf_url and excel_url
     link: Ids \cup {None},          \* drive_url
     file: Ids \cup {None},          \* drive_file_id
     pdfLink: Ids \cup {None},       \* drive_pdf_url
     xlsLink: Ids \cup {None},       \* drive_excel_url
     banner: {"untracked", "clear", "outdated"}]  \* _compute_pdf_outdated
DriveFile ==
    [name: Clients, folder: {"month", "client"}, ext: {"pdf", "xls"}, holds: Data]

ASSUME NoneAssumption == None \notin Users \cup Ids \cup Data \cup DriveFile

Places == {"idle", "docs", "drop", "pdf", "xls", "tidy", "save"}
Request ==
    [kind: Kinds, at: Places, n: 0..MaxRequests, copy: Row, ok: BOOLEAN,
     pdf: Ids \cup {None}, xls: Ids \cup {None},
     clean: BOOLEAN]   \* no other request meanwhile, no failure (for properties)

TypeOK ==
    /\ exists \in BOOLEAN
    /\ row \in Row
    /\ disk \in [Clients -> Data \cup {None}]
    /\ drive \in [Ids -> DriveFile \cup {None}]
    /\ holder \in Users \cup {None}
    /\ req \in [Users -> Request]
    /\ started \in 0..MaxRequests

FirstClient == CHOOSE c \in Clients : TRUE
NewRow ==
    [bd |-> [rev |-> 0, client |-> FirstClient], client |-> FirstClient,
     status |-> "draft", pdf |-> None, link |-> None, file |-> None,
     pdfLink |-> None, xlsLink |-> None, banner |-> "untracked"]
Idle ==
    [kind |-> "status", at |-> "idle", n |-> 0, copy |-> NewRow, ok |-> FALSE,
     pdf |-> None, xls |-> None, clean |-> FALSE]

(* A quote with its calculation and no documents. *)
Init ==
    /\ exists = TRUE
    /\ row = NewRow
    /\ disk = [c \in Clients |-> None]
    /\ drive = [i \in Ids |-> None]
    /\ holder = None
    /\ req = [u \in Users |-> Idle]
    /\ started = 0

-----------------------------------------------------------------------------
(* A request arrives and loads the row (404 without one).                  *)

FirstPlace(kind) ==
    CASE kind \in Generators -> "docs"
      [] kind = "delete" -> "drop"
      [] OTHER -> "save"

Send(u) ==
    /\ req[u].at = "idle"
    /\ exists
    /\ started < MaxRequests
    /\ \E kind \in Offers :
          req' = [v \in Users |->
                    IF v # u THEN [req[v] EXCEPT !.clean = FALSE]
                    ELSE [kind |-> kind, at |-> FirstPlace(kind), n |-> started + 1,
                          copy |-> row, ok |-> FALSE, pdf |-> None, xls |-> None,
                          clean |-> \A v2 \in Users : req[v2].at = "idle"]]
    /\ started' = started + 1
    /\ UNCHANGED <<exists, row, disk, drive, holder>>

Goes(u, at) == [req EXCEPT ![u] = [@ EXCEPT !.at = at]]
Fails(u, at) == [req EXCEPT ![u] = [@ EXCEPT !.at = at, !.clean = FALSE]]
Done(u) == [req EXCEPT ![u] = Idle]

(* An UPDATE of the row waits for the transaction that holds it. *)
CanWrite(u) == holder \in {None, u}

-----------------------------------------------------------------------------
(* generate_documents: both files under the name of the client, from the   *)
(* breakdown; regenerate takes the client from its column.                 *)

Written(s) ==
    IF s.kind = "regenerate" THEN [s.copy.bd EXCEPT !.client = s.copy.client]
    ELSE s.copy.bd

OnDisk(s) == [disk EXCEPT ![Written(s).client] = Written(s)]

AfterDocs == [validate |-> "drop", regenerate |-> "drop", generate |-> "xls", chat |-> "pdf"]

(* The tool has updated the breakdown just before: it takes the lock. *)
TakeRow(u) ==
    IF req[u].kind = "chat" /\ exists
    THEN CanWrite(u) /\ holder' = u
    ELSE UNCHANGED holder

WriteDocs(u) ==
    LET s == req[u] IN
    /\ s.at = "docs"
    /\ TakeRow(u)
    /\ disk' = OnDisk(s)
    /\ req' = [req EXCEPT ![u] = [s EXCEPT !.at = AfterDocs[s.kind], !.ok = TRUE]]
    /\ UNCHANGED <<exists, row, drive, started>>

(* The PDF or the Excel cannot be rendered; the other may be on disk. The  *)
(* endpoints answer 500, but validate saves, and the tool keeps the data.  *)
DocsFail(u) ==
    LET s == req[u] IN
    /\ s.at = "docs"
    /\ TakeRow(u)
    /\ disk' \in {disk, OnDisk(s)}
    /\ req' = IF s.kind \in {"validate", "chat"} THEN Fails(u, "save") ELSE Done(u)
    /\ UNCHANGED <<exists, row, drive, started>>

-----------------------------------------------------------------------------
(* Drive. Deleting is best effort; an upload deletes what has its name in  *)
(* its folder, as far as it can, and creates the file, or fails.           *)

Without(files, gone) == [i \in Ids |-> IF i \in gone THEN None ELSE files[i]]

DropOld(u) ==
    LET s == req[u] IN
    /\ s.at = "drop" /\ s.kind \in {"validate", "regenerate"}
    /\ drive' \in {drive, Without(drive, {s.copy.file})}
    /\ req' = Goes(u, IF s.kind = "validate" THEN "xls" ELSE "pdf")
    /\ UNCHANGED <<exists, row, disk, holder, started>>

Namesakes(f) ==
    {i \in Ids : drive[i] # None /\ drive[i].name = f.name
                 /\ drive[i].folder = f.folder /\ drive[i].ext = f.ext}

Cleared(f) == {drive, Without(drive, Namesakes(f))}

AfterUpload(s, ext) ==
    IF ext = "pdf" THEN "xls" ELSE IF s.kind = "chat" THEN "drop" ELSE "save"

Upload(u, f) ==
    LET s == req[u]
        id == IF f.ext = "pdf" THEN PdfId(s.n) ELSE XlsId(s.n)
        next == AfterUpload(s, f.ext)
    IN
    /\ \/ /\ drive' \in {[files EXCEPT ![id] = f] : files \in Cleared(f)}
          /\ req' = [req EXCEPT ![u] = IF f.ext = "pdf"
                                      THEN [s EXCEPT !.at = next, !.pdf = id]
                                      ELSE [s EXCEPT !.at = next, !.xls = id]]
       \/ /\ drive' \in Cleared(f)
          /\ req' = Fails(u, next)
    /\ UNCHANGED <<exists, row, disk, holder, started>>

(* upload_single_file_to_drive: the file just written, in the client's     *)
(* folder.                                                                 *)
OwnFile(s, ext) ==
    [name |-> Written(s).client, folder |-> "client", ext |-> ext,
     holds |-> disk[Written(s).client]]

UploadOwn(u) ==
    LET s == req[u] IN
    /\ s.kind \in {"regenerate", "chat"}
    /\ disk[Written(s).client] # None
    /\ \E ext \in {"pdf", "xls"} : s.at = ext /\ Upload(u, OwnFile(s, ext))

(* upload_to_drive: the first Excel of the directory, in the month's folder. *)
UploadAny(u) ==
    /\ req[u].kind \in {"validate", "generate"}
    /\ req[u].at = "xls"
    /\ \E c \in Clients :
          /\ disk[c] # None
          /\ Upload(u, [name |-> c, folder |-> "month", ext |-> "xls", holds |-> disk[c]])

(* The directory was deleted meanwhile. *)
NothingToUpload(u) ==
    LET s == req[u] IN
    /\ s.at \in {"pdf", "xls"}
    /\ IF s.kind \in {"regenerate", "chat"} THEN disk[Written(s).client] = None
       ELSE \A c \in Clients : disk[c] = None
    /\ req' = Fails(u, AfterUpload(s, s.at))
    /\ UNCHANGED <<exists, row, disk, drive, holder, started>>

First(s) == IF s.pdf # None THEN s.pdf ELSE s.xls

(* The tool deletes the old file only after a new one is up. *)
DropReplaced(u) ==
    LET s == req[u] IN
    /\ s.at = "drop" /\ s.kind = "chat"
    /\ drive' \in IF First(s) = None THEN {drive}
                  ELSE {drive, Without(drive, {s.copy.file})}
    /\ req' = Goes(u, "save")
    /\ UNCHANGED <<exists, row, disk, holder, started>>

-----------------------------------------------------------------------------
(* The UPDATE at the end. Touching the row leaves tracked documents        *)
(* outdated, whatever was changed; an entry in change_history clears that. *)

Touch(r) == [r EXCEPT !.banner = IF @ = "clear" THEN "outdated" ELSE @]
Latest(new, old) == IF new # None THEN new ELSE old

MutantValidated(s, r) ==
    [Touch(r) EXCEPT !.status = "validated", !.pdf = Written(s).client,
                     !.link = Latest(s.xls, @), !.file = Latest(s.xls, @)]
Validated(s, r) ==
    [Touch(r) EXCEPT !.status = "validated",
                     !.pdf = IF s.ok THEN Written(s).client ELSE None,
                     !.link = Latest(s.xls, @), !.file = Latest(s.xls, @)]

MutantGenerated(s, r) ==
    [Touch(r) EXCEPT !.status = "validated", !.pdf = Written(s).client,
                     !.file = s.xls]
Generated(s, r) ==
    [Touch(r) EXCEPT !.status = "validated", !.pdf = Written(s).client,
                     !.link = s.xls, !.file = s.xls]

MutantRegenerated(s, r) ==
    [r EXCEPT !.banner = "clear", !.pdf = Written(s).client,
              !.link = Latest(First(s), @), !.file = Latest(First(s), @)]
Regenerated(s, r) ==
    [r EXCEPT !.banner = "clear", !.pdf = Written(s).client,
              !.link = Latest(First(s), @),
              !.file = IF First(s) # None THEN s.pdf ELSE @,
              !.pdfLink = Latest(s.pdf, @), !.xlsLink = Latest(s.xls, @)]

(* The tool writes the breakdown of its copy back, files or no files. *)
Promoted(s, r) ==
    IF s.copy.status \in {"draft", "pending"} THEN "validated" ELSE r.status
Told(s, r) ==
    IF ~s.ok THEN [Touch(r) EXCEPT !.bd = s.copy.bd]
    ELSE [r EXCEPT !.bd = s.copy.bd, !.banner = "clear", !.pdf = Written(s).client,
                   !.status = Promoted(s, r),
                   !.link = Latest(First(s), @), !.file = Latest(First(s), @),
                   !.pdfLink = Latest(s.pdf, @), !.xlsLink = Latest(s.xls, @)]

Transitions ==
    [draft |-> {"validated", "pending"}, pending |-> {"validated", "draft"},
     validated |-> {"sent", "draft"}, sent |-> {"validated"}]
Moved(s, r) ==
    {r} \cup {[Touch(r) EXCEPT !.status = target] : target \in Transitions[s.copy.status]}

(* PATCH: an edit of the data, or a status, unchecked. *)
Edited(s, r) ==
    {[Touch(r) EXCEPT !.client = c, !.bd = [rev |-> s.n, client |-> c]] : c \in Clients}
MutantPatched(s, r) ==
    Edited(s, r) \cup {[Touch(r) EXCEPT !.status = target] : target \in Status \cup {None}}
Patched(s, r) ==
    Edited(s, r) \cup {[Touch(r) EXCEPT !.status = target] : target \in Status}

Results(s, r) ==
    CASE s.kind = "validate" -> {Validated(s, r)}
      [] s.kind = "generate" -> {Generated(s, r)}
      [] s.kind = "regenerate" -> {Regenerated(s, r)}
      [] s.kind = "chat" -> {Told(s, r)}
      [] s.kind = "status" -> Moved(s, r)
      [] s.kind = "patch" -> Patched(s, r)

MutantRelease(u) == IF req[u].kind = "chat" /\ req[u].ok THEN None ELSE holder
Release(u) == IF holder = u THEN None ELSE holder

Save(u) ==
    LET s == req[u] IN
    /\ s.at = "save" /\ s.kind # "delete"
    /\ exists => CanWrite(u)
    /\ IF exists THEN row' \in Results(s, row) ELSE UNCHANGED row
    /\ holder' = Release(u)
    /\ req' = Done(u)
    /\ UNCHANGED <<exists, disk, drive, started>>

-----------------------------------------------------------------------------
(* delete_quote: the Drive file, the directory, and then the row. *)

DropDeleted(u) ==
    LET s == req[u] IN
    /\ s.at = "drop" /\ s.kind = "delete"
    /\ drive' \in {drive, Without(drive, {s.copy.file})}
    /\ req' = Goes(u, "tidy")
    /\ UNCHANGED <<exists, row, disk, holder, started>>

RemoveDirectory(u) ==
    /\ req[u].at = "tidy"
    /\ disk' \in {disk, [c \in Clients |-> None]}
    /\ req' = Goes(u, "save")
    /\ UNCHANGED <<exists, row, drive, holder, started>>

DeleteRow(u) ==
    /\ req[u].at = "save" /\ req[u].kind = "delete"
    /\ exists => CanWrite(u)
    /\ exists' = FALSE
    /\ req' = Done(u)
    /\ UNCHANGED <<row, disk, drive, holder, started>>

(* mark_as_read: an UPDATE of is_read, and so of updated_at. *)
MarkAsRead ==
    /\ exists /\ holder = None
    /\ row' = Touch(row)
    /\ UNCHANGED <<exists, disk, drive, holder, req, started>>

Step(u) ==
    \/ WriteDocs(u) \/ DocsFail(u)
    \/ DropOld(u) \/ UploadOwn(u) \/ UploadAny(u) \/ NothingToUpload(u)
    \/ DropReplaced(u) \/ Save(u)
    \/ DropDeleted(u) \/ RemoveDirectory(u) \/ DeleteRow(u)

Next == MarkAsRead \/ \E u \in Users : Send(u) \/ Step(u)

Spec == Init /\ [][Next]_vars

(* Drive calls end with an answer or an error; a waiting UPDATE gets the   *)
(* lock when its holder commits.                                           *)
FairSpec == Spec /\ \A u \in Users : WF_vars(Step(u))

-----------------------------------------------------------------------------
(* Properties.                                                             *)

(* The PDF a quote offers is on disk, whatever requests overlap and fail;  *)
(* a deletion under way has taken the directory before the row.            *)
Deleting == \E u \in Users : req[u].kind = "delete" /\ req[u].at = "save"
PdfServed == exists /\ ~Deleting /\ row.pdf # None => disk[row.pdf] # None

(* Whatever broken links, stale files or deleted ids it starts from, a     *)
(* generation that meets no failure and no other request leaves the quote  *)
(* with the documents of its data and a link that works.                   *)
CleanEnd(u, kinds) == Save(u) /\ req[u].clean /\ req[u].kind \in kinds /\ exists
CleanServes ==
    [][\A u \in Users : CleanEnd(u, Generators) =>
          /\ row'.pdf # None /\ disk[row'.pdf].rev = row'.bd.rev
          /\ row'.link # None /\ drive[row'.link] # None]_vars

(* regenerate repairs more ("PR #38"): each of the three links is a file   *)
(* with the current data, and the warning of an outdated PDF is gone.      *)
RegenerateHeals ==
    [][\A u \in Users : CleanEnd(u, {"regenerate"}) =>
          /\ row'.banner = "clear"
          /\ \A id \in {row'.link, row'.pdfLink, row'.xlsLink} :
                id # None /\ drive[id] # None /\ drive[id].holds.rev = row'.bd.rev]_vars

(* Every request ends: the tool holds the lock of the row over its uploads *)
(* and gives it back on every path, so the others are not kept waiting.    *)
RequestsEnd == \A u \in Users : req[u].at # "idle" ~> req[u].at = "idle"

(* Statements of the comments the code does not keep. *)

(* "On regeneration (already validated/sent), preserve current status":    *)
(* the tool leaves a sent quote sent.                                      *)
SentKept ==
    [][\A u \in Users :
          Save(u) /\ req[u].kind = "chat" /\ row.status = "sent" => row'.status = "sent"]_vars

(* "Preserve existing drive_url if new upload fails": the link preserved   *)
(* is one that works.                                                      *)
LinkPreserved ==
    exists /\ row.link # None /\ (\A u \in Users : req[u].at = "idle")
        => drive[row.link] # None
=============================================================================
