------------------------- MODULE QuoteDocuments_proofs -------------------------
(***************************************************************************)
(* What holds of QuoteDocuments for any number of tabs, clients and        *)
(* requests: the types, the PDF a quote offers, and what a generation      *)
(* leaves behind that met no failure and no other request.                 *)
(*                                                                         *)
(* The inductive invariant has one conjunct per reason: a request only is  *)
(* where its handler takes it (PathsInv), the ids it uploads under are its *)
(* own and younger than the ids of the row it loaded (NumbersInv), what it *)
(* wrote is on disk until the directory goes (ServedInv), and a request    *)
(* alone so far finds row, disk and Drive as it left them (CleanInv).      *)
(***************************************************************************)
EXTENDS QuoteDocuments, TLAPS

USE OffersAssumption, NoneAssumption

Active(u) == req[u].at # "idle"

PathsInv ==
    \A u \in Users :
        /\ req[u].at \in {"docs", "xls"} => req[u].kind \in Generators
        /\ req[u].at = "pdf" => req[u].kind \in {"regenerate", "chat"}
        /\ req[u].at = "drop" => req[u].kind \in {"validate", "regenerate", "chat", "delete"}
        /\ req[u].at = "tidy" => req[u].kind = "delete"
        /\ req[u].kind \in {"generate", "regenerate"} /\ req[u].at \notin {"idle", "docs"}
              => req[u].ok

OwnIds(s) == s.pdf \in {None, PdfId(s.n)} /\ s.xls \in {None, XlsId(s.n)}

NumbersInv ==
    /\ row.file # None => row.file <= 2 * started
    /\ \A u \in Users : Active(u) =>
          /\ req[u].n \in 1..started
          /\ req[u].copy.file # None => req[u].copy.file < PdfId(req[u].n)
          /\ OwnIds(req[u])

IInv == TypeOK /\ PathsInv /\ NumbersInv

-----------------------------------------------------------------------------
(* Types of what the handlers compute.                                     *)

LEMMA IdsAreIds ==
    ASSUME NEW n \in 1..MaxRequests PROVE PdfId(n) \in Ids /\ XlsId(n) \in Ids
BY DEF Ids, PdfId, XlsId

LEMMA StartTypes == NewRow \in Row /\ Idle \in Request
<1>1. FirstClient \in Clients
  BY DEF FirstClient
<1>2. NewRow \in Row
  BY <1>1 DEF NewRow, Row, Data, Status
<1> QED BY <1>2 DEF Idle, Request, Kinds, Places

LEMMA WrittenType == ASSUME NEW s \in Request PROVE Written(s) \in Data
BY DEF Written, Request, Row, Data

LEMMA ResultsType ==
    ASSUME NEW s \in Request, NEW r \in Row, NEW new \in Results(s, r), s.kind # "delete"
    PROVE  new \in Row
<1>1. Written(s).client \in Clients
  BY WrittenType DEF Data
<1>2. Touch(r) \in Row
  BY DEF Touch, Row
<1>3. First(s) \in Ids \cup {None} /\ s.pdf \in Ids \cup {None} /\ s.xls \in Ids \cup {None}
  BY DEF First, Request
<1>4. Promoted(s, r) \in Status /\ "validated" \in Status
  BY DEF Promoted, Row, Status
<1>5. \A old \in Ids \cup {None}, id \in Ids \cup {None} : Latest(id, old) \in Ids \cup {None}
  BY DEF Latest
<1>6. s.copy.bd \in Data /\ s.copy.status \in Status
  BY DEF Request, Row
<1> HIDE DEF Written, Touch, First, Promoted, Latest, Ids, Data, Status
<1>7. Validated(s, r) \in Row
  BY <1>1, <1>2, <1>3, <1>4, <1>5 DEF Validated, Row
<1>8. Generated(s, r) \in Row
  BY <1>1, <1>2, <1>3, <1>4 DEF Generated, Row
<1>9. Regenerated(s, r) \in Row
  BY <1>1, <1>3, <1>5 DEF Regenerated, Row
<1>10. Told(s, r) \in Row
  <2>1. CASE ~s.ok
    BY <1>2, <1>6, <2>1 DEF Told, Row
  <2>2. CASE s.ok
    BY <1>1, <1>3, <1>4, <1>5, <1>6, <2>2 DEF Told, Row
  <2> QED BY <2>1, <2>2
<1>11. Moved(s, r) \subseteq Row
  <2>1. Transitions[s.copy.status] \subseteq Status
    BY <1>6 DEF Transitions, Status
  <2> QED BY <1>2, <2>1 DEF Moved, Row
<1>12. Patched(s, r) \subseteq Row
  <2>1. ASSUME NEW c \in Clients PROVE [rev |-> s.n, client |-> c] \in Data
    BY DEF Request, Data
  <2>2. Edited(s, r) \subseteq Row
    <3>1. ASSUME NEW c \in Clients
          PROVE  [Touch(r) EXCEPT !.client = c, !.bd = [rev |-> s.n, client |-> c]] \in Row
      BY <1>2, <2>1 DEF Row
    <3> QED BY <3>1 DEF Edited
  <2>3. ASSUME NEW target \in Status PROVE [Touch(r) EXCEPT !.status = target] \in Row
    BY <1>2 DEF Row
  <2> QED BY <2>2, <2>3 DEF Patched
<1>13. s.kind \in {"validate", "generate", "regenerate", "chat", "status", "patch"}
  BY DEF Request, Kinds, Generators
<1> QED BY <1>7, <1>8, <1>9, <1>10, <1>11, <1>12, <1>13 DEF Results

LEMMA GoesType ==
    ASSUME TypeOK, NEW u \in Users, NEW at \in Places
    PROVE  /\ Goes(u, at) \in [Users -> Request]
           /\ Fails(u, at) \in [Users -> Request]
           /\ Done(u) \in [Users -> Request]
<1>1. /\ [req[u] EXCEPT !.at = at] \in Request
      /\ [req[u] EXCEPT !.at = at, !.clean = FALSE] \in Request
  BY DEF TypeOK, Request
<1> QED BY <1>1, StartTypes DEF TypeOK, Goes, Fails, Done

LEMMA WithoutType ==
    ASSUME TypeOK, NEW gone
    PROVE  Without(drive, gone) \in [Ids -> DriveFile \cup {None}]
BY DEF TypeOK, Without

LEMMA UploadTypes ==
    ASSUME TypeOK, NEW u \in Users, req[u].n \in 1..MaxRequests, NEW f \in DriveFile,
           Upload(u, f)
    PROVE  TypeOK'
<1> DEFINE id == IF f.ext = "pdf" THEN PdfId(req[u].n) ELSE XlsId(req[u].n)
           next == IF f.ext = "pdf" THEN "xls" ELSE IF req[u].kind = "chat" THEN "drop" ELSE "save"
<1>1. id \in Ids /\ next \in Places
  BY IdsAreIds DEF Places
<1>2. Cleared(f) \subseteq [Ids -> DriveFile \cup {None}]
  BY WithoutType DEF Cleared, TypeOK
<1>3. /\ [req[u] EXCEPT !.at = next, !.pdf = id] \in Request
      /\ [req[u] EXCEPT !.at = next, !.xls = id] \in Request
  BY <1>1 DEF TypeOK, Request
<1>4. drive' \in [Ids -> DriveFile \cup {None}]
  BY <1>1, <1>2 DEF Upload, AfterUpload
<1>5. req' \in [Users -> Request]
  <2>1. CASE req' = Fails(u, next)
    BY <1>1, <2>1, GoesType
  <2>2. CASE req' = [req EXCEPT ![u] = IF f.ext = "pdf"
                                       THEN [req[u] EXCEPT !.at = next, !.pdf = id]
                                       ELSE [req[u] EXCEPT !.at = next, !.xls = id]]
    BY <1>3, <2>2 DEF TypeOK
  <2> QED BY <2>1, <2>2 DEF Upload, AfterUpload
<1> QED BY <1>4, <1>5 DEF Upload, TypeOK

LEMMA SendType == ASSUME TypeOK, NEW u \in Users, Send(u) PROVE TypeOK'
<1>1. PICK kind \in Offers :
        req' = [v \in Users |->
                  IF v # u THEN [req[v] EXCEPT !.clean = FALSE]
                  ELSE [kind |-> kind, at |-> FirstPlace(kind), n |-> started + 1,
                        copy |-> row, ok |-> FALSE, pdf |-> None, xls |-> None,
                        clean |-> \A v2 \in Users : req[v2].at = "idle"]]
  BY DEF Send
<1>2. started + 1 \in 0..MaxRequests
  BY DEF Send, TypeOK
<1>3. FirstPlace(kind) \in Places /\ kind \in Kinds
  BY DEF FirstPlace, Places, Kinds, Generators
<1>4. ASSUME NEW v \in Users PROVE [req[v] EXCEPT !.clean = FALSE] \in Request
  BY DEF TypeOK, Request
<1>5. req' \in [Users -> Request]
  BY <1>1, <1>2, <1>3, <1>4 DEF TypeOK, Request
<1> QED BY <1>2, <1>5 DEF Send, TypeOK

LEMMA StepType == ASSUME IInv, NEW u \in Users, Step(u) PROVE TypeOK'
<1> USE DEF IInv
<1>0. /\ req[u] \in Request
      /\ Written(req[u]) \in Data /\ Written(req[u]).client \in Clients
      /\ OnDisk(req[u]) \in [Clients -> Data \cup {None}]
      /\ req[u].at # "idle" => req[u].n \in 1..MaxRequests
  <2>1. Written(req[u]) \in Data /\ Written(req[u]).client \in Clients
    BY WrittenType DEF TypeOK, Data
  <2> QED BY <2>1 DEF TypeOK, OnDisk, NumbersInv, Active
<1>1. CASE WriteDocs(u)
  <2>1. AfterDocs[req[u].kind] \in Places
    BY <1>1 DEF WriteDocs, PathsInv, AfterDocs, Generators, Places
  <2>2. [req[u] EXCEPT !.at = AfterDocs[req[u].kind], !.ok = TRUE] \in Request
    BY <1>0, <2>1 DEF Request
  <2>3. holder' \in Users \cup {None}
    BY <1>1 DEF WriteDocs, TakeRow, TypeOK
  <2> QED BY <1>0, <1>1, <2>2, <2>3 DEF WriteDocs, TypeOK
<1>2. CASE DocsFail(u)
  <2>1. holder' \in Users \cup {None}
    BY <1>2 DEF DocsFail, TakeRow, TypeOK
  <2>2. req' \in [Users -> Request]
    BY <1>2, GoesType DEF DocsFail, Places
  <2> QED BY <1>0, <1>2, <2>1, <2>2 DEF DocsFail, TypeOK
<1>3. CASE DropOld(u) \/ DropReplaced(u) \/ DropDeleted(u)
  <2>1. drive' \in [Ids -> DriveFile \cup {None}]
    BY <1>3, WithoutType DEF DropOld, DropReplaced, DropDeleted, TypeOK
  <2>2. req' \in [Users -> Request]
    BY <1>3, GoesType DEF DropOld, DropReplaced, DropDeleted, Places
  <2> QED BY <1>3, <2>1, <2>2 DEF DropOld, DropReplaced, DropDeleted, TypeOK
<1>4. CASE UploadOwn(u)
  <2>1. PICK ext \in {"pdf", "xls"} : req[u].at = ext /\ Upload(u, OwnFile(req[u], ext))
    BY <1>4 DEF UploadOwn
  <2>2. disk[Written(req[u]).client] \in Data
    BY <1>0, <1>4 DEF UploadOwn, TypeOK
  <2>3. OwnFile(req[u], ext) \in DriveFile
    BY <1>0, <2>2 DEF OwnFile, DriveFile
  <2> QED BY <1>0, <2>1, <2>3, UploadTypes
<1>5. CASE UploadAny(u)
  <2>1. PICK c \in Clients :
          /\ disk[c] # None
          /\ Upload(u, [name |-> c, folder |-> "month", ext |-> "xls", holds |-> disk[c]])
    BY <1>5 DEF UploadAny
  <2>2. [name |-> c, folder |-> "month", ext |-> "xls", holds |-> disk[c]] \in DriveFile
    BY <2>1 DEF TypeOK, DriveFile
  <2> QED BY <1>0, <1>5, <2>1, <2>2, UploadTypes DEF UploadAny
<1>6. CASE NothingToUpload(u)
  BY <1>6, GoesType DEF NothingToUpload, AfterUpload, Places, TypeOK
<1>7. CASE Save(u)
  <2>1. row' \in Row
    BY <1>0, <1>7, ResultsType DEF Save, TypeOK
  <2>2. holder' \in Users \cup {None}
    BY <1>7 DEF Save, Release, TypeOK
  <2> QED BY <1>7, <2>1, <2>2, GoesType DEF Save, TypeOK, Places
<1>8. CASE RemoveDirectory(u)
  BY <1>8, GoesType DEF RemoveDirectory, TypeOK, Places
<1>9. CASE DeleteRow(u)
  BY <1>9, GoesType DEF DeleteRow, TypeOK, Places
<1> QED BY <1>1, <1>2, <1>3, <1>4, <1>5, <1>6, <1>7, <1>8, <1>9 DEF Step

-----------------------------------------------------------------------------
(* Who moves: a step of a request touches no other, and a new one only     *)
(* tells the others that they are not alone.                               *)

Same(new, old) ==
    /\ new.kind = old.kind /\ new.n = old.n /\ new.copy = old.copy
    /\ new.ok = old.ok /\ new.pdf = old.pdf /\ new.xls = old.xls

LEMMA Moves ==
    ASSUME TypeOK, NEW u \in Users, NEW at \in Places
    PROVE  /\ Same(Goes(u, at)[u], req[u]) /\ Goes(u, at)[u].at = at
           /\ Goes(u, at)[u].clean = req[u].clean
           /\ Same(Fails(u, at)[u], req[u]) /\ Fails(u, at)[u].at = at
           /\ Fails(u, at)[u].clean = FALSE
           /\ Done(u)[u] = Idle
<1>1. req[u] \in Request
  BY DEF TypeOK
<1>2. /\ Goes(u, at)[u] = [req[u] EXCEPT !.at = at]
      /\ Fails(u, at)[u] = [req[u] EXCEPT !.at = at, !.clean = FALSE]
      /\ Done(u)[u] = Idle
  BY DEF Goes, Fails, Done, TypeOK
<1> QED BY <1>1, <1>2 DEF Same, Request

LEMMA EndMoves == ASSUME TypeOK, NEW u \in Users PROVE Done(u)[u] = Idle
BY DEF Done, TypeOK

LEMMA UploadMoves ==
    ASSUME TypeOK, NEW u \in Users, NEW f, Upload(u, f),
           NEW id, id = IF f.ext = "pdf" THEN PdfId(req[u].n) ELSE XlsId(req[u].n)
    PROVE  /\ req'[u].at = IF f.ext = "pdf" THEN "xls"
                           ELSE IF req[u].kind = "chat" THEN "drop" ELSE "save"
           /\ req'[u].kind = req[u].kind /\ req'[u].n = req[u].n
           /\ req'[u].copy = req[u].copy /\ req'[u].ok = req[u].ok
           /\ req'[u].clean => req[u].clean
           /\ req'[u].pdf \in {req[u].pdf, IF f.ext = "pdf" THEN id ELSE req[u].pdf}
           /\ req'[u].xls \in {req[u].xls, IF f.ext = "pdf" THEN req[u].xls ELSE id}
           /\ req'[u].clean =>
                 /\ \E files \in Cleared(f) : drive' = [files EXCEPT ![id] = f]
                 /\ IF f.ext = "pdf" THEN req'[u].pdf = id ELSE req'[u].xls = id
<1> DEFINE next == IF f.ext = "pdf" THEN "xls" ELSE IF req[u].kind = "chat" THEN "drop" ELSE "save"
<1>1. req[u] \in Request
  BY DEF TypeOK
<1>2. CASE req' = Fails(u, next)
  BY <1>2, Moves DEF Same, Places
<1>3. CASE /\ req' = [req EXCEPT ![u] = IF f.ext = "pdf"
                                       THEN [req[u] EXCEPT !.at = next, !.pdf = id]
                                       ELSE [req[u] EXCEPT !.at = next, !.xls = id]]
           /\ drive' \in {[files EXCEPT ![id] = f] : files \in Cleared(f)}
  <2>1. req'[u] = IF f.ext = "pdf" THEN [req[u] EXCEPT !.at = next, !.pdf = id]
                  ELSE [req[u] EXCEPT !.at = next, !.xls = id]
    BY <1>3 DEF TypeOK
  <2>2. \E files \in Cleared(f) : drive' = [files EXCEPT ![id] = f]
    BY <1>3
  <2>3. CASE f.ext = "pdf"
    BY <1>1, <2>1, <2>2, <2>3 DEF Request
  <2>4. CASE f.ext # "pdf"
    BY <1>1, <2>1, <2>2, <2>4 DEF Request
  <2> QED BY <2>3, <2>4
<1> QED BY <1>2, <1>3 DEF Upload, AfterUpload

LEMMA OthersKept ==
    ASSUME TypeOK, NEW u \in Users, Step(u), NEW v \in Users \ {u}
    PROVE  req'[v] = req[v]
<1>1. \A at : Goes(u, at)[v] = req[v] /\ Fails(u, at)[v] = req[v] /\ Done(u)[v] = req[v]
  BY DEF Goes, Fails, Done, TypeOK
<1>2. CASE WriteDocs(u)
  BY <1>2 DEF WriteDocs, TypeOK
<1>3. ASSUME NEW f, Upload(u, f) PROVE req'[v] = req[v]
  BY <1>1, <1>3 DEF Upload, TypeOK
<1>4. CASE UploadOwn(u) \/ UploadAny(u)
  BY <1>3, <1>4 DEF UploadOwn, UploadAny
<1>5. CASE DocsFail(u) \/ DropOld(u) \/ NothingToUpload(u) \/ DropReplaced(u)
  BY <1>1, <1>5 DEF DocsFail, DropOld, NothingToUpload, DropReplaced
<1>6. CASE Save(u) \/ DropDeleted(u) \/ RemoveDirectory(u) \/ DeleteRow(u)
  BY <1>1, <1>6 DEF Save, DropDeleted, RemoveDirectory, DeleteRow
<1> QED BY <1>2, <1>4, <1>5, <1>6 DEF Step

LEMMA SendMoves ==
    ASSUME TypeOK, NEW u \in Users, Send(u)
    PROVE  /\ \A v \in Users \ {u} : req'[v] = [req[v] EXCEPT !.clean = FALSE]
           /\ req'[u].kind \in Kinds /\ req'[u].at = FirstPlace(req'[u].kind)
           /\ req'[u].n = started + 1 /\ req'[u].copy = row
           /\ req'[u].ok = FALSE /\ req'[u].pdf = None /\ req'[u].xls = None
           /\ req'[u].clean = (\A v \in Users : req[v].at = "idle")
<1>1. PICK kind \in Offers :
        req' = [v \in Users |->
                  IF v # u THEN [req[v] EXCEPT !.clean = FALSE]
                  ELSE [kind |-> kind, at |-> FirstPlace(kind), n |-> started + 1,
                        copy |-> row, ok |-> FALSE, pdf |-> None, xls |-> None,
                        clean |-> \A v2 \in Users : req[v2].at = "idle"]]
  BY DEF Send
<1>2. req'[u] = [kind |-> kind, at |-> FirstPlace(kind), n |-> started + 1,
                 copy |-> row, ok |-> FALSE, pdf |-> None, xls |-> None,
                 clean |-> \A v2 \in Users : req[v2].at = "idle"]
  BY <1>1
<1>3. \A v \in Users \ {u} : req'[v] = [req[v] EXCEPT !.clean = FALSE]
  BY <1>1
<1>4. kind \in Kinds
  OBVIOUS
<1> QED BY <1>2, <1>3, <1>4

-----------------------------------------------------------------------------
(* A request is where its handler takes it.                                *)

PathOK(s) ==
    /\ s.at \in {"docs", "xls"} => s.kind \in Generators
    /\ s.at = "pdf" => s.kind \in {"regenerate", "chat"}
    /\ s.at = "drop" => s.kind \in {"validate", "regenerate", "chat", "delete"}
    /\ s.at = "tidy" => s.kind = "delete"
    /\ s.kind \in {"generate", "regenerate"} /\ s.at \notin {"idle", "docs"} => s.ok

LEMMA PathStep ==
    ASSUME TypeOK, PathsInv, NEW u \in Users, Step(u) PROVE PathOK(req'[u])
<1> USE DEF PathOK, Generators
<1>1. PathOK(req[u]) /\ PathOK(Idle)
  BY DEF PathsInv, Idle
<1>2. CASE WriteDocs(u)
  <2>1. req'[u] = [req[u] EXCEPT !.at = AfterDocs[req[u].kind], !.ok = TRUE]
    BY <1>2 DEF WriteDocs, TypeOK
  <2>2. req[u] \in Request /\ req[u].kind \in Generators
    BY <1>1, <1>2 DEF WriteDocs, TypeOK
  <2>3. /\ req'[u].kind = req[u].kind /\ req'[u].ok
        /\ req'[u].at = AfterDocs[req[u].kind]
    BY <2>1, <2>2 DEF Request
  <2> QED BY <2>2, <2>3 DEF AfterDocs
<1>3. CASE DocsFail(u)
  <2>1. CASE req' = Fails(u, "save") /\ req[u].kind \in {"validate", "chat"}
    BY <1>1, <2>1, Moves DEF Same, Places
  <2>2. CASE req' = Done(u)
    BY <1>1, <2>2, EndMoves
  <2> QED BY <1>3, <2>1, <2>2 DEF DocsFail
<1>4. CASE DropOld(u) \/ DropReplaced(u) \/ DropDeleted(u)
  <2>1. CASE DropOld(u)
    BY <1>1, <2>1, Moves DEF DropOld, Same, Places
  <2>2. CASE DropReplaced(u)
    BY <1>1, <2>2, Moves DEF DropReplaced, Same, Places
  <2>3. CASE DropDeleted(u)
    BY <1>1, <2>3, Moves DEF DropDeleted, Same, Places
  <2> QED BY <1>4, <2>1, <2>2, <2>3
<1>5. CASE UploadOwn(u)
  <2>1. PICK ext \in {"pdf", "xls"} : req[u].at = ext /\ Upload(u, OwnFile(req[u], ext))
    BY <1>5 DEF UploadOwn
  <2>2. OwnFile(req[u], ext).ext = ext
    BY DEF OwnFile
  <2> QED BY <1>1, <1>5, <2>1, <2>2, UploadMoves DEF UploadOwn
<1>6. CASE UploadAny(u)
  <2>1. PICK c \in Clients : Upload(u, [name |-> c, folder |-> "month", ext |-> "xls", holds |-> disk[c]])
    BY <1>6 DEF UploadAny
  <2>2. [name |-> c, folder |-> "month", ext |-> "xls", holds |-> disk[c]].ext # "pdf"
    OBVIOUS
  <2> QED BY <1>1, <1>6, <2>1, <2>2, UploadMoves DEF UploadAny
<1>7. CASE NothingToUpload(u)
  <2>1. CASE req[u].at = "pdf"
    <3>1. req' = Fails(u, "xls")
      BY <1>7, <2>1 DEF NothingToUpload, AfterUpload
    <3> QED BY <1>1, <2>1, <3>1, Moves DEF Same, Places
  <2>2. CASE req[u].at = "xls" /\ req[u].kind = "chat"
    <3>1. req' = Fails(u, "drop")
      BY <1>7, <2>2 DEF NothingToUpload, AfterUpload
    <3> QED BY <1>1, <2>2, <3>1, Moves DEF Same, Places
  <2>3. CASE req[u].at = "xls" /\ req[u].kind # "chat"
    <3>1. req' = Fails(u, "save")
      BY <1>7, <2>3 DEF NothingToUpload, AfterUpload
    <3> QED BY <1>1, <2>3, <3>1, Moves DEF Same, Places
  <2> QED BY <1>7, <2>1, <2>2, <2>3 DEF NothingToUpload
<1>8. CASE Save(u) \/ DeleteRow(u)
  BY <1>1, <1>8, EndMoves DEF Save, DeleteRow
<1>9. CASE RemoveDirectory(u)
  BY <1>1, <1>9, Moves DEF RemoveDirectory, Same, Places
<1> QED BY <1>2, <1>3, <1>4, <1>5, <1>6, <1>7, <1>8, <1>9 DEF Step

LEMMA NextPaths == TypeOK /\ PathsInv /\ [Next]_vars => PathsInv'
<1> SUFFICES ASSUME TypeOK, PathsInv, [Next]_vars PROVE PathsInv'
  OBVIOUS
<1>1. \A v \in Users : PathOK(req[v])
  BY DEF PathsInv, PathOK
<1>2. SUFFICES \A v \in Users : PathOK(req'[v])
  BY DEF PathsInv, PathOK
<1>3. ASSUME NEW u \in Users, Send(u) PROVE \A v \in Users : PathOK(req'[v])
  <2>1. PathOK(req'[u])
    BY <1>3, SendMoves DEF PathOK, FirstPlace, Kinds, Generators
  <2>2. ASSUME NEW v \in Users \ {u} PROVE PathOK(req'[v])
    <3>1. req[v] \in Request /\ req'[v] = [req[v] EXCEPT !.clean = FALSE]
      BY <1>3, SendMoves DEF TypeOK
    <3>2. Same(req'[v], req[v]) /\ req'[v].at = req[v].at
      BY <3>1 DEF Request, Same
    <3> QED BY <1>1, <3>2 DEF PathOK, Same
  <2> QED BY <2>1, <2>2
<1>4. ASSUME NEW u \in Users, Step(u) PROVE \A v \in Users : PathOK(req'[v])
  BY <1>1, <1>4, PathStep, OthersKept
<1>5. CASE MarkAsRead \/ UNCHANGED vars
  BY <1>1, <1>5 DEF MarkAsRead, vars
<1> QED BY <1>3, <1>4, <1>5 DEF Next

-----------------------------------------------------------------------------
(* A request uploads under its own ids, which no earlier request used.     *)

NumberOK(s, k) ==
    s.at # "idle" =>
        /\ s.n \in 1..k
        /\ s.copy.file # None => s.copy.file < PdfId(s.n)
        /\ OwnIds(s)

LEMMA ResultsFile ==
    ASSUME NEW s \in Request, NEW r \in Row, NEW new \in Results(s, r), s.kind # "delete"
    PROVE  new.file \in {r.file, None, s.pdf, s.xls}
<1>1. Touch(r) \in Row /\ Touch(r).file = r.file
  BY DEF Touch, Row
<1>2. First(s) \in {s.pdf, s.xls} /\ \A id, old : Latest(id, old) \in {id, old}
  BY DEF First, Latest
<1> HIDE DEF Touch, First, Latest
<1>3. Validated(s, r).file \in {r.file, s.xls}
  BY <1>1, <1>2 DEF Validated, Row
<1>4. Generated(s, r).file = s.xls
  BY <1>1 DEF Generated, Row
<1>5. Regenerated(s, r).file \in {r.file, s.pdf}
  BY DEF Regenerated, Row
<1>6. Told(s, r).file \in {r.file, s.pdf, s.xls}
  <2>1. CASE ~s.ok
    BY <1>1, <2>1 DEF Told, Row
  <2>2. CASE s.ok
    BY <1>2, <2>2 DEF Told, Row
  <2> QED BY <2>1, <2>2
<1>7. \A moved \in Moved(s, r) : moved.file = r.file
  BY <1>1 DEF Moved, Row
<1>8. \A patched \in Patched(s, r) : patched.file = r.file
  <2>1. \A c \in Clients :
          [Touch(r) EXCEPT !.client = c, !.bd = [rev |-> s.n, client |-> c]].file = r.file
    BY <1>1 DEF Row
  <2>2. \A target \in Status : [Touch(r) EXCEPT !.status = target].file = r.file
    BY <1>1 DEF Row
  <2> QED BY <2>1, <2>2 DEF Patched, Edited
<1>9. s.kind \in {"validate", "generate", "regenerate", "chat", "status", "patch"}
  BY DEF Request, Kinds, Generators
<1> QED BY <1>3, <1>4, <1>5, <1>6, <1>7, <1>8, <1>9 DEF Results

LEMMA NumberStep ==
    ASSUME TypeOK, NEW u \in Users, NumberOK(req[u], started), Step(u)
    PROVE  NumberOK(req'[u], started)
<1> USE DEF NumberOK
<1>1. ASSUME Same(req'[u], req[u]), req[u].at # "idle" PROVE NumberOK(req'[u], started)
  BY <1>1 DEF Same, OwnIds
<1>2. NumberOK(Idle, started)
  BY DEF Idle
<1>3. CASE WriteDocs(u)
  <2>1. req'[u] = [req[u] EXCEPT !.at = AfterDocs[req[u].kind], !.ok = TRUE] /\ req[u] \in Request
    BY <1>3 DEF WriteDocs, TypeOK
  <2>2. /\ req'[u].n = req[u].n /\ req'[u].copy = req[u].copy
        /\ req'[u].pdf = req[u].pdf /\ req'[u].xls = req[u].xls
    BY <2>1 DEF Request
  <2> QED BY <1>3, <2>2 DEF WriteDocs, OwnIds
<1>4. CASE DocsFail(u)
  BY <1>1, <1>2, <1>4, EndMoves, Moves DEF DocsFail, Places
<1>5. CASE DropOld(u)
  BY <1>1, <1>5, Moves DEF DropOld, Places
<1>6. CASE DropReplaced(u) \/ DropDeleted(u) \/ RemoveDirectory(u)
  BY <1>1, <1>6, Moves DEF DropReplaced, DropDeleted, RemoveDirectory, Places
<1>7. ASSUME NEW f, Upload(u, f), req[u].at # "idle" PROVE NumberOK(req'[u], started)
  BY <1>7, UploadMoves DEF OwnIds
<1>8. CASE UploadOwn(u) \/ UploadAny(u)
  BY <1>7, <1>8 DEF UploadOwn, UploadAny
<1>9. CASE NothingToUpload(u)
  <2>1. AfterUpload(req[u], req[u].at) \in Places
    BY DEF AfterUpload, Places
  <2> QED BY <1>1, <1>9, <2>1, Moves DEF NothingToUpload
<1>10. CASE Save(u) \/ DeleteRow(u)
  BY <1>2, <1>10, EndMoves DEF Save, DeleteRow
<1> QED BY <1>3, <1>4, <1>5, <1>6, <1>8, <1>9, <1>10 DEF Step

LEMMA NextNumbers == TypeOK /\ PathsInv /\ NumbersInv /\ [Next]_vars => NumbersInv'
<1> SUFFICES ASSUME TypeOK, PathsInv, NumbersInv, [Next]_vars PROVE NumbersInv'
  OBVIOUS
<1>1. \A v \in Users : NumberOK(req[v], started)
  BY DEF NumbersInv, NumberOK, Active
<1>2. SUFFICES /\ row'.file # None => row'.file <= 2 * started'
               /\ \A v \in Users : NumberOK(req'[v], started')
  BY DEF NumbersInv, NumberOK, Active, OwnIds, PdfId, XlsId
<1>3. started \in Nat /\ (row.file # None => row.file \in Int /\ row.file <= 2 * started)
  BY DEF TypeOK, NumbersInv, Row, Ids
<1>4. ASSUME NEW u \in Users, Send(u)
      PROVE  /\ row' = row /\ started' = started + 1
             /\ \A v \in Users : NumberOK(req'[v], started')
  <2>1. row' = row /\ started' = started + 1
    BY <1>4 DEF Send
  <2>2. NumberOK(req'[u], started + 1)
    <3>1. /\ req'[u].n = started + 1 /\ req'[u].copy = row
          /\ req'[u].pdf = None /\ req'[u].xls = None
      BY <1>4, SendMoves
    <3>2. started + 1 \in 1..(started + 1) /\ PdfId(started + 1) = 2 * started + 1
      BY <1>3 DEF PdfId
    <3> QED BY <1>3, <3>1, <3>2 DEF NumberOK, OwnIds
  <2>3. ASSUME NEW v \in Users \ {u} PROVE NumberOK(req'[v], started + 1)
    <3>1. req[v] \in Request /\ req'[v] = [req[v] EXCEPT !.clean = FALSE]
      BY <1>4, SendMoves DEF TypeOK
    <3>2. Same(req'[v], req[v]) /\ req'[v].at = req[v].at
      BY <3>1 DEF Request, Same
    <3> QED BY <1>1, <1>3, <3>2 DEF NumberOK, Same, OwnIds
  <2> QED BY <2>1, <2>2, <2>3
<1>5. ASSUME NEW u \in Users, Step(u)
      PROVE  /\ started' = started
             /\ row' # row => req[u].at # "idle" /\ exists /\ row' \in Results(req[u], row)
                              /\ req[u].kind # "delete"
             /\ \A v \in Users : NumberOK(req'[v], started')
  <2>1. started' = started /\ (row' = row \/ Save(u))
    BY <1>5 DEF Step, WriteDocs, DocsFail, DropOld, UploadOwn, UploadAny, Upload, NothingToUpload,
                DropReplaced, DropDeleted, RemoveDirectory, DeleteRow, Save
  <2> QED BY <1>1, <1>5, <2>1, NumberStep, OthersKept DEF Save
<1>6. ASSUME NEW u \in Users, Step(u) PROVE row'.file # None => row'.file <= 2 * started
  <2>1. CASE row' = row
    BY <1>3, <2>1
  <2>2. CASE row' # row
    <3>1. row'.file \in {row.file, None, req[u].pdf, req[u].xls}
      BY <1>5, <1>6, <2>2, ResultsFile DEF TypeOK
    <3>2. req[u].n \in 1..started /\ OwnIds(req[u])
      BY <1>1, <1>5, <1>6, <2>2 DEF NumberOK
    <3> QED BY <1>3, <3>1, <3>2 DEF OwnIds, PdfId, XlsId
  <2> QED BY <2>1, <2>2
<1>7. CASE MarkAsRead
  <2>1. row'.file = row.file
    BY <1>7 DEF MarkAsRead, Touch, TypeOK, Row
  <2> QED BY <1>1, <1>3, <1>7, <2>1 DEF MarkAsRead
<1>8. CASE UNCHANGED vars
  BY <1>1, <1>3, <1>8 DEF vars
<1> QED BY <1>3, <1>4, <1>5, <1>6, <1>7, <1>8 DEF Next

LEMMA NextType == IInv /\ [Next]_vars => TypeOK'
<1> SUFFICES ASSUME IInv, [Next]_vars PROVE TypeOK'
  OBVIOUS
<1>1. ASSUME NEW u \in Users, Send(u) \/ Step(u) PROVE TypeOK'
  BY <1>1, SendType, StepType DEF IInv
<1>2. CASE MarkAsRead
  <2>1. Touch(row) \in Row
    BY DEF Touch, Row, IInv, TypeOK
  <2> QED BY <1>2, <2>1 DEF MarkAsRead, IInv, TypeOK
<1>3. CASE UNCHANGED vars
  BY <1>3 DEF vars, IInv, TypeOK
<1> QED BY <1>1, <1>2, <1>3 DEF Next

LEMMA NextIInv == IInv /\ [Next]_vars => IInv'
BY NextType, NextPaths, NextNumbers DEF IInv

LEMMA InitIInv == Init => IInv
<1> SUFFICES ASSUME Init PROVE IInv
  OBVIOUS
<1>1. TypeOK
  BY StartTypes DEF Init, TypeOK
<1>2. PathsInv
  BY DEF Init, PathsInv, Idle
<1>3. NumbersInv
  BY DEF Init, NumbersInv, Active, Idle, NewRow
<1> QED BY <1>1, <1>2, <1>3 DEF IInv

LEMMA Invariance == Spec => []IInv
BY InitIInv, NextIInv, PTL DEF Spec

(* Row, disk, Drive and every request's copy of the row keep their types,  *)
(* whatever requests overlap and fail: a request that waits holds the data *)
(* its step needs, and its uploads have ids of their own.                  *)
THEOREM TypeCorrect == Spec => []TypeOK
<1>1. IInv => TypeOK
  BY DEF IInv
<1> QED BY Invariance, <1>1, PTL

-----------------------------------------------------------------------------
(* The documents on disk outlive the requests that wrote them, until the   *)
(* directory goes; from then on the row is deleted or about to be.         *)

Gone == ~exists \/ Deleting

ServedInv ==
    ~Gone =>
        /\ row.pdf # None => disk[row.pdf] # None
        /\ \A u \in Users : req[u].ok => disk[Written(req[u]).client] # None

LEMMA GoneStays == ASSUME TypeOK, [Next]_vars, Gone PROVE Gone'
<1>1. CASE ~exists
  <2>1. ASSUME NEW u \in Users, Send(u) \/ Step(u) PROVE exists' = exists \/ exists' = FALSE
    BY <2>1 DEF Send, Step, WriteDocs, DocsFail, DropOld, UploadOwn, UploadAny, Upload,
                NothingToUpload, DropReplaced, DropDeleted, RemoveDirectory, DeleteRow, Save
  <2>2. ASSUME MarkAsRead \/ UNCHANGED vars PROVE exists' = exists
    BY <2>2 DEF MarkAsRead, vars
  <2>3. exists' = exists \/ exists' = FALSE
    BY <2>1, <2>2 DEF Next
  <2> QED BY <1>1, <2>3 DEF Gone
<1>2. ASSUME NEW d \in Users, req[d].kind = "delete", req[d].at = "save" PROVE Gone'
  <2>1. ASSUME NEW u \in Users \ {d}, Send(u) PROVE Gone'
    <3>1. req[d] \in Request /\ req'[d] = [req[d] EXCEPT !.clean = FALSE]
      BY <2>1, SendMoves DEF TypeOK
    <3>2. req'[d].kind = "delete" /\ req'[d].at = "save"
      BY <1>2, <3>1 DEF Request
    <3> QED BY <3>2 DEF Gone, Deleting
  <2>2. ASSUME NEW u \in Users \ {d}, Step(u) PROVE Gone'
    BY <1>2, <2>2, OthersKept DEF Gone, Deleting
  <2>3. CASE Send(d) \/ Step(d)
    BY <1>2, <2>3 DEF Gone, Send, Step, WriteDocs, DocsFail, DropOld, UploadOwn, UploadAny, Upload,
                NothingToUpload, DropReplaced, DropDeleted, RemoveDirectory, DeleteRow, Save
  <2>4. CASE MarkAsRead \/ UNCHANGED vars
    BY <1>2, <2>4 DEF MarkAsRead, vars, Gone, Deleting
  <2> QED BY <2>1, <2>2, <2>3, <2>4 DEF Next
<1> QED BY <1>1, <1>2 DEF Gone, Deleting

LEMMA ResultsPdf ==
    ASSUME NEW s \in Request, NEW r \in Row, NEW new \in Results(s, r), s.kind # "delete"
    PROVE  \/ new.pdf \in {r.pdf, None}
           \/ new.pdf = Written(s).client /\ (s.ok \/ s.kind \in {"generate", "regenerate"})
<1>1. Touch(r) \in Row /\ Touch(r).pdf = r.pdf
  BY DEF Touch, Row
<1> HIDE DEF Touch, Written
<1>2. Validated(s, r).pdf = IF s.ok THEN Written(s).client ELSE None
  BY <1>1 DEF Validated, Row
<1>3. Generated(s, r).pdf = Written(s).client
  BY <1>1 DEF Generated, Row
<1>4. Regenerated(s, r).pdf = Written(s).client
  BY DEF Regenerated, Row
<1>5. Told(s, r).pdf = IF s.ok THEN Written(s).client ELSE r.pdf
  <2>1. CASE ~s.ok
    BY <1>1, <2>1 DEF Told, Row
  <2>2. CASE s.ok
    BY <2>2 DEF Told, Row
  <2> QED BY <2>1, <2>2
<1>6. \A moved \in Moved(s, r) : moved.pdf = r.pdf
  BY <1>1 DEF Moved, Row
<1>7. \A patched \in Patched(s, r) : patched.pdf = r.pdf
  <2>1. \A c \in Clients :
          [Touch(r) EXCEPT !.client = c, !.bd = [rev |-> s.n, client |-> c]].pdf = r.pdf
    BY <1>1 DEF Row
  <2>2. \A target \in Status : [Touch(r) EXCEPT !.status = target].pdf = r.pdf
    BY <1>1 DEF Row
  <2> QED BY <2>1, <2>2 DEF Patched, Edited
<1>8. s.kind \in {"validate", "generate", "regenerate", "chat", "status", "patch"}
  BY DEF Request, Kinds, Generators
<1> QED BY <1>2, <1>3, <1>4, <1>5, <1>6, <1>7, <1>8 DEF Results

(* Nothing but the removal of the directory takes documents from the disk. *)
LEMMA DiskGrows ==
    ASSUME TypeOK, PathsInv, [Next]_vars, ~Gone', NEW c \in Clients, disk[c] # None
    PROVE  disk'[c] # None
<1>1. ASSUME NEW u \in Users PROVE OnDisk(req[u])[c] # None
  <2>1. Written(req[u]) # None
    BY WrittenType DEF TypeOK
  <2> QED BY <2>1 DEF OnDisk, TypeOK
<1>2. ASSUME NEW u \in Users, RemoveDirectory(u) PROVE Gone'
  <2>1. req[u].kind = "delete"
    BY <1>2 DEF RemoveDirectory, PathsInv
  <2>2. req'[u].kind = "delete" /\ req'[u].at = "save"
    BY <1>2, <2>1, Moves DEF RemoveDirectory, Same, Places
  <2> QED BY <2>2 DEF Gone, Deleting
<1>3. ASSUME NEW u \in Users, Send(u) \/ Step(u) PROVE disk'[c] # None
  BY <1>1, <1>2, <1>3 DEF Send, Step, WriteDocs, DocsFail, DropOld, UploadOwn, UploadAny, Upload,
                NothingToUpload, DropReplaced, DropDeleted, DeleteRow, Save
<1> QED BY <1>3 DEF Next, MarkAsRead, vars

(* A request keeps what it loaded; it has documents only once it wrote them. *)
LEMMA StepServes ==
    ASSUME TypeOK, PathsInv, NEW u \in Users, Step(u), req'[u].ok
    PROVE  /\ req[u].ok \/ disk' = OnDisk(req[u])
           /\ Written(req'[u]) = Written(req[u])
<1>1. ASSUME Same(req'[u], req[u])
      PROVE  req[u].ok /\ Written(req'[u]) = Written(req[u])
  BY <1>1 DEF Same, Written
<1>2. ~Idle.ok
  BY DEF Idle
<1>3. CASE WriteDocs(u)
  <2>1. req'[u] = [req[u] EXCEPT !.at = AfterDocs[req[u].kind], !.ok = TRUE] /\ req[u] \in Request
    BY <1>3 DEF WriteDocs, TypeOK
  <2>2. req'[u].kind = req[u].kind /\ req'[u].copy = req[u].copy
    BY <2>1 DEF Request
  <2> QED BY <1>3, <2>2 DEF WriteDocs, Written
<1>4. CASE DocsFail(u)
  BY <1>1, <1>2, <1>4, EndMoves, Moves DEF DocsFail, Places
<1>5. CASE DropOld(u)
  BY <1>1, <1>5, Moves DEF DropOld, Places
<1>6. CASE DropReplaced(u) \/ DropDeleted(u) \/ RemoveDirectory(u)
  BY <1>1, <1>6, Moves DEF DropReplaced, DropDeleted, RemoveDirectory, Places
<1>7. ASSUME NEW f, Upload(u, f) PROVE req[u].ok /\ Written(req'[u]) = Written(req[u])
  BY <1>7, UploadMoves DEF Written
<1>8. CASE UploadOwn(u) \/ UploadAny(u)
  BY <1>7, <1>8 DEF UploadOwn, UploadAny
<1>9. CASE NothingToUpload(u)
  <2>1. AfterUpload(req[u], req[u].at) \in Places
    BY DEF AfterUpload, Places
  <2> QED BY <1>1, <1>9, <2>1, Moves DEF NothingToUpload
<1>10. CASE Save(u) \/ DeleteRow(u)
  BY <1>2, <1>10, EndMoves DEF Save, DeleteRow
<1> QED BY <1>3, <1>4, <1>5, <1>6, <1>8, <1>9, <1>10 DEF Step

LEMMA NextServed == IInv /\ ServedInv /\ [Next]_vars => ServedInv'
<1> SUFFICES ASSUME IInv, ServedInv, [Next]_vars, ~Gone'
             PROVE  /\ row'.pdf # None => disk'[row'.pdf] # None
                    /\ \A v \in Users : req'[v].ok => disk'[Written(req'[v]).client] # None
  BY DEF ServedInv, Gone, Deleting, Written
<1> USE DEF IInv
<1>1. /\ row.pdf # None => disk[row.pdf] # None
      /\ \A v \in Users : req[v].ok => disk[Written(req[v]).client] # None
  BY GoneStays DEF ServedInv
<1>2. \A c \in Clients : disk[c] # None => disk'[c] # None
  BY DiskGrows
<1>3. \A v \in Users : Written(req[v]) \in Data /\ Written(req[v]).client \in Clients
  BY WrittenType DEF TypeOK, Data
<1>4. row.pdf \in Clients \cup {None}
  BY DEF TypeOK, Row
<1>5. ASSUME NEW u \in Users, Send(u)
      PROVE  /\ row'.pdf # None => disk'[row'.pdf] # None
             /\ \A v \in Users : req'[v].ok => disk'[Written(req'[v]).client] # None
  <2>1. row' = row /\ disk' = disk
    BY <1>5 DEF Send
  <2>2. ASSUME NEW v \in Users, req'[v].ok PROVE req[v].ok /\ Written(req'[v]) = Written(req[v])
    <3>1. v # u
      BY <1>5, <2>2, SendMoves
    <3>2. req[v] \in Request /\ req'[v] = [req[v] EXCEPT !.clean = FALSE]
      BY <1>5, <3>1, SendMoves DEF TypeOK
    <3>3. /\ req'[v].kind = req[v].kind /\ req'[v].copy = req[v].copy
          /\ req'[v].ok = req[v].ok
      BY <3>2 DEF Request
    <3> QED BY <2>2, <3>3 DEF Written
  <2> QED BY <1>1, <2>1, <2>2
<1>6. ASSUME NEW u \in Users, Step(u)
      PROVE  /\ row'.pdf # None => disk'[row'.pdf] # None
             /\ \A v \in Users : req'[v].ok => disk'[Written(req'[v]).client] # None
  <2>1. ASSUME NEW v \in Users, req'[v].ok PROVE disk'[Written(req'[v]).client] # None
    <3>1. CASE v # u
      BY <1>1, <1>2, <1>3, <1>6, <2>1, <3>1, OthersKept
    <3>2. CASE v = u /\ req[u].ok
      BY <1>1, <1>2, <1>3, <1>6, <2>1, <3>2, StepServes
    <3>3. CASE v = u /\ disk' = OnDisk(req[u])
      BY <1>3, <1>6, <2>1, <3>3, StepServes DEF OnDisk, TypeOK
    <3> QED BY <1>6, <2>1, <3>1, <3>2, <3>3, StepServes
  <2>2. CASE row' = row
    BY <1>1, <1>2, <1>4, <2>1, <2>2
  <2>3. CASE Save(u) /\ row' # row
    <3>1. /\ row' \in Results(req[u], row) /\ req[u].kind # "delete" /\ req[u].at = "save"
          /\ disk' = disk
      BY <2>3 DEF Save
    <3>2. req[u].kind \in {"generate", "regenerate"} => req[u].ok
      BY <3>1 DEF PathsInv
    <3>3. row'.pdf \in {row.pdf, None} \/ (row'.pdf = Written(req[u]).client /\ req[u].ok)
      BY <3>1, <3>2, ResultsPdf DEF TypeOK
    <3> QED BY <1>1, <2>1, <3>1, <3>3
  <2>4. row' = row \/ Save(u)
    BY <1>6 DEF Step, WriteDocs, DocsFail, DropOld, UploadOwn, UploadAny, Upload, NothingToUpload,
                DropReplaced, DropDeleted, RemoveDirectory, DeleteRow
  <2> QED BY <2>1, <2>2, <2>3, <2>4
<1>7. CASE MarkAsRead
  <2>1. row'.pdf = row.pdf /\ req' = req /\ disk' = disk
    BY <1>7 DEF MarkAsRead, Touch, TypeOK, Row
  <2> QED BY <1>1, <2>1
<1>8. CASE UNCHANGED vars
  BY <1>1, <1>8 DEF vars
<1> QED BY <1>5, <1>6, <1>7, <1>8 DEF Next

LEMMA ServedInvariance == Spec => []ServedInv
<1>1. Init => ServedInv
  BY DEF Init, ServedInv, NewRow, Idle
<1> QED BY <1>1, Invariance, NextServed, PTL DEF Spec

(* The PDF a quote offers is on disk, however many requests of however     *)
(* many tabs overlap and fail, until a deletion has taken the directory.   *)
THEOREM PdfServedHolds == Spec => []PdfServed
<1>1. ServedInv => PdfServed
  BY DEF ServedInv, Gone, PdfServed
<1> QED BY ServedInvariance, <1>1, PTL

-----------------------------------------------------------------------------
(* A generation that met no failure and no company: the breakdown is the   *)
(* one it loaded, its documents are on disk, and every file it has put on  *)
(* Drive so far is still there.                                            *)

PdfUp(s) ==
    /\ s.pdf = PdfId(s.n) /\ drive[s.pdf] # None
    /\ drive[s.pdf].ext = "pdf" /\ drive[s.pdf].holds = Written(s)

XlsUp(s) ==
    /\ s.xls = XlsId(s.n) /\ drive[s.xls] # None
    /\ s.kind \in {"regenerate", "chat"} => drive[s.xls].holds = Written(s)

Lone(s) == s.clean /\ s.at # "idle" /\ s.kind \in Generators

CleanOK(s) ==
    Lone(s) =>
        /\ row.bd = s.copy.bd
        /\ s.at # "docs" => disk[Written(s).client] = Written(s) /\ s.ok
        /\ s.kind \in {"regenerate", "chat"} /\ s.at \in {"xls", "save"} => PdfUp(s)
        /\ s.kind = "chat" /\ s.at = "drop" => PdfUp(s)
        /\ s.at = "save" \/ (s.kind = "chat" /\ s.at = "drop") => XlsUp(s)

CleanInv ==
    \A u \in Users :
        /\ CleanOK(req[u])
        /\ Lone(req[u]) => \A v \in Users \ {u} : req[v].at = "idle"

LEMMA ClearedKeeps ==
    ASSUME TypeOK, NEW f, NEW files \in Cleared(f), NEW id \in Ids,
           drive[id] # None => drive[id].ext # f.ext
    PROVE  files[id] = drive[id]
BY DEF Cleared, Without, Namesakes, TypeOK

LEMMA LoneUpload ==
    ASSUME IInv, NEW u \in Users, CleanOK(req[u]), NEW f \in DriveFile, Upload(u, f),
           req[u].at = f.ext, Lone(req'[u]),
           req[u].kind \in {"regenerate", "chat"} => f.holds = Written(req[u])
    PROVE  CleanOK(req[u])' /\ Lone(req[u])
<1> USE DEF IInv
<1>1. f.ext \in {"pdf", "xls"} /\ req[u] \in Request /\ req[u].n \in 1..MaxRequests
  BY DEF DriveFile, NumbersInv, Active, TypeOK
<1> DEFINE id == IF f.ext = "pdf" THEN PdfId(req[u].n) ELSE XlsId(req[u].n)
<1>2. /\ req'[u].at = IF f.ext = "pdf" THEN "xls"
                      ELSE IF req[u].kind = "chat" THEN "drop" ELSE "save"
      /\ req'[u].kind = req[u].kind /\ req'[u].n = req[u].n
      /\ req'[u].copy = req[u].copy /\ req'[u].ok = req[u].ok
      /\ req[u].clean
      /\ req'[u].pdf \in {req[u].pdf, IF f.ext = "pdf" THEN id ELSE req[u].pdf}
      /\ req'[u].xls \in {req[u].xls, IF f.ext = "pdf" THEN req[u].xls ELSE id}
      /\ IF f.ext = "pdf" THEN req'[u].pdf = id ELSE req'[u].xls = id
  BY UploadMoves DEF Lone
<1>3. PICK files \in Cleared(f) : drive' = [files EXCEPT ![id] = f]
  BY UploadMoves DEF Lone
<1>4. Lone(req[u]) /\ Written(req'[u]) = Written(req[u])
  BY <1>1, <1>2 DEF Lone, Written
<1>5. id \in Ids /\ files \in [Ids -> DriveFile \cup {None}]
  BY <1>1, <1>3, IdsAreIds, WithoutType DEF Cleared, TypeOK
<1>6. drive'[id] = f /\ f # None
  BY <1>3, <1>5
<1>7. row' = row /\ disk' = disk
  BY DEF Upload
<1>8. /\ row.bd = req[u].copy.bd
      /\ disk[Written(req[u]).client] = Written(req[u]) /\ req[u].ok
  BY <1>1, <1>4 DEF CleanOK
<1>9. CASE f.ext = "pdf"
  <2>1. req[u].kind \in {"regenerate", "chat"}
    BY <1>9 DEF PathsInv
  <2>2. PdfUp(req[u])'
    BY <1>2, <1>4, <1>6, <1>9, <2>1 DEF PdfUp
  <2> QED BY <1>2, <1>4, <1>7, <1>8, <1>9, <2>1, <2>2 DEF CleanOK
<1>10. CASE f.ext = "xls"
  <2>1. XlsUp(req[u])'
    BY <1>2, <1>4, <1>6, <1>10 DEF XlsUp
  <2>2. ASSUME req[u].kind \in {"regenerate", "chat"} PROVE PdfUp(req[u])'
    <3>1. PdfUp(req[u])
      BY <1>4, <1>10, <2>2 DEF CleanOK
    <3>2. PdfId(req[u].n) \in Ids /\ PdfId(req[u].n) # id
      BY <1>1, <1>10, IdsAreIds DEF PdfId, XlsId
    <3>3. drive'[PdfId(req[u].n)] = drive[PdfId(req[u].n)]
      BY <1>3, <1>5, <1>10, <3>1, <3>2, ClearedKeeps DEF PdfUp
    <3> QED BY <1>2, <1>4, <1>10, <3>1, <3>3 DEF PdfUp
  <2> QED BY <1>2, <1>4, <1>7, <1>8, <1>10, <2>1, <2>2 DEF CleanOK
<1> QED BY <1>1, <1>4, <1>9, <1>10

LEMMA LoneStep ==
    ASSUME IInv, NEW u \in Users, CleanOK(req[u]), Step(u), Lone(req'[u])
    PROVE  CleanOK(req[u])' /\ Lone(req[u])
<1> USE DEF IInv
<1>1. req[u] \in Request
  BY DEF TypeOK
<1>2. ~Lone(Idle) /\ \A at \in Places : ~Lone(Fails(u, at)[u])
  BY Moves DEF Lone, Idle
<1>3. CASE WriteDocs(u)
  <2>1. req'[u] = [req[u] EXCEPT !.at = AfterDocs[req[u].kind], !.ok = TRUE]
    BY <1>3 DEF WriteDocs, TypeOK
  <2>2. /\ req'[u].kind = req[u].kind /\ req'[u].copy = req[u].copy
        /\ req'[u].clean = req[u].clean /\ req'[u].ok
        /\ req'[u].at = AfterDocs[req[u].kind]
    BY <1>1, <2>1 DEF Request
  <2>3. Lone(req[u]) /\ Written(req'[u]) = Written(req[u])
    BY <1>3, <2>2 DEF Lone, WriteDocs, Written
  <2>4. disk'[Written(req[u]).client] = Written(req[u])
    BY <1>1, <1>3, WrittenType DEF WriteDocs, OnDisk, TypeOK, Data
  <2>5. row' = row /\ row.bd = req[u].copy.bd
    BY <1>3, <2>3 DEF WriteDocs, CleanOK
  <2>6. /\ req'[u].at \in {"drop", "xls", "pdf"}
        /\ req'[u].at = "drop" => req[u].kind # "chat"
        /\ req'[u].at = "xls" => req[u].kind = "generate"
    BY <2>2, <2>3 DEF AfterDocs, Lone, Generators
  <2> QED BY <2>2, <2>3, <2>4, <2>5, <2>6 DEF CleanOK
<1>4. CASE DocsFail(u)
  BY <1>2, <1>4, EndMoves DEF DocsFail, Places
<1>5. CASE DropOld(u)
  <2>1. PICK at \in {"xls", "pdf"} :
          /\ req' = Goes(u, at) /\ row' = row /\ disk' = disk
          /\ at = "xls" => req[u].kind = "validate"
          /\ req[u].at = "drop" /\ req[u].kind \in {"validate", "regenerate"}
    BY <1>5 DEF DropOld
  <2>2. Same(req'[u], req[u]) /\ req'[u].at = at /\ req'[u].clean = req[u].clean
    <3>1. at \in Places
      BY DEF Places
    <3> QED BY <2>1, <3>1, Moves
  <2>3. Lone(req[u]) /\ Written(req'[u]) = Written(req[u])
    BY <2>1, <2>2 DEF Lone, Same, Written
  <2> QED BY <2>1, <2>2, <2>3 DEF CleanOK, Same
<1>6. CASE DropReplaced(u)
  <2>1. /\ req' = Goes(u, "save") /\ row' = row /\ disk' = disk
        /\ req[u].at = "drop" /\ req[u].kind = "chat"
        /\ drive' \in {drive, Without(drive, {req[u].copy.file})}
    BY <1>6 DEF DropReplaced
  <2>2. Same(req'[u], req[u]) /\ req'[u].at = "save" /\ req'[u].clean = req[u].clean
    BY <2>1, Moves DEF Places
  <2>3. Lone(req[u]) /\ Written(req'[u]) = Written(req[u])
    BY <2>1, <2>2 DEF Lone, Same, Written
  <2>4. PdfUp(req[u]) /\ XlsUp(req[u])
    BY <2>1, <2>3 DEF CleanOK
  <2>5. /\ req[u].n \in 1..MaxRequests
        /\ req[u].copy.file # None => req[u].copy.file < PdfId(req[u].n)
        /\ req[u].copy.file \in Ids \cup {None}
    BY <1>1, <2>1 DEF NumbersInv, Active, TypeOK, Request, Row
  <2>6. \A id \in {PdfId(req[u].n), XlsId(req[u].n)} : id \in Ids /\ id # req[u].copy.file
    BY <2>5, IdsAreIds DEF PdfId, XlsId, Ids
  <2>7. \A id \in {PdfId(req[u].n), XlsId(req[u].n)} : drive'[id] = drive[id]
    BY <2>1, <2>6 DEF Without
  <2>8. PdfUp(req[u])' /\ XlsUp(req[u])'
    BY <2>2, <2>3, <2>4, <2>7 DEF PdfUp, XlsUp, Same
  <2> QED BY <2>1, <2>2, <2>3, <2>8 DEF CleanOK, Same
<1>7. CASE UploadOwn(u)
  <2>1. PICK ext \in {"pdf", "xls"} : req[u].at = ext /\ Upload(u, OwnFile(req[u], ext))
    BY <1>7 DEF UploadOwn
  <2>2. disk[Written(req[u]).client] \in Data
    BY <1>1, <1>7, WrittenType DEF UploadOwn, TypeOK, Data
  <2>3. /\ OwnFile(req[u], ext) \in DriveFile /\ OwnFile(req[u], ext).ext = ext
        /\ OwnFile(req[u], ext).holds = disk[Written(req[u]).client]
    BY <1>1, <2>2, WrittenType DEF OwnFile, DriveFile, Data
  <2>4. req[u].clean /\ req'[u].kind = req[u].kind
    BY <2>1, UploadMoves DEF Lone
  <2>5. Lone(req[u])
    BY <2>1, <2>4 DEF Lone
  <2>6. disk[Written(req[u]).client] = Written(req[u])
    BY <2>1, <2>5 DEF CleanOK
  <2> QED BY <2>1, <2>3, <2>6, LoneUpload
<1>8. CASE UploadAny(u)
  <2>1. PICK c \in Clients :
          /\ disk[c] # None
          /\ Upload(u, [name |-> c, folder |-> "month", ext |-> "xls", holds |-> disk[c]])
    BY <1>8 DEF UploadAny
  <2> DEFINE f == [name |-> c, folder |-> "month", ext |-> "xls", holds |-> disk[c]]
  <2>2. f \in DriveFile /\ f.ext = "xls" /\ Upload(u, f)
    BY <2>1 DEF TypeOK, DriveFile
  <2>3. req[u].at = "xls" /\ req[u].kind \notin {"regenerate", "chat"}
    BY <1>8 DEF UploadAny
  <2> HIDE DEF f
  <2> QED BY <2>2, <2>3, LoneUpload
<1>9. CASE NothingToUpload(u)
  <2>1. AfterUpload(req[u], req[u].at) \in Places
    BY DEF AfterUpload, Places
  <2> QED BY <1>2, <1>9, <2>1 DEF NothingToUpload
<1>10. CASE Save(u) \/ DeleteRow(u)
  BY <1>2, <1>10, EndMoves DEF Save, DeleteRow
<1>11. CASE DropDeleted(u) \/ RemoveDirectory(u)
  <2>1. req[u].kind = "delete" /\ Same(req'[u], req[u])
    BY <1>11, Moves DEF DropDeleted, RemoveDirectory, PathsInv, Places
  <2> QED BY <2>1 DEF Lone, Same, Generators
<1> QED BY <1>3, <1>4, <1>5, <1>6, <1>7, <1>8, <1>9, <1>10, <1>11 DEF Step

LEMMA NextClean == IInv /\ CleanInv /\ [Next]_vars => CleanInv'
<1> SUFFICES ASSUME IInv, CleanInv, [Next]_vars PROVE CleanInv'
  OBVIOUS
<1>1. ASSUME NEW v \in Users PROVE CleanOK(req[v]) /\ (Lone(req[v]) => \A w \in Users \ {v} : req[w].at = "idle")
  BY DEF CleanInv
<1>2. ASSUME NEW u \in Users, Send(u) PROVE CleanInv'
  <2>1. ASSUME NEW v \in Users \ {u} PROVE ~Lone(req'[v])
    <3>1. req[v] \in Request /\ req'[v] = [req[v] EXCEPT !.clean = FALSE]
      BY <1>2, SendMoves DEF IInv, TypeOK
    <3> QED BY <3>1 DEF Request, Lone
  <2>2. /\ req'[u].kind \in Kinds /\ req'[u].at = FirstPlace(req'[u].kind)
        /\ req'[u].copy = row /\ row' = row
        /\ req'[u].clean = (\A w \in Users : req[w].at = "idle")
    BY <1>2, SendMoves DEF IInv, Send
  <2>3. Lone(req'[u]) => req'[u].at = "docs"
    BY <2>2 DEF Lone, FirstPlace, Generators
  <2>4. CleanOK(req[u])'
    BY <2>2, <2>3 DEF CleanOK
  <2>5. ASSUME Lone(req'[u]), NEW v \in Users \ {u} PROVE req'[v].at = "idle"
    <3>1. req[v] \in Request /\ req'[v] = [req[v] EXCEPT !.clean = FALSE]
      BY <1>2, SendMoves DEF IInv, TypeOK
    <3> QED BY <2>2, <2>5, <3>1 DEF Request, Lone
  <2>6. \A v \in Users : CleanOK(req[v])'
    BY <2>1, <2>4 DEF CleanOK
  <2> QED BY <2>1, <2>5, <2>6 DEF CleanInv, Lone
<1>3. ASSUME NEW u \in Users, Step(u) PROVE CleanInv'
  <2>1. req[u].at # "idle"
    BY <1>3 DEF Step, WriteDocs, DocsFail, DropOld, UploadOwn, UploadAny, NothingToUpload,
                DropReplaced, DropDeleted, RemoveDirectory, DeleteRow, Save, PathsInv, IInv
  <2>2. ASSUME NEW v \in Users \ {u} PROVE req'[v] = req[v] /\ ~Lone(req[v])
    BY <1>1, <1>3, <2>1, <2>2, OthersKept DEF IInv
  <2>3. Lone(req'[u]) => CleanOK(req[u])' /\ Lone(req[u])
    BY <1>1, <1>3, LoneStep
  <2>4. CleanOK(req[u])'
    BY <2>3 DEF CleanOK, Lone
  <2>5. \A v \in Users : CleanOK(req[v])'
    BY <2>2, <2>4 DEF CleanOK
  <2> QED BY <1>1, <2>2, <2>3, <2>5 DEF CleanInv, Lone
<1>4. CASE MarkAsRead
  <2>1. row'.bd = row.bd /\ req' = req /\ disk' = disk /\ drive' = drive
    BY <1>4 DEF MarkAsRead, Touch, IInv, TypeOK, Row
  <2>2. \A v \in Users : CleanOK(req[v])'
    BY <1>1, <2>1 DEF CleanOK, PdfUp, XlsUp
  <2> QED BY <1>1, <2>1, <2>2 DEF CleanInv, Lone
<1>5. CASE UNCHANGED vars
  BY <1>5 DEF vars, CleanInv, CleanOK, Lone, PdfUp, XlsUp
<1> QED BY <1>2, <1>3, <1>4, <1>5 DEF Next

LEMMA CleanInvariance == Spec => []CleanInv
<1>1. Init => CleanInv
  BY DEF Init, CleanInv, CleanOK, Lone, Idle
<1> QED BY <1>1, Invariance, NextClean, PTL DEF Spec

(* Whatever broken links, stale files or deleted ids it starts from, a     *)
(* generation that meets no failure and no other request leaves the quote  *)
(* with the documents of its data and a link that works.                   *)
THEOREM CleanServesHolds == Spec => CleanServes
<1>1. ASSUME IInv, CleanInv, NEW u \in Users, CleanEnd(u, Generators)
      PROVE  /\ row'.pdf # None /\ disk[row'.pdf].rev = row'.bd.rev
             /\ row'.link # None /\ drive[row'.link] # None
  <2> DEFINE s == req[u]
  <2>1. /\ s.at = "save" /\ s.kind \in Generators /\ s.clean
        /\ row' \in Results(s, row) /\ s \in Request /\ row \in Row
    BY <1>1 DEF CleanEnd, Save, IInv, TypeOK
  <2>2. Lone(s)
    BY <2>1 DEF Lone
  <2>3. /\ row.bd = s.copy.bd /\ s.ok /\ disk[Written(s).client] = Written(s)
        /\ s.kind \in {"regenerate", "chat"} => PdfUp(s)
        /\ XlsUp(s)
    BY <1>1, <2>1, <2>2 DEF CleanInv, CleanOK
  <2>4. s.n \in 1..MaxRequests
    BY <1>1, <2>1 DEF IInv, NumbersInv, Active, TypeOK
  <2>5. PdfId(s.n) # None /\ XlsId(s.n) # None
    BY <2>4, IdsAreIds
  <2>6. Written(s).client \in Clients /\ Written(s).client # None /\ Written(s).rev = s.copy.bd.rev
    BY <2>1, WrittenType DEF Written, Request, Row, Data
  <2> HIDE DEF s
  <2>7. Touch(row) \in Row /\ Touch(row).bd = row.bd
    BY <2>1 DEF Touch, Row
  <2>8. CASE s.kind = "validate"
    <3>1. row' = Validated(s, row)
      BY <2>1, <2>8 DEF Results
    <3>2. row'.pdf = Written(s).client /\ row'.bd = row.bd /\ row'.link = s.xls
      BY <2>3, <2>5, <2>7, <3>1 DEF Validated, Latest, Row, XlsUp
    <3> QED BY <2>3, <2>5, <2>6, <3>2 DEF XlsUp
  <2>9. CASE s.kind = "generate"
    <3>1. row' = Generated(s, row)
      BY <2>1, <2>9 DEF Results
    <3>2. row'.pdf = Written(s).client /\ row'.bd = row.bd /\ row'.link = s.xls
      BY <2>7, <3>1 DEF Generated, Row
    <3> QED BY <2>3, <2>5, <2>6, <3>2 DEF XlsUp
  <2>10. (First(s) = s.pdf /\ s.pdf # None) \/ s.kind \notin {"regenerate", "chat"}
    BY <2>3, <2>5 DEF First, PdfUp
  <2>11. CASE s.kind = "regenerate"
    <3>1. row' = Regenerated(s, row)
      BY <2>1, <2>11 DEF Results
    <3>2. row'.pdf = Written(s).client /\ row'.bd = row.bd /\ row'.link = s.pdf
      BY <2>1, <2>10, <2>11, <3>1 DEF Regenerated, Latest, Row
    <3> QED BY <2>3, <2>5, <2>6, <2>11, <3>2 DEF PdfUp
  <2>12. CASE s.kind = "chat"
    <3>1. row' = Told(s, row)
      BY <2>1, <2>12 DEF Results
    <3>2. row'.pdf = Written(s).client /\ row'.bd = row.bd /\ row'.link = s.pdf
      BY <2>1, <2>3, <2>10, <2>12, <3>1 DEF Told, Latest, Row
    <3> QED BY <2>3, <2>5, <2>6, <2>12, <3>2 DEF PdfUp
  <2> QED BY <2>1, <2>8, <2>9, <2>11, <2>12 DEF Generators
<1>2. IInv /\ CleanInv =>
        [\A u \in Users : CleanEnd(u, Generators) =>
          /\ row'.pdf # None /\ disk[row'.pdf].rev = row'.bd.rev
          /\ row'.link # None /\ drive[row'.link] # None]_vars
  BY <1>1
<1> QED BY <1>2, Invariance, CleanInvariance, PTL DEF CleanServes

(* regenerate repairs more: each of the three links is a file with the     *)
(* current data, and the warning of an outdated PDF is gone.               *)
THEOREM RegenerateHealsHolds == Spec => RegenerateHeals
<1>1. ASSUME IInv, CleanInv, NEW u \in Users, CleanEnd(u, {"regenerate"})
      PROVE  /\ row'.banner = "clear"
             /\ \A id \in {row'.link, row'.pdfLink, row'.xlsLink} :
                   id # None /\ drive[id] # None /\ drive[id].holds.rev = row'.bd.rev
  <2> DEFINE s == req[u]
  <2>1. /\ s.at = "save" /\ s.kind = "regenerate" /\ s.clean
        /\ row' = Regenerated(s, row) /\ s \in Request /\ row \in Row
    BY <1>1 DEF CleanEnd, Save, IInv, TypeOK, Results
  <2>2. Lone(s)
    BY <2>1 DEF Lone, Generators
  <2>3. row.bd = s.copy.bd /\ PdfUp(s) /\ XlsUp(s)
    BY <1>1, <2>1, <2>2 DEF CleanInv, CleanOK
  <2>4. s.n \in 1..MaxRequests
    BY <1>1, <2>1 DEF IInv, NumbersInv, Active, TypeOK
  <2>5. s.pdf # None /\ s.xls # None
    BY <2>3, <2>4, IdsAreIds DEF PdfUp, XlsUp
  <2>6. Written(s).rev = row.bd.rev
    BY <2>1, <2>3 DEF Written, Request, Row, Data
  <2> HIDE DEF s
  <2>7. /\ row'.banner = "clear" /\ row'.bd = row.bd
        /\ row'.link = s.pdf /\ row'.pdfLink = s.pdf /\ row'.xlsLink = s.xls
    BY <2>1, <2>5 DEF Regenerated, Latest, First, Row
  <2> QED BY <2>1, <2>3, <2>5, <2>6, <2>7 DEF PdfUp, XlsUp
<1>2. IInv /\ CleanInv =>
        [\A u \in Users : CleanEnd(u, {"regenerate"}) =>
          /\ row'.banner = "clear"
          /\ \A id \in {row'.link, row'.pdfLink, row'.xlsLink} :
                id # None /\ drive[id] # None /\ drive[id].holds.rev = row'.bd.rev]_vars
  BY <1>1
<1> QED BY <1>2, Invariance, CleanInvariance, PTL DEF RegenerateHeals

-----------------------------------------------------------------------------
(* The lock of the row is never left behind: whoever holds it is a tool's  *)
(* request on its way to the save that gives it back, and the row is there. *)
(* (That it gets there is RequestsEnd.)                                    *)
LockAlive ==
    \A u \in Users : holder = u =>
        /\ exists
        /\ req[u].kind = "chat" /\ req[u].at \in {"pdf", "xls", "drop", "save"}

LEMMA LockStep ==
    ASSUME IInv, LockAlive, NEW u \in Users, Step(u) PROVE LockAlive'
<1> USE DEF IInv
<1>1. ASSUME holder' = holder, exists' = exists,
             holder = u => req'[u].kind = "chat" /\ req'[u].at \in {"pdf", "xls", "drop", "save"}
      PROVE  LockAlive'
  BY <1>1, OthersKept DEF LockAlive
<1>2. ASSUME req[u].at = "docs" PROVE holder # u
  BY <1>2 DEF LockAlive
<1>3. CASE WriteDocs(u)
  <2>1. req'[u] = [req[u] EXCEPT !.at = AfterDocs[req[u].kind], !.ok = TRUE] /\ req[u] \in Request
    BY <1>3 DEF WriteDocs, TypeOK
  <2>2. req[u].kind = "chat" => req'[u].kind = "chat" /\ req'[u].at = "pdf"
    BY <2>1 DEF Request, AfterDocs
  <2>3. /\ holder' = holder \/ (holder' = u /\ req[u].kind = "chat" /\ exists)
        /\ exists' = exists /\ req[u].at = "docs"
    BY <1>3 DEF WriteDocs, TakeRow
  <2> QED BY <1>2, <1>3, <2>2, <2>3, OthersKept DEF LockAlive
<1>4. CASE DocsFail(u)
  <2>1. /\ holder' = holder \/ (holder' = u /\ req[u].kind = "chat" /\ exists)
        /\ exists' = exists /\ req[u].at = "docs"
        /\ req[u].kind = "chat" => req' = Fails(u, "save")
    BY <1>4 DEF DocsFail, TakeRow
  <2>2. ASSUME req[u].kind = "chat" PROVE req'[u].kind = "chat" /\ req'[u].at = "save"
    <3>1. req' = Fails(u, "save") /\ "save" \in Places
      BY <2>1, <2>2 DEF Places
    <3>2. Same(req'[u], req[u]) /\ req'[u].at = "save"
      BY <3>1, Moves
    <3> QED BY <2>2, <3>2 DEF Same
  <2> QED BY <1>2, <1>4, <2>1, <2>2, OthersKept DEF LockAlive
<1>5. CASE DropOld(u) \/ DropDeleted(u) \/ RemoveDirectory(u)
  <2>1. holder' = holder /\ exists' = exists /\ req[u].kind # "chat"
    BY <1>5 DEF DropOld, DropDeleted, RemoveDirectory, PathsInv
  <2> QED BY <1>1, <2>1 DEF LockAlive
<1>6. CASE DropReplaced(u)
  <2>1. holder' = holder /\ exists' = exists /\ req[u].kind = "chat" /\ req' = Goes(u, "save")
    BY <1>6 DEF DropReplaced
  <2> QED BY <1>1, <2>1, Moves DEF Same, Places
<1>7. ASSUME NEW f, Upload(u, f) PROVE LockAlive'
  <2>1. holder' = holder /\ exists' = exists
    BY <1>7 DEF Upload
  <2>2. req'[u].at \in {"xls", "drop", "save"} /\ req'[u].kind = req[u].kind
    BY <1>7, UploadMoves
  <2> QED BY <1>1, <2>1, <2>2 DEF LockAlive
<1>8. CASE UploadOwn(u) \/ UploadAny(u)
  BY <1>7, <1>8 DEF UploadOwn, UploadAny
<1>9. CASE NothingToUpload(u)
  <2>1. AfterUpload(req[u], req[u].at) \in Places \cap {"xls", "drop", "save"}
    BY DEF AfterUpload, Places
  <2>2. Same(req'[u], req[u]) /\ req'[u].at \in {"xls", "drop", "save"}
    BY <1>9, <2>1, Moves DEF NothingToUpload
  <2>3. holder' = holder /\ exists' = exists
    BY <1>9 DEF NothingToUpload
  <2> QED BY <1>1, <2>2, <2>3 DEF LockAlive, Same
<1>10. CASE Save(u)
  <2>1. holder' = (IF holder = u THEN None ELSE holder) /\ exists' = exists
    BY <1>10 DEF Save, Release
  <2> QED BY <1>10, <2>1, OthersKept DEF LockAlive
<1>11. CASE DeleteRow(u)
  <2>1. holder = None
    BY <1>11 DEF DeleteRow, CanWrite, LockAlive, TypeOK
  <2> QED BY <1>11, <2>1 DEF DeleteRow, LockAlive
<1> QED BY <1>3, <1>4, <1>5, <1>6, <1>8, <1>9, <1>10, <1>11 DEF Step

THEOREM LockIsNeverLeft == Spec => []LockAlive
<1>1. Init => LockAlive
  BY DEF Init, LockAlive
<1>2. IInv /\ LockAlive /\ [Next]_vars => LockAlive'
  <2> SUFFICES ASSUME IInv, LockAlive, [Next]_vars PROVE LockAlive'
    OBVIOUS
  <2>1. ASSUME NEW u \in Users, Send(u) PROVE LockAlive'
    <3>1. holder' = holder /\ exists' = exists /\ holder # u
      BY <2>1 DEF Send, LockAlive
    <3>2. ASSUME NEW v \in Users \ {u} PROVE req'[v].kind = req[v].kind /\ req'[v].at = req[v].at
      <4>1. req[v] \in Request /\ req'[v] = [req[v] EXCEPT !.clean = FALSE]
        BY <2>1, SendMoves DEF IInv, TypeOK
      <4> QED BY <4>1 DEF Request
    <3> QED BY <3>1, <3>2 DEF LockAlive
  <2>2. ASSUME NEW u \in Users, Step(u) PROVE LockAlive'
    BY <2>2, LockStep
  <2>3. CASE MarkAsRead \/ UNCHANGED vars
    BY <2>3 DEF MarkAsRead, vars, LockAlive
  <2> QED BY <2>1, <2>2, <2>3 DEF Next
<1> QED BY <1>1, <1>2, Invariance, PTL DEF Spec
=============================================================================
