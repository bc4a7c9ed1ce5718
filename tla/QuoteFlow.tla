------------------------------ MODULE QuoteFlow ------------------------------
(***************************************************************************)
(* One quote on its way from the brief to the documents: the row of the    *)
(* quotes table and the requests that read it, wait for a model and write  *)
(* it back (router.py: chat, reopen_measurements, reopen_context,          *)
(* dual_read_retry; agent.py: stream_chat, _run_dual_read, calculate_quote *)
(* and generate_documents).                                                *)
(*                                                                         *)
(* The handlers hold on to the row they loaded (a local variable, the      *)
(* identity map and expire_on_commit=False), so all they read later is     *)
(* that copy plus their own writes; and quote_breakdown and messages are   *)
(* JSON columns written whole. A request is therefore a copy of the row    *)
(* and a place in its handler; each action is what happens up to the next  *)
(* commit, the awaits before it included. The chat loads twice: FastAPI    *)
(* closes the session of the endpoint before the stream starts, and the    *)
(* stream gets the messages of the first row and reads the rest again.     *)
(*                                                                         *)
(* Abstracted: a despiece is the plan it was read from and whether it      *)
(* holds corrections of the operator and pieces derived from the answers;  *)
(* a message is its kind; prices, clients, buildings, multiple materials   *)
(* and the products-only path are left out.                                *)
(***************************************************************************)
EXTENDS Integers, Sequences, SequencesExt

CONSTANTS
    Actors,       \* browser tabs (or users) at work on the quote
    Plans,        \* contents of a plan file (what the plan hash tells apart)
    Names,        \* file names
    Text,         \* the source of a despiece parsed from the brief
    None,         \* an absent key
    MaxRequests,  \* bound: requests in a behaviour
    MaxUploads,   \* bound: plan files sent
    Disconnects   \* whether a client may leave in the middle of a turn

ASSUME NamesAssumption ==
    /\ Text \notin Plans
    /\ None \notin Plans \cup {Text} \cup Names
    /\ MaxRequests \in Nat
    /\ MaxUploads \in Nat
    /\ Disconnects \in BOOLEAN

VARIABLES
    bd,       \* quote_breakdown
    msgs,     \* messages
    total,    \* total_ars / total_usd are set
    status,   \* of the quote, moved by the agent's documents and by hand
    files,    \* source_files: the names, in the order of their first upload
    disk,     \* OUTPUT_DIR/<quote>/sources: the content under each name
    req,      \* the request each actor is waiting for
    started,  \* requests so far
    uploads   \* plan files sent so far

row == <<bd, msgs, total, status, files>>
vars == <<row, disk, req, started, uploads>>

Sources == Plans \cup {Text}
Despiece == [from: Sources, edited: BOOLEAN, derived: BOOLEAN]
ASSUME AbsentAssumption == None \notin Despiece

Answers == [about: Sources \cup {None}, legs: BOOLEAN]
Breakdown ==
    [card: Despiece \cup {None},     \* dual_read_result
     hash: Plans \cup {None},        \* dual_read_plan_hash
     pending: Sources \cup {None},   \* context_analysis_pending
     context: Answers \cup {None},   \* verified_context_analysis
     measured: Despiece \cup {None}, \* verified_measurements + verified_context
     calc: Sources \cup {None}]      \* material, totals, mo_items: what they measure

Kinds == {"user", "context", "card", "edit", "paso2", "docs", "talk"}
Turn == [kind: Kinds, n: Nat]
Status == {"draft", "pending", "validated", "sent"}
Delivered == {"validated", "sent"}
Requests == {"text", "edit", "context", "measures", "reopenM", "reopenC", "retry"}
Places == {"idle", "invalidate", "opened", "dispatch", "contextSaved", "cardEdited",
           "reading", "contextRead", "cardRead", "agent", "calculated", "generated"}
Request ==
    [at: Places, kind: Requests, n: Nat, plan: Plans \cup {None},
     name: Names \cup {None}, legs: BOOLEAN, edits: BOOLEAN,
     card: Despiece \cup {None},   \* the despiece the tab sends back
     bd: Breakdown, msgs: Seq(Turn), total: BOOLEAN, status: Status,
     files: Seq(Names)]

TypeOK ==
    /\ bd \in Breakdown
    /\ msgs \in Seq(Turn)
    /\ total \in BOOLEAN
    /\ status \in Status
    /\ files \in Seq(Names)
    /\ disk \in [Names -> Plans \cup {None}]
    /\ req \in [Actors -> Request]
    /\ started \in 0..MaxRequests
    /\ uploads \in 0..MaxUploads

EmptyBreakdown ==
    [card |-> None, hash |-> None, pending |-> None, context |-> None,
     measured |-> None, calc |-> None]

Idle ==
    [at |-> "idle", kind |-> "text", n |-> 0, plan |-> None, name |-> None,
     legs |-> FALSE, edits |-> FALSE, card |-> None, bd |-> EmptyBreakdown,
     msgs |-> <<>>, total |-> FALSE, status |-> "draft", files |-> <<>>]

Init ==
    /\ bd = EmptyBreakdown
    /\ msgs = <<>>
    /\ total = FALSE
    /\ status = "draft"
    /\ files = <<>>
    /\ disk = [f \in Names |-> None]
    /\ req = [a \in Actors |-> Idle]
    /\ started = 0
    /\ uploads = 0

-----------------------------------------------------------------------------
(* Sending a request, and loading the row.                                 *)
(* A definition named Mutant... is a slip in the definition after it; none *)
(* is part of the specification.                                           *)

Confirmed(b) == b.measured # None

(* The last card the chat shows. A chat edit re-emits the despiece. *)
LastShown(ms) ==
    LET shown == {i \in DOMAIN ms : ms[i].kind \in {"context", "card", "edit"}}
    IN IF shown = {} THEN "nothing"
       ELSE ms[CHOOSE i \in shown : \A j \in shown : j <= i].kind

(* The plan a message without files works with: the last saved file. *)
SavedPlan == IF files = <<>> THEN None ELSE disk[Last(files)]

MutantIsNewFile(name) == TRUE
IsNewFile(name) == name \notin ToSet(files)

Load(a, kind, at, plan, name, legs, edits) ==
    /\ req[a].at = "idle"
    /\ started < MaxRequests
    /\ started' = started + 1
    /\ req' = [req EXCEPT ![a] =
                 [at |-> at, kind |-> kind, n |-> started + 1, plan |-> plan,
                  name |-> name, legs |-> legs, edits |-> edits,
                  card |-> IF kind = "measures" THEN bd.card ELSE None,
                  bd |-> bd, msgs |-> msgs, total |-> total, status |-> status,
                  files |-> files]]
    /\ UNCHANGED row

(* A message with no prefix; an edit is one that names a piece and a change. *)
SendText(a) ==
    /\ \E kind \in {"text", "edit"} :
          Load(a, kind, "opened", SavedPlan, None, FALSE, FALSE)
    /\ UNCHANGED <<disk, uploads>>

(* A message with a plan: the file is on disk before the row knows of it.  *)
SendPlan(a) ==
    /\ uploads < MaxUploads
    /\ uploads' = uploads + 1
    /\ \E name \in Names, plan \in Plans :
          /\ Load(a, "text", IF IsNewFile(name) THEN "invalidate" ELSE "opened",
                  plan, name, FALSE, FALSE)
          /\ disk' = [disk EXCEPT ![name] = plan]

(* The buttons of the two cards, offered while what they confirm is open.  *)
SendContext(a) ==
    /\ LastShown(msgs) = "context"
    /\ bd.context = None
    /\ \E legs \in BOOLEAN :
          Load(a, "context", "opened", SavedPlan, None, legs, FALSE)
    /\ UNCHANGED <<disk, uploads>>

SendMeasures(a) ==
    /\ LastShown(msgs) \in {"card", "edit"}
    /\ bd.card # None
    /\ ~Confirmed(bd)
    /\ \E edits \in BOOLEAN :
          Load(a, "measures", "opened", SavedPlan, None, FALSE, edits)
    /\ UNCHANGED <<disk, uploads>>

(* The reopen endpoints answer 409 once the quote is validated and 400 with *)
(* nothing to reopen; the retry needs the saved crop of a plan.             *)
MayReopenMeasures(s) == s.status \notin Delivered /\ Confirmed(s.bd)
MayReopenContext(s) == s.status \notin Delivered /\ s.bd.context # None
MayRetry(s) == s.bd.card # None /\ s.bd.card.from # Text

SendOther(a) ==
    /\ \E kind \in {"reopenM", "reopenC", "retry"} :
          /\ Load(a, kind, "dispatch", None, None, FALSE, FALSE)
          /\ kind = "reopenM" => MayReopenMeasures(req'[a])
          /\ kind = "reopenC" => MayReopenContext(req'[a])
          /\ kind = "retry" => MayRetry(req'[a])
    /\ UNCHANGED <<disk, uploads>>

-----------------------------------------------------------------------------
(* Steps of a request. WriteBd and WriteMsgs are UPDATEs of the row; the   *)
(* ORM carries each into the session's copy.                               *)

Goes(a, at) == [req EXCEPT ![a] = [@ EXCEPT !.at = at]]
Done(a) == [req EXCEPT ![a] = Idle]

WriteBd(a, b, at) ==
    /\ bd' = b
    /\ req' = [req EXCEPT ![a] = [@ EXCEPT !.bd = b, !.at = at]]

(* The session's messages, the operator's turn and the answer. *)
WithAnswer(s, kind) ==
    s.msgs \o <<[kind |-> "user", n |-> s.n], [kind |-> kind, n |-> s.n]>>

FinishTurn(a, kind) ==
    /\ msgs' = WithAnswer(req[a], kind)
    /\ req' = Done(a)

KeepRest == UNCHANGED <<files, disk, started, uploads>>

(* Chat: a file with a new name enters source_files and drops what was     *)
(* read and confirmed, the plan hash and the context excepted.             *)
MutantUnread(b) == [b EXCEPT !.card = None]
Unread(b) == [b EXCEPT !.card = None, !.measured = None]

InvalidateRead(a) ==
    LET s == req[a] IN
    /\ s.at = "invalidate"
    /\ WriteBd(a, Unread(s.bd), "opened")
    /\ files' = Append(s.files, s.name)
    /\ UNCHANGED <<msgs, total, status, disk, started, uploads>>

(* stream_chat reads the row in a session of its own. *)
OpenStream(a) ==
    /\ req[a].at = "opened"
    /\ req' = [req EXCEPT ![a] =
                 [@ EXCEPT !.at = "dispatch", !.bd = bd, !.total = total,
                           !.status = status]]
    /\ UNCHANGED <<bd, msgs, total, status>>
    /\ KeepRest

(* [CONTEXT_CONFIRMED]: the answers are kept and the pieces they imply are *)
(* merged into the despiece, unless it comes from the text of the brief.   *)
Answered(b, legs) ==
    [b EXCEPT !.context = [about |-> b.pending, legs |-> legs],
              !.card = IF @ = None \/ @.from = Text THEN @
                       ELSE [@ EXCEPT !.derived = legs]]

ConfirmContext(a) ==
    LET s == req[a] IN
    /\ s.at = "dispatch" /\ s.kind = "context"
    /\ WriteBd(a, Answered(s.bd, s.legs), "contextSaved")
    /\ UNCHANGED <<msgs, total, status>>
    /\ KeepRest

ShowCard(a) ==
    /\ req[a].at \in {"contextSaved", "cardRead"}
    /\ FinishTurn(a, "card")
    /\ UNCHANGED <<bd, total, status>>
    /\ KeepRest

(* [DUAL_READ_CONFIRMED]: the card as the operator sends it, with the       *)
(* pieces the context answers imply and no other derived ones.              *)
MutantMeasured(b, card, edits) ==
    [b EXCEPT !.measured =
        [from |-> b.hash, edited |-> card.edited \/ edits,
         derived |-> b.context # None /\ b.context.legs]]
Measured(b, card, edits) ==
    [b EXCEPT !.measured =
        [from |-> card.from, edited |-> card.edited \/ edits,
         derived |-> b.context # None /\ b.context.legs]]

ConfirmMeasures(a) ==
    LET s == req[a] IN
    /\ s.at = "dispatch" /\ s.kind = "measures"
    /\ WriteBd(a, Measured(s.bd, s.card, s.edits), "agent")
    /\ UNCHANGED <<msgs, total, status>>
    /\ KeepRest

(* reset_quote_to_paso1 and reset_quote_to_pre_context. *)
MutantResetToPaso1(b) == [b EXCEPT !.measured = None]
ResetToPaso1(b) == [b EXCEPT !.measured = None, !.calc = None]
ResetToPreContext(b) == [ResetToPaso1(b) EXCEPT !.context = None]

(* card_editor: an edit patches the card and, past Paso 1, throws Paso 2   *)
(* away; with no operation found it only answers.                          *)
Patch(b) ==
    LET base == IF Confirmed(b) \/ b.calc # None THEN ResetToPaso1(b) ELSE b
    IN [base EXCEPT !.card.edited = TRUE]

EditCard(a) ==
    LET s == req[a] IN
    /\ s.at = "dispatch" /\ s.kind = "edit"
    /\ s.bd.card # None
    /\ WriteBd(a, Patch(s.bd), "cardEdited")
    /\ total' = (s.total /\ ~Confirmed(s.bd) /\ s.bd.calc = None)
    /\ UNCHANGED <<msgs, status>>
    /\ KeepRest

AskAboutEdit(a) ==
    /\ req[a].at = "dispatch" /\ req[a].kind = "edit"
    /\ req[a].bd.card # None
    /\ FinishTurn(a, "talk")
    /\ UNCHANGED <<bd, total, status>>
    /\ KeepRest

ShowEdit(a) ==
    /\ req[a].at = "cardEdited"
    /\ FinishTurn(a, "edit")
    /\ UNCHANGED <<bd, total, status>>
    /\ KeepRest

-----------------------------------------------------------------------------
(* A message without prefix that is no card edit.                          *)

MutantFree(s) == s.at = "dispatch" /\ s.kind = "text"
Free(s) ==
    /\ s.at = "dispatch"
    /\ s.kind = "text" \/ (s.kind = "edit" /\ s.bd.card = None)

Fresh(source) == [from |-> source, edited |-> FALSE, derived |-> FALSE]

ParsesBrief(s) == s.plan = None /\ s.bd.card = None /\ ~Confirmed(s.bd)

(* A brief with measures and no plan: despiece and context in one UPDATE;  *)
(* with the context already confirmed, or its analysis failing, the        *)
(* despiece is shown at once.                                              *)
ParseBrief(a) ==
    LET s == req[a]
        read == [s.bd EXCEPT !.card = Fresh(Text)]
    IN
    /\ Free(s) /\ ParsesBrief(s)
    /\ \/ /\ s.bd.context = None
          /\ bd' = [read EXCEPT !.pending = Text]
          /\ FinishTurn(a, "context")
       \/ /\ bd' = read
          /\ FinishTurn(a, "card")
    /\ UNCHANGED <<total, status>>
    /\ KeepRest

SamePlan(s) == s.bd.hash = s.plan
MutantAlreadyRead(s) == SamePlan(s) /\ Confirmed(s.bd)
AlreadyRead(s) ==
    \/ SamePlan(s) /\ Confirmed(s.bd)
    \/ s.bd.hash = None /\ Confirmed(s.bd)

(* The message goes to the agent: nothing to parse in it, or a plan whose  *)
(* measures are confirmed (a missing hash is filled in).                   *)
GoToAgent(a) ==
    LET s == req[a] IN
    /\ Free(s)
    /\ \/ /\ s.plan = None
          /\ req' = Goes(a, "agent")
          /\ UNCHANGED bd
       \/ /\ s.plan # None
          /\ AlreadyRead(s)
          /\ WriteBd(a, [s.bd EXCEPT !.hash = s.plan], "agent")
    /\ UNCHANGED <<msgs, total, status>>
    /\ KeepRest

(* The same plan with an open despiece: it is shown again. *)
ShowAgain(a) ==
    LET s == req[a] IN
    /\ Free(s)
    /\ s.plan # None /\ SamePlan(s) /\ ~Confirmed(s.bd) /\ s.bd.card # None
    /\ FinishTurn(a, "card")
    /\ UNCHANGED <<bd, total, status>>
    /\ KeepRest

(* Any other plan is new. If another one was read before, what came of it  *)
(* is dropped first.                                                       *)
DropStale(b) == [b EXCEPT !.card = None, !.measured = None, !.calc = None]

StartReading(a) ==
    LET s == req[a] IN
    /\ Free(s)
    /\ s.plan # None /\ ~AlreadyRead(s)
    /\ ~(SamePlan(s) /\ s.bd.card # None)
    /\ IF s.bd.hash # None /\ ~SamePlan(s)
       THEN WriteBd(a, DropStale(s.bd), "reading")
       ELSE req' = Goes(a, "reading") /\ UNCHANGED bd
    /\ UNCHANGED <<msgs, total, status>>
    /\ KeepRest

(* The reading is kept; without a confirmed context its analysis is kept   *)
(* and shown first, unless the analysis fails.                             *)
FinishReading(a) ==
    LET s == req[a]
        read == [s.bd EXCEPT !.card = Fresh(s.plan), !.hash = s.plan]
    IN
    /\ s.at = "reading"
    /\ \/ /\ s.bd.context = None
          /\ WriteBd(a, [read EXCEPT !.pending = s.plan], "contextRead")
       \/ WriteBd(a, read, "cardRead")
    /\ UNCHANGED <<msgs, total, status>>
    /\ KeepRest

ReadingFails(a) ==
    /\ req[a].at = "reading"
    /\ req' = Goes(a, "agent")
    /\ UNCHANGED <<bd, msgs, total, status>>
    /\ KeepRest

ShowContext(a) ==
    /\ req[a].at = "contextRead"
    /\ FinishTurn(a, "context")
    /\ UNCHANGED <<bd, total, status>>
    /\ KeepRest

-----------------------------------------------------------------------------
(* The agent loop (AgentLoop.tla), reduced to the tools that change this   *)
(* quote: a turn calculates, generates, or both in this order.             *)

(* calculate_quote replaces the breakdown by its result and these keys.    *)
Kept(b) == [EmptyBreakdown EXCEPT !.card = b.card, !.measured = b.measured]
Measures(b) ==
    IF b.measured # None THEN b.measured.from
    ELSE IF b.card # None THEN b.card.from ELSE Text

Calculate(a) ==
    LET s == req[a] IN
    /\ s.at = "agent"
    /\ WriteBd(a, [Kept(s.bd) EXCEPT !.calc = Measures(s.bd)], "calculated")
    /\ total' = TRUE
    /\ UNCHANGED <<msgs, status>>
    /\ KeepRest

(* generate_documents keeps the breakdown when the material of the call is *)
(* its own, and else replaces it by the data of the call. A quote not yet  *)
(* delivered becomes validated unless the files could not be written.      *)
Priced(b) ==
    {[EmptyBreakdown EXCEPT !.calc = Measures(b)]}
    \cup (IF b.calc # None THEN {b} ELSE {})

Generate(a) ==
    LET s == req[a] IN
    /\ s.at \in {"agent", "calculated"}
    /\ \E b \in Priced(s.bd) : WriteBd(a, b, "generated")
    /\ total' = TRUE
    /\ status' \in {status, IF s.status \notin Delivered THEN "validated" ELSE status}
    /\ UNCHANGED msgs
    /\ KeepRest

InLoop(s) == s.at \in {"agent", "calculated", "generated"}
Said == [agent |-> "talk", calculated |-> "paso2", generated |-> "docs"]

SaveTurn(a) ==
    /\ InLoop(req[a])
    /\ FinishTurn(a, Said[req[a].at])
    /\ UNCHANGED <<bd, total, status>>
    /\ KeepRest

(* The model is overloaded: the turn ends without the save. *)
AgentFails(a) ==
    /\ InLoop(req[a])
    /\ req' = Done(a)
    /\ UNCHANGED <<bd, msgs, total, status>>
    /\ KeepRest

-----------------------------------------------------------------------------
(* The endpoints beside the chat.                                          *)

(* truncate_history_at_card: cut at the last card of the kind and show it  *)
(* again, if its data is there; without one the history stays.             *)
IsLastOf(ms, kind, i) ==
    /\ ms[i].kind = kind
    /\ \A j \in DOMAIN ms : ms[j].kind = kind => j <= i

MutantCutTurn(ms, kind, shown) ==
    IF \A i \in DOMAIN ms : ms[i].kind # kind THEN ms
    ELSE LET at == CHOOSE i \in DOMAIN ms : IsLastOf(ms, kind, i)
         IN SubSeq(ms, 1, at - 2) \o shown
MutantCutAt(ms, kind, shown) ==
    IF \A i \in DOMAIN ms : ms[i].kind # kind THEN ms
    ELSE SubSeq(ms, 1, (CHOOSE i \in DOMAIN ms : IsLastOf(ms, kind, i)) - 1)
CutAt(ms, kind, shown) ==
    IF \A i \in DOMAIN ms : ms[i].kind # kind THEN ms
    ELSE LET at == CHOOSE i \in DOMAIN ms : IsLastOf(ms, kind, i)
         IN SubSeq(ms, 1, at - 1) \o shown

Promote(b) == [ResetToPaso1(b) EXCEPT !.card = IF Confirmed(b) THEN b.measured ELSE @]

ReopenMeasurements(a) ==
    LET s == req[a] IN
    /\ s.at = "dispatch" /\ s.kind = "reopenM"
    /\ bd' = Promote(s.bd)
    /\ msgs' = CutAt(s.msgs, "card", <<[kind |-> "card", n |-> s.n]>>)
    /\ total' = FALSE
    /\ req' = Done(a)
    /\ UNCHANGED status
    /\ KeepRest

Underived(b) ==
    [b EXCEPT !.card = IF @ = None THEN @ ELSE [@ EXCEPT !.derived = FALSE]]

(* The card of the context has no data after a calculation, whose kept     *)
(* keys leave out the analysis: then the chat ends before it.              *)
ContextCard(s) == IF s.bd.pending = None THEN <<>> ELSE <<[kind |-> "context", n |-> s.n]>>

ReopenContext(a) ==
    LET s == req[a] IN
    /\ s.at = "dispatch" /\ s.kind = "reopenC"
    /\ bd' = Underived(ResetToPreContext(s.bd))
    /\ msgs' = CutAt(s.msgs, "context", ContextCard(s))
    /\ total' = FALSE
    /\ req' = Done(a)
    /\ UNCHANGED status
    /\ KeepRest

(* A second reading of the same crop; on an error nothing is written. *)
DualReadRetry(a) ==
    LET s == req[a] IN
    /\ s.at = "dispatch" /\ s.kind = "retry"
    /\ bd' \in {bd, [s.bd EXCEPT !.card = Fresh(s.bd.card.from)]}
    /\ req' = Done(a)
    /\ UNCHANGED <<msgs, total, status>>
    /\ KeepRest

(* By hand, beside every request: the status endpoint along its table,     *)
(* PATCH of the quote to any status, and /validate, which needs some       *)
(* breakdown, be it keys that are not modelled here (a client's name), and *)
(* validates whether or not it holds a price and the files were written.   *)
VALID_TRANSITIONS ==
    [draft |-> {"validated", "pending"}, pending |-> {"validated", "draft"},
     validated |-> {"sent", "draft"}, sent |-> {"validated"}]

Becomes(to) ==
    /\ started < MaxRequests
    /\ started' = started + 1
    /\ status' = to
    /\ UNCHANGED <<bd, msgs, total, files, disk, req, uploads>>

UpdateStatus == \E to \in VALID_TRANSITIONS[status] : Becomes(to)
PatchStatus == \E to \in Status : Becomes(to)
Validate == Becomes("validated")

(* The client leaves between two commits of a turn. *)
Disconnect(a) ==
    /\ Disconnects
    /\ req[a].at # "idle"
    /\ req[a].kind \notin {"reopenM", "reopenC", "retry"}
    /\ req' = Done(a)
    /\ UNCHANGED <<bd, msgs, total, status>>
    /\ KeepRest

Send(a) ==
    SendText(a) \/ SendPlan(a) \/ SendContext(a) \/ SendMeasures(a) \/ SendOther(a)

Step(a) ==
    \/ InvalidateRead(a) \/ OpenStream(a)
    \/ ConfirmContext(a) \/ ConfirmMeasures(a)
    \/ EditCard(a) \/ AskAboutEdit(a) \/ ShowEdit(a)
    \/ ParseBrief(a) \/ GoToAgent(a) \/ ShowAgain(a)
    \/ StartReading(a) \/ FinishReading(a) \/ ReadingFails(a)
    \/ ShowContext(a) \/ ShowCard(a)
    \/ Calculate(a) \/ Generate(a) \/ SaveTurn(a) \/ AgentFails(a)
    \/ ReopenMeasurements(a) \/ ReopenContext(a) \/ DualReadRetry(a)

Next ==
    \/ \E a \in Actors : Send(a) \/ Step(a) \/ Disconnect(a)
    \/ UpdateStatus \/ PatchStatus \/ Validate

Spec == Init /\ [][Next]_vars

(* Every await of a request has a timeout, so a request moves on. *)
FairSpec == Spec /\ \A a \in Actors : WF_vars(Step(a))

-----------------------------------------------------------------------------
(* Safety.                                                                 *)

Settled == \A a \in Actors : req[a].at = "idle"

(* The measures confirmed are those of the despiece on the card: whatever  *)
(* replaces or drops the card (a new plan, an edit, a reopening, a second  *)
(* reading) never leaves confirmed measures of something else behind, in   *)
(* the row or in the copy the request works on. One operator at a time: a  *)
(* tab that was left behind confirms the despiece it still shows.          *)
MeasuredIsCard(b) ==
    b.measured # None => b.card # None /\ b.measured.from = b.card.from

MeasuredOfCard ==
    /\ MeasuredIsCard(bd)
    /\ \A a \in Actors : MeasuredIsCard(req[a].bd)

(* Between requests, a despiece waiting for its confirmation can be        *)
(* confirmed from the chat: the last card shown is the despiece, or the    *)
(* context while the context is open. breakdown and messages are written   *)
(* by different commits and cut by the reopen endpoints. No card is left   *)
(* only after reopening a context whose analysis a calculation has dropped *)
(* (the operator's next plan or edit shows one).                           *)
ConfirmableCard ==
    Settled /\ bd.card # None /\ ~Confirmed(bd) =>
        /\ LastShown(msgs) = "nothing" => bd.pending = None /\ bd.context = None
        /\ bd.context # None => LastShown(msgs) # "context"

(* Between requests, a quote with a Paso 2 has its totals in the columns   *)
(* the dashboard lists.                                                    *)
PricedHasTotals == Settled /\ bd.calc # None => total

(* What the operator finds between requests: a card that waits for a       *)
(* confirmation is on the screen, and a price is on the dashboard.         *)
BetweenRequests == ConfirmableCard /\ PricedHasTotals

(* A message about a plan whose measures are confirmed never puts another  *)
(* card in the chat, although a calculation drops the plan hash (the kept  *)
(* keys of calculate_quote and the backfilled hash are there for this).    *)
Shows(ms, n, kinds) == ms # <<>> /\ Last(ms).n = n /\ Last(ms).kind \in kinds

NoSecondCard ==
    [][\A a \in Actors :
          /\ req[a].kind = "text"
          /\ req[a].at # "idle" /\ req'[a].at = "idle"
          /\ Confirmed(bd) /\ bd.measured.from = req[a].plan
          => ~Shows(msgs', req[a].n, {"context", "card"})]_vars

(* "Nunca borrar el brief inicial del operador": the first turn stays. *)
BriefKept == [][msgs # <<>> => msgs' # <<>> /\ msgs'[1] = msgs[1]]_vars

(* However the uploads of several tabs interleave, a source file is listed *)
(* once and the chat can restore it: its bytes are on disk.                *)
SourcesOnDisk ==
    /\ IsInjective(files)
    /\ \A f \in ToSet(files) : disk[f] # None

(* Every request is answered: each message, in every state of the quote,   *)
(* meets a branch that handles it.                                         *)
RequestsEnd == \A a \in Actors : req[a].at # "idle" ~> req[a].at = "idle"

(* With one operator the row keeps the promise of QuotePromise: measures   *)
(* are confirmed as the card shows them, priced as they were confirmed, a  *)
(* price is withdrawn with the confirmation it came from, and the agent    *)
(* delivers only what is priced, although every step writes back a copy of *)
(* the row that was loaded before a model was asked, and whatever status   *)
(* the quote is given by hand meanwhile.                                   *)
SourceOf(d) == IF d = None THEN None ELSE d.from

Promise == INSTANCE QuotePromise WITH
    Brief <- Text,
    card <- SourceOf(bd.card),
    confirmed <- SourceOf(bd.measured),
    priced <- bd.calc,
    delivered <- status \in Delivered

PromiseKept == Promise!Spec

(* Statements of the repository's comments and docs the code does not keep. *)

(* The corrections of the operator survive a message that brings no plan.  *)
EditsKept ==
    [][\A a \in Actors :
          /\ StartReading(a) \/ FinishReading(a)
          /\ req[a].name = None
          /\ bd.card # None /\ bd.card.edited /\ bd.card.from = req[a].plan
          => bd'.card = bd.card]_vars

(* Confirming the measures keeps the pieces the confirmed answers imply.   *)
LegsKept ==
    [][\A a \in Actors :
          ConfirmMeasures(a) /\ req[a].card.derived => bd'.measured.derived]_vars

(* What a turn with a plan hands to the agent was read from that plan.     *)
UploadIsRead ==
    [][\A a \in Actors :
          GoToAgent(a) /\ req[a].name # None /\ Confirmed(req[a].bd)
          => req[a].bd.measured.from = req[a].plan]_vars
=============================================================================
