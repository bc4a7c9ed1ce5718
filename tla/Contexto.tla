------------------------------ MODULE Contexto ------------------------------
(***************************************************************************)
(* What the confirmations do to the measures of a quote: the plan is read  *)
(* and its questions are asked, the context card is answered, the despiece *)
(* is edited on the screen and confirmed, and either card is reopened      *)
(* (agent.py: the dual read, [CONTEXT_CONFIRMED], [DUAL_READ_CONFIRMED];   *)
(* router.py: the reopen endpoints).  QuoteFlow has the interleavings of   *)
(* these handlers and leaves the content of the cards opaque; this module  *)
(* runs each handler whole and has the content.                            *)
(***************************************************************************)
EXTENDS Questions

CONSTANTS Jobs,       \* a brief and the reading of its plan: [claims, analysis, card]
          TextJob,    \* a brief that writes the despiece out
          Replies,    \* the lists of answers a card may be sent back with
          Lengths,    \* the lengths the operator may type over one on the card
          None,
          MaxReads, MaxEdits, MaxReopens

ASSUME ContextoBounds == MaxReads \in Nat /\ MaxEdits \in Nat /\ MaxReopens \in Nat

VARIABLES row,      \* the breakdown: dual_read_result and what is confirmed of it
          screen,   \* the despiece card in front of the operator, or None
          reads, edits, reopens

vars == <<row, screen, reads, edits, reopens>>

Init ==
    /\ row = [dual |-> None,       \* dual_read_result
              asked |-> {},        \* the questions and detections of context_analysis_pending
              analysis |-> None,   \* brief_analysis
              answers |-> None,    \* verified_context_analysis
              verified |-> None,   \* verified_measurements
              attrs |-> None]      \* verified_commercial_attrs
    /\ screen = None
    /\ reads = 0 /\ edits = 0 /\ reopens = 0

(***************************************************************************)
(* Reading                                                                 *)
(***************************************************************************)
\* A plan is read, its questions with it.  Everything read and measured of an
\* earlier plan is dropped first; the confirmed context is not, and with one
\* the despiece is shown at once.
ReadPlan(j) ==
    LET fresh == [row EXCEPT !.verified = None]
        card == [j.card EXCEPT !.questions = PendingQuestions(j.claims, j.card)]
        known == Detected(j.analysis, j.card)
    IN  /\ reads < MaxReads
        /\ IF row.answers = None
           THEN /\ row' = [fresh EXCEPT !.dual = card, !.analysis = j.analysis,
                                        !.asked = card.questions \cup known]
                /\ screen' = None
           ELSE /\ row' = [fresh EXCEPT !.dual = card]
                /\ screen' = card
        /\ reads' = reads + 1
        /\ UNCHANGED <<edits, reopens>>

\* A brief that writes the pieces out becomes a card that asks nothing; what
\* else it says is shown on the context card and not kept.
ReadText ==
    /\ reads < MaxReads /\ row.dual = None /\ row.answers = None
    /\ row' = [row EXCEPT !.dual = TextJob.card,
                          !.asked = Detected(TextJob.analysis, TextJob.card)]
    /\ reads' = reads + 1
    /\ UNCHANGED <<screen, edits, reopens>>

(***************************************************************************)
(* The two confirmations                                                   *)
(***************************************************************************)
\* A card is sent back with answers to what it asks.
Reply(as, questions) == SelectSeq(as, LAMBDA a : a.id \in questions)

\* [CONTEXT_CONFIRMED]: the answers into the despiece, then the pieces they
\* add.  A despiece that was written out is left as it is.
Materialised(c, as) ==
    LET applied == IF as = <<>> THEN c ELSE [ApplyAnswers(c, as) EXCEPT !.questions = {}]
    IN  IF c.source = "TEXT" THEN [c EXCEPT !.questions = {}]
        ELSE MergeAlzada(MergePatas(applied, IslaPieces(as, applied)))

ConfirmContext(as) ==
    /\ row.dual # None
    /\ LET sent == Reply(as, row.asked)
           card == Materialised(row.dual, sent)
       IN  row' = [row EXCEPT !.answers = sent, !.dual = card] /\ screen' = card
    /\ UNCHANGED <<reads, edits, reopens>>

\* The operator types another length for a piece that was read.
EditScreen(i, j, n) ==
    /\ screen # None /\ edits < MaxEdits
    /\ i \in DOMAIN screen.sectores /\ j \in DOMAIN screen.sectores[i].tramos
    /\ screen.sectores[i].tramos[j].derived = "no"
    /\ screen' = [screen EXCEPT !.sectores[i].tramos[j].largo = n]
    /\ edits' = edits + 1
    /\ UNCHANGED <<row, reads, reopens>>

\* A mutant of Final: the answers sent with the card last.
MutantFinal(c, turn, ctx) ==
    LET risen == MergeAlzada(ApplyAnswers(c, ctx))
    IN  MergePatas(ApplyAnswers(risen, turn), IslaPieces(ctx \o turn, risen))

\* A mutant of Final: the legs stay as they were when the context was confirmed.
MutantOldLegs(c, turn, ctx) == MergeAlzada(ApplyAnswers(ApplyAnswers(c, turn), ctx))

\* [DUAL_READ_CONFIRMED]: the answers sent with the card, then those of the
\* context again, then the pieces they add, over the measures on the screen.
Final(c, turn, ctx) ==
    LET applied == ApplyAnswers(ApplyAnswers(c, turn), ctx)
        risen == MergeAlzada(applied)
    IN  MergePatas(risen, IslaPieces(ctx \o turn, risen))

NothingSaid == [pileta |-> "none", anafes |-> -1, isla |-> FALSE]
Analysis == IF row.analysis = None THEN NothingSaid ELSE row.analysis
Context == IF row.answers = None THEN <<>> ELSE row.answers

ConfirmMeasures(turn) ==
    /\ screen # None
    /\ LET sent == Reply(turn, screen.questions)
       IN  row' = [row EXCEPT !.verified = Final(screen, sent, Context),
                              !.attrs = Attrs(Analysis, row.dual, Context \o sent)]
    /\ screen' = None
    /\ UNCHANGED <<reads, edits, reopens>>

(***************************************************************************)
(* Editing again                                                           *)
(***************************************************************************)
\* The confirmed measures become the despiece that is edited.
ReopenMeasures ==
    /\ row.verified # None /\ reopens < MaxReopens
    /\ row' = [row EXCEPT !.dual = row.verified, !.verified = None, !.attrs = None]
    /\ screen' = row.verified
    /\ reopens' = reopens + 1
    /\ UNCHANGED <<reads, edits>>

\* The pieces the answers added go; what they changed in the others stays.
ReopenContext ==
    /\ row.answers # None /\ row.dual # None /\ reopens < MaxReopens
    /\ row' = [row EXCEPT !.dual = ClearDerived(row.dual), !.answers = None,
                          !.verified = None, !.attrs = None]
    /\ screen' = None
    /\ reopens' = reopens + 1
    /\ UNCHANGED <<reads, edits>>

Next ==
    \/ \E j \in Jobs : ReadPlan(j)
    \/ ReadText
    \/ \E as \in Replies : ConfirmContext(as)
    \/ \E i, j \in 1..4, n \in Lengths : EditScreen(i, j, n)
    \/ \E as \in Replies : ConfirmMeasures(as)
    \/ ReopenMeasures
    \/ ReopenContext

Spec == Init /\ [][Next]_vars

(***************************************************************************)
(* Properties                                                              *)
(***************************************************************************)
IsCard(c) ==
    /\ c.source \in {"PLAN", "TEXT"} /\ c.alto \in Nat /\ c.alzada \in BOOLEAN
    /\ \A s \in Sectors(c) : \A t \in Tramos(s) :
          /\ t.largo \in Nat /\ t.ancho \in Nat
          /\ t.derived \in {"no", "isla_pata", "alzada"}
          /\ \A z \in t.zocalos : z.ml \in Nat
          /\ \A f \in t.frentin \cup t.regrueso : f.ml > 0 /\ f.alto > 0

\* The cards hold what the code gives them: lengths, the kinds of pieces, and
\* no front piece without a length and a height.
TypeOK ==
    /\ \A c \in {row.dual, row.verified, screen} : c = None \/ IsCard(c)
    /\ reads \in 0..MaxReads /\ edits \in 0..MaxEdits /\ reopens \in 0..MaxReopens

Cards == {row.dual, row.verified, screen} \ {None}
Pieces(s, kind) == {i \in DOMAIN s.tramos : s.tramos[i].derived = kind}

\* However often the cards are confirmed and reopened, and with whatever
\* answers, an added piece is there once (one alzada for each wall, one leg
\* for each side of the island) and carries no zocalo, frentin or regrueso of
\* its own (dual_reader.py: the merges; agent.py applies the answers first).
AddedOnce ==
    \A c \in Cards : \A s \in Sectors(c) :
        /\ Cardinality(Pieces(s, "alzada")) <= IF IsIsla(s) THEN 0 ELSE 1
        /\ \A i, j \in Pieces(s, "isla_pata") :
              IsIsla(s) /\ (s.tramos[i].desc = s.tramos[j].desc => i = j)
        /\ \A t \in Tramos(s) \ Own(s) : t.zocalos \cup t.frentin \cup t.regrueso = {}

\* The measures are confirmed under the context of the row.  (Sending the
\* context again over confirmed measures replaces it and leaves them.)
Confirmed ==
    /\ row.verified # None
    /\ Len(Context) <= Len(row.attrs.answers)
    /\ SubSeq(row.attrs.answers, 1, Len(Context)) = Context
Says(q, v) == LastAnswer(Context, q).value = v
Said(q) == LastAnswer(Context, q).detail.n

\* The alzada of the confirmed measures is the one the context asks for, as
\* long as the measured pieces of its wall are after the last edit of the card
\* (agent.py: the answers are applied again over the edited card).
AlzadaAsAnswered ==
    Confirmed => \A s \in Sectors(row.verified) :
        /\ Says("alzada", "no") => Pieces(s, "alzada") = {}
        /\ Says("alzada", "preset") /\ ~IsIsla(s) /\ Perimeter(s) > 0 =>
              \E i \in Pieces(s, "alzada") :
                  s.tramos[i].largo = Perimeter(s) /\ s.tramos[i].ancho = Said("alzada")

\* So are the frentin and the regrueso of every piece that was measured, as
\* long as the piece is now.
ExtrasAsAnswered ==
    Confirmed => \A s \in Sectors(row.verified) : \A t \in Own(s) :
        /\ Says("frentin", "no") => t.frentin = {}
        /\ Says("frentin", "preset") =>
              t.frentin = ItemsFor(t, {"frente"}, Said("frentin"))
        /\ Says("regrueso", "no") => t.regrueso = {}

\* So is the island: gone when the context denies it, as deep as the context
\* says, and with a front leg as long as the island is on the edited card.
IslaAsAnswered ==
    Confirmed => \A s \in Sectors(row.verified) : IsIsla(s) =>
        /\ ~Says("isla", "no")
        /\ Says("profundidad", "preset") => \A t \in Own(s) : t.ancho = Said("profundidad")
        /\ \A t \in Tramos(s) : t.derived = "isla_pata" /\ t.desc = "frontal" =>
              \E own \in Own(s) : own.largo = t.largo

\* Confirming the same measures under the same answers again changes nothing
\* (the comments of the merges: reconfirming replaces the old pieces).
ConfirmedOnceForAll ==
    Confirmed /\ row.attrs.answers = Context => Final(row.verified, <<>>, Context) = row.verified

\* However often the two cards are confirmed, edited and reopened, the pieces
\* of the answers are there once and a repeated confirmation is idempotent.
OnceForAll == TypeOK /\ AddedOnce /\ ConfirmedOnceForAll

\* The confirmed measures are those the last answers ask for, whatever the
\* earlier ones had added, cut or resized.
AsAnswered == AlzadaAsAnswered /\ ExtrasAsAnswered /\ IslaAsAnswered

OwnLengths(c) ==
    LET Lens(s) == LET own == SelectSeq(s.tramos, LAMBDA t : t.derived = "no")
                   IN  [i \in DOMAIN own |-> own[i].largo]
        walls == SelectSeq(c.sectores, LAMBDA s : ~IsIsla(s))
    IN  [i \in DOMAIN walls |-> Lens(walls[i])]

\* No answer changes a length the operator sees on the card, adds a measured
\* piece to a wall or takes one away: they confirm what they read.
LengthsAreTheOperators ==
    [][row'.verified # row.verified /\ row'.verified # None =>
          OwnLengths(row'.verified) = OwnLengths(screen)]_vars

\* "Replace, no merge blando ... Ninguno hace append.  Answers son fuente de
\* verdad" (agent.py:2264-2268): a zocalo the answer added is as long as its
\* piece, and there is none once the answer is no.
ZocalosAsAnswered ==
    Confirmed => \A s \in Sectors(row.verified) : \A t \in Own(s) : \A z \in t.zocalos :
        z.source = "rule" => ~Says("zocalos", "no") /\ z.ml \in {0, t.largo}
=============================================================================
