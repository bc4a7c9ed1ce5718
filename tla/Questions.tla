----------------------------- MODULE Questions -----------------------------
(***************************************************************************)
(* "Preguntar antes de asumir": which questions the context card asks      *)
(* (pending_questions.py, required_fields.py), what every answer does to   *)
(* the despiece (the apply_* functions) and the pieces the answers add to  *)
(* it (build_derived_isla_pieces and the merges of dual_reader.py).        *)
(*                                                                         *)
(* Lengths are centimetres.  A brief is the set of the things its regular  *)
(* expressions find in it; the free text of a "custom" answer is the       *)
(* number in it and the way it is written, which is what float(), int()    *)
(* and the two parsers of the code tell apart.                             *)
(***************************************************************************)
EXTENDS Integers, Sequences, FiniteSets

CONSTANTS Columns   \* the columns of the quote that are filled before the plan is read

(***************************************************************************)
(* The despiece                                                            *)
(***************************************************************************)
Sectors(c) == {c.sectores[i] : i \in DOMAIN c.sectores}
Tramos(s) == {s.tramos[i] : i \in DOMAIN s.tramos}
Own(s) == {t \in Tramos(s) : t.derived = "no"}
IsIsla(s) == s.tipo = "isla"
HasIsla(c) == \E s \in Sectors(c) : IsIsla(s)

EachTramo(c, G(_, _)) ==
    [c EXCEPT !.sectores = [i \in DOMAIN c.sectores |->
        LET s == c.sectores[i]
        IN  [s EXCEPT !.tramos = [j \in DOMAIN s.tramos |-> G(s, s.tramos[j])]]]]

EachSector(c, G(_)) == [c EXCEPT !.sectores = [i \in DOMAIN c.sectores |-> G(c.sectores[i])]]

(***************************************************************************)
(* The questions                                                           *)
(***************************************************************************)
NonCocina == {"bano", "lavadero", "isla"}

\* A sector of any other type, a brief that says so, or no sign of another room.
IsCocinaWork(b, c) ==
    \/ \E s \in Sectors(c) : s.tipo \notin NonCocina
    \/ "cocina" \in b
    \/ c.sectores # <<>> /\ \A s \in Sectors(c) : s.tipo \notin NonCocina

MentionsIsla(b) == "isla" \in b /\ "sin_isla" \notin b
MentionsZocalos(b) == b \cap {"sin_zocalos", "con_zocalos"} # {}

AsksMaterial(b) == "material" \notin Columns \cup b
AsksLocalidad(b) == "localidad" \notin Columns \cup b

AsksPileta(b, c) ==
    /\ IsCocinaWork(b, c)
    /\ b \cap {"sin_pileta", "pileta_kind"} = {}
    /\ \A s \in Sectors(c) : \A t \in Tramos(s) : t.sink \notin {"simple", "doble"}

AsksAnafe(b, c) == IsCocinaWork(b, c) /\ b \cap {"anafes", "sin_anafe"} = {}

\* "cocina recta" and "cocina en L" count as a brief that denies the island.
AsksIsla(b, c) ==
    /\ ~HasIsla(c)
    /\ b \cap {"isla", "sin_isla", "cocina_recta"} = {}

IslaPossible(b, c) == HasIsla(c) \/ MentionsIsla(b) \/ AsksIsla(b, c)
AsksProfundidad(b, c) == IslaPossible(b, c) /\ "isla_profundidad" \notin b
AsksPatas(b, c) == IslaPossible(b, c)
AsksPatasAlto(b, c) == IslaPossible(b, c) /\ "patas_alto" \notin b

AsksZocalos(b, c) ==
    /\ ~MentionsZocalos(b)
    /\ \A s \in Sectors(c) : \A t \in Tramos(s) : \A z \in t.zocalos : z.ml = 0

HasNonIsla(c) == \E s \in Sectors(c) : ~IsIsla(s)
AsksAlzada(b, c) ==
    /\ HasNonIsla(c) \/ IsCocinaWork(b, c)
    /\ b \cap {"alzada", "sin_alzada"} = {}

HasAnyTramo(c) == \E s \in Sectors(c) : Own(s) # {}
AsksFrentin(b, c) == b \cap {"sin_frentin", "frentin_cm"} = {} /\ HasAnyTramo(c)
AsksRegrueso(b, c) == b \cap {"sin_regrueso", "regrueso_cm"} = {} /\ HasAnyTramo(c)
AsksColocacion(b) == "colocacion" \notin b

PendingQuestions(b, c) ==
    {q \in {"material", "localidad", "pileta", "anafe", "isla", "profundidad", "patas",
            "patas_alto", "zocalos", "alzada", "frentin", "regrueso", "colocacion"} :
        CASE q = "material" -> AsksMaterial(b)
          [] q = "localidad" -> AsksLocalidad(b)
          [] q = "pileta" -> AsksPileta(b, c)
          [] q = "anafe" -> AsksAnafe(b, c)
          [] q = "isla" -> AsksIsla(b, c)
          [] q = "profundidad" -> AsksProfundidad(b, c)
          [] q = "patas" -> AsksPatas(b, c)
          [] q = "patas_alto" -> AsksPatasAlto(b, c)
          [] q = "zocalos" -> AsksZocalos(b, c)
          [] q = "alzada" -> AsksAlzada(b, c)
          [] q = "frentin" -> AsksFrentin(b, c)
          [] q = "regrueso" -> AsksRegrueso(b, c)
          [] q = "colocacion" -> AsksColocacion(b)}

(***************************************************************************)
(* What the brief and the plan say of the sinks, the hobs and the island   *)
(***************************************************************************)
Feature(c, k) == \E s \in Sectors(c) : \E t \in Tramos(s) : t.sink = k
Cooktops(c) ==
    LET All == {<<i, j>> \in (DOMAIN c.sectores) \X (1..8) :
                    j \in DOMAIN c.sectores[i].tramos /\ c.sectores[i].tramos[j].cooktop}
    IN  Cardinality(All)

PlanPileta(c) ==
    CASE Feature(c, "doble") -> "doble"
      [] ~Feature(c, "doble") /\ Feature(c, "simple") -> "simple"
      [] ~Feature(c, "doble") /\ ~Feature(c, "simple") /\ Feature(c, "seen") -> "seen"
      [] OTHER -> "none"

NoAttr == [value |-> "none", source |-> "default"]

\* The brief wins over the plan; a value nobody gave stays without one.
ReconcilePileta(a, c) ==
    CASE a.pileta \in {"simple", "doble", "no"} -> [value |-> a.pileta, source |-> "brief"]
      [] a.pileta = "none" /\ PlanPileta(c) \in {"simple", "doble"} ->
            [value |-> PlanPileta(c), source |-> "dual_read"]
      [] OTHER -> NoAttr

ReconcileAnafe(a, c) ==
    CASE a.anafes >= 0 -> [value |-> a.anafes, source |-> "brief"]
      [] a.anafes < 0 /\ Cooktops(c) > 0 -> [value |-> Cooktops(c), source |-> "dual_read"]
      [] OTHER -> [value |-> -1, source |-> "default"]

ReconcileIsla(a, c) ==
    CASE a.isla -> [value |-> "yes", source |-> "brief"]
      [] ~a.isla /\ HasIsla(c) -> [value |-> "yes", source |-> "dual_read"]
      [] OTHER -> NoAttr

\* The questions a detection of the context card stands in for.
Detected(a, c) ==
    {q \in {"isla", "pileta", "anafe"} :
        CASE q = "isla" -> ReconcileIsla(a, c) # NoAttr
          [] q = "pileta" -> ReconcilePileta(a, c) # NoAttr
          [] q = "anafe" -> ReconcileAnafe(a, c).value >= 0}

(***************************************************************************)
(* The answers                                                             *)
(***************************************************************************)
\* What float() and int() make of the free text, what the parser of the
\* derived pieces makes of it (a comma and a final "m" are fine), and the
\* parser of frentin and regrueso (only "N cm").
AsNumber(d) == IF d.form = "plain" THEN d.n ELSE 0
AsMetres(d) == IF d.form \in {"plain", "comma", "metres"} THEN d.n ELSE 0
AsCentimetres(d) == IF d.form = "cm" THEN d.n ELSE 0

ApplyZocalos(c, a) ==
    LET Add(s, t) ==
            IF (\E z \in t.zocalos : z.ml > 0) \/ a.value \notin {"default_trasero", "custom"}
            THEN t
            ELSE [t EXCEPT !.zocalos = @ \cup {[source |-> "rule", ml |-> t.largo]}]
    IN  EachTramo(c, Add)

ApplyPileta(c, a) ==
    LET Fit(s) == IF s.tipo = "cocina" THEN [s EXCEPT !.pileta = a.value] ELSE s
    IN  EachSector(c, Fit)

Depth(a) == IF a.value = "custom" THEN AsNumber(a.detail) ELSE a.detail.n

\* The tramos of the island sectors or, when no sector is an island, the
\* tramos that are one inside another sector.
ApplyProfundidad(c, a) ==
    LET InSector == \E s \in Sectors(c) : IsIsla(s) /\ s.tramos # <<>>
        Set(s, t) == IF IsIsla(s) \/ (~InSector /\ t.isla)
                     THEN [t EXCEPT !.ancho = Depth(a)] ELSE t
    IN  IF Depth(a) \in 1..500 THEN EachTramo(c, Set) ELSE c

Sides(v) ==
    CASE v = "all" -> {"frontal", "lateral_izq", "lateral_der"}
      [] v = "front" -> {"frontal"}
      [] v = "laterals" -> {"lateral_izq", "lateral_der"}
      [] OTHER -> {}

ApplyPatas(c, a) ==
    LET Legs(s) == IF IsIsla(s) THEN [s EXCEPT !.patas = [sides |-> Sides(a.value), alto |-> 90]]
                   ELSE s
    IN  EachSector(c, Legs)

ApplyPatasAlto(c, a) ==
    LET Legs(s) == IF IsIsla(s) /\ s.patas.sides # {}
                   THEN [s EXCEPT !.patas.alto = Depth(a)] ELSE s
    IN  IF Depth(a) \in 1..500 THEN EachSector(c, Legs) ELSE c

ApplyIsla(c, a) ==
    IF a.value = "no"
    THEN [c EXCEPT !.sectores = SelectSeq(c.sectores, LAMBDA s : ~IsIsla(s))]
    ELSE c

ApplyAlzada(c, a) ==
    LET cm == IF a.value = "preset" THEN a.detail.n ELSE AsNumber(a.detail)
    IN  IF a.value = "no" THEN [c EXCEPT !.alzada = FALSE]
        ELSE IF cm <= 0 THEN c ELSE [c EXCEPT !.alzada = TRUE, !.alto = cm]

MlFor(t, lado) == IF lado = "lateral_izq" THEN t.ancho ELSE t.largo
\* A mutant of ItemsFor: a piece without a measure too.
MutantUnmeasured(t, lados, alto) == {[lado |-> l, ml |-> MlFor(t, l), alto |-> alto] : l \in lados}

ItemsFor(t, lados, alto) ==
    {[lado |-> l, ml |-> MlFor(t, l), alto |-> alto] : l \in {k \in lados : MlFor(t, k) > 0}}

\* frentin and regrueso: the list of each own tramo is replaced; "no" empties
\* it on every tramo; a free text without "N cm" leaves everything as it is.
ExtraItems(t, a) ==
    ItemsFor(t, IF a.value = "preset" THEN {"frente"} ELSE a.detail.lados,
             IF a.value = "preset" THEN a.detail.n ELSE AsCentimetres(a.detail))
ExtraApplies(a) == a.value = "preset" \/ AsCentimetres(a.detail) > 0

\* A mutant of ApplyFrentin: the new front pieces beside the old ones.
MutantAppended(c, a) ==
    LET Put(s, t) == IF t.derived = "no" /\ a.value # "no" /\ ExtraApplies(a)
                     THEN [t EXCEPT !.frentin = @ \cup ExtraItems(t, a)] ELSE t
    IN  EachTramo(c, Put)

ApplyFrentin(c, a) ==
    LET Put(s, t) == CASE a.value = "no" -> [t EXCEPT !.frentin = {}]
                       [] a.value # "no" /\ t.derived = "no" /\ ExtraApplies(a) ->
                            [t EXCEPT !.frentin = ExtraItems(t, a)]
                       [] OTHER -> t
    IN  EachTramo(c, Put)

ApplyRegrueso(c, a) ==
    LET Put(s, t) == CASE a.value = "no" -> [t EXCEPT !.regrueso = {}]
                       [] a.value # "no" /\ t.derived = "no" /\ ExtraApplies(a) ->
                            [t EXCEPT !.regrueso = ExtraItems(t, a)]
                       [] OTHER -> t
    IN  EachTramo(c, Put)

ApplyAnafe(c, a) ==
    [c EXCEPT !.anafes = IF a.value = "three" /\ AsNumber(a.detail) = 0
                         THEN 3 ELSE a.detail.n]

ApplyAnswer(c, a) ==
    CASE a.id = "zocalos" -> ApplyZocalos(c, a)
      [] a.id = "pileta" -> ApplyPileta(c, a)
      [] a.id = "isla" -> ApplyIsla(c, a)
      [] a.id = "profundidad" -> ApplyProfundidad(c, a)
      [] a.id = "patas" -> ApplyPatas(c, a)
      [] a.id = "patas_alto" -> ApplyPatasAlto(c, a)
      [] a.id = "alzada" -> ApplyAlzada(c, a)
      [] a.id = "frentin" -> ApplyFrentin(c, a)
      [] a.id = "regrueso" -> ApplyRegrueso(c, a)
      [] a.id = "anafe" -> ApplyAnafe(c, a)
      [] OTHER -> [c EXCEPT !.hints = @ \cup {a.id}]

\* In the order in which they were sent.
ApplyAnswers(c, as) ==
    LET upto[n \in 0..Len(as)] == IF n = 0 THEN c ELSE ApplyAnswer(upto[n - 1], as[n])
    IN  upto[Len(as)]

(***************************************************************************)
(* The pieces the answers add                                              *)
(***************************************************************************)
\* The last answer to a question, or NoAnswer.
NoAnswer == [id |-> "none", value |-> "none", detail |-> [form |-> "words", n |-> 0]]
LastAnswer(as, q) ==
    LET at == {i \in DOMAIN as : as[i].id = q}
    IN  IF at = {} THEN NoAnswer ELSE as[CHOOSE i \in at : \A j \in at : j <= i]

ParsedAnswer(as, q) ==
    AsMetres(LastAnswer(as, q).detail)

\* The first tramo with a length of the first island sector that has one.
IslaLargo(c) ==
    LET at == {p \in (DOMAIN c.sectores) \X (1..8) :
                  /\ IsIsla(c.sectores[p[1]])
                  /\ p[2] \in DOMAIN c.sectores[p[1]].tramos
                  /\ c.sectores[p[1]].tramos[p[2]].largo > 0}
    IN  IF at = {} THEN 0
        ELSE LET first == CHOOSE p \in at : \A q \in at : p[1] < q[1] \/ (p[1] = q[1] /\ p[2] <= q[2])
             IN  c.sectores[first[1]].tramos[first[2]].largo

Derived(kind, desc, largo, ancho) ==
    [largo |-> largo, ancho |-> ancho, zocalos |-> {}, frentin |-> {}, regrueso |-> {},
     derived |-> kind, desc |-> desc, isla |-> FALSE, sink |-> "none", cooktop |-> FALSE]

\* All of the pieces or, when a measure is missing, none.
IslaPieces(as, c) ==
    LET sides == Sides(LastAnswer(as, "patas").value)
        alto == ParsedAnswer(as, "patas_alto")
        prof == ParsedAnswer(as, "profundidad")
        Missing == \/ alto = 0
                   \/ prof = 0 /\ "lateral_izq" \in sides
                   \/ IslaLargo(c) = 0 /\ "frontal" \in sides
        Piece(side) == Derived("isla_pata", side, IF side = "frontal" THEN IslaLargo(c) ELSE prof, alto)
    IN  IF Missing THEN <<>>
        ELSE SelectSeq(<<Piece("frontal"), Piece("lateral_izq"), Piece("lateral_der")>>,
                       LAMBDA p : p.desc \in sides)

\* A mutant of Without: the last piece of the list is taken for the old one.
MutantLast(tramos, kind) == SubSeq(tramos, 1, Len(tramos) - 1)

Without(tramos, kind) == SelectSeq(tramos, LAMBDA t : t.derived # kind)

\* A mutant of MergePatas: the legs of an earlier confirmation are kept.
MutantKeepLegs(c, pieces) ==
    LET at == {i \in DOMAIN c.sectores : IsIsla(c.sectores[i])}
        k == CHOOSE i \in at : \A j \in at : i <= j
    IN  IF at = {} THEN c ELSE [c EXCEPT !.sectores[k].tramos = @ \o pieces]

\* Only the first island sector has its legs replaced.
MergePatas(c, pieces) ==
    LET at == {i \in DOMAIN c.sectores : IsIsla(c.sectores[i])}
        k == CHOOSE i \in at : \A j \in at : i <= j
    IN  IF at = {} THEN c
        ELSE [c EXCEPT !.sectores[k].tramos = Without(@, "isla_pata") \o pieces]

\* A mutant of Perimeter: the added pieces count.
MutantPerimeter(s) ==
    LET upto[n \in 0..Len(s.tramos)] ==
            IF n = 0 THEN 0 ELSE upto[n - 1] + s.tramos[n].largo
    IN  upto[Len(s.tramos)]

Perimeter(s) ==
    LET upto[n \in 0..Len(s.tramos)] ==
            IF n = 0 THEN 0
            ELSE upto[n - 1] + (IF s.tramos[n].derived = "no" THEN s.tramos[n].largo ELSE 0)
    IN  upto[Len(s.tramos)]

MergeAlzada(c) ==
    LET alto == IF c.alzada /\ c.alto = 0 THEN 60 ELSE c.alto
        Strip(s) ==
            LET kept == Without(s.tramos, "alzada")
                rises == c.alzada /\ ~IsIsla(s) /\ Perimeter(s) > 0
            IN  [s EXCEPT !.tramos =
                    IF rises THEN Append(kept, Derived("alzada", "alzada", Perimeter(s), alto))
                    ELSE kept]
    IN  [EachSector(c, Strip) EXCEPT !.alto = alto]

\* The commercial attributes, each with its source: the operator's answer,
\* then the brief, then the plan.  An answer counts by its option, without
\* its free text.
Attrs(a, c, as) ==
    LET Answered(q, v, otherwise) ==
            IF LastAnswer(as, q) = NoAnswer THEN otherwise
            ELSE [value |-> v, source |-> "operator_answer"]
        hobs == LastAnswer(as, "anafe")
    IN  [pileta |-> Answered("pileta", LastAnswer(as, "pileta").value, ReconcilePileta(a, c)),
         isla |-> Answered("isla", LastAnswer(as, "isla").value, ReconcileIsla(a, c)),
         anafe |-> Answered("anafe", IF hobs.value = "three" THEN 3 ELSE hobs.detail.n,
                            ReconcileAnafe(a, c)),
         answers |-> as]

ClearDerived(c) ==
    LET Strip(s) == [s EXCEPT !.tramos = SelectSeq(s.tramos, LAMBDA t : t.derived = "no")]
    IN  EachSector(c, Strip)
=============================================================================
