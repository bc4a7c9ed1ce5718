----------------------------- MODULE MCContexto -----------------------------
(* Three plans (a kitchen with its island, an L whose island is one of its   *)
(* tramos, a bathroom), a despiece in a brief, and four ways to answer.      *)
EXTENDS Contexto

T(largo, ancho) ==
    [largo |-> largo, ancho |-> ancho, zocalos |-> {}, frentin |-> {}, regrueso |-> {},
     derived |-> "no", desc |-> "mesada", isla |-> FALSE, sink |-> "none", cooktop |-> FALSE]
S(tipo, tramos) ==
    [tipo |-> tipo, tramos |-> tramos, pileta |-> "unset", patas |-> [sides |-> {}, alto |-> 0]]
Card(source, sectores) ==
    [source |-> source, sectores |-> sectores, alzada |-> FALSE, alto |-> 0,
     anafes |-> -1, hints |-> {}, questions |-> {}]

Kitchen == Card("PLAN", <<S("cocina", <<[T(200, 60) EXCEPT !.cooktop = TRUE], T(0, 60)>>),
                          S("isla", <<T(150, 60)>>)>>)
Ele == Card("PLAN", <<S("l", <<[T(300, 60) EXCEPT !.sink = "seen"],
                              [T(180, 90) EXCEPT !.isla = TRUE]>>)>>)
Bath == Card("PLAN", <<S("bano", <<[T(100, 50) EXCEPT !.zocalos = {[source |-> "plan", ml |-> 100]}]>>)>>)
Text == Card("TEXT", <<S("cocina", <<T(250, 60)>>), S("isla", <<T(120, 60)>>)>>)

Silent == [pileta |-> "none", anafes |-> -1, isla |-> FALSE]
Told == [pileta |-> "doble", anafes |-> 2, isla |-> TRUE]

MCJobs ==
    {[claims |-> {}, analysis |-> Silent, card |-> Kitchen],
     [claims |-> {"cocina", "isla", "anafes", "frentin_cm", "localidad"},
      analysis |-> Told, card |-> Ele],
     [claims |-> {"cocina_recta", "con_zocalos"}, analysis |-> Silent, card |-> Bath]}
MCText == [claims |-> {"cocina"}, analysis |-> Told, card |-> Text]

A(id, value, form, n) ==
    [id |-> id, value |-> value, detail |-> [form |-> form, n |-> n, lados |-> {"frente", "lateral_izq"}]]
P(id, n) == A(id, "preset", "plain", n)
No(id) == A(id, "no", "words", 0)

MCReplies == {
    <<>>,
    <<P("localidad", 0), A("pileta", "simple", "words", 0), P("anafe", 1), P("profundidad", 70),
      A("patas", "all", "words", 0), P("patas_alto", 90), A("zocalos", "default_trasero", "words", 0),
      P("alzada", 5), P("frentin", 5), No("regrueso"), P("colocacion", 1)>>,
    <<No("pileta"), A("isla", "yes", "words", 0), A("anafe", "three", "plain", 4), A("profundidad", "custom", "comma", 75),
      A("patas_alto", "custom", "plain", 85), A("patas", "laterals", "words", 0), No("zocalos"),
      No("alzada"), A("frentin", "custom", "cm", 4), A("regrueso", "custom", "cm", 3)>>,
    <<No("isla"), A("zocalos", "custom", "words", 0), A("alzada", "custom", "cm", 15),
      A("frentin", "custom", "plain", 4), P("regrueso", 2)>>}
=============================================================================
