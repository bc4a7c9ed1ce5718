----------------------------- MODULE VisualPlan -----------------------------
(* What quote_engine/visual_quote_builder.py computes of the typologies a   *)
(* vision model reads from a sheet.  A typology is                          *)
(* [id, qty, shape, segs, depth, backsplash, method], lengths in           *)
(* centimetres.  Pure: the calls of the model are inputs.                   *)
EXTENDS Calculator

IsTypology(t) ==
  t = [id |-> t.id, qty |-> t.qty, shape |-> t.shape, segs |-> t.segs, depth |-> t.depth,
       backsplash |-> t.backsplash, method |-> t.method]

Shapes == [linear |-> 1, L |-> 2, U |-> 3]

(* Confidence, in tenths; nine is high.                                     *)
ShapeConfidence(t) == IF t.shape \in DOMAIN Shapes THEN 9 ELSE IF t.shape = "unknown" THEN 3 ELSE 4

SegmentsConfidence(t) ==
  IF t.shape \in DOMAIN Shapes /\ Len(t.segs) # Shapes[t.shape] THEN 3
  ELSE IF t.segs # <<>> /\ \A i \in DOMAIN t.segs : t.segs[i] \in 30..500 THEN 9 ELSE 5

NeedsSecondPass(t) ==
  \/ t.method # "direct_read"
  \/ ShapeConfidence(t) < 9
  \/ SegmentsConfidence(t) < 9

MutantMergeSecondPass(t, second) ==
  [t EXCEPT !.shape = second.shape, !.segs = second.segs, !.depth = second.depth,
            !.method = second.method]

\* The second reading wins over what it changed, except for an inverted L.
MergeSecondPass(t, second) ==
  LET merged == [t EXCEPT !.shape = second.shape, !.segs = second.segs, !.depth = second.depth,
                          !.method = second.method]
  IN IF Len(merged.segs) = 2 /\ merged.segs[1] < merged.segs[2]
     THEN [merged EXCEPT !.segs = t.segs, !.method = "inferred"] ELSE merged

\* The first three doubtful typologies are read again.
SecondPass(tips, Reread(_)) ==
  LET doubtful == {i \in DOMAIN tips : NeedsSecondPass(tips[i])}
      again == {i \in doubtful : Cardinality({j \in doubtful : j < i}) < 3}
  IN [i \in DOMAIN tips |-> IF i \in again /\ Reread(tips[i]) # None
                            THEN MergeSecondPass(tips[i], Reread(tips[i])) ELSE tips[i]]

(* ------------------------------- geometry ------------------------------ *)
\* The corner of an L is in both segments; the middle one of a U has it off.
UnitM2(t) ==
  LET runs == Total(t.segs, LAMBDA s : s * t.depth)
  IN 100 * HalfEven(IF t.shape = "L" /\ Len(t.segs) = 2 THEN runs - t.depth * t.depth ELSE runs, 100)

\* What the reading leaves out is every wall, and the return of an L.
BacksplashMl(t) ==
  IF t.backsplash # None THEN t.backsplash
  ELSE Total(t.segs, LAMBDA s : s) + (IF t.shape = "L" THEN t.depth ELSE 0)

\* 7.5 cm high, rounded per unit.
BacksplashM2(t) == 100 * HalfEven(BacksplashMl(t) * 15, 200) * t.qty

\* What a page keeps of a typology besides its measures.
Geometry(t, slab) ==
  [m2 |-> UnitM2(t) * t.qty, backsplash |-> BacksplashM2(t),
   pieces |-> t.qty * Total(t.segs, LAMBDA s : Ceil(s, slab))]

Geometries(tips, slab) == [i \in DOMAIN tips |-> Geometry(tips[i], slab)]

(* ------------------------------ corrections ---------------------------- *)
\* field is depth, qty, backsplash or the number of a segment; one past the
\* last is appended.
ApplyCorrection(t, field, value) ==
  CASE field = "depth" -> [t EXCEPT !.depth = value]
    [] field = "qty" -> [t EXCEPT !.qty = value]
    [] field = "backsplash" -> [t EXCEPT !.backsplash = value]
    [] field = "first" -> [t EXCEPT !.segs = IF t.segs = <<>> THEN <<value>> ELSE [@ EXCEPT ![1] = value]]

ApplyCorrections(tips, c) ==
  [i \in DOMAIN tips |-> IF tips[i].id = c.id THEN ApplyCorrection(tips[i], c.field, c.value) ELSE tips[i]]

\* auto_select_zone: the operator's rectangle, the name learnt, a view from
\* above, a PLANTA, the largest that is no section, the largest.
AutoSelectZone(zones, learnt) ==
  LET Best(S) == CHOOSE z \in S : \A y \in S : z.area >= y.area
      named == {z \in zones : z.name = learnt}
      above == {z \in zones : z.above}
      planta == {z \in zones : z.name = "PLANTA"}
      whole == {z \in zones : z.name # "CORTE"}
  IN IF learnt = "OPERADOR_SELECTION" THEN learnt
     ELSE (CHOOSE z \in (IF named # {} THEN named ELSE IF above # {} THEN {Best(above)}
             ELSE IF planta # {} THEN planta ELSE IF whole # {} THEN {Best(whole)} ELSE {Best(zones)}) : TRUE).name
=============================================================================
