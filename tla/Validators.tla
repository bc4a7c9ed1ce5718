----------------------------- MODULE Validators -----------------------------
(* The deterministic checks of agent/tools/validation_tool.py on a result   *)
(* of the calculator.  Only errors are kept: warnings change nothing.       *)
(* Formulas that repeat the calculator's are written again, as in the code. *)
EXTENDS Calculator

CheckIvaMaterial(q) ==
  q.price = IF q.currency = "USD" THEN (q.base * 121) \div 100 ELSE HalfEven(q.base * 121, 100)

\* One peso of tolerance; a building's line is the base with VAT over 1.05.
CheckIvaMo(q) ==
  \A i \in DOMAIN q.mo :
    LET line == q.mo[i]
        expected == IF line.vat THEN line.base
                    ELSE IF line.edif THEN HalfEven(line.base * 121, 105)
                    ELSE HalfEven(line.base * 121, 100)
    IN Distance(line.unit, expected) <= 1

CheckMaterialTotal(q) ==
  q.mode = "full" =>
    Distance(q.net, HalfEven(q.m2 * q.price, Metre) - q.discountAmount) <= 1

CheckMermaRules(q) ==
  ~(q.sku # None /\ q.merma.aplica /\ Catalog[q.sku].negroBrasil)

CheckPegadopileta(q) ==
  q.mode = "full" /\ q.pileta \in {"johnson", "cliente"} =>
    \E i \in DOMAIN q.mo : q.mo[i].kind \in {"pileta", "apoyo"}

CheckPieceM2(q) ==
  q.details # <<>> =>
    /\ \A i \in DOMAIN q.details :
         LET d == q.details[i]
         IN d.override \/ IsFrentin(d) \/ Distance(d.m2, d.largo * d.dim2) <= 100
    /\ Distance(q.m2, Total(q.details, LAMBDA d : d.m2 * d.qty)) <= 100

\* 0.05 m2 between the regrueso pieces and the metres declared.
CheckRegruesoConsistency(q) ==
  q.regrueso /\ q.regruesoMl > 0 /\ RegruesoM2(q.details) > 0 =>
    Distance(RegruesoM2(q.details), 5 * q.regruesoMl) <= 500

CheckProductsOnly(q) ==
  q.mode = "products_only" =>
    /\ q.m2 = 0 /\ q.mo = <<>> /\ q.sinks # <<>>
    /\ Distance(q.totalArs, SinksTotal(q.sinks) - q.discountAmount) <= 1

ValidateDespiece(q) ==
  /\ CheckIvaMaterial(q)
  /\ CheckIvaMo(q)
  /\ CheckMaterialTotal(q)
  /\ CheckMermaRules(q)
  /\ CheckPegadopileta(q)
  /\ CheckPieceM2(q)
  /\ CheckRegruesoConsistency(q)
  /\ CheckProductsOnly(q)
=============================================================================
