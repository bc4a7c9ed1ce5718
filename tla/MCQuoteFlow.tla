----------------------------- MODULE MCQuoteFlow -----------------------------
(* Tabs, plan contents and file names are interchangeable: the             *)
(* specification only compares them.                                       *)
EXTENDS QuoteFlow, TLC

Symmetry == Permutations(Actors) \cup Permutations(Plans) \cup Permutations(Names)
=============================================================================
