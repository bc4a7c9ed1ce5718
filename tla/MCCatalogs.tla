----------------------------- MODULE MCCatalogs -----------------------------
(* Two price lists that share an item, two workers, two requests at once,   *)
(* a file of prices with both columns and one with the wrong one alone.      *)
EXTENDS Catalogs, TLC

Same == Permutations(Workers) \cup Permutations(Admins)

MCOrder == <<"labor", "sinks">>
MCSeeds == [labor |-> [pileta |-> 60003, colocacion |-> 50000, ml |-> 900],
            sinks |-> [pileta |-> 90003], config |-> [iva |-> 121, budget |-> 300]]
MCImages == {[MCSeeds EXCEPT !.config = [iva |-> 105, budget |-> 300, zocalo |-> 7]]}
MCEdits == [labor |-> {[pileta |-> 60003, grifo |-> 7000, ml |-> 900]}, sinks |-> {},
            config |-> {[iva |-> 110, budget |-> 300]}]

R(sku, cells) == [sku |-> sku, title |-> FALSE, cells |-> cells]
MCImports == {
  [columns |-> <<"venta", "ventaIva">>,
   rows |-> <<R("colocacion", <<55000, 66550>>), R("ml", <<0, 0>>), R("pileta", <<90000, 108900>>),
              R("granito", <<None, None>>), R("ml", <<-900, -1089>>)>>],
  [columns |-> <<"ventaIva">>, rows |-> <<R("colocacion", <<66550>>), [sku |-> "pileta", title |-> TRUE, cells |-> <<1>>]>>]}
=============================================================================
