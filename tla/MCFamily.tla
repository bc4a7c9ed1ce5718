------------------------------ MODULE MCFamily ------------------------------
(* A small table for Family: web quotes with a variant, quotes of one      *)
(* client under several names, and quotes without a name.                  *)
EXTENDS Family

CONSTANTS s1, s2
MCSlots == {s1, s2}
MCSymmetry == Permutations(MCSlots)
MCMaxRequests == [n \in 0..MaxRows |-> IF n = 2 THEN 3 ELSE 2]

MCChars == [estudio |-> 7, n72 |-> 2, ventus |-> 6, jose |-> 4, jose_acute |-> 4]
MCLetters == [w \in DOMAIN MCChars |-> w # "n72"]
MCPlain == [w \in DOMAIN MCChars |-> IF w = "jose_acute" THEN "jose" ELSE w]
MCPrice == [granito |-> [currency |-> "ARS", unit |-> 3, labour |-> 1],
            silestone |-> [currency |-> "USD", unit |-> 2, labour |-> 1],
            dekton |-> [currency |-> "USD", unit |-> 4, labour |-> 2]]

Estudio == <<"estudio", "n72">>
Ventus == <<"ventus">>
Both == <<"estudio", "n72", "ventus">>
MCNames == {Ventus}

Mesada == [desc |-> "mesada", largo |-> 2, dim2 |-> 1, qty |-> 1]
Zocalo == [desc |-> "zocalo", largo |-> 0, dim2 |-> 1, qty |-> 1]
MCPieceLists == {<<Mesada, Mesada>>, <<Mesada, Zocalo>>}

MCWebInputs ==
  {[client |-> <<"jose_acute">>, pieces |-> <<>>, notes |-> notes, materials |-> <<"granito", "unknown">>] :
     notes \in BOOLEAN}
  \cup {[client |-> <<"jose">>, pieces |-> <<Mesada, Mesada>>, notes |-> FALSE, materials |-> <<"silestone">>]}

Quote(name, status, mat, pieces) ==
  [EmptyRow EXCEPT !.client = name, !.status = status, !.chat = TRUE, !.bd = Calculated(mat, pieces)]

MCDatabases ==
  { \* a web quote and its variant, and a quote of the chat
    <<[Quote(Ventus, "pending", "granito", <<Mesada, Mesada>>) EXCEPT !.web = TRUE, !.raw = <<Mesada, Mesada>>],
      [Quote(Ventus, "validated", "silestone", <<Mesada, Mesada>>) EXCEPT !.parent = 1, !.raw = <<Mesada, Mesada>>],
      Quote(Both, "validated", "granito", <<Mesada>>)>>,
    \* one client under three names, of which two do not match
    <<Quote(Both, "validated", "granito", <<Mesada>>), Quote(Estudio, "validated", "silestone", <<Mesada>>),
      Quote(Ventus, "validated", "dekton", <<Mesada>>)>>,
    \* two quotes nobody named
    <<Quote(<<>>, "validated", "granito", <<Mesada>>), Quote(<<>>, "validated", "silestone", <<Mesada>>)>>,
    \* a placeholder
    <<EmptyRow>> }
=============================================================================
