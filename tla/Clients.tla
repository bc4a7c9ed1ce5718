------------------------------ MODULE Clients ------------------------------
(***************************************************************************)
(* Names of clients and what is made of several quotes of one client:      *)
(* client_match.py and the pure part of resumen_obra_tool.py.              *)
(*                                                                         *)
(* A name is a sequence of words.  Of a word only its number of letters,   *)
(* its form without accents and whether it is a stopword matter.  A word   *)
(* of digits has letters 0 and is no core token.                           *)
(***************************************************************************)
EXTENDS Sums, SequencesExt

CONSTANTS
  Chars,     \* word -> its length in characters
  Letters,   \* word -> TRUE when it is made of letters
  Plain,     \* word -> the same word without accents
  STOPWORDS, \* titles, legal forms and connectors, without accents
  Price,     \* material -> [currency, unit, labour]
  FLETE      \* price of one freight

ASSUME WordsAssumption ==
  /\ DOMAIN Chars = DOMAIN Letters /\ DOMAIN Chars = DOMAIN Plain
  /\ \A w \in DOMAIN Chars : Plain[w] \in DOMAIN Chars /\ Plain[Plain[w]] = Plain[w]

ASSUME PricesAssumption ==
  FLETE \in Nat /\ \A m \in DOMAIN Price : Price[m].unit \in Nat /\ Price[m].labour \in Nat

MIN_TOKEN_LEN == 3
MIN_MATCH_LEN == 4

---------------------------------------------------------------------------
(* client_match.py *)

NormalizeClientName(name) == [i \in DOMAIN name |-> Plain[name[i]]]

ClientCoreTokens(name) ==
  {w \in ToSet(NormalizeClientName(name)) :
     Letters[w] /\ Chars[w] >= MIN_TOKEN_LEN /\ w \notin STOPWORDS}

\* Its length, with the spaces between the words.
Size(name) == FoldLeft(LAMBDA sum, w : sum + Chars[w] + (IF sum = 0 THEN 0 ELSE 1), 0, name)

\* One name is found in the other between word boundaries.
Within(shorter, longer) ==
  /\ Size(shorter) >= 3
  /\ \E i \in 0..(Len(longer) - Len(shorter)) :
       SubSeq(longer, i + 1, i + Len(shorter)) = shorter

AreFuzzySameClient(a, b) ==
  LET na == NormalizeClientName(a)
      nb == NormalizeClientName(b)
  IN  \/ na # <<>> /\ na = nb
      \/ /\ na # <<>> /\ nb # <<>>
         /\ IF Size(na) <= Size(nb) THEN Within(na, nb) ELSE Within(nb, na)
      \/ \E w \in ClientCoreTokens(a) \cap ClientCoreTokens(b) : Chars[w] >= MIN_MATCH_LEN

---------------------------------------------------------------------------
(* Layers of the match of several quotes.  The names come in the order of  *)
(* the rows in the answer of the database, which no ORDER BY fixes: the    *)
(* first of them is the anchor.                                            *)

\* _normalize_client: case and spaces only; accents stay.
SameNormalized(names, anchor) == \A n \in names : n = anchor

\* A match that forgets the first layer, for which a name of no words is no one's.
MutantFuzzyGroup(names, anchor) == \A n \in names : AreFuzzySameClient(n, anchor)

FuzzyGroup(names, anchor) ==
  \A n \in names : n = anchor \/ AreFuzzySameClient(n, anchor)

\* The preview compares the rows after the first with the fuzzy match alone.
PreviewGroup(others, anchor) == \A n \in others : AreFuzzySameClient(n, anchor)

---------------------------------------------------------------------------
(* What a breakdown costs, as calculate_quote stored it, for the summary:  *)
(* square units of material, one line of labour per unit and a freight.    *)
(* Sintered stones are placed under SKUs of their own, so a unit of labour *)
(* costs what the material makes it cost.  Waste, discounts and rounding   *)
(* are the business of Calculator.                                         *)

M2(pieces) == Total(pieces, LAMBDA p : p.largo * p.dim2 * p.qty)

MoItems(mat, pieces) ==
  LET price == Price[mat].labour
  IN  <<[desc |-> "colocacion", qty |-> M2(pieces), price |-> price, total |-> M2(pieces) * price],
        [desc |-> "flete", qty |-> 1, price |-> FLETE, total |-> FLETE]>>

\* A quote that was never calculated has no row and no labour.
MaterialRow(bd) ==
  IF bd.details = <<>> THEN <<>>
  ELSE <<[name |-> bd.mat, currency |-> Price[bd.mat].currency,
          net |-> M2(bd.details) * Price[bd.mat].unit]>>

Labour(bd) == IF bd.details = <<>> THEN <<>> ELSE MoItems(bd.mat, bd.details)

Key(mo) == <<mo.desc, mo.qty, mo.price>>

\* A line of labour has its quote and its place there.
Places(labour) == UNION {{i} \X DOMAIN labour[i] : i \in DOMAIN labour}
Before(p, q) == p[1] < q[1] \/ (p[1] = q[1] /\ p[2] < q[2])
MoAt(labour, p) == labour[p[1]][p[2]]

\* mo_seen: a line is kept the first time its key is met.
MutantDeduplicated(labour) == Places(labour)
Deduplicated(labour) ==
  {p \in Places(labour) : \A q \in Places(labour) :
     Before(q, p) => Key(MoAt(labour, q)) # Key(MoAt(labour, p))}

NetIn(rows, currency) ==
  Total(rows, LAMBDA ofQuote : TotalOf(ofQuote, LAMBDA r : r.currency = currency, LAMBDA r : r.net))

\* The shortest non-empty name, the first of them in the order asked for.
Canonical(names) ==
  LET written == SelectSeq(names, LAMBDA n : n # <<>>)
  IN  IF written = <<>> THEN <<>>
      ELSE FoldLeft(LAMBDA best, n : IF Size(n) < Size(best) THEN n ELSE best,
                    Head(written), Tail(written))

BuildResumenData(names, bds) ==
  LET rows == [i \in DOMAIN bds |-> MaterialRow(bds[i])]
      labour == [i \in DOMAIN bds |-> Labour(bds[i])]
      moTotal == SumOf([p \in Deduplicated(labour) |-> MoAt(labour, p).total])
  IN  [client |-> Canonical(names), mo |-> moTotal,
       ars |-> NetIn(rows, "ARS") + moTotal, usd |-> NetIn(rows, "USD")]
=============================================================================
