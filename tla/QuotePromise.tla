---------------------------- MODULE QuotePromise ----------------------------
(***************************************************************************)
(* What a quote promises its operator, whatever requests, copies of the    *)
(* row and commits it takes: a despiece is shown, confirmed as shown,      *)
(* priced as confirmed, and what the agent delivers is priced.  Whether a  *)
(* quote counts as delivered is also the operator's own say, which changes *)
(* nothing else.  Every step of QuoteFlow with one operator is one of      *)
(* these or none.                                                          *)
(***************************************************************************)
CONSTANTS
    Sources, \* what a despiece may be read from
    Brief,   \* the source of measures only the conversation has
    None

VARIABLES
    card,      \* the despiece on show, by its source
    confirmed, \* the measures the operator confirmed
    priced,    \* what the material, the labour and the totals measure
    delivered  \* it counts as delivered: validated, or sent
vars == <<card, confirmed, priced, delivered>>

Init ==
    /\ card = None /\ confirmed = None /\ priced = None
    /\ delivered = FALSE

(* What a calculation measures: the confirmed measures, else the despiece  *)
(* on show, else the words of the brief.                                   *)
Measured ==
    IF confirmed # None THEN confirmed ELSE IF card # None THEN card ELSE Brief

(* A reading is shown. It replaces no confirmed measures: those were       *)
(* dropped before. *)
Show(source) ==
    /\ confirmed = None
    /\ card' = source
    /\ UNCHANGED <<confirmed, priced, delivered>>

Confirm ==
    /\ card # None /\ confirmed = None
    /\ confirmed' = card
    /\ UNCHANGED <<card, priced, delivered>>

(* The confirmation and what followed from it are taken back. *)
TakeBack ==
    /\ card # None
    /\ confirmed' = None /\ priced' = None
    /\ UNCHANGED <<card, delivered>>

(* Another plan is on its way: nothing read is left; the price may be.     *)
Forget ==
    /\ card' = None /\ confirmed' = None
    /\ priced' \in {priced, None}
    /\ UNCHANGED delivered

Price ==
    /\ priced' = Measured
    /\ UNCHANGED <<card, confirmed, delivered>>

(* Documents of what is priced, or of the call of the agent, which then    *)
(* replaces all there was; they may fail to be written.                    *)
Deliver ==
    /\ \/ priced # None /\ UNCHANGED <<card, confirmed, priced>>
       \/ priced' = Measured /\ card' = None /\ confirmed' = None
    /\ delivered' \in {delivered, TRUE}

(* By hand: sent, taken back to draft, or validated as it is. *)
Mark ==
    /\ delivered' \in BOOLEAN
    /\ UNCHANGED <<card, confirmed, priced>>

Next ==
    \/ \E source \in Sources : Show(source)
    \/ Confirm \/ TakeBack \/ Forget \/ Price \/ Deliver \/ Mark

Spec == Init /\ [][Next]_vars
=============================================================================
