-------------------------- MODULE QuoteFlow_proofs --------------------------
(***************************************************************************)
(* Whatever is done to a quote, in any number of tabs, the row and the     *)
(* requests' copies of it keep their types and the listed source files are *)
(* on disk. With one operator the confirmed measures are those of the      *)
(* despiece on the card.                                                   *)
(*                                                                         *)
(* Neither property is inductive: they depend on where a request stands.   *)
(* One that announces a file holds its name, new in its copy of the list,  *)
(* and its bytes are on disk; one that reads a plan has no confirmed       *)
(* measures in its copy; one that reads again has a card there; one that   *)
(* confirms measures carries a card, the one of its copy if there is one   *)
(* operator (CopyOK). One operator's copy is the row.                      *)
(***************************************************************************)
EXTENDS QuoteFlow, SequenceTheorems, NaturalsInduction, WellFoundedInduction, TLAPS

One == \A a, b \in Actors : a = b

Coherent == {b \in Breakdown : One => MeasuredIsCard(b)}

ListedOn(names, d) ==
    /\ IsInjective(names)
    /\ \A f \in ToSet(names) : d[f] # None

CopyOK(s, d) ==
    /\ s.bd \in Coherent
    /\ ListedOn(s.files, d)
    /\ s.at = "invalidate" =>
          /\ s.kind = "text" /\ s.name \in Names
          /\ s.name \notin ToSet(s.files) /\ d[s.name] # None
    /\ s.at = "opened" => s.kind # "retry"
    /\ s.at = "dispatch" /\ s.kind = "retry" => s.bd.card # None
    /\ s.at \in {"opened", "dispatch"} /\ s.kind = "measures" =>
          /\ s.card # None
          /\ One => s.bd.card # None /\ s.card.from = s.bd.card.from
    /\ s.at = "reading" => s.bd.measured = None /\ s.plan # None

CopiesOK ==
    /\ req \in [Actors -> Request]
    /\ \A a \in Actors : CopyOK(req[a], disk)
    /\ One => \A a \in Actors : req[a].at # "idle" => req[a].bd = bd

RestOK ==
    /\ msgs \in Seq(Turn)
    /\ total \in BOOLEAN
    /\ status \in Status
    /\ files \in Seq(Names)
    /\ ListedOn(files, disk)
    /\ disk \in [Names -> Plans \cup {None}]
    /\ started \in 0..MaxRequests
    /\ uploads \in 0..MaxUploads

IInv == bd \in Coherent /\ CopiesOK /\ RestOK

LEMMA IInvImplies == IInv => TypeOK /\ SourcesOnDisk /\ (One => MeasuredOfCard)
BY DEF IInv, Coherent, CopiesOK, CopyOK, RestOK, ListedOn, TypeOK, SourcesOnDisk,
  MeasuredOfCard

-----------------------------------------------------------------------------
(* What the handlers make of a breakdown is a breakdown that keeps measures *)
(* and card together.                                                      *)
LEMMA DropsCohere ==
    ASSUME NEW b \in Coherent
    PROVE  /\ Unread(b) \in Coherent
           /\ ResetToPaso1(b) \in Coherent
           /\ ResetToPreContext(b) \in Coherent
           /\ DropStale(b) \in Coherent /\ DropStale(b).measured = None
           /\ Promote(b) \in Coherent
<1> USE DEF Coherent, Breakdown, MeasuredIsCard
<1>1. Unread(b) \in Coherent
  BY DEF Unread
<1>2. ResetToPaso1(b) \in Coherent
  BY DEF ResetToPaso1
<1>3. ResetToPreContext(b) \in Coherent
  BY DEF ResetToPreContext, ResetToPaso1
<1>4. DropStale(b) \in Coherent /\ DropStale(b).measured = None
  BY DEF DropStale
<1>5. Promote(b) \in Coherent
  BY DEF Promote, ResetToPaso1, Confirmed
<1> QED BY <1>1, <1>2, <1>3, <1>4, <1>5

LEMMA CardChangesCohere ==
    ASSUME NEW b \in Coherent, NEW flag \in BOOLEAN
    PROVE  /\ Answered(b, flag) \in Coherent
           /\ Underived(b) \in Coherent
           /\ b.card # None => Patch(b) \in Coherent
<1>1. Answered(b, flag) \in Coherent
  <2> DEFINE answers == [about |-> b.pending, legs |-> flag]
             card == IF b.card = None \/ b.card.from = Text THEN b.card
                     ELSE [b.card EXCEPT !.derived = flag]
  <2>1. answers \in Answers
    BY DEF Coherent, Breakdown, Answers
  <2>2. card \in Despiece \cup {None}
    BY DEF Coherent, Breakdown, Despiece
  <2>3. b.card # None => card.from = b.card.from /\ card # None
    BY AbsentAssumption DEF Coherent, Breakdown, Despiece
  <2> QED
    BY <2>1, <2>2, <2>3 DEF Answered, Coherent, Breakdown, MeasuredIsCard
<1>2. Underived(b) \in Coherent
  BY AbsentAssumption DEF Coherent, Breakdown, MeasuredIsCard, Underived, Despiece
<1>3. ASSUME b.card # None PROVE Patch(b) \in Coherent
  BY <1>3 DEF Coherent, Breakdown, MeasuredIsCard, Patch, Confirmed,
    ResetToPaso1, Despiece
<1> QED BY <1>1, <1>2, <1>3

LEMMA MeasuresCohere ==
    ASSUME NEW b \in Coherent, NEW card \in Despiece, NEW edits \in BOOLEAN,
           One => b.card # None /\ card.from = b.card.from
    PROVE  Measured(b, card, edits) \in Coherent
<1> DEFINE measured == [from |-> card.from, edited |-> card.edited \/ edits,
                        derived |-> b.context # None /\ b.context.legs]
<1>1. (card.edited \/ edits) \in BOOLEAN
  BY Zenon
<1>2. (b.context # None /\ b.context.legs) \in BOOLEAN
  BY Zenon
<1>3. measured \in Despiece /\ measured.from = card.from
  BY <1>1, <1>2 DEF Despiece
<1> HIDE DEF measured
<1>4. Measured(b, card, edits) = [b EXCEPT !.measured = measured]
  BY DEF Measured, measured
<1> QED BY <1>3, <1>4 DEF Coherent, Breakdown, MeasuredIsCard

LEMMA CardReplaced ==
    ASSUME NEW b \in Coherent, NEW card \in Despiece,
           One /\ b.measured # None => b.measured.from = card.from
    PROVE  [b EXCEPT !.card = card] \in Coherent
BY AbsentAssumption DEF Coherent, Breakdown, MeasuredIsCard

LEMMA PricesCohere ==
    ASSUME NEW b \in Coherent
    PROVE  /\ [Kept(b) EXCEPT !.calc = Measures(b)] \in Coherent
           /\ Priced(b) \subseteq Coherent
<1>1. Measures(b) \in Sources
  BY DEF Coherent, Breakdown, Measures, Despiece, Sources
<1>2. [Kept(b) EXCEPT !.calc = Measures(b)] \in Coherent
  BY <1>1 DEF Coherent, Breakdown, MeasuredIsCard, Kept, EmptyBreakdown
<1>3. Priced(b) \subseteq Coherent
  BY <1>1 DEF Coherent, Breakdown, MeasuredIsCard, Priced, EmptyBreakdown
<1> QED BY <1>2, <1>3

-----------------------------------------------------------------------------
(* Requests: an idle one, a changed one, the turn one leaves in the chat.   *)
LEMMA EmptyIsCoherent == EmptyBreakdown \in Coherent
BY DEF EmptyBreakdown, Coherent, Breakdown, MeasuredIsCard

LEMMA NothingListed == ASSUME NEW d PROVE ListedOn(<<>>, d)
BY DEF ListedOn, IsInjective, ToSet

LEMMA IdleCopy ==
    ASSUME NEW d PROVE Idle \in Request /\ CopyOK(Idle, d) /\ Idle.at = "idle"
<1>1. <<>> \in Seq(Turn) /\ <<>> \in Seq(Names)
  OBVIOUS
<1>2. Idle \in Request
  BY <1>1, EmptyIsCoherent DEF Idle, Request, Places, Requests, Status, Coherent
<1>3. CopyOK(Idle, d)
  BY EmptyIsCoherent, NothingListed DEF Idle, CopyOK
<1> QED BY <1>2, <1>3 DEF Idle

(* The bytes of a file may change but do not leave the disk.               *)
Grows == \A f \in Names : disk[f] # None => disk'[f] # None

LEMMA ListedGrows ==
    ASSUME NEW names \in Seq(Names), ListedOn(names, disk), Grows
    PROVE  ListedOn(names, disk')
<1>1. ToSet(names) \subseteq Names
  BY DEF ToSet
<1> QED BY <1>1 DEF ListedOn, Grows

LEMMA OneMoreListed ==
    ASSUME NEW names \in Seq(Names), NEW name \in Names, NEW d,
           ListedOn(names, d), name \notin ToSet(names), d[name] # None
    PROVE  Append(names, name) \in Seq(Names) /\ ListedOn(Append(names, name), d)
<1> DEFINE more == Append(names, name)
<1>1. /\ more \in Seq(Names) /\ DOMAIN more = 1..(Len(names) + 1)
      /\ \A i \in 1..Len(names) : more[i] = names[i]
      /\ more[Len(names) + 1] = name
      /\ DOMAIN names = 1..Len(names) /\ Len(names) \in Nat
  BY AppendProperties
<1> HIDE DEF more
<1>2. \A i \in 1..Len(names) : more[i] # name /\ d[more[i]] # None
  BY <1>1 DEF ListedOn, ToSet
<1>3. ASSUME NEW i \in DOMAIN more, NEW j \in DOMAIN more, more[i] = more[j]
      PROVE  i = j
  BY <1>1, <1>2, <1>3 DEF ListedOn, IsInjective
<1>4. IsInjective(more)
  BY <1>3 DEF IsInjective
<1>5. \A f \in ToSet(more) : d[f] # None
  BY <1>1, <1>2 DEF ToSet
<1> QED BY <1>1, <1>4, <1>5 DEF ListedOn, more

LEMMA CopiesKept ==
    ASSUME CopiesOK, Grows, NEW a \in Actors, NEW s \in Request, CopyOK(s, disk'),
           One => s.at = "idle" \/ s.bd = bd',
           req' = [req EXCEPT ![a] = s]
    PROVE  CopiesOK'
<1>1. ASSUME NEW b \in Actors PROVE CopyOK(req[b], disk')
  <2>1. req[b] \in Request /\ CopyOK(req[b], disk) /\ req[b].files \in Seq(Names)
    BY DEF CopiesOK, Request
  <2>2. ListedOn(req[b].files, disk')
    BY <2>1, ListedGrows DEF CopyOK
  <2> QED BY <2>1, <2>2 DEF CopyOK, Grows
<1>2. ASSUME NEW b \in Actors PROVE req'[b] \in Request /\ CopyOK(req'[b], disk')
  BY <1>1 DEF CopiesOK
<1>3. req' \in [Actors -> Request]
  BY DEF CopiesOK
<1>4. One => \A b \in Actors : req'[b].at # "idle" => req'[b].bd = bd'
  BY DEF One, CopiesOK
<1> QED BY <1>2, <1>3, <1>4 DEF CopiesOK

LEMMA TurnsAppended ==
    ASSUME NEW s \in Request, NEW kind \in Kinds
    PROVE  WithAnswer(s, kind) \in Seq(Turn)
<1> DEFINE turns == <<[kind |-> "user", n |-> s.n], [kind |-> kind, n |-> s.n]>>
<1>1. s.msgs \in Seq(Turn) /\ s.n \in Nat
  BY DEF Request
<1>2. turns \in Seq(Turn)
  BY <1>1 DEF Turn, Kinds
<1> HIDE DEF turns
<1>3. s.msgs \o turns \in Seq(Turn)
  BY <1>1, <1>2, ConcatProperties
<1> QED BY <1>3 DEF WithAnswer, turns

LEMMA GreatestIndex ==
    ASSUME NEW n \in Nat, NEW S, S \subseteq 1..n, S # {}
    PROVE  \E i \in S : \A k \in S : k <= i
<1> DEFINE From == {m \in Nat : \E i \in S : m = n - i}
<1>1. \A i \in S : i \in 1..n /\ n - i \in From
  OBVIOUS
<1>2. PICK m \in From : \A y \in Nat : <<y, m>> \in OpToRel(<, Nat) => y \notin From
  BY <1>1, NatLessThanWellFounded, WFMin
<1>3. PICK i \in S : m = n - i
  BY <1>2
<1>4. ASSUME NEW k \in S, k > i PROVE FALSE
  <2>1. n - k \in From /\ n - k < m /\ n - k \in Nat
    BY <1>1, <1>3, <1>4
  <2>2. <<n - k, m>> \in OpToRel(<, Nat)
    BY <2>1, <1>2 DEF OpToRel
  <2> QED BY <1>2, <2>1, <2>2
<1> QED BY <1>1, <1>3, <1>4

(* The history cut at the last card of a kind: that card exists.           *)
LEMMA LastExists ==
    ASSUME NEW ms \in Seq(Turn), NEW kind, NEW k \in DOMAIN ms, ms[k].kind = kind
    PROVE  \E i \in DOMAIN ms : IsLastOf(ms, kind, i)
<1> DEFINE S == {i \in DOMAIN ms : ms[i].kind = kind}
<1>1. S \subseteq 1..Len(ms) /\ Len(ms) \in Nat /\ k \in S
  OBVIOUS
<1>2. PICK i \in S : \A j \in S : j <= i
  BY <1>1, GreatestIndex
<1> QED BY <1>2 DEF IsLastOf

LEMMA CutIsHistory ==
    ASSUME NEW ms \in Seq(Turn), NEW kind \in Kinds, NEW shown \in Seq(Turn)
    PROVE  CutAt(ms, kind, shown) \in Seq(Turn)
<1>1. CASE \A i \in DOMAIN ms : ms[i].kind # kind
  BY <1>1 DEF CutAt
<1>2. CASE \E i \in DOMAIN ms : ms[i].kind = kind
  <2> DEFINE at == CHOOSE i \in DOMAIN ms : IsLastOf(ms, kind, i)
  <2>1. at \in DOMAIN ms
    BY <1>2, LastExists
  <2> HIDE DEF at
  <2>a. at - 1 \in Int /\ \A i \in 1..(at - 1) : ms[i] \in Turn
    BY <2>1
  <2>2. SubSeq(ms, 1, at - 1) \in Seq(Turn)
    <3>1. 1 \in Int
      OBVIOUS
    <3> QED BY <3>1, <2>a, SubSeqProperties
  <2>3. CutAt(ms, kind, shown) = SubSeq(ms, 1, at - 1) \o shown
    BY <1>2 DEF CutAt, at
  <2> QED BY <2>2, <2>3, ConcatProperties
<1> QED BY <1>1, <1>2

(* What a cut puts in the place of a card: the card, or nothing.           *)
ShownAt(kind, n) == {<<>>, <<[kind |-> kind, n |-> n]>>}

LEMMA ShownIsHistory ==
    ASSUME NEW kind \in Kinds, NEW n \in Nat
    PROVE  ShownAt(kind, n) \subseteq Seq(Turn)
<1>1. [kind |-> kind, n |-> n] \in Turn
  BY DEF Turn
<1> QED BY <1>1 DEF ShownAt

-----------------------------------------------------------------------------
(* The invariant is kept: sending, then the steps of a request by what they *)
(* write, then the endpoints beside the chat.                              *)
LEMMA InitIInv == Init => IInv
<1> SUFFICES ASSUME Init PROVE IInv
  OBVIOUS
<1>1. bd \in Coherent
  BY EmptyIsCoherent DEF Init
<1>2. CopiesOK
  BY IdleCopy DEF Init, CopiesOK
<1>3. RestOK
  <2>1. msgs \in Seq(Turn) /\ files \in Seq(Names) /\ ListedOn(files, disk)
    BY NothingListed DEF Init
  <2>2. total \in BOOLEAN
    BY Zenon DEF Init
  <2>3. /\ status \in Status
        /\ disk \in [Names -> Plans \cup {None}]
        /\ started \in 0..MaxRequests
        /\ uploads \in 0..MaxUploads
    BY NamesAssumption DEF Init, Status
  <2> QED BY <2>1, <2>2, <2>3 DEF RestOK
<1> QED BY <1>1, <1>2, <1>3 DEF IInv

(* Loading the row makes a copy as good as the row.                        *)
LEMMA LoadKeeps ==
    ASSUME IInv, Grows, NEW a \in Actors, NEW kind \in Requests,
           NEW at \in {"invalidate", "opened", "dispatch"},
           NEW plan \in Plans \cup {None}, NEW name \in Names \cup {None},
           NEW legs \in BOOLEAN, NEW edits \in BOOLEAN,
           Load(a, kind, at, plan, name, legs, edits),
           at = "invalidate" =>
               kind = "text" /\ name \in Names /\ IsNewFile(name) /\ disk'[name] # None,
           at = "opened" => kind # "retry",
           kind \in {"measures", "retry"} => bd.card # None
    PROVE  /\ bd' \in Coherent /\ CopiesOK' /\ started' \in 0..MaxRequests
           /\ UNCHANGED row /\ ListedOn(files, disk')
<1> DEFINE s == [at |-> at, kind |-> kind, n |-> started + 1, plan |-> plan,
                 name |-> name, legs |-> legs, edits |-> edits,
                 card |-> IF kind = "measures" THEN bd.card ELSE None,
                 bd |-> bd, msgs |-> msgs, total |-> total, status |-> status,
                 files |-> files]
<1>1. started' \in 0..MaxRequests /\ started + 1 \in Nat
  BY NamesAssumption DEF IInv, RestOK, Load
<1>2. s \in Request
  <2>1. (IF kind = "measures" THEN bd.card ELSE None) \in Despiece \cup {None}
    BY DEF IInv, Coherent, Breakdown
  <2> QED BY <1>1, <2>1 DEF IInv, RestOK, Coherent, Request, Places
<1>3. UNCHANGED row /\ bd' = bd /\ files' = files
  BY DEF Load, row
<1>4. ListedOn(files, disk')
  BY ListedGrows DEF IInv, RestOK
<1>5. /\ s.bd = bd /\ s.files = files /\ s.at = at /\ s.kind = kind /\ s.name = name
      /\ kind = "measures" => s.card = bd.card
  OBVIOUS
<1>6. req' = [req EXCEPT ![a] = s]
  BY DEF Load
<1> HIDE DEF s
<1>7. CopyOK(s, disk')
  BY <1>4, <1>5 DEF CopyOK, IInv, IsNewFile
<1>8. CopiesOK'
  BY <1>2, <1>3, <1>5, <1>6, <1>7, CopiesKept DEF IInv
<1> QED BY <1>1, <1>3, <1>4, <1>8 DEF IInv

LEMMA SavedPlanIsPlan == IInv => SavedPlan \in Plans \cup {None}
<1> SUFFICES ASSUME IInv, files # <<>> PROVE disk[Last(files)] \in Plans \cup {None}
  BY DEF SavedPlan
<1>1. files \in Seq(Names)
  BY DEF IInv, RestOK
<1>2. Last(files) \in Names
  BY <1>1 DEF Last
<1> QED BY <1>2 DEF IInv, RestOK

LEMMA SendKeeps == ASSUME IInv, NEW a \in Actors, Send(a) PROVE IInv'
<1> DEFINE Loaded == /\ bd' \in Coherent /\ CopiesOK' /\ started' \in 0..MaxRequests
                     /\ UNCHANGED row /\ ListedOn(files, disk')
<1>0. /\ {"text", "edit", "context", "measures", "reopenM", "reopenC", "retry"}
           \subseteq Requests
      /\ SavedPlan \in Plans \cup {None}
      /\ disk' = disk => Grows
  BY SavedPlanIsPlan DEF Requests, Grows
<1>a. ASSUME Loaded, disk' \in [Names -> Plans \cup {None}], uploads' \in 0..MaxUploads
      PROVE  IInv'
  BY <1>a DEF IInv, RestOK, row
<1>b. ASSUME Loaded, UNCHANGED <<disk, uploads>> PROVE IInv'
  BY <1>a, <1>b DEF IInv, RestOK
<1> HIDE DEF Loaded
<1>1. CASE SendText(a)
  <2>1. PICK kind \in {"text", "edit"} :
          Load(a, kind, "opened", SavedPlan, None, FALSE, FALSE)
    BY <1>1 DEF SendText
  <2>2. Loaded
    BY <1>0, <1>1, <2>1, LoadKeeps DEF SendText, Loaded
  <2> QED BY <1>1, <1>b, <2>2 DEF SendText
<1>2. CASE SendPlan(a)
  <2>1. PICK name \in Names, plan \in Plans :
          /\ Load(a, "text", IF IsNewFile(name) THEN "invalidate" ELSE "opened",
                  plan, name, FALSE, FALSE)
          /\ disk' = [disk EXCEPT ![name] = plan]
    BY <1>2 DEF SendPlan
  <2>2. disk' \in [Names -> Plans \cup {None}] /\ uploads' \in 0..MaxUploads
    BY <1>2, <2>1, NamesAssumption DEF IInv, RestOK, SendPlan
  <2>3. Grows /\ disk'[name] # None
    BY <2>1, NamesAssumption DEF IInv, RestOK, Grows
  <2>4. Loaded
    <3>1. CASE IsNewFile(name)
      BY <1>0, <2>1, <2>3, <3>1, LoadKeeps DEF Loaded
    <3>2. CASE ~IsNewFile(name)
      BY <1>0, <2>1, <2>3, <3>2, LoadKeeps DEF Loaded
    <3> QED BY <3>1, <3>2
  <2> QED BY <1>a, <2>2, <2>4
<1>3. CASE SendContext(a)
  <2>1. PICK legs \in BOOLEAN :
          Load(a, "context", "opened", SavedPlan, None, legs, FALSE)
    BY <1>3 DEF SendContext
  <2>2. Loaded
    BY <1>0, <1>3, <2>1, LoadKeeps DEF SendContext, Loaded
  <2> QED BY <1>3, <1>b, <2>2 DEF SendContext
<1>4. CASE SendMeasures(a)
  <2>1. PICK edits \in BOOLEAN :
          Load(a, "measures", "opened", SavedPlan, None, FALSE, edits)
    BY <1>4 DEF SendMeasures
  <2>2. Loaded
    BY <1>0, <1>4, <2>1, LoadKeeps DEF SendMeasures, Loaded
  <2> QED BY <1>4, <1>b, <2>2 DEF SendMeasures
<1>5. CASE SendOther(a)
  <2>1. PICK kind \in {"reopenM", "reopenC", "retry"} :
          /\ Load(a, kind, "dispatch", None, None, FALSE, FALSE)
          /\ kind = "retry" => MayRetry(req'[a])
    BY <1>5 DEF SendOther
  <2>2. req'[a].bd = bd
    BY <2>1 DEF Load, IInv, CopiesOK
  <2>3. kind = "retry" => bd.card # None
    BY <2>1, <2>2 DEF MayRetry
  <2>4. Loaded
    BY <1>0, <1>5, <2>1, <2>3, LoadKeeps DEF SendOther, Loaded
  <2> QED BY <1>5, <1>b, <2>4 DEF SendOther
<1> QED BY <1>1, <1>2, <1>3, <1>4, <1>5 DEF Send

(* A step that writes a breakdown and moves on, one that ends the request. *)
LEMMA WriteKeeps ==
    ASSUME IInv, UNCHANGED disk, NEW a \in Actors, NEW b \in Coherent,
           NEW at \in Places \ {"invalidate", "dispatch"}, WriteBd(a, b, at),
           at = "reading" => b.measured = None /\ req[a].plan # None,
           at = "opened" => req[a].kind = "text"
    PROVE  bd' \in Coherent /\ CopiesOK'
<1> DEFINE s == [req[a] EXCEPT !.bd = b, !.at = at]
<1>1. req[a] \in Request /\ CopyOK(req[a], disk)
  BY DEF IInv, CopiesOK
<1>2. s \in Request
  BY <1>1 DEF Request, Coherent
<1>a. /\ s.bd = b /\ s.at = at /\ s.kind = req[a].kind /\ s.plan = req[a].plan
      /\ s.files = req[a].files
  BY <1>1 DEF Request
<1>3. req' = [req EXCEPT ![a] = s] /\ bd' = b
  BY DEF WriteBd, IInv, CopiesOK
<1>4. Grows
  BY DEF Grows
<1> HIDE DEF s
<1>5. CopyOK(s, disk)
  BY <1>1, <1>a DEF CopyOK
<1> QED BY <1>2, <1>a, <1>3, <1>4, <1>5, CopiesKept DEF IInv

LEMMA GoesKeeps ==
    ASSUME IInv, UNCHANGED <<bd, disk>>, NEW a \in Actors, req[a].at # "idle",
           NEW at \in Places \ {"invalidate", "opened", "dispatch"},
           req' = Goes(a, at),
           at = "reading" => req[a].bd.measured = None /\ req[a].plan # None
    PROVE  CopiesOK'
<1> DEFINE s == [req[a] EXCEPT !.at = at]
<1>1. req[a] \in Request /\ CopyOK(req[a], disk) /\ (One => req[a].bd = bd)
  BY DEF IInv, CopiesOK
<1>2. s \in Request /\ s.bd = req[a].bd
  BY <1>1 DEF Request
<1>3. CopyOK(s, disk)
  BY <1>1 DEF CopyOK, Request
<1>4. req' = [req EXCEPT ![a] = s]
  BY DEF Goes, IInv, CopiesOK
<1>5. Grows
  BY DEF Grows
<1> HIDE DEF s
<1> QED BY <1>1, <1>2, <1>3, <1>4, <1>5, CopiesKept DEF IInv

LEMMA DoneKeeps ==
    ASSUME IInv, UNCHANGED disk, NEW a \in Actors, req' = Done(a)
    PROVE  CopiesOK'
<1>1. Grows
  BY DEF Grows
<1> QED BY <1>1, IdleCopy, CopiesKept DEF Done, IInv

(* The stream reads the row again: one operator finds it as it was.        *)
LEMMA OpenKeeps == ASSUME IInv, NEW a \in Actors, OpenStream(a) PROVE IInv'
<1> DEFINE s == [req[a] EXCEPT !.at = "dispatch", !.bd = bd, !.total = total,
                               !.status = status]
<1>1. /\ req[a] \in Request /\ CopyOK(req[a], disk) /\ req[a].at = "opened"
      /\ One => req[a].bd = bd
  BY DEF IInv, CopiesOK, OpenStream
<1>2. s \in Request
  BY <1>1 DEF Request, Places, IInv, Coherent, RestOK
<1>3. /\ s.at = "dispatch" /\ s.bd = bd /\ s.kind = req[a].kind
      /\ s.card = req[a].card /\ s.files = req[a].files
  BY <1>1 DEF Request
<1>4. req' = [req EXCEPT ![a] = s]
  BY DEF OpenStream, IInv, CopiesOK
<1> HIDE DEF s
<1>5. CopyOK(s, disk)
  BY <1>1, <1>3 DEF CopyOK, IInv
<1>6. Grows /\ UNCHANGED <<bd, disk>>
  BY DEF Grows, OpenStream, KeepRest
<1>7. CopiesOK'
  BY <1>2, <1>3, <1>4, <1>5, <1>6, CopiesKept DEF IInv
<1> QED BY <1>6, <1>7 DEF OpenStream, KeepRest, IInv, RestOK

LEMMA TurnKeeps ==
    ASSUME IInv, UNCHANGED disk, NEW a \in Actors, NEW kind \in Kinds,
           FinishTurn(a, kind)
    PROVE  CopiesOK' /\ msgs' \in Seq(Turn)
<1>1. req[a] \in Request
  BY DEF IInv, CopiesOK
<1> QED BY <1>1, DoneKeeps, TurnsAppended DEF FinishTurn

(* The copy a handler works on. *)
LEMMA CopyTypes ==
    ASSUME IInv, NEW a \in Actors
    PROVE  /\ req[a] \in Request /\ CopyOK(req[a], disk)
           /\ req[a].bd \in Coherent
           /\ req[a].plan \in Plans \cup {None} /\ req[a].name \in Names \cup {None}
           /\ req[a].legs \in BOOLEAN /\ req[a].edits \in BOOLEAN
           /\ req[a].msgs \in Seq(Turn) /\ req[a].files \in Seq(Names)
           /\ req[a].total \in BOOLEAN /\ req[a].n \in Nat
<1>1. req[a] \in Request /\ CopyOK(req[a], disk)
  BY DEF IInv, CopiesOK
<1> QED BY <1>1 DEF Request, CopyOK, Coherent

(* The copy of a request under way is the row. *)
LEMMA CopyIsRow ==
    ASSUME IInv, One, NEW a \in Actors, req[a].at # "idle"
    PROVE  req[a].bd = bd /\ bd \in Coherent
BY DEF IInv, CopiesOK

(* The breakdown a request writes is the one the next step sees.           *)
LEMMA Writes ==
    ASSUME NEW a \in Actors, NEW b, NEW at, WriteBd(a, b, at)
    PROVE  bd' = b
BY DEF WriteBd

LEMMA CardSteps ==
    ASSUME IInv, NEW a \in Actors,
           \/ InvalidateRead(a) \/ ConfirmContext(a) \/ ConfirmMeasures(a)
           \/ EditCard(a) \/ AskAboutEdit(a) \/ ShowEdit(a) \/ ShowCard(a)
    PROVE  IInv'
<1> DEFINE s == req[a]
<1>0. /\ s \in Request /\ CopyOK(s, disk) /\ s.bd \in Coherent
      /\ s.name \in Names \cup {None}
      /\ s.legs \in BOOLEAN /\ s.edits \in BOOLEAN
      /\ s.files \in Seq(Names) /\ s.total \in BOOLEAN
  BY CopyTypes
<1>1. CASE InvalidateRead(a)
  <2>1. /\ s.at = "invalidate" /\ WriteBd(a, Unread(s.bd), "opened")
        /\ UNCHANGED disk /\ files' = Append(s.files, s.name)
    BY <1>1 DEF InvalidateRead
  <2>2. s.kind = "text"
    BY <1>0, <2>1 DEF CopyOK
  <2>3. bd' \in Coherent /\ CopiesOK'
    BY <1>0, <2>1, <2>2, DropsCohere, WriteKeeps DEF Places
  <2>4. files' \in Seq(Names) /\ ListedOn(files', disk)
    BY <1>0, <2>1, OneMoreListed DEF CopyOK
  <2> QED BY <1>1, <2>3, <2>4 DEF InvalidateRead, IInv, RestOK
<1>2. CASE ConfirmContext(a)
  <2>1. bd' \in Coherent /\ CopiesOK'
    BY <1>0, <1>2, CardChangesCohere, WriteKeeps DEF KeepRest, ConfirmContext, Places
  <2> QED BY <1>2, <2>1 DEF ConfirmContext, KeepRest, IInv, RestOK
<1>3. CASE ConfirmMeasures(a)
  <2>1. s.card \in Despiece /\ (One => s.bd.card # None /\ s.card.from = s.bd.card.from)
    BY <1>0, <1>3 DEF ConfirmMeasures, CopyOK, Request
  <2>2. Measured(s.bd, s.card, s.edits) \in Coherent
    BY <1>0, <2>1, MeasuresCohere
  <2>3. bd' \in Coherent /\ CopiesOK'
    BY <1>3, <2>2, WriteKeeps DEF ConfirmMeasures, KeepRest, Places
  <2> QED BY <1>3, <2>3 DEF ConfirmMeasures, KeepRest, IInv, RestOK
<1>4. CASE EditCard(a)
  <2>1. bd' \in Coherent /\ CopiesOK'
    BY <1>0, <1>4, CardChangesCohere, WriteKeeps DEF KeepRest, EditCard, Places
  <2>2. total' \in BOOLEAN
    BY <1>4, Zenon DEF EditCard
  <2> QED BY <1>4, <2>1, <2>2 DEF EditCard, KeepRest, IInv, RestOK
<1>5. CASE AskAboutEdit(a)
  <2>1. CopiesOK' /\ msgs' \in Seq(Turn)
    BY <1>5, TurnKeeps DEF KeepRest, AskAboutEdit, Kinds
  <2> QED BY <1>5, <2>1 DEF AskAboutEdit, KeepRest, IInv, RestOK
<1>6. CASE ShowEdit(a)
  <2>1. CopiesOK' /\ msgs' \in Seq(Turn)
    BY <1>6, TurnKeeps DEF KeepRest, ShowEdit, Kinds
  <2> QED BY <1>6, <2>1 DEF ShowEdit, KeepRest, IInv, RestOK
<1>7. CASE ShowCard(a)
  <2>1. CopiesOK' /\ msgs' \in Seq(Turn)
    BY <1>7, TurnKeeps DEF KeepRest, ShowCard, Kinds
  <2> QED BY <1>7, <2>1 DEF ShowCard, KeepRest, IInv, RestOK
<1> QED BY <1>1, <1>2, <1>3, <1>4, <1>5, <1>6, <1>7

(* A reading starts with no confirmed measures in the copy: they belong to *)
(* this plan, and then the message goes to the agent, or are dropped.      *)
LEMMA ReadingSteps ==
    ASSUME IInv, NEW a \in Actors,
           \/ ParseBrief(a) \/ GoToAgent(a) \/ ShowAgain(a) \/ StartReading(a)
           \/ FinishReading(a) \/ ReadingFails(a) \/ ShowContext(a)
    PROVE  IInv'
<1> DEFINE s == req[a]
<1>0. /\ s \in Request /\ CopyOK(s, disk) /\ s.bd \in Coherent
      /\ s.plan \in Plans \cup {None}
      /\ s.bd \in Breakdown /\ s.bd.hash \in Plans \cup {None}
      /\ s.bd.pending \in Sources \cup {None}
      /\ Plans \subseteq Sources /\ Text \in Sources
  BY CopyTypes DEF Coherent, Breakdown, Sources
<1>1. CASE ParseBrief(a)
  <2>1. s.bd.measured = None
    BY <1>1 DEF ParseBrief, ParsesBrief, Confirmed
  <2>2. [[s.bd EXCEPT !.card = Fresh(Text)] EXCEPT !.pending = Text] \in Coherent
    BY <1>0, <2>1 DEF Coherent, Breakdown, MeasuredIsCard, Fresh, Despiece
  <2>3. [s.bd EXCEPT !.card = Fresh(Text)] \in Coherent
    BY <1>0, <2>1 DEF Coherent, Breakdown, MeasuredIsCard, Fresh, Despiece
  <2>4. bd' \in Coherent
    BY <1>1, <2>2, <2>3 DEF ParseBrief
  <2>5. CopiesOK' /\ msgs' \in Seq(Turn)
    BY <1>1, TurnKeeps DEF KeepRest, ParseBrief, Kinds
  <2> QED BY <1>1, <2>4, <2>5 DEF ParseBrief, KeepRest, IInv, RestOK
<1>2. CASE GoToAgent(a)
  <2>0. UNCHANGED disk /\ s.at = "dispatch"
    BY <1>2 DEF GoToAgent, Free, KeepRest
  <2>1. CASE req' = Goes(a, "agent") /\ UNCHANGED bd
    <3>1. CopiesOK'
      BY <2>0, <2>1, GoesKeeps DEF Places
    <3> QED BY <1>2, <2>1, <3>1 DEF GoToAgent, KeepRest, IInv, RestOK
  <2>2. CASE WriteBd(a, [s.bd EXCEPT !.hash = s.plan], "agent")
    <3>1. [s.bd EXCEPT !.hash = s.plan] \in Coherent
      BY <1>0 DEF Coherent, Breakdown, MeasuredIsCard
    <3>2. bd' \in Coherent /\ CopiesOK'
      BY <2>0, <2>2, <3>1, WriteKeeps DEF Places
    <3> QED BY <1>2, <3>2 DEF GoToAgent, KeepRest, IInv, RestOK
  <2> QED BY <1>2, <2>1, <2>2 DEF GoToAgent
<1>3. CASE ShowAgain(a)
  <2>1. CopiesOK' /\ msgs' \in Seq(Turn)
    BY <1>3, TurnKeeps DEF KeepRest, ShowAgain, Kinds
  <2> QED BY <1>3, <2>1 DEF ShowAgain, KeepRest, IInv, RestOK
<1>4. CASE StartReading(a)
  <2>1. s.plan # None
    BY <1>4 DEF StartReading
  <2>2. CASE s.bd.hash # None /\ ~SamePlan(s)
    <3>1. bd' \in Coherent /\ CopiesOK'
      BY <1>0, <1>4, <2>1, <2>2, DropsCohere, WriteKeeps DEF KeepRest, StartReading, Places
    <3> QED BY <1>4, <3>1 DEF StartReading, KeepRest, IInv, RestOK
  <2>3. CASE ~(s.bd.hash # None /\ ~SamePlan(s))
    <3>1. s.bd.measured = None
      BY <1>4, <2>3 DEF StartReading, AlreadyRead, Confirmed, SamePlan
    <3>2. /\ req' = Goes(a, "reading") /\ UNCHANGED <<bd, disk>>
          /\ s.at = "dispatch"
      BY <1>4, <2>3 DEF StartReading, Free, KeepRest
    <3>3. CopiesOK'
      BY <2>1, <3>1, <3>2, GoesKeeps DEF Places
    <3> QED BY <1>4, <3>2, <3>3 DEF StartReading, KeepRest, IInv, RestOK
  <2> QED BY <2>2, <2>3
<1>5. CASE FinishReading(a)
  <2> DEFINE read == [s.bd EXCEPT !.card = Fresh(s.plan), !.hash = s.plan]
             first == [read EXCEPT !.pending = s.plan]
  <2>1. s.bd.measured = None /\ s.plan \in Plans
    BY <1>0, <1>5 DEF FinishReading, CopyOK
  <2>2. read \in Coherent
    BY <1>0, <2>1 DEF Coherent, Breakdown, MeasuredIsCard, Fresh, Despiece
  <2>3. first \in Coherent
    BY <1>0, <2>1 DEF Coherent, Breakdown, MeasuredIsCard, Fresh, Despiece
  <2>4. /\ WriteBd(a, first, "contextRead") \/ WriteBd(a, read, "cardRead")
        /\ UNCHANGED disk
    BY <1>5 DEF FinishReading, KeepRest
  <2> HIDE DEF read, first
  <2>5. bd' \in Coherent /\ CopiesOK'
    BY <2>2, <2>3, <2>4, WriteKeeps DEF Places
  <2> QED BY <1>5, <2>5 DEF FinishReading, KeepRest, IInv, RestOK
<1>6. CASE ReadingFails(a)
  <2>1. CopiesOK'
    BY <1>6, GoesKeeps DEF KeepRest, ReadingFails, Places
  <2> QED BY <1>6, <2>1 DEF ReadingFails, KeepRest, IInv, RestOK
<1>7. CASE ShowContext(a)
  <2>1. CopiesOK' /\ msgs' \in Seq(Turn)
    BY <1>7, TurnKeeps DEF KeepRest, ShowContext, Kinds
  <2> QED BY <1>7, <2>1 DEF ShowContext, KeepRest, IInv, RestOK
<1> QED BY <1>1, <1>2, <1>3, <1>4, <1>5, <1>6, <1>7

LEMMA AgentSteps ==
    ASSUME IInv, NEW a \in Actors,
           Calculate(a) \/ Generate(a) \/ SaveTurn(a) \/ AgentFails(a)
    PROVE  IInv'
<1>0. req[a].bd \in Coherent
  BY CopyTypes
<1>1. CASE Calculate(a)
  <2>1. bd' \in Coherent /\ CopiesOK'
    BY <1>0, <1>1, PricesCohere, WriteKeeps DEF KeepRest, Calculate, Places
  <2> QED BY <1>1, <2>1 DEF Calculate, KeepRest, IInv, RestOK
<1>2. CASE Generate(a)
  <2>1. PICK b \in Priced(req[a].bd) : WriteBd(a, b, "generated")
    BY <1>2 DEF Generate
  <2>a. UNCHANGED disk
    BY <1>2 DEF Generate, KeepRest
  <2>2. bd' \in Coherent /\ CopiesOK'
    BY <1>0, <2>1, <2>a, PricesCohere, WriteKeeps DEF Places
  <2>3. status' \in Status
    BY <1>2 DEF Generate, Status, IInv, RestOK
  <2> QED BY <1>2, <2>2, <2>3 DEF Generate, KeepRest, IInv, RestOK
<1>3. CASE SaveTurn(a)
  <2>1. Said[req[a].at] \in Kinds
    BY <1>3 DEF SaveTurn, InLoop, Said, Kinds
  <2>2. CopiesOK' /\ msgs' \in Seq(Turn)
    BY <1>3, <2>1, TurnKeeps DEF KeepRest, SaveTurn
  <2> QED BY <1>3, <2>2 DEF SaveTurn, KeepRest, IInv, RestOK
<1>4. CASE AgentFails(a)
  <2>1. CopiesOK'
    BY <1>4, DoneKeeps DEF KeepRest, AgentFails
  <2> QED BY <1>4, <2>1 DEF AgentFails, KeepRest, IInv, RestOK
<1> QED BY <1>1, <1>2, <1>3, <1>4

LEMMA EndpointSteps ==
    ASSUME IInv, NEW a \in Actors,
           \/ ReopenMeasurements(a) \/ ReopenContext(a)
           \/ DualReadRetry(a) \/ Disconnect(a)
    PROVE  IInv'
<1> DEFINE s == req[a]
<1>0. /\ CopyOK(s, disk) /\ s.bd \in Coherent /\ s.msgs \in Seq(Turn) /\ s.n \in Nat
      /\ "card" \in Kinds /\ "context" \in Kinds
  BY CopyTypes DEF Kinds
<1>1. CASE ReopenMeasurements(a)
  <2>1. bd' \in Coherent /\ msgs' \in Seq(Turn) /\ CopiesOK'
    <3>1. <<[kind |-> "card", n |-> s.n]>> \in Seq(Turn)
      BY <1>0, ShownIsHistory DEF ShownAt
    <3> QED BY <1>0, <1>1, <3>1, DropsCohere, CutIsHistory, DoneKeeps DEF KeepRest, ReopenMeasurements
  <2>2. total' \in BOOLEAN
    BY <1>1, Zenon DEF ReopenMeasurements
  <2> QED BY <1>1, <2>1, <2>2 DEF ReopenMeasurements, KeepRest, IInv, RestOK
<1>2. CASE ReopenContext(a)
  <2>1. ResetToPreContext(s.bd) \in Coherent
    BY <1>0, DropsCohere
  <2>2. bd' \in Coherent
    BY <1>2, <2>1, CardChangesCohere DEF ReopenContext
  <2>3. msgs' \in Seq(Turn) /\ CopiesOK'
    <3>1. ContextCard(s) \in Seq(Turn)
      BY <1>0, ShownIsHistory DEF ShownAt, ContextCard
    <3> QED BY <1>0, <1>2, <3>1, CutIsHistory, DoneKeeps DEF KeepRest, ReopenContext
  <2>4. total' \in BOOLEAN
    BY <1>2, Zenon DEF ReopenContext
  <2> QED BY <1>2, <2>2, <2>3, <2>4 DEF ReopenContext, KeepRest, IInv, RestOK
<1>3. CASE DualReadRetry(a)
  <2>1. s.bd.card # None
    BY <1>0, <1>3 DEF DualReadRetry, CopyOK
  <2>2. [s.bd EXCEPT !.card = Fresh(s.bd.card.from)] \in Coherent
    <3>1. /\ s.bd.card \in Despiece
          /\ One /\ s.bd.measured # None => s.bd.measured.from = s.bd.card.from
      BY <1>0, <2>1 DEF Coherent, Breakdown, MeasuredIsCard
    <3>2. /\ Fresh(s.bd.card.from) \in Despiece
          /\ Fresh(s.bd.card.from).from = s.bd.card.from
      BY <3>1 DEF Fresh, Despiece
    <3> QED BY <1>0, <3>1, <3>2, CardReplaced
  <2>3. bd' \in Coherent /\ CopiesOK'
    BY <1>3, <2>2, DoneKeeps DEF KeepRest, DualReadRetry, IInv
  <2> QED BY <1>3, <2>3 DEF DualReadRetry, KeepRest, IInv, RestOK
<1>4. CASE Disconnect(a)
  <2>1. CopiesOK'
    BY <1>4, DoneKeeps DEF KeepRest, Disconnect
  <2> QED BY <1>4, <2>1 DEF Disconnect, KeepRest, IInv, RestOK
<1> QED BY <1>1, <1>2, <1>3, <1>4

(* By hand the quote gets one of its statuses. *)
LEMMA ByHand ==
    ASSUME status \in Status, UpdateStatus \/ PatchStatus \/ Validate
    PROVE  \E to \in Status : Becomes(to)
<1>1. VALID_TRANSITIONS[status] \subseteq Status /\ "validated" \in Status
  BY DEF VALID_TRANSITIONS, Status
<1> QED BY <1>1 DEF UpdateStatus, PatchStatus, Validate

LEMMA NextIInv == IInv /\ [Next]_vars => IInv'
<1> SUFFICES ASSUME IInv, [Next]_vars PROVE IInv'
  OBVIOUS
<1>1. ASSUME NEW a \in Actors, Send(a) \/ Step(a) \/ Disconnect(a) PROVE IInv'
  BY <1>1, SendKeeps, OpenKeeps, CardSteps, ReadingSteps, AgentSteps, EndpointSteps
  DEF Step
<1>2. ASSUME NEW to \in Status, Becomes(to) PROVE IInv'
  <2>1. started' \in 0..MaxRequests
    BY <1>2, NamesAssumption DEF Becomes, IInv, RestOK
  <2> QED BY <1>2, <2>1 DEF Becomes, IInv, RestOK, CopiesOK
<1>3. CASE UNCHANGED vars
  BY <1>3 DEF vars, row, IInv, RestOK, CopiesOK
<1> QED BY <1>1, <1>2, <1>3, ByHand DEF Next, IInv, RestOK

-----------------------------------------------------------------------------
LEMMA Invariance == Spec => []IInv
BY InitIInv, NextIInv, PTL DEF Spec

(* Every variable, the copies of the row in the requests included, keeps   *)
(* its type for any tabs, plans and file names.                            *)
THEOREM TypeCorrect == Spec => []TypeOK
BY Invariance, IInvImplies, PTL

(* However the uploads of any number of tabs interleave, a file is listed  *)
(* once in source_files and its bytes are on disk.                         *)
THEOREM SourcesOnDiskHolds == Spec => []SourcesOnDisk
BY Invariance, IInvImplies, PTL

(* With one operator, no order of messages, plans, edits, readings,        *)
(* reopenings, calculations and departures leaves confirmed measures of    *)
(* another despiece than the one on the card.                              *)
THEOREM MeasuredOfCardHolds ==
    ASSUME One PROVE Spec => []MeasuredOfCard
<1>1. IInv => MeasuredOfCard
  BY One, IInvImplies
<1> QED BY <1>1, Invariance, PTL

-----------------------------------------------------------------------------
(***************************************************************************)
(* What one operator can rely on, for any plans, files and number of       *)
(* requests.  First QuoteFlow implements QuotePromise: the request's copy  *)
(* is the row and it keeps measures and card together (IInv), so what a    *)
(* handler writes back is what the promise does to the row, or nothing.    *)
(* Then the screen: what the chat shows agrees with the row between two    *)
(* requests.                                                               *)
(***************************************************************************)

LEMMA SourcesOf ==
    /\ SourceOf(None) = None
    /\ \A d \in Despiece : d # None /\ SourceOf(d) = d.from /\ d.from \in Sources /\ d.from # None
BY NamesAssumption, AbsentAssumption DEF SourceOf, Despiece, Sources

(* What is seen of a breakdown. *)
Seen(b) == <<SourceOf(b.card), SourceOf(b.measured), b.calc>>

LEMMA SeenOf ==
    ASSUME NEW b \in Coherent
    PROVE  /\ b.card = None <=> SourceOf(b.card) = None
           /\ b.measured = None <=> SourceOf(b.measured) = None
           /\ b.card # None => SourceOf(b.card) = b.card.from
           /\ b.measured # None => SourceOf(b.measured) = b.measured.from
           /\ One /\ b.measured # None => b.card # None /\ SourceOf(b.measured) = SourceOf(b.card)
BY SourcesOf DEF Coherent, Breakdown, MeasuredIsCard

LEMMA SeenOfDrops ==
    ASSUME NEW b \in Coherent, One
    PROVE  /\ Seen(Unread(b)) = <<None, None, b.calc>>
           /\ Seen(DropStale(b)) = <<None, None, None>>
           /\ Seen(Promote(b)) = <<SourceOf(b.card), None, None>>
           /\ Seen(Underived(ResetToPreContext(b))) = <<SourceOf(b.card), None, None>>
<1> USE SourcesOf DEF Coherent, Breakdown, Seen
<1>1. Seen(Unread(b)) = <<None, None, b.calc>>
  BY DEF Unread
<1>2. Seen(DropStale(b)) = <<None, None, None>>
  BY DEF DropStale
<1>3. Seen(Promote(b)) = <<SourceOf(b.card), None, None>>
  BY SeenOf DEF Promote, ResetToPaso1, Confirmed
<1>4. Seen(Underived(ResetToPreContext(b))) = <<SourceOf(b.card), None, None>>
  <2> DEFINE c == ResetToPreContext(b)
  <2>1. c \in Coherent /\ c.card = b.card /\ c.measured = None /\ c.calc = None
    BY DropsCohere DEF ResetToPreContext, ResetToPaso1
  <2> HIDE DEF c
  <2>2. Underived(c).measured = None /\ Underived(c).calc = None
    BY <2>1 DEF Underived
  <2>3. Underived(c).card = IF c.card = None THEN None ELSE [c.card EXCEPT !.derived = FALSE]
    BY <2>1 DEF Underived
  <2>4. ASSUME c.card # None
        PROVE  /\ [c.card EXCEPT !.derived = FALSE] \in Despiece
               /\ [c.card EXCEPT !.derived = FALSE].from = c.card.from
    BY <2>1, <2>4 DEF Despiece
  <2>5. SourceOf(Underived(c).card) = SourceOf(b.card)
    BY <2>1, <2>3, <2>4
  <2> QED BY <2>2, <2>5 DEF c
<1> QED BY <1>1, <1>2, <1>3, <1>4

LEMMA SeenOfCards ==
    ASSUME NEW b \in Coherent, NEW legs \in BOOLEAN
    PROVE  /\ Seen(Answered(b, legs)) = Seen(b)
           /\ b.card # None => Seen(Patch(b)) =
                IF Confirmed(b) \/ b.calc # None THEN <<SourceOf(b.card), None, None>> ELSE Seen(b)
<1> USE SourcesOf DEF Coherent, Breakdown
<1>1. Seen(Answered(b, legs)) = Seen(b)
  BY DEF Answered, Seen, Despiece
<1>2. ASSUME b.card # None
      PROVE  Seen(Patch(b)) =
               IF Confirmed(b) \/ b.calc # None THEN <<SourceOf(b.card), None, None>> ELSE Seen(b)
  <2> DEFINE base == IF Confirmed(b) \/ b.calc # None THEN ResetToPaso1(b) ELSE b
  <2>1. /\ base \in Coherent /\ base.card = b.card
        /\ Seen(base) = IF Confirmed(b) \/ b.calc # None
                        THEN <<SourceOf(b.card), None, None>> ELSE Seen(b)
    BY DropsCohere DEF ResetToPaso1, Seen
  <2> HIDE DEF base
  <2>a. base.card \in Despiece
    BY <1>2, <2>1
  <2>b. /\ [base.card EXCEPT !.edited = TRUE] \in Despiece
        /\ [base.card EXCEPT !.edited = TRUE].from = base.card.from
    BY <2>a DEF Despiece
  <2>2. Seen([base EXCEPT !.card.edited = TRUE]) = Seen(base)
    BY <2>1, <2>a, <2>b DEF Seen
  <2> QED BY <2>1, <2>2 DEF Patch, base
<1> QED BY <1>1, <1>2

LEMMA SeenOfFresh ==
    ASSUME NEW source \in Sources
    PROVE  Fresh(source) \in Despiece /\ SourceOf(Fresh(source)) = source
<1>1. Fresh(source) \in Despiece /\ Fresh(source).from = source
  BY DEF Fresh, Despiece
<1> QED BY <1>1, SourcesOf

LEMMA SeenOfMeasured ==
    ASSUME NEW b \in Coherent, NEW card \in Despiece, NEW edits \in BOOLEAN,
           b.card # None, card.from = b.card.from
    PROVE  Seen(Measured(b, card, edits)) = <<SourceOf(b.card), SourceOf(b.card), b.calc>>
<1> DEFINE measured == [from |-> card.from, edited |-> card.edited \/ edits,
                        derived |-> b.context # None /\ b.context.legs]
<1>1. (card.edited \/ edits) \in BOOLEAN /\ (b.context # None /\ b.context.legs) \in BOOLEAN
  BY Zenon
<1>2. measured \in Despiece /\ measured.from = card.from
  BY <1>1 DEF Despiece
<1> HIDE DEF measured
<1>3. Measured(b, card, edits) = [b EXCEPT !.measured = measured]
  BY DEF Measured, measured
<1> QED BY <1>2, <1>3, SourcesOf, SeenOf DEF Seen, Coherent, Breakdown

-----------------------------------------------------------------------------
(* A step of QuoteFlow is a step of the promise by what it makes of the    *)
(* row's breakdown.                                                        *)

LEMMA Stutters ==
    ASSUME Seen(bd') = Seen(bd), status' = status
    PROVE  UNCHANGED Promise!vars
BY DEF Seen, Promise!vars

(* Requests that only send, show, ask, end or fail. *)
LEMMA QuietSteps ==
    ASSUME NEW a \in Actors,
           \/ Send(a) \/ Disconnect(a) \/ OpenStream(a)
           \/ AskAboutEdit(a) \/ ShowEdit(a) \/ ShowAgain(a) \/ ReadingFails(a)
           \/ ShowContext(a) \/ ShowCard(a) \/ SaveTurn(a) \/ AgentFails(a)
    PROVE  UNCHANGED Promise!vars
<1>1. UNCHANGED <<bd, status>>
  BY DEF Send, SendText, SendPlan, SendContext, SendMeasures, SendOther, Load, row,
    Disconnect, OpenStream, AskAboutEdit, ShowEdit, ShowAgain, ReadingFails,
    ShowContext, ShowCard, SaveTurn, AgentFails
<1> QED BY <1>1, Stutters DEF Seen

LEMMA InvalidateForgets ==
    ASSUME IInv, One, NEW a \in Actors, InvalidateRead(a)
    PROVE  Promise!Forget
<1>1. bd' = Unread(bd) /\ bd \in Coherent /\ status' = status
  BY CopyIsRow, Writes DEF InvalidateRead
<1>2. Seen(bd') = <<None, None, bd.calc>>
  BY <1>1, SeenOfDrops
<1> QED BY <1>1, <1>2 DEF Seen, Promise!Forget

LEMMA ContextIsQuiet ==
    ASSUME IInv, One, NEW a \in Actors, ConfirmContext(a)
    PROVE  UNCHANGED Promise!vars
<1>1. req[a].legs \in BOOLEAN
  BY CopyTypes
<1>2. bd' = Answered(bd, req[a].legs) /\ bd \in Coherent /\ status' = status
  BY CopyIsRow, Writes DEF ConfirmContext
<1>3. Seen(bd') = Seen(bd)
  BY <1>1, <1>2, SeenOfCards
<1> QED BY <1>2, <1>3, Stutters

LEMMA MeasuresConfirm ==
    ASSUME IInv, One, NEW a \in Actors, ConfirmMeasures(a)
    PROVE  Promise!Confirm \/ UNCHANGED Promise!vars
<1> DEFINE s == req[a]
<1>1. /\ s.bd = bd /\ bd \in Coherent /\ status' = status
      /\ bd' = Measured(bd, s.card, s.edits)
  BY CopyIsRow, Writes DEF ConfirmMeasures
<1>2. /\ s.card \in Despiece /\ s.edits \in BOOLEAN
      /\ bd.card # None /\ s.card.from = bd.card.from
  BY <1>1, CopyTypes DEF ConfirmMeasures, CopyOK, Request
<1>3. Seen(bd') = <<SourceOf(bd.card), SourceOf(bd.card), bd.calc>>
  BY <1>1, <1>2, SeenOfMeasured
<1>4. CASE bd.measured = None
  BY <1>1, <1>2, <1>3, <1>4, SeenOf DEF Seen, Promise!Confirm
<1>5. CASE bd.measured # None
  <2>1. Seen(bd') = Seen(bd)
    BY <1>1, <1>3, <1>5, SeenOf DEF Seen
  <2> QED BY <1>1, <2>1, Stutters
<1> QED BY <1>4, <1>5

LEMMA EditTakesBack ==
    ASSUME IInv, One, NEW a \in Actors, EditCard(a)
    PROVE  Promise!TakeBack \/ UNCHANGED Promise!vars
<1>1. bd' = Patch(bd) /\ bd \in Coherent /\ bd.card # None /\ status' = status
  BY CopyIsRow, Writes DEF EditCard
<1>2. Seen(bd') = IF Confirmed(bd) \/ bd.calc # None
                  THEN <<SourceOf(bd.card), None, None>> ELSE Seen(bd)
  BY <1>1, SeenOfCards
<1>3. CASE Confirmed(bd) \/ bd.calc # None
  BY <1>1, <1>2, <1>3, SeenOf DEF Seen, Promise!TakeBack
<1>4. CASE ~(Confirmed(bd) \/ bd.calc # None)
  BY <1>1, <1>2, <1>4, Stutters
<1> QED BY <1>3, <1>4

(* A card taken from a source, over no confirmed measures. *)
LEMMA CardShown ==
    ASSUME NEW b \in Coherent, NEW c, NEW source \in Sources,
           b.measured = None, bd = b, bd' = c, status' = status,
           c.card = Fresh(source), c.measured = b.measured, c.calc = b.calc
    PROVE  \E from \in Sources : Promise!Show(from)
<1>1. SourceOf(bd.measured) = None /\ SourceOf(bd'.card) = source
  BY SourcesOf, SeenOfFresh
<1> QED BY <1>1 DEF Promise!Show

LEMMA BriefIsShown ==
    ASSUME IInv, One, NEW a \in Actors, ParseBrief(a)
    PROVE  \E source \in Sources : Promise!Show(source)
<1> DEFINE read == [bd EXCEPT !.card = Fresh(Text)]
<1>1. /\ bd \in Coherent /\ bd.measured = None /\ status' = status
      /\ bd' = read \/ bd' = [read EXCEPT !.pending = Text]
  BY CopyIsRow DEF ParseBrief, Free, ParsesBrief, Confirmed
<1>2. bd'.card = Fresh(Text) /\ bd'.measured = bd.measured /\ bd'.calc = bd.calc
  BY <1>1 DEF Coherent, Breakdown
<1>3. Text \in Sources
  BY DEF Sources
<1> QED BY <1>1, <1>2, <1>3, CardShown

LEMMA ReadingIsShown ==
    ASSUME IInv, One, NEW a \in Actors, FinishReading(a)
    PROVE  \E source \in Sources : Promise!Show(source)
<1> DEFINE plan == req[a].plan
           read == [bd EXCEPT !.card = Fresh(plan), !.hash = plan]
<1>1. /\ bd \in Coherent /\ status' = status /\ req[a].bd = bd
      /\ bd' = read \/ bd' = [read EXCEPT !.pending = plan]
  BY CopyIsRow, Writes DEF FinishReading
<1>2. bd'.card = Fresh(plan) /\ bd'.measured = bd.measured /\ bd'.calc = bd.calc
  BY <1>1 DEF Coherent, Breakdown
<1>3. bd.measured = None /\ plan \in Sources
  BY <1>1, CopyTypes DEF CopyOK, FinishReading, Sources
<1> QED BY <1>1, <1>2, <1>3, CardShown

LEMMA AgentIsQuiet ==
    ASSUME IInv, One, NEW a \in Actors, GoToAgent(a)
    PROVE  UNCHANGED Promise!vars
<1>1. /\ bd \in Coherent /\ status' = status
      /\ bd' = bd \/ bd' = [bd EXCEPT !.hash = req[a].plan]
  BY CopyIsRow, Writes DEF GoToAgent, Free
<1>2. Seen(bd') = Seen(bd)
  BY <1>1 DEF Seen, Coherent, Breakdown
<1> QED BY <1>1, <1>2, Stutters

LEMMA ReadingForgets ==
    ASSUME IInv, One, NEW a \in Actors, StartReading(a)
    PROVE  Promise!Forget \/ UNCHANGED Promise!vars
<1>1. bd \in Coherent /\ status' = status /\ (bd' = bd \/ bd' = DropStale(bd))
  BY CopyIsRow, Writes DEF StartReading, Free
<1>2. CASE bd' = bd
  BY <1>1, <1>2, Stutters
<1>3. CASE bd' = DropStale(bd)
  <2>1. Seen(bd') = <<None, None, None>>
    BY <1>1, <1>3, SeenOfDrops
  <2> QED BY <1>1, <2>1 DEF Seen, Promise!Forget
<1> QED BY <1>1, <1>2, <1>3

-----------------------------------------------------------------------------
(* What a calculation measures is what the promise prices.                 *)
LEMMA MeasuresArePromised ==
    ASSUME bd \in Coherent
    PROVE  Measures(bd) = Promise!Measured
BY SeenOf DEF Measures, Promise!Measured

LEMMA CalculationPrices ==
    ASSUME IInv, One, NEW a \in Actors, Calculate(a)
    PROVE  Promise!Price
<1>1. /\ bd \in Coherent /\ status' = status
      /\ bd' = [Kept(bd) EXCEPT !.calc = Measures(bd)]
  BY CopyIsRow, Writes DEF Calculate
<1>2. bd'.card = bd.card /\ bd'.measured = bd.measured /\ bd'.calc = Measures(bd)
  BY <1>1 DEF Kept, EmptyBreakdown
<1> QED BY <1>1, <1>2, MeasuresArePromised DEF Promise!Price

LEMMA GenerationDelivers ==
    ASSUME IInv, One, NEW a \in Actors, Generate(a)
    PROVE  Promise!Deliver
<1>1. bd \in Coherent /\ bd' \in Priced(bd)
  BY CopyIsRow, Writes DEF Generate
<1>2. (status' \in Delivered) \in {TRUE, (status \in Delivered)}
  BY DEF Generate, Delivered
<1>3. CASE bd' = bd /\ bd.calc # None
  BY <1>2, <1>3 DEF Promise!Deliver
<1>4. CASE bd' = [EmptyBreakdown EXCEPT !.calc = Measures(bd)]
  <2>1. bd'.card = None /\ bd'.measured = None /\ bd'.calc = Measures(bd)
    BY <1>4 DEF EmptyBreakdown
  <2> QED BY <1>1, <1>2, <2>1, MeasuresArePromised, SourcesOf DEF Promise!Deliver
<1> QED BY <1>1, <1>3, <1>4 DEF Priced

-----------------------------------------------------------------------------
(* The endpoints beside the chat.                                          *)
LEMMA ReopeningTakesBack ==
    ASSUME IInv, One, NEW a \in Actors, ReopenMeasurements(a) \/ ReopenContext(a)
    PROVE  Promise!TakeBack \/ Promise!Forget
<1>1. /\ bd \in Coherent /\ status' = status
      /\ bd' = Promote(bd) \/ bd' = Underived(ResetToPreContext(bd))
  BY CopyIsRow DEF ReopenMeasurements, ReopenContext
<1>2. Seen(bd') = <<SourceOf(bd.card), None, None>>
  BY <1>1, SeenOfDrops
<1>3. CASE bd.card # None
  BY <1>1, <1>2, <1>3, SeenOf DEF Seen, Promise!TakeBack
<1>4. CASE bd.card = None
  BY <1>1, <1>2, <1>4, SourcesOf DEF Seen, Promise!Forget
<1> QED BY <1>3, <1>4

LEMMA RetryIsQuiet ==
    ASSUME IInv, One, NEW a \in Actors, DualReadRetry(a)
    PROVE  UNCHANGED Promise!vars
<1>1. /\ bd \in Coherent /\ status' = status /\ bd.card # None
      /\ bd' = bd \/ bd' = [bd EXCEPT !.card = Fresh(bd.card.from)]
  BY CopyIsRow, CopyTypes DEF DualReadRetry, CopyOK
<1>2. bd.card.from \in Sources /\ SourceOf(bd.card) = bd.card.from
  BY <1>1, SourcesOf DEF Coherent, Breakdown
<1>3. Seen(bd') = Seen(bd)
  BY <1>1, <1>2, SeenOfFresh DEF Seen, Coherent, Breakdown
<1> QED BY <1>1, <1>3, Stutters

LEMMA HandMarks == ASSUME NEW to, Becomes(to) PROVE Promise!Mark
BY DEF Becomes, Promise!Mark

-----------------------------------------------------------------------------
LEMMA PromiseInit == ASSUME Init PROVE Promise!Init
BY SourcesOf DEF Init, EmptyBreakdown, Delivered, Promise!Init

LEMMA StepsAsPromised ==
    ASSUME IInv, One, [Next]_vars
    PROVE  [Promise!Next]_(Promise!vars)
<1>1. ASSUME NEW a \in Actors, Send(a) \/ Step(a) \/ Disconnect(a)
      PROVE  Promise!Next \/ UNCHANGED Promise!vars
  BY <1>1, QuietSteps, InvalidateForgets, ContextIsQuiet, MeasuresConfirm,
    EditTakesBack, BriefIsShown, ReadingIsShown, AgentIsQuiet, ReadingForgets,
    CalculationPrices, GenerationDelivers, ReopeningTakesBack, RetryIsQuiet
  DEF Step, Promise!Next
<1>2. CASE UpdateStatus \/ PatchStatus \/ Validate
  BY <1>2, ByHand, HandMarks DEF Promise!Next, IInv, RestOK
<1>3. CASE UNCHANGED vars
  BY <1>3, Stutters DEF vars, row
<1> QED BY <1>1, <1>2, <1>3 DEF Next

(* With one operator, whatever plans, messages, failures and reopenings a  *)
(* quote goes through, its row only ever does what QuotePromise allows.    *)
THEOREM PromiseIsKept ==
    ASSUME One PROVE Spec => PromiseKept
<1>1. Init => Promise!Init
  BY PromiseInit
<1>2. IInv /\ [Next]_vars => [Promise!Next]_(Promise!vars)
  BY One, StepsAsPromised
<1> QED BY <1>1, <1>2, Invariance, PTL DEF Spec, PromiseKept, Promise!Spec

-----------------------------------------------------------------------------

Cards == {"context", "card", "edit"}

(* Another turn in the chat: the last card shown, unless it is one itself. *)
LEMMA OneMoreTurn ==
    ASSUME NEW ms \in Seq(Turn), NEW turn \in Turn
    PROVE  LastShown(Append(ms, turn)) = IF turn.kind \in Cards THEN turn.kind ELSE LastShown(ms)
<1> DEFINE more == Append(ms, turn)
           len == Len(ms)
           Shown(x) == {i \in DOMAIN x : x[i].kind \in Cards}
           At(x) == CHOOSE i \in Shown(x) : \A j \in Shown(x) : j <= i
<1>1. /\ more \in Seq(Turn) /\ DOMAIN more = 1..(len + 1) /\ DOMAIN ms = 1..len /\ len \in Nat
      /\ \A i \in 1..len : more[i] = ms[i]
      /\ more[len + 1] = turn
  BY AppendProperties
<1>2. \A x : LastShown(x) = IF Shown(x) = {} THEN "nothing" ELSE x[At(x)].kind
  BY DEF LastShown, Cards
<1> HIDE DEF more, len
<1>3. CASE turn.kind \in Cards
  <2>1. len + 1 \in Shown(more) /\ \A j \in Shown(more) : j <= len + 1
    BY <1>1, <1>3
  <2>2. \A j \in Shown(more) : j \in Nat
    BY <1>1
  <2> HIDE DEF Shown
  <2>3. At(more) = len + 1
    BY <1>1, <2>1, <2>2
  <2>4. LastShown(more) = more[At(more)].kind
    <3> HIDE DEF At
    <3> QED BY <1>2, <2>1
  <2> QED BY <1>1, <1>3, <2>3, <2>4 DEF more
<1>4. CASE turn.kind \notin Cards
  <2>1. Shown(more) = Shown(ms)
    BY <1>1, <1>4
  <2>2. At(more) = At(ms)
    BY <2>1
  <2>3. Shown(ms) # {} => At(ms) \in Shown(ms)
    <3>1. Shown(ms) \subseteq 1..len
      BY <1>1
    <3> HIDE DEF Shown
    <3> QED BY <1>1, <3>1, GreatestIndex
  <2>4. Shown(ms) # {} => more[At(ms)] = ms[At(ms)]
    BY <1>1, <2>3
  <2> HIDE DEF Shown, At
  <2> QED BY <1>2, <1>4, <2>1, <2>2, <2>4 DEF more
<1> QED BY <1>3, <1>4

LEMMA TurnShown ==
    ASSUME NEW ms \in Seq(Turn), NEW s, s.msgs = ms, s.n \in Nat, NEW kind \in Kinds,
           NEW new, new = WithAnswer(s, kind)
    PROVE  /\ new \in Seq(Turn) /\ new # <<>> /\ Last(new) = [kind |-> kind, n |-> s.n]
           /\ IF ms = <<>> THEN new[1].kind = "user" ELSE new[1] = ms[1]
           /\ \A i \in DOMAIN new : new[i].n = s.n \/ (i \in DOMAIN ms /\ new[i] = ms[i])
           /\ LastShown(new) = IF kind \in Cards THEN kind ELSE LastShown(ms)
<1> DEFINE said == [kind |-> "user", n |-> s.n]
           answer == [kind |-> kind, n |-> s.n]
           one == Append(ms, said)
<1>1. said \in Turn /\ answer \in Turn /\ said.kind \notin Cards
  BY DEF Turn, Kinds, Cards
<1>2. new = ms \o <<said, answer>>
  BY DEF WithAnswer
<1>3. /\ Len(ms) \in Nat /\ DOMAIN ms = 1..Len(ms) /\ DOMAIN new = 1..(Len(ms) + 2) /\ Len(new) = Len(ms) + 2
      /\ \A i \in 1..Len(ms) : new[i] = ms[i]
      /\ new[Len(ms) + 1] = said /\ new[Len(ms) + 2] = answer
  BY <1>2
<1>4. new \in Seq(Turn) /\ one \in Seq(Turn) /\ new = Append(one, answer)
  BY <1>1, <1>2
<1>5. LastShown(new) = IF kind \in Cards THEN kind ELSE LastShown(ms)
  <2>1. LastShown(one) = LastShown(ms)
    BY <1>1, OneMoreTurn
  <2>2. answer.kind = kind
    OBVIOUS
  <2> HIDE DEF one, answer
  <2>3. LastShown(new) = IF answer.kind \in Cards THEN answer.kind ELSE LastShown(one)
    BY <1>1, <1>4, OneMoreTurn
  <2> QED BY <2>1, <2>2, <2>3
<1>6. Last(new) = answer
  BY <1>3 DEF Last
<1>7. IF ms = <<>> THEN new[1].kind = "user" ELSE new[1] = ms[1]
  <2>1. CASE ms = <<>>
    BY <1>3, <2>1
  <2>2. CASE ms # <<>>
    BY <1>3, <2>2
  <2> QED BY <2>1, <2>2
<1> QED BY <1>3, <1>4, <1>5, <1>6, <1>7

(* The chat cut at the last card of a kind shows that card, or what was    *)
(* shown before it, and still begins as it began.                          *)
LEMMA CutShown ==
    ASSUME NEW ms \in Seq(Turn), NEW kind \in {"card", "context"}, NEW n \in Nat,
           ms # <<>> => ms[1].kind = "user",
           NEW shown \in ShownAt(kind, n),
           NEW new, new = CutAt(ms, kind, shown)
    PROVE  \/ new = ms
           \/ /\ new \in Seq(Turn) /\ ms # <<>> /\ new # <<>> /\ new[1] = ms[1]
              /\ \A i \in DOMAIN new : new[i].n = n \/ (i \in DOMAIN ms /\ new[i] = ms[i])
              /\ shown # <<>> => LastShown(new) = kind
<1>1. CASE \A i \in DOMAIN ms : ms[i].kind # kind
  BY <1>1 DEF CutAt
<1>2. CASE \E i \in DOMAIN ms : ms[i].kind = kind
  <2> DEFINE at == CHOOSE i \in DOMAIN ms : IsLastOf(ms, kind, i)
             card == [kind |-> kind, n |-> n]
             before == SubSeq(ms, 1, at - 1)
  <2>1. at \in DOMAIN ms /\ ms[at].kind = kind
    BY <1>2, LastExists DEF IsLastOf
  <2>2. new = before \o shown
    BY <1>2 DEF CutAt
  <2> HIDE DEF at
  <2>3. at \in 1..Len(ms) /\ Len(ms) \in Nat /\ at # 1 /\ at - 1 \in Int /\ DOMAIN ms = 1..Len(ms)
    BY <2>1
  <2>4. \A i \in 1..(at - 1) : ms[i] \in Turn
    BY <2>3
  <2>5. /\ before \in Seq(Turn) /\ Len(before) = at - 1
        /\ \A i \in 1..(at - 1) : before[i] = ms[i]
    <3>1. 1 \in Int
      OBVIOUS
    <3> QED BY <2>3, <2>4, <3>1, SubSeqProperties
  <2> HIDE DEF before
  <2>6. card \in Turn /\ card.kind = kind /\ card.n = n /\ kind \in Cards
    BY DEF Turn, Kinds, Cards
  <2>7. 1 \in 1..(at - 1) /\ ms # <<>>
    BY <2>3
  <2>8. CASE shown = <<>>
    <3>1. new = before
      BY <2>2, <2>5, <2>8
    <3> QED BY <2>3, <2>5, <2>7, <2>8, <3>1
  <2>9. CASE shown = <<card>>
    <3> HIDE DEF card
    <3>1. new = Append(before, card)
      BY <2>2, <2>5, <2>6, <2>9
    <3>2. LastShown(new) = kind
      BY <3>1, <2>5, <2>6, OneMoreTurn
    <3>3. /\ new \in Seq(Turn) /\ DOMAIN new = 1..at
          /\ \A i \in 1..(at - 1) : new[i] = ms[i]
          /\ new[at] = card
      BY <3>1, <2>3, <2>5, <2>6, AppendProperties
    <3>4. new # <<>> /\ new[1] = ms[1]
      <4>1. at \in DOMAIN new
        BY <2>3, <3>3
      <4> QED BY <2>7, <3>3, <4>1
    <3>5. \A i \in DOMAIN new : new[i].n = n \/ (i \in DOMAIN ms /\ new[i] = ms[i])
      BY <2>3, <2>6, <3>3
    <3> QED BY <2>7, <3>2, <3>3, <3>4, <3>5
  <2> QED BY <2>8, <2>9 DEF ShownAt
<1> QED BY <1>1, <1>2

-----------------------------------------------------------------------------
(* The invariant. A request that has written a card and not shown it yet   *)
(* is between two commits: only there may the chat be behind the row.      *)
Unshown == {"contextSaved", "contextRead", "cardRead", "cardEdited"}

HistoryOK ==
    /\ msgs # <<>> => msgs[1].kind = "user"
    /\ \A i \in DOMAIN msgs : msgs[i].n <= started

Confirmable(b, ms) ==
    b.card # None /\ b.measured = None =>
        /\ LastShown(ms) = "nothing" => b.pending = None /\ b.context = None
        /\ b.context # None => LastShown(ms) # "context"

WorkOK(s) ==
    s.at # "idle" =>
        /\ s.msgs = msgs /\ s.n <= started /\ \A i \in DOMAIN msgs : msgs[i].n < s.n
        /\ s.at \in {"opened", "dispatch"} /\ s.kind = "context" => LastShown(msgs) = "context"
        /\ s.at \in {"opened", "dispatch"} /\ s.kind = "measures" => LastShown(msgs) \in {"card", "edit"}
        /\ s.at \in Unshown => bd.measured = None
        /\ s.at = "contextRead" => bd.context = None

RowOK ==
    /\ bd.calc # None => total
    /\ bd.measured # None => LastShown(msgs) \in {"card", "edit"}

ScreenInv ==
    /\ HistoryOK /\ RowOK
    /\ \A a \in Actors : WorkOK(req[a])
    /\ Disconnects \/ (\E a \in Actors : req[a].at \in Unshown) \/ Confirmable(bd, msgs)

LEMMA ScreenInit == ASSUME Init PROVE ScreenInv
BY DEF Init, ScreenInv, HistoryOK, RowOK, WorkOK, Confirmable, EmptyBreakdown, Idle

(* The one request goes on.                                                *)
LEMMA GoesOn ==
    ASSUME IInv, ScreenInv, One, NEW a \in Actors, req[a].at # "idle",
           UNCHANGED <<msgs, started>>,
           NEW s, req' = [req EXCEPT ![a] = s],
           s.msgs = req[a].msgs, s.n = req[a].n, s.kind = req[a].kind,
           s.at \in {"opened", "dispatch"} => s.kind = "text" \/ req[a].at = "opened",
           s.at \in Unshown => bd'.measured = None,
           s.at = "contextRead" => bd'.context = None,
           RowOK',
           Disconnects \/ s.at \in Unshown \/ Confirmable(bd', msgs)
    PROVE  ScreenInv'
<1>1. req'[a] = s /\ \A b \in Actors : b = a
  BY DEF IInv, CopiesOK, One
<1>2. WorkOK(s)'
  BY DEF WorkOK, ScreenInv
<1>3. HistoryOK'
  BY DEF ScreenInv, HistoryOK
<1>4. Disconnects \/ (\E b \in Actors : req'[b].at \in Unshown) \/ Confirmable(bd', msgs')
  BY <1>1
<1>5. \A b \in Actors : WorkOK(req[b])'
  BY <1>1, <1>2 DEF WorkOK
<1> QED BY <1>3, <1>4, <1>5 DEF ScreenInv

(* The one request writes the row, or only moves on.                       *)
LEMMA WritesOn ==
    ASSUME IInv, ScreenInv, One, NEW a \in Actors, req[a].at # "idle",
           UNCHANGED <<msgs, started>>,
           NEW b, NEW at \in Places \ {"idle", "invalidate", "dispatch"}, WriteBd(a, b, at),
           at = "opened" => req[a].kind = "text",
           at \in Unshown => b.measured = None,
           at = "contextRead" => b.context = None,
           b.calc # None => total',
           b.measured # None => LastShown(msgs) \in {"card", "edit"},
           Disconnects \/ at \in Unshown \/ Confirmable(b, msgs)
    PROVE  ScreenInv'
<1> DEFINE s == [req[a] EXCEPT !.bd = b, !.at = at]
<1>1. req[a] \in Request
  BY CopyTypes
<1>2. s.at = at /\ s.msgs = req[a].msgs /\ s.n = req[a].n /\ s.kind = req[a].kind
  BY <1>1 DEF Request
<1>3. req' = [req EXCEPT ![a] = s] /\ bd' = b
  BY DEF WriteBd, IInv, CopiesOK
<1>4. RowOK'
  BY <1>3 DEF RowOK
<1> HIDE DEF s
<1> QED BY <1>2, <1>3, <1>4, GoesOn

LEMMA MovesOn ==
    ASSUME IInv, ScreenInv, One, NEW a \in Actors, req[a].at # "idle",
           UNCHANGED <<bd, msgs, total, started>>,
           NEW at \in Places \ ({"idle", "invalidate", "opened", "dispatch"} \cup Unshown), req' = Goes(a, at),
           req[a].at \notin Unshown
    PROVE  ScreenInv'
<1> DEFINE s == [req[a] EXCEPT !.at = at]
<1>1. req[a] \in Request
  BY CopyTypes
<1>2. s.at = at /\ s.msgs = req[a].msgs /\ s.n = req[a].n /\ s.kind = req[a].kind
  BY <1>1 DEF Request
<1>3. req' = [req EXCEPT ![a] = s]
  BY DEF Goes, IInv, CopiesOK
<1>4. RowOK'
  BY DEF RowOK, ScreenInv
<1>5. Disconnects \/ Confirmable(bd', msgs)
  BY DEF ScreenInv, One
<1> HIDE DEF s
<1>6. s.at \notin Unshown /\ s.at \notin {"opened", "dispatch"} /\ s.at # "contextRead"
  BY <1>2 DEF Unshown
<1> QED BY <1>2, <1>3, <1>4, <1>5, <1>6, GoesOn

(* The one request ends.                                                   *)
LEMMA Ends ==
    ASSUME IInv, ScreenInv, One, NEW a \in Actors, req' = Done(a),
           HistoryOK', RowOK', Disconnects \/ Confirmable(bd', msgs')
    PROVE  ScreenInv'
<1>1. \A b \in Actors : req'[b].at = "idle"
  BY DEF Done, Idle, IInv, CopiesOK, One
<1>2. \A b \in Actors : WorkOK(req[b])'
  BY <1>1 DEF WorkOK
<1> QED BY <1>2 DEF ScreenInv

(* A turn is added: a card, of measures not confirmed yet, or words.       *)
LEMMA TurnEnds ==
    ASSUME IInv, ScreenInv, One, NEW a \in Actors, req[a].at # "idle", started' = started,
           NEW kind \in Kinds, FinishTurn(a, kind),
           bd'.calc # None => total',
           kind \in Cards => bd'.measured = None /\ (kind = "context" => bd'.context = None),
           kind \notin Cards => bd' = bd /\ req[a].at \notin Unshown
    PROVE  ScreenInv'
<1>1. /\ req[a].msgs = msgs /\ msgs \in Seq(Turn) /\ req[a].n \in Nat /\ req[a].n <= started
      /\ \A i \in DOMAIN msgs : msgs[i].n <= started
      /\ msgs' = WithAnswer(req[a], kind) /\ req' = Done(a)
  BY CopyTypes DEF ScreenInv, WorkOK, HistoryOK, FinishTurn
<1>2. /\ IF msgs = <<>> THEN msgs'[1].kind = "user" ELSE msgs'[1] = msgs[1]
      /\ \A i \in DOMAIN msgs' : msgs'[i].n = req[a].n \/ (i \in DOMAIN msgs /\ msgs'[i] = msgs[i])
      /\ LastShown(msgs') = IF kind \in Cards THEN kind ELSE LastShown(msgs)
  BY <1>1, TurnShown
<1>3. HistoryOK'
  BY <1>1, <1>2 DEF HistoryOK, ScreenInv
<1>4. RowOK'
  BY <1>2 DEF RowOK, ScreenInv
<1>5. Disconnects \/ Confirmable(bd', msgs')
  <2>1. CASE kind \in Cards
    BY <1>2, <2>1 DEF Confirmable, Cards
  <2>2. CASE kind \notin Cards
    BY <1>2, <2>2 DEF Confirmable, ScreenInv, One
  <2> QED BY <2>1, <2>2
<1> QED BY <1>1, <1>3, <1>4, <1>5, Ends

-----------------------------------------------------------------------------
(* The steps. *)

LEMMA Sends == ASSUME IInv, ScreenInv, One, NEW a \in Actors, Send(a) PROVE ScreenInv'
<1>. DEFINE From(kind, at, plan, name, legs, edits) ==
        /\ Load(a, kind, at, plan, name, legs, edits)
        /\ kind = "context" => LastShown(msgs) = "context"
        /\ kind = "measures" => LastShown(msgs) \in {"card", "edit"}
<1>0. PICK kind \in Requests, at \in {"invalidate", "opened", "dispatch"} :
        \E plan, name, legs, edits : From(kind, at, plan, name, legs, edits)
  BY DEF Send, SendText, SendPlan, SendContext, SendMeasures, SendOther, Requests
<1>1. PICK plan, name, legs, edits : From(kind, at, plan, name, legs, edits)
  BY <1>0
<1>2. req[a].at = "idle" /\ started' = started + 1 /\ UNCHANGED <<bd, msgs, total>>
  BY <1>1 DEF Load, row
<1>3. PICK s : /\ s.at = at /\ s.kind = kind /\ s.n = started + 1 /\ s.msgs = msgs
               /\ req' = [req EXCEPT ![a] = s]
  <2> DEFINE s == [at |-> at, kind |-> kind, n |-> started + 1, plan |-> plan,
                   name |-> name, legs |-> legs, edits |-> edits,
                   card |-> IF kind = "measures" THEN bd.card ELSE None,
                   bd |-> bd, msgs |-> msgs, total |-> total, status |-> status,
                   files |-> files]
  <2>1. s.at = at /\ s.kind = kind /\ s.n = started + 1 /\ s.msgs = msgs
    OBVIOUS
  <2>2. req' = [req EXCEPT ![a] = s]
    BY <1>1 DEF Load
  <2> HIDE DEF s
  <2> QED BY <2>1, <2>2
<1>4. started \in Nat /\ \A i \in DOMAIN msgs : msgs[i].n \in Nat /\ msgs[i].n <= started
  <2>1. \A i \in DOMAIN msgs : msgs[i] \in Turn
    BY DEF IInv, RestOK
  <2> QED BY <2>1, NamesAssumption DEF IInv, RestOK, ScreenInv, HistoryOK, Turn
<1>5. req'[a] = s /\ \A b \in Actors : b = a
  BY <1>3 DEF IInv, CopiesOK, One
<1>6. WorkOK(s)'
  BY <1>1, <1>2, <1>3, <1>4 DEF WorkOK, Unshown
<1>7. HistoryOK' /\ RowOK'
  BY <1>2, <1>4 DEF HistoryOK, RowOK, ScreenInv
<1>8. Disconnects \/ Confirmable(bd', msgs')
  BY <1>2, <1>5 DEF ScreenInv, Unshown
<1>9. \A b \in Actors : WorkOK(req[b])'
  BY <1>5, <1>6 DEF WorkOK
<1> QED BY <1>7, <1>8, <1>9 DEF ScreenInv

(* A request that has just read the row, or works for the agent. *)
LEMMA Working ==
    ASSUME IInv, ScreenInv, One, NEW a \in Actors, req[a].at # "idle"
    PROVE  /\ req[a].bd = bd /\ bd \in Coherent /\ bd \in Breakdown
           /\ req[a].at \notin Unshown => Disconnects \/ Confirmable(bd, msgs)
           /\ req[a].at \in Unshown => bd.measured = None
<1>1. req[a].bd = bd /\ bd \in Coherent
  BY CopyIsRow
<1> QED BY <1>1 DEF ScreenInv, WorkOK, One, Coherent

LEMMA CardScreens ==
    ASSUME IInv, ScreenInv, One, NEW a \in Actors,
           \/ InvalidateRead(a) \/ OpenStream(a) \/ ConfirmContext(a) \/ ConfirmMeasures(a)
           \/ EditCard(a) \/ AskAboutEdit(a) \/ ShowEdit(a) \/ ShowCard(a) \/ ShowContext(a)
    PROVE  ScreenInv'
<1> DEFINE s == req[a]
<1>0. /\ s \in Request /\ CopyOK(s, disk) /\ s.at # "idle" /\ started' = started
      /\ s.bd = bd /\ bd \in Breakdown /\ WorkOK(s)
      /\ s.at \notin Unshown => Disconnects \/ Confirmable(bd, msgs)
      /\ s.at \in Unshown => bd.measured = None
  <2>1. s.at # "idle" /\ started' = started
    BY DEF InvalidateRead, OpenStream, ConfirmContext, ConfirmMeasures, EditCard, AskAboutEdit,
      ShowEdit, ShowCard, ShowContext, KeepRest
  <2> QED BY <2>1, Working, CopyTypes DEF ScreenInv
<1>1. CASE InvalidateRead(a)
  <2>1. /\ s.kind = "text" /\ WriteBd(a, Unread(bd), "opened") /\ UNCHANGED <<msgs, total>>
    BY <1>0, <1>1 DEF InvalidateRead, CopyOK
  <2>2. Unread(bd).card = None /\ Unread(bd).measured = None /\ Unread(bd).calc = bd.calc
    BY <1>0 DEF Unread, Breakdown
  <2> QED BY <1>0, <2>1, <2>2, WritesOn DEF Confirmable, Unshown, Places, ScreenInv, RowOK
<1>2. CASE OpenStream(a)
  <2> DEFINE t == [s EXCEPT !.at = "dispatch", !.bd = bd, !.total = total, !.status = status]
  <2>1. req' = [req EXCEPT ![a] = t] /\ UNCHANGED <<bd, msgs, total>> /\ s.at = "opened"
    BY <1>2 DEF OpenStream, IInv, CopiesOK
  <2>2. t.at = "dispatch" /\ t.msgs = s.msgs /\ t.n = s.n /\ t.kind = s.kind
    BY <1>0 DEF Request
  <2>3. RowOK'
    BY <2>1 DEF RowOK, ScreenInv
  <2> HIDE DEF t
  <2> QED BY <1>0, <2>1, <2>2, <2>3, GoesOn DEF Unshown
<1>3. CASE ConfirmContext(a)
  <2> DEFINE b == Answered(bd, s.legs)
  <2>1. /\ s.kind = "context" /\ s.at = "dispatch" /\ WriteBd(a, b, "contextSaved")
        /\ UNCHANGED <<msgs, total>>
    BY <1>0, <1>3 DEF ConfirmContext
  <2>2. bd.measured = None
    BY <1>0, <2>1 DEF WorkOK, ScreenInv, RowOK
  <2>3. b.measured = None /\ b.calc = bd.calc
    BY <1>0, <2>2 DEF Answered, Breakdown
  <2> HIDE DEF b
  <2> QED BY <1>0, <2>1, <2>3, WritesOn DEF Unshown, Places, ScreenInv, RowOK
<1>4. CASE ConfirmMeasures(a)
  <2> DEFINE b == Measured(bd, s.card, s.edits)
  <2>1. /\ LastShown(msgs) \in {"card", "edit"} /\ WriteBd(a, b, "agent")
        /\ UNCHANGED <<msgs, total>>
    BY <1>0, <1>4 DEF ConfirmMeasures, WorkOK
  <2>2. b.calc = bd.calc
    BY <1>0 DEF Measured, Breakdown
  <2> HIDE DEF b
  <2> QED BY <1>0, <2>1, <2>2, WritesOn DEF Unshown, Places, ScreenInv, RowOK, Confirmable
<1>5. CASE EditCard(a)
  <2>1. /\ WriteBd(a, Patch(bd), "cardEdited") /\ msgs' = msgs
    BY <1>0, <1>5 DEF EditCard
  <2>2. Patch(bd).measured = None /\ Patch(bd).calc = None
    BY <1>0 DEF Patch, Confirmed, ResetToPaso1, Breakdown
  <2> QED BY <1>0, <2>1, <2>2, WritesOn DEF Unshown, Places
<1>6. CASE AskAboutEdit(a)
  BY <1>0, <1>6, TurnEnds DEF AskAboutEdit, Kinds, Cards, Unshown, ScreenInv, RowOK
<1>7. CASE ShowEdit(a)
  BY <1>0, <1>7, TurnEnds DEF ShowEdit, Kinds, Cards, Unshown, ScreenInv, RowOK
<1>8. CASE ShowCard(a)
  BY <1>0, <1>8, TurnEnds DEF ShowCard, Kinds, Cards, Unshown, ScreenInv, RowOK
<1>9. CASE ShowContext(a)
  <2>1. bd.context = None
    BY <1>0, <1>9 DEF ShowContext, WorkOK
  <2> QED BY <1>0, <1>9, <2>1, TurnEnds DEF ShowContext, Kinds, Cards, Unshown, ScreenInv, RowOK
<1> QED BY <1>1, <1>2, <1>3, <1>4, <1>5, <1>6, <1>7, <1>8, <1>9

LEMMA ReadingScreens ==
    ASSUME IInv, ScreenInv, One, NEW a \in Actors,
           \/ ParseBrief(a) \/ GoToAgent(a) \/ ShowAgain(a) \/ StartReading(a)
           \/ FinishReading(a) \/ ReadingFails(a)
    PROVE  ScreenInv'
<1> DEFINE s == req[a]
<1>0. /\ s \in Request /\ CopyOK(s, disk) /\ s.at # "idle" /\ started' = started
      /\ s.bd = bd /\ bd \in Breakdown /\ WorkOK(s)
      /\ s.at \notin Unshown /\ (Disconnects \/ Confirmable(bd, msgs))
  <2>1. s.at # "idle" /\ s.at \notin Unshown /\ started' = started
    BY DEF ParseBrief, GoToAgent, ShowAgain, StartReading, FinishReading, ReadingFails, Free,
      KeepRest, Unshown
  <2> QED BY <2>1, Working, CopyTypes DEF ScreenInv
<1>1. CASE ParseBrief(a)
  <2> DEFINE read == [bd EXCEPT !.card = Fresh(Text)]
             first == [read EXCEPT !.pending = Text]
  <2>1. /\ read.measured = bd.measured /\ read.calc = bd.calc
        /\ first.measured = bd.measured /\ first.calc = bd.calc /\ first.context = bd.context
    BY <1>0 DEF Breakdown
  <2>2. bd.measured = None /\ total' = total
    BY <1>0, <1>1 DEF ParseBrief, ParsesBrief, Confirmed
  <2>3. \/ bd.context = None /\ bd' = first /\ FinishTurn(a, "context")
        \/ bd' = read /\ FinishTurn(a, "card")
    BY <1>0, <1>1 DEF ParseBrief
  <2> HIDE DEF read, first
  <2> QED BY <1>0, <2>1, <2>2, <2>3, TurnEnds DEF Kinds, Cards, ScreenInv, RowOK
<1>2. CASE GoToAgent(a)
  <2>0. UNCHANGED <<msgs, total>>
    BY <1>2 DEF GoToAgent
  <2>1. CASE req' = Goes(a, "agent") /\ UNCHANGED bd
    BY <1>0, <2>0, <2>1, MovesOn DEF Places, Unshown
  <2>2. CASE WriteBd(a, [bd EXCEPT !.hash = s.plan], "agent")
    <3> DEFINE b == [bd EXCEPT !.hash = s.plan]
    <3>1. /\ b.card = bd.card /\ b.measured = bd.measured /\ b.calc = bd.calc
          /\ b.context = bd.context /\ b.pending = bd.pending
      BY <1>0 DEF Breakdown
    <3> HIDE DEF b
    <3>2. WriteBd(a, b, "agent")
      BY <2>2 DEF b
    <3> QED BY <1>0, <2>0, <3>1, <3>2, WritesOn DEF Places, Unshown, ScreenInv, RowOK, Confirmable
  <2> QED BY <1>0, <1>2, <2>1, <2>2 DEF GoToAgent
<1>3. CASE ShowAgain(a)
  BY <1>0, <1>3, TurnEnds DEF ShowAgain, Kinds, Cards, Confirmed, ScreenInv, RowOK
<1>4. CASE StartReading(a)
  <2>0. UNCHANGED <<msgs, total>>
    BY <1>4 DEF StartReading
  <2>1. CASE WriteBd(a, DropStale(bd), "reading")
    <3>1. DropStale(bd).card = None /\ DropStale(bd).measured = None /\ DropStale(bd).calc = None
      BY <1>0 DEF DropStale, Breakdown
    <3> QED BY <1>0, <2>0, <2>1, <3>1, WritesOn DEF Places, Unshown, Confirmable
  <2>2. CASE req' = Goes(a, "reading") /\ UNCHANGED bd
    BY <1>0, <2>0, <2>2, MovesOn DEF Places, Unshown
  <2> QED BY <1>0, <1>4, <2>1, <2>2 DEF StartReading
<1>5. CASE FinishReading(a)
  <2> DEFINE read == [bd EXCEPT !.card = Fresh(s.plan), !.hash = s.plan]
             first == [read EXCEPT !.pending = s.plan]
  <2>1. /\ read.measured = bd.measured /\ read.calc = bd.calc
        /\ first.measured = bd.measured /\ first.calc = bd.calc /\ first.context = bd.context
    BY <1>0 DEF Breakdown
  <2>2. bd.measured = None /\ UNCHANGED <<msgs, total>>
    BY <1>0, <1>5 DEF FinishReading, CopyOK
  <2>3. \/ bd.context = None /\ WriteBd(a, first, "contextRead")
        \/ WriteBd(a, read, "cardRead")
    BY <1>0, <1>5 DEF FinishReading
  <2> HIDE DEF read, first
  <2> QED BY <1>0, <2>1, <2>2, <2>3, WritesOn DEF Places, Unshown, ScreenInv, RowOK
<1>6. CASE ReadingFails(a)
  BY <1>0, <1>6, MovesOn DEF ReadingFails, Places, Unshown
<1> QED BY <1>1, <1>2, <1>3, <1>4, <1>5, <1>6

LEMMA AgentScreens ==
    ASSUME IInv, ScreenInv, One, NEW a \in Actors,
           Calculate(a) \/ Generate(a) \/ SaveTurn(a) \/ AgentFails(a)
    PROVE  ScreenInv'
<1> DEFINE s == req[a]
<1>0. /\ s.at # "idle" /\ started' = started /\ s.bd = bd /\ bd \in Breakdown
      /\ s.at \notin Unshown /\ (Disconnects \/ Confirmable(bd, msgs))
  <2>1. s.at # "idle" /\ s.at \notin Unshown /\ started' = started
    BY DEF Calculate, Generate, SaveTurn, AgentFails, InLoop, KeepRest, Unshown
  <2> QED BY <2>1, Working
<1>1. CASE Calculate(a)
  <2> DEFINE b == [Kept(bd) EXCEPT !.calc = Measures(bd)]
  <2>1. WriteBd(a, b, "calculated") /\ total' = TRUE /\ msgs' = msgs
    BY <1>0, <1>1 DEF Calculate
  <2>2. b.card = bd.card /\ b.measured = bd.measured /\ b.context = None /\ b.pending = None
    BY DEF Kept, EmptyBreakdown
  <2> HIDE DEF b
  <2> QED BY <1>0, <2>1, <2>2, WritesOn DEF Places, Unshown, Confirmable, ScreenInv, RowOK
<1>2. CASE Generate(a)
  <2>1. PICK b \in Priced(bd) : WriteBd(a, b, "generated")
    BY <1>0, <1>2 DEF Generate
  <2>2. total' = TRUE /\ msgs' = msgs
    BY <1>2 DEF Generate
  <2>3. b = bd \/ (b.card = None /\ b.measured = None)
    BY <2>1 DEF Priced, EmptyBreakdown
  <2> QED BY <1>0, <2>1, <2>2, <2>3, WritesOn DEF Places, Unshown, Confirmable, ScreenInv, RowOK
<1>3. CASE SaveTurn(a)
  <2>1. Said[s.at] \in Kinds \ Cards
    BY <1>3 DEF SaveTurn, InLoop, Said, Kinds, Cards
  <2> QED BY <1>0, <1>3, <2>1, TurnEnds DEF SaveTurn, ScreenInv, RowOK
<1>4. CASE AgentFails(a)
  <2>1. HistoryOK' /\ RowOK'
    BY <1>0, <1>4 DEF AgentFails, ScreenInv, HistoryOK, RowOK
  <2> QED BY <1>0, <1>4, <2>1, Ends DEF AgentFails
<1> QED BY <1>1, <1>2, <1>3, <1>4

(* The chat cut at a card. *)
LEMMA Cuts ==
    ASSUME IInv, ScreenInv, One, NEW a \in Actors, req[a].at # "idle",
           NEW kind \in {"card", "context"}, NEW shown \in ShownAt(kind, req[a].n),
           msgs' = CutAt(req[a].msgs, kind, shown), started' = started
    PROVE  /\ HistoryOK'
           /\ shown # <<>> => LastShown(msgs') \in {LastShown(msgs), kind}
           /\ msgs # <<>> => msgs' # <<>> /\ msgs'[1] = msgs[1]
<1>1. /\ req[a].msgs = msgs /\ msgs \in Seq(Turn) /\ req[a].n \in Nat /\ req[a].n <= started
      /\ (msgs # <<>> => msgs[1].kind = "user") /\ \A i \in DOMAIN msgs : msgs[i].n <= started
  BY CopyTypes DEF ScreenInv, WorkOK, HistoryOK
<1>2. \/ msgs' = msgs
      \/ /\ msgs # <<>> /\ msgs' # <<>> /\ msgs'[1] = msgs[1]
         /\ \A i \in DOMAIN msgs' : msgs'[i].n = req[a].n \/ (i \in DOMAIN msgs /\ msgs'[i] = msgs[i])
         /\ shown # <<>> => LastShown(msgs') = kind
  BY <1>1, CutShown
<1>3. HistoryOK'
  BY <1>1, <1>2 DEF HistoryOK
<1> QED BY <1>2, <1>3

LEMMA EndpointScreens ==
    ASSUME IInv, ScreenInv, One, NEW a \in Actors,
           ReopenMeasurements(a) \/ ReopenContext(a) \/ DualReadRetry(a) \/ Disconnect(a)
    PROVE  ScreenInv'
<1> DEFINE s == req[a]
<1>0. /\ s.at # "idle" /\ started' = started /\ s.bd = bd /\ bd \in Breakdown /\ req' = Done(a)
      /\ s.at \notin Unshown => Disconnects \/ Confirmable(bd, msgs)
  <2>1. s.at # "idle" /\ started' = started /\ req' = Done(a)
    BY DEF ReopenMeasurements, ReopenContext, DualReadRetry, Disconnect, KeepRest
  <2> QED BY <2>1, Working
<1>1. CASE ReopenMeasurements(a)
  <2>1. /\ bd' = Promote(bd) /\ HistoryOK' /\ LastShown(msgs') \in {LastShown(msgs), "card"}
        /\ Disconnects \/ Confirmable(bd, msgs)
    <3>1. <<[kind |-> "card", n |-> s.n]>> \in ShownAt("card", s.n) \ {<<>>}
      BY DEF ShownAt
    <3> QED BY <1>0, <1>1, <3>1, Cuts DEF ReopenMeasurements, Unshown
  <2>2. /\ bd'.measured = None /\ bd'.calc = None
        /\ bd'.context = bd.context /\ bd'.pending = bd.pending
        /\ bd.measured = None => bd'.card = bd.card
    BY <1>0, <2>1 DEF Promote, ResetToPaso1, Confirmed, Breakdown
  <2>3. Disconnects \/ Confirmable(bd', msgs')
    BY <2>1, <2>2 DEF Confirmable, ScreenInv, RowOK
  <2> QED BY <1>0, <2>1, <2>2, <2>3, Ends DEF RowOK
<1>2. CASE ReopenContext(a)
  <2>1. /\ bd' = Underived(ResetToPreContext(bd)) /\ HistoryOK'
        /\ bd.pending # None => LastShown(msgs') \in {LastShown(msgs), "context"}
        /\ Disconnects \/ Confirmable(bd, msgs)
    <3>1. ContextCard(s) \in ShownAt("context", s.n) /\ (bd.pending # None => ContextCard(s) # <<>>)
      BY <1>0 DEF ShownAt, ContextCard
    <3> QED BY <1>0, <1>2, <3>1, Cuts DEF ReopenContext, Unshown
  <2>2. /\ bd'.measured = None /\ bd'.calc = None /\ bd'.context = None /\ bd'.pending = bd.pending
        /\ bd.card = None => bd'.card = None
    BY <1>0, <2>1 DEF Underived, ResetToPreContext, ResetToPaso1, Breakdown
  <2>3. Disconnects \/ Confirmable(bd', msgs')
    BY <2>1, <2>2 DEF Confirmable, ScreenInv, RowOK
  <2> QED BY <1>0, <2>1, <2>2, <2>3, Ends DEF RowOK
<1>3. CASE DualReadRetry(a)
  <2>1. /\ UNCHANGED <<msgs, total>> /\ (Disconnects \/ Confirmable(bd, msgs)) /\ bd.card # None
        /\ bd' = bd \/ bd' = [bd EXCEPT !.card = Fresh(bd.card.from)]
    BY <1>0, <1>3, CopyTypes DEF DualReadRetry, CopyOK, Unshown
  <2>2. /\ bd'.measured = bd.measured /\ bd'.calc = bd.calc
        /\ bd'.context = bd.context /\ bd'.pending = bd.pending
    BY <1>0, <2>1 DEF Breakdown
  <2>3. HistoryOK' /\ RowOK' /\ (Disconnects \/ Confirmable(bd', msgs'))
    BY <1>0, <2>1, <2>2 DEF ScreenInv, HistoryOK, RowOK, Confirmable
  <2> QED BY <1>0, <2>3, Ends
<1>4. CASE Disconnect(a)
  <2>1. HistoryOK' /\ RowOK' /\ Disconnects
    BY <1>0, <1>4 DEF Disconnect, ScreenInv, HistoryOK, RowOK
  <2> QED BY <1>0, <2>1, Ends
<1> QED BY <1>1, <1>2, <1>3, <1>4

LEMMA ScreenKept == ASSUME IInv, ScreenInv, One, [Next]_vars PROVE ScreenInv'
<1>1. ASSUME NEW a \in Actors, Send(a) \/ Step(a) \/ Disconnect(a) PROVE ScreenInv'
  BY <1>1, Sends, CardScreens, ReadingScreens, AgentScreens, EndpointScreens DEF Step
<1>2. ASSUME NEW to \in Status, Becomes(to) PROVE ScreenInv'
  <2>1. /\ started \in Nat /\ started' = started + 1 /\ UNCHANGED <<bd, msgs, total, req>>
        /\ \A i \in DOMAIN msgs : msgs[i].n \in Nat
    <3>1. \A i \in DOMAIN msgs : msgs[i] \in Turn
      BY DEF IInv, RestOK
    <3> QED BY <1>2, <3>1, NamesAssumption DEF Becomes, IInv, RestOK, Turn
  <2>2. \A a \in Actors : req[a].n \in Nat
    BY CopyTypes
  <2>3. HistoryOK' /\ RowOK'
    BY <2>1 DEF ScreenInv, HistoryOK, RowOK
  <2>4. \A a \in Actors : WorkOK(req[a])'
    BY <2>1, <2>2 DEF ScreenInv, WorkOK
  <2> QED BY <2>1, <2>3, <2>4 DEF ScreenInv
<1>3. CASE UNCHANGED vars
  BY <1>3 DEF vars, row, ScreenInv, HistoryOK, RowOK, WorkOK
<1> QED BY <1>1, <1>2, <1>3, ByHand DEF Next, IInv, RestOK

LEMMA ScreenInvariance == ASSUME One PROVE Spec => [](IInv /\ ScreenInv)
<1>1. Init => IInv /\ ScreenInv
  BY InitIInv, ScreenInit
<1>2. (IInv /\ ScreenInv) /\ [Next]_vars => (IInv /\ ScreenInv)'
  BY One, NextIInv, ScreenKept
<1> QED BY <1>1, <1>2, PTL DEF Spec

-----------------------------------------------------------------------------
(* The theorems. *)

(* Between two requests of one operator whose connection lasts, a card that *)
(* waits for a confirmation is the last one in the chat, or the context is  *)
(* while it is open, and a price has its totals in the row: the commits of  *)
(* stream_chat and the cuts of the reopen endpoints keep up with each other.*)
THEOREM BetweenRequestsHolds ==
    ASSUME One, ~Disconnects PROVE Spec => []BetweenRequests
<1>1. IInv /\ ScreenInv => BetweenRequests
  BY ~Disconnects DEF ScreenInv, RowOK, Confirmable, Unshown, BetweenRequests, ConfirmableCard,
    PricedHasTotals, Settled, Confirmed
<1> QED BY <1>1, ScreenInvariance, One, PTL

(* What one operator's chat begins with stays: a turn goes at its end, and  *)
(* a cut is never before the first card ("Nunca borrar el brief inicial").  *)
THEOREM BriefIsKept == ASSUME One PROVE Spec => BriefKept
<1>1. ASSUME IInv, ScreenInv, [Next]_vars, msgs # <<>>
      PROVE  msgs' # <<>> /\ msgs'[1] = msgs[1]
  <2>1. ASSUME NEW a \in Actors, NEW kind \in Kinds, req[a].at # "idle", FinishTurn(a, kind)
        PROVE  msgs' # <<>> /\ msgs'[1] = msgs[1]
    BY <1>1, <2>1, CopyTypes, TurnShown DEF ScreenInv, WorkOK, FinishTurn
  <2>2. ASSUME NEW a \in Actors, Step(a) PROVE msgs' # <<>> /\ msgs'[1] = msgs[1]
    <3>1. CASE msgs' = msgs
      BY <1>1, <3>1
    <3>2. CASE \E kind \in Kinds : req[a].at # "idle" /\ FinishTurn(a, kind)
      BY <2>1, <3>2
    <3>3. CASE ReopenMeasurements(a) \/ ReopenContext(a)
      <4>1. /\ <<[kind |-> "card", n |-> req[a].n]>> \in ShownAt("card", req[a].n)
            /\ ContextCard(req[a]) \in ShownAt("context", req[a].n)
        BY DEF ShownAt, ContextCard
      <4> QED BY <1>1, <3>3, <4>1, One, Cuts DEF ReopenMeasurements, ReopenContext, KeepRest
    <3>4. InLoop(req[a]) => Said[req[a].at] \in Kinds /\ req[a].at # "idle"
      BY DEF InLoop, Said, Kinds
    <3> QED BY <2>2, <3>1, <3>2, <3>3, <3>4
        DEF Step, InvalidateRead, OpenStream, ConfirmContext, ConfirmMeasures, EditCard,
            AskAboutEdit, ShowEdit, ParseBrief, GoToAgent, ShowAgain, StartReading, FinishReading,
            ReadingFails, ShowContext, ShowCard, Calculate, Generate, SaveTurn, AgentFails,
            DualReadRetry, Free, Kinds
  <2>3. ASSUME NEW a \in Actors, Send(a) \/ Disconnect(a) PROVE msgs' = msgs
    BY <2>3 DEF Send, SendText, SendPlan, SendContext, SendMeasures, SendOther, Load, row, Disconnect
  <2>4. CASE UpdateStatus \/ PatchStatus \/ Validate \/ UNCHANGED vars
    BY <1>1, <2>4 DEF UpdateStatus, PatchStatus, Validate, Becomes, vars, row
  <2> QED BY <1>1, <2>2, <2>3, <2>4 DEF Next
<1>2. (IInv /\ ScreenInv) /\ [Next]_vars => (msgs # <<>> => msgs' # <<>> /\ msgs'[1] = msgs[1])
  BY <1>1
<1> QED BY <1>2, ScreenInvariance, One, PTL DEF Spec, BriefKept

(* A message about a plan whose measures are confirmed puts no other card  *)
(* in one operator's chat: the branches of stream_chat that show one all   *)
(* find the measures not confirmed.                                        *)
THEOREM NoSecondCardHolds == ASSUME One PROVE Spec => NoSecondCard
<1>1. ASSUME IInv, ScreenInv, [Next]_vars, NEW a \in Actors,
             req[a].kind = "text", req[a].at # "idle", req'[a].at = "idle", Confirmed(bd)
      PROVE  ~Shows(msgs', req[a].n, {"context", "card"})
  <2> DEFINE s == req[a]
  <2>1. /\ s.bd = bd /\ (s.at \in Unshown => bd.measured = None) /\ s.n \in Nat
        /\ s.msgs = msgs /\ msgs \in Seq(Turn) /\ \A i \in DOMAIN msgs : msgs[i].n < s.n
    BY <1>1, One, Working, CopyTypes DEF ScreenInv, WorkOK
  <2>2. ASSUME msgs' = msgs PROVE ~Shows(msgs', s.n, {"context", "card"})
    <3>1. SUFFICES ASSUME msgs # <<>>, Last(msgs).n = s.n PROVE FALSE
      BY <2>2 DEF Shows
    <3>2. Len(msgs) \in DOMAIN msgs /\ msgs[Len(msgs)].n = s.n
      BY <2>1, <3>1 DEF Last
    <3> QED BY <2>1, <3>2
  <2>3. ASSUME NEW kind \in Kinds \ {"context", "card"}, FinishTurn(a, kind)
        PROVE  ~Shows(msgs', s.n, {"context", "card"})
    BY <2>1, <2>3, TurnShown DEF FinishTurn, Shows
  <2>4. CASE Step(a)
    <3>1. CASE AskAboutEdit(a) \/ ShowEdit(a)
      BY <2>3, <3>1 DEF AskAboutEdit, ShowEdit, Kinds
    <3>2. CASE SaveTurn(a)
      <4>1. Said[s.at] \in Kinds \ {"context", "card"}
        BY <3>2 DEF SaveTurn, InLoop, Said, Kinds
      <4> QED BY <2>3, <3>2, <4>1 DEF SaveTurn
    <3>3. CASE AgentFails(a)
      BY <2>2, <3>3 DEF AgentFails
    <3>4. CASE ParseBrief(a) \/ ShowAgain(a) \/ ShowContext(a) \/ ShowCard(a)
      BY <1>1, <2>1, <3>4 DEF ParseBrief, ParsesBrief, ShowAgain, ShowContext, ShowCard, Unshown, Confirmed
    <3>5. CASE ReopenMeasurements(a) \/ ReopenContext(a) \/ DualReadRetry(a)
      BY <1>1, <3>5 DEF ReopenMeasurements, ReopenContext, DualReadRetry
    <3>6. ASSUME NEW b, NEW at \in Places \ {"idle"}, WriteBd(a, b, at) PROVE FALSE
      <4>1. req'[a].at = at
        BY <3>6, CopyTypes, <1>1 DEF WriteBd, Request, IInv, CopiesOK
      <4> QED BY <1>1, <4>1
    <3>7. ASSUME NEW at \in Places \ {"idle"}, req' = Goes(a, at) PROVE FALSE
      <4>1. req'[a].at = at
        BY <3>7, CopyTypes, <1>1 DEF Goes, Request, IInv, CopiesOK
      <4> QED BY <1>1, <4>1
    <3>8. CASE OpenStream(a)
      <4>1. req'[a].at = "dispatch"
        BY <1>1, <3>8, CopyTypes DEF OpenStream, Request, IInv, CopiesOK
      <4> QED BY <1>1, <4>1
    <3>9. CASE \/ InvalidateRead(a) \/ ConfirmContext(a) \/ ConfirmMeasures(a) \/ EditCard(a)
               \/ GoToAgent(a) \/ StartReading(a) \/ FinishReading(a) \/ ReadingFails(a)
               \/ Calculate(a) \/ Generate(a)
      BY <3>6, <3>7, <3>9
      DEF InvalidateRead, ConfirmContext, ConfirmMeasures, EditCard, GoToAgent, StartReading,
          FinishReading, ReadingFails, Calculate, Generate, Places
    <3> QED BY <2>4, <3>1, <3>2, <3>3, <3>4, <3>5, <3>8, <3>9 DEF Step
  <2>5. CASE \/ Send(a) \/ Disconnect(a)
             \/ UpdateStatus \/ PatchStatus \/ Validate \/ UNCHANGED vars
    <3>1. msgs' = msgs
      BY <2>5 DEF Send, SendText, SendPlan, SendContext, SendMeasures, SendOther, Load, row,
        Disconnect, UpdateStatus, PatchStatus, Validate, Becomes, vars
    <3> QED BY <2>2, <3>1
  <2> QED BY <1>1, <2>4, <2>5, One DEF Next, One
<1>2. (IInv /\ ScreenInv) /\ [Next]_vars =>
        \A a \in Actors :
          /\ req[a].kind = "text"
          /\ req[a].at # "idle" /\ req'[a].at = "idle"
          /\ Confirmed(bd) /\ bd.measured.from = req[a].plan
          => ~Shows(msgs', req[a].n, {"context", "card"})
  BY <1>1
<1> QED BY <1>2, ScreenInvariance, One, PTL DEF Spec, NoSecondCard
=============================================================================
