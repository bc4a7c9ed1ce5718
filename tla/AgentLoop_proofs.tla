--------------------------- MODULE AgentLoop_proofs ---------------------------
(***************************************************************************)
(* What holds of AgentLoop for every set of tools and every limit: the     *)
(* retry guard, the budgets of iterations and requests, the pairing of     *)
(* calls and results in the history and the answer of a saved turn, each   *)
(* from an inductive invariant.                                            *)
(***************************************************************************)
EXTENDS AgentLoop, SequenceTheorems, FiniteSetTheorems, TLAPS

USE DEF requestVars, toolVars

(* Counts, and the flags the guards read, keep their types. The sequences   *)
(* take part only through todo: its elements are tools.                     *)
CountersOK ==
    /\ pc \in Phases
    /\ iter \in Nat
    /\ responses \in Nat
    /\ failures \in [Tools -> Nat]
    /\ failedRuns \in [Tools -> Nat]
    /\ corrected \in BOOLEAN
    /\ todo \in Seq(Tools)

(* A failed execution is a counted failure, and a blocked call only raises  *)
(* the count: the guard on the count is a guard on the executions.          *)
RetryInv ==
    \A t \in Tools :
        /\ failedRuns[t] <= failures[t]
        /\ failedRuns[t] <= Threshold

(* The counter of the loop exceeds the responses by the one correction, and *)
(* a response is asked for only below the limit.                            *)
BudgetInv ==
    /\ iter = responses + (IF corrected THEN 1 ELSE 0)
    /\ pc = "request" => iter < MaxIterations
    /\ responses <= MaxIterations

IInv == CountersOK /\ RetryInv /\ BudgetInv

LEMMA InitIInv == Init => IInv
<1> SUFFICES ASSUME Init PROVE IInv
    OBVIOUS
<1>1. CountersOK
  <2>1. todo \in Seq(Tools)
    BY DEF Init
  <2>2. /\ failures \in [Tools -> Nat]
        /\ failedRuns \in [Tools -> Nat]
    BY DEF Init
  <2>3. /\ pc \in Phases
        /\ iter \in Nat
        /\ responses \in Nat
        /\ corrected \in BOOLEAN
    BY DEF Init, Phases
  <2> QED
    BY <2>1, <2>2, <2>3 DEF CountersOK
<1>2. RetryInv
    BY BoundsAssumption DEF Init, RetryInv
<1>3. BudgetInv
    BY BoundsAssumption DEF Init, BudgetInv
<1> QED
    BY <1>1, <1>2, <1>3 DEF IInv

(* A list of calls is a sequence of tools. *)
LEMMA CallListsAreSequences == CallLists \subseteq Seq(Tools)
<1> SUFFICES ASSUME NEW n \in 1..MaxCalls, NEW f \in [1..n -> Offered]
             PROVE  f \in Seq(Tools)
    BY DEF CallLists
<1>1. Offered \subseteq Tools
    BY DEF Offered
<1>2. n \in Nat
    BY BoundsAssumption
<1>3. f \in [1..n -> Tools]
    BY <1>1
<1> QED
    BY <1>2, <1>3

LEMMA NextIInv == IInv /\ [Next]_vars => IInv'
<1> SUFFICES ASSUME IInv, [Next]_vars PROVE IInv'
    OBVIOUS
<1> USE BoundsAssumption DEF IInv, CountersOK, RetryInv, BudgetInv, Phases
<1>1. CASE BeginIteration
    BY <1>1 DEF BeginIteration, LimitReached
<1>2. CASE RetryRequest
    BY <1>2 DEF RetryRequest
<1>3. CASE GiveUp
    BY <1>3 DEF GiveUp
<1>4. CASE Truncated
    BY <1>4 DEF Truncated, Respond
<1>5. CASE CorrectPaso1
    BY <1>5 DEF CorrectPaso1, Respond, NeedsListPieces
<1>6. CASE Answer
    BY <1>6 DEF Answer, Respond
<1>7. CASE CallTools
    BY <1>7, CallListsAreSequences DEF CallTools, Respond
<1>8. ASSUME Advance
      PROVE  /\ Head(todo) \in Tools
             /\ todo' \in Seq(Tools)
             /\ pc' = pc
             /\ UNCHANGED <<iter, responses, corrected>>
    BY <1>8 DEF Advance
<1>9. CASE BlockTool
    BY <1>8, <1>9 DEF BlockTool
<1>10. CASE ToolFails
  <2>1. /\ Head(todo) \in Tools
        /\ failures[Head(todo)] < Threshold
        /\ failures' = [failures EXCEPT ![Head(todo)] = @ + 1]
        /\ failedRuns' = [failedRuns EXCEPT ![Head(todo)] = @ + 1]
    BY <1>8, <1>10 DEF ToolFails, ShouldBlockRetry
  <2>2. CountersOK'
    BY <1>8, <1>10, <2>1 DEF ToolFails
  <2>3. RetryInv'
    BY <2>1
  <2>4. BudgetInv'
    BY <1>8, <1>10 DEF ToolFails
  <2> QED
    BY <2>2, <2>3, <2>4
<1>11. CASE ToolSucceeds
    BY <1>8, <1>11 DEF ToolSucceeds
<1>12. CASE FinishTools
    BY <1>12 DEF FinishTools
<1>13. CASE Save
    BY <1>13 DEF Save
<1>14. CASE Disconnect
    BY <1>14 DEF Disconnect
<1>15. CASE UNCHANGED vars
    BY <1>15 DEF vars
<1> QED
    BY <1>1, <1>2, <1>3, <1>4, <1>5, <1>6, <1>7, <1>9, <1>10, <1>11, <1>12,
       <1>13, <1>14, <1>15 DEF Next, Step, Finished

LEMMA Invariance == Spec => []IInv
BY InitIInv, NextIInv, PTL DEF Spec

(* Whatever the model answers, no tool of a turn fails more than Threshold  *)
(* times: the promise of retry_guard.py, for every set of tools.            *)
THEOREM RetryBoundHolds == Spec => []RetryBound
<1>1. IInv => RetryBound
    BY DEF IInv, RetryInv, RetryBound
<1> QED
    BY Invariance, <1>1, PTL

(* MAX_ITERATIONS bounds the responses of a turn exactly, and its counter   *)
(* up to the correction of Paso 1.                                          *)
THEOREM IterationBudgetHolds == Spec => []IterationBudget
<1>1. IInv => IterationBudget
    BY BoundsAssumption DEF IInv, CountersOK, BudgetInv, IterationBudget
<1> QED
    BY Invariance, <1>1, PTL

-----------------------------------------------------------------------------
(* The requests sent for the current response are counted by its attempts. *)
Spent(n) == n * (MaxRetries + 1)

RequestInv ==
    /\ attempt \in 0..MaxRetries
    /\ requests \in Nat
    /\ pc = "request" => requests <= Spent(responses) + attempt
    /\ pc \in {"loop", "tools", "save"} => requests <= Spent(responses)
    /\ pc = "done" => requests <= Spent(responses + 1)

LEMMA SpentGrows ==
    ASSUME NEW n \in Nat
    PROVE  Spent(n) \in Nat /\ Spent(n + 1) = Spent(n) + MaxRetries + 1
<1>1. ASSUME NEW k \in Nat PROVE n * k \in Nat /\ (n + 1) * k = n * k + k
    OBVIOUS
<1> QED
    BY <1>1, BoundsAssumption DEF Spent

LEMMA NextRequestInv == IInv /\ RequestInv /\ [Next]_vars => RequestInv'
<1> SUFFICES ASSUME IInv, RequestInv, [Next]_vars PROVE RequestInv'
    OBVIOUS
<1>0. /\ responses \in Nat /\ pc \in Phases
      /\ Spent(responses) \in Nat
      /\ Spent(responses + 1) = Spent(responses) + MaxRetries + 1
    BY SpentGrows DEF IInv, CountersOK
<1> USE BoundsAssumption, <1>0 DEF RequestInv, Phases
<1>1. CASE BeginIteration
    BY <1>1 DEF BeginIteration
<1>2. CASE RetryRequest
    BY <1>2 DEF RetryRequest, MayRetry
<1>3. CASE GiveUp
    BY <1>3 DEF GiveUp
<1>4. ASSUME Respond, pc' \in {"loop", "tools", "save"}, UNCHANGED attempt
      PROVE  RequestInv'
    BY <1>4 DEF Respond
<1>5. CASE Truncated \/ CorrectPaso1 \/ Answer \/ CallTools
    BY <1>4, <1>5 DEF Truncated, CorrectPaso1, Answer, CallTools
<1>6. CASE BlockTool \/ ToolFails \/ ToolSucceeds
    BY <1>6 DEF BlockTool, ToolFails, ToolSucceeds, Advance
<1>7. CASE FinishTools
    BY <1>7 DEF FinishTools
<1>8. CASE Save
    BY <1>8 DEF Save
<1>9. CASE Disconnect
    BY <1>9 DEF Disconnect
<1>10. CASE UNCHANGED vars
    BY <1>10 DEF vars
<1> QED
    BY <1>1, <1>2, <1>3, <1>5, <1>6, <1>7, <1>8, <1>9, <1>10 DEF Next, Step, Finished

(* However overloaded the model is, a turn sends at most MaxRetries + 1    *)
(* requests for each response, and as many for the one that never came.    *)
THEOREM RequestBudgetHolds == Spec => []RequestBudget
<1>1. Init => RequestInv
    BY BoundsAssumption, SpentGrows DEF Init, RequestInv, Spent
<1>2. IInv /\ RequestInv => RequestBudget
    BY SpentGrows, BoundsAssumption
    DEF IInv, CountersOK, RequestInv, RequestBudget, Spent, Phases
<1> QED
    BY <1>1, <1>2, Invariance, NextRequestInv, PTL DEF Spec

(* What one message of the operator can cost has a bound, whatever the     *)
(* model answers and however often it is overloaded.                       *)
THEOREM TurnBudgetHolds == Spec => []TurnBudget
<1>1. IterationBudget /\ RequestBudget => TurnBudget
    BY DEF TurnBudget
<1> QED
    BY IterationBudgetHolds, RequestBudgetHolds, <1>1, PTL

-----------------------------------------------------------------------------
(* The history: what each path appends is paired in itself, and appending  *)
(* one paired sequence to another keeps both so.                           *)
Paired(s) ==
    \A i \in 1..Len(s) :
        /\ s[i].kind = "results" => i > 1 /\ s[i - 1] = Say("calls", s[i].at)
        /\ s[i].kind = "calls" => i < Len(s) /\ s[i + 1] = Say("results", s[i].at)

Histories == {s \in Seq(Turn) : Paired(s)}

Ends(s) == s # <<>> /\ s[Len(s)].kind \in {"text", "canonical"}

HistoryInv ==
    /\ out \in Histories
    /\ pc = "save" => iter >= MaxIterations \/ Ends(out)
    /\ saved => pc = "done" /\ (iter >= MaxIterations \/ Ends(out))

LEMMA PairedAppends ==
    ASSUME NEW s \in Histories, NEW t \in Histories
    PROVE  /\ s \o t \in Histories
           /\ Ends(t) => Ends(s \o t)
<1> DEFINE st == s \o t
<1>1. /\ s \in Seq(Turn) /\ Len(s) \in Nat /\ t \in Seq(Turn) /\ Len(t) \in Nat
      /\ st \in Seq(Turn) /\ Len(st) = Len(s) + Len(t)
      /\ \A i \in 1..Len(s) : st[i] = s[i]
      /\ \A i \in 1..Len(t) : st[Len(s) + i] = t[i]
    BY ConcatProperties DEF Histories
<1>2. Paired(s) /\ Paired(t)
    BY DEF Histories
<1> HIDE DEF st
<1>3. ASSUME NEW i \in 1..Len(st)
      PROVE  /\ st[i].kind = "results" => i > 1 /\ st[i - 1] = Say("calls", st[i].at)
             /\ st[i].kind = "calls" =>
                   i < Len(st) /\ st[i + 1] = Say("results", st[i].at)
  <2>1. CASE i \in 1..Len(s)
    <3>1. /\ s[i].kind = "results" => i > 1 /\ s[i - 1] = Say("calls", s[i].at)
          /\ s[i].kind = "calls" => i < Len(s) /\ s[i + 1] = Say("results", s[i].at)
        BY <1>2, <2>1 DEF Paired
    <3>2. i \in Nat /\ st[i] = s[i]
        BY <1>1, <2>1
    <3>3. i > 1 => st[i - 1] = s[i - 1]
      <4> SUFFICES ASSUME i > 1 PROVE i - 1 \in 1..Len(s)
          BY <1>1
      <4> QED
          BY <1>1, <2>1, <3>2
    <3>4. i < Len(s) => i < Len(st) /\ st[i + 1] = s[i + 1]
      <4> SUFFICES ASSUME i < Len(s) PROVE i + 1 \in 1..Len(s) /\ i < Len(st)
          BY <1>1
      <4> QED
          BY <1>1, <2>1, <3>2
    <3> QED
        BY <3>1, <3>2, <3>3, <3>4
  <2>2. CASE i \notin 1..Len(s)
    <3> DEFINE j == i - Len(s)
    <3>1. j \in 1..Len(t) /\ st[i] = t[j]
        BY <1>1, <2>2
    <3>2. /\ t[j].kind = "results" => j > 1 /\ t[j - 1] = Say("calls", t[j].at)
          /\ t[j].kind = "calls" => j < Len(t) /\ t[j + 1] = Say("results", t[j].at)
        BY <1>2, <3>1 DEF Paired
    <3>3. i \in Nat /\ j \in Nat /\ i = Len(s) + j /\ Len(s) \in Nat
        BY <1>1, <3>1
    <3> HIDE DEF j
    <3>4. j > 1 => i > 1 /\ st[i - 1] = t[j - 1]
      <4> SUFFICES ASSUME j > 1 PROVE i > 1 /\ st[i - 1] = t[j - 1]
          OBVIOUS
      <4>1. j - 1 \in 1..Len(t) /\ i - 1 = Len(s) + (j - 1) /\ i > 1
          BY <1>1, <3>1, <3>3
      <4> QED
          BY <1>1, <4>1
    <3>5. j < Len(t) => i < Len(st) /\ st[i + 1] = t[j + 1]
      <4> SUFFICES ASSUME j < Len(t) PROVE i < Len(st) /\ st[i + 1] = t[j + 1]
          OBVIOUS
      <4>1. j + 1 \in 1..Len(t) /\ i + 1 = Len(s) + (j + 1) /\ i < Len(st)
          BY <1>1, <3>1, <3>3
      <4> QED
          BY <1>1, <4>1
    <3> QED
        BY <3>1, <3>2, <3>4, <3>5
  <2> QED
      BY <2>1, <2>2
<1>4. st \in Histories
    BY <1>1, <1>3 DEF Histories, Paired
<1>5. Ends(t) => Ends(st)
  <2> SUFFICES ASSUME Ends(t) PROVE Ends(st)
      OBVIOUS
  <2>1. Len(t) >= 1
      BY <1>1 DEF Ends
  <2>2. st[Len(st)] = t[Len(t)] /\ st # <<>>
      BY <1>1, <2>1
  <2> QED
      BY <2>2 DEF Ends
<1> QED
    BY <1>4, <1>5 DEF st

LEMMA PathsArePaired ==
    ASSUME NEW n \in Nat
    PROVE  /\ <<Say("text", n)>> \in Histories /\ Ends(<<Say("text", n)>>)
           /\ <<Say("canonical", n)>> \in Histories /\ Ends(<<Say("canonical", n)>>)
           /\ <<Say("system", n)>> \in Histories
           /\ \A k \in {"cut", "cutcalls", "text"} :
                 <<Say(k, n), Say("system", n)>> \in Histories
           /\ <<Say("calls", n), Say("results", n)>> \in Histories
<1>1. \A k \in Kinds : Say(k, n) \in Turn /\ Say(k, n).kind = k /\ Say(k, n).at = n
    BY DEF Say, Turn
<1> HIDE DEF Say
<1>2. \A k \in Kinds \ {"calls", "results"} : <<Say(k, n)>> \in Histories
    BY <1>1 DEF Histories, Paired
<1>3. \A k \in Kinds \ {"calls", "results"} :
        <<Say(k, n), Say("system", n)>> \in Histories
    BY <1>1 DEF Histories, Paired, Kinds
<1>4. <<Say("calls", n), Say("results", n)>> \in Histories
    BY <1>1 DEF Histories, Paired, Kinds
<1>5. \A k \in {"text", "canonical"} : Ends(<<Say(k, n)>>)
    BY <1>1 DEF Ends, Kinds
<1> QED
    BY <1>2, <1>3, <1>4, <1>5 DEF Kinds

LEMMA NextHistoryInv == IInv /\ HistoryInv /\ [Next]_vars => HistoryInv'
<1> SUFFICES ASSUME IInv, HistoryInv, [Next]_vars PROVE HistoryInv'
    OBVIOUS
<1>0. iter \in Nat /\ iter + 1 \in Nat /\ out \in Histories
    BY DEF IInv, CountersOK, HistoryInv
<1>1. CASE BeginIteration
    BY <1>0, <1>1, BoundsAssumption DEF BeginIteration, LimitReached, HistoryInv
<1>2. CASE RetryRequest \/ GiveUp \/ Disconnect
    BY <1>2 DEF RetryRequest, GiveUp, Disconnect, HistoryInv
<1>3. CASE Truncated
  <2>1. PICK k \in {"cut", "cutcalls"} :
          out' = out \o <<Say(k, iter + 1), Say("system", iter + 1)>>
      BY <1>3 DEF Truncated
  <2>2. out' \in Histories
      BY <1>0, <2>1, PairedAppends, PathsArePaired
  <2> QED
      BY <1>3, <2>2 DEF Truncated, Respond, HistoryInv
<1>4. CASE CorrectPaso1
  <2>1. out' \in Histories
      BY <1>0, <1>4, PairedAppends, PathsArePaired DEF CorrectPaso1
  <2> QED
      BY <1>4, <2>1 DEF CorrectPaso1, Respond, HistoryInv
<1>5. CASE Answer
  <2>1. out' = out \o <<Say("text", iter + 1)>>
      BY <1>0, <1>5, AppendIsConcat, PathsArePaired DEF Answer, Histories, Say, Turn, Kinds
  <2>2. out' \in Histories /\ Ends(out')
      BY <1>0, <2>1, PairedAppends, PathsArePaired
  <2> QED
      BY <1>5, <2>2 DEF Answer, Respond, HistoryInv
<1>6. CASE CallTools
    BY <1>6 DEF CallTools, Respond, HistoryInv
<1>7. CASE BlockTool \/ ToolFails \/ ToolSucceeds
  <2>1. Advance
      BY <1>7 DEF BlockTool, ToolFails, ToolSucceeds
  <2>2. pc' = pc /\ iter' = iter /\ out' = out /\ saved' = saved
      BY <2>1 DEF Advance
  <2> QED
      BY <2>2 DEF HistoryInv
<1>8. CASE FinishTools
  <2>1. Pair \in Histories /\ CanonicalText \in Histories /\ Ends(CanonicalText)
        /\ <<Say("system", iter)>> \in Histories
      BY <1>0, PathsArePaired DEF Pair, CanonicalText
  <2>2. CASE out' = out \o Pair \o CanonicalText /\ pc' = "save"
    <3>1. out \o Pair \in Histories
        BY <1>0, <2>1, PairedAppends
    <3>2. out' \in Histories /\ Ends(out')
        BY <2>1, <2>2, <3>1, PairedAppends
    <3> QED
        BY <1>8, <3>2 DEF FinishTools, HistoryInv
  <2>3. CASE out' = out \o Pair \o Pair \o <<Say("system", iter)>> /\ pc' = "loop"
    <3>1. out \o Pair \in Histories
        BY <1>0, <2>1, PairedAppends
    <3>2. out \o Pair \o Pair \in Histories
        BY <2>1, <3>1, PairedAppends
    <3>3. out' \in Histories
        BY <2>1, <2>3, <3>2, PairedAppends
    <3> QED
        BY <1>8, <2>3, <3>3 DEF FinishTools, HistoryInv
  <2>4. CASE out' = out \o Pair /\ pc' = "loop"
    <3>1. out' \in Histories
        BY <1>0, <2>1, <2>4, PairedAppends
    <3> QED
        BY <1>8, <2>4, <3>1 DEF FinishTools, HistoryInv
  <2> QED
      BY <1>8, <2>2, <2>3, <2>4 DEF FinishTools
<1>9. CASE Save
    BY <1>9 DEF Save, HistoryInv
<1>10. CASE UNCHANGED vars
    BY <1>10 DEF vars, HistoryInv
<1> QED
    BY <1>1, <1>2, <1>3, <1>4, <1>5, <1>6, <1>7, <1>8, <1>9, <1>10
    DEF Next, Step, Finished

LEMMA HistoryInvariance == Spec => []HistoryInv
<1>1. Init => HistoryInv
    BY DEF Init, HistoryInv, Histories, Paired
<1> QED
    BY <1>1, Invariance, NextHistoryInv, PTL DEF Spec

(* The history the Messages API is sent never separates results from the   *)
(* calls they answer, nor leaves complete calls without results.           *)
THEOREM PairedHistoryHolds == Spec => []PairedHistory
<1>1. HistoryInv => PairedHistory
    BY DEF HistoryInv, Histories, Paired, PairedHistory
<1> QED
    BY HistoryInvariance, <1>1, PTL

(* A turn that reaches the row below the iteration limit has an answer.    *)
THEOREM AnsweredOrLimitHolds == Spec => []AnsweredOrLimit
<1>1. HistoryInv => AnsweredOrLimit
    BY DEF HistoryInv, Ends, AnsweredOrLimit
<1> QED
    BY HistoryInvariance, <1>1, PTL

-----------------------------------------------------------------------------
(* The types of what the budgets and the history leave out: the attempts,  *)
(* the calls answered so far, the plan reads counted from them, the flags. *)
CountsOK ==
    /\ attempt \in 0..MaxRetries
    /\ requests \in Nat
    /\ planReads \in Nat
    /\ called \in Seq(Tools)

FlagsOK ==
    /\ listed \in BOOLEAN /\ breakdown \in BOOLEAN /\ canonical \in BOOLEAN
    /\ building \in BOOLEAN /\ saved \in BOOLEAN

LEMMA PlanReadsAreCounted ==
    ASSUME NEW calls \in Seq(Tools) PROVE PlanReadsIn(calls) \in Nat
<1>1. Len(calls) \in Int
    BY LenProperties
<1>2. IsFiniteSet(1..Len(calls))
    BY <1>1, FS_Interval
<1>3. {i \in 1..Len(calls) : calls[i] = ReadPlan} \subseteq 1..Len(calls)
    OBVIOUS
<1>4. IsFiniteSet({i \in 1..Len(calls) : calls[i] = ReadPlan})
    BY <1>2, <1>3, FS_Subset
<1> QED
    BY <1>4, FS_CardinalityType DEF PlanReadsIn

LEMMA NextCountsOK == IInv /\ CountsOK /\ [Next]_vars => CountsOK'
<1> SUFFICES ASSUME IInv, CountsOK, [Next]_vars PROVE CountsOK'
    OBVIOUS
<1> USE BoundsAssumption DEF CountsOK
<1>1. CASE BeginIteration
    BY <1>1 DEF BeginIteration
<1>2. CASE RetryRequest \/ GiveUp
    BY <1>2 DEF RetryRequest, MayRetry, GiveUp
<1>3. CASE Truncated \/ CorrectPaso1 \/ Answer
  <2>1. Respond /\ UNCHANGED <<attempt, planReads, called>>
      BY <1>3 DEF Truncated, CorrectPaso1, Answer, toolVars
  <2> QED
      BY <2>1 DEF Respond
<1>4. CASE CallTools
    BY <1>4 DEF CallTools, Respond
<1>5. CASE BlockTool \/ ToolFails \/ ToolSucceeds
  <2>1. Advance
      BY <1>5 DEF BlockTool, ToolFails, ToolSucceeds
  <2>2. Head(todo) \in Tools /\ called' \in Seq(Tools)
      BY <2>1 DEF Advance, IInv, CountersOK
  <2> QED
      BY <2>1, <2>2 DEF Advance
<1>6. CASE FinishTools
  <2>1. planReads + PlanReadsIn(called) \in Nat
      BY PlanReadsAreCounted
  <2> QED
      BY <1>6, <2>1 DEF FinishTools
<1>7. CASE Save
    BY <1>7 DEF Save
<1>8. CASE Disconnect
    BY <1>8 DEF Disconnect
<1>9. CASE UNCHANGED vars
    BY <1>9 DEF vars
<1> QED
    BY <1>1, <1>2, <1>3, <1>4, <1>5, <1>6, <1>7, <1>8, <1>9 DEF Next, Step, Finished

LEMMA NextFlagsOK == FlagsOK /\ [Next]_vars => FlagsOK'
<1> SUFFICES ASSUME FlagsOK, [Next]_vars PROVE FlagsOK'
    OBVIOUS
<1> USE DEF FlagsOK
<1>1. CASE BeginIteration \/ RetryRequest \/ GiveUp
    BY <1>1 DEF BeginIteration, RetryRequest, GiveUp
<1>2. CASE Truncated \/ CorrectPaso1 \/ Answer \/ CallTools
    BY <1>2 DEF Truncated, CorrectPaso1, Answer, CallTools, Respond
<1>3. CASE BlockTool \/ ToolFails \/ ToolSucceeds
    BY <1>3 DEF BlockTool, ToolFails, ToolSucceeds, Advance
<1>4. CASE FinishTools \/ Save \/ Disconnect \/ UNCHANGED vars
    BY <1>4 DEF FinishTools, Save, Disconnect, vars, toolVars
<1> QED
    BY <1>1, <1>2, <1>3, <1>4 DEF Next, Step, Finished

(* Every variable of a turn keeps its type, whatever tools it is offered.  *)
THEOREM TypeCorrect == Spec => []TypeOK
<1>1. Init => CountsOK /\ FlagsOK
  <2>1. Init => CountsOK
      BY BoundsAssumption DEF Init, CountsOK
  <2>2. Init => FlagsOK
      BY DEF Init, FlagsOK
  <2> QED
      BY <2>1, <2>2
<1>2. IInv /\ HistoryInv /\ CountsOK /\ FlagsOK => TypeOK
    BY DEF IInv, CountersOK, HistoryInv, Histories, CountsOK, FlagsOK, TypeOK
<1> QED
    BY <1>1, <1>2, Invariance, HistoryInvariance, NextCountsOK, NextFlagsOK, PTL DEF Spec
=============================================================================
