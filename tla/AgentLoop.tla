------------------------------ MODULE AgentLoop ------------------------------
(***************************************************************************)
(* One operator turn of the agent: the `while True` of                     *)
(* AgentService.stream_chat (agent.py), from the first request to Claude   *)
(* to the final `done` chunk.                                              *)
(*                                                                         *)
(* An iteration asks the model for a response, which is a text, a text cut *)
(* by max_tokens, or a list of tool calls; the tools run one after the     *)
(* other under the retry counter of retry_guard.py; the turns produced so  *)
(* far are kept in assistant_messages (here `out`) and are written to the  *)
(* row only by the save that follows the loop.                             *)
(*                                                                         *)
(* Abstracted: what a message says (a turn is its kind and the iteration   *)
(* that produced it), streaming, audit and token accounting, and the       *)
(* page-by-page pipeline of visual buildings.                              *)
(***************************************************************************)
EXTENDS Integers, Sequences, FiniteSets

CONSTANTS
    Tools,          \* the tools offered to the model
    Calculate,      \* calculate_quote: its rendered Paso 2 ends the turn
    Documents,      \* generate_documents: its links end the turn
    ReadPlan,       \* read_plan: the tool the code counts apart
    ListPieces,     \* list_pieces: the tool Paso 1 must use
    MaxIterations,  \* MAX_ITERATIONS (15)
    MaxRetries,     \* MAX_RETRIES (5)
    Threshold,      \* DEFAULT_RETRY_THRESHOLD (2)
    MaxReadPlan,    \* MAX_READ_PLAN_CALLS (3)
    MaxCalls        \* bound: tool calls the model puts in one response

ASSUME ToolsAssumption == {Calculate, Documents, ReadPlan, ListPieces} \subseteq Tools
ASSUME BoundsAssumption ==
    /\ MaxIterations \in Nat
    /\ MaxRetries \in Nat
    /\ Threshold \in Nat \ {0}
    /\ MaxReadPlan \in Nat
    /\ MaxCalls \in Nat \ {0}

VARIABLES
    pc,          \* where the turn is
    iter,        \* _loop_iterations
    responses,   \* history: responses received from the model
    attempt,     \* attempt of the current request
    requests,    \* history: requests sent to the model
    failures,    \* _tool_failure_count
    failedRuns,  \* history: executions of each tool that failed
    planReads,   \* _read_plan_calls
    listed,      \* _list_pieces_called
    corrected,   \* _list_pieces_retry_done
    breakdown,   \* the row has a quote_breakdown
    building,    \* is_building: list_pieces is not offered
    todo,        \* tool calls of the current response still to run
    called,      \* tool calls of the current response already run
    canonical,   \* a result of this response ends the turn (Paso 2 or Paso 3)
    out,         \* assistant_messages
    saved        \* the turn reached the row

requestVars == <<attempt, requests>>
toolVars == <<failures, failedRuns, listed, breakdown, todo, called, canonical>>
vars == <<pc, iter, responses, requestVars, planReads, corrected, building,
          toolVars, out, saved>>

Phases == {"loop", "request", "tools", "save", "done"}
Kinds == {"text", "cut", "cutcalls", "calls", "results", "system", "canonical"}
Turn == [kind: Kinds, at: Nat]
Say(kind, n) == [kind |-> kind, at |-> n]

TypeOK ==
    /\ pc \in Phases
    /\ iter \in Nat
    /\ responses \in Nat
    /\ attempt \in 0..MaxRetries
    /\ requests \in Nat
    /\ failures \in [Tools -> Nat]
    /\ failedRuns \in [Tools -> Nat]
    /\ planReads \in Nat
    /\ listed \in BOOLEAN
    /\ corrected \in BOOLEAN
    /\ breakdown \in BOOLEAN
    /\ building \in BOOLEAN
    /\ todo \in Seq(Tools)
    /\ called \in Seq(Tools)
    /\ canonical \in BOOLEAN
    /\ out \in Seq(Turn)
    /\ saved \in BOOLEAN

Init ==
    /\ pc = "loop"
    /\ iter = 0 /\ responses = 0
    /\ attempt = 0 /\ requests = 0
    /\ failures = [t \in Tools |-> 0]
    /\ failedRuns = [t \in Tools |-> 0]
    /\ planReads = 0
    /\ listed = FALSE /\ corrected = FALSE
    /\ breakdown \in BOOLEAN
    /\ building \in BOOLEAN
    /\ todo = <<>> /\ called = <<>>
    /\ canonical = FALSE
    /\ out = <<>>
    /\ saved = FALSE

-----------------------------------------------------------------------------
(* A definition named Mutant... is a slip in the definition after it; none *)
(* is part of the specification.                                           *)

MutantLimitReached == iter > MaxIterations
LimitReached == iter >= MaxIterations

MutantBeginIteration ==  \* continue instead of break
    /\ pc = "loop"
    /\ pc' = IF LimitReached THEN "loop" ELSE "request"
    /\ attempt' = 0
    /\ UNCHANGED <<iter, responses, requests, planReads, corrected, building,
                   toolVars, out, saved>>

(* The head of the loop: the iteration limit leaves the loop for the save. *)
BeginIteration ==
    /\ pc = "loop"
    /\ pc' = IF LimitReached THEN "save" ELSE "request"
    /\ attempt' = 0
    /\ UNCHANGED <<iter, responses, requests, planReads, corrected, building,
                   toolVars, out, saved>>

MutantMayRetry == attempt <= MaxRetries
MayRetry == attempt < MaxRetries

(* Rate limit or overload: wait and try again, up to MaxRetries times. *)
RetryRequest ==
    /\ pc = "request"
    /\ MayRetry
    /\ attempt' = attempt + 1
    /\ requests' = requests + 1
    /\ UNCHANGED <<pc, iter, responses, planReads, corrected, building,
                   toolVars, out, saved>>

(* The last attempt failed, or the error is not one the code retries, or   *)
(* the exception reaches the router: the turn ends without the save.       *)
GiveUp ==
    /\ pc = "request"
    /\ pc' = "done"
    /\ requests' = requests + 1
    /\ UNCHANGED <<iter, responses, attempt, planReads, corrected, building,
                   toolVars, out, saved>>

(* What every response does first. *)
Respond ==
    /\ pc = "request"
    /\ requests' = requests + 1
    /\ responses' = responses + 1

(* stop_reason = max_tokens: the partial content, which may hold tool_use  *)
(* blocks nobody runs, is kept and the model is told to go on.             *)
Truncated ==
    /\ Respond
    /\ iter' = iter + 1
    /\ \E k \in {"cut", "cutcalls"} :
          out' = out \o <<Say(k, iter + 1), Say("system", iter + 1)>>
    /\ pc' = "loop"
    /\ UNCHANGED <<attempt, planReads, corrected, building, toolVars, saved>>

NeedsListPieces(looksLikePaso1) ==
    ~listed /\ ~corrected /\ ~building /\ ~breakdown /\ looksLikePaso1

(* A text that shows pieces without list_pieces is sent back, once a turn; *)
(* the correction costs an iteration more.                                 *)
CorrectPaso1 ==
    /\ Respond
    /\ NeedsListPieces(TRUE)
    /\ corrected' = TRUE
    /\ iter' = iter + 2
    /\ out' = out \o <<Say("text", iter + 1), Say("system", iter + 1)>>
    /\ pc' = "loop"
    /\ UNCHANGED <<attempt, planReads, building, toolVars, saved>>

(* Any other text is the answer. *)
Answer ==
    /\ Respond
    /\ \E looksLikePaso1 \in BOOLEAN : ~NeedsListPieces(looksLikePaso1)
    /\ iter' = iter + 1
    /\ out' = Append(out, Say("text", iter + 1))
    /\ pc' = "save"
    /\ UNCHANGED <<attempt, planReads, corrected, building, toolVars, saved>>

Offered == IF building THEN Tools \ {ListPieces} ELSE Tools

(* The lists of tool calls one response can hold. *)
CallLists == UNION {[1..n -> Offered] : n \in 1..MaxCalls}

CallTools ==
    /\ Respond
    /\ iter' = iter + 1
    /\ todo' \in CallLists
    /\ called' = <<>>
    /\ canonical' = FALSE
    /\ pc' = "tools"
    /\ UNCHANGED <<attempt, failures, failedRuns, planReads, listed, corrected,
                   breakdown, building, out, saved>>

-----------------------------------------------------------------------------
MutantShouldBlockRetry(t) == failures[t] > Threshold
ShouldBlockRetry(t) == failures[t] >= Threshold

Advance ==
    /\ pc = "tools"
    /\ todo # <<>>
    /\ called' = Append(called, Head(todo))
    /\ todo' = Tail(todo)
    /\ listed' = (listed \/ Head(todo) = ListPieces)
    /\ UNCHANGED <<pc, iter, responses, requestVars, planReads, corrected,
                   building, out, saved>>

(* The synthetic error of a blocked tool counts as one more failure. *)
BlockTool ==
    /\ Advance
    /\ ShouldBlockRetry(Head(todo))
    /\ failures' = [failures EXCEPT ![Head(todo)] = @ + 1]
    /\ UNCHANGED <<failedRuns, breakdown, canonical>>

(* ok = FALSE, a truthy error, or an exception inside the tool. *)
ToolFails ==
    /\ Advance
    /\ ~ShouldBlockRetry(Head(todo))
    /\ failures' = [failures EXCEPT ![Head(todo)] = @ + 1]
    /\ failedRuns' = [failedRuns EXCEPT ![Head(todo)] = @ + 1]
    /\ UNCHANGED <<breakdown, canonical>>

(* calculate_quote writes the breakdown and, when its result carries the   *)
(* rendered Paso 2, ends the turn; so does generate_documents.             *)
ToolSucceeds ==
    /\ Advance
    /\ ~ShouldBlockRetry(Head(todo))
    /\ breakdown' = (breakdown \/ Head(todo) = Calculate)
    /\ \E rendered \in BOOLEAN :
          canonical' = (\/ canonical
                        \/ Head(todo) = Documents
                        \/ Head(todo) = Calculate /\ rendered)
    /\ UNCHANGED <<failures, failedRuns>>

PlanReadsIn(calls) == Cardinality({i \in 1..Len(calls) : calls[i] = ReadPlan})

MutantPair == <<Say("results", iter), Say("calls", iter)>>
Pair == <<Say("calls", iter), Say("results", iter)>>

MutantCanonicalText == <<>>
CanonicalText == <<Say("canonical", iter)>>

(* All calls have a result: the pair of turns is appended, then Paso 2 or  *)
(* Paso 3 short-circuits, then the read_plan limit repeats the pair and    *)
(* asks for an answer.                                                     *)
FinishTools ==
    /\ pc = "tools"
    /\ todo = <<>>
    /\ LET reads == planReads + PlanReadsIn(called)
       IN \/ /\ canonical
             /\ out' = out \o Pair \o CanonicalText
             /\ pc' = "save"
             /\ UNCHANGED planReads
          \/ /\ ~canonical
             /\ planReads' = reads
             /\ out' = IF PlanReadsIn(called) > 0 /\ reads >= MaxReadPlan
                       THEN out \o Pair \o Pair \o <<Say("system", iter)>>
                       ELSE out \o Pair
             /\ pc' = "loop"
    /\ UNCHANGED <<iter, responses, requestVars, corrected, building, toolVars,
                   saved>>

-----------------------------------------------------------------------------
(* The save after the loop; a database error is logged and rolled back. *)
Save ==
    /\ pc = "save"
    /\ saved' \in BOOLEAN
    /\ pc' = "done"
    /\ UNCHANGED <<iter, responses, requestVars, planReads, corrected, building,
                   toolVars, out>>

(* The client closes the stream: the generator is cancelled where it is. *)
Disconnect ==
    /\ pc \in {"loop", "request", "tools"}
    /\ pc' = "done"
    /\ UNCHANGED <<iter, responses, requestVars, planReads, corrected, building,
                   toolVars, out, saved>>

Finished == pc = "done" /\ UNCHANGED vars

Step ==
    \/ BeginIteration
    \/ RetryRequest \/ GiveUp \/ Truncated \/ CorrectPaso1 \/ Answer \/ CallTools
    \/ BlockTool \/ ToolFails \/ ToolSucceeds \/ FinishTools
    \/ Save

Next == Step \/ Disconnect \/ Finished

Spec == Init /\ [][Next]_vars

(* Every await of the loop returns: the requests have a timeout and the    *)
(* tools do too, so the turn keeps moving. The operator owes nothing.      *)
FairSpec == Spec /\ WF_vars(Step)

-----------------------------------------------------------------------------
(* A tool of this turn fails in earnest at most Threshold times, however   *)
(* its calls are spread over responses (retry_guard.py: one execution, one *)
(* retry, then blocked).                                                   *)
RetryBound == \A t \in Tools : failedRuns[t] <= Threshold

(* The guard of MAX_ITERATIONS bounds the paid responses of a turn even    *)
(* though the Paso 1 correction adds an iteration of its own, and the      *)
(* counter passes the limit by one at most.                                *)
IterationBudget ==
    /\ responses <= MaxIterations
    /\ iter <= MaxIterations + 1

(* The requests of a turn stay within the retries of each response.        *)
RequestBudget == requests <= (responses + 1) * (MaxRetries + 1)

(* What one operator message can cost, responses and requests together:    *)
(* every path back into the loop is charged to one of the two budgets.     *)
TurnBudget == IterationBudget /\ RequestBudget

(* The results of a response follow the turn that called for them, and a   *)
(* complete response with calls is never left without results: what the    *)
(* Messages API requires of the saved history.                             *)
PairedHistory ==
    \A i \in 1..Len(out) :
        /\ out[i].kind = "results" =>
              i > 1 /\ out[i - 1] = Say("calls", out[i].at)
        /\ out[i].kind = "calls" =>
              i < Len(out) /\ out[i + 1] = Say("results", out[i].at)

(* A turn that is saved and does not end with words of the assistant ended *)
(* at the iteration limit: no other path leaves the operator unanswered.   *)
AnsweredOrLimit ==
    saved => \/ iter >= MaxIterations
             \/ out # <<>> /\ out[Len(out)].kind \in {"text", "canonical"}

(* Every turn ends, whatever the model answers and however often it is     *)
(* overloaded.                                                             *)
TurnEnds == <>(pc = "done")

(* agent.py:4779: a turn with tool calls needs results for the history to  *)
(* be valid, the turns cut by max_tokens included.                         *)
EveryCallAnswered ==
    \A i \in 1..Len(out) :
        out[i].kind \in {"calls", "cutcalls"} =>
            i < Len(out) /\ out[i + 1].kind = "results"

=============================================================================
