----------------------------- MODULE AgentTurn -----------------------------
(***************************************************************************)
(* One turn of the V2 agent: AgentService.invoke_v2                        *)
(* (apps/api/app/agent/graph.py).  Rounds of a model call and of tool      *)
(* calls on worker threads, a deadline and a cancel that may arrive at any *)
(* moment, and the checks that decide what the final answer is labelled.   *)
(*                                                                         *)
(* Of an answer the model keeps the numbers it states, of a tool result    *)
(* its outcome and the numbers in it.                                      *)
(***************************************************************************)
EXTENDS Naturals, FiniteSets, FiniteSetsExt, Sequences, SequencesExt

CONSTANTS Subject,         \* what a tool is asked about: an entity, a field
          Real,            \* the number the project's sources hold for each
          Total,           \* no subject of its own: the "global" bucket
          Mixed,           \* a number a reconciliation returns
          Tag, Storey,     \* numbers in the citations: a tag, a storey's name
          Claims,          \* sets of claims the model may submit
          Narrated,        \* numbers the model may state
          MaxNumbers,      \* bound: numbers stated in a turn
          MaxIterations,   \* settings.tool_calling_max_iterations
          MaxCalls         \* bound: tool calls in each round

Fact == [about : Subject \cup {Total}, value : Nat]

ASSUME TurnConstants ==
  /\ Real \in [Subject -> Nat] /\ Total \notin Subject
  /\ Mixed \in Nat /\ Narrated \subseteq Nat /\ Claims \subseteq SUBSET Fact
  /\ MaxIterations \in Nat \ {0} /\ MaxCalls \in [1..MaxIterations -> Nat]
  /\ MaxNumbers \in Nat

About(s) == [about |-> s, value |-> Real[s]]
NotSubmitted == {[about |-> Total]}
Values(F) == {f.value : f \in F}

Dispositions == {"answered", "partially_answered", "clarification_required",
                 "unsupported", "error", "timeout", "cancelled"}
NoFinal == [disposition |-> "none", verification |-> "none", text |-> {}]

VARIABLES phase,           \* where the loop is
          iteration,
          late, cancelled, \* the deadline has passed; cancel_check()
          calls,           \* this round's tool calls and what they returned
          subtasks,        \* subtask_dispositions, as a set
          cited,           \* all_citations is not empty
          facts,           \* real_facts
          claims,          \* state["answer_facts"]
          items,           \* all_reconciliation_items is not empty
          modelCalls, toolCalls,
          chunk, text,     \* this_iteration_answer_parts, answer_parts
          final,           \* the "final" event
          promoted,        \* findings were upserted from this turn
          shown,           \* observed: numbers streamed to the client
          told,            \* observed: numbers of all tool calls
          invoked          \* observed: what the calls say of tool runs, summed as they end

clock == <<late, cancelled>>
results == <<subtasks, cited, facts, claims, items, toolCalls, told>>
answer == <<chunk, text, shown>>
vars == <<phase, iteration, clock, calls, results, modelCalls, answer, final,
          promoted, invoked>>

Init ==
  /\ phase = "check" /\ iteration = 1
  /\ late = FALSE /\ cancelled = FALSE
  /\ calls = << >>
  /\ subtasks = {} /\ cited = FALSE /\ facts = {} /\ claims = NotSubmitted
  /\ items = FALSE /\ toolCalls = 0 /\ told = {}
  /\ modelCalls = 0
  /\ chunk = {} /\ text = {} /\ shown = {}
  /\ final = NoFinal /\ promoted = FALSE
  /\ invoked = 0

---------------------------------------------------------------------------
(* What a tool call comes back with. *)
Pending == [disposition |-> "pending"]
Raised == [disposition |-> "raised"]
Result(d, c, f, n, ran) ==
  [disposition |-> d, cites |-> c, facts |-> f, numbers |-> n, delta |-> ran]
Nothing(d) == Result(d, FALSE, {}, {}, 0)

(* _execute_ifc: verified and answered; not verified, its numbers recorded all
   the same when it is a long list; asking back, for elements in no room with them
   cited and for rooms it cannot tell apart with nothing; failed; refused by the
   capability gate. *)
IfcResult ==
  {Result("answered", TRUE, {About(s)}, {Real[s]}, 1) : s \in Subject} \cup
  {Result("error", TRUE, {About(s)}, {Real[s]}, 1) : s \in Subject} \cup
  {Result("clarification_required", c, {}, {}, 1) : c \in BOOLEAN} \cup
  {Result("error", TRUE, {}, {}, 1), Nothing("error"), Nothing("unsupported")}

(* _execute_pdf and _execute_viewer return no result_value: nothing of theirs
   becomes a fact.  What an independent check rejects still cites its source.
   An inspection of the view states no numbers and is not counted. *)
VisionResult ==
  {Result("answered", TRUE, {}, {Real[s]}, 1) : s \in Subject} \cup
  {Result("answered", TRUE, {}, {}, 0)} \cup
  {Result("clarification_required", c, {}, {}, n) : c \in BOOLEAN, n \in 0..1} \cup
  {Nothing("error"), Nothing("unsupported")}

(* Always answered, whatever is compared; there may be nothing to compare. *)
ReconcileResult ==
  {Result("answered", TRUE, {[about |-> Total, value |-> Mixed]}, {Mixed}, 2),
   Result("answered", FALSE, {}, {}, 2)}

(* _v2_dispatch_tool; an unknown tool, a missing argument or an unreadable
   schedule raises. *)
ResultOf(tool) ==
  {Raised} \cup
  CASE tool = "ifc" -> IfcResult
    [] tool = "vision" -> VisionResult
    [] tool = "reconcile" -> ReconcileResult
    [] tool \in {"verdict", "facts"} -> {Nothing("answered")}

Call == [tool : {"ifc", "vision", "reconcile", "verdict"}, claims : {NotSubmitted}]
        \cup [tool : {"facts"}, claims : Claims]

---------------------------------------------------------------------------
(* The deadline passes; POST .../cancel.  Nobody looks at either once the turn
   has ended. *)
Running == phase \notin {"done", "raised"}
Expires ==
  /\ Running
  /\ ~late /\ late' = TRUE
  /\ UNCHANGED <<phase, iteration, cancelled, calls, results, modelCalls, answer,
                 final, promoted, invoked>>
CancelRequested ==
  /\ Running
  /\ ~cancelled /\ cancelled' = TRUE
  /\ UNCHANGED <<phase, iteration, late, calls, results, modelCalls, answer,
                 final, promoted, invoked>>

Ends(d, v, t) ==
  /\ phase' = "done"
  /\ final' = [disposition |-> d, verification |-> v, text |-> t]
EndsEmpty(d) ==
  /\ Ends(d, "not_applicable", {})
  /\ UNCHANGED <<iteration, clock, calls, results, modelCalls, answer, promoted, invoked>>

HasPending == \E i \in DOMAIN calls : calls[i].result = Pending

StartsOnly ==                     \* mutant: the deadline is checked between rounds only
  /\ late
  /\ phase \in {"check", "asked"}
  /\ EndsEmpty("timeout")

(* Before a round, before and while the model streams, before and while the
   tools run: the turn stops waiting, the threads are left behind. *)
TimesOut ==
  /\ late
  /\ phase \in {"check", "model", "asked"} \/ (phase = "tools" /\ HasPending)
  /\ EndsEmpty("timeout")

(* cancel_check is looked at before a round only. *)
Cancels ==
  /\ phase = "check" /\ ~late /\ cancelled
  /\ EndsEmpty("cancelled")

CallsModel ==
  /\ phase = "check" /\ ~late /\ ~cancelled
  /\ modelCalls' = modelCalls + 1
  /\ chunk' = {}
  /\ phase' = "model"
  /\ UNCHANGED <<iteration, clock, calls, results, text, shown, final, promoted, invoked>>

(* An AnswerChunkEvent goes to the client at once. *)
Streams ==
  /\ phase = "model" /\ ~late
  /\ Cardinality(shown) < MaxNumbers
  /\ \E n \in Narrated : chunk' = chunk \cup {n} /\ shown' = shown \cup {n}
  /\ UNCHANGED <<phase, iteration, clock, calls, results, modelCalls, text, final,
                 promoted, invoked>>

(* The provider raises, before or while it streams. *)
ModelFails ==
  /\ phase = "model" /\ ~late
  /\ phase' = "raised"
  /\ UNCHANGED <<iteration, clock, calls, results, modelCalls, answer, final,
                 promoted, invoked>>

---------------------------------------------------------------------------
(* The model asks for tools ... *)
Asks ==
  /\ phase = "model" /\ ~late
  /\ \E k \in 1..MaxCalls[iteration] : \E cs \in [1..k -> Call] :
       calls' = [i \in 1..k |-> [call |-> cs[i], result |-> Pending]]
  /\ text' = text \cup chunk
  /\ phase' = "asked"
  /\ UNCHANGED <<iteration, clock, results, modelCalls, chunk, shown, final,
                 promoted, invoked>>

(* ... each runs on a thread of its own ... *)
Dispatches ==
  /\ phase = "asked" /\ ~late
  /\ phase' = "tools"
  /\ UNCHANGED <<iteration, clock, calls, results, modelCalls, answer, final,
                 promoted, invoked>>

ToolRuns ==
  /\ phase = "tools"
  /\ \E i \in DOMAIN calls :
       /\ calls[i].result = Pending
       /\ \E r \in ResultOf(calls[i].call.tool) :
            /\ calls' = [calls EXCEPT ![i].result = r]
            /\ invoked' = IF r = Raised THEN invoked ELSE invoked + r.delta
  /\ UNCHANGED <<phase, iteration, clock, results, modelCalls, answer, final, promoted>>

Returned == {calls[i].result : i \in DOMAIN calls}
Submitted == {i \in DOMAIN calls : calls[i].call.tool = "facts"}

CountsLast(n) ==                  \* mutant: the last delta, not their sum
  n + Last(calls).result.delta
(* A delta per call, summed in the order of the calls. *)
Counts(n) == FoldLeft(LAMBDA sum, c : sum + c.result.delta, n, calls)

CappedLate == iteration > MaxIterations        \* mutant: one round too many
Capped == iteration = MaxIterations

(* ... and all of them are folded into the turn, a raised one into nothing. *)
Gathers ==
  /\ phase = "tools" /\ ~HasPending
  /\ IF Raised \in Returned
     THEN phase' = "raised" /\ UNCHANGED <<iteration, calls, results>>
     ELSE /\ subtasks' = subtasks \cup
               {calls[i].result.disposition : i \in DOMAIN calls \ Submitted}
          /\ cited' = (cited \/ \E r \in Returned : r.cites)
          /\ facts' = facts \cup UNION {r.facts : r \in Returned}
          /\ claims' = IF Submitted = {} THEN claims ELSE calls[Max(Submitted)].call.claims
          /\ items' = (items \/ \E i \in DOMAIN calls : calls[i].call.tool = "reconcile"
                                                   /\ calls[i].result.cites)
          /\ toolCalls' = Counts(toolCalls)
          /\ told' = told \cup UNION {r.numbers : r \in Returned}
          /\ calls' = << >>
          /\ iteration' = iteration + 1
          /\ phase' = IF Capped THEN "capped" ELSE "check"
  /\ UNCHANGED <<clock, modelCalls, answer, final, promoted, invoked>>

(* The cap of the for loop. *)
GivesUp == phase = "capped" /\ EndsEmpty("error")

---------------------------------------------------------------------------
(* The labels of an answer. *)
FlatDisposition ==                \* mutant: any citation makes it an answer
  IF cited THEN "answered" ELSE "clarification_required"
Disposition ==
  CASE subtasks = {} -> IF cited THEN "answered" ELSE "clarification_required"
    [] subtasks = {"answered"} -> "answered"
    [] OTHER -> IF "answered" \in subtasks THEN "partially_answered"
                ELSE IF "clarification_required" \in subtasks THEN "clarification_required"
                ELSE IF "unsupported" \in subtasks THEN "unsupported" ELSE "error"

(* The sum of the subjects' single counts is a fact of no subject. *)
Single == {s \in Subject : Cardinality({f \in facts : f.about = s}) = 1}
RealFacts ==
  LET single == {f \in facts : f.about \in Single}
  IN IF Cardinality(single) > 1
     THEN facts \cup {[about |-> Total, value |-> MapThenSumSet(LAMBDA f : f.value, single)]}
     ELSE facts
ValuesOf(s) == Values({f \in RealFacts : f.about = s})

(* _answer_facts_verified: of the claim's own subject; of no subject only if
   there is none of its own. *)
Confirmed(c) ==
  \/ c.value = Tag
  \/ c.value \in IF ValuesOf(c.about) # {} THEN ValuesOf(c.about) ELSE ValuesOf(Total)

NoneUnclaimed(t) == TRUE          \* mutant: only submitted claims are checked
(* _unclaimed_numbers_in_answer. *)
Accounted(t) == t \subseteq Values(RealFacts) \cup Values(claims) \cup {Tag, Storey}

Verification(t) ==
  CASE ~cited -> "not_applicable"
    [] cited /\ t = {} -> "verified"
    [] cited /\ t # {} /\ claims = NotSubmitted -> "unverified"
    [] OTHER -> IF (\A c \in claims : Confirmed(c)) /\ Accounted(t)
                THEN "verified" ELSE "unverified"

Narrative == text \cup chunk

(* The model answers: cut off by its limit or a filter, or complete. *)
CutOff ==
  /\ phase = "model" /\ ~late
  /\ text' = Narrative
  /\ Ends("error", "failed", Narrative)
  /\ UNCHANGED <<iteration, clock, calls, results, modelCalls, chunk, shown, promoted, invoked>>
Answers ==
  /\ phase = "model" /\ ~late
  /\ text' = Narrative
  /\ Ends(Disposition, Verification(Narrative), Narrative)
  /\ promoted' = items
  /\ UNCHANGED <<iteration, clock, calls, results, modelCalls, chunk, shown, invoked>>

TurnStep == TimesOut \/ Cancels \/ CallsModel \/ Dispatches \/ Gathers \/ GivesUp
Next == \/ Expires \/ CancelRequested \/ TurnStep
        \/ Streams \/ ModelFails \/ Asks \/ ToolRuns \/ CutOff \/ Answers

(* Time passes and the loop is scheduled; the model and the tools may hang. *)
Fairness == WF_vars(Expires) /\ WF_vars(TurnStep)
Spec == Init /\ [][Next]_vars /\ Fairness

---------------------------------------------------------------------------
(* Type invariant. *)
TypeOK ==
  /\ phase \in {"check", "model", "asked", "tools", "capped", "raised", "done"}
  /\ iteration \in 1..MaxIterations + 1 /\ late \in BOOLEAN /\ cancelled \in BOOLEAN
  /\ subtasks \subseteq {"answered", "clarification_required", "unsupported", "error"}
  /\ cited \in BOOLEAN /\ items \in BOOLEAN /\ promoted \in BOOLEAN
  /\ facts \subseteq Fact /\ (claims = NotSubmitted \/ claims \subseteq Fact)
  /\ {modelCalls, toolCalls, invoked} \cup chunk \cup text \cup shown \cup told
       \subseteq Nat
  /\ modelCalls <= MaxIterations
  /\ final = NoFinal \/ final.disposition \in Dispositions

(* An answer is labelled "answered" only if no tool call of the turn failed, was
   refused or asked back: one citation does not hide the others' outcome. *)
AnsweredMeansAll == final.disposition = "answered" => subtasks \subseteq {"answered"}

(* Every number of an answer labelled "verified" is in a tool result of this
   turn, a sum of them, or an identifier (submit_answer_facts and the two checks
   of its claims against the prose). *)
Sums(numbers) ==
  {MapThenSumSet(LAMBDA s : Real[s], S) :
     S \in SUBSET {s \in Subject : Real[s] \in numbers}}
VerifiedNumbersAreReal ==
  final.verification = "verified" =>
    final.text \subseteq told \cup {Tag, Storey} \cup Sums(told)

(* A claim is not confirmed by the number of another subject, as long as its own
   subject has one. *)
ClaimsAreAboutTheirSubject ==
  final.verification = "verified" /\ final.text # {} =>
    \A c \in claims :
      c.about \in Subject /\ (\E f \in facts : f.about = c.about)
        => c.value \in {Real[c.about], Tag}

(* "Verified" is earned: by numbers of this turn, each about its own subject. *)
VerifiedIsEarned == VerifiedNumbersAreReal /\ ClaimsAreAboutTheirSubject

(* Tool calls that run in parallel are all counted, whatever the order in which
   they end (tool_call_delta). *)
ToolCallsCounted == phase \in {"check", "model", "capped"} => toolCalls = invoked

(* The stored answer is what was streamed, also when it was cut off: a client
   never keeps text that the conversation does not have.  A turn that is stopped
   or runs out of rounds replaces what it streamed by a notice. *)
SavedIsShown ==
  final.disposition \notin {"none", "timeout", "cancelled"} /\ iteration <= MaxIterations
    => final.text = shown

(* A turn that was stopped, cut off or gave up leaves no finding behind. *)
PromotedIsAnswered ==
  promoted => final.disposition \in {"answered", "partially_answered"}

(* However a turn ends, its disposition, its stored text and the findings it
   leaves behind agree with what happened in it. *)
OutcomeIsEarned == AnsweredMeansAll /\ SavedIsShown /\ PromotedIsAnswered

(* Once the deadline has passed or a cancel was requested, no further model
   call starts: at most the current round is still gone through. *)
NoRoundAfterStop == [][late \/ cancelled => modelCalls' = modelCalls]_vars

(* Every turn ends, even if the model or a tool never answers. *)
TurnEnds == <>~Running

(* A stop is obeyed at the next round, and nothing keeps a turn from ending. *)
EndsInTime == NoRoundAfterStop /\ TurnEnds
=============================================================================
