-------------------------- MODULE AgentTurnProofs --------------------------
(***************************************************************************)
(* Machine-checked proofs about AgentTurn: for any subjects, numbers,      *)
(* claims and numbers of rounds and calls.                                 *)
(***************************************************************************)
EXTENDS AgentTurn, FoldLemmas

---------------------------------------------------------------------------
(* What a call may have come back with, and the facts there can be. *)
Known == {About(s) : s \in Subject} \cup {[about |-> Total, value |-> Mixed]}

CallsInv ==
  \A i \in DOMAIN calls :
    /\ calls[i].result # Pending => calls[i].result \in ResultOf(calls[i].call.tool)
    /\ calls[i].call.tool \in {"ifc", "vision", "reconcile", "verdict", "facts"}

LoopInv ==
  /\ phase \in {"check", "model", "asked", "tools", "capped", "raised", "done"}
  /\ iteration \in Nat
  /\ phase = "capped" => iteration > MaxIterations
  /\ phase # "done" => final = NoFinal /\ ~promoted

(* The text kept is the text streamed, up to the round that is streaming. *)
TextInv ==
  /\ phase = "model" => shown = text \cup chunk
  /\ phase \in {"check", "asked", "tools", "capped"} => shown = text

(* What there is to promote was answered. *)
ItemsInv == items => "answered" \in subtasks

Inv == CallsInv /\ LoopInv /\ TextInv /\ ItemsInv /\ facts \subseteq Known
       /\ OutcomeIsEarned /\ ClaimsAreAboutTheirSubject

---------------------------------------------------------------------------
(* A result that was not raised states known facts; one of a reconciliation is
   an answer. *)
LEMMA ResultShape ==
  ASSUME NEW tool \in {"ifc", "vision", "reconcile", "verdict", "facts"},
         NEW r \in ResultOf(tool), r # Raised
  PROVE  r.facts \subseteq Known /\ (tool = "reconcile" => r.disposition = "answered")
<1>1. CASE tool = "ifc"
  <2>1. r \in IfcResult
    BY <1>1 DEF ResultOf
  <2>2. r.facts \subseteq Known
    BY <2>1 DEF IfcResult, Result, Nothing, Known
  <2> QED
    BY <1>1, <2>2
<1>2. CASE tool = "vision"
  <2>1. r \in VisionResult
    BY <1>2 DEF ResultOf
  <2>2. r.facts = {}
    BY <2>1 DEF VisionResult, Result, Nothing
  <2> QED
    BY <1>2, <2>2
<1>3. CASE tool = "reconcile"
  <2>1. r \in ReconcileResult
    BY <1>3 DEF ResultOf
  <2>2. /\ r.facts \subseteq {[about |-> Total, value |-> Mixed]}
        /\ r.disposition = "answered"
    BY <2>1 DEF ReconcileResult, Result
  <2> QED
    BY <2>2 DEF Known
<1>4. CASE tool \in {"verdict", "facts"}
  <2>1. r = Nothing("answered")
    BY <1>4 DEF ResultOf
  <2>2. r.facts = {}
    BY <2>1 DEF Nothing, Result
  <2> QED
    BY <1>4, <2>2
<1> QED
  BY <1>1, <1>2, <1>3, <1>4

(* "answered" says that nothing but answers came back. *)
LEMMA DispositionShape ==
  /\ Disposition = "answered" => subtasks \subseteq {"answered"}
  /\ "answered" \in subtasks => Disposition \in {"answered", "partially_answered"}
  /\ Disposition \notin {"none", "timeout", "cancelled"}
<1>1. CASE subtasks = {}
  BY <1>1 DEF Disposition
<1>2. CASE subtasks = {"answered"}
  BY <1>2 DEF Disposition
<1>3. CASE subtasks # {} /\ subtasks # {"answered"}
  BY <1>3 DEF Disposition
<1> QED
  BY <1>1, <1>2, <1>3

(* The facts of a subject have its own number: a sum is about no subject. *)
LEMMA SubjectValues ==
  ASSUME facts \subseteq Known, NEW s \in Subject
  PROVE  /\ ValuesOf(s) \subseteq {Real[s]}
         /\ (\E f \in facts : f.about = s) => ValuesOf(s) # {}
<1>1. /\ facts \subseteq RealFacts
      /\ \A f \in RealFacts : f \in facts \/ f.about = Total
  <2> DEFINE single == {f \in facts : f.about \in Single}
             sum    == MapThenSumSet(LAMBDA f : f.value, single)
  <2>1. RealFacts = IF Cardinality(single) > 1
                    THEN facts \cup {[about |-> Total, value |-> sum]} ELSE facts
    BY Zenon DEF RealFacts
  <2> HIDE DEF single, sum
  <2> QED
    BY <2>1
<1>2. ASSUME NEW f \in RealFacts, f.about = s
      PROVE  f.value = Real[s]
  BY <1>1, <1>2, TurnConstants DEF Known, About
<1> QED
  BY <1>1, <1>2 DEF ValuesOf, Values

LEMMA VerifiedClaims ==
  ASSUME facts \subseteq Known, NEW t, t # {}, Verification(t) = "verified",
         NEW c \in claims, c.about \in Subject, \E f \in facts : f.about = c.about
  PROVE  c.value \in {Real[c.about], Tag}
<1>1. Confirmed(c)
  BY DEF Verification
<1> QED
  BY <1>1, SubjectValues DEF Confirmed

---------------------------------------------------------------------------
(* Steps that end the turn without an answer. *)
LEMMA EndsEmptyStep ==
  ASSUME Inv, phase # "done", NEW d, EndsEmpty(d),
         \/ d \in {"timeout", "cancelled"}
         \/ d = "error" /\ iteration > MaxIterations
  PROVE  Inv'
<1>1. /\ phase' = "done"
      /\ final' = [disposition |-> d, verification |-> "not_applicable", text |-> {}]
      /\ UNCHANGED <<iteration, clock, calls, results, modelCalls, answer, promoted, invoked>>
  BY DEF EndsEmpty, Ends
<1>2. final'.disposition = d /\ final'.verification = "not_applicable" /\ d # "answered"
  BY <1>1
<1>3. ~promoted' /\ (d \notin {"none", "timeout", "cancelled"} => iteration' > MaxIterations)
  BY <1>1 DEF Inv, LoopInv
<1>4. OutcomeIsEarned'
  <2>1. AnsweredMeansAll' /\ PromotedIsAnswered'
    BY <1>2, <1>3 DEF AnsweredMeansAll, PromotedIsAnswered
  <2>2. SavedIsShown'
    <3>1. ~(iteration' <= MaxIterations) \/ d \in {"none", "timeout", "cancelled"}
      BY <1>1, <1>3, TurnConstants DEF Inv, LoopInv
    <3> QED
      BY <1>2, <3>1 DEF SavedIsShown
  <2> QED
    BY <2>1, <2>2 DEF OutcomeIsEarned
<1>5. ClaimsAreAboutTheirSubject'
  BY <1>2 DEF ClaimsAreAboutTheirSubject
<1>6. CallsInv' /\ LoopInv' /\ TextInv' /\ ItemsInv' /\ (facts \subseteq Known)'
  BY <1>1 DEF results, answer, Inv, CallsInv, LoopInv, TextInv, ItemsInv
<1> QED
  BY <1>4, <1>5, <1>6 DEF Inv

(* Steps within the turn: what they leave alone. *)
LEMMA NotYetFinal ==
  ASSUME Inv, phase' # "done", UNCHANGED <<final, promoted>>, phase # "done"
  PROVE  OutcomeIsEarned' /\ ClaimsAreAboutTheirSubject'
<1>1. final' = NoFinal /\ ~promoted'
  BY DEF Inv, LoopInv
<1>2. final'.disposition = "none" /\ final'.verification = "none"
  BY <1>1 DEF NoFinal
<1>3. OutcomeIsEarned'
  BY <1>1, <1>2 DEF OutcomeIsEarned, AnsweredMeansAll, SavedIsShown, PromotedIsAnswered
<1>4. ClaimsAreAboutTheirSubject'
  BY <1>2 DEF ClaimsAreAboutTheirSubject
<1> QED
  BY <1>3, <1>4

LEMMA ClockStep ==
  ASSUME Inv, Expires \/ CancelRequested
  PROVE  Inv'
<1>1. /\ phase # "done"
      /\ UNCHANGED <<phase, iteration, calls, results, answer, final, promoted>>
  BY DEF Expires, CancelRequested, Running
<1>2. OutcomeIsEarned' /\ ClaimsAreAboutTheirSubject'
  BY <1>1, NotYetFinal
<1>3. CallsInv' /\ LoopInv' /\ TextInv' /\ ItemsInv' /\ (facts \subseteq Known)'
  BY <1>1 DEF results, answer, Inv, CallsInv, LoopInv, TextInv, ItemsInv
<1> QED
  BY <1>2, <1>3 DEF Inv

(* The rounds up to the tools. *)
LEMMA RoundStep ==
  ASSUME Inv, CallsModel \/ Streams \/ ModelFails \/ Asks \/ Dispatches
  PROVE  Inv'
<1>1. /\ phase \in {"check", "model", "asked"} /\ phase' \in {"model", "asked", "tools", "raised"}
      /\ UNCHANGED <<iteration, results, final, promoted>>
  BY DEF CallsModel, Streams, ModelFails, Asks, Dispatches
<1>2. OutcomeIsEarned' /\ ClaimsAreAboutTheirSubject'
  BY <1>1, NotYetFinal
<1>3. LoopInv' /\ ItemsInv' /\ (facts \subseteq Known)'
  BY <1>1 DEF results, Inv, LoopInv, ItemsInv
<1>4. TextInv'
  <2>1. CASE CallsModel
    BY <2>1 DEF CallsModel, Inv, TextInv
  <2>2. CASE Streams
    BY <2>2 DEF Streams, Inv, TextInv
  <2>3. CASE Asks
    BY <2>3 DEF Asks, Inv, TextInv
  <2>4. CASE Dispatches \/ ModelFails
    BY <2>4 DEF Dispatches, ModelFails, answer, Inv, TextInv
  <2> QED
    BY <2>1, <2>2, <2>3, <2>4
<1>5. CallsInv'
  <2>1. CASE Asks
    <3>1. PICK k \in 1..MaxCalls[iteration] : \E cs \in [1..k -> Call] :
            calls' = [i \in 1..k |-> [call |-> cs[i], result |-> Pending]]
      BY <2>1 DEF Asks
    <3>2. PICK cs \in [1..k -> Call] :
            calls' = [i \in 1..k |-> [call |-> cs[i], result |-> Pending]]
      BY <3>1
    <3>3. \A i \in 1..k : cs[i].tool \in {"ifc", "vision", "reconcile", "verdict", "facts"}
      BY <3>2 DEF Call
    <3> QED
      BY <3>2, <3>3 DEF CallsInv
  <2>2. CASE ~Asks
    BY <2>2 DEF CallsModel, Streams, ModelFails, Dispatches, Inv, CallsInv
  <2> QED
    BY <2>1, <2>2
<1> QED
  BY <1>2, <1>3, <1>4, <1>5 DEF Inv

LEMMA ToolRunsStep ==
  ASSUME Inv, ToolRuns
  PROVE  Inv'
<1>1. /\ phase = "tools"
      /\ UNCHANGED <<phase, iteration, results, answer, final, promoted>>
  BY DEF ToolRuns
<1>2. OutcomeIsEarned' /\ ClaimsAreAboutTheirSubject'
  BY <1>1, NotYetFinal
<1>3. LoopInv' /\ TextInv' /\ ItemsInv' /\ (facts \subseteq Known)'
  BY <1>1 DEF results, answer, Inv, LoopInv, TextInv, ItemsInv
<1>4. CallsInv'
  <2>1. PICK i \in DOMAIN calls : \E r \in ResultOf(calls[i].call.tool) :
          calls' = [calls EXCEPT ![i].result = r]
    BY DEF ToolRuns
  <2>2. PICK r \in ResultOf(calls[i].call.tool) : calls' = [calls EXCEPT ![i].result = r]
    BY <2>1
  <2> QED
    BY <2>2 DEF Inv, CallsInv
<1> QED
  BY <1>2, <1>3, <1>4 DEF Inv

(* The results of a round become facts, items and dispositions together. *)
LEMMA GathersStep ==
  ASSUME Inv, Gathers
  PROVE  Inv'
<1>1. /\ phase = "tools" /\ ~HasPending
      /\ UNCHANGED <<answer, final, promoted>>
  BY DEF Gathers
<1>2. CASE Raised \in Returned
  <2>1. phase' = "raised" /\ UNCHANGED <<iteration, calls, results>>
    BY <1>2 DEF Gathers
  <2>2. OutcomeIsEarned' /\ ClaimsAreAboutTheirSubject'
    BY <1>1, <2>1, NotYetFinal
  <2>3. CallsInv' /\ LoopInv' /\ TextInv' /\ ItemsInv' /\ (facts \subseteq Known)'
    BY <1>1, <2>1 DEF results, answer, Inv, CallsInv, LoopInv, TextInv, ItemsInv
  <2> QED
    BY <2>2, <2>3 DEF Inv
<1>3. CASE Raised \notin Returned
  <2>1. /\ subtasks' = subtasks \cup
               {calls[i].result.disposition : i \in DOMAIN calls \ Submitted}
        /\ facts' = facts \cup UNION {r.facts : r \in Returned}
        /\ items' = (items \/ \E i \in DOMAIN calls : calls[i].call.tool = "reconcile"
                                                  /\ calls[i].result.cites)
        /\ calls' = << >>
        /\ iteration' = iteration + 1
        /\ phase' = IF Capped THEN "capped" ELSE "check"
    BY <1>3, Zenon DEF Gathers
  <2>2. ASSUME NEW i \in DOMAIN calls
        PROVE  /\ calls[i].result.facts \subseteq Known
               /\ calls[i].call.tool = "reconcile"
                    => calls[i].result.disposition = "answered"
    <3>1. calls[i].result # Pending /\ calls[i].result # Raised
      BY <1>1, <1>3 DEF HasPending, Returned
    <3>2. /\ calls[i].call.tool \in {"ifc", "vision", "reconcile", "verdict", "facts"}
          /\ calls[i].result \in ResultOf(calls[i].call.tool)
      BY <3>1 DEF Inv, CallsInv
    <3> QED
      BY <3>1, <3>2, ResultShape
  <2>3. phase' \in {"capped", "check"}
    BY <2>1
  <2>4. OutcomeIsEarned' /\ ClaimsAreAboutTheirSubject'
    BY <1>1, <2>3, NotYetFinal
  <2>5. (facts \subseteq Known)'
    <3>1. \A r \in Returned : r.facts \subseteq Known
      BY <2>2 DEF Returned
    <3> QED
      BY <2>1, <3>1 DEF Inv
  <2>6. ItemsInv'
    <3>1. ASSUME NEW i \in DOMAIN calls, calls[i].call.tool = "reconcile"
          PROVE  "answered" \in subtasks'
      <4>1. i \notin Submitted
        BY <3>1 DEF Submitted
      <4> QED
        BY <2>1, <2>2, <3>1, <4>1
    <3>2. items => "answered" \in subtasks'
      BY <2>1 DEF Inv, ItemsInv
    <3> QED
      BY <2>1, <3>1, <3>2 DEF ItemsInv
  <2>7. LoopInv'
    BY <1>1, <2>1, TurnConstants DEF Capped, Inv, LoopInv
  <2>8. TextInv'
    BY <1>1, <2>3 DEF answer, Inv, TextInv
  <2>9. CallsInv'
    BY <2>1 DEF CallsInv
  <2> QED
    BY <2>4, <2>5, <2>6, <2>7, <2>8, <2>9 DEF Inv
<1> QED
  BY <1>2, <1>3

(* The model answers. *)
LEMMA AnswerStep ==
  ASSUME Inv, CutOff \/ Answers
  PROVE  Inv'
<1>1. /\ phase = "model" /\ phase' = "done" /\ shown = Narrative /\ final'.text = Narrative
      /\ UNCHANGED <<iteration, calls, results, shown>>
  BY DEF CutOff, Answers, Ends, Narrative, Inv, TextInv
<1>2. CallsInv' /\ LoopInv' /\ TextInv' /\ ItemsInv' /\ (facts \subseteq Known)'
  BY <1>1 DEF results, Inv, CallsInv, LoopInv, TextInv, ItemsInv
<1>3. SavedIsShown'
  BY <1>1 DEF SavedIsShown
<1>4. CASE CutOff
  <2>1. /\ final'.disposition = "error" /\ final'.verification = "failed"
        /\ ~promoted'
    BY <1>1, <1>4 DEF CutOff, Ends, Inv, LoopInv
  <2>2. AnsweredMeansAll' /\ PromotedIsAnswered' /\ ClaimsAreAboutTheirSubject'
    BY <2>1 DEF AnsweredMeansAll, PromotedIsAnswered, ClaimsAreAboutTheirSubject
  <2> QED
    BY <1>2, <1>3, <2>2 DEF Inv, OutcomeIsEarned
<1>5. CASE Answers
  <2>1. /\ final'.disposition = Disposition /\ final'.verification = Verification(Narrative)
        /\ promoted' = items
    BY <1>5 DEF Answers, Ends
  <2>2. AnsweredMeansAll'
    BY <1>1, <2>1, DispositionShape DEF AnsweredMeansAll, results
  <2>3. PromotedIsAnswered'
    BY <2>1, DispositionShape DEF PromotedIsAnswered, Inv, ItemsInv
  <2>4. ClaimsAreAboutTheirSubject'
    <3> SUFFICES ASSUME Verification(Narrative) = "verified", Narrative # {},
                        NEW c \in claims, c.about \in Subject,
                        \E f \in facts : f.about = c.about
                 PROVE  c.value \in {Real[c.about], Tag}
      BY <1>1, <2>1 DEF ClaimsAreAboutTheirSubject, results
    <3> QED
      BY VerifiedClaims DEF Inv
  <2> QED
    BY <1>2, <1>3, <2>2, <2>3, <2>4 DEF Inv, OutcomeIsEarned
<1> QED
  BY <1>4, <1>5

---------------------------------------------------------------------------
LEMMA InvInit == Init => Inv
<1> SUFFICES ASSUME Init PROVE Inv
  OBVIOUS
<1>1. final.disposition = "none" /\ final.verification = "none"
  BY DEF Init, NoFinal
<1>2. OutcomeIsEarned /\ ClaimsAreAboutTheirSubject
  BY <1>1 DEF Init, OutcomeIsEarned, AnsweredMeansAll, SavedIsShown, PromotedIsAnswered,
              ClaimsAreAboutTheirSubject
<1>3. CallsInv /\ LoopInv /\ TextInv /\ ItemsInv /\ facts \subseteq Known
  BY DEF Init, CallsInv, LoopInv, TextInv, ItemsInv
<1> QED
  BY <1>2, <1>3 DEF Inv

LEMMA InvStep == Inv /\ [Next]_vars => Inv'
<1> SUFFICES ASSUME Inv, [Next]_vars PROVE Inv'
  OBVIOUS
<1>1. CASE Expires \/ CancelRequested
  BY <1>1, ClockStep
<1>2. CASE CallsModel \/ Streams \/ ModelFails \/ Asks \/ Dispatches
  BY <1>2, RoundStep
<1>3. CASE ToolRuns
  BY <1>3, ToolRunsStep
<1>4. CASE Gathers
  BY <1>4, GathersStep
<1>5. CASE CutOff \/ Answers
  BY <1>5, AnswerStep
<1>6. CASE TimesOut
  BY <1>6, EndsEmptyStep DEF TimesOut
<1>7. CASE Cancels
  BY <1>7, EndsEmptyStep DEF Cancels
<1>8. CASE GivesUp
  BY <1>8, EndsEmptyStep DEF GivesUp, Inv, LoopInv
<1>9. CASE UNCHANGED vars
  BY <1>9 DEF vars, results, answer, Inv, CallsInv, LoopInv, TextInv, ItemsInv,
              OutcomeIsEarned, AnsweredMeansAll, SavedIsShown, PromotedIsAnswered,
              ClaimsAreAboutTheirSubject
<1> QED
  BY <1>1, <1>2, <1>3, <1>4, <1>5, <1>6, <1>7, <1>8, <1>9 DEF Next, TurnStep

LEMMA InvAlways == Spec => []Inv
<1> QED
  BY InvInit, InvStep, PTL DEF Spec

(* However a turn of the agent ends (an answer, an answer cut off, a timeout, a
   cancel, the cap of rounds), with any number of rounds and of parallel calls:
   "answered" hides no call that failed or was refused, the stored text of an
   answer is what the client was streamed, and no finding is promoted from a turn
   without an answer. *)
THEOREM OutcomeEarned == Spec => []OutcomeIsEarned
<1>1. Inv => OutcomeIsEarned
  BY DEF Inv
<1> QED
  BY <1>1, InvAlways, PTL

(* In an answer labelled "verified" no claim about a subject the tools returned a
   number for was confirmed by the number of another subject, nor by their sum:
   the binding of claims to subjects in _answer_facts_verified, for any claims. *)
THEOREM ClaimsAboutSubject == Spec => []ClaimsAreAboutTheirSubject
<1>1. Inv => ClaimsAreAboutTheirSubject
  BY DEF Inv
<1> QED
  BY <1>1, InvAlways, PTL

---------------------------------------------------------------------------
(* The tool calls of a round, summed while they run and folded when all are in. *)
RanBy(r) == IF r \in {Pending, Raised} THEN 0 ELSE r.delta

CallsTyped ==
  /\ \E n \in Nat : DOMAIN calls = 1..n
  /\ \A i \in DOMAIN calls :
       /\ calls[i].call \in Call
       /\ calls[i] = [call |-> calls[i].call, result |-> calls[i].result]

(* F[k] is what the first k calls make of the count. *)
SumsCalls(F, n) ==
  /\ DOMAIN calls = 1..n /\ F \in [0..n -> Nat]
  /\ F[0] = toolCalls /\ F[n] = invoked
  /\ \A k \in 1..n : F[k] = F[k - 1] + RanBy(calls[k].result)

CountInv ==
  /\ toolCalls \in Nat /\ invoked \in Nat
  /\ phase \in {"check", "model", "asked", "capped"} => toolCalls = invoked
  /\ phase = "asked" => \A i \in DOMAIN calls : calls[i].result = Pending
  /\ phase = "tools" => \E n \in Nat : \E F : SumsCalls(F, n)

RoundInv ==
  /\ iteration \in 1..(MaxIterations + 1) /\ modelCalls \in Nat
  /\ phase \in {"check", "model", "asked", "tools", "raised"} => iteration <= MaxIterations
  /\ modelCalls <= iteration /\ modelCalls <= MaxIterations
  /\ phase = "check" => modelCalls < iteration

Outcomes == {"answered", "clarification_required", "unsupported", "error"}

Typed ==
  /\ late \in BOOLEAN /\ cancelled \in BOOLEAN
  /\ cited \in BOOLEAN /\ items \in BOOLEAN /\ promoted \in BOOLEAN
  /\ subtasks \subseteq Outcomes
  /\ claims = NotSubmitted \/ claims \in Claims
  /\ chunk \subseteq Nat /\ text \subseteq Nat /\ shown \subseteq Nat
  /\ final = NoFinal \/ final.disposition \in Dispositions

(* The number of every fact is one of a tool result. *)
FactsInv ==
  /\ IsFiniteSet(facts) /\ told \subseteq Nat
  /\ \A f \in facts : f.value \in told

---------------------------------------------------------------------------
LEMMA ResultTyped ==
  ASSUME NEW tool \in {"ifc", "vision", "reconcile", "verdict", "facts"},
         NEW r \in ResultOf(tool), r # Raised
  PROVE  /\ r # Pending /\ r.disposition \in Outcomes
         /\ r.cites \in BOOLEAN /\ r.delta \in Nat
         /\ IsFiniteSet(r.facts) /\ r.numbers \subseteq Nat
         /\ \A f \in r.facts : f.value \in r.numbers
<1> DEFINE Good == /\ r.disposition \in Outcomes
                   /\ r.cites \in BOOLEAN /\ r.delta \in Nat
                   /\ IsFiniteSet(r.facts) /\ r.numbers \subseteq Nat
                   /\ \A f \in r.facts : f.value \in r.numbers
<1>c. Mixed \in Nat /\ \A s \in Subject : Real[s] \in Nat
  BY TurnConstants
<1>f. IsFiniteSet({}) /\ \A x : IsFiniteSet({x})
  BY FS_EmptySet, FS_Singleton
<1>0. ASSUME r.disposition \in Outcomes, r.cites \in BOOLEAN, r.delta \in 0..2,
             IsFiniteSet(r.facts), r.numbers \subseteq Nat,
             \A y \in r.facts : y.value \in r.numbers
      PROVE  Good
  BY <1>0
<1>e. ASSUME NEW d \in Outcomes, NEW c \in BOOLEAN, NEW n \in 0..2, r = Result(d, c, {}, {}, n)
      PROVE  Good
  <2>1. /\ r.disposition = d /\ r.cites = c /\ r.delta = n
        /\ r.facts = {} /\ r.numbers = {}
    BY <1>e DEF Result
  <2> HIDE DEF Good
  <2> QED
    BY <1>0, <1>f, <2>1
<1>g. ASSUME NEW d \in Outcomes, r = Nothing(d) PROVE Good
  <2>1. FALSE \in BOOLEAN /\ 0 \in 0..2
    OBVIOUS
  <2> HIDE DEF Good
  <2> QED
    BY <1>e, <1>g, <2>1 DEF Nothing
<1>o. /\ "answered" \in Outcomes /\ "clarification_required" \in Outcomes
      /\ "unsupported" \in Outcomes /\ "error" \in Outcomes
  BY DEF Outcomes
<1>p. ASSUME NEW d \in Outcomes, NEW n \in 0..1, r = Result(d, TRUE, {}, {}, n) PROVE Good
  <2>1. TRUE \in BOOLEAN /\ n \in 0..2
    OBVIOUS
  <2> HIDE DEF Good
  <2> QED
    BY <1>e, <1>p, <2>1
<1>n. ASSUME NEW s \in Subject, NEW d \in {"answered", "error"}, NEW f \in {{}, {About(s)}},
             r = Result(d, TRUE, f, {Real[s]}, 1)
      PROVE  Good
  <2>1. r.disposition = d /\ r.cites = TRUE /\ r.facts = f /\ r.numbers = {Real[s]} /\ r.delta = 1
    BY <1>n DEF Result
  <2>2. IsFiniteSet(f)
    BY <1>f
  <2>3. \A y \in f : y.value = Real[s]
    BY DEF About
  <2>4. r.disposition \in Outcomes
    BY <2>1 DEF Outcomes
  <2>5. r.cites \in BOOLEAN /\ r.delta \in 0..2
    <3>1. TRUE \in BOOLEAN /\ 1 \in 0..2
      OBVIOUS
    <3>2. r.cites = TRUE
      BY <2>1
    <3>3. r.cites \in BOOLEAN
      BY <3>1, <3>2, Zenon
    <3> QED
      BY <2>1, <3>3
  <2>6. r.numbers \subseteq Nat
    BY <1>c, <2>1
  <2>7. IsFiniteSet(r.facts) /\ \A y \in r.facts : y.value \in r.numbers
    BY <2>1, <2>2, <2>3
  <2> HIDE DEF Good
  <2> QED
    BY <1>0, <2>4, <2>5, <2>6, <2>7
<1> HIDE DEF Good
<1>1. ASSUME tool = "ifc" PROVE Good
  <2>1. r \in IfcResult
    BY <1>1 DEF ResultOf
  <2>3. ASSUME NEW s \in Subject, NEW d \in {"answered", "error"},
               r = Result(d, TRUE, {About(s)}, {Real[s]}, 1)
        PROVE  Good
    BY <1>n, <2>3, {About(s)} \in {{}, {About(s)}}, Zenon
  <2>4. ASSUME r = Result("error", TRUE, {}, {}, 1) PROVE Good
    <3>1. 1 \in 0..1
      OBVIOUS
    <3> QED
      BY <1>o, <1>p, <2>4, <3>1
  <2>6. ASSUME NEW c \in BOOLEAN, r = Result("clarification_required", c, {}, {}, 1) PROVE Good
    <3>1. 1 \in 0..2
      OBVIOUS
    <3> QED
      BY <1>o, <1>e, <2>6, <3>1
  <2>5. \/ \E s \in Subject : r = Result("answered", TRUE, {About(s)}, {Real[s]}, 1)
        \/ \E s \in Subject : r = Result("error", TRUE, {About(s)}, {Real[s]}, 1)
        \/ \E c \in BOOLEAN : r = Result("clarification_required", c, {}, {}, 1)
        \/ r = Result("error", TRUE, {}, {}, 1)
        \/ r = Nothing("error") \/ r = Nothing("unsupported")
    BY <2>1, Zenon DEF IfcResult
  <2> QED
    BY <1>g, <1>o, <2>3, <2>4, <2>5, <2>6
<1>2. ASSUME tool = "vision" PROVE Good
  <2>1. r \in VisionResult
    BY <1>2 DEF ResultOf
  <2>2. ASSUME NEW s \in Subject, r = Result("answered", TRUE, {}, {Real[s]}, 1) PROVE Good
    BY <1>n, <2>2, {} \in {{}, {About(s)}}, "answered" \in {"answered", "error"}, Zenon
  <2>3. ASSUME NEW c \in BOOLEAN, NEW n \in 0..1,
               r = Result("clarification_required", c, {}, {}, n)
        PROVE  Good
    <3>1. n \in 0..2
      OBVIOUS
    <3> QED
      BY <1>e, <1>o, <2>3, <3>1
  <2>4. ASSUME r = Result("answered", TRUE, {}, {}, 0) PROVE Good
    <3>1. 0 \in 0..1
      OBVIOUS
    <3> QED
      BY <1>o, <1>p, <2>4, <3>1
  <2>5. \/ \E s \in Subject : r = Result("answered", TRUE, {}, {Real[s]}, 1)
        \/ r = Result("answered", TRUE, {}, {}, 0)
        \/ \E c \in BOOLEAN, n \in 0..1 : r = Result("clarification_required", c, {}, {}, n)
        \/ r = Nothing("error") \/ r = Nothing("unsupported")
    <3> DEFINE asked == {Result("clarification_required", c, {}, {}, n) : c \in BOOLEAN, n \in 0..1}
    <3>1. r \in asked => \E c \in BOOLEAN, n \in 0..1 :
                           r = Result("clarification_required", c, {}, {}, n)
      OBVIOUS
    <3>2. VisionResult = {Result("answered", TRUE, {}, {Real[s]}, 1) : s \in Subject} \cup
                         {Result("answered", TRUE, {}, {}, 0)} \cup asked \cup
                         {Nothing("error"), Nothing("unsupported")}
      BY DEF VisionResult
    <3> HIDE DEF asked
    <3> QED
      BY <2>1, <3>1, <3>2, Zenon
  <2> QED
    BY <1>g, <1>o, <2>2, <2>3, <2>4, <2>5
<1>3. ASSUME tool = "reconcile" PROVE Good
  <2>1. r \in ReconcileResult
    BY <1>3 DEF ResultOf
  <2> DEFINE x == [about |-> Total, value |-> Mixed]
  <2>2. \A y \in {x} : y.value = Mixed
    OBVIOUS
  <2>3. \/ r = Result("answered", TRUE, {x}, {Mixed}, 2)
        \/ r = Result("answered", FALSE, {}, {}, 2)
    BY <2>1 DEF ReconcileResult
  <2> HIDE DEF x
  <2>4. ASSUME r = Result("answered", TRUE, {x}, {Mixed}, 2) PROVE Good
    <3>1. /\ r.disposition \in Outcomes /\ r.cites \in BOOLEAN /\ r.delta \in 0..2
          /\ r.facts = {x} /\ r.numbers = {Mixed}
      BY <2>4 DEF Result, Outcomes
    <3> QED
      BY <1>0, <1>c, <1>f, <2>2, <3>1
  <2>5. ASSUME r = Result("answered", FALSE, {}, {}, 2) PROVE Good
    <3>1. FALSE \in BOOLEAN /\ 2 \in 0..2
      OBVIOUS
    <3> QED
      BY <1>e, <1>o, <2>5, <3>1
  <2> QED
    BY <2>3, <2>4, <2>5
<1>4. ASSUME tool \in {"verdict", "facts"} PROVE Good
  <2>1. r = Nothing("answered")
    BY <1>4 DEF ResultOf
  <2> QED
    BY <1>g, <1>o, <2>1
<1>5. Good
  BY <1>1, <1>2, <1>3, <1>4
<1>6. r # Pending
  BY <1>5 DEF Good, Pending, Outcomes
<1> QED
  BY <1>5, <1>6 DEF Good

(* The steps that end a turn without an answer, for what they leave alone. *)
LEMMA StopFrame ==
  ASSUME TimesOut \/ Cancels \/ GivesUp
  PROVE  /\ phase' = "done" /\ phase # "done"
         /\ final'.disposition \in Dispositions /\ final'.verification = "not_applicable"
         /\ UNCHANGED <<iteration, late, cancelled, calls, results, modelCalls, answer,
                        promoted, invoked>>
<1>1. PICK d \in {"timeout", "cancelled", "error"} : EndsEmpty(d)
  BY DEF TimesOut, Cancels, GivesUp
<1>2. /\ phase' = "done"
      /\ final' = [disposition |-> d, verification |-> "not_applicable", text |-> {}]
      /\ UNCHANGED <<iteration, clock, calls, results, modelCalls, answer, promoted, invoked>>
  BY <1>1 DEF EndsEmpty, Ends
<1>3. phase # "done"
  BY DEF TimesOut, Cancels, GivesUp
<1> QED
  BY <1>2, <1>3 DEF clock, Dispositions

LEMMA DispositionTyped == Disposition \in Dispositions
<1>1. CASE subtasks = {}
  BY <1>1 DEF Disposition, Dispositions
<1>2. CASE subtasks = {"answered"}
  BY <1>2 DEF Disposition, Dispositions
<1>3. CASE subtasks # {} /\ subtasks # {"answered"}
  BY <1>3 DEF Disposition, Dispositions
<1> QED
  BY <1>1, <1>2, <1>3

(* One model call for each round, and rounds up to the cap. *)
LEMMA RoundKept ==
  ASSUME LoopInv, RoundInv, Next
  PROVE  RoundInv'
<1> USE TurnConstants DEF RoundInv
<1>1. CASE Expires \/ CancelRequested
  BY <1>1 DEF Expires, CancelRequested
<1>2. CASE CallsModel
  BY <1>2 DEF CallsModel
<1>3. CASE Streams \/ ModelFails \/ Asks \/ Dispatches
  BY <1>3 DEF Streams, ModelFails, Asks, Dispatches
<1>4. CASE ToolRuns
  BY <1>4 DEF ToolRuns
<1>5. CASE Gathers
  <2>1. CASE Raised \in Returned
    BY <1>5, <2>1 DEF Gathers
  <2>2. CASE Raised \notin Returned
    <3>1. /\ phase = "tools" /\ iteration' = iteration + 1 /\ modelCalls' = modelCalls
          /\ phase' = IF Capped THEN "capped" ELSE "check"
      BY <1>5, <2>2, Zenon DEF Gathers
    <3> QED
      BY <3>1 DEF Capped
  <2> QED
    BY <2>1, <2>2
<1>6. CASE CutOff \/ Answers
  BY <1>6 DEF CutOff, Answers, Ends
<1>7. CASE TimesOut \/ Cancels \/ GivesUp
  BY <1>7, StopFrame
<1> QED
  BY <1>1, <1>2, <1>3, <1>4, <1>5, <1>6, <1>7 DEF Next, TurnStep

(* The calls of a round have the shape Asks gave them. *)
LEMMA CallsTypedKept ==
  ASSUME CallsTyped, Next
  PROVE  CallsTyped'
<1>1. CASE Asks
  <2>1. PICK k \in 1..MaxCalls[iteration] : \E cs \in [1..k -> Call] :
          calls' = [i \in 1..k |-> [call |-> cs[i], result |-> Pending]]
    BY <1>1 DEF Asks
  <2>2. PICK cs \in [1..k -> Call] :
          calls' = [i \in 1..k |-> [call |-> cs[i], result |-> Pending]]
    BY <2>1
  <2>3. k \in Nat
    BY <2>1
  <2>4. DOMAIN calls' = 1..k /\ \A i \in 1..k : cs[i] \in Call
    BY <2>2
  <2>5. \A i \in 1..k : calls'[i] = [call |-> cs[i], result |-> Pending]
    BY <2>2
  <2> QED
    BY <2>3, <2>4, <2>5 DEF CallsTyped
<1>2. CASE ToolRuns
  <2>1. PICK i \in DOMAIN calls : \E r : calls' = [calls EXCEPT ![i].result = r]
    BY <1>2 DEF ToolRuns
  <2>2. PICK r : calls' = [calls EXCEPT ![i].result = r]
    BY <2>1
  <2>3. DOMAIN calls' = DOMAIN calls
    BY <2>2
  <2>4. calls'[i] = [call |-> calls[i].call, result |-> r]
    BY <2>2 DEF CallsTyped
  <2>5. \A j \in DOMAIN calls : j # i => calls'[j] = calls[j]
    BY <2>2
  <2> QED
    BY <2>3, <2>4, <2>5 DEF CallsTyped
<1>3. CASE Gathers
  <2>1. CASE Raised \in Returned
    BY <1>3, <2>1 DEF Gathers, CallsTyped
  <2>2. CASE Raised \notin Returned
    <3>1. calls' = << >>
      BY <1>3, <2>2, Zenon DEF Gathers
    <3>2. DOMAIN calls' = 1..0
      BY <3>1
    <3> QED
      BY <3>2 DEF CallsTyped
  <2> QED
    BY <2>1, <2>2
<1>4. CASE TimesOut \/ Cancels \/ GivesUp
  BY <1>4, StopFrame DEF CallsTyped
<1>5. CASE Expires \/ CancelRequested \/ CallsModel \/ Streams \/ ModelFails \/ Dispatches
           \/ CutOff \/ Answers
  BY <1>5 DEF Expires, CancelRequested, CallsModel, Streams, ModelFails, Dispatches, CutOff,
              Answers, CallsTyped
<1> QED
  BY <1>1, <1>2, <1>3, <1>4, <1>5 DEF Next, TurnStep

(* What Gathers takes over, once every call has come back. *)
LEMMA AllReturned ==
  ASSUME CallsInv, ~HasPending, Raised \notin Returned
  PROVE  /\ \A i \in DOMAIN calls :
              /\ calls[i].result # Pending /\ calls[i].result # Raised
              /\ calls[i].result.disposition \in Outcomes
              /\ calls[i].result.cites \in BOOLEAN /\ calls[i].result.delta \in Nat
         /\ \A r \in Returned :
              /\ IsFiniteSet(r.facts) /\ r.numbers \subseteq Nat
              /\ \A f \in r.facts : f.value \in r.numbers
<1>1. ASSUME NEW i \in DOMAIN calls
      PROVE  /\ calls[i].result # Pending /\ calls[i].result # Raised
             /\ calls[i].call.tool \in {"ifc", "vision", "reconcile", "verdict", "facts"}
             /\ calls[i].result \in ResultOf(calls[i].call.tool)
  BY DEF CallsInv, HasPending, Returned
<1>2. ASSUME NEW i \in DOMAIN calls
      PROVE  /\ calls[i].result.disposition \in Outcomes
             /\ calls[i].result.cites \in BOOLEAN /\ calls[i].result.delta \in Nat
             /\ IsFiniteSet(calls[i].result.facts) /\ calls[i].result.numbers \subseteq Nat
             /\ \A f \in calls[i].result.facts : f.value \in calls[i].result.numbers
  BY <1>1, ResultTyped
<1>3. \A r \in Returned : \E i \in DOMAIN calls : r = calls[i].result
  BY DEF Returned
<1> QED
  BY <1>1, <1>2, <1>3

LEMMA TypedKept ==
  ASSUME LoopInv, CallsInv, CallsTyped, Typed, Next
  PROVE  Typed'
<1>1. CASE Expires \/ CancelRequested
  BY <1>1 DEF Expires, CancelRequested, results, answer, Typed
<1>2. CASE CallsModel \/ ModelFails \/ Asks \/ Dispatches \/ ToolRuns
  BY <1>2 DEF CallsModel, ModelFails, Asks, Dispatches, ToolRuns, clock, results, answer, Typed
<1>3. CASE Streams
  BY <1>3, TurnConstants DEF Streams, clock, results, Typed
<1>4. CASE Gathers
  <2>1. CASE Raised \in Returned
    BY <1>4, <2>1 DEF Gathers, clock, results, answer, Typed
  <2>2. CASE Raised \notin Returned
    <3>1. /\ subtasks' = subtasks \cup
                {calls[i].result.disposition : i \in DOMAIN calls \ Submitted}
          /\ cited' = (cited \/ \E r \in Returned : r.cites)
          /\ claims' = IF Submitted = {} THEN claims ELSE calls[Max(Submitted)].call.claims
          /\ items' = (items \/ \E i \in DOMAIN calls : calls[i].call.tool = "reconcile"
                                                    /\ calls[i].result.cites)
          /\ UNCHANGED <<clock, answer, final, promoted>>
      BY <1>4, <2>2, Zenon DEF Gathers
    <3>2. subtasks' \subseteq Outcomes
      <4>1. \A i \in DOMAIN calls : calls[i].result.disposition \in Outcomes
        BY <1>4, <2>2, AllReturned DEF Gathers
      <4> QED
        BY <3>1, <4>1 DEF Typed
    <3>3. cited' \in BOOLEAN /\ items' \in BOOLEAN
      BY <3>1
    <3>4. claims' = NotSubmitted \/ claims' \in Claims
      <4>1. CASE Submitted = {}
        BY <3>1, <4>1 DEF Typed
      <4>2. CASE Submitted # {}
        <5>1. PICK n \in Nat : DOMAIN calls = 1..n
          BY DEF CallsTyped
        <5>2. Submitted \in SUBSET (1..n)
          BY <5>1 DEF Submitted
        <5>3. Max(Submitted) \in Submitted
          BY <4>2, <5>2, MaxIsLargest
        <5>4. \A i \in Submitted : calls[i].call \in Call /\ calls[i].call.tool = "facts"
          BY DEF Submitted, CallsTyped
        <5>5. \A c \in Call : c.tool = "facts" => c.claims \in Claims
          BY DEF Call
        <5> QED
          BY <3>1, <4>2, <5>3, <5>4, <5>5
      <4> QED
        BY <4>1, <4>2
    <3> QED
      BY <3>1, <3>2, <3>3, <3>4 DEF clock, answer, Typed
  <2> QED
    BY <2>1, <2>2
<1>5. CASE CutOff
  <2>1. final'.disposition = "error"
    BY <1>5 DEF CutOff, Ends
  <2> QED
    BY <1>5, <2>1 DEF CutOff, Narrative, clock, results, Typed, Dispositions
<1>6. CASE Answers
  <2>1. final'.disposition = Disposition
    BY <1>6 DEF Answers, Ends
  <2> QED
    BY <1>6, <2>1, DispositionTyped DEF Answers, Narrative, clock, results, Typed
<1>7. CASE TimesOut \/ Cancels \/ GivesUp
  BY <1>7, StopFrame DEF results, answer, Typed
<1> QED
  BY <1>1, <1>2, <1>3, <1>4, <1>5, <1>6, <1>7 DEF Next, TurnStep

LEMMA FactsKept ==
  ASSUME CallsInv, CallsTyped, FactsInv, Next
  PROVE  FactsInv'
<1>1. CASE UNCHANGED <<facts, told>>
  BY <1>1 DEF FactsInv
<1>2. CASE Gathers /\ Raised \notin Returned
  <2>1. /\ facts' = facts \cup UNION {r.facts : r \in Returned}
        /\ told' = told \cup UNION {r.numbers : r \in Returned}
    BY <1>2, Zenon DEF Gathers
  <2>2. \A r \in Returned : /\ IsFiniteSet(r.facts) /\ r.numbers \subseteq Nat
                            /\ \A f \in r.facts : f.value \in r.numbers
    BY <1>2, AllReturned DEF Gathers
  <2>3. IsFiniteSet(facts')
    <3>1. PICK n \in Nat : DOMAIN calls = 1..n
      BY DEF CallsTyped
    <3> DEFINE each == {calls[i].result.facts : i \in 1..n}
    <3>2. IsFiniteSet(1..n)
      BY <3>1, FS_Interval
    <3>3. IsFiniteSet(each)
      <4> DEFINE f == [i \in 1..n |-> calls[i].result.facts]
      <4>1. f \in Surjection(1..n, each)
        BY DEF Surjection
      <4> HIDE DEF f, each
      <4> QED
        BY <3>2, <4>1, FS_Surjection
    <3>4. \A F \in each : IsFiniteSet(F)
      BY <2>2, <3>1 DEF Returned
    <3>5. UNION {r.facts : r \in Returned} = UNION each
      BY <3>1 DEF Returned
    <3> HIDE DEF each
    <3>6. IsFiniteSet(UNION each)
      BY <3>3, <3>4, FS_UNION
    <3> QED
      BY <2>1, <3>5, <3>6, FS_Union DEF FactsInv
  <2> QED
    BY <2>1, <2>2, <2>3 DEF FactsInv
<1>3. CASE Gathers /\ Raised \in Returned
  BY <1>1, <1>3 DEF Gathers, results
<1>4. CASE TimesOut \/ Cancels \/ GivesUp
  BY <1>1, <1>4, StopFrame DEF results
<1>5. CASE Expires \/ CancelRequested \/ CallsModel \/ Streams \/ ModelFails \/ Asks
           \/ Dispatches \/ ToolRuns \/ CutOff \/ Answers
  BY <1>1, <1>5 DEF Expires, CancelRequested, CallsModel, Streams, ModelFails, Asks, Dispatches,
                    ToolRuns, CutOff, Answers, results
<1> QED
  BY <1>2, <1>3, <1>4, <1>5 DEF Next, TurnStep

(* Gathers folds the deltas in the order of the calls: what the calls have said
   of themselves while they ran, whatever the order in which they ended. *)
LEMMA CountsSum ==
  ASSUME CallsInv, ~HasPending, Raised \notin Returned,
         toolCalls \in Nat, NEW n \in Nat, NEW F, SumsCalls(F, n)
  PROVE  Counts(toolCalls) = invoked
<1> DEFINE base == toolCalls
           step == [k \in 1..n |-> [x \in Nat |-> x + calls[k].result.delta]]
           iter == CHOOSE I : I = [t \in SUBSET DOMAIN calls |->
                     IF t = {} THEN toolCalls
                     ELSE I[t \ {Max(t)}] + calls[Max(t)].result.delta]
<1>1. /\ DOMAIN calls = 1..n
      /\ \A k \in 1..n : calls[k].result.delta \in Nat
                         /\ RanBy(calls[k].result) = calls[k].result.delta
  BY AllReturned DEF SumsCalls, RanBy
<1>2. step \in [1..n -> [Nat -> Nat]] /\ base \in Nat
  <2>1. ASSUME NEW k \in 1..n, NEW x \in Nat PROVE x + calls[k].result.delta \in Nat
    BY <1>1
  <2> QED
    BY <2>1
<1>3. Counts(toolCalls) = iter[DOMAIN calls]
  BY DEF Counts, FoldLeft, MapThenFoldSet
<1>4. PICK I \in [SUBSET (1..n) -> Nat] : FoldsTo(I, n, base, step)
  <2> HIDE DEF step, base
  <2> QED
    BY <1>2, FoldExists
<1>5. \A t \in SUBSET (1..n) : t # {} => Max(t) \in 1..n /\ t \ {Max(t)} \in SUBSET (1..n)
  BY MaxIsLargest
<1>6. I = [t \in SUBSET DOMAIN calls |->
             IF t = {} THEN toolCalls
             ELSE I[t \ {Max(t)}] + calls[Max(t)].result.delta]
  <2>1. ASSUME NEW t \in SUBSET (1..n)
        PROVE  I[t] = IF t = {} THEN toolCalls
                      ELSE I[t \ {Max(t)}] + calls[Max(t)].result.delta
    <3>1. I[t] = IF t = {} THEN base ELSE step[Max(t)][I[t \ {Max(t)}]]
      BY <1>4 DEF FoldsTo
    <3>2. t # {} => I[t \ {Max(t)}] \in Nat /\ Max(t) \in 1..n
      BY <1>5
    <3> QED
      BY <3>1, <3>2
  <2> HIDE DEF step, base
  <2> QED
    BY <1>1, <2>1
<1>7. iter = [t \in SUBSET DOMAIN calls |->
                IF t = {} THEN toolCalls
                ELSE iter[t \ {Max(t)}] + calls[Max(t)].result.delta]
  BY <1>6, Zenon
<1> HIDE DEF iter
<1>8. FoldsWithin(iter, n, Nat, base, step)
  <2>1. iter[{}] = base
    BY <1>7
  <2>2. ASSUME NEW t \in SUBSET (1..n), t # {}, iter[t \ {Max(t)}] \in Nat
        PROVE  iter[t] = step[Max(t)][iter[t \ {Max(t)}]]
    BY <1>1, <1>5, <1>7, <2>2
  <2> QED
    BY <2>1, <2>2 DEF FoldsWithin
<1>9. PICK G \in [0..n -> Nat] : Runs(G, n, base, step) /\ G[n] = iter[1..n]
  <2> DEFINE S == Nat
  <2>1. n \in Nat /\ base \in S /\ step \in [1..n -> [S -> S]]
        /\ FoldsWithin(iter, n, S, base, step)
    BY <1>2, <1>8
  <2> HIDE DEF step, base, S
  <2>2. \E G \in [0..n -> S] : Runs(G, n, base, step) /\ G[n] = iter[1..n]
    BY ONLY <2>1, FoldRuns
  <2> QED
    BY <2>2 DEF S
<1>10. Runs(F, n, base, step)
  <2>1. ASSUME NEW k \in 1..n PROVE F[k] = step[k][F[k - 1]]
    <3>1. k - 1 \in 0..n
      OBVIOUS
    <3>2. F[k - 1] \in Nat /\ F[k] = F[k - 1] + RanBy(calls[k].result)
      BY <3>1 DEF SumsCalls
    <3> QED
      BY <1>1, <3>2
  <2> QED
    BY <2>1 DEF Runs, SumsCalls
<1>11. F[n] = G[n]
  <2> HIDE DEF step, base
  <2> QED
    BY <1>9, <1>10, RunsUnique
<1> QED
  BY <1>1, <1>3, <1>9, <1>11 DEF SumsCalls

(* A call that ends while others run adds to every sum that has it. *)
LEMMA ToolRunsSum ==
  ASSUME CallsInv, CallsTyped, CountInv, ToolRuns
  PROVE  CountInv'
<1>1. PICK i \in DOMAIN calls :
        /\ calls[i].result = Pending
        /\ \E r \in ResultOf(calls[i].call.tool) :
             /\ calls' = [calls EXCEPT ![i].result = r]
             /\ invoked' = IF r = Raised THEN invoked ELSE invoked + r.delta
  BY DEF ToolRuns
<1>2. PICK r \in ResultOf(calls[i].call.tool) :
        /\ calls' = [calls EXCEPT ![i].result = r]
        /\ invoked' = IF r = Raised THEN invoked ELSE invoked + r.delta
  BY <1>1
<1>3. phase = "tools" /\ phase' = "tools" /\ toolCalls' = toolCalls
  BY DEF ToolRuns, results
<1>4. RanBy(r) \in Nat /\ invoked' = invoked + RanBy(r)
  <2>1. CASE r = Raised
    BY <1>2, <2>1 DEF RanBy, CountInv
  <2>2. CASE r # Raised
    <3>1. calls[i].call.tool \in {"ifc", "vision", "reconcile", "verdict", "facts"}
      BY DEF CallsInv
    <3>2. r # Pending /\ r.delta \in Nat
      BY <2>2, <3>1, ResultTyped
    <3> QED
      BY <1>2, <2>2, <3>2 DEF RanBy
  <2> QED
    BY <2>1, <2>2
<1>n. PICK n \in Nat : \E F : SumsCalls(F, n)
  BY <1>3 DEF CountInv
<1>5. PICK F : SumsCalls(F, n)
  BY <1>n
<1>6. /\ DOMAIN calls = 1..n /\ DOMAIN calls' = 1..n /\ i \in 1..n
      /\ calls'[i].result = r
      /\ \A k \in 1..n : k # i => calls'[k] = calls[k]
  <2>1. DOMAIN calls = 1..n
    BY <1>5 DEF SumsCalls
  <2>2. calls'[i] = [calls[i] EXCEPT !.result = r]
    BY <1>2
  <2>3. calls[i] = [call |-> calls[i].call, result |-> calls[i].result]
    BY DEF CallsTyped
  <2>4. calls'[i].result = r
    BY <2>2, <2>3
  <2> QED
    BY <1>2, <2>1, <2>4
<1> DEFINE d == RanBy(r)
           G == [k \in 0..n |-> IF i <= k THEN F[k] + d ELSE F[k]]
<1>7. SumsCalls(G, n)'
  <2> HIDE DEF d
  <2>0. d \in Nat /\ RanBy(calls[i].result) = 0 /\ RanBy(calls'[i].result) = d
    BY <1>1, <1>4, <1>6 DEF RanBy, d
  <2>1. /\ F \in [0..n -> Nat] /\ F[0] = toolCalls /\ F[n] = invoked
        /\ \A k \in 1..n : F[k] = F[k - 1] + RanBy(calls[k].result)
    BY <1>5 DEF SumsCalls
  <2>2. G \in [0..n -> Nat] /\ G[0] = toolCalls /\ G[n] = invoked + d
    BY <1>6, <2>0, <2>1
  <2>3. ASSUME NEW k \in 1..n PROVE G[k] = G[k - 1] + RanBy(calls'[k].result)
    <3>1. /\ k \in 0..n /\ k - 1 \in 0..n /\ F[k] \in Nat /\ F[k - 1] \in Nat
          /\ F[k] = F[k - 1] + RanBy(calls[k].result)
      BY <2>1
    <3>2. CASE k = i
      <4>1. G[k] = F[k] + d /\ G[k - 1] = F[k - 1]
        BY <1>6, <3>1, <3>2
      <4> QED
        BY <2>0, <3>1, <3>2, <4>1
    <3>3. CASE k > i
      <4>1. G[k] = F[k] + d /\ G[k - 1] = F[k - 1] + d /\ calls'[k] = calls[k]
        BY <1>6, <3>1, <3>3
      <4>2. RanBy(calls[k].result) = F[k] - F[k - 1]
        <5>1. CASE calls[k].result \in {Pending, Raised}
          BY <3>1, <5>1 DEF RanBy
        <5>2. CASE calls[k].result \notin {Pending, Raised}
          <6>1. calls[k].result \in ResultOf(calls[k].call.tool)
                /\ calls[k].call.tool \in {"ifc", "vision", "reconcile", "verdict", "facts"}
            BY <1>6, <5>2 DEF CallsInv
          <6>2. calls[k].result.delta \in Nat
            BY <5>2, <6>1, ResultTyped
          <6> QED
            BY <3>1, <5>2, <6>2 DEF RanBy
        <5> QED
          BY <5>1, <5>2
      <4> QED
        BY <2>0, <3>1, <4>1, <4>2
    <3>4. CASE k < i
      <4>1. G[k] = F[k] /\ G[k - 1] = F[k - 1] /\ calls'[k] = calls[k]
        BY <1>6, <3>1, <3>4
      <4> QED
        BY <3>1, <4>1
    <3> QED
      BY <1>6, <3>2, <3>3, <3>4
  <2>4. invoked' = invoked + d /\ toolCalls' = toolCalls
    BY <1>3, <1>4 DEF d
  <2> HIDE DEF G
  <2> QED
    BY <1>6, <2>2, <2>3, <2>4 DEF SumsCalls
<1>8. invoked' \in Nat /\ toolCalls' \in Nat
  BY <1>3, <1>4 DEF CountInv
<1> HIDE DEF G
<1> QED
  BY <1>3, <1>5, <1>7, <1>8 DEF CountInv

LEMMA CountKept ==
  ASSUME LoopInv, CallsInv, CallsTyped, CountInv, Next
  PROVE  CountInv'
<1>1. CASE ToolRuns
  BY <1>1, ToolRunsSum
<1>2. CASE Asks
  <2>1. PICK k \in 1..MaxCalls[iteration] : \E cs \in [1..k -> Call] :
          calls' = [i \in 1..k |-> [call |-> cs[i], result |-> Pending]]
    BY <1>2 DEF Asks
  <2>2. PICK cs \in [1..k -> Call] :
          calls' = [i \in 1..k |-> [call |-> cs[i], result |-> Pending]]
    BY <2>1
  <2>3. \A i \in DOMAIN calls' : calls'[i].result = Pending
    BY <2>2
  <2> QED
    BY <1>2, <2>3 DEF Asks, results, CountInv
<1>3. CASE Dispatches
  <2>1. /\ phase = "asked" /\ phase' = "tools"
        /\ UNCHANGED <<calls, toolCalls, invoked>>
    BY <1>3 DEF Dispatches, results
  <2>2. PICK n \in Nat : DOMAIN calls = 1..n
    BY DEF CallsTyped
  <2>f. PICK F : F = [k \in 0..n |-> toolCalls]
    OBVIOUS
  <2>3. \A k \in 1..n : RanBy(calls[k].result) = 0
    BY <2>1, <2>2 DEF CountInv, RanBy
  <2>4. toolCalls \in Nat /\ toolCalls = invoked
    BY <2>1 DEF CountInv
  <2>5. SumsCalls(F, n)'
    <3>1. F \in [0..n -> Nat] /\ F[0] = toolCalls /\ F[n] = invoked
      BY <2>f, <2>4
    <3>2. \A k \in 1..n : F[k] = F[k - 1] + RanBy(calls[k].result)
      BY <2>f, <2>3, <2>4
    <3> QED
      BY <2>1, <2>2, <3>1, <3>2 DEF SumsCalls
  <2> QED
    BY <2>1, <2>4, <2>5 DEF CountInv
<1>4. CASE Gathers
  <2>1. CASE Raised \in Returned
    BY <1>4, <2>1 DEF Gathers, results, CountInv
  <2>2. CASE Raised \notin Returned
    <3>1. /\ phase = "tools" /\ ~HasPending /\ toolCalls' = Counts(toolCalls)
          /\ invoked' = invoked /\ phase' \in {"check", "capped"}
      BY <1>4, <2>2, Zenon DEF Gathers
    <3>n. PICK n \in Nat : \E F : SumsCalls(F, n)
      BY <3>1 DEF CountInv
    <3>2. PICK F : SumsCalls(F, n)
      BY <3>n
    <3>3. toolCalls' = invoked /\ invoked \in Nat
      BY <2>2, <3>1, <3>2, CountsSum DEF CountInv
    <3> QED
      BY <3>1, <3>3 DEF CountInv
  <2> QED
    BY <2>1, <2>2
<1>5. CASE TimesOut \/ Cancels \/ GivesUp
  BY <1>5, StopFrame DEF results, CountInv
<1>6. CASE Expires \/ CancelRequested
  <2>1. UNCHANGED <<phase, calls, toolCalls, invoked>>
    BY <1>6 DEF Expires, CancelRequested, results
  <2> QED
    BY <2>1 DEF CountInv, SumsCalls
<1>7. CASE CallsModel \/ Streams \/ ModelFails \/ CutOff \/ Answers
  BY <1>7 DEF CallsModel, Streams, ModelFails, CutOff, Answers, Ends, results, CountInv
<1> QED
  BY <1>1, <1>2, <1>3, <1>4, <1>5, <1>6, <1>7 DEF Next, TurnStep

(* The sum of the single facts is the sum of their subjects' numbers. *)
LEMMA SumOfFacts ==
  ASSUME NEW S, IsFiniteSet(S), \A f \in S : f.value \in Nat
  PROVE  \E I : /\ SumsTo(I, S, [f \in S |-> f.value])
                /\ MapThenSumSet(LAMBDA f : f.value, S) = I[S]
<1> DEFINE v == [f \in S |-> f.value]
           J == CHOOSE I : I = [t \in SUBSET S |->
                  IF t = {} THEN 0
                  ELSE (CHOOSE f \in t : TRUE).value + I[t \ {CHOOSE f \in t : TRUE}]]
<1>1. MapThenSumSet(LAMBDA f : f.value, S) = J[S]
  BY DEF MapThenSumSet, MapThenFoldSet
<1>2. v \in [S -> Nat]
  OBVIOUS
<1>3. PICK I \in [SUBSET S -> Nat] : SumsTo(I, S, v)
  <2> HIDE DEF v
  <2> QED
    BY <1>2, SumExists
<1>4. I = [t \in SUBSET S |->
             IF t = {} THEN 0
             ELSE (CHOOSE f \in t : TRUE).value + I[t \ {CHOOSE f \in t : TRUE}]]
  <2>1. ASSUME NEW t \in SUBSET S
        PROVE  I[t] = IF t = {} THEN 0
                      ELSE (CHOOSE f \in t : TRUE).value + I[t \ {CHOOSE f \in t : TRUE}]
    <3>1. CASE t = {}
      BY <1>3, <3>1 DEF SumsTo
    <3>2. CASE t # {}
      <4>1. (CHOOSE f \in t : TRUE) \in t
        BY <3>2
      <4>2. ASSUME NEW f \in t PROVE I[t] = f.value + I[t \ {f}]
        BY <1>3 DEF SumsTo
      <4> QED
        BY <3>2, <4>1, <4>2
    <3> QED
      BY <3>1, <3>2
  <2> QED
    BY <2>1
<1>5. J = [t \in SUBSET S |->
             IF t = {} THEN 0
             ELSE (CHOOSE f \in t : TRUE).value + J[t \ {CHOOSE f \in t : TRUE}]]
  BY <1>4, Zenon
<1> HIDE DEF J
<1>6. AddsUp(J, S, v)
  <2>1. J[{}] = 0
    BY <1>5
  <2>2. ASSUME NEW t \in SUBSET S, t # {}
        PROVE  \E f \in t : J[t] = v[f] + J[t \ {f}]
    <3>1. PICK f \in t : f = CHOOSE g \in t : TRUE
      BY <2>2
    <3>2. J[t] = f.value + J[t \ {f}]
      BY <1>5, <2>2, <3>1
    <3> QED
      BY <3>2
  <2> QED
    BY <2>1, <2>2 DEF AddsUp
<1>7. J[S] = I[S]
  <2> HIDE DEF v
  <2> QED
    BY <1>3, <1>6, SumUnique
<1> QED
  BY <1>1, <1>3, <1>7

LEMMA SumOfSubjects ==
  ASSUME NEW S \in SUBSET Subject, IsFiniteSet(S)
  PROVE  \E I : /\ SumsTo(I, S, [s \in S |-> Real[s]])
                /\ MapThenSumSet(LAMBDA s : Real[s], S) = I[S]
<1> DEFINE v == [s \in S |-> Real[s]]
           J == CHOOSE I : I = [t \in SUBSET S |->
                  IF t = {} THEN 0
                  ELSE Real[CHOOSE s \in t : TRUE] + I[t \ {CHOOSE s \in t : TRUE}]]
<1>1. MapThenSumSet(LAMBDA s : Real[s], S) = J[S]
  BY DEF MapThenSumSet, MapThenFoldSet
<1>2. v \in [S -> Nat]
  BY TurnConstants
<1>3. PICK I \in [SUBSET S -> Nat] : SumsTo(I, S, v)
  <2> HIDE DEF v
  <2> QED
    BY <1>2, SumExists
<1>4. I = [t \in SUBSET S |->
             IF t = {} THEN 0
             ELSE Real[CHOOSE s \in t : TRUE] + I[t \ {CHOOSE s \in t : TRUE}]]
  <2>1. ASSUME NEW t \in SUBSET S
        PROVE  I[t] = IF t = {} THEN 0
                      ELSE Real[CHOOSE s \in t : TRUE] + I[t \ {CHOOSE s \in t : TRUE}]
    <3>1. CASE t = {}
      BY <1>3, <3>1 DEF SumsTo
    <3>2. CASE t # {}
      <4>1. (CHOOSE s \in t : TRUE) \in t
        BY <3>2
      <4>2. ASSUME NEW s \in t PROVE I[t] = Real[s] + I[t \ {s}]
        BY <1>3 DEF SumsTo
      <4> QED
        BY <3>2, <4>1, <4>2
    <3> QED
      BY <3>1, <3>2
  <2> QED
    BY <2>1
<1>5. J = [t \in SUBSET S |->
             IF t = {} THEN 0
             ELSE Real[CHOOSE s \in t : TRUE] + J[t \ {CHOOSE s \in t : TRUE}]]
  BY <1>4, Zenon
<1> HIDE DEF J
<1>6. AddsUp(J, S, v)
  <2>1. J[{}] = 0
    BY <1>5
  <2>2. ASSUME NEW t \in SUBSET S, t # {}
        PROVE  \E s \in t : J[t] = v[s] + J[t \ {s}]
    <3>1. PICK s \in t : s = CHOOSE g \in t : TRUE
      BY <2>2
    <3>2. J[t] = Real[s] + J[t \ {s}]
      BY <1>5, <2>2, <3>1
    <3> QED
      BY <3>2
  <2> QED
    BY <2>1, <2>2 DEF AddsUp
<1>7. J[S] = I[S]
  <2> HIDE DEF v
  <2> QED
    BY <1>3, <1>6, SumUnique
<1> QED
  BY <1>1, <1>3, <1>7

SingleFacts == {f \in facts : f.about \in Single}

LEMMA SingleFactsSum ==
  ASSUME facts \subseteq Known, FactsInv
  PROVE  MapThenSumSet(LAMBDA f : f.value, SingleFacts) = MapThenSumSet(LAMBDA s : Real[s], Single)
<1>1. ASSUME NEW f \in facts, NEW s \in Subject, f.about = s PROVE f = About(s)
  BY <1>1, TurnConstants DEF Known, About
<1>2. ASSUME NEW s \in Single PROVE About(s) \in facts
  <2>1. {f \in facts : f.about = s} # {}
    <3>1. Cardinality({f \in facts : f.about = s}) = 1
      BY DEF Single
    <3> QED
      BY <3>1, FS_EmptySet
  <2> QED
    BY <1>1, <2>1 DEF Single
<1> DEFINE h == [s \in Single |-> About(s)]
           v == [s \in Single |-> Real[s]]
           w == [f \in SingleFacts |-> f.value]
<1>3. \A s : About(s).about = s /\ About(s).value = Real[s]
  BY DEF About
<1>4. h \in [Single -> SingleFacts]
  BY <1>2, <1>3 DEF SingleFacts
<1>5. \A x, y \in Single : h[x] = h[y] => x = y
  BY <1>3
<1>6. {h[s] : s \in Single} = SingleFacts
  <2>1. \A f \in SingleFacts : f.about \in Single /\ f = h[f.about]
    BY <1>1 DEF SingleFacts, Single
  <2>2. \A s \in Single : h[s] \in SingleFacts
    BY <1>4
  <2> HIDE DEF h
  <2> QED
    BY <2>1, <2>2
<1>7. \A s \in Single : v[s] = w[h[s]]
  BY <1>3, <1>4
<1>8. IsFiniteSet(SingleFacts) /\ \A f \in SingleFacts : f.value \in Nat
  BY FS_Subset DEF FactsInv, SingleFacts
<1>9. IsFiniteSet(Single)
  <2> DEFINE g == [f \in SingleFacts |-> f.about]
  <2>1. g \in Surjection(SingleFacts, Single)
    BY <1>2, <1>3, <1>4 DEF Surjection, SingleFacts
  <2> HIDE DEF g
  <2> QED
    BY <1>8, <2>1, FS_Surjection
<1>10. PICK I : SumsTo(I, Single, v) /\ MapThenSumSet(LAMBDA s : Real[s], Single) = I[Single]
  BY <1>9, SumOfSubjects DEF Single
<1>11. PICK J : /\ SumsTo(J, SingleFacts, w)
                /\ MapThenSumSet(LAMBDA f : f.value, SingleFacts) = J[SingleFacts]
  BY <1>8, SumOfFacts
<1>12. I[Single] = J[{h[s] : s \in Single}]
  <2> HIDE DEF h, v, w
  <2> QED
    BY <1>4, <1>5, <1>7, <1>9, <1>10, <1>11, SumRenamed
<1> QED
  BY <1>6, <1>10, <1>11, <1>12

(* What the checks confirm is a number of a tool result, the sum of such
   numbers, or an identifier. *)
LEMMA VerifiedNumbers ==
  ASSUME facts \subseteq Known, FactsInv, NEW t, Verification(t) = "verified"
  PROVE  t \subseteq told \cup {Tag, Storey} \cup Sums(told)
<1> DEFINE sum == MapThenSumSet(LAMBDA s : Real[s], Single)
           sums == Sums(told)
<1>1. sum \in sums
  <2>1. \A s \in Single : s \in Subject /\ Real[s] \in told
    <3> SUFFICES ASSUME NEW s \in Single PROVE Real[s] \in told
      BY DEF Single
    <3>1. {f \in facts : f.about = s} # {}
      <4>1. Cardinality({f \in facts : f.about = s}) = 1
        BY DEF Single
      <4> QED
        BY <4>1, FS_EmptySet
    <3>2. PICK f \in facts : f.about = s
      BY <3>1
    <3>3. f = About(s)
      BY <3>2, TurnConstants DEF Known, About, Single
    <3> QED
      BY <3>3 DEF FactsInv, About
  <2>2. Single \in SUBSET {s \in Subject : Real[s] \in told}
    BY <2>1
  <2> QED
    BY <2>2, Zenon DEF Sums
<1> DEFINE total == [about |-> Total, value |-> sum]
<1>2. RealFacts \subseteq facts \cup {total}
  <2>1. RealFacts = IF Cardinality(SingleFacts) > 1
                    THEN facts \cup {[about |-> Total,
                                      value |-> MapThenSumSet(LAMBDA f : f.value, SingleFacts)]}
                    ELSE facts
    BY Zenon DEF RealFacts, SingleFacts
  <2>2. MapThenSumSet(LAMBDA f : f.value, SingleFacts) = sum
    BY SingleFactsSum
  <2> HIDE DEF sum
  <2> QED
    BY <2>1, <2>2
<1>3. total.value = sum
  OBVIOUS
<1> HIDE DEF sum, sums, total
<1>4. Values(RealFacts) \subseteq told \cup sums
  BY <1>1, <1>2, <1>3 DEF Values, FactsInv
<1>5. ASSUME NEW s PROVE ValuesOf(s) \subseteq Values(RealFacts)
  BY DEF ValuesOf, Values
<1>6. t = {} \/ ((\A c \in claims : Confirmed(c)) /\ Accounted(t))
  BY DEF Verification
<1>7. ASSUME NEW c \in claims, Confirmed(c) PROVE c.value \in told \cup sums \cup {Tag}
  BY <1>4, <1>5, <1>7 DEF Confirmed
<1>8. t \subseteq told \cup {Tag, Storey} \cup sums
  BY <1>4, <1>6, <1>7 DEF Accounted, Values
<1> QED
  BY <1>8 DEF sums

LEMMA VerifiedKept ==
  ASSUME Inv, FactsInv, VerifiedNumbersAreReal, Next
  PROVE  VerifiedNumbersAreReal'
<1>0. (final'.verification = "verified"
         => final'.text \subseteq told' \cup {Tag, Storey} \cup Sums(told'))
      => VerifiedNumbersAreReal'
  BY DEF VerifiedNumbersAreReal
<1>1. CASE Answers
  <2>1. /\ final'.verification = Verification(Narrative) /\ final'.text = Narrative
        /\ told' = told
    BY <1>1 DEF Answers, Ends, results
  <2>2. ASSUME Verification(Narrative) = "verified"
        PROVE  Narrative \subseteq told \cup {Tag, Storey} \cup Sums(told)
    BY <2>2, VerifiedNumbers DEF Inv
  <2> QED
    BY <1>0, <2>1, <2>2
<1>2. CASE CutOff
  <2>1. final'.verification = "failed"
    BY <1>2 DEF CutOff, Ends
  <2> QED
    BY <1>0, <2>1
<1>3. CASE TimesOut \/ Cancels \/ GivesUp
  <2>1. final'.verification = "not_applicable"
    BY <1>3, StopFrame
  <2> QED
    BY <1>0, <2>1
<1>4. CASE Expires \/ CancelRequested \/ CallsModel \/ Streams \/ ModelFails \/ Asks
           \/ Dispatches \/ ToolRuns \/ Gathers
  <2>1. phase # "done" /\ final' = final
    BY <1>4 DEF Expires, CancelRequested, Running, CallsModel, Streams, ModelFails, Asks,
                Dispatches, ToolRuns, Gathers
  <2>2. final'.verification = "none"
    BY <2>1 DEF Inv, LoopInv, NoFinal
  <2> QED
    BY <1>0, <2>2
<1> QED
  BY <1>1, <1>2, <1>3, <1>4 DEF Next, TurnStep

(* The whole invariant, and that it holds. *)
TurnInv == /\ Typed /\ CallsTyped /\ RoundInv /\ CountInv /\ FactsInv
           /\ VerifiedNumbersAreReal

LEMMA TurnInvInit == Init => TurnInv
<1> SUFFICES ASSUME Init PROVE TurnInv
  OBVIOUS
<1>1. Typed
  BY DEF Init, Typed
<1>2. CallsTyped
  <2>1. DOMAIN calls = 1..0
    BY DEF Init
  <2> QED
    BY <2>1 DEF CallsTyped
<1>3. RoundInv
  BY TurnConstants DEF Init, RoundInv
<1>4. CountInv
  BY DEF Init, CountInv
<1>5. FactsInv
  BY FS_EmptySet DEF Init, FactsInv
<1>6. VerifiedNumbersAreReal
  <2>1. final.verification = "none"
    BY DEF Init, NoFinal
  <2> QED
    BY <2>1 DEF VerifiedNumbersAreReal
<1> QED
  BY <1>1, <1>2, <1>3, <1>4, <1>5, <1>6 DEF TurnInv

LEMMA TurnInvStep == Inv /\ TurnInv /\ [Next]_vars => TurnInv'
<1> SUFFICES ASSUME Inv, TurnInv, [Next]_vars PROVE TurnInv'
  OBVIOUS
<1>1. CASE Next
  <2>1. Typed'
    BY <1>1, TypedKept DEF Inv, TurnInv
  <2>2. CallsTyped'
    BY <1>1, CallsTypedKept DEF TurnInv
  <2>3. RoundInv'
    BY <1>1, RoundKept DEF Inv, TurnInv
  <2>4. CountInv'
    BY <1>1, CountKept DEF Inv, TurnInv
  <2>5. FactsInv'
    BY <1>1, FactsKept DEF Inv, TurnInv
  <2>6. VerifiedNumbersAreReal'
    BY <1>1, VerifiedKept DEF TurnInv
  <2> QED
    BY <2>1, <2>2, <2>3, <2>4, <2>5, <2>6 DEF TurnInv
<1>2. CASE UNCHANGED vars
  <2>1. UNCHANGED <<phase, iteration, late, cancelled, calls, subtasks, cited, facts, claims,
                    items, toolCalls, told, modelCalls, chunk, text, shown, final, promoted,
                    invoked>>
    BY <1>2 DEF vars, clock, results, answer
  <2>2. Typed' /\ CallsTyped' /\ RoundInv'
    BY <2>1 DEF TurnInv, Typed, CallsTyped, RoundInv
  <2>3. CountInv'
    BY <2>1 DEF TurnInv, CountInv, SumsCalls
  <2>4. FactsInv'
    BY <2>1 DEF TurnInv, FactsInv
  <2>5. VerifiedNumbersAreReal'
    <3>1. final.verification = "verified"
            => final.text \subseteq told \cup {Tag, Storey} \cup Sums(told)
      BY DEF TurnInv, VerifiedNumbersAreReal
    <3>2. final'.verification = "verified"
            => final'.text \subseteq told' \cup {Tag, Storey} \cup Sums(told')
      BY <2>1, <3>1
    <3> QED
      BY <3>2 DEF VerifiedNumbersAreReal
  <2> QED
    BY <2>2, <2>3, <2>4, <2>5 DEF TurnInv
<1> QED
  BY <1>1, <1>2

LEMMA TurnInvAlways == Spec => [](Inv /\ TurnInv)
<1> QED
  BY InvInit, InvStep, TurnInvInit, TurnInvStep, PTL DEF Spec

(* A turn keeps its types: at most one model call for each of its rounds, a
   disposition the API knows, counters and numbers that are numbers. *)
THEOREM TypeCorrect == Spec => []TypeOK
<1>1. ASSUME Inv, TurnInv PROVE TypeOK
  <2>1. facts \subseteq Fact
    BY <1>1, TurnConstants DEF Inv, Known, About, Fact
  <2>2. claims = NotSubmitted \/ claims \subseteq Fact
    BY <1>1, TurnConstants DEF TurnInv, Typed
  <2>3. {modelCalls, toolCalls, invoked} \cup chunk \cup text \cup shown \cup told \subseteq Nat
    BY <1>1 DEF TurnInv, Typed, RoundInv, CountInv, FactsInv
  <2> QED
    BY <1>1, <2>1, <2>2, <2>3 DEF Inv, LoopInv, TurnInv, Typed, RoundInv, Outcomes, TypeOK
<1> QED
  BY <1>1, TurnInvAlways, PTL

(* However many tools of a round run in parallel and in whatever order they end,
   folding their deltas in the order of the calls (invoke_v2's collector) counts
   each exactly once. *)
THEOREM CallsAreCounted == Spec => []ToolCallsCounted
<1>1. TurnInv => ToolCallsCounted
  BY DEF TurnInv, CountInv, ToolCallsCounted
<1> QED
  BY <1>1, TurnInvAlways, PTL

(* An answer labelled "verified" states only numbers that a tool returned in this
   turn, a sum of such numbers, or an identifier of its citations, and confirms a
   claim about a subject by that subject's number: for any claims, any numbers in
   the prose and any results (_answer_facts_verified and
   _unclaimed_numbers_in_answer). *)
THEOREM VerifiedEarned == Spec => []VerifiedIsEarned
<1>1. Inv /\ TurnInv => VerifiedIsEarned
  BY DEF Inv, TurnInv, VerifiedIsEarned
<1> QED
  BY <1>1, TurnInvAlways, PTL
=============================================================================
