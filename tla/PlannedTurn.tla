---------------------------- MODULE PlannedTurn ----------------------------
(***************************************************************************)
(* One turn of the V1 agent: AgentService.invoke, the graph                *)
(* resolve_context -> route -> execute_multi -> finalize                   *)
(* (apps/api/app/agent/graph.py).  A plan comes from a heuristic or from   *)
(* the semantic planner, is repaired, escalated or given up, and is run    *)
(* subplan by subplan.  The contracts it goes through are PlanContracts.   *)
(***************************************************************************)
EXTENDS PlanContracts

CONSTANTS Plans,           \* what a planner may return
          Questions        \* what the heuristics read in the question

(* What the question asks: of the drawing and the rooms at once (a join), of "the
   boards", or neither. *)
Asks == {"clear", "join", "boards"}

(* route: the first heuristic of _route that matches.  fast: use_fast_path.
   selected: the context has a selected element; deictic: selected_element_plan
   applies. *)
Question == [asks : Asks,
             route : {"reconcile", "multi", "nearest", "single", "model"},
             fast : BOOLEAN, grouping : BOOLEAN, selected : BOOLEAN, deictic : BOOLEAN,
             post : {"none"} \cup Extrema, text : Text]

ASSUME PlannedTurnConstants ==
  /\ Plans \subseteq MultiQueryPlan /\ \A multi \in Plans : FitsSchema(multi)
  /\ Questions \subseteq Question

(* Calls of planning models in one turn: one of each, and the recovery. *)
MaxAttempts == 6

VARIABLES phase,           \* the node of the graph, the call of the planner it is at
          question, storey,\* storey: the context has an active_storey
          plan,            \* multi_plan
          attempts, calls, \* calls made; model_call_count
          failed,          \* planner_error
          results, tools,  \* subresults; tool_call_count
          disposition
vars == <<phase, question, storey, plan, attempts, calls, failed, results, tools,
          disposition>>
asked == <<question, storey>>
planned == <<plan, attempts, calls, failed>>
executed == <<results, tools, disposition>>

NoPlan == Multi("none", Silent, << >>)

Init ==
  /\ phase = "context"
  /\ question \in Questions /\ storey \in BOOLEAN
  /\ plan = NoPlan
  /\ attempts = 0 /\ calls = 0 /\ failed = FALSE
  /\ results = << >> /\ tools = 0 /\ disposition = "none"

---------------------------------------------------------------------------
(* _finalize *)
Ends(d) == phase' = "done" /\ disposition' = d

(* _resolve_context and _after_context *)
ResolvesContext ==
  /\ phase = "context"
  /\ \/ question.asks = "join" /\ Ends("unsupported")
     \/ question.asks = "boards" /\ Ends("clarification_required")
     \/ question.asks = "clear" /\ phase' = "route" /\ UNCHANGED disposition
  /\ UNCHANGED <<asked, planned, results, tools>>

(* reconciliation_plan: two subplans nobody runs one by one. *)
ReconciliationPlan ==
  Multi("reconciliation", question.text,
        <<Subplan("ifc", "reconciliation", "list", "none", "none", "none", "list"),
          Subplan("pdf", "reconciliation", "extract_field", "none", "none", "none", "list")>>)

(* heuristic_multi_plan: its own words for a grouping, not those of the contract; the
   classes in the order of ELEMENT_ALIASES or of the previous turn. *)
GenericPlan(entities, grouped, post) ==
  Multi(IF Len(entities) > 1 THEN "multi_query" ELSE "single_query", question.text,
        [i \in DOMAIN entities |->
           Subplan("ifc", "aggregate", IF grouped THEN "group_by" ELSE "count", entities[i],
                   IF grouped THEN "storey" ELSE "none", post,
                   IF grouped THEN "grouped_counts" ELSE "scalar_count")])
GenericPlans ==
  {GenericPlan(entities, grouped, post) :
     entities \in UNION {SetToSeqs(E) : E \in (SUBSET Supported) \ {{}}},
     grouped \in BOOLEAN, post \in {"none"} \cup Extrema}

(* selected_element_plan *)
Selection == Subplan("ifc", "property_lookup", "get_properties", CHOOSE e \in Supported : TRUE,
                     "none", "none", "element_identity")

(* heuristic_plan: the words for an operation, a grouping and an extremum are looked
   for one by one; the room grouping of the previous turn overrides the first two.
   The class may be missing. *)
AskedOps == {"count", "group_by", "max", "min", "average", "sum", "get_properties"}
IfcHeuristic(words, e, group, extremum) ==
  LET op == IF group = "space" THEN "group_by" ELSE words
      post == IF group = "none" THEN "none" ELSE extremum
  IN Subplan("ifc",
       CASE op = "count" -> "count"
         [] op = "get_properties" -> "property_lookup"
         [] OTHER -> "aggregate",
       op, e, group, post,
       CASE post # "none" -> "single_group_extremum"
         [] post = "none" /\ group # "none" -> "grouped_counts"
         [] OTHER -> IF op = "count" THEN "scalar_count" ELSE "none")
IfcHeuristics ==
  {IfcHeuristic(words, e, group, extremum) :
     words \in AskedOps, e \in Supported \cup {"none"},
     group \in {"none", "storey", "space"}, extremum \in {"none"} \cup Extrema}
Measurements ==
  {Subplan("ifc", "aggregate", "aggregate_quantity", e, "none", "none", "scalar_measurement") :
     e \in Supported} \cup
  {Subplan("ifc", "relationship_lookup", "space_distance", e, "none", "none",
           "scalar_measurement") : e \in Supported}
HeuristicPlans ==
  IfcHeuristics \cup Measurements \cup
  {Subplan("pdf", "document_lookup", "extract_field", "none", "none", "none", "none"),
   Subplan("viewer_snapshot", "visual_inspection", "inspect_view", "none", "none", "none", "none"),
   Subplan("unsupported", "unsupported", "none", "none", "none", "none", "none")}

NotSupported == Subplan("unsupported", "unsupported", "none", "none", "none", "none", "none")
AskBack == Subplan("unsupported", "clarification", "none", "none", "none", "none", "none")

RoutesByHeuristic ==
  /\ phase = "route"
  /\ \/ /\ question.route = "reconcile"
        /\ plan' = ReconciliationPlan /\ phase' = "execute"
     \/ /\ question.route = "multi"
        /\ plan' \in GenericPlans /\ phase' = "finish"
     \/ /\ question.route = "nearest"
        /\ plan' = Multi("unsupported", question.text, <<NotSupported>>) /\ phase' = "finish"
     \/ /\ question.route = "single"
        /\ \E p \in IF question.deictic THEN {Selection} ELSE HeuristicPlans :
             plan' = Multi("single_query", question.text, <<p>>)
        /\ phase' = "finish"
  /\ UNCHANGED <<asked, attempts, calls, failed, executed>>

---------------------------------------------------------------------------
(* The calls of the semantic planner.  A call that raises, whichever it is, leads
   to one bounded recovery. *)
DefaultOp(p) ==
  IF p.op # "none" THEN p.op
  ELSE CASE p.intent \in {"count", "list"} -> p.intent
         [] p.intent = "property_lookup" -> "get_properties"
         [] p.intent = "relationship_lookup" -> "inspect_relationship"
         [] p.intent = "document_lookup" -> "extract_field"
         [] p.intent = "visual_inspection" -> "inspect_view"
         [] p.intent = "aggregate" /\ Grouped(p) -> "group_by"
         [] OTHER -> "none"
Normalized(p) ==
  LET op == DefaultOp(p)
  IN [p EXCEPT !.op = op,
               !.intent = IF op \in {"group_by", "min", "max", "sum", "average", "aggregate_quantity"}
                          THEN "aggregate" ELSE @]

FromModel(multi) ==
  Contracted([multi EXCEPT !.subplans = [i \in DOMAIN @ |-> Normalized(@[i])]], question, storey)

Unclear(multi) ==
  \/ ~Valid(multi)
  \/ /\ \E p \in ToSet(multi.subplans) : p.source = "unsupported"
     /\ \/ storey \/ question.selected
        \/ \E p \in ToSet(multi.subplans) : p.entity # "none" \/ p.op # "none"

Calling(call) ==
  /\ phase = call
  /\ call = "route" => question.route = "model"
  /\ attempts' = attempts + 1

Returns ==
  /\ calls' = calls + 1
  /\ UNCHANGED <<asked, failed, executed>>

PlannerAnswers ==
  /\ Calling("route") /\ Returns
  /\ \E multi \in Plans :
       /\ plan' = FromModel(multi)
       /\ phase' = IF Unclear(plan') THEN "repair" ELSE "language"

RepairAnswers ==
  /\ Calling("repair") /\ Returns
  /\ \E multi \in Plans :
       /\ plan' = FromModel(multi)
       /\ phase' = IF Valid(plan') THEN "language" ELSE "escalate"

RunsItAnyway == UNCHANGED plan    \* mutant: the last plan stays

(* Validation could not establish a plan: ask back. *)
GivesUp ==
  plan' = Multi("clarification", plan.norm, <<AskBack>>)

EscalationAnswers ==
  /\ Calling("escalate") /\ Returns
  /\ \E multi \in Plans :
       LET answer == FromModel(multi)
       IN plan' = IF Valid(answer) THEN answer
                  ELSE Multi("clarification", answer.norm, <<AskBack>>)
  /\ phase' = "language"
(* Not configured, or its call raises. *)
NoEscalation ==
  /\ phase = "escalate" /\ phase' = "language"
  /\ attempts' \in {attempts, attempts + 1}
  /\ GivesUp
  /\ UNCHANGED <<asked, calls, failed, executed>>

LanguageAnswers ==
  /\ Calling("language") /\ Returns
  /\ phase' = IF storey THEN "delta" ELSE "finish"
  /\ UNCHANGED plan

(* The delta model may make the first subplan a count within the active storey. *)
Followup(entity) ==
  LET first == plan.subplans[1]
      scoped == [first EXCEPT !.source = "ifc", !.intent = "count", !.op = "count",
                              !.entity = entity, !.keys = @ \cup {"storey"}, !.group = "none",
                              !.post = "none", !.shape = "scalar_count"]
  IN [plan EXCEPT !.subplans[1] = scoped]
DeltaAnswers ==
  /\ Calling("delta") /\ Returns
  /\ phase' = "finish"
  /\ \/ UNCHANGED plan
     \/ \E entity \in Supported \cup plan.norm.names \cup plan.norm.words : plan' = Followup(entity)

CallRaises ==
  /\ \E call \in {"route", "repair", "language", "delta"} : Calling(call)
  /\ phase' = "recover"
  /\ UNCHANGED <<asked, plan, calls, failed, executed>>

Recovers ==
  /\ Calling("recover") /\ Returns
  /\ \E multi \in Plans :
       /\ plan' = FromModel(multi)
       /\ Valid(plan')
  /\ phase' = "finish"
TriesAgain ==                     \* mutant: the recovery is not bounded
  /\ Calling("recover") /\ attempts <= MaxAttempts
  /\ UNCHANGED <<phase, asked, plan, calls, failed, executed>>

RecoveryFails ==
  /\ Calling("recover")
  /\ plan' = Multi("unsupported", Silent, <<NotSupported>>)
  /\ failed' = TRUE /\ phase' = "execute"
  /\ UNCHANGED <<asked, calls, executed>>

FinishesUngrouped ==              \* mutant: the grouping is enforced on the planner's output only
  /\ phase = "finish"
  /\ plan' = Canonical(plan, storey)
  /\ phase' = "execute"
  /\ UNCHANGED <<asked, attempts, calls, failed, executed>>

Finishes ==
  /\ phase = "finish"
  /\ LET multi == Contracted(plan, question, storey)
     IN plan' = IF question.fast /\ ~Valid(multi)
                THEN Multi("clarification", question.text, <<AskBack>>) ELSE multi
  /\ phase' = "execute"
  /\ UNCHANGED <<asked, attempts, calls, failed, executed>>

---------------------------------------------------------------------------
(* _execute_multi *)
Result(source, shape, d) == [source |-> source, shape |-> shape, disposition |-> d]

Executing == phase = "execute" /\ FitsSchema(plan)

Reconciles ==
  /\ Executing /\ plan.intent = "reconciliation"
  /\ \/ Ends("answered") /\ tools' = tools + 2
     \/ Ends("error") /\ UNCHANGED tools
  /\ UNCHANGED <<asked, planned, results>>

AtSubplan == Executing /\ plan.intent # "reconciliation"
Next1 == plan.subplans[Len(results) + 1]

(* ground_plan_to_selection *)
Ground(p) == IF p.source = "ifc" /\ question.deictic THEN Selection ELSE p

(* The plan is read back from the state of the graph, where nothing has checked a
   grouping moved out of the filters.  The batch of scalar counts runs before any
   gate and on classes the model's schema may not know; a query the tool's own
   schema refuses raises as well. *)
ExecutionRaises ==
  /\ \/ phase = "execute" /\ ~FitsSchema(plan)
     \/ /\ AtSubplan /\ results = << >> /\ Batchable(plan.subplans)
        /\ \E p \in ToSet(plan.subplans) : p.entity \notin Supported
     \/ /\ AtSubplan /\ Len(results) < Len(plan.subplans)
        /\ LET p == Ground(Next1)
           IN p.source = "ifc" /\ p.op \notin IfcOps /\ TRUE \in GateAnswers(p)
  /\ phase' = "raised"
  /\ UNCHANGED <<asked, planned, executed>>

(* _unsupported_subresult *)
RefusedAs(p) ==
  CASE failed -> "error"
    [] ~failed /\ p.intent = "clarification" -> "clarification_required"
    [] OTHER -> "unsupported"

(* What the recomputation, the evidence and the consistency check let pass is
   answered, the rest is an error; a batched count is held to the same. *)
IfcOutcomes(p) == {"error"} \cup (IF Consistent(p) THEN {"answered"} ELSE {})
Outcomes(p) ==
  CASE p.source = "ifc" ->
         IfcOutcomes(p) \cup
         (IF p.group = "space" \/ p.op = "space_distance" THEN {"clarification_required"} ELSE {})
    [] p.source \in {"pdf", "viewer_snapshot"} -> {"answered", "clarification_required", "error"}

RunsSubplan ==
  /\ AtSubplan /\ Len(results) < Len(plan.subplans)
  /\ LET p == Ground(Next1)
     IN \/ /\ FALSE \in GateAnswers(p)
           /\ results' = Append(results, Result(p.source, "none", RefusedAs(p)))
           /\ UNCHANGED tools
        \/ /\ TRUE \in GateAnswers(p)
           /\ p.source = "ifc" => p.op \in IfcOps
           /\ \E d \in Outcomes(p) :
                results' = Append(results, Result(p.source, Returned(p), d))
           /\ tools' \in {tools, tools + 1}
  /\ UNCHANGED <<phase, asked, planned, disposition>>

FirstCounts ==                    \* mutant: the first subplan speaks for all
  results[1].disposition

(* _synthesize_multi_response *)
Overall ==
  LET answered == {i \in DOMAIN results : results[i].disposition = "answered"}
  IN CASE answered = DOMAIN results -> "answered"
       [] answered # {} /\ answered # DOMAIN results -> "partially_answered"
       [] OTHER -> results[1].disposition

Synthesizes ==
  /\ AtSubplan /\ Len(results) = Len(plan.subplans)
  /\ Ends(Overall)
  /\ UNCHANGED <<asked, planned, results, tools>>

Next ==
  \/ ResolvesContext \/ RoutesByHeuristic
  \/ PlannerAnswers \/ RepairAnswers \/ EscalationAnswers \/ NoEscalation
  \/ LanguageAnswers \/ DeltaAnswers \/ CallRaises \/ Recovers \/ RecoveryFails
  \/ Finishes
  \/ Reconciles \/ ExecutionRaises \/ RunsSubplan \/ Synthesizes

Spec == Init /\ [][Next]_vars

---------------------------------------------------------------------------
(* The turn is somewhere in its graph, and however its calls fail it makes no
   more than MaxAttempts of them (_route). *)
TypeOK ==
  /\ phase \in {"context", "route", "repair", "escalate", "language", "delta", "recover",
                "finish", "execute", "done", "raised"}
  /\ question \in Question /\ storey \in BOOLEAN
  /\ plan \in MultiQueryPlan \cup {NoPlan}
  /\ attempts \in 0..MaxAttempts /\ calls \in 0..attempts
  /\ failed \in BOOLEAN
  /\ tools \in 0..2 + Len(plan.subplans)
  /\ disposition \in {"none", "answered", "partially_answered", "clarification_required",
                      "unsupported", "error"}

(* What the executor is given has passed validate_multi_plan as it is run, whatever
   the repair, the delta and the last canonicalization made of it; a generic plan
   that use_fast_path does not cover is the exception (_route). *)
ExecutedIsValid ==
  phase = "execute" /\ (question.fast \/ question.route = "model") => Valid(plan)

(* A question that asks per storey is never answered by the IFC tool with anything
   but a count per storey, unless it is about the selected element
   (enforce_grouped_request_contract). *)
PerStoreyStaysPerStorey ==
  question.grouping /\ ~question.deictic =>
    \A i \in DOMAIN results :
      results[i].source = "ifc" /\ results[i].disposition = "answered"
        => results[i].shape = "grouped_counts"

(* ... and each entity is counted once: no second subplan repeats it. *)
EachTargetOnce ==
  phase = "execute" /\ question.grouping /\ plan.intent # "reconciliation" =>
    \A i, j \in DOMAIN plan.subplans :
      /\ plan.subplans[i].source = "ifc" /\ plan.subplans[j].source = "ifc"
      /\ plan.subplans[i].entity = plan.subplans[j].entity /\ plan.subplans[i].entity # "none"
      => i = j

(* What is run is valid and repeats nothing. *)
ExecutedIsSound == ExecutedIsValid /\ EachTargetOnce

(* An answered turn answered every subplan it planned (_synthesize_multi_response). *)
AnsweredMeansAll ==
  phase = "done" /\ disposition = "answered" /\ plan.intent # "reconciliation" =>
    /\ Len(results) = Len(plan.subplans)
    /\ \A i \in DOMAIN results : results[i].disposition = "answered"

(* A planner that never recovered is reported as an error, not as a question the
   system does not support, and no tool ran (_unsupported_subresult). *)
FailedPlanningIsAnError ==
  failed /\ phase = "done" => disposition = "error" /\ tools = 0

(* The disposition of a turn says what happened in it, successes and failures. *)
DispositionIsTrue == AnsweredMeansAll /\ FailedPlanningIsAnError
=============================================================================
