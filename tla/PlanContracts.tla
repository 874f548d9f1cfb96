--------------------------- MODULE PlanContracts ---------------------------
(***************************************************************************)
(* The deterministic contracts around a semantic plan                      *)
(* (apps/api/app/agent/plan_validation.py, and the gate and the heuristics *)
(* of agent/router.py): pure functions from plans to plans.                *)
(*                                                                         *)
(* Free text is kept as what the contracts find in it.  max_window_height  *)
(* is another spelling of aggregate_quantity and is left out; so is the    *)
(* calibration of requires_clarification, which only changes wording.      *)
(***************************************************************************)
EXTENDS Naturals, FiniteSets, Sequences, SequencesExt

CONSTANTS Entity,          \* IFC classes a plan may name
          Supported        \* SUPPORTED_ENTITY_TYPES, within Entity

ASSUME PlanConstants ==
  /\ Supported \subseteq Entity /\ "none" \notin Entity
  /\ IsFiniteSet(Supported) /\ Supported # {}

Modifiers == {"group_by", "limit"}
Extrema == {"argmax", "argmin"}

Text == [names : SUBSET Supported,          \* IfcDoor, ...
         words : SUBSET Supported,          \* doors, ...
         op : {"none", "count", "list", "group_by"},   \* "operation is ..."
         outside : BOOLEAN,                 \* "outside the scope", ...
         grouped : BOOLEAN, most : BOOLEAN, \* "per floor", "most doors"
         storey : BOOLEAN]                  \* "that floor"
Silent == [names |-> {}, words |-> {}, op |-> "none", outside |-> FALSE,
           grouped |-> FALSE, most |-> FALSE, storey |-> FALSE]

(* keys are the keys of its filters, of which the contracts name three; by is what
   they hold under "group_by", if that is one of them; says is its rationale.  A
   grouping that comes out of the filters is not checked: it may be "unknown". *)
Keys == Modifiers \cup {"storey"}
Sources == {"ifc", "pdf", "viewer_snapshot", "unsupported"}
Intents == {"count", "list", "aggregate", "property_lookup", "relationship_lookup",
            "document_lookup", "visual_inspection", "clarification", "unsupported",
            "reconciliation"}
Operations == {"none", "count", "list", "min", "max", "sum", "average", "group_by",
               "get_properties", "inspect_relationship", "extract_field", "inspect_view",
               "aggregate_quantity", "space_distance"}
Groupings == {"none", "storey", "space", "type", "unknown"}
Shapes == {"none", "scalar_count", "grouped_counts", "single_group_extremum", "list",
           "properties", "element_identity", "element_storey", "element_properties",
           "document_value", "visual_claim", "scalar_measurement", "clarification"}
QueryPlan ==
  [source : Sources, intent : Intents, op : Operations, entity : Entity \cup {"none"},
   group : Groupings, post : {"none"} \cup Extrema, shape : Shapes, keys : SUBSET Keys,
   by : Groupings \cup {"empty"}, says : Text]
Subplan(source, intent, op, entity, group, post, shape) ==
  [source |-> source, intent |-> intent, op |-> op, entity |-> entity, group |-> group,
   post |-> post, shape |-> shape, keys |-> {}, by |-> "empty", says |-> Silent]

(* norm is its normalized_request. *)
MultiQueryPlan ==
  [intent : {"single_query", "multi_query", "clarification", "unsupported", "reconciliation"},
   norm : Text, subplans : Seq(QueryPlan) \ {<< >>}]
Multi(intent, norm, subplans) == [intent |-> intent, norm |-> norm, subplans |-> subplans]

Grouped(p) == p.group # "none"

(* MultiQueryPlan.model_validate *)
FitsSchema(multi) == \A i \in DOMAIN multi.subplans : multi.subplans[i].group # "unknown"

---------------------------------------------------------------------------
(* canonicalize_subplan, one operator for each correction in it. *)
WithShape(p) ==
  CASE Grouped(p) -> [p EXCEPT !.op = "group_by", !.intent = "aggregate", !.shape = "grouped_counts"]
    [] ~Grouped(p) /\ p.shape = "none" ->
         [p EXCEPT !.shape =
            CASE p.op = "count" -> "scalar_count"
              [] p.op = "list" -> "list"
              [] p.op \in {"get_properties", "inspect_relationship"} -> "properties"
              [] p.op = "extract_field" -> "document_value"
              [] p.op = "inspect_view" -> "visual_claim"
              [] p.op \in {"aggregate_quantity", "space_distance"} -> "scalar_measurement"
              [] OTHER -> "none"]
    [] OTHER -> p

ProjectWide(p) ==
  IF p.op = "aggregate_quantity"
  THEN [p EXCEPT !.group = "none", !.post = "none", !.shape = "scalar_measurement"]
  ELSE p

OutOfScope(p) ==
  IF p.source # "unsupported" /\ p.says.outside
  THEN [p EXCEPT !.source = "unsupported", !.intent = "unsupported", !.op = "none",
                 !.entity = "none", !.keys = {}, !.group = "none", !.post = "none",
                 !.shape = "none"]
  ELSE p

FromRationale(p, storey) ==
  LET entity == IF p.entity = "none" /\ p.says.names # {}
                THEN CHOOSE e \in p.says.names : TRUE ELSE p.entity
      op == IF p.op = "none" THEN p.says.op ELSE p.op
  IN IF /\ p.intent # "reconciliation"
        /\ entity # p.entity \/ op # p.op
        /\ entity # "none" /\ op # "none"
     THEN [p EXCEPT !.entity = entity, !.op = op,
                    !.keys = IF storey /\ p.says.storey THEN @ \cup {"storey"} ELSE @]
     ELSE p

TypedOps == {"count", "list", "group_by", "get_properties", "inspect_relationship"}
IntentOf(op) ==
  CASE op \in {"count", "list"} -> op
    [] op = "group_by" -> "aggregate"
    [] op = "get_properties" -> "property_lookup"
    [] op = "inspect_relationship" -> "relationship_lookup"

FromTyped(p) ==
  IF p.source = "unsupported" /\ p.entity # "none" /\ p.op \in TypedOps
  THEN [p EXCEPT !.source = "ifc", !.intent = IntentOf(p.op)]
  ELSE p

(* keys may be older than p: the code reads its copy of the filters, which only
   a recovery from the rationale renews. *)
MoveGrouping(p, keys) ==
  IF "group_by" \in keys /\ p.by # "empty" /\ ~Grouped(p)
  THEN [p EXCEPT !.keys = keys \ {"group_by"}, !.group = p.by, !.op = "group_by",
                 !.intent = "aggregate", !.shape = "grouped_counts"]
  ELSE p

CanonicalSubplan(p, storey) ==
  LET scoped == OutOfScope(ProjectWide(p))
      recovered == FromRationale(scoped, storey)
      keys == IF recovered # scoped THEN recovered.keys ELSE p.keys
  IN WithShape(MoveGrouping(FromTyped(recovered), keys))

---------------------------------------------------------------------------
(* _reconcile_model_declared_semantics: the entities the plan's own texts name,
   one subplan for each. *)
Restored(p, entity, grouped, most, storey) ==
  LET named == [p EXCEPT !.entity = entity,
                         !.source = IF @ = "unsupported" THEN "ifc" ELSE @,
                         !.keys = IF storey THEN @ \cup {"storey"} ELSE @]
  IN WithShape(
       CASE grouped -> [named EXCEPT !.op = "group_by", !.intent = "aggregate", !.group = "storey",
                                     !.post = IF most THEN "argmax" ELSE "none",
                                     !.shape = "grouped_counts"]
         [] ~grouped /\ p.op = "none" -> [named EXCEPT !.op = "count", !.intent = "count",
                                                       !.shape = "scalar_count"]
         [] OTHER -> named)

Declared(multi, subplans, storey) ==
  LET texts == {multi.norm} \cup {subplans[i].says : i \in DOMAIN subplans}
      names == UNION {t.names : t \in texts}
      entities == IF names # {} THEN names ELSE UNION {t.words : t \in texts}
      targets == CASE Cardinality(entities) > 1 -> SetToSeq(entities)
                   [] Cardinality(entities) = 1 /\ subplans[1].entity # "none" ->
                        <<subplans[1].entity>>
                   [] OTHER -> SetToSeq(entities)
      grouped == \E t \in texts : t.grouped
      repeated == Cardinality({subplans[i].entity : i \in DOMAIN subplans} \ {"none"}) <= 1
      applies == /\ multi.intent \notin {"unsupported", "reconciliation"}
                 /\ \A i \in DOMAIN subplans : subplans[i].intent # "unsupported"
                 /\ entities # {}
                 /\ \/ Len(targets) = Len(subplans)
                    \/ Len(targets) > 1 /\ repeated
                    \/ Len(targets) = 1 /\ repeated /\ grouped
  IN IF ~applies THEN subplans
     ELSE [i \in DOMAIN targets |->
             Restored(subplans[IF i <= Len(subplans) THEN i ELSE Len(subplans)], targets[i],
                      grouped, \E t \in texts : t.most, storey /\ \E t \in texts : t.storey)]

Canonical(multi, storey) ==
  LET each == [i \in DOMAIN multi.subplans |-> CanonicalSubplan(multi.subplans[i], storey)]
  IN [multi EXCEPT !.subplans = Declared(multi, each, storey)]

---------------------------------------------------------------------------
(* enforce_grouped_request_contract: a question that says "per floor" has each
   IFC entity grouped by storey, once; of several plans for an entity the last
   grouped one, else the first. *)
OfEntity(multi, entity) ==
  LET plans == {i \in DOMAIN multi.subplans : multi.subplans[i].source = "ifc"
                                              /\ multi.subplans[i].entity = entity}
      grouped == {i \in plans : multi.subplans[i].group \in {"storey", "space", "type"}}
  IN multi.subplans[IF grouped # {} THEN Max(grouped) ELSE Min(plans)]

ByStorey(p, post) ==
  [p EXCEPT !.source = "ifc", !.intent = "aggregate", !.op = "group_by", !.group = "storey",
            !.post = post, !.shape = "grouped_counts"]

EnforceGrouped(multi, question) ==
  LET entities == {p.entity : p \in {q \in ToSet(multi.subplans) : q.source = "ifc"}} \ {"none"}
      targets == SetToSeq(entities)
  IN IF multi.intent = "reconciliation" \/ ~question.grouping \/ entities = {}
     THEN multi
     ELSE [multi EXCEPT !.intent = IF Len(targets) > 1 THEN "multi_query" ELSE "single_query",
                        !.subplans = [i \in DOMAIN targets |->
                                        ByStorey(OfEntity(multi, targets[i]), question.post)]]

(* What every plan goes through, wherever it comes from. *)
Contracted(multi, question, storey) == EnforceGrouped(Canonical(multi, storey), question)

(* validate_multi_plan: no issue. *)
ValidSubplan(p) ==
  /\ p.keys \cap Modifiers = {}
  /\ Grouped(p) => /\ p.op = "group_by"
                   /\ p.shape \in {"grouped_counts"} \cup
                        (IF p.post \in Extrema THEN {"single_group_extremum"} ELSE {})
  /\ p.post \in Extrema => Grouped(p)
  /\ p.source = "ifc" =>
       /\ p.op # "none"
       /\ p.entity = "none" => p.intent \in {"clarification", "unsupported", "reconciliation"}
Valid(multi) == \A i \in DOMAIN multi.subplans : ValidSubplan(multi.subplans[i])

(* eligible_scalar_count_batch *)
Batchable(subplans) ==
  /\ Len(subplans) >= 2
  /\ \A i \in DOMAIN subplans :
       /\ subplans[i].source = "ifc" /\ subplans[i].op = "count"
       /\ ~Grouped(subplans[i]) /\ subplans[i].post \notin Extrema
       /\ subplans[i].shape = "scalar_count"
       /\ subplans[i].keys = subplans[1].keys

(* capability_gate: the answers it may give.  A measure is not modelled, so an
   extremum may or may not be within the controlled ones. *)
Beyond(p) ==
  \/ p.source = "unsupported"
  \/ p.source = "ifc" /\ (p.entity \notin Supported \/ p.op \in {"min", "max", "sum", "average"})
GateAnswers(p) ==
  IF Beyond(p) THEN {FALSE}
  ELSE IF p.source = "ifc" /\ p.op \in {"aggregate_quantity", "space_distance"} THEN BOOLEAN
  ELSE {TRUE}

(* What the IFC tool returns for an operation, and verify_execution_consistency.  No
   operation is a count. *)
IfcOps == {"none", "count", "list", "min", "max", "sum", "average", "group_by",
           "get_properties", "inspect_relationship", "aggregate_quantity", "space_distance"}
Returned(p) ==
  CASE p.op \in {"none", "count"} -> "scalar_count"
    [] p.op = "group_by" -> "grouped_counts"
    [] p.op = "get_properties" ->
         IF p.shape \in {"element_identity", "element_storey", "element_properties"}
         THEN p.shape ELSE "properties"
    [] p.op \in {"aggregate_quantity", "space_distance"} -> "scalar_measurement"
    [] OTHER -> "list"
Consistent(p) ==
  /\ \/ p.shape \in {"none", Returned(p)}
     \/ p.shape = "single_group_extremum" /\ p.post \in Extrema /\ Returned(p) = "grouped_counts"
  /\ Grouped(p) \/ p.post \in Extrema => Returned(p) = "grouped_counts"
=============================================================================
