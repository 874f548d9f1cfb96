--------------------------- MODULE MCPlannedTurn ---------------------------
(* Two supported classes and one the tool does not know; planner outputs that are
   right, wrong in each way the contracts look for, or outside the scope. *)
EXTENDS PlannedTurn

Entities == {"IfcDoor", "IfcWindow", "IfcChair"}
SupportedEntities == {"IfcDoor", "IfcWindow"}

Says(names, op, outside) == [Silent EXCEPT !.names = names, !.op = op, !.outside = outside]
Words(words, grouped) == [Silent EXCEPT !.words = words, !.grouped = grouped]
Norms == {Silent, Words({"IfcDoor"}, FALSE), Words({"IfcDoor"}, TRUE),
          [Words({"IfcDoor", "IfcWindow"}, FALSE) EXCEPT !.storey = TRUE]}

Counts(e) == Subplan("ifc", "count", "none", e, "none", "none", "none")
Extremum(e) == Subplan("ifc", "aggregate", "count", e, "none", "argmax", "scalar_count")
PerStorey(e) == Subplan("ifc", "aggregate", "count", e, "storey", "argmax", "none")
Field == Subplan("pdf", "document_lookup", "none", "none", "none", "none", "none")
Unnamed == Subplan("ifc", "clarification", "list", "none", "none", "none", "none")
Refused == Subplan("unsupported", "unsupported", "none", "none", "none", "none", "none")

Pairable == {Counts("IfcDoor"), Counts("IfcWindow"), Counts("IfcChair"), PerStorey("IfcDoor"), Field}
Single == Pairable \cup
  {Extremum("IfcDoor"), Refused, Counts("none"),
   [Counts("none") EXCEPT !.says = Says({"IfcDoor"}, "count", FALSE)],
   [Counts("IfcDoor") EXCEPT !.keys = {"group_by"}],
   [Counts("IfcDoor") EXCEPT !.keys = {"group_by"}, !.by = "none"],
   [Counts("IfcDoor") EXCEPT !.keys = {"group_by"}, !.by = "storey"],
   [Counts("IfcDoor") EXCEPT !.keys = {"group_by"}, !.by = "space"],
   [Counts("IfcDoor") EXCEPT !.keys = {"group_by"}, !.by = "unknown"],
   [Counts("IfcDoor") EXCEPT !.keys = {"limit"}],
   [Counts("IfcDoor") EXCEPT !.keys = {"group_by"}, !.by = "storey",
                             !.says = Says({}, "none", TRUE)],
   [Counts("IfcDoor") EXCEPT !.says = Says({"IfcDoor"}, "count", TRUE)],
   Subplan("ifc", "count", "extract_field", "IfcDoor", "none", "none", "none"),
   Subplan("ifc", "aggregate", "sum", "IfcWindow", "none", "none", "none"),
   Subplan("unsupported", "count", "list", "IfcDoor", "none", "none", "none")}
PlannerOutputs ==
  {Multi("single_query", n, <<p>>) : n \in Norms, p \in Single} \cup
  {Multi("multi_query", n, <<p, q>>) : n \in Norms, p \in Pairable, q \in Pairable} \cup
  {Multi("multi_query", Silent, <<Unnamed, Unnamed>>),
   Multi("reconciliation", Silent, <<Counts("none")>>)}

Asked(asks, route, fast, grouping, selected, deictic, post, text) ==
  [asks |-> asks, route |-> route, fast |-> fast, grouping |-> grouping,
   selected |-> selected, deictic |-> deictic, post |-> post, text |-> text]
QuestionSet ==
  {Asked(a, "model", FALSE, FALSE, FALSE, FALSE, "none", Silent) : a \in {"join", "boards"}} \cup
  {Asked("clear", "reconcile", FALSE, FALSE, FALSE, FALSE, "none", Silent)} \cup
  {Asked("clear", r, f, g, FALSE, FALSE, "argmax", t) :
     r \in {"multi", "nearest"}, f \in BOOLEAN, g \in BOOLEAN, t \in Norms} \cup
  {Asked("clear", "single", TRUE, g, d, d, "none", t) : g \in BOOLEAN, d \in BOOLEAN, t \in Norms} \cup
  {Asked("clear", "model", FALSE, g, s, FALSE, x, Silent) :
     g \in BOOLEAN, s \in BOOLEAN, x \in {"none", "argmax"}}
=============================================================================
