------------------------- MODULE PlannedTurnProofs -------------------------
(***************************************************************************)
(* Machine-checked proofs about PlannedTurn: for any plans, questions and  *)
(* classes, whatever the planner's calls and the tools come back with.     *)
(* First what the contracts of PlanContracts keep of a plan, then what the *)
(* turn keeps of its plan, its calls and its results.                      *)
(***************************************************************************)
EXTENDS PlannedTurn, FoldLemmas

---------------------------------------------------------------------------
(* What the contracts make of one subplan.  The last of the corrections gives a
   grouped one the operation and the shape of a grouping. *)
Shaped(p) ==
  Grouped(p) => p.intent = "aggregate" /\ p.op = "group_by" /\ p.shape = "grouped_counts"

LEMMA WithShapeTyped ==
  ASSUME NEW p \in QueryPlan
  PROVE  /\ WithShape(p) \in QueryPlan /\ Shaped(WithShape(p))
         /\ WithShape(p).source = p.source /\ WithShape(p).entity = p.entity
         /\ ValidSubplan(p) /\ Shaped(p) => ValidSubplan(WithShape(p))
<1> USE DEF QueryPlan, Extrema
<1>0. /\ "group_by" \in Operations /\ "aggregate" \in Intents /\ "grouped_counts" \in Shapes
      /\ {"none", "scalar_count", "list", "properties", "document_value", "visual_claim",
          "scalar_measurement"} \subseteq Shapes
  BY DEF Operations, Intents, Shapes
<1>1. CASE Grouped(p)
  <2>1. WithShape(p) = [p EXCEPT !.op = "group_by", !.intent = "aggregate",
                                 !.shape = "grouped_counts"]
    BY <1>1 DEF WithShape
  <2>2. /\ WithShape(p).source = p.source /\ WithShape(p).entity = p.entity
        /\ WithShape(p).group = p.group /\ WithShape(p).post = p.post
        /\ WithShape(p).keys = p.keys /\ WithShape(p).op = "group_by"
        /\ WithShape(p).intent = "aggregate" /\ WithShape(p).shape = "grouped_counts"
    BY <2>1
  <2>3. WithShape(p) \in QueryPlan
    BY <1>0, <2>1
  <2>4. Shaped(WithShape(p))
    BY <2>2 DEF Shaped
  <2>5. ASSUME ValidSubplan(p), Shaped(p) PROVE ValidSubplan(WithShape(p))
    <3> HIDE DEF QueryPlan, Extrema
    <3>1. p.source = "ifc" => p.entity # "none"
      BY <1>1, <2>5 DEF ValidSubplan, Shaped
    <3> QED
      BY <1>1, <2>2, <2>5, <3>1 DEF ValidSubplan, Grouped
  <2> QED
    BY <2>2, <2>3, <2>4, <2>5
<1>2. CASE ~Grouped(p) /\ p.shape # "none"
  <2>1. WithShape(p) = p
    BY <1>2 DEF WithShape
  <2> QED
    BY <1>2, <2>1 DEF Shaped
<1>3. CASE ~Grouped(p) /\ p.shape = "none"
  <2>1. PICK shape : /\ WithShape(p) = [p EXCEPT !.shape = shape]
                     /\ shape \in {"none", "scalar_count", "list", "properties", "document_value",
                                   "visual_claim", "scalar_measurement"}
    <3> DEFINE shape == CASE p.op = "count" -> "scalar_count"
                          [] p.op = "list" -> "list"
                          [] p.op \in {"get_properties", "inspect_relationship"} -> "properties"
                          [] p.op = "extract_field" -> "document_value"
                          [] p.op = "inspect_view" -> "visual_claim"
                          [] p.op \in {"aggregate_quantity", "space_distance"}
                               -> "scalar_measurement"
                          [] OTHER -> "none"
    <3>1. WithShape(p) = [p EXCEPT !.shape = shape]
      BY <1>3 DEF WithShape
    <3>2. shape \in {"none", "scalar_count", "list", "properties", "document_value",
                     "visual_claim", "scalar_measurement"}
      OBVIOUS
    <3> HIDE DEF shape
    <3> QED
      BY <3>1, <3>2
  <2> QED
    BY <1>0, <1>3, <2>1 DEF Grouped, Shaped, ValidSubplan
<1> QED
  BY <1>1, <1>2, <1>3

(* A subplan that validation lets pass, once canonicalized, stays so through
   every correction. *)
Settled(p) == ValidSubplan(p) /\ Shaped(p)

LEMMA ProjectWideKeeps ==
  ASSUME NEW p \in QueryPlan
  PROVE  ProjectWide(p) \in QueryPlan /\ (Settled(p) => Settled(ProjectWide(p)))
<1> DEFINE q == [p EXCEPT !.group = "none", !.post = "none", !.shape = "scalar_measurement"]
<1>1. CASE p.op = "aggregate_quantity"
  <2>1. ProjectWide(p) = q
    BY <1>1 DEF ProjectWide
  <2>2. q \in QueryPlan
    BY DEF QueryPlan, Keys, Groupings, Shapes
  <2>3. /\ q.source = p.source /\ q.intent = p.intent /\ q.op = p.op /\ q.entity = p.entity
        /\ q.keys = p.keys /\ q.group = "none" /\ q.post = "none"
    BY DEF QueryPlan, Keys
  <2> HIDE DEF q
  <2> QED
    BY <1>1, <2>1, <2>2, <2>3 DEF Settled, Shaped, ValidSubplan, Grouped, Extrema
<1>2. CASE p.op # "aggregate_quantity"
  BY <1>2 DEF ProjectWide
<1> QED
  BY <1>1, <1>2

LEMMA OutOfScopeKeeps ==
  ASSUME NEW p \in QueryPlan
  PROVE  OutOfScope(p) \in QueryPlan /\ (Settled(p) => Settled(OutOfScope(p)))
<1> DEFINE q == [p EXCEPT !.source = "unsupported", !.intent = "unsupported", !.op = "none",
                          !.entity = "none", !.keys = {}, !.group = "none", !.post = "none",
                          !.shape = "none"]
<1>1. q \in QueryPlan
  <2>1. /\ "unsupported" \in Sources /\ "unsupported" \in Intents /\ "none" \in Operations
        /\ "none" \in Groupings /\ "none" \in Shapes
    BY DEF Sources, Intents, Operations, Groupings, Shapes
  <2>2. {} \in SUBSET Keys
    OBVIOUS
  <2> QED
    BY <2>1, <2>2 DEF QueryPlan, Keys
<1>2. q.source = "unsupported" /\ q.keys = {} /\ q.group = "none" /\ q.post = "none"
  BY DEF QueryPlan, Keys
<1>3. OutOfScope(p) = q \/ OutOfScope(p) = p
  BY DEF OutOfScope
<1> HIDE DEF q
<1> QED
  BY <1>1, <1>2, <1>3 DEF Settled, Shaped, ValidSubplan, Grouped, Extrema

LEMMA FromRationaleKeeps ==
  ASSUME NEW p \in QueryPlan, NEW storey1
  PROVE  /\ FromRationale(p, storey1) \in QueryPlan
         /\ Settled(p) => Settled(FromRationale(p, storey1))
<1> DEFINE entity == IF p.entity = "none" /\ p.says.names # {}
                     THEN CHOOSE e \in p.says.names : TRUE ELSE p.entity
           op == IF p.op = "none" THEN p.says.op ELSE p.op
<1>1. p.says \in Text /\ p.entity \in Entity \cup {"none"} /\ p.op \in Operations
      /\ p.keys \in SUBSET Keys
  BY DEF QueryPlan, Keys
<1>2. entity \in Entity \cup {"none"}
  BY <1>1, PlanConstants DEF Text
<1>3. op \in Operations
  BY <1>1 DEF Text, Operations
<1> HIDE DEF entity, op
<1>4. CASE FromRationale(p, storey1) = p
  BY <1>4
<1>5. CASE FromRationale(p, storey1) # p
  <2>1. /\ entity # "none" /\ op # "none"
        /\ FromRationale(p, storey1) =
             [p EXCEPT !.entity = entity, !.op = op,
                       !.keys = IF storey1 /\ p.says.storey THEN @ \cup {"storey"} ELSE @]
    BY <1>5 DEF FromRationale, entity, op
  <2>2. PICK keys : /\ keys \in {p.keys, p.keys \cup {"storey"}}
                    /\ FromRationale(p, storey1) =
                         [p EXCEPT !.entity = entity, !.op = op, !.keys = keys]
    <3> DEFINE keys == IF storey1 /\ p.says.storey THEN p.keys \cup {"storey"} ELSE p.keys
    <3>1. keys \in {p.keys, p.keys \cup {"storey"}}
      OBVIOUS
    <3>2. FromRationale(p, storey1) = [p EXCEPT !.entity = entity, !.op = op, !.keys = keys]
      BY <2>1 DEF QueryPlan, Keys
    <3> QED
      BY <3>1, <3>2, Zenon
  <2> DEFINE q == [p EXCEPT !.entity = entity, !.op = op, !.keys = keys]
  <2>3. keys \in SUBSET Keys
    <3>1. "storey" \in Keys
      BY DEF Keys
    <3>2. p.keys \cup {"storey"} \in SUBSET Keys
      BY <1>1, <3>1
    <3> QED
      BY <1>1, <2>2, <3>2
  <2>4. q \in QueryPlan
    BY <1>2, <1>3, <2>3 DEF QueryPlan, Keys
  <2>5. /\ q.source = p.source /\ q.intent = p.intent /\ q.op = op /\ q.entity = entity
        /\ q.keys = keys /\ q.group = p.group /\ q.post = p.post /\ q.shape = p.shape
    BY DEF QueryPlan, Keys
  <2>6. keys \cap Modifiers = p.keys \cap Modifiers
    BY <2>2 DEF Modifiers
  <2>7. p.op # "none" => op = p.op
    BY DEF op
  <2> HIDE DEF q
  <2>8. ASSUME Settled(p) PROVE Settled(q)
    BY <2>1, <2>5, <2>6, <2>7, <2>8 DEF Settled, Shaped, ValidSubplan, Grouped
  <2> QED
    BY <2>2, <2>4, <2>8 DEF q
<1> QED
  BY <1>4, <1>5

LEMMA FromTypedKeeps ==
  ASSUME NEW p \in QueryPlan
  PROVE  /\ FromTyped(p) \in QueryPlan /\ FromTyped(p).keys = p.keys
         /\ Settled(p) => Settled(FromTyped(p))
<1>1. CASE FromTyped(p) = p
  BY <1>1
<1>2. CASE FromTyped(p) # p
  <2> DEFINE q == [p EXCEPT !.source = "ifc", !.intent = IntentOf(p.op)]
  <2>1. p.entity # "none" /\ p.op \in TypedOps /\ FromTyped(p) = q
    BY <1>2 DEF FromTyped
  <2>2. IntentOf(p.op) \in Intents /\ (p.op = "group_by" => IntentOf(p.op) = "aggregate")
    BY <2>1 DEF TypedOps, IntentOf, Intents
  <2>3. q \in QueryPlan
    BY <2>2 DEF QueryPlan, Keys, Sources
  <2>4. /\ q.source = "ifc" /\ q.intent = IntentOf(p.op) /\ q.op = p.op /\ q.entity = p.entity
        /\ q.keys = p.keys /\ q.group = p.group /\ q.post = p.post /\ q.shape = p.shape
    BY DEF QueryPlan, Keys
  <2>5. p.op # "none"
    BY <2>1 DEF TypedOps
  <2> HIDE DEF q
  <2>6. ASSUME Settled(p) PROVE Settled(q)
    BY <2>1, <2>2, <2>4, <2>5, <2>6 DEF Settled, Shaped, ValidSubplan, Grouped
  <2> QED
    BY <2>1, <2>3, <2>4, <2>6
<1> QED
  BY <1>1, <1>2

LEMMA MoveGroupingKeeps ==
  ASSUME NEW p \in QueryPlan, NEW keys \in SUBSET Keys
  PROVE  /\ MoveGrouping(p, keys) \in QueryPlan
         /\ "group_by" \notin keys => MoveGrouping(p, keys) = p
<1> DEFINE q == [p EXCEPT !.keys = keys \ {"group_by"}, !.group = p.by, !.op = "group_by",
                          !.intent = "aggregate", !.shape = "grouped_counts"]
<1>1. p.by # "empty" => q \in QueryPlan
  <2>1. /\ "group_by" \in Operations /\ "aggregate" \in Intents
        /\ "grouped_counts" \in Shapes
    BY DEF Operations, Intents, Shapes
  <2>2. keys \ {"group_by"} \in SUBSET Keys
    OBVIOUS
  <2>3. p.by # "empty" => p.by \in Groupings
    BY DEF QueryPlan
  <2> QED
    BY <2>1, <2>2, <2>3 DEF QueryPlan, Keys
<1> HIDE DEF q
<1>2. (MoveGrouping(p, keys) = q /\ p.by # "empty") \/ MoveGrouping(p, keys) = p
  BY DEF MoveGrouping, q
<1>3. "group_by" \notin keys => MoveGrouping(p, keys) = p
  BY DEF MoveGrouping
<1> QED
  BY <1>1, <1>2, <1>3

LEMMA CanonicalSubplanKeeps ==
  ASSUME NEW p \in QueryPlan, NEW storey1
  PROVE  /\ CanonicalSubplan(p, storey1) \in QueryPlan /\ Shaped(CanonicalSubplan(p, storey1))
         /\ Settled(p) => Settled(CanonicalSubplan(p, storey1))
<1> DEFINE scoped == OutOfScope(ProjectWide(p))
           recovered == FromRationale(scoped, storey1)
           keys == IF recovered # scoped THEN recovered.keys ELSE p.keys
           typed == FromTyped(recovered)
           moved == MoveGrouping(typed, keys)
<1>1. CanonicalSubplan(p, storey1) = WithShape(moved)
  BY DEF CanonicalSubplan
<1>2. scoped \in QueryPlan /\ (Settled(p) => Settled(scoped))
  BY ProjectWideKeeps, OutOfScopeKeeps
<1> HIDE DEF scoped
<1>3. recovered \in QueryPlan /\ (Settled(p) => Settled(recovered))
  BY <1>2, FromRationaleKeeps
<1> HIDE DEF recovered
<1>4. keys \in SUBSET Keys /\ (Settled(p) => "group_by" \notin keys)
  <2>1. p.keys \in SUBSET Keys /\ recovered.keys \in SUBSET Keys
    BY <1>3 DEF QueryPlan, Keys
  <2> QED
    BY <1>3, <2>1 DEF Settled, ValidSubplan, Modifiers
<1>5. typed \in QueryPlan /\ (Settled(p) => Settled(typed))
  BY <1>3, FromTypedKeeps
<1> HIDE DEF keys, typed
<1>6. moved \in QueryPlan /\ (Settled(p) => Settled(moved))
  BY <1>4, <1>5, MoveGroupingKeeps
<1> HIDE DEF moved
<1> QED
  BY <1>1, <1>6, WithShapeTyped DEF Settled

(* What Declared makes of a subplan for an entity the texts name. *)
LEMMA RestoredKeeps ==
  ASSUME NEW p \in QueryPlan, NEW entity \in Entity,
         NEW grouped, NEW most, NEW storey1
  PROVE  /\ Restored(p, entity, grouped, most, storey1) \in QueryPlan
         /\ Shaped(Restored(p, entity, grouped, most, storey1))
         /\ Settled(p) => Settled(Restored(p, entity, grouped, most, storey1))
<1> DEFINE source == IF p.source = "unsupported" THEN "ifc" ELSE p.source
           keys == IF storey1 THEN p.keys \cup {"storey"} ELSE p.keys
           post == IF most THEN "argmax" ELSE "none"
           named == [p EXCEPT !.entity = entity,
                              !.source = IF @ = "unsupported" THEN "ifc" ELSE @,
                              !.keys = IF storey1 THEN @ \cup {"storey"} ELSE @]
           given == CASE grouped ->
                           [named EXCEPT !.op = "group_by", !.intent = "aggregate",
                                         !.group = "storey",
                                         !.post = IF most THEN "argmax" ELSE "none",
                                         !.shape = "grouped_counts"]
                      [] ~grouped /\ p.op = "none" ->
                           [named EXCEPT !.op = "count", !.intent = "count",
                                         !.shape = "scalar_count"]
                      [] OTHER -> named
<1>1. Restored(p, entity, grouped, most, storey1) = WithShape(given)
  BY DEF Restored
<1>2. source \in Sources /\ keys \in SUBSET Keys /\ post \in {"none"} \cup Extrema
      /\ keys \cap Modifiers = p.keys \cap Modifiers /\ entity # "none"
  BY PlanConstants DEF QueryPlan, Sources, Keys, Modifiers, Extrema
<1>3. named = [p EXCEPT !.entity = entity, !.source = source, !.keys = keys]
  BY DEF QueryPlan
<1> HIDE DEF source, keys, post
<1>4. named \in QueryPlan
  BY <1>2, <1>3 DEF QueryPlan
<1>5. /\ named.entity = entity /\ named.source = source /\ named.keys = keys
      /\ named.op = p.op /\ named.intent = p.intent /\ named.group = p.group
      /\ named.post = p.post /\ named.shape = p.shape
  BY <1>3 DEF QueryPlan
<1> HIDE DEF named
<1>6. given \in QueryPlan /\ (Settled(p) => ValidSubplan(given) /\ Shaped(given))
  <2>1. CASE grouped
    <3> DEFINE q == [named EXCEPT !.op = "group_by", !.intent = "aggregate", !.group = "storey",
                                  !.post = post, !.shape = "grouped_counts"]
    <3>1. given = q
      BY <2>1 DEF post
    <3>2. /\ "storey" \in Groupings /\ "group_by" \in Operations /\ "aggregate" \in Intents
          /\ "grouped_counts" \in Shapes
      BY DEF Groupings, Operations, Intents, Shapes
    <3>3. q \in QueryPlan
      BY <1>2, <1>4, <3>2 DEF QueryPlan
    <3>4. /\ q.entity = entity /\ q.keys = keys /\ q.op = "group_by" /\ q.intent = "aggregate"
          /\ q.group = "storey" /\ q.shape = "grouped_counts"
      BY <1>4, <1>5 DEF QueryPlan
    <3> HIDE DEF q, given
    <3>5. Settled(p) => ValidSubplan(q) /\ Shaped(q)
      BY <1>2, <3>4 DEF Settled, ValidSubplan, Shaped, Grouped
    <3> QED
      BY <3>1, <3>3, <3>5
  <2>2. CASE ~grouped /\ p.op = "none"
    <3> DEFINE q == [named EXCEPT !.op = "count", !.intent = "count", !.shape = "scalar_count"]
    <3>1. given = q
      BY <2>2
    <3>2. "count" \in Operations /\ "count" \in Intents /\ "scalar_count" \in Shapes
      BY DEF Operations, Intents, Shapes
    <3>3. q \in QueryPlan
      BY <1>4, <3>2 DEF QueryPlan
    <3>4. /\ q.entity = entity /\ q.keys = keys /\ q.op = "count" /\ q.group = p.group
          /\ q.post = p.post
      BY <1>4, <1>5 DEF QueryPlan
    <3> HIDE DEF q, given
    <3>5. Settled(p) => ~Grouped(p)
      BY <2>2 DEF Settled, Shaped
    <3>6. Settled(p) => ValidSubplan(q) /\ Shaped(q)
      BY <1>2, <3>4, <3>5 DEF Settled, ValidSubplan, Shaped, Grouped
    <3> QED
      BY <3>1, <3>3, <3>6
  <2>3. CASE ~grouped /\ p.op # "none"
    <3>1. given = named
      BY <2>3
    <3> HIDE DEF given
    <3>2. Settled(p) => ValidSubplan(named) /\ Shaped(named)
      BY <1>2, <1>5, <2>3 DEF Settled, ValidSubplan, Shaped, Grouped
    <3> QED
      BY <1>4, <3>1, <3>2
  <2> QED
    BY <2>1, <2>2, <2>3
<1> HIDE DEF given
<1> QED
  BY <1>1, <1>6, WithShapeTyped DEF Settled

(* Lists of subplans. *)
LEMMA ListAsFunction ==
  ASSUME NEW S, NEW s
  PROVE  s \in Seq(S) \ {<< >>} <=> \E n \in Nat \ {0} : s \in [1..n -> S]
<1>1. Seq(S) = UNION {[1..n -> S] : n \in Nat}
  BY SeqDef
<1>2. ASSUME s \in Seq(S), s # << >> PROVE \E n \in Nat \ {0} : s \in [1..n -> S]
  <2>1. Len(s) \in Nat /\ s \in [1..Len(s) -> S] /\ Len(s) # 0
    BY <1>2, EmptySeq, LenProperties
  <2> QED
    BY <2>1
<1>3. ASSUME NEW n \in Nat \ {0}, s \in [1..n -> S] PROVE s \in Seq(S) /\ s # << >>
  <2>1. s \in Seq(S)
    BY <1>1, <1>3
  <2>2. Len(s) = n
    BY <1>3, <2>1, LenProperties
  <2> QED
    BY <2>1, <2>2, EmptySeq
<1> QED
  BY <1>2, <1>3

(* A set written as a list: every place its own member. *)
LEMMA SetToSeqLists ==
  ASSUME NEW S, IsFiniteSet(S)
  PROVE  /\ Cardinality(S) \in Nat /\ SetToSeq(S) \in [1..Cardinality(S) -> S]
         /\ \A i, j \in 1..Cardinality(S) : SetToSeq(S)[i] = SetToSeq(S)[j] => i = j
         /\ S # {} => Cardinality(S) # 0
<1> DEFINE n == Cardinality(S)
<1>1. n \in Nat /\ ExistsBijection(1..n, S)
  BY FS_CardinalityType
<1>2. PICK f \in Bijection(1..n, S) : TRUE
  BY <1>1 DEF ExistsBijection
<1>3. f \in [1..n -> S] /\ IsInjective(f)
  BY <1>2 DEF Bijection, Injection, IsInjective
<1> HIDE DEF n
<1>4. SetToSeq(S) = CHOOSE g \in [1..n -> S] : IsInjective(g)
  BY DEF SetToSeq, n
<1>5. SetToSeq(S) \in [1..n -> S] /\ IsInjective(SetToSeq(S))
  BY <1>3, <1>4, Zenon
<1>6. \A i, j \in 1..n : SetToSeq(S)[i] = SetToSeq(S)[j] => i = j
  <2>1. DOMAIN SetToSeq(S) = 1..n
    BY <1>5
  <2> QED
    BY <1>5, <2>1, Zenon DEF IsInjective
<1>7. S # {} => n # 0
  BY FS_EmptySet DEF n
<1> QED
  BY <1>1, <1>5, <1>6, <1>7 DEF n

QueryPlans == Seq(QueryPlan) \ {<< >>}

AllShaped(subplans) == \A i \in DOMAIN subplans : Shaped(subplans[i])
AllSettled(subplans) == \A i \in DOMAIN subplans : Settled(subplans[i])

LEMMA DeclaredKeeps ==
  ASSUME NEW multi \in MultiQueryPlan, NEW subplans \in QueryPlans, AllShaped(subplans),
         NEW storey1
  PROVE  /\ Declared(multi, subplans, storey1) \in QueryPlans
         /\ AllShaped(Declared(multi, subplans, storey1))
         /\ AllSettled(subplans) => AllSettled(Declared(multi, subplans, storey1))
<1> DEFINE texts == {multi.norm} \cup {subplans[i].says : i \in DOMAIN subplans}
           names == UNION {t.names : t \in texts}
           entities == IF names # {} THEN names ELSE UNION {t.words : t \in texts}
           targets == CASE Cardinality(entities) > 1 -> SetToSeq(entities)
                        [] Cardinality(entities) = 1 /\ subplans[1].entity # "none" ->
                             <<subplans[1].entity>>
                        [] OTHER -> SetToSeq(entities)
           grouped == \E t \in texts : t.grouped
           most == \E t \in texts : t.most
           within == storey1 /\ \E t \in texts : t.storey
           lastOne(i) == IF i <= Len(subplans) THEN i ELSE Len(subplans)
           restored == [i \in DOMAIN targets |->
                          Restored(subplans[lastOne(i)], targets[i], grouped, most, within)]
<1>1. \/ Declared(multi, subplans, storey1) = subplans
      \/ Declared(multi, subplans, storey1) = restored /\ entities # {}
  BY Zenon DEF Declared
<1>2. PICK n \in Nat \ {0} : subplans \in [1..n -> QueryPlan]
  BY ListAsFunction DEF QueryPlans
<1>3. Len(subplans) = n /\ DOMAIN subplans = 1..n
  BY <1>2, LenProperties DEF QueryPlans
<1>4. texts \subseteq Text
  <2>1. \A q \in QueryPlan : q.says \in Text
    BY DEF QueryPlan
  <2>2. multi.norm \in Text
    BY DEF MultiQueryPlan
  <2> QED
    BY <1>2, <2>1, <2>2
<1> HIDE DEF texts
<1>5. entities \subseteq Supported
  BY <1>4 DEF Text
<1>6. IsFiniteSet(entities) /\ entities \subseteq Entity
  BY <1>5, PlanConstants, FS_Subset
<1> HIDE DEF names, entities, grouped, most, within
<1>7. ASSUME entities # {} PROVE \E m \in Nat \ {0} : targets \in [1..m -> Entity]
  <2>1. /\ Cardinality(entities) \in Nat \ {0}
        /\ SetToSeq(entities) \in [1..Cardinality(entities) -> entities]
    BY <1>6, <1>7, SetToSeqLists
  <2>2. SetToSeq(entities) \in [1..Cardinality(entities) -> Entity]
    BY <1>6, <2>1
  <2>3. subplans[1].entity \in Entity \cup {"none"}
    BY <1>2 DEF QueryPlan
  <2>4. targets = SetToSeq(entities) \/ (targets = <<subplans[1].entity>>
                                         /\ subplans[1].entity # "none")
    BY DEF targets
  <2> HIDE DEF targets
  <2>5. CASE targets = SetToSeq(entities)
    BY <2>1, <2>2, <2>5
  <2>6. CASE targets = <<subplans[1].entity>> /\ subplans[1].entity # "none"
    <3>1. targets \in [1..1 -> Entity]
      BY <2>3, <2>6
    <3> QED
      BY <3>1
  <2> QED
    BY <2>4, <2>5, <2>6
<1> HIDE DEF targets
<1>8. CASE Declared(multi, subplans, storey1) = subplans
  BY <1>8
<1>9. CASE Declared(multi, subplans, storey1) = restored /\ entities # {}
  <2>1. PICK m \in Nat \ {0} : targets \in [1..m -> Entity]
    BY <1>7, <1>9
  <2>2. ASSUME NEW i \in 1..m
        PROVE  /\ restored[i] \in QueryPlan /\ Shaped(restored[i])
               /\ AllSettled(subplans) => Settled(restored[i])
    <3>1. lastOne(i) \in 1..n
      BY <1>3
    <3>2. subplans[lastOne(i)] \in QueryPlan /\ targets[i] \in Entity
      BY <1>2, <2>1, <3>1
    <3>3. AllSettled(subplans) => Settled(subplans[lastOne(i)])
      BY <1>3, <3>1 DEF AllSettled
    <3>4. restored[i] = Restored(subplans[lastOne(i)], targets[i], grouped, most, within)
      BY <2>1
    <3> HIDE DEF restored, lastOne
    <3> QED
      BY <3>2, <3>3, <3>4, RestoredKeeps
  <2>3. DOMAIN restored = 1..m /\ restored \in [1..m -> QueryPlan]
    <3>1. restored = [i \in 1..m |-> restored[i]]
      BY <2>1
    <3> HIDE DEF restored
    <3> QED
      BY <2>2, <3>1
  <2> HIDE DEF restored
  <2>4. restored \in QueryPlans
    BY <2>3, ListAsFunction DEF QueryPlans
  <2> QED
    BY <1>9, <2>2, <2>3, <2>4 DEF AllShaped, AllSettled
<1> HIDE DEF restored
<1> QED
  BY <1>1, <1>8, <1>9

LEMMA CanonicalKeeps ==
  ASSUME NEW multi \in MultiQueryPlan, NEW storey1
  PROVE  /\ Canonical(multi, storey1) \in MultiQueryPlan
         /\ Canonical(multi, storey1).intent = multi.intent
         /\ Canonical(multi, storey1).norm = multi.norm
         /\ AllShaped(Canonical(multi, storey1).subplans)
         /\ AllSettled(multi.subplans) => AllSettled(Canonical(multi, storey1).subplans)
<1> DEFINE each == [i \in DOMAIN multi.subplans |-> CanonicalSubplan(multi.subplans[i], storey1)]
           declared == Declared(multi, each, storey1)
<1>1. Canonical(multi, storey1) = [multi EXCEPT !.subplans = declared]
  BY Zenon DEF Canonical
<1>2. multi.subplans \in QueryPlans
  BY DEF MultiQueryPlan, QueryPlans
<1>3. PICK n \in Nat \ {0} : multi.subplans \in [1..n -> QueryPlan]
  BY <1>2, ListAsFunction DEF QueryPlans
<1>4. ASSUME NEW i \in 1..n
      PROVE  /\ each[i] \in QueryPlan /\ Shaped(each[i])
             /\ AllSettled(multi.subplans) => Settled(each[i])
  <2>1. each[i] = CanonicalSubplan(multi.subplans[i], storey1) /\ multi.subplans[i] \in QueryPlan
    BY <1>3
  <2>2. AllSettled(multi.subplans) => Settled(multi.subplans[i])
    BY <1>3 DEF AllSettled
  <2> HIDE DEF each
  <2> QED
    BY <2>1, <2>2, CanonicalSubplanKeeps
<1>5. DOMAIN each = 1..n /\ each \in [1..n -> QueryPlan]
  <2>1. each = [i \in 1..n |-> each[i]]
    BY <1>3
  <2> HIDE DEF each
  <2> QED
    BY <1>4, <2>1
<1> HIDE DEF each
<1>6. each \in QueryPlans /\ AllShaped(each) /\ (AllSettled(multi.subplans) => AllSettled(each))
  <2>1. each \in QueryPlans
    BY <1>5, ListAsFunction DEF QueryPlans
  <2> QED
    BY <1>4, <1>5, <2>1 DEF AllShaped, AllSettled
<1>7. /\ declared \in QueryPlans /\ AllShaped(declared)
      /\ AllSettled(multi.subplans) => AllSettled(declared)
  BY <1>6, DeclaredKeeps
<1> HIDE DEF declared
<1>8. /\ Canonical(multi, storey1) \in MultiQueryPlan
      /\ Canonical(multi, storey1).intent = multi.intent
      /\ Canonical(multi, storey1).norm = multi.norm
      /\ Canonical(multi, storey1).subplans = declared
  BY <1>1, <1>7 DEF MultiQueryPlan, QueryPlans
<1> QED
  BY <1>7, <1>8

LEMMA ByStoreyKeeps ==
  ASSUME NEW p \in QueryPlan, p.entity # "none", NEW post \in {"none"} \cup Extrema
  PROVE  /\ ByStorey(p, post) \in QueryPlan /\ Shaped(ByStorey(p, post))
         /\ ByStorey(p, post).entity = p.entity /\ ByStorey(p, post).source = "ifc"
         /\ ByStorey(p, post).op = "group_by" /\ ByStorey(p, post).group = "storey"
         /\ Settled(p) => Settled(ByStorey(p, post))
<1> DEFINE q == [p EXCEPT !.source = "ifc", !.intent = "aggregate", !.op = "group_by",
                          !.group = "storey", !.post = post, !.shape = "grouped_counts"]
<1>1. ByStorey(p, post) = q
  BY DEF ByStorey
<1>2. /\ "ifc" \in Sources /\ "aggregate" \in Intents /\ "group_by" \in Operations
      /\ "storey" \in Groupings /\ "grouped_counts" \in Shapes
  BY DEF Sources, Intents, Operations, Groupings, Shapes
<1>3. q \in QueryPlan
  BY <1>2 DEF QueryPlan
<1>4. /\ q.entity = p.entity /\ q.source = "ifc" /\ q.op = "group_by" /\ q.group = "storey"
      /\ q.intent = "aggregate" /\ q.shape = "grouped_counts" /\ q.keys = p.keys
  BY DEF QueryPlan
<1> HIDE DEF q
<1>5. Shaped(q) /\ (Settled(p) => Settled(q))
  BY <1>4 DEF Settled, Shaped, ValidSubplan, Grouped
<1> QED
  BY <1>1, <1>3, <1>4, <1>5

(* The IFC subplans for an entity among the first n; the one that stands for them. *)
IfcPlanned(multi, n, entity) ==
  /\ multi.subplans \in [1..n -> QueryPlan]
  /\ \E i \in 1..n : multi.subplans[i].source = "ifc" /\ multi.subplans[i].entity = entity
StandsFor(multi, n, entity) ==
  \E i \in 1..n : OfEntity(multi, entity) = multi.subplans[i]
                  /\ multi.subplans[i].entity = entity

LEMMA OfEntityKeeps ==
  ASSUME NEW multi, NEW n \in Nat, NEW entity, IfcPlanned(multi, n, entity)
  PROVE  StandsFor(multi, n, entity)
<1> USE DEF IfcPlanned, StandsFor
<1> DEFINE plans == {i \in DOMAIN multi.subplans : multi.subplans[i].source = "ifc"
                                                   /\ multi.subplans[i].entity = entity}
           grouped == {i \in plans : multi.subplans[i].group \in {"storey", "space", "type"}}
           chosen == IF grouped # {} THEN Max(grouped) ELSE Min(plans)
<1>1. OfEntity(multi, entity) = multi.subplans[chosen]
  BY DEF OfEntity
<1>2. plans \in SUBSET (1..n) /\ plans # {} /\ grouped \in SUBSET plans
  OBVIOUS
<1>3. \A i \in plans : multi.subplans[i].entity = entity
  OBVIOUS
<1> HIDE DEF plans, grouped
<1>4. chosen \in plans
  <2>1. grouped # {} => Max(grouped) \in grouped
    <3>1. grouped \in SUBSET (1..n)
      BY <1>2
    <3> QED
      BY <3>1, MaxIsLargest
  <2>2. Min(plans) \in plans
    BY <1>2, MinIsSmallest
  <2> QED
    BY <1>2, <2>1, <2>2
<1> QED
  BY <1>1, <1>2, <1>3, <1>4

(* What "per floor" makes of a plan: an IFC subplan for an entity counts it per
   storey, and no two are for the same entity. *)
PerStoreyPlan(subplans) ==
  /\ \A i \in DOMAIN subplans :
       subplans[i].source = "ifc" /\ subplans[i].entity # "none"
         => subplans[i].op = "group_by" /\ subplans[i].group = "storey"
  /\ \A i, j \in DOMAIN subplans :
       /\ subplans[i].source = "ifc" /\ subplans[j].source = "ifc"
       /\ subplans[i].entity = subplans[j].entity /\ subplans[i].entity # "none"
       => i = j

LEMMA EnforceGroupedKeeps ==
  ASSUME NEW multi \in MultiQueryPlan, AllShaped(multi.subplans), NEW q \in Question
  PROVE  /\ EnforceGrouped(multi, q) \in MultiQueryPlan
         /\ AllShaped(EnforceGrouped(multi, q).subplans)
         /\ AllSettled(multi.subplans) => AllSettled(EnforceGrouped(multi, q).subplans)
         /\ q.grouping /\ EnforceGrouped(multi, q).intent # "reconciliation"
              => PerStoreyPlan(EnforceGrouped(multi, q).subplans)
<1> DEFINE entities == {p.entity : p \in {r \in ToSet(multi.subplans) : r.source = "ifc"}}
                       \ {"none"}
           targets == SetToSeq(entities)
           grouped == [i \in DOMAIN targets |-> ByStorey(OfEntity(multi, targets[i]), q.post)]
           intent == IF Len(targets) > 1 THEN "multi_query" ELSE "single_query"
<1>1. EnforceGrouped(multi, q) =
        IF multi.intent = "reconciliation" \/ ~q.grouping \/ entities = {}
        THEN multi ELSE [multi EXCEPT !.intent = intent, !.subplans = grouped]
  BY Zenon DEF EnforceGrouped
<1>2. PICK n \in Nat \ {0} : multi.subplans \in [1..n -> QueryPlan]
  BY ListAsFunction DEF MultiQueryPlan
<1>3. \A e \in entities : e # "none" /\ \E i \in 1..n : multi.subplans[i].source = "ifc"
                                                      /\ multi.subplans[i].entity = e
  BY <1>2 DEF ToSet
<1>4. \A i \in 1..n : multi.subplans[i].source = "ifc" /\ multi.subplans[i].entity # "none"
                        => multi.subplans[i].entity \in entities
  BY <1>2 DEF ToSet
<1> HIDE DEF entities
<1>5. IsFiniteSet(entities)
  <2> DEFINE places == {i \in 1..n : multi.subplans[i].entity \in entities}
             entityOf == [i \in places |-> multi.subplans[i].entity]
  <2>1. IsFiniteSet(places)
    <3>1. IsFiniteSet(1..n) /\ places \subseteq 1..n
      BY FS_Interval
    <3> HIDE DEF places
    <3> QED
      BY <3>1, FS_Subset
  <2>2. entityOf \in Surjection(places, entities)
    BY <1>3 DEF Surjection
  <2> HIDE DEF places, entityOf
  <2> QED
    BY <2>1, <2>2, FS_Surjection
<1>6. CASE multi.intent = "reconciliation" \/ ~q.grouping \/ entities = {}
  <2>1. EnforceGrouped(multi, q) = multi
    BY <1>1, <1>6
  <2>2. entities = {} => PerStoreyPlan(multi.subplans)
    BY <1>2, <1>4 DEF PerStoreyPlan
  <2> QED
    BY <1>6, <2>1, <2>2
<1>7. CASE multi.intent # "reconciliation" /\ q.grouping /\ entities # {}
  <2>1. EnforceGrouped(multi, q) = [multi EXCEPT !.intent = intent, !.subplans = grouped]
    BY <1>1, <1>7
  <2>2. PICK m \in Nat \ {0} : /\ targets \in [1..m -> entities]
                               /\ \A i, j \in 1..m : targets[i] = targets[j] => i = j
    <3>1. Cardinality(entities) \in Nat \ {0}
      BY <1>5, <1>7, SetToSeqLists
    <3> QED
      BY <1>5, <3>1, SetToSeqLists
  <2> HIDE DEF targets
  <2>3. q.post \in {"none"} \cup Extrema
    BY DEF Question
  <2>4. ASSUME NEW i \in 1..m
        PROVE  /\ grouped[i] \in QueryPlan /\ Shaped(grouped[i])
               /\ AllSettled(multi.subplans) => Settled(grouped[i])
               /\ grouped[i].entity = targets[i]
               /\ grouped[i].op = "group_by" /\ grouped[i].group = "storey"
    <3>1. targets[i] # "none" /\ \E k \in 1..n : multi.subplans[k].source = "ifc"
                                                /\ multi.subplans[k].entity = targets[i]
      BY <1>3, <2>2
    <3>2. PICK k \in 1..n : OfEntity(multi, targets[i]) = multi.subplans[k]
                            /\ multi.subplans[k].entity = targets[i]
      <4> DEFINE t == targets[i]
      <4>1. n \in Nat /\ multi.subplans \in [1..n -> QueryPlan]
        BY <1>2
      <4>2. IfcPlanned(multi, n, t)
        BY <3>1, <4>1 DEF IfcPlanned
      <4> HIDE DEF t
      <4>3. StandsFor(multi, n, t)
        BY ONLY <4>1, <4>2, OfEntityKeeps
      <4> QED
        BY <4>3 DEF StandsFor, t
    <3>3. multi.subplans[k] \in QueryPlan
          /\ (AllSettled(multi.subplans) => Settled(multi.subplans[k]))
      BY <1>2 DEF AllSettled
    <3>4. grouped[i] = ByStorey(multi.subplans[k], q.post)
      BY <2>2, <3>2
    <3> HIDE DEF grouped
    <3>5. multi.subplans[k].entity # "none"
      BY <3>1, <3>2
    <3> DEFINE p == multi.subplans[k]
               g == ByStorey(p, q.post)
    <3>6. /\ g \in QueryPlan /\ Shaped(g) /\ g.entity = p.entity
          /\ g.op = "group_by" /\ g.group = "storey" /\ (Settled(p) => Settled(g))
      BY ONLY <2>3, <3>3, <3>5, ByStoreyKeeps
    <3>7. grouped[i] = g /\ p.entity = targets[i]
      BY <3>2, <3>4
    <3>8. AllSettled(multi.subplans) => Settled(p)
      BY <3>3
    <3> HIDE DEF g, p
    <3> QED
      BY <3>6, <3>7, <3>8
  <2>5. DOMAIN grouped = 1..m /\ grouped \in [1..m -> QueryPlan]
    <3>1. grouped = [i \in 1..m |-> grouped[i]]
      BY <2>2
    <3> HIDE DEF grouped
    <3> QED
      BY <2>4, <3>1
  <2> HIDE DEF grouped
  <2>6. grouped \in QueryPlans
    BY <2>5, ListAsFunction DEF QueryPlans
  <2>7. AllShaped(grouped) /\ (AllSettled(multi.subplans) => AllSettled(grouped))
    BY <2>4, <2>5 DEF AllShaped, AllSettled
  <2>8. PerStoreyPlan(grouped)
    BY <2>2, <2>4, <2>5 DEF PerStoreyPlan
  <2> DEFINE e == [multi EXCEPT !.intent = intent, !.subplans = grouped]
  <2>9. intent \in {"single_query", "multi_query"}
    OBVIOUS
  <2> HIDE DEF intent
  <2>10. e \in MultiQueryPlan /\ e.subplans = grouped
    BY <2>6, <2>9 DEF MultiQueryPlan, QueryPlans
  <2> QED
    BY <2>1, <2>7, <2>8, <2>10
<1> QED
  BY <1>6, <1>7

(* What every plan goes through, from a model, a heuristic or the delta, once or
   twice (_route): it stays a plan of the schema, what is grouped has the
   operation and the shape of a grouping, a plan that passed validate_multi_plan
   passes it again, and for a question per storey every class is counted per
   storey, once. *)
THEOREM ContractedKeeps ==
  ASSUME NEW multi \in MultiQueryPlan, NEW q \in Question, NEW storey1
  PROVE  /\ Contracted(multi, q, storey1) \in MultiQueryPlan
         /\ AllShaped(Contracted(multi, q, storey1).subplans)
         /\ AllSettled(multi.subplans) => AllSettled(Contracted(multi, q, storey1).subplans)
         /\ q.grouping /\ Contracted(multi, q, storey1).intent # "reconciliation"
              => PerStoreyPlan(Contracted(multi, q, storey1).subplans)
BY CanonicalKeeps, EnforceGroupedKeeps DEF Contracted

---------------------------------------------------------------------------
(* Where the plans of a turn come from: the planning models, ... *)
LEMMA NormalizedKeeps ==
  ASSUME NEW p \in QueryPlan
  PROVE  Normalized(p) \in QueryPlan
<1> DEFINE op == DefaultOp(p)
           intent == IF op \in {"group_by", "min", "max", "sum", "average", "aggregate_quantity"}
                     THEN "aggregate" ELSE p.intent
<1>1. Normalized(p) = [p EXCEPT !.op = op, !.intent = intent]
  BY Zenon DEF Normalized
<1>2. op \in Operations
  <2>1. p.op \in Operations
    BY DEF QueryPlan
  <2> QED
    BY <2>1 DEF DefaultOp, Operations
<1>3. intent \in Intents
  BY DEF QueryPlan, Intents
<1> HIDE DEF op, intent
<1> QED
  BY <1>1, <1>2, <1>3 DEF QueryPlan

LEMMA FromModelKeeps ==
  ASSUME NEW multi \in MultiQueryPlan, question \in Question
  PROVE  /\ FromModel(multi) \in MultiQueryPlan
         /\ Valid(FromModel(multi)) => AllSettled(FromModel(multi).subplans)
<1> DEFINE each == [i \in DOMAIN multi.subplans |-> Normalized(multi.subplans[i])]
           e == [multi EXCEPT !.subplans = each]
<1>1. FromModel(multi) = Contracted(e, question, storey)
  BY Zenon DEF FromModel
<1>2. each \in QueryPlans
  <2>1. PICK n \in Nat \ {0} : multi.subplans \in [1..n -> QueryPlan]
    BY ListAsFunction DEF MultiQueryPlan
  <2>2. \A i \in 1..n : each[i] \in QueryPlan
    BY <2>1, NormalizedKeeps
  <2>3. each = [i \in 1..n |-> each[i]]
    BY <2>1
  <2> HIDE DEF each
  <2>4. each \in [1..n -> QueryPlan]
    BY <2>2, <2>3
  <2> QED
    BY <2>4, ListAsFunction DEF QueryPlans
<1> HIDE DEF each
<1>3. e \in MultiQueryPlan
  BY <1>2 DEF MultiQueryPlan, QueryPlans
<1> HIDE DEF e
<1> DEFINE answer == Contracted(e, question, storey)
<1>4. answer \in MultiQueryPlan /\ AllShaped(answer.subplans)
  BY <1>3, ContractedKeeps
<1> HIDE DEF answer
<1>5. Valid(answer) => AllSettled(answer.subplans)
  BY <1>4 DEF Valid, AllSettled, AllShaped, Settled
<1> QED
  BY <1>1, <1>4, <1>5 DEF answer

(* ... the questions they cannot answer, ... *)
LEMMA OneSubplan ==
  ASSUME NEW p \in QueryPlan, NEW text \in Text,
         NEW intent \in {"single_query", "multi_query", "clarification", "unsupported"}
  PROVE  /\ Multi(intent, text, <<p>>) \in MultiQueryPlan
         /\ Multi(intent, text, <<p>>).intent = intent
         /\ Multi(intent, text, <<p>>).subplans = <<p>>
         /\ Multi(intent, text, <<p>>).norm = text
<1> DEFINE s == <<p>>
<1>1. s \in QueryPlans
  BY DEF QueryPlans
<1> HIDE DEF s
<1>2. Multi(intent, text, s) \in MultiQueryPlan /\ Multi(intent, text, s).intent = intent
      /\ Multi(intent, text, s).subplans = s /\ Multi(intent, text, s).norm = text
  BY <1>1 DEF Multi, MultiQueryPlan, QueryPlans
<1> QED
  BY <1>2 DEF s

LEMMA SilentIsText == Silent \in Text
BY DEF Silent, Text

LEMMA SubplanTyped ==
  ASSUME NEW source \in Sources, NEW intent \in Intents, NEW op \in Operations,
         NEW entity \in Entity \cup {"none"}, NEW group \in Groupings,
         NEW post \in {"none"} \cup Extrema, NEW shape \in Shapes
  PROVE  Subplan(source, intent, op, entity, group, post, shape) \in QueryPlan
<1>1. {} \in SUBSET Keys
  OBVIOUS
<1>2. "empty" \in Groupings \cup {"empty"}
  OBVIOUS
<1> QED
  BY <1>1, <1>2, SilentIsText DEF Subplan, QueryPlan

LEMMA GivenUpPlans ==
  /\ AskBack \in QueryPlan /\ Settled(AskBack) /\ AskBack.source = "unsupported"
  /\ NotSupported \in QueryPlan /\ Settled(NotSupported) /\ NotSupported.source = "unsupported"
<1>1. /\ "unsupported" \in Sources /\ "clarification" \in Intents /\ "unsupported" \in Intents
      /\ "none" \in Operations /\ "none" \in Groupings /\ "none" \in Shapes
  BY DEF Sources, Intents, Operations, Groupings, Shapes
<1>2. AskBack \in QueryPlan /\ NotSupported \in QueryPlan
  BY <1>1, SubplanTyped DEF AskBack, NotSupported
<1>3. Settled(AskBack) /\ Settled(NotSupported)
  BY DEF AskBack, NotSupported, Subplan, Settled, ValidSubplan, Shaped, Grouped, Extrema
<1> QED
  BY <1>2, <1>3 DEF AskBack, NotSupported, Subplan

(* ... the delta model, ... *)
LEMMA FollowupKeeps ==
  ASSUME plan \in MultiQueryPlan, AllSettled(plan.subplans),
         NEW entity \in Supported \cup plan.norm.names \cup plan.norm.words
  PROVE  Followup(entity) \in MultiQueryPlan /\ AllSettled(Followup(entity).subplans)
<1> DEFINE p == plan.subplans[1]
           q == [p EXCEPT !.source = "ifc", !.intent = "count", !.op = "count",
                          !.entity = entity, !.keys = @ \cup {"storey"}, !.group = "none",
                          !.post = "none", !.shape = "scalar_count"]
           subplans == [plan.subplans EXCEPT ![1] = q]
<1>1. Followup(entity) = [plan EXCEPT !.subplans = subplans]
  <2>1. Followup(entity) = [plan EXCEPT !.subplans[1] = q]
    BY Zenon DEF Followup
  <2> HIDE DEF q
  <2>2. [plan EXCEPT !.subplans[1] = q] = [plan EXCEPT !.subplans = subplans]
    BY DEF MultiQueryPlan
  <2> QED
    BY <2>1, <2>2
<1>2. PICK n \in Nat \ {0} : plan.subplans \in [1..n -> QueryPlan]
  BY ListAsFunction DEF MultiQueryPlan
<1>3. p \in QueryPlan /\ Settled(p)
  BY <1>2 DEF AllSettled
<1>4. entity \in Entity /\ entity # "none"
  <2>1. plan.norm.names \subseteq Supported /\ plan.norm.words \subseteq Supported
    BY DEF MultiQueryPlan, Text
  <2> QED
    BY <2>1, PlanConstants
<1>5. q \in QueryPlan
  <2>1. /\ "ifc" \in Sources /\ "count" \in Intents /\ "count" \in Operations
        /\ "none" \in Groupings /\ "scalar_count" \in Shapes /\ "storey" \in Keys
    BY DEF Sources, Intents, Operations, Groupings, Shapes, Keys
  <2> HIDE DEF p
  <2> QED
    BY <1>3, <1>4, <2>1 DEF QueryPlan
<1>6. Settled(q)
  <2>1. /\ q.source = "ifc" /\ q.intent = "count" /\ q.op = "count" /\ q.entity = entity
        /\ q.keys = p.keys \cup {"storey"} /\ q.group = "none" /\ q.post = "none"
    <3> HIDE DEF p
    <3> QED
      BY <1>3 DEF QueryPlan
  <2> HIDE DEF p, q
  <2> QED
    BY <1>3, <1>4, <2>1 DEF Settled, ValidSubplan, Shaped, Grouped, Extrema, Modifiers
<1> HIDE DEF q, p
<1>7. /\ subplans \in [1..n -> QueryPlan]
      /\ \A i \in 1..n : subplans[i] = IF i = 1 THEN q ELSE plan.subplans[i]
  BY <1>2, <1>5
<1> HIDE DEF subplans
<1>8. subplans \in QueryPlans
  BY <1>7, ListAsFunction DEF QueryPlans
<1>9. AllSettled(subplans)
  BY <1>2, <1>6, <1>7 DEF AllSettled
<1>10. Followup(entity) \in MultiQueryPlan /\ Followup(entity).subplans = subplans
  BY <1>1, <1>8 DEF MultiQueryPlan, QueryPlans
<1> QED
  BY <1>9, <1>10

(* ... and the heuristics. *)
LEMMA ReconciliationTyped ==
  ASSUME question \in Question
  PROVE  /\ ReconciliationPlan \in MultiQueryPlan /\ Valid(ReconciliationPlan)
         /\ ReconciliationPlan.intent = "reconciliation"
<1> DEFINE drawn == Subplan("ifc", "reconciliation", "list", "none", "none", "none", "list")
           read == Subplan("pdf", "reconciliation", "extract_field", "none", "none", "none",
                           "list")
           s == <<drawn, read>>
<1>1. ReconciliationPlan = Multi("reconciliation", question.text, s)
  BY Zenon DEF ReconciliationPlan
<1>2. /\ "ifc" \in Sources /\ "pdf" \in Sources /\ "reconciliation" \in Intents
      /\ "list" \in Operations /\ "extract_field" \in Operations
      /\ "none" \in Groupings /\ "list" \in Shapes
  BY DEF Sources, Intents, Operations, Groupings, Shapes
<1>3. drawn \in QueryPlan /\ read \in QueryPlan
  <2> HIDE DEF drawn, read
  <2> QED
    BY <1>2, SubplanTyped DEF drawn, read
<1>4. ValidSubplan(drawn) /\ ValidSubplan(read)
  BY DEF Subplan, ValidSubplan, Grouped, Extrema
<1> HIDE DEF drawn, read
<1>5. s \in QueryPlans /\ \A i \in DOMAIN s : ValidSubplan(s[i])
  BY <1>3, <1>4 DEF QueryPlans
<1> HIDE DEF s
<1>6. question.text \in Text
  BY DEF Question
<1> QED
  BY <1>1, <1>5, <1>6 DEF Multi, MultiQueryPlan, QueryPlans, Valid

LEMMA SelectionTyped == Selection \in QueryPlan
<1> DEFINE e == CHOOSE x \in Supported : TRUE
<1>1. e \in Entity
  BY PlanConstants
<1> HIDE DEF e
<1>2. /\ "ifc" \in Sources /\ "property_lookup" \in Intents /\ "get_properties" \in Operations
      /\ "none" \in Groupings /\ "element_identity" \in Shapes
  BY DEF Sources, Intents, Operations, Groupings, Shapes
<1>3. Subplan("ifc", "property_lookup", "get_properties", e, "none", "none",
              "element_identity") \in QueryPlan
  BY <1>1, <1>2, SubplanTyped
<1> QED
  BY <1>3 DEF Selection, e

LEMMA HeuristicsTyped ==
  ASSUME NEW p \in HeuristicPlans
  PROVE  p \in QueryPlan
<1>1. /\ "ifc" \in Sources /\ "pdf" \in Sources /\ "viewer_snapshot" \in Sources
      /\ {"count", "aggregate", "property_lookup", "relationship_lookup", "document_lookup",
          "visual_inspection"} \subseteq Intents
      /\ AskedOps \cup {"group_by", "aggregate_quantity", "space_distance", "extract_field",
                        "inspect_view"} \subseteq Operations
      /\ {"none", "storey", "space"} \subseteq Groupings
      /\ {"none", "scalar_count", "single_group_extremum", "grouped_counts",
          "scalar_measurement"} \subseteq Shapes
  BY DEF Sources, Intents, Operations, Groupings, Shapes, AskedOps
<1>2. \A e \in Supported : e \in Entity
  BY PlanConstants
<1>3. ASSUME p \in IfcHeuristics PROVE p \in QueryPlan
  <2>1. PICK words \in AskedOps, e \in Supported \cup {"none"},
             group \in {"none", "storey", "space"}, extremum \in {"none"} \cup Extrema :
          p = IfcHeuristic(words, e, group, extremum)
    BY <1>3 DEF IfcHeuristics
  <2> DEFINE op == IF group = "space" THEN "group_by" ELSE words
             post == IF group = "none" THEN "none" ELSE extremum
             intent == CASE op = "count" -> "count"
                         [] op = "get_properties" -> "property_lookup"
                         [] OTHER -> "aggregate"
             shape == CASE post # "none" -> "single_group_extremum"
                        [] post = "none" /\ group # "none" -> "grouped_counts"
                        [] OTHER -> IF op = "count" THEN "scalar_count" ELSE "none"
  <2>2. op \in Operations /\ post \in {"none"} \cup Extrema /\ group \in Groupings
    BY <1>1
  <2>3. intent \in Intents
    BY <1>1
  <2>4. shape \in Shapes
    BY <1>1
  <2>5. p = Subplan("ifc", intent, op, e, group, post, shape)
    BY <2>1, Zenon DEF IfcHeuristic
  <2>6. e \in Entity \cup {"none"}
    BY <1>2
  <2> HIDE DEF op, post, intent, shape
  <2> QED
    BY <1>1, <2>2, <2>3, <2>4, <2>5, <2>6, SubplanTyped
<1>4. ASSUME p \notin IfcHeuristics PROVE p \in QueryPlan
  <2>1. \/ \E e \in Supported :
             p = Subplan("ifc", "aggregate", "aggregate_quantity", e, "none", "none",
                         "scalar_measurement")
        \/ \E e \in Supported :
             p = Subplan("ifc", "relationship_lookup", "space_distance", e, "none", "none",
                         "scalar_measurement")
        \/ p = Subplan("pdf", "document_lookup", "extract_field", "none", "none", "none", "none")
        \/ p = Subplan("viewer_snapshot", "visual_inspection", "inspect_view", "none", "none",
                       "none", "none")
        \/ p = NotSupported
    BY <1>4, Zenon DEF HeuristicPlans, Measurements, NotSupported
  <2> QED
    BY <1>1, <1>2, <2>1, SubplanTyped, GivenUpPlans
<1> QED
  BY <1>3, <1>4

LEMMA GenericTyped ==
  ASSUME question \in Question, NEW multi \in GenericPlans
  PROVE  multi \in MultiQueryPlan
<1>1. PICK entities \in UNION {SetToSeqs(E) : E \in (SUBSET Supported) \ {{}}},
           grouped \in BOOLEAN, post \in {"none"} \cup Extrema :
        multi = GenericPlan(entities, grouped, post)
  BY DEF GenericPlans
<1>e. PICK E \in (SUBSET Supported) \ {{}} : entities \in SetToSeqs(E)
  BY <1>1
<1> DEFINE n == Cardinality(E)
           op == IF grouped THEN "group_by" ELSE "count"
           group == IF grouped THEN "storey" ELSE "none"
           shape == IF grouped THEN "grouped_counts" ELSE "scalar_count"
           intent == IF Len(entities) > 1 THEN "multi_query" ELSE "single_query"
           s == [i \in 1..n |-> Subplan("ifc", "aggregate", op, entities[i], group, post, shape)]
<1>2. /\ "ifc" \in Sources /\ "aggregate" \in Intents /\ op \in Operations
      /\ group \in Groupings /\ shape \in Shapes /\ post \in {"none"} \cup Extrema
  BY DEF Sources, Intents, Operations, Groupings, Shapes, Extrema
<1>3. n \in Nat \ {0} /\ entities \in [1..n -> E] /\ DOMAIN entities = 1..n
  <2>1. IsFiniteSet(E) /\ E # {}
    BY PlanConstants, FS_Subset
  <2>2. n \in Nat /\ n # 0
    BY <2>1, FS_CardinalityType, FS_EmptySet
  <2>3. entities \in [1..n -> E]
    BY <1>e DEF SetToSeqs
  <2> QED
    BY <2>2, <2>3
<1>4. multi = Multi(intent, question.text, s)
  BY <1>1, <1>3, Zenon DEF GenericPlan
<1> HIDE DEF op, group, shape, n, intent
<1>5. ASSUME NEW i \in 1..n PROVE s[i] \in QueryPlan
  <2>1. entities[i] \in Entity \cup {"none"}
    BY <1>3, PlanConstants
  <2>2. s[i] = Subplan("ifc", "aggregate", op, entities[i], group, post, shape)
    OBVIOUS
  <2> DEFINE e == entities[i]
  <2> HIDE DEF s, e
  <2>3. Subplan("ifc", "aggregate", op, e, group, post, shape) \in QueryPlan
    BY <1>2, <2>1, SubplanTyped DEF e
  <2> QED
    BY <2>2, <2>3 DEF e
<1>6. s = [i \in 1..n |-> s[i]]
  OBVIOUS
<1> HIDE DEF s
<1>7. s \in [1..n -> QueryPlan]
  BY <1>5, <1>6
<1>8. s \in QueryPlans
  BY <1>3, <1>7, ListAsFunction DEF QueryPlans
<1>9. question.text \in Text
  BY DEF Question
<1>10. intent \in {"single_query", "multi_query"}
  BY DEF intent
<1> HIDE DEF n
<1> QED
  BY <1>4, <1>8, <1>9, <1>10 DEF Multi, MultiQueryPlan, QueryPlans

---------------------------------------------------------------------------
(* The plan of a turn, by the node it is at. *)
PlanTyped ==
  /\ question \in Question /\ storey \in BOOLEAN
  /\ plan \in MultiQueryPlan \cup {NoPlan}
  /\ phase \in {"repair", "escalate", "language", "delta", "finish", "execute"}
       => plan \in MultiQueryPlan

(* A plan the planner was heard out on has passed validation ... *)
PlanSettled ==
  phase \in {"language", "delta"} \/ (phase = "finish" /\ question.route = "model")
    => AllSettled(plan.subplans)

(* ... and the one that is run has been through the contracts once more. *)
PlanContracted ==
  phase = "execute" =>
    /\ question.fast \/ question.route = "model" => Valid(plan)
    /\ question.grouping /\ plan.intent # "reconciliation" => PerStoreyPlan(plan.subplans)

PlanInv == PlanTyped /\ PlanSettled /\ PlanContracted

LEMMA PlanInit == Init => PlanInv
BY PlannedTurnConstants DEF Init, PlanInv, PlanTyped, PlanSettled, PlanContracted

(* A plan that is given up is run as it is. *)
LEMMA GivenUpRuns ==
  ASSUME NEW text \in Text
  PROVE  /\ Multi("clarification", text, <<AskBack>>) \in MultiQueryPlan
         /\ AllSettled(Multi("clarification", text, <<AskBack>>).subplans)
         /\ Valid(Multi("clarification", text, <<AskBack>>))
         /\ PerStoreyPlan(Multi("clarification", text, <<AskBack>>).subplans)
         /\ Multi("unsupported", text, <<NotSupported>>) \in MultiQueryPlan
         /\ AllSettled(Multi("unsupported", text, <<NotSupported>>).subplans)
         /\ Valid(Multi("unsupported", text, <<NotSupported>>))
         /\ PerStoreyPlan(Multi("unsupported", text, <<NotSupported>>).subplans)
<1>1. ASSUME NEW p \in QueryPlan, Settled(p), p.source = "unsupported",
             NEW intent \in {"clarification", "unsupported"}
      PROVE  /\ Multi(intent, text, <<p>>) \in MultiQueryPlan
             /\ AllSettled(Multi(intent, text, <<p>>).subplans)
             /\ Valid(Multi(intent, text, <<p>>))
             /\ PerStoreyPlan(Multi(intent, text, <<p>>).subplans)
  <2>1. Multi(intent, text, <<p>>) \in MultiQueryPlan /\ Multi(intent, text, <<p>>).subplans = <<p>>
    BY OneSubplan
  <2>2. AllSettled(<<p>>) /\ PerStoreyPlan(<<p>>)
    BY <1>1 DEF AllSettled, PerStoreyPlan
  <2>3. Valid(Multi(intent, text, <<p>>))
    BY <1>1, <2>1 DEF Valid, Settled
  <2> QED
    BY <2>1, <2>2, <2>3
<1> QED
  BY <1>1, GivenUpPlans

LEMMA SettledIsValid ==
  ASSUME NEW multi, AllSettled(multi.subplans)
  PROVE  Valid(multi)
BY DEF AllSettled, Settled, Valid

LEMMA PlanRouted ==
  ASSUME PlanInv, RoutesByHeuristic
  PROVE  PlanInv'
<1>0. question \in Question /\ storey \in BOOLEAN /\ UNCHANGED <<question, storey>>
  BY DEF PlanInv, PlanTyped, RoutesByHeuristic, asked
<1>1. CASE question.route = "reconcile"
  <2>1. plan' = ReconciliationPlan /\ phase' = "execute"
    BY <1>1, Zenon DEF RoutesByHeuristic
  <2> QED
    BY <1>0, <1>1, <2>1, ReconciliationTyped
    DEF PlanInv, PlanTyped, PlanSettled, PlanContracted, Valid
<1>2. CASE question.route # "reconcile"
  <2>1. phase' = "finish" /\ question.route # "model"
    BY <1>2, Zenon DEF RoutesByHeuristic
  <2>2. question.text \in Text
    BY <1>0 DEF Question
  <2>3. plan' \in MultiQueryPlan
    <3>1. CASE question.route = "multi"
      <4>1. plan' \in GenericPlans
        BY <3>1, Zenon DEF RoutesByHeuristic
      <4> QED
        BY <1>0, <4>1, GenericTyped
    <3>2. CASE question.route = "nearest"
      <4>1. plan' = Multi("unsupported", question.text, <<NotSupported>>)
        BY <3>2, Zenon DEF RoutesByHeuristic
      <4> QED
        BY <2>2, <4>1, GivenUpRuns
    <3>3. CASE question.route = "single"
      <4>1. PICK p \in IF question.deictic THEN {Selection} ELSE HeuristicPlans :
              plan' = Multi("single_query", question.text, <<p>>)
        BY <3>3, Zenon DEF RoutesByHeuristic
      <4>2. p \in QueryPlan
        BY SelectionTyped, HeuristicsTyped
      <4> QED
        BY <2>2, <4>1, <4>2, OneSubplan
    <3> QED
      BY <1>2, <3>1, <3>2, <3>3, Zenon DEF RoutesByHeuristic
  <2> QED
    BY <1>0, <2>1, <2>3 DEF PlanInv, PlanTyped, PlanSettled, PlanContracted
<1> QED
  BY <1>1, <1>2

(* A plan of a model comes back to the planning, and past it only when valid. *)
LEMMA PlanFromModel ==
  ASSUME PlanInv, UNCHANGED asked, NEW multi \in Plans, plan' = FromModel(multi),
         phase' \in {"repair", "escalate"} \/ (Valid(plan') /\ phase' \in {"language", "finish"})
  PROVE  PlanInv'
<1>1. question \in Question /\ storey \in BOOLEAN /\ UNCHANGED <<question, storey>>
  BY DEF PlanInv, PlanTyped, asked
<1>2. multi \in MultiQueryPlan
  BY PlannedTurnConstants
<1>3. plan' \in MultiQueryPlan /\ (Valid(plan') => AllSettled(plan'.subplans))
  BY <1>1, <1>2, FromModelKeeps
<1> QED
  BY <1>1, <1>3 DEF PlanInv, PlanTyped, PlanSettled, PlanContracted

LEMMA PlanGivenUp ==
  ASSUME PlanInv, UNCHANGED asked, NEW text \in Text, phase' \in {"language", "execute"},
         \/ plan' = Multi("clarification", text, <<AskBack>>)
         \/ plan' = Multi("unsupported", text, <<NotSupported>>)
  PROVE  PlanInv'
<1>1. question \in Question /\ storey \in BOOLEAN /\ UNCHANGED <<question, storey>>
  BY DEF PlanInv, PlanTyped, asked
<1>2. /\ plan' \in MultiQueryPlan /\ AllSettled(plan'.subplans) /\ Valid(plan')
      /\ PerStoreyPlan(plan'.subplans)
  BY GivenUpRuns
<1> QED
  BY <1>1, <1>2 DEF PlanInv, PlanTyped, PlanSettled, PlanContracted

LEMMA PlanEscalated ==
  ASSUME PlanInv, EscalationAnswers
  PROVE  PlanInv'
<1>1. /\ phase' = "language" /\ UNCHANGED asked
      /\ \E multi \in Plans :
           plan' = IF Valid(FromModel(multi)) THEN FromModel(multi)
                   ELSE Multi("clarification", FromModel(multi).norm, <<AskBack>>)
  BY Zenon DEF EscalationAnswers, Returns, Calling
<1>2. PICK multi \in Plans :
        plan' = IF Valid(FromModel(multi)) THEN FromModel(multi)
                ELSE Multi("clarification", FromModel(multi).norm, <<AskBack>>)
  BY <1>1
<1>3. CASE Valid(FromModel(multi))
  BY <1>1, <1>2, <1>3, PlanFromModel
<1>4. CASE ~Valid(FromModel(multi))
  <2>1. plan' = Multi("clarification", FromModel(multi).norm, <<AskBack>>)
    BY <1>2, <1>4
  <2>2. FromModel(multi).norm \in Text
    <3>1. question \in Question /\ multi \in MultiQueryPlan
      BY PlannedTurnConstants DEF PlanInv, PlanTyped
    <3>2. FromModel(multi) \in MultiQueryPlan
      BY <3>1, FromModelKeeps
    <3> QED
      BY <3>2 DEF MultiQueryPlan
  <2> QED
    BY <1>1, <2>1, <2>2, PlanGivenUp
<1> QED
  BY <1>3, <1>4

LEMMA PlanNotEscalated ==
  ASSUME PlanInv, NoEscalation
  PROVE  PlanInv'
<1>1. /\ phase = "escalate" /\ phase' = "language" /\ UNCHANGED asked
      /\ plan' = Multi("clarification", plan.norm, <<AskBack>>)
  BY DEF NoEscalation, GivesUp
<1>2. plan.norm \in Text
  BY <1>1 DEF PlanInv, PlanTyped, MultiQueryPlan
<1> QED
  BY <1>1, <1>2, PlanGivenUp

LEMMA PlanFollowedUp ==
  ASSUME PlanInv, DeltaAnswers
  PROVE  PlanInv'
<1>1. /\ phase = "delta" /\ phase' = "finish" /\ UNCHANGED asked
      /\ \/ UNCHANGED plan
         \/ \E entity \in Supported \cup plan.norm.names \cup plan.norm.words :
              plan' = Followup(entity)
  BY DEF DeltaAnswers, Calling, Returns
<1>2. question \in Question /\ storey \in BOOLEAN /\ UNCHANGED <<question, storey>>
  BY <1>1 DEF PlanInv, PlanTyped, asked
<1>3. plan \in MultiQueryPlan /\ AllSettled(plan.subplans)
  BY <1>1 DEF PlanInv, PlanTyped, PlanSettled
<1>4. plan' \in MultiQueryPlan /\ AllSettled(plan'.subplans)
  BY <1>1, <1>3, FollowupKeeps
<1> QED
  BY <1>1, <1>2, <1>4 DEF PlanInv, PlanTyped, PlanSettled, PlanContracted

(* The last pass of the contracts is what the executor relies on. *)
LEMMA PlanFinished ==
  ASSUME PlanInv, Finishes
  PROVE  PlanInv'
<1> DEFINE multi == Contracted(plan, question, storey)
<1>1. /\ phase = "finish" /\ phase' = "execute" /\ UNCHANGED asked
      /\ plan' = IF question.fast /\ ~Valid(multi)
                 THEN Multi("clarification", question.text, <<AskBack>>) ELSE multi
  BY Zenon DEF Finishes
<1>2. question \in Question /\ storey \in BOOLEAN /\ UNCHANGED <<question, storey>>
  BY <1>1 DEF PlanInv, PlanTyped, asked
<1>3. plan \in MultiQueryPlan /\ (question.route = "model" => AllSettled(plan.subplans))
  BY <1>1 DEF PlanInv, PlanTyped, PlanSettled
<1>4. /\ multi \in MultiQueryPlan
      /\ AllSettled(plan.subplans) => AllSettled(multi.subplans)
      /\ question.grouping /\ multi.intent # "reconciliation" => PerStoreyPlan(multi.subplans)
  BY <1>2, <1>3, ContractedKeeps
<1> HIDE DEF multi
<1>5. CASE question.fast /\ ~Valid(multi)
  <2>1. question.text \in Text
    BY <1>2 DEF Question
  <2> QED
    BY <1>1, <1>5, <2>1, PlanGivenUp
<1>6. CASE ~(question.fast /\ ~Valid(multi))
  <2>1. plan' = multi
    BY <1>1, <1>6
  <2>2. question.route = "model" => Valid(multi)
    BY <1>3, <1>4, SettledIsValid
  <2> QED
    BY <1>1, <1>2, <1>4, <1>6, <2>1, <2>2
    DEF PlanInv, PlanTyped, PlanSettled, PlanContracted
<1> QED
  BY <1>5, <1>6

LEMMA PlanStep == PlanInv /\ [Next]_vars => PlanInv'
<1> SUFFICES ASSUME PlanInv, [Next]_vars PROVE PlanInv'
  OBVIOUS
<1>1. CASE RoutesByHeuristic
  BY <1>1, PlanRouted
<1>2. CASE EscalationAnswers
  BY <1>2, PlanEscalated
<1>3. CASE NoEscalation
  BY <1>3, PlanNotEscalated
<1>4. CASE DeltaAnswers
  BY <1>4, PlanFollowedUp
<1>5. CASE Finishes
  BY <1>5, PlanFinished
<1>6. CASE PlannerAnswers \/ RepairAnswers \/ Recovers
  <2>1. /\ UNCHANGED asked
        /\ \E multi \in Plans :
             /\ plan' = FromModel(multi)
             /\ \/ phase' \in {"repair", "escalate"}
                \/ Valid(plan') /\ phase' \in {"language", "finish"}
    BY <1>6 DEF PlannerAnswers, RepairAnswers, Recovers, Unclear, Returns
  <2> QED
    BY <2>1, PlanFromModel
<1>7. CASE RecoveryFails
  <2>1. /\ UNCHANGED asked /\ phase' = "execute"
        /\ plan' = Multi("unsupported", Silent, <<NotSupported>>)
    BY <1>7 DEF RecoveryFails
  <2> QED
    BY <2>1, SilentIsText, PlanGivenUp
<1>8. CASE LanguageAnswers
  <2>1. /\ phase = "language" /\ phase' \in {"delta", "finish"}
        /\ UNCHANGED <<question, storey, plan>>
    BY <1>8 DEF LanguageAnswers, Calling, Returns, asked
  <2> QED
    BY <2>1 DEF PlanInv, PlanTyped, PlanSettled, PlanContracted
<1>9. CASE ResolvesContext \/ CallRaises \/ Reconciles \/ ExecutionRaises \/ Synthesizes
  <2>1. phase' \in {"route", "recover", "done", "raised"} /\ UNCHANGED <<question, storey, plan>>
    BY <1>9 DEF ResolvesContext, CallRaises, Reconciles, ExecutionRaises, Synthesizes, Ends,
                asked, planned
  <2> QED
    BY <2>1 DEF PlanInv, PlanTyped, PlanSettled, PlanContracted
<1>10. CASE RunsSubplan \/ UNCHANGED vars
  <2>1. UNCHANGED <<phase, question, storey, plan>>
    BY <1>10 DEF RunsSubplan, vars, asked, planned
  <2> QED
    BY <2>1 DEF PlanInv, PlanTyped, PlanSettled, PlanContracted
<1> QED
  BY <1>1, <1>2, <1>3, <1>4, <1>5, <1>6, <1>7, <1>8, <1>9, <1>10 DEF Next

---------------------------------------------------------------------------
(* How many calls a turn may have behind it at each of them. *)
CallsBounded ==
  /\ attempts \in Nat /\ calls \in Nat /\ calls <= attempts /\ attempts <= MaxAttempts
  /\ phase \in {"context", "route"} => attempts = 0
  /\ phase = "repair" => attempts <= 1
  /\ phase = "escalate" => attempts <= 2
  /\ phase = "language" => attempts <= 3
  /\ phase = "delta" => attempts <= 4
  /\ phase = "recover" => attempts <= 5

LEMMA CallsInit == Init => CallsBounded
BY DEF Init, CallsBounded, MaxAttempts

LEMMA CallsStep == CallsBounded /\ [Next]_vars => CallsBounded'
<1> SUFFICES ASSUME CallsBounded, [Next]_vars PROVE CallsBounded'
  OBVIOUS
<1> USE DEF CallsBounded, MaxAttempts
<1>1. CASE PlannerAnswers
  <2>1. /\ phase = "route" /\ attempts' = attempts + 1 /\ calls' = calls + 1
        /\ phase' \in {"repair", "language"}
    BY <1>1 DEF PlannerAnswers, Calling, Returns
  <2> QED
    BY <2>1
<1>2. CASE RepairAnswers
  <2>1. /\ phase = "repair" /\ attempts' = attempts + 1 /\ calls' = calls + 1
        /\ phase' \in {"language", "escalate"}
    BY <1>2 DEF RepairAnswers, Calling, Returns
  <2> QED
    BY <2>1
<1>3. CASE EscalationAnswers \/ NoEscalation
  <2>1. /\ phase = "escalate" /\ phase' = "language"
        /\ \/ calls' = calls /\ attempts' \in {attempts, attempts + 1}
           \/ calls' = calls + 1 /\ attempts' = attempts + 1
    BY <1>3 DEF EscalationAnswers, NoEscalation, Calling, Returns
  <2> QED
    BY <2>1
<1>4. CASE LanguageAnswers
  <2>1. /\ phase = "language" /\ attempts' = attempts + 1 /\ calls' = calls + 1
        /\ phase' \in {"delta", "finish"}
    BY <1>4 DEF LanguageAnswers, Calling, Returns
  <2> QED
    BY <2>1
<1>5. CASE DeltaAnswers \/ Recovers
  <2>1. /\ phase \in {"delta", "recover"} /\ phase' = "finish"
        /\ attempts' = attempts + 1 /\ calls' = calls + 1
    BY <1>5 DEF DeltaAnswers, Recovers, Calling, Returns
  <2> QED
    BY <2>1
<1>6. CASE CallRaises
  <2>1. /\ phase \in {"route", "repair", "language", "delta"} /\ phase' = "recover"
        /\ attempts' = attempts + 1 /\ calls' = calls
    BY <1>6 DEF CallRaises, Calling
  <2> QED
    BY <2>1
<1>7. CASE RecoveryFails
  <2>1. /\ phase = "recover" /\ phase' = "execute"
        /\ attempts' = attempts + 1 /\ calls' = calls
    BY <1>7 DEF RecoveryFails, Calling
  <2> QED
    BY <2>1
<1>8. CASE RoutesByHeuristic \/ Finishes
  <2>1. phase' \in {"finish", "execute"} /\ UNCHANGED <<attempts, calls>>
    BY <1>8 DEF RoutesByHeuristic, Finishes
  <2> QED
    BY <2>1
<1>9. CASE ResolvesContext
  <2>1. phase = "context" /\ phase' \in {"route", "done"} /\ UNCHANGED <<attempts, calls>>
    BY <1>9 DEF ResolvesContext, Ends, planned
  <2> QED
    BY <2>1
<1>10. CASE Reconciles \/ ExecutionRaises \/ Synthesizes
  <2>1. phase' \in {"done", "raised"} /\ UNCHANGED <<attempts, calls>>
    BY <1>10 DEF Reconciles, ExecutionRaises, Synthesizes, Ends, planned
  <2> QED
    BY <2>1
<1>11. CASE RunsSubplan \/ UNCHANGED vars
  <2>1. UNCHANGED <<phase, attempts, calls>>
    BY <1>11 DEF RunsSubplan, vars, planned
  <2> QED
    BY <2>1
<1> QED
  BY <1>1, <1>2, <1>3, <1>4, <1>5, <1>6, <1>7, <1>8, <1>9, <1>10, <1>11 DEF Next

---------------------------------------------------------------------------
Planning == {"context", "route", "repair", "escalate", "language", "delta", "recover",
             "finish"}

(* Nothing runs and nothing is given up before there is a plan to run. *)
PlanFirst ==
  /\ phase \in Planning \cup {"execute", "done", "raised"}
  /\ phase \in Planning => tools = 0 /\ results = << >> /\ ~failed

(* After a planner that never recovered there is one subplan, which every gate
   refuses. *)
GivenUp ==
  failed => /\ plan = Multi("unsupported", Silent, <<NotSupported>>)
            /\ tools = 0
            /\ \A i \in DOMAIN results : results[i].disposition = "error"
            /\ phase = "done" => disposition = "error"

Inv == /\ PlanFirst /\ GivenUp /\ AnsweredMeansAll
       /\ \E S : results \in Seq(S)

---------------------------------------------------------------------------
LEMMA InitInv == Init => Inv
<1> SUFFICES ASSUME Init PROVE Inv
  OBVIOUS
<1>1. PlanFirst /\ GivenUp /\ AnsweredMeansAll
  BY DEF Init, PlanFirst, Planning, GivenUp, AnsweredMeansAll
<1>2. results \in Seq({})
  BY DEF Init
<1> QED
  BY <1>1, <1>2 DEF Inv

(* Every step of the planning leaves what the executor writes alone, up to the
   recovery that fails and the questions answered without a plan. *)
LEMMA PlanningStep ==
  ASSUME Inv, phase \in Planning, phase' \in Planning \cup {"execute"},
         UNCHANGED <<failed, executed>>
  PROVE  Inv'
<1>1. tools' = 0 /\ results' = << >> /\ ~failed'
  BY DEF Inv, PlanFirst, executed
<1>2. PlanFirst' /\ GivenUp' /\ AnsweredMeansAll'
  BY <1>1 DEF PlanFirst, Planning, GivenUp, AnsweredMeansAll
<1>3. results' \in Seq({})
  BY <1>1
<1> QED
  BY <1>2, <1>3 DEF Inv

LEMMA ResolvesStep ==
  ASSUME Inv, ResolvesContext
  PROVE  Inv'
<1>1. /\ phase = "context" /\ UNCHANGED <<planned, results, tools>>
      /\ \/ phase' = "done" /\ disposition' \in {"unsupported", "clarification_required"}
         \/ phase' = "route" /\ UNCHANGED disposition
  BY DEF ResolvesContext, Ends
<1>2. tools' = 0 /\ results' = << >> /\ ~failed'
  BY <1>1 DEF Inv, PlanFirst, Planning, planned
<1>3. PlanFirst' /\ GivenUp' /\ AnsweredMeansAll'
  BY <1>1, <1>2 DEF PlanFirst, Planning, GivenUp, AnsweredMeansAll
<1>4. results' \in Seq({})
  BY <1>2
<1> QED
  BY <1>3, <1>4 DEF Inv

LEMMA RecoveryFailsStep ==
  ASSUME Inv, RecoveryFails
  PROVE  Inv'
<1>1. /\ phase = "recover" /\ phase' = "execute" /\ failed'
      /\ plan' = Multi("unsupported", Silent, <<NotSupported>>)
      /\ UNCHANGED executed
  BY DEF RecoveryFails, Calling
<1>2. tools' = 0 /\ results' = << >>
  BY <1>1 DEF Inv, PlanFirst, Planning, executed
<1>3. PlanFirst' /\ GivenUp' /\ AnsweredMeansAll'
  BY <1>1, <1>2 DEF PlanFirst, Planning, GivenUp, AnsweredMeansAll
<1>4. results' \in Seq({})
  BY <1>2
<1> QED
  BY <1>3, <1>4 DEF Inv

---------------------------------------------------------------------------
(* What a failed planning gives the executor. *)
LEMMA GivenUpPlan ==
  ASSUME plan = Multi("unsupported", Silent, <<NotSupported>>)
  PROVE  /\ plan.intent = "unsupported" /\ Len(plan.subplans) = 1
         /\ plan.subplans[1].source = "unsupported"
  BY DEF Multi, NotSupported, Subplan

LEMMA RaisesStep ==
  ASSUME Inv, ExecutionRaises
  PROVE  Inv'
<1>1. /\ phase = "execute" /\ phase' = "raised"
      /\ UNCHANGED <<planned, executed>>
  BY DEF ExecutionRaises, Executing, AtSubplan
<1>2. PlanFirst' /\ GivenUp' /\ AnsweredMeansAll'
  BY <1>1 DEF Inv, PlanFirst, Planning, GivenUp, AnsweredMeansAll, planned, executed
<1>3. (\E S : results \in Seq(S))'
  BY <1>1 DEF Inv, executed
<1> QED
  BY <1>2, <1>3 DEF Inv

LEMMA ReconcilesStep ==
  ASSUME Inv, Reconciles
  PROVE  Inv'
<1>1. /\ phase = "execute" /\ phase' = "done" /\ plan.intent = "reconciliation"
      /\ UNCHANGED <<planned, results>>
  BY DEF Reconciles, Executing, Ends
<1>2. ~failed' /\ plan'.intent = "reconciliation"
  BY <1>1, GivenUpPlan DEF Inv, GivenUp, planned
<1>3. PlanFirst' /\ GivenUp' /\ AnsweredMeansAll'
  BY <1>1, <1>2 DEF PlanFirst, Planning, GivenUp, AnsweredMeansAll
<1>4. (\E S : results \in Seq(S))'
  BY <1>1 DEF Inv
<1> QED
  BY <1>3, <1>4 DEF Inv

(* A subplan adds one result; of a planning that failed, a refusal. *)
LEMMA RunsStep ==
  ASSUME Inv, RunsSubplan
  PROVE  Inv'
<1> DEFINE p == Ground(Next1)
<1>1. /\ phase = "execute" /\ phase' = "execute" /\ UNCHANGED planned
      /\ Len(results) < Len(plan.subplans)
  BY DEF RunsSubplan, Executing, AtSubplan
<1>2. PICK r : /\ results' = Append(results, r)
               /\ \/ r = Result(p.source, "none", RefusedAs(p)) /\ UNCHANGED tools
                  \/ TRUE \in GateAnswers(p)
  BY DEF RunsSubplan
<1>3. PICK S : results \in Seq(S)
  BY DEF Inv
<1>4. results \in Seq(S \cup {r})
  BY <1>3
<1>5. /\ results' \in Seq(S \cup {r})
      /\ Len(results') = Len(results) + 1
      /\ \A i \in 1..Len(results) : results'[i] = results[i]
      /\ results'[Len(results) + 1] = r
  BY <1>2, <1>4, AppendProperties
<1>6. GivenUp'
  <2> SUFFICES ASSUME failed' PROVE GivenUp'
    BY DEF GivenUp
  <2>1. /\ failed /\ plan' = plan /\ plan = Multi("unsupported", Silent, <<NotSupported>>)
        /\ tools = 0
        /\ \A i \in DOMAIN results : results[i].disposition = "error"
    BY <1>1 DEF planned, Inv, GivenUp
  <2>2. Len(results) = 0
    BY <1>1, <1>4, <2>1, GivenUpPlan, LenProperties
  <2>3. p.source = "unsupported"
    BY <2>1, <2>2, GivenUpPlan DEF Next1, Ground
  <2>4. r = Result(p.source, "none", RefusedAs(p)) /\ tools' = 0
    BY <1>2, <2>1, <2>3 DEF GateAnswers, Beyond
  <2>5. r.disposition = "error"
    BY <2>1, <2>4 DEF Result, RefusedAs
  <2>6. \A i \in DOMAIN results' : results'[i].disposition = "error"
    BY <1>5, <2>2, <2>5, LenProperties
  <2> QED
    BY <1>1, <2>1, <2>4, <2>6 DEF GivenUp
<1>7. PlanFirst' /\ AnsweredMeansAll'
  BY <1>1 DEF PlanFirst, Planning, AnsweredMeansAll
<1> QED
  BY <1>5, <1>6, <1>7 DEF Inv

(* "answered" is said of results that are all answered, an error of one refusal. *)
LEMMA OverallShape ==
  ASSUME NEW S, results \in Seq(S)
  PROVE  /\ Overall = "answered" => \A i \in DOMAIN results : results[i].disposition = "answered"
         /\ Len(results) = 1 /\ results[1].disposition = "error" => Overall = "error"
<1> DEFINE answered == {i \in DOMAIN results : results[i].disposition = "answered"}
<1>1. Overall = CASE answered = DOMAIN results -> "answered"
                  [] answered # {} /\ answered # DOMAIN results -> "partially_answered"
                  [] OTHER -> results[1].disposition
  BY DEF Overall
<1>2. DOMAIN results = 1..Len(results) /\ Len(results) \in Nat
  BY LenProperties
<1>3. CASE answered = DOMAIN results
  <2>1. Overall = "answered" /\ \A i \in DOMAIN results : results[i].disposition = "answered"
    BY <1>1, <1>3
  <2> QED
    BY <1>2, <2>1
<1>4. CASE answered # {} /\ answered # DOMAIN results
  <2>1. Overall = "partially_answered"
    BY <1>1, <1>4
  <2>2. ~(Len(results) = 1 /\ results[1].disposition = "error")
    BY <1>2, <1>4
  <2> QED
    BY <2>1, <2>2
<1>5. CASE answered = {} /\ answered # DOMAIN results
  <2>1. Overall = results[1].disposition
    BY <1>1, <1>5
  <2>2. 1 \in DOMAIN results
    BY <1>2, <1>5
  <2>3. results[1].disposition # "answered"
    BY <2>2, <1>5
  <2> QED
    BY <2>1, <2>3
<1> QED
  BY <1>3, <1>4, <1>5

LEMMA SynthesizesStep ==
  ASSUME Inv, Synthesizes
  PROVE  Inv'
<1>1. /\ phase = "execute" /\ phase' = "done" /\ disposition' = Overall
      /\ Len(results) = Len(plan.subplans)
      /\ UNCHANGED <<planned, results, tools>>
  BY DEF Synthesizes, Executing, AtSubplan, Ends
<1>2. PICK S : results \in Seq(S)
  BY DEF Inv
<1>3. AnsweredMeansAll'
  BY <1>1, <1>2, OverallShape DEF AnsweredMeansAll, planned
<1>4. GivenUp'
  <2> SUFFICES ASSUME failed' PROVE GivenUp'
    BY DEF GivenUp
  <2>1. /\ plan' = plan /\ plan = Multi("unsupported", Silent, <<NotSupported>>) /\ tools = 0
        /\ \A i \in DOMAIN results : results[i].disposition = "error"
    BY <1>1 DEF planned, Inv, GivenUp
  <2>2. Len(results) = 1
    BY <1>1, <2>1, GivenUpPlan
  <2>3. results[1].disposition = "error"
    BY <1>2, <2>1, <2>2, LenProperties
  <2> QED
    BY <1>1, <1>2, <2>1, <2>2, <2>3, OverallShape DEF GivenUp
<1>5. PlanFirst'
  BY <1>1 DEF PlanFirst, Planning
<1> QED
  BY <1>1, <1>2, <1>3, <1>4, <1>5 DEF Inv

---------------------------------------------------------------------------
LEMMA InvStep == Inv /\ [Next]_vars => Inv'
<1> SUFFICES ASSUME Inv, [Next]_vars PROVE Inv'
  OBVIOUS
<1>1. CASE ResolvesContext
  BY <1>1, ResolvesStep
<1>2. CASE RecoveryFails
  BY <1>2, RecoveryFailsStep
<1>3. CASE RoutesByHeuristic \/ Finishes \/ CallRaises
  BY <1>3, PlanningStep DEF RoutesByHeuristic, Finishes, CallRaises, Calling, Planning
<1>4. CASE PlannerAnswers \/ RepairAnswers \/ EscalationAnswers \/ NoEscalation \/ Recovers
  <2>1. /\ phase \in Planning /\ phase' \in Planning
        /\ UNCHANGED <<failed, executed>>
    BY <1>4, Zenon DEF PlannerAnswers, RepairAnswers, EscalationAnswers, NoEscalation, Recovers,
              Calling, Returns, Planning
  <2> QED
    BY <2>1, PlanningStep
<1>5. CASE LanguageAnswers \/ DeltaAnswers
  <2>1. /\ phase \in Planning /\ phase' \in Planning
        /\ UNCHANGED <<failed, executed>>
    BY <1>5, Zenon DEF LanguageAnswers, DeltaAnswers, Calling, Returns, Planning
  <2> QED
    BY <2>1, PlanningStep
<1>6. CASE Reconciles
  BY <1>6, ReconcilesStep
<1>7. CASE ExecutionRaises
  BY <1>7, RaisesStep
<1>8. CASE RunsSubplan
  BY <1>8, RunsStep
<1>9. CASE Synthesizes
  BY <1>9, SynthesizesStep
<1>10. CASE UNCHANGED vars
  BY <1>10 DEF vars, asked, planned, executed, Inv, PlanFirst, GivenUp, AnsweredMeansAll
<1> QED
  BY <1>1, <1>2, <1>3, <1>4, <1>5, <1>6, <1>7, <1>8, <1>9, <1>10 DEF Next

(* Whatever the heuristics and the planning models return and however the tools
   fail: a turn called "answered" has a result for every subplan it planned and
   all of them answered, and a planner that never recovered ends in an error
   after no tool ran (_synthesize_multi_response, _unsupported_subresult). *)
THEOREM DispositionTrue == Spec => []DispositionIsTrue
<1>1. Inv => DispositionIsTrue
  BY DEF Inv, GivenUp, DispositionIsTrue, FailedPlanningIsAnError
<1> QED
  BY <1>1, InitInv, InvStep, PTL DEF Spec

---------------------------------------------------------------------------
(* What a subplan may come to, and a turn. *)
Dispositions == {"answered", "clarification_required", "unsupported", "error"}

(* One result for each subplan run, and a tool at most; the reconciliation runs
   none of its subplans. *)
RunTyped ==
  /\ \A i \in DOMAIN results : results[i].disposition \in Dispositions
  /\ phase \in Planning => results = << >> /\ tools = 0
  /\ phase = "execute" => /\ Len(results) <= Len(plan.subplans) /\ tools <= Len(results)
                          /\ plan.intent = "reconciliation" => results = << >>
  /\ tools \in Nat /\ tools <= 2 + Len(plan.subplans)
  /\ failed \in BOOLEAN
  /\ disposition \in {"none", "partially_answered"} \cup Dispositions

ExecutionInv == RunTyped /\ PerStoreyStaysPerStorey

LEMMA ExecutionInit == Init => ExecutionInv
<1> SUFFICES ASSUME Init PROVE ExecutionInv
  OBVIOUS
<1>1. results = << >> /\ tools = 0 /\ failed \in BOOLEAN /\ phase = "context"
      /\ disposition = "none" /\ Len(plan.subplans) = 0
  BY DEF Init, NoPlan, Multi
<1> QED
  BY <1>1 DEF ExecutionInv, RunTyped, PerStoreyStaysPerStorey, Planning

LEMMA PlanLength ==
  ASSUME NEW multi \in MultiQueryPlan \cup {NoPlan}
  PROVE  Len(multi.subplans) \in Nat
<1>1. CASE multi \in MultiQueryPlan
  <2>1. multi.subplans \in Seq(QueryPlan)
    BY <1>1 DEF MultiQueryPlan
  <2> QED
    BY <2>1, LenProperties
<1>2. CASE multi = NoPlan
  BY <1>2 DEF NoPlan, Multi
<1> QED
  BY <1>1, <1>2

(* Until there is a plan to run, nothing has run. *)
LEMMA ExecutionPlanning ==
  ASSUME ExecutionInv, PlanInv, PlanInv', phase \in Planning,
         failed' \in BOOLEAN, UNCHANGED <<results, tools>>,
         disposition' \in {"none", "partially_answered"} \cup Dispositions
  PROVE  ExecutionInv'
<1>1. results = << >> /\ results' = << >> /\ tools' = 0
  BY DEF ExecutionInv, RunTyped
<1>2. Len(plan.subplans)' \in Nat
  BY PlanLength DEF PlanInv, PlanTyped
<1>3. RunTyped'
  BY <1>1, <1>2 DEF RunTyped
<1>4. PerStoreyStaysPerStorey'
  BY <1>1 DEF PerStoreyStaysPerStorey
<1> QED
  BY <1>3, <1>4 DEF ExecutionInv

LEMMA ResultTyped ==
  ASSUME NEW p \in QueryPlan, TRUE \in GateAnswers(p), NEW d \in Outcomes(p)
  PROVE  d \in Dispositions
<1>1. p.source \in {"ifc", "pdf", "viewer_snapshot"}
  BY DEF QueryPlan, Sources, GateAnswers, Beyond
<1> QED
  BY <1>1 DEF Outcomes, IfcOutcomes, Dispositions

LEMMA RefusalTyped ==
  ASSUME NEW p
  PROVE  RefusedAs(p) \in Dispositions \ {"answered"}
BY DEF RefusedAs, Dispositions

(* The gate lets an IFC subplan pass only for a supported class, and per storey is
   a grouped count. *)
LEMMA StoreyCounted ==
  ASSUME NEW subplans, PerStoreyPlan(subplans), NEW i \in DOMAIN subplans,
         subplans[i].source = "ifc", TRUE \in GateAnswers(subplans[i])
  PROVE  Returned(subplans[i]) = "grouped_counts"
<1>1. subplans[i].entity \in Supported
  BY Zenon DEF GateAnswers, Beyond
<1>2. subplans[i].entity # "none"
  BY <1>1, PlanConstants
<1>3. subplans[i].op = "group_by"
  BY <1>2 DEF PerStoreyPlan
<1> QED
  BY <1>3 DEF Returned

LEMMA ExecutionRuns ==
  ASSUME Inv, PlanInv, ExecutionInv, RunsSubplan
  PROVE  ExecutionInv'
<1> DEFINE n == Len(results)
           p == Ground(Next1)
<1>1. /\ phase = "execute" /\ plan.intent # "reconciliation"
      /\ UNCHANGED <<phase, question, plan, failed, disposition>>
      /\ n < Len(plan.subplans)
  BY DEF RunsSubplan, AtSubplan, Executing, asked, planned
<1>2. PICK r : /\ results' = Append(results, r)
               /\ \/ r = Result(p.source, "none", RefusedAs(p)) /\ UNCHANGED tools
                  \/ /\ TRUE \in GateAnswers(p) /\ tools' \in {tools, tools + 1}
                     /\ \E d \in Outcomes(p) : r = Result(p.source, Returned(p), d)
  BY DEF RunsSubplan
<1>3. PICK S : results \in Seq(S)
  BY DEF Inv
<1>4. n \in Nat /\ Len(plan.subplans) \in Nat /\ DOMAIN results = 1..n
  BY <1>3, LenProperties, PlanLength DEF PlanInv, PlanTyped
<1>5. /\ Len(results') = n + 1 /\ DOMAIN results' = 1..(n + 1)
      /\ \A i \in 1..n : results'[i] = results[i]
      /\ results'[n + 1] = r
  <2>1. results \in Seq(S \cup {r})
    BY <1>3
  <2>2. /\ results' \in Seq(S \cup {r}) /\ Len(results') = n + 1
        /\ \A i \in 1..n : results'[i] = results[i]
        /\ results'[n + 1] = r
    BY <1>2, <2>1, AppendProperties
  <2> QED
    BY <1>4, <2>2, LenProperties
<1>6. plan \in MultiQueryPlan /\ question \in Question /\ PlanContracted
  BY <1>1 DEF PlanInv, PlanTyped
<1>7. n + 1 \in DOMAIN plan.subplans /\ plan.subplans[n + 1] \in QueryPlan
  <2>1. plan.subplans \in Seq(QueryPlan)
    BY <1>6 DEF MultiQueryPlan
  <2> QED
    BY <1>1, <1>4, <2>1, LenProperties
<1>8. p \in QueryPlan
  BY <1>7, SelectionTyped DEF Ground, Next1
<1> HIDE DEF n
<1>9. r.disposition \in Dispositions
  <2> HIDE DEF p
  <2>1. CASE r = Result(p.source, "none", RefusedAs(p))
    BY <2>1, RefusalTyped DEF Result
  <2>2. ASSUME TRUE \in GateAnswers(p), NEW d \in Outcomes(p), r = Result(p.source, Returned(p), d)
        PROVE  r.disposition \in Dispositions
    BY <1>8, <2>2, ResultTyped DEF Result
  <2> QED
    BY <1>2, <2>1, <2>2
<1>10. RunTyped'
  <2>1. tools \in Nat /\ tools' \in {tools, tools + 1} /\ tools <= n
    BY <1>1, <1>2 DEF ExecutionInv, RunTyped, n
  <2>2. \A i \in DOMAIN results' : results'[i].disposition \in Dispositions
    BY <1>4, <1>5, <1>9 DEF ExecutionInv, RunTyped
  <2>3. phase' \notin Planning
    BY <1>1 DEF Planning
  <2>4. tools' \in Nat /\ tools' <= n + 1 /\ n + 1 <= Len(plan.subplans)
    BY <1>1, <1>4, <2>1 DEF n
  <2>5. tools' <= 2 + Len(plan.subplans)
    BY <1>4, <2>4
  <2>6. failed \in BOOLEAN
    BY Zenon DEF ExecutionInv, RunTyped
  <2>7. disposition' \in {"none", "partially_answered"} \cup Dispositions
    BY <1>1 DEF ExecutionInv, RunTyped
  <2> HIDE DEF p
  <2> QED
    BY <1>1, <1>5, <2>2, <2>3, <2>4, <2>5, <2>6, <2>7 DEF RunTyped
<1>11. PerStoreyStaysPerStorey'
  <2> SUFFICES ASSUME question.grouping, ~question.deictic, NEW i \in 1..(n + 1),
                      results'[i].source = "ifc", results'[i].disposition = "answered"
               PROVE  results'[i].shape = "grouped_counts"
    BY <1>1, <1>5 DEF PerStoreyStaysPerStorey
  <2>1. CASE i \in 1..n
    BY <1>4, <1>5, <2>1 DEF ExecutionInv, PerStoreyStaysPerStorey
  <2>2. CASE i = n + 1
    <3>1. p = plan.subplans[n + 1]
      BY DEF Ground, Next1, n
    <3>2. PerStoreyPlan(plan.subplans)
      BY <1>1, <1>6 DEF PlanContracted
    <3>3. r = results'[i]
      BY <1>5, <2>2
    <3> HIDE DEF p
    <3>4. r # Result(p.source, "none", RefusedAs(p))
      BY <3>3, RefusalTyped DEF Result
    <3>5. TRUE \in GateAnswers(p) /\ r.source = p.source /\ r.shape = Returned(p)
      <4>1. TRUE \in GateAnswers(p) /\ \E d \in Outcomes(p) : r = Result(p.source, Returned(p), d)
        BY <1>2, <3>4, Zenon
      <4>2. PICK d : r = Result(p.source, Returned(p), d)
        BY <4>1, Zenon
      <4>3. r.source = p.source /\ r.shape = Returned(p)
        BY <4>2 DEF Result
      <4> QED
        BY <4>1, <4>3, Zenon
    <3>6. Returned(plan.subplans[n + 1]) = "grouped_counts"
      BY <1>7, <3>1, <3>2, <3>3, <3>5, StoreyCounted
    <3> QED
      BY <3>1, <3>3, <3>5, <3>6
  <2> QED
    BY <1>4, <2>1, <2>2
<1> QED
  BY <1>10, <1>11 DEF ExecutionInv

LEMMA OverallTyped ==
  ASSUME NEW S, results \in Seq(S),
         \A i \in DOMAIN results : results[i].disposition \in Dispositions
  PROVE  Overall \in {"partially_answered"} \cup Dispositions
<1> DEFINE answered == {i \in DOMAIN results : results[i].disposition = "answered"}
<1>1. Overall = CASE answered = DOMAIN results -> "answered"
                  [] answered # {} /\ answered # DOMAIN results -> "partially_answered"
                  [] OTHER -> results[1].disposition
  BY DEF Overall
<1>2. CASE answered = DOMAIN results
  BY <1>1, <1>2 DEF Dispositions
<1>3. CASE answered # {} /\ answered # DOMAIN results
  BY <1>1, <1>3
<1>4. CASE answered = {} /\ answered # DOMAIN results
  <2>1. 1 \in DOMAIN results
    <3>1. DOMAIN results = 1..Len(results) /\ Len(results) \in Nat
      BY LenProperties
    <3>2. DOMAIN results # {}
      BY <1>4
    <3> HIDE DEF answered
    <3> QED
      BY ONLY <3>1, <3>2
  <2>2. Overall = results[1].disposition
    BY <1>1, <1>4
  <2> QED
    BY <2>1, <2>2
<1> QED
  BY <1>2, <1>3, <1>4

(* The steps that end a turn leave its results as they are. *)
LEMMA ExecutionEnds ==
  ASSUME Inv, PlanInv, ExecutionInv, Reconciles \/ ExecutionRaises \/ Synthesizes
  PROVE  ExecutionInv'
<1>1. /\ phase = "execute" /\ phase' \in {"done", "raised"}
      /\ UNCHANGED <<question, plan, failed, results>>
      /\ \/ tools' = tools
         \/ tools' = tools + 2 /\ plan.intent = "reconciliation"
      /\ disposition' \in {"answered", "error", disposition, Overall}
  BY DEF Reconciles, ExecutionRaises, Synthesizes, Ends, Executing, AtSubplan, asked,
         planned, executed
<1>2. Len(plan.subplans) \in Nat
  BY PlanLength DEF PlanInv, PlanTyped
<1>3. tools' \in Nat /\ tools' <= 2 + Len(plan.subplans)
  <2>1. /\ tools \in Nat /\ tools <= 2 + Len(plan.subplans)
        /\ plan.intent = "reconciliation" => tools <= Len(results) /\ results = << >>
    BY <1>1 DEF ExecutionInv, RunTyped
  <2>2. plan.intent = "reconciliation" => tools = 0
    BY <2>1
  <2> QED
    BY <1>1, <1>2, <2>1, <2>2
<1>4. disposition' \in {"none", "partially_answered"} \cup Dispositions
  <2>1. Overall \in {"partially_answered"} \cup Dispositions
    BY OverallTyped DEF Inv, ExecutionInv, RunTyped
  <2>2. {"answered", "error"} \subseteq Dispositions
    BY DEF Dispositions
  <2> QED
    BY <1>1, <2>1, <2>2 DEF ExecutionInv, RunTyped
<1>5. failed' \in BOOLEAN
  BY <1>1, Zenon DEF ExecutionInv, RunTyped
<1>6. RunTyped'
  BY <1>1, <1>3, <1>4, <1>5 DEF ExecutionInv, RunTyped, Planning
<1>7. PerStoreyStaysPerStorey'
  BY <1>1 DEF ExecutionInv, PerStoreyStaysPerStorey
<1> QED
  BY <1>6, <1>7 DEF ExecutionInv

LEMMA ExecutionStep ==
  ASSUME Inv, PlanInv, PlanInv', ExecutionInv, [Next]_vars
  PROVE  ExecutionInv'
<1>1. CASE RunsSubplan
  BY <1>1, ExecutionRuns
<1>2. CASE Reconciles \/ ExecutionRaises \/ Synthesizes
  BY <1>2, ExecutionEnds
<1>3. CASE ResolvesContext
  <2>1. /\ phase = "context" /\ UNCHANGED <<failed, results, tools>>
        /\ disposition' \in {"unsupported", "clarification_required", disposition}
    BY <1>3 DEF ResolvesContext, Ends, planned
  <2>2. failed' \in BOOLEAN
    BY <2>1, Zenon DEF ExecutionInv, RunTyped
  <2>3. disposition' \in {"none", "partially_answered"} \cup Dispositions
    BY <2>1 DEF ExecutionInv, RunTyped, Dispositions
  <2> QED
    BY <2>1, <2>2, <2>3, ExecutionPlanning DEF Planning
<1>4. CASE RecoveryFails
  <2>1. phase = "recover" /\ failed' = TRUE /\ UNCHANGED <<results, tools, disposition>>
    BY <1>4 DEF RecoveryFails, Calling, executed
  <2>2. failed' \in BOOLEAN
    BY <2>1, Zenon
  <2>3. disposition' \in {"none", "partially_answered"} \cup Dispositions
    BY <2>1 DEF ExecutionInv, RunTyped
  <2> QED
    BY <2>1, <2>2, <2>3, ExecutionPlanning DEF Planning
<1>5. CASE \/ RoutesByHeuristic \/ PlannerAnswers \/ RepairAnswers \/ EscalationAnswers
           \/ NoEscalation \/ LanguageAnswers \/ DeltaAnswers \/ CallRaises \/ Recovers \/ Finishes
  <2>1. phase \in Planning
    BY <1>5 DEF RoutesByHeuristic, PlannerAnswers, RepairAnswers, EscalationAnswers,
        NoEscalation, LanguageAnswers, DeltaAnswers, CallRaises, Recovers, Finishes, Calling,
        Planning
  <2>2. UNCHANGED <<failed, executed>>
    BY <1>5, Zenon DEF RoutesByHeuristic, PlannerAnswers, RepairAnswers, EscalationAnswers,
        NoEscalation, LanguageAnswers, DeltaAnswers, CallRaises, Recovers, Finishes, Returns
  <2>3. failed' \in BOOLEAN
    BY <2>2, Zenon DEF ExecutionInv, RunTyped
  <2>4. /\ UNCHANGED <<results, tools>>
        /\ disposition' \in {"none", "partially_answered"} \cup Dispositions
    BY <2>2 DEF executed, ExecutionInv, RunTyped
  <2> QED
    BY <2>1, <2>3, <2>4, ExecutionPlanning
<1>6. CASE UNCHANGED vars
  <2>1. UNCHANGED <<phase, question, plan, failed, results, tools, disposition>>
    BY <1>6 DEF vars
  <2> QED
    BY <2>1, Zenon DEF ExecutionInv, RunTyped, PerStoreyStaysPerStorey
<1> QED
  BY <1>1, <1>2, <1>3, <1>4, <1>5, <1>6, Zenon DEF Next

---------------------------------------------------------------------------
(* Everything the proofs keep of a turn. *)
TurnInv == Inv /\ PlanInv /\ CallsBounded /\ ExecutionInv

LEMMA TurnInvariant == Spec => []TurnInv
<1>1. Init => TurnInv
  BY InitInv, PlanInit, CallsInit, ExecutionInit DEF TurnInv
<1>2. TurnInv /\ [Next]_vars => TurnInv'
  BY InvStep, PlanStep, CallsStep, ExecutionStep DEF TurnInv
<1> QED
  BY <1>1, <1>2, PTL DEF Spec

(* Whatever the planning models return, and however their calls fail: the plan of a
   turn is one of the schema's, repaired, escalated or replaced; the turn makes no
   more than MaxAttempts calls of them, and it ends in a disposition the API knows
   (AgentService.invoke, _route, _execute_multi). *)
THEOREM TypeCorrect == Spec => []TypeOK
<1>1. TurnInv => TypeOK
  <2> SUFFICES ASSUME TurnInv PROVE TypeOK
    OBVIOUS
  <2>1. phase \in {"context", "route", "repair", "escalate", "language", "delta", "recover",
                   "finish", "execute", "done", "raised"}
    BY DEF TurnInv, Inv, PlanFirst, Planning
  <2>2. attempts \in 0..MaxAttempts /\ calls \in 0..attempts
    BY DEF TurnInv, CallsBounded, MaxAttempts
  <2>3. Len(plan.subplans) \in Nat
    BY PlanLength DEF TurnInv, PlanInv, PlanTyped
  <2>4. tools \in 0..2 + Len(plan.subplans)
    BY <2>3 DEF TurnInv, ExecutionInv, RunTyped
  <2>5. failed \in BOOLEAN
    BY Zenon DEF TurnInv, ExecutionInv, RunTyped
  <2>6. disposition \in {"none", "answered", "partially_answered", "clarification_required",
                         "unsupported", "error"}
    BY DEF TurnInv, ExecutionInv, RunTyped, Dispositions
  <2>7. question \in Question /\ storey \in BOOLEAN /\ plan \in MultiQueryPlan \cup {NoPlan}
    BY Zenon DEF TurnInv, PlanInv, PlanTyped
  <2> QED
    BY <2>1, <2>2, <2>4, <2>5, <2>6, <2>7, Zenon DEF TypeOK
<1> QED
  BY <1>1, TurnInvariant, PTL

(* A plan that the planner was heard out on is run only as validate_multi_plan
   passes it, although the delta, the canonicalization and the grouping change it
   after it was validated; and where a question is asked per storey no class is
   counted twice (_route, enforce_grouped_request_contract). *)
THEOREM ExecutedSound == Spec => []ExecutedIsSound
<1>1. TurnInv => ExecutedIsValid
  BY DEF TurnInv, PlanInv, PlanContracted, ExecutedIsValid
<1>2. TurnInv => EachTargetOnce
  <2> SUFFICES ASSUME PlanContracted PROVE EachTargetOnce
    BY DEF TurnInv, PlanInv
  <2> QED
    BY DEF PlanContracted, PerStoreyPlan, EachTargetOnce
<1> QED
  BY <1>1, <1>2, TurnInvariant, PTL DEF ExecutedIsSound

(* A question per storey that is not about the selected element is answered by the
   IFC tool with counts per storey and nothing else, whichever heuristic or model
   planned it (enforce_grouped_request_contract, capability_gate). *)
THEOREM PerStoreyKept == Spec => []PerStoreyStaysPerStorey
<1>1. TurnInv => PerStoreyStaysPerStorey
  BY DEF TurnInv, ExecutionInv
<1> QED
  BY <1>1, TurnInvariant, PTL
=============================================================================
