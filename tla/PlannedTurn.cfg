\* Every planner output, heuristic and tool outcome of the MC module, in any mix.
SPECIFICATION Spec
CONSTANTS
  Entity <- Entities
  Supported <- SupportedEntities
  Plans <- PlannerOutputs
  Questions <- QuestionSet
INVARIANTS
  TypeOK
  ExecutedIsSound
  PerStoreyStaysPerStorey
  DispositionIsTrue
\* A turn ends.
CHECK_DEADLOCK FALSE
