SPECIFICATION Spec
CONSTANTS
  doors = doors
  windows = windows
  total = total
  Subject <- Subjects
  Real <- RealCounts
  Total = total
  Mixed = 4
  Tag = 5
  Storey = 2
  Claims <- SubmittedClaims
  Narrated <- NarratedNumbers
  MaxNumbers = 1
  MaxIterations = 3
  MaxCalls <- CallsPerRound
INVARIANTS
  TypeOK
  OutcomeIsEarned
  VerifiedIsEarned
  ToolCallsCounted
PROPERTIES
  EndsInTime
CHECK_DEADLOCK FALSE
