SPECIFICATION Spec
CONSTANTS
  q1 = q1
  q2 = q2
  duplex = duplex
  demo = demo
  c1 = c1
  c2 = c2
  none = none
  Request <- TwoQuestions
  Project <- TwoProjects
  Call <- TwoCalls
  None = none
  MaxSwitch = 2
  MaxStops = 2
CHECK_DEADLOCK FALSE
INVARIANTS
  TypeOK
  OneInFlight
  AnswersFitProject
  OneOutcome
  StatusesFollowCalls
PROPERTIES
  BusyEnds
