SPECIFICATION Spec
CONSTANTS
  q1 = q1
  q2 = q2
  duplex = duplex
  demo = demo
  c1 = c1
  c2 = c2
  none = none
  Request <- TwoQuestions
  Project <- TwoProjects
  Call <- OneCall
  None = none
  MaxSwitch = 1
  MaxStops = 2
CHECK_DEADLOCK FALSE
PROPERTIES
  StopsOnlyItsOwn
