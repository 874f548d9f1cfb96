SPECIFICATION Spec
CONSTANTS
  h1 = h1
  h2 = h2
  i1 = i1
  i2 = i2
  th1 = th1
  demo = demo
  west = west
  none = none
  Thread <- OneThread
  Demo = demo
  None = none
  MemoryTurns = 2
  Project <- TwoProjects
  Handler <- TwoHandlers
  RequestId <- TwoIds
INVARIANTS
  TypeOK
  RecordIsOwn
  ThreadKeepsProject
  V1RunningIsWorkedOn
  V1CancelledWroteNothing
PROPERTIES
  OutcomeKept
  V1GetsOutcome
