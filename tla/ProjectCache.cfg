SPECIFICATION Spec
CONSTANTS
  c1 = c1
  c2 = c2
  w1 = w1
  w2 = w2
  w3 = w3
  nobody = nobody
  Nobody = nobody
  Caller <- Callers
  Worker <- Workers
  Environment <- Anything
INVARIANTS
  TypeOK
  SharedSafely
PROPERTIES
  CallerReturns
CHECK_DEADLOCK FALSE
