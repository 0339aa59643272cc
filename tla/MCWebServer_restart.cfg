CONSTANTS
  i1 = i1  i2 = i2  i3 = i3  k1 = k1  k2 = k2
  None = None
  MaxAnswers = 1
  Inits <- ThreeInits
  Clients <- OneClient
SPECIFICATION Spec
CHECK_DEADLOCK FALSE
INVARIANT RestartReplaces
