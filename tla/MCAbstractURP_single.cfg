CONSTANTS
  m1 = m1  m2 = m2  m3 = m3  s1 = s1  s2 = s2  c1 = c1  c2 = c2
  None = None
  Messages <- ThreeMessages
  StartCalls <- OneStart
  ShutdownCalls <- TwoShutdowns
  Results <- TwoResults
  HookCategories <- Validation
SPECIFICATION Spec
SYMMETRY Symmetry
CHECK_DEADLOCK FALSE
INVARIANTS
  AnswersWithinLifetime
  TerminatedIsQuiescent
  AnswersInOrder
  NoSilentDrop
  IdleMeansAnswered
PROPERTY ImplementsServer
