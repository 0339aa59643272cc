CONSTANTS
  m1 = m1  m2 = m2  m3 = m3  s1 = s1  s2 = s2  c1 = c1  c2 = c2
  None = None
  Messages <- TwoMessages
  StartCalls <- TwoStarts
  ShutdownCalls <- OneShutdown
  Results <- ResultOrNone
  HookCategories <- Unchanged
SPECIFICATION FairSpec
CHECK_DEADLOCK FALSE
INVARIANTS
  TypeOK
  TaskDoneBalanced AtMostOneRetraction StateAgreesWithEvents
PROPERTIES
  OneMessageAfterShutdown
  ShutdownReturns MessagesAreTaken ReadyAgain
