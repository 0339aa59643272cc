CONSTANTS
  m1 = m1  m2 = m2  m3 = m3  s1 = s1  s2 = s2  c1 = c1  c2 = c2
  None = None
  Messages <- OneMessage
  StartCalls <- OneStart
  ShutdownCalls <- OneShutdown
  Results <- TwoResults
  HookCategories <- Validation
SPECIFICATION Spec
CHECK_DEADLOCK FALSE
PROPERTY RejectsWhileTerminating
