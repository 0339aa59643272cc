CONSTANTS
  m1 = m1  m2 = m2  s1 = s1  s2 = s2  c1 = c1  c2 = c2
  None = None
  Messages <- TwoMessages
  StartCalls <- TwoStarts
  ShutdownCalls <- TwoShutdowns
  Results <- Outcomes
  HookCategories = {}
  MaxWords = 2
SPECIFICATION SDKSpec
CHECK_DEADLOCK FALSE
INVARIANTS SDKTypeOK AnswersItsOwnTask OutcomeOfItsOwnRun OneRunAtATime SingleLoop
