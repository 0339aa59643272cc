CONSTANTS
  t1 = t1  t2 = t2  t3 = t3  t4 = t4  f1 = f1  f2 = f2  h1 = h1
  None = None
  Names = {"echo"}
  Calls <- FourCalls
  Makes <- Assorted
  Factories <- TwoFactories
  Hooks <- OneHook
  WaitsFor <- Everybody
SPECIFICATION FairSpec
CHECK_DEADLOCK FALSE
INVARIANTS TypeOK FirstRegistrationStands PostHooksSeeTheAgent PreHooksPrecedeTheAgent
PROPERTIES CallsReturn ImplementsStore
