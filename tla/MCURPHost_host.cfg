CONSTANTS
  i1 = i1  i2 = i2  c1 = c1  g1 = g1
  None = None
  Starts <- TwoStarts
  Stops <- OneStop
  Getters <- OneGetter
  Timeouts = {0, 1}
  MaxMessages = 1
SPECIFICATION FairSpec
CHECK_DEADLOCK FALSE
INVARIANTS TypeOK KeepsItsAgent QueueConserves
PROPERTIES AgentsAreHosted ShutdownReturns
