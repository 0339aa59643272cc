CONSTANTS
  i1 = i1  i2 = i2  i3 = i3  k1 = k1  k2 = k2
  None = None
  MaxAnswers = 1
  Inits <- ThreeInits
  Clients <- TwoClients
SPECIFICATION FairSpec
CHECK_DEADLOCK FALSE
INVARIANTS
  TypeOK
  SoleAgent LivesFollowEachOther
  StreamedInOrder EventsConserved
PROPERTY ClientFollows
