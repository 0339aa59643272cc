CONSTANTS
  w1 = w1  w2 = w2  d1 = d1  d2 = d2  d3 = d3  n1 = n1  n2 = n2  q1 = q1  q2 = q2
  None = None
  Workspaces <- OneWorkspace
  Ids <- TwoIds
  Names <- TwoNames
  Requests <- TwoRequests
SPECIFICATION Spec
CHECK_DEADLOCK FALSE
PROPERTY RestoredAfterReboot
