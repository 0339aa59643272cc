CONSTANTS
  w1 = w1  w2 = w2  d1 = d1  d2 = d2  d3 = d3  n1 = n1  n2 = n2  q1 = q1  q2 = q2
  None = None
  Workspaces <- TwoWorkspaces
  Ids <- ThreeIds
  Names <- TwoNames
  Requests <- TwoRequests
SPECIFICATION Spec
SYMMETRY Symmetry
CHECK_DEADLOCK FALSE
INVARIANTS TypeOK IdsUnique AcknowledgedIsSaved ListedIsResumable
