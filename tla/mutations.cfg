SPECIFICATION Spec
CONSTANTS
  None = None
  Names = {n1, n2}
  Workspaces = {w1}
  Ids = {i1, i2, i3}
  Capacity = 2
  Scenario = {"rename", "dispose"}
  MaxRuns = 3
  MaxLost = 2
CHECK_DEADLOCK FALSE
INVARIANT PendingIsFound
PROPERTIES EverySettles OnceInOrder
