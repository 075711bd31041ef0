SPECIFICATION Spec
CONSTANTS
  Procs = {p1, p2, p3}
  Former = Former
  None = None
  Crews <- MCCrews
SYMMETRY Symmetry
CHECK_DEADLOCK FALSE
INVARIANTS TypeOK OneOwnerOfTwo OneServer ServerIsRecorded
PROPERTY BindingsHold
