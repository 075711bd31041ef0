SPECIFICATION Spec
CONSTANTS
  Procs = {p1, p2, p3}
  Former = Former
  None = None
  Crews <- OrdinaryCrews
SYMMETRY Symmetry
CHECK_DEADLOCK FALSE
INVARIANT OneOwner
