SPECIFICATION Spec
CONSTANTS
  Keys = {A}
  None = None
  Modes = {"supervisor"}
  MaxVer = 1
  MaxAttempts = 1
  MaxFaults = 1
  MaxMoves = 0
INVARIANT VerifiedIsLive
CHECK_DEADLOCK FALSE
