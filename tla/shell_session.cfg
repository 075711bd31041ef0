SPECIFICATION FairSpec
CONSTANTS
  Keys = {A, B}
  None = None
  Modes = {"direct", "supervisor", "host"}
  MaxVer = 1
  MaxAttempts = 2
  MaxFaults = 3
  MaxMoves = 1
INVARIANTS TypeOK ShowsItsTarget LiveIsFresh StreamOrRetry
PROPERTIES NeverGoesBack CatchesUp
CHECK_DEADLOCK FALSE
