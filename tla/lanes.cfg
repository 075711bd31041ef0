SPECIFICATION Spec
CONSTANTS
  None = None
  Clients = {c1,c2}
  Responsive = {}
  MaxClients = 1
  MaxPending = 5
  MaxJobs = 1
  ChunkCounts = {1,2}
  Scenario = {"visibility", "encoding", "reduction", "tombstone", "capture", "slow-fault"}
  MaxRev = 2
  MaxInc = 1
  MaxTxn = 0
  MaxRejects = 1
  PeerAcks <- NoAcks
  PeerNacks <- NoNacks
CHECK_DEADLOCK FALSE
INVARIANTS BaselineRetained RetentionBound CapacityHeld OneFlightPerLane BaselinesAgree PatchesFit HonestAnswersAccepted
