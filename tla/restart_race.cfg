SPECIFICATION Spec
CONSTANTS
  None = None
  Clients = {c1}
  Responsive = {}
  MaxClients = 2
  MaxPending = 5
  MaxJobs = 1
  ChunkCounts = {1}
  Scenario = {"restart"}
  MaxRev = 1
  MaxInc = 1
  MaxTxn = 0
  MaxRejects = 0
  PeerAcks <- NoAcks
  PeerNacks <- NoNacks
CHECK_DEADLOCK FALSE
INVARIANT HonestAckAccepted
