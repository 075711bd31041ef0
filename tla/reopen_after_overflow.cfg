SPECIFICATION Spec
CONSTANTS
  None = None
  Clients = {c1, c2}
  Responsive = {}
  MaxClients = 2
  MaxPending = 2
  MaxJobs = 1
  ChunkCounts = {1}
  Scenario = {}
  MaxRev = 4
  MaxInc = 0
  MaxTxn = 0
  MaxRejects = 0
  PeerAcks <- NoAcks
  PeerNacks <- NoNacks
CHECK_DEADLOCK FALSE
PROPERTY ReopenIsFresh
