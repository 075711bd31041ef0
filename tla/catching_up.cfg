SPECIFICATION FairSpec
CONSTANTS
  None = None
  Clients = {c1,c2}
  Responsive = {c1}
  MaxClients = 2
  MaxPending = 5
  MaxJobs = 1
  ChunkCounts = {1}
  Scenario = {"visibility", "encoding", "restart", "start-failure", "sink-failure"}
  MaxRev = 1
  MaxInc = 1
  MaxTxn = 0
  MaxRejects = 1
  PeerAcks <- NoAcks
  PeerNacks <- NoNacks
  MaxMoves = 4
CHECK_DEADLOCK FALSE
PROPERTIES CatchesUp FaultedLaneEnds OpeningSettles
