SPECIFICATION Spec
CONSTANTS
  None = None
  Clients = {c1}
  Responsive = {}
  MaxClients = 1
  MaxPending = 5
  MaxJobs = 1
  ChunkCounts = {1}
  Scenario = {"tombstone", "capture", "leave", "sink-failure", "shutdown", "start-failure", "restart", "visibility", "encoding", "reduction", "oversize", "source-invalid"}
  MaxRev = 1
  MaxInc = 1
  MaxTxn = 0
  MaxRejects = 1
  PeerAcks <- NoAcks
  PeerNacks <- NoNacks
CHECK_DEADLOCK FALSE
INVARIANTS TypeOK DetachIsReported
PROPERTIES MirrorSpec HonestNotAccused
