SPECIFICATION FairSpec
CONSTANTS
  Calls = {c1, c2, c3}
  None = None
  Legacy = Legacy
CHECK_DEADLOCK FALSE
INVARIANTS TypeOK HolderKeepsLock
PROPERTIES Exclusive AbandonedIsTaken
