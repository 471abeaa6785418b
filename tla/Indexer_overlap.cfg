SPECIFICATION IndexerSpec
CONSTANTS
  MaxRotations = 1
  MaxOutages = 1
INVARIANT ArchivedIsGone
CHECK_DEADLOCK FALSE
