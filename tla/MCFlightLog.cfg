SPECIFICATION MCSpec
CONSTANTS
  FLOG_RECORD_BLOCKS = 3
  FLOG_BLOCK_ROOM = 2
  FLOG_QUEUE = 2
  FLOG_SNAP_SLOTS = 2
  Triggers = {1, 4}
  Erased = 31
  TornHead = FALSE
  MaxRecords = 5
  MaxDrops = 1
  MaxBoots = 2
  MaxRequests = 3
  MaxErases = 1
  MaxFaults = 1
INVARIANTS
  SessionInOrder NothingLost SnapshotsNumbered
PROPERTIES
  RingKeepsNewest ImportantOutlive
CHECK_DEADLOCK FALSE
