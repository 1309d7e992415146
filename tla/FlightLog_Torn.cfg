SPECIFICATION Spec
CONSTANTS
  FLOG_RECORD_BLOCKS = 3
  FLOG_BLOCK_ROOM = 1
  FLOG_QUEUE = 1
  FLOG_SNAP_SLOTS = 1
  Triggers = {1}
  Erased = 31
  TornHead = TRUE
  MaxRecords = 5
  MaxDrops = 0
  MaxBoots = 3
  MaxRequests = 0
  MaxErases = 0
  MaxFaults = 0
PROPERTY RingKeepsNewest
CHECK_DEADLOCK FALSE
