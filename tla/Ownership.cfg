SPECIFICATION FairSpec
CONSTANTS
  Profiles = {normal, wide}
  DefaultProfile = normal
  HastyCommands = FALSE
  MaxCommands = 3
  MaxRequests = 1
INVARIANTS
  PictureSettles NothingHeld
PROPERTIES
  StatusEnds CalibrationEnds
