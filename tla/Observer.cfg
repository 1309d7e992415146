SPECIFICATION Spec
CONSTANTS
  Gains = {10, 20, 52, 83}
  Levels = {10, 83}
  Floor = 20
  ScanGain = 52
  Channels = {"A1", "A2"}
  BootChannel = "A1"
  Ops = {"retune", "afc", "dfilt", "scan"}
  MaxOps = 1
  MaxFades = 1
  MaxTrims = 1
  MaxBlasts = 1
INVARIANTS
  CoreFollows
  LearnsOneContext
PROPERTIES
  WritesAreCurrent
  MailboxServed
  GainFollows
