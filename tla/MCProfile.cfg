SPECIFICATION MCSpec
CONSTANTS
  Channels = {"A1", "B2"}
  Carried <- MCCarried
  Calibrated = {"xnarrow", "narrow", "wide"}
  Batches = 2
  NarrowAgree = 2
  Mishaps = {"filter", "restart", "timeout"}
  MaxOps = 2
  MaxChanges = 1
  MaxFaults = 1
INVARIANTS
  FilterOfProfile
  DeviationsAreLocal
PROPERTY
  Matches
