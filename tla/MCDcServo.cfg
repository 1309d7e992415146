SPECIFICATION Spec
CONSTANTS
  Rows = {"G83"}
  Stored <- MCStored
  TrueSlopes <- MCSlopes
  Jumps <- MCJumps
  Sigmas = {600, 2000}
  TrimMax = 192
  MaxUpsets = 2
INVARIANTS
  LearnedIsTrue
  BracketHoldsZero
PROPERTY
  Settles
