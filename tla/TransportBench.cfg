SPECIFICATION BenchSpec
CONSTANTS
  Demods = {p64, u85q}
  DefaultDemod = p64
  Outputs = {0, 1}
  DefaultOutput = 0
  Garbage = garbage
  Gap = 1
  FlashMayFail = FALSE
INVARIANT
  SelfNoiseLeavesLive
