SPECIFICATION MCSpec
CONSTANTS
  Demods = {p64, u85q}
  DefaultDemod = p64
  Outputs = {0, 1}
  DefaultOutput = 0
  Garbage = garbage
  Gap = 2
  FlashMayFail = TRUE
INVARIANTS
  LiveIsVerified SelectionIsLive NoProducerOnTop PictureComplete
PROPERTIES
  SpacedRestarts ImplementsLiveVideo RestartSettles
