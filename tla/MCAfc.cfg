SPECIFICATION AfcSpec
CONSTANTS
  Channels = {"A1", "B2"}
  Carrier <- MCCarrier
  OffsetSign = 1
  PorchNoise = {1}
  Samples = 3
  MaxMisses = 1
  MaxMad = 3
  Deadband = 2
  MaxStep = 10
  MaxCorrections = 2
  RearmWindows = 4
  SignCheckMin = 6
  LostWindows = 2
  OffsetMax = 100
  RetuneSettle = 3
  MaxEvents = 2
  MaxFaults = 1
INVARIANTS
  AfcTypeOK
  EvidenceOfTuning
PROPERTIES
  LockIsCentred
  StepsConverge
  EventuallyCentred
