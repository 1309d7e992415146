SPECIFICATION Spec
CONSTANTS
  Rows = {0, 1, 2, 3, 4, 5}
  Home = {2, 3, 4, 5}
  Floor = 3
  Model <- MCModel
  Tables <- MCTables
  Signals <- MCSignals
  Noise <- MCNoise
  FoldAt = 6
  SatAt = 10
  Cloudy = {2, 3}
  Hold = 3
  UpGap = 2
  HeatWindow = 4
  FoldMemory = 5
  HeatDecay = 8
  MaxUpsets = 2
PROPERTIES
  NullsNeverRaise
