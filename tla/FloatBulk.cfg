SPECIFICATION FSpec
CONSTANTS
  Key = {k1}
  Zero = 0
  Untouched = 99
  Philox <- MCPhilox
  Word <- MCWord
  FloatGrid = 32
  FloatDrop = 2
  DoubleGrid = 512
  DoubleDrop = 8
  CounterPeriod = 7
  RefillBlocks = 2
  PreferredBlocks = 1
  TileWords = 12
  MaxRequest = 12
  MaxFloats = 30
  Skips = {0, 1, 5}
  Offsets = {0}
INVARIANTS
  FullTileGoesDirect
PROPERTIES
  FloatsAreStream
  FloatsAreServed
