SPECIFICATION Spec
CONSTANTS
  Key = {k1, k2}
  Zero = Zero
  Untouched = Untouched
  Philox <- MCPhilox
  Word <- MCWord
  CounterPeriod = 5
  RefillBlocks = 2
  PreferredBlocks = 2
  MaxRequest = 19
  Skips <- MCSkips
  Offsets <- MCOffsets
INVARIANTS
  TypeOK
  BufferIsStream
  BufferDrainedFirst
  OneRefillPerCall
  DiscardIsExact
  RestoreIsExact
PROPERTIES
  CallReturns
  ImplementsStream
