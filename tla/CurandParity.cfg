SPECIFICATION PSpec
CONSTANTS
  Base = 8
  CounterPeriod = 4096
  Key <- MCKey
  Zero = Zero
  Untouched = Untouched
  Philox <- MCPhilox
  Word <- MCWord
  RefillBlocks = 2
  PreferredBlocks = 2
  MaxRequest = 9
  Skips = {}
  Offsets = {0}
  WordsPerCase = 6
  Lists <- MCLists
  Libraries = {"documented", "offset_in_blocks", "sequence_below", "no_carry"}
INVARIANTS
  VerdictIsTrue
  CounterStandsForPosition
  SubUndoesAdd
