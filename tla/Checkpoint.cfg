SPECIFICATION Spec
CHECK_DEADLOCK FALSE
CONSTANTS
  WordCount = 5
  Radix = 3
  Key <- MCKey
  Zero = Zero
  Word <- MCWord
  Philox <- MCPhilox
  WriterBlocks = 1
  ReaderBlocks = 2
  Seeds <- MCSeeds
  Starts = {623}
  Skips = {6}
  Formats <- MCFormats
  MaxMoves = 2
  MaxSaves = 2
  MaxDamage = 1
PROPERTIES
  LoadResumes
  AllOrNothing
