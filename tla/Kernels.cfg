SPECIFICATION Spec
CONSTANTS
  Base = 16
  M0 = 11
  M1 = 13
  W0 = 5
  W1 = 12
  Rounds = 3
  Isas = {"scalar", "avx2", "avx512", "neon"}
  Bases <- MCBases
  Keys <- MCKeys
  Lengths = {0, 1, 5, 8, 15, 16, 20, 29, 35}
  MaxBlocks = 35
  Untouched = Untouched
INVARIANTS
  OutputIsStream
  PreferredHasNoTail
PROPERTY
  KernelReturns
