SPECIFICATION Spec
CONSTANTS
  Workers = {w1, w2, w3, w4}
  Main = Main
  MaxRuns = 3
INVARIANTS
  NoJobOutlivesItsRun
PROPERTIES
  RunsEachJobOnce
  RunReturns
  DestructorReturns
