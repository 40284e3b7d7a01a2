SPECIFICATION Spec
CONSTANTS
  N = 2
  Threads = {h1, h2, h3}
  Nobody = Nobody
  Words = {4, 12}
  MaxRounds = 2
INVARIANTS
  StreamsAreDisjoint
  CountersAreTheSlots
  BytesWereFilled
  MpkiIsOfAllThatCount
PROPERTY
  RoundsForkAndJoin
