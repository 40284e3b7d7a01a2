SPECIFICATION Spec
CHECK_DEADLOCK FALSE
CONSTANTS
  old = old
  new = new
  avx2 = avx2
  scalar = scalar
  cpu0 = cpu0
  cpu1 = cpu1
  None = None
  Partial = Partial
  Versions = {old, new}
  HasRows <- MCHasRows
  Backends = {avx2}
  Governors = {"powersave", "performance", "unavailable"}
  Cpus = {cpu0, cpu1}
  First = cpu0
  Machines <- MCMachines
  Suites <- MCSuites
  MaxRuns = 2
  MaxSignals = 1
  Elder = "baseline"
  ElderNumbers <- MCElderNumbers
  SharedLines <- MCSharedLines
  Curated = scalar
  Order <- MCOrder
  MaxPublications = 2
  MaxWithdrawals = 1
INVARIANTS
  SuccessIsOneRun
  PublishedIsOneRun
PROPERTIES
  GovernorReturned
  PublicationHeals
