SPECIFICATION Safety
CONSTANTS
  Threads = {t1, t2}
  Rounds = {"7", "10"}
  DefaultRounds = "10"
  Machines <- MCMachines
  None = None
INVARIANT
  ConverterNeverDisagrees
