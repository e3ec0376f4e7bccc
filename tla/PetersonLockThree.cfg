SPECIFICATION PetersonSpec
CONSTANTS
  NrThreads = 3
  NrIter = 3
  NrExec = 1
  ScRuns = FALSE
INVARIANT MutualExclusion
CHECK_DEADLOCK FALSE
