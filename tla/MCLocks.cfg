SPECIFICATION FairSpec
CONSTANTS
  NrThreads = 3
  NrIter = 4
  NrExec = 2
  ScRuns = TRUE
  NrFilter = 3
  NrFair = 2
INVARIANTS
  TypeOK
  MutualExclusion
  AllWorkSampled
  SlotsOwned
  NodesOwned
PROPERTIES
  Termination
  ImplementsFifo
\* The program stops when its threads are done, and Termination says that it
\* stops nowhere else.
CHECK_DEADLOCK FALSE
