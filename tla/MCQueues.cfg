SPECIFICATION FairSpec
CONSTANTS
  NrPairs = 2
  NrIter = 3
  NrExec = 1
  ScRuns = TRUE
  Benchmarks = {"MSQueue", "MSQueueReuse", "BQueue", "BQueueBatched", "TasQueue", "MutexStack", "BoostSPSC", "BoostMPMC", "AdaPO", "COstack"}
  Heap = {n1, n2, n3, n4}
  CountTag = 100
  NrReusing = 1
  QueueSize = 8
  Batch = 4
  BatchIncrement = 2
  NrRing = 11
  Capacity = 2
  Stacked = {n1, n2}
INVARIANTS
  TypeOK
  FreedUnused
  CountsHold
  LeftBehind
PROPERTIES
  ImplementsQueue
  Termination
\* The program stops when its threads are done, and Termination says that it
\* stops nowhere else.
CHECK_DEADLOCK FALSE
