SPECIFICATION Spec
CONSTANTS
  NrThreads = 3
  NrIter = 4
  NrExec = 1
  ScRuns = TRUE
  NrFair = 3
INVARIANTS
  TypeOK
  MutualExclusion
  SectionsOrderedByLock
  ItemsAsPut
  FencesSuffice
  WaitersFirst
\* The programs stop when their threads are done.
CHECK_DEADLOCK FALSE
