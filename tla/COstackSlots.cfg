\* A number of pairs other than MAX_NR_THREADS / 2: thread numbers of the
\* consumers are 2 and 3, the hazard pointers from 3 on are scanned.
SPECIFICATION Spec
CONSTANTS
  NrPairs = 2
  NrIter = 2
  NrExec = 1
  ScRuns = FALSE
  Heap = {n1, n2}
  MaxHazardPointers = 6
  ReclaimAt = 1
INVARIANT NoUseAfterFree
CHECK_DEADLOCK FALSE
