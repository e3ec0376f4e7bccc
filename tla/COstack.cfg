SPECIFICATION Spec
CONSTANTS
  NrPairs = 2
  NrIter = 3
  NrExec = 1
  ScRuns = FALSE
  Heap = {n1, n2}
  MaxHazardPointers = 4
  ReclaimAt = 1
INVARIANTS
  NoUseAfterFree
  CountsRetired
  NodesAccounted
PROPERTIES
  ImplementsStack
SYMMETRY Addresses
\* The program stops when its threads are done.
CHECK_DEADLOCK FALSE
