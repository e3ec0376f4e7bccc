\* Two pairs, and an allocator that returns freed addresses again.
SPECIFICATION FairSpec
CONSTANTS
  NrPairs = 2
  NrIter = 3
  NrExec = 1
  ScRuns = TRUE
  Benchmarks = {"MSQueueReuse"}
  Heap = {n1, n2, n3}
  CountTag = 100
  NrReusing = 2
  QueueSize = 8
  Batch = 4
  BatchIncrement = 2
  NrRing = 11
  Capacity = 2
  Stacked = {n1, n2}
INVARIANT NoItemLost
CHECK_DEADLOCK FALSE
