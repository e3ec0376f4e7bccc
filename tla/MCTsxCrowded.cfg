\* A growing hash table of two places for two tasks.
SPECIFICATION FairSpecAll
CONSTANTS
  MinTask = 2
  MaxTask = 3
  NumOp = 2
  Benchmarks = {"Crowded"}
INVARIANT LookupsSucceed
CHECK_DEADLOCK FALSE
