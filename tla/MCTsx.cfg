SPECIFICATION FairSpecAll
CONSTANTS
  MinTask = 2
  MaxTask = 3
  NumOp = 2
  Benchmarks = {"Philosophers", "Elided", "Twice", "Table", "Grown", "Means"}
INVARIANTS
  TypeOKAll
  ForksHeld
  OrderedForks
  CallsAtomic
  KeysFound
  ClustersKept
PROPERTY Termination
\* The program stops when its tasks are done, and Termination says that it stops
\* nowhere else.
CHECK_DEADLOCK FALSE
