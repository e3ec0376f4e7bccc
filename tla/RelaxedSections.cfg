\* The programs of MCRelaxed.cfg: the acquire-release build of the filter lock does
\* not order its critical sections.
SPECIFICATION Spec
CONSTANTS
  NrThreads = 3
  NrIter = 4
  NrExec = 1
  ScRuns = TRUE
  NrFair = 3
INVARIANT SectionsOrderedByFilter
CHECK_DEADLOCK FALSE
