\* The acquire-release build of Taubenfeld's lock on x86-64.
SPECIFICATION FairLockSpec
CONSTANTS
  NrThreads = 3
  NrIter = 5
  NrExec = 1
  ScRuns = FALSE
  Buffered = TRUE
INVARIANT NoSecondAccess
CONSTRAINT OneComesLate
CHECK_DEADLOCK FALSE
