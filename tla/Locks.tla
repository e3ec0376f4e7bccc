--------------------------------- MODULE Locks ---------------------------------
(***************************************************************************)
(* What the benchmarks of all locks have in common, whatever the locks are *)
(* built on and in both builds: the options of their drivers, and what     *)
(* every lock promises.  pc is "cs" between lock() and unlock(), and       *)
(* "unlock" where the release of the lock is a step of its own.            *)
(***************************************************************************)
EXTENDS Integers

CONSTANTS
  NrThreads,  \* --threads
  NrIter,     \* --iterations, for all threads together
  NrExec,     \* --executions
  ScRuns      \* --runs: scaling runs with 1, 2, .. NrThreads threads

ASSUME NrThreadsAssumption == NrThreads \in Nat \ {0}
ASSUME NrIterAssumption == NrIter \in Nat
ASSUME NrExecAssumption == NrExec \in Nat \ {0}
ASSUME ScRunsAssumption == ScRuns \in BOOLEAN

VARIABLE pc   \* label of the next statement of each thread

Inside(t) == pc[t] \in {"cs", "unlock"}

\* At most one thread is between the return of lock() and the statement of
\* unlock() that lets the next one in, over all executions and runs, whatever
\* other threads store when they initialise or reset the lock, and although what
\* a thread reads of the lock may be out of date in the acquire-release builds.
MutualExclusion == \A t, u \in DOMAIN pc : Inside(t) /\ Inside(u) => t = u
=============================================================================
