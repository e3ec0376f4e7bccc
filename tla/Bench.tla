-------------------------------- MODULE Bench --------------------------------
(***************************************************************************)
(* The benchmark driver: thread_f of benchmark/blocking/*/driver.cpp.      *)
(*                                                                         *)
(* Every thread goes through the same runs and executions, separated by    *)
(* calls of barrier_wait; in a scaling run only threads 0..run work.  The  *)
(* drivers differ in what they do between the barriers, so this module     *)
(* gives the common statements as operators over labels of pc, and each    *)
(* lock's module strings them together with its own.                       *)
(*                                                                         *)
(* The barrier is the abstract one: a call is an arrival and, later, a     *)
(* return once everyone has arrived (Barrier is shown to provide that).    *)
(***************************************************************************)
EXTENDS Locks, FiniteSets

VARIABLES
  ctr,        \* barrier counters
  run, exec,  \* loop variables of thread_f
  iter,       \* iterations left in the current call of *_sync
  samples,    \* indices of the sample array that enterSample has written
  worked      \* history: critical sections completed by all threads

driverVars == <<pc, ctr, run, exec, iter, samples, worked>>

Threads == 0 .. NrThreads - 1

\* nr_threads - nr_thrds_lower_bound
LastRun == IF ScRuns THEN NrThreads - 1 ELSE 0

DriverInit(first) ==
  /\ pc = [t \in Threads |-> first]
  /\ ctr = [t \in Threads |-> 0]
  /\ run = [t \in Threads |-> 0]
  /\ exec = [t \in Threads |-> 0]
  /\ iter = [t \in Threads |-> 0]
  /\ samples = {}
  /\ worked = 0

Participates(t) == ~ScRuns \/ t <= run[t]

\* Wrong variant of IterPerThread: the remainder of the split is dropped.
IterPerThreadEven(t) == NrIter \div (IF ScRuns THEN run[t] + 1 ELSE NrThreads)

\* iter_per_thread: an even split, the first threads taking the remainder.
IterPerThread(t) ==
  LET nr == IF ScRuns THEN run[t] + 1 ELSE NrThreads
  IN  NrIter \div nr + (IF t < NrIter % nr THEN 1 ELSE 0)

-----------------------------------------------------------------------------

Goto(t, here, there) == pc[t] = here /\ pc' = [pc EXCEPT ![t] = there]

\* barrier_wait(tid): its beginning ...
Arrive(t, here, there) ==
  /\ Goto(t, here, there)
  /\ ctr' = [ctr EXCEPT ![t] = @ + 1]
  /\ UNCHANGED <<run, exec, iter, samples, worked>>

\* ... and its return.
Released(t) == \A u \in Threads : ctr[u] >= ctr[t]

Pass(t, here, there) ==
  /\ Released(t)
  /\ Goto(t, here, there)
  /\ UNCHANGED <<ctr, run, exec, iter, samples, worked>>

\* The return of the barrier before the measured work and the entry of *_sync,
\* whose loop is not entered by a thread that has no iterations.
Start(t, here, work, idle) ==
  /\ Released(t)
  /\ iter' = [iter EXCEPT ![t] = IF Participates(t) THEN IterPerThread(t) ELSE 0]
  /\ Goto(t, here, IF iter'[t] > 0 THEN work ELSE idle)
  /\ UNCHANGED <<ctr, run, exec, samples, worked>>

\* A statement of the lock: the driver's own state stays.
Within(t, here, there) ==
  /\ Goto(t, here, there)
  /\ UNCHANGED <<ctr, run, exec, iter, samples, worked>>

\* The last statement of unlock() and the loop control of *_sync.
EndIteration(t, here, again, out) ==
  /\ Goto(t, here, IF iter[t] > 1 THEN again ELSE out)
  /\ iter' = [iter EXCEPT ![t] = @ - 1]
  /\ worked' = worked + 1
  /\ UNCHANGED <<ctr, run, exec, samples>>

\* enterSample(elapsed, tid, exec, run) stores at this index.
SampleIndex(t) == NrThreads * NrExec * run[t] + NrThreads * exec[t] + t

Record(t) == samples' = IF Participates(t) THEN samples \cup {SampleIndex(t)} ELSE samples

\* Wrong variant of NextExec: exec is not reset for the next run.
NextExecKeep(t, here, first) ==
  /\ Goto(t, here, IF exec[t] + 1 < NrExec \/ run[t] < LastRun THEN first ELSE "done")
  /\ exec' = [exec EXCEPT ![t] = @ + 1]
  /\ run' = [run EXCEPT ![t] = IF exec[t] + 1 < NrExec THEN @ ELSE @ + 1]
  /\ UNCHANGED <<ctr, iter, worked>>

\* Loop control of the two loops of thread_f; first is the first statement of
\* the inner one.
NextExec(t, here, first) ==
  /\ Goto(t, here, IF exec[t] + 1 < NrExec \/ run[t] < LastRun THEN first ELSE "done")
  /\ exec' = [exec EXCEPT ![t] = IF @ + 1 < NrExec THEN @ + 1 ELSE 0]
  /\ run' = [run EXCEPT ![t] = IF exec[t] + 1 < NrExec THEN @ ELSE @ + 1]
  /\ UNCHANGED <<ctr, iter, worked>>

AllDone == \A t \in Threads : pc[t] = "done"

-----------------------------------------------------------------------------

DriverTypeOK(labels) ==
  /\ pc \in [Threads -> labels \cup {"done"}]
  /\ ctr \in [Threads -> Nat]
  /\ run \in [Threads -> 0 .. LastRun + 1]
  /\ exec \in [Threads -> 0 .. NrExec - 1]
  /\ iter \in [Threads -> 0 .. NrIter]
  /\ samples \subseteq Nat
  /\ worked \in Nat

\* --iterations is the work of an execution, however many threads share it:
\* nothing is lost to the rounding of the split, in any run.
AllWorkDone == AllDone => worked = NrIter * NrExec * (LastRun + 1)

\* Every participant of every execution of every run finds its own sample:
\* enterSample never stores two of them at one index.
NoSampleLost ==
  AllDone =>
    Cardinality(samples) =
      Cardinality({s \in (0 .. LastRun) \X (0 .. NrExec - 1) \X Threads :
                     ~ScRuns \/ s[3] <= s[1]})
=============================================================================
