------------------------------ MODULE PairBench ------------------------------
(***************************************************************************)
(* The driver of the producer/consumer benchmarks: f_prod and f_cons of    *)
(* benchmark/nonblocking/*/driver.cpp.  Threads 0 .. NrPairs - 1 produce,  *)
(* the other NrPairs consume; all of them call the one barrier_wait of     *)
(* each execution.  As in Bench, the statements are operators over labels  *)
(* of pc, and the barrier is the abstract one.                             *)
(***************************************************************************)
EXTENDS Integers, FiniteSets

CONSTANTS
  NrPairs,    \* --threadpairs
  NrIter,     \* --iterations, for all producers together
  NrExec,     \* --executions
  ScRuns      \* --runs: scaling runs with 1, 2, .. NrPairs pairs

ASSUME NrPairsAssumption == NrPairs \in Nat \ {0}
ASSUME NrIterAssumption == NrIter \in Nat
ASSUME NrExecAssumption == NrExec \in Nat \ {0}
ASSUME ScRunsAssumption == ScRuns \in BOOLEAN

VARIABLES
  pc,         \* label of the next statement of each thread
  ctr,        \* barrier counters
  run, exec,  \* loop variables of f_prod and f_cons
  iter        \* iterations left in the current call of sync_*

driverVars == <<pc, ctr, run, exec, iter>>

Producers == 0 .. NrPairs - 1
Consumers == NrPairs .. 2 * NrPairs - 1
Threads == 0 .. 2 * NrPairs - 1

\* nr_runs - 1
LastRun == IF ScRuns THEN NrPairs - 1 ELSE 0

\* The number of a thread among those of its role.
Lane(t) == IF t \in Producers THEN t ELSE t - NrPairs

DriverInit(first) ==
  /\ pc = [t \in Threads |-> first]
  /\ ctr = [t \in Threads |-> 0]
  /\ run = [t \in Threads |-> 0]
  /\ exec = [t \in Threads |-> 0]
  /\ iter = [t \in Threads |-> 0]

Participates(t) == ~ScRuns \/ Lane(t) <= run[t]

\* iter_per_thread, with the number that decides who takes the remainder.
IterPerThread(t, number) ==
  LET nr == IF ScRuns THEN run[t] + 1 ELSE NrPairs
  IN  NrIter \div nr + (IF number < NrIter % nr THEN 1 ELSE 0)

-----------------------------------------------------------------------------

Goto(t, here, there) == pc[t] = here /\ pc' = [pc EXCEPT ![t] = there]

\* barrier_wait(tid): its beginning ...
Arrive(t, here, there) ==
  /\ Goto(t, here, there)
  /\ ctr' = [ctr EXCEPT ![t] = @ + 1]
  /\ UNCHANGED <<run, exec, iter>>

\* ... and its return, with the entry of sync_producer or sync_consumer.
Released(t) == \A u \in Threads : ctr[u] >= ctr[t]

Start(t, here, iterations, work, none, idle) ==
  /\ Released(t)
  /\ iter' = [iter EXCEPT ![t] = IF Participates(t) THEN iterations ELSE 0]
  /\ Goto(t, here, IF ~Participates(t) THEN idle
                   ELSE IF iterations > 0 THEN work ELSE none)
  /\ UNCHANGED <<ctr, run, exec>>

\* A statement of the data structure: the driver's own state stays.
Within(t, here, there) ==
  /\ Goto(t, here, there)
  /\ UNCHANGED <<ctr, run, exec, iter>>

\* The last statement of an operation and the loop control of sync_*.
EndIteration(t, here, again, out) ==
  /\ Goto(t, here, IF iter[t] > 1 THEN again ELSE out)
  /\ iter' = [iter EXCEPT ![t] = IF @ > 0 THEN @ - 1 ELSE 0]
  /\ UNCHANGED <<ctr, run, exec>>

\* Wrong variant of NextExec: exec is not reset for the next run.
NextExecKeep(t, here, first) ==
  /\ Goto(t, here, IF exec[t] + 1 < NrExec \/ run[t] < LastRun THEN first ELSE "done")
  /\ exec' = [exec EXCEPT ![t] = @ + 1]
  /\ run' = [run EXCEPT ![t] = IF exec[t] + 1 < NrExec THEN @ ELSE @ + 1]
  /\ UNCHANGED <<ctr, iter>>

\* Loop control of the two loops of f_prod and f_cons.  (The sample that
\* enterSample stores is left out, nothing depends on it.)
NextExec(t, here, first) ==
  /\ Goto(t, here, IF exec[t] + 1 < NrExec \/ run[t] < LastRun THEN first ELSE "done")
  /\ exec' = [exec EXCEPT ![t] = IF @ + 1 < NrExec THEN @ + 1 ELSE 0]
  /\ run' = [run EXCEPT ![t] = IF exec[t] + 1 < NrExec THEN @ ELSE @ + 1]
  /\ UNCHANGED <<ctr, iter>>

AllDone == \A t \in Threads : pc[t] = "done"

-----------------------------------------------------------------------------

DriverTypeOK(labels) ==
  /\ pc \in [Threads -> labels \cup {"done"}]
  /\ ctr \in [Threads -> Nat]
  /\ run \in [Threads -> 0 .. LastRun + 1]
  /\ exec \in [Threads -> 0 .. NrExec - 1]
  /\ iter \in [Threads -> 0 .. NrIter]
=============================================================================
