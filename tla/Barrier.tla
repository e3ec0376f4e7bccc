------------------------------- MODULE Barrier -------------------------------
(***************************************************************************)
(* common/barrier/barrier.cpp: a busy-waiting barrier.  Each thread counts *)
(* its own barrier_wait() calls in ctr[tid] and then polls the counters of *)
(* the other threads one after the other, one load per step.               *)
(*                                                                         *)
(* The counters are uint64_t; CtrMax stands for 2^64 - 1.                  *)
(***************************************************************************)
EXTENDS Integers

CONSTANTS
  NrThreads,  \* nr_threads given to barrier_init
  NrWaits,    \* barrier_wait() calls each thread makes (bounds the model)
  CtrMax      \* largest value of a counter

ASSUME NrThreadsAssumption == NrThreads \in Nat \ {0}
ASSUME NrWaitsAssumption == NrWaits \in Nat
\* The header's "146 years": no counter overflows while the program runs.
ASSUME CtrMaxAssumption == CtrMax \in Nat /\ NrWaits <= CtrMax

VARIABLES
  ctr,      \* ctr[t].ctr, the shared counters
  level,    \* my_level, local to barrier_wait
  thr,      \* loop variable, local to barrier_wait
  pc,       \* where thread t is: outside, or in which statement
  calls     \* history: the number of barrier_wait() calls t has made

barrierVars == <<ctr, level, thr, pc, calls>>

Threads == 0 .. NrThreads - 1

\* uint64_t increment.
Inc(c) == IF c = CtrMax THEN 0 ELSE c + 1

-----------------------------------------------------------------------------

\* barrier_init, called by main before any thread is created.
BarrierInit ==
  /\ ctr = [t \in Threads |-> 0]
  /\ level = [t \in Threads |-> 0]
  /\ thr = [t \in Threads |-> 0]
  /\ pc = [t \in Threads |-> "out"]
  /\ calls = [t \in Threads |-> 0]

\* Wrong variant of Count: the call is counted twice.
CountTwice(t) ==
  /\ pc[t] = "out"
  /\ calls[t] < NrWaits
  /\ ctr' = [ctr EXCEPT ![t] = @ + 2]
  /\ calls' = [calls EXCEPT ![t] = @ + 1]
  /\ pc' = [pc EXCEPT ![t] = "load"]
  /\ UNCHANGED <<level, thr>>

\* ctr[tid].ctr += 1
Count(t) ==
  /\ pc[t] = "out"
  /\ calls[t] < NrWaits
  /\ ctr' = [ctr EXCEPT ![t] = Inc(@)]
  /\ calls' = [calls EXCEPT ![t] = @ + 1]
  /\ pc' = [pc EXCEPT ![t] = "load"]
  /\ UNCHANGED <<level, thr>>

\* Wrong variant of Load: my_level is the count of the previous call.
LoadStale(t) ==
  /\ pc[t] = "load"
  /\ level' = [level EXCEPT ![t] = ctr[t] - 1]
  /\ thr' = [thr EXCEPT ![t] = 0]
  /\ pc' = [pc EXCEPT ![t] = "scan"]
  /\ UNCHANGED <<ctr, calls>>

\* uint64_t my_level = ctr[tid].ctr; thr = 0
Load(t) ==
  /\ pc[t] = "load"
  /\ level' = [level EXCEPT ![t] = ctr[t]]
  /\ thr' = [thr EXCEPT ![t] = 0]
  /\ pc' = [pc EXCEPT ![t] = "scan"]
  /\ UNCHANGED <<ctr, calls>>

\* Wrong variant of Scan: the loop stops one thread short.
ScanOneShort(t) ==
  /\ pc[t] = "scan"
  /\ ~(ctr[thr[t]] < level[t])
  /\ thr' = [thr EXCEPT ![t] = @ + 1]
  /\ pc' = [pc EXCEPT ![t] = IF thr[t] + 2 < NrThreads THEN "scan" ELSE "out"]
  /\ UNCHANGED <<ctr, level, calls>>

\* The last load of while (ctr[thr].ctr < my_level), the one that ends it;
\* the loads before it change nothing.
Scan(t) ==
  /\ pc[t] = "scan"
  /\ ~(ctr[thr[t]] < level[t])
  /\ thr' = [thr EXCEPT ![t] = @ + 1]
  /\ pc' = [pc EXCEPT ![t] = IF thr[t] + 1 < NrThreads THEN "scan" ELSE "out"]
  /\ UNCHANGED <<ctr, level, calls>>

Step(t) == Count(t) \/ Load(t) \/ Scan(t)

\* Every thread has made all its calls and returned from them.
AllDone == \A t \in Threads : pc[t] = "out" /\ calls[t] = NrWaits

Terminated == AllDone /\ UNCHANGED barrierVars

BarrierNext == (\E t \in Threads : Step(t)) \/ Terminated

BarrierSpec == BarrierInit /\ [][BarrierNext]_barrierVars

\* Each participant is an operating-system thread, which is scheduled again
\* and again while it can run: weak fairness of each thread, no more.
Fairness == \A t \in Threads : WF_barrierVars(Step(t))

FairBarrierSpec == BarrierSpec /\ Fairness

-----------------------------------------------------------------------------

BarrierTypeOK ==
  /\ ctr \in [Threads -> 0 .. CtrMax]
  /\ level \in [Threads -> 0 .. CtrMax]
  /\ thr \in [Threads -> 0 .. NrThreads]
  /\ pc \in [Threads -> {"out", "load", "scan"}]
  /\ calls \in [Threads -> 0 .. NrWaits]

\* Calls of t that have returned.
Returned(t) == IF pc[t] = "out" THEN calls[t] ELSE calls[t] - 1

\* "Busy-wait until all participating threads arrived at the barrier"
\* (barrier.h): a thread whose k-th barrier_wait() has returned finds every
\* other thread in or past its own k-th call, although each counter was read
\* at a different moment and may have moved since.
Separation == \A t, u \in Threads : Returned(t) <= calls[u]

\* The implementation provides what AbstractBarrier promises.
Abstract == INSTANCE AbstractBarrier WITH
              arrived <- calls, released <- [t \in Threads |-> Returned(t)]

\* Every step of the polling barrier is a step of the abstract one or leaves
\* it unchanged: nobody returns from a call too early.
ImplementsBarrier == Abstract!Spec

\* ... and nobody spins for ever: the polling barrier also lets every thread
\* go once all have arrived, under the fairness of its threads alone.
ImplementsFairBarrier == Abstract!FairSpec
=============================================================================
