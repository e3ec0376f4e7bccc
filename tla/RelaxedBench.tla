----------------------------- MODULE RelaxedBench -----------------------------
(***************************************************************************)
(* One execution of a benchmark in its acquire-release build: *_sync, from *)
(* the barrier before it, behind which all threads know the whole memory,  *)
(* to the barrier after it.  Bench models the driver around it.            *)
(*                                                                         *)
(* What a critical section does to the data that the lock protects is one  *)
(* more store: useful_in stands for it in the benchmark.                   *)
(***************************************************************************)
EXTENDS Memory, Locks

VARIABLE left   \* iterations left

benchVars == <<memoryVars, pc, left>>

Threads == 0 .. NrThreads - 1

\* How many threads take part: fewer in a scaling run.
Participants == IF ScRuns THEN 1 .. NrThreads ELSE {NrThreads}

\* iter_per_thread of nr threads: an even split, the first ones taking the
\* remainder.
IterPerThread(t, nr) ==
  IF t < nr THEN NrIter \div nr + (IF t < NrIter % nr THEN 1 ELSE 0) ELSE 0

\* The data that the lock protects.
Payload == <<"payload", 0>>

BenchInit(first, out, initial) ==
  /\ \E nr \in Participants :
       /\ pc = [t \in Threads |-> IF IterPerThread(t, nr) > 0 THEN first ELSE out]
       /\ left = [t \in Threads |-> IterPerThread(t, nr)]
  /\ MemoryInit(Threads, [l \in DOMAIN initial \cup {Payload} |->
                            IF l = Payload THEN 0 ELSE initial[l]])

Goto(t, here, there) == pc[t] = here /\ pc' = [pc EXCEPT ![t] = there]

Within(t, here, there) == Goto(t, here, there) /\ UNCHANGED left

\* The critical section.
Section(t) ==
  /\ Within(t, "cs", "unlock")
  /\ Store(t, Payload, 0, "relaxed")

\* Wrong variant of EndIteration: one iteration too many.
EndIterationLate(t, here, again, out) ==
  /\ Goto(t, here, IF left[t] > 0 THEN again ELSE out)
  /\ left' = [left EXCEPT ![t] = @ - 1]

\* The last statement of unlock() and the loop control of *_sync.
EndIteration(t, here, again, out) ==
  /\ Goto(t, here, IF left[t] > 1 THEN again ELSE out)
  /\ left' = [left EXCEPT ![t] = @ - 1]

AllDone == \A t \in Threads : pc[t] = "done"

-----------------------------------------------------------------------------

BenchTypeOK(labels) ==
  /\ pc \in [Threads -> labels \cup {"cs", "unlock", "done"}]
  /\ left \in [Threads -> 0 .. NrIter]
  /\ \A t \in Threads : \A l \in Locations : seen[t][l] \in 1 .. Newest(l)
  /\ \A l \in Locations : written[l][Newest(l)].view \in [Locations -> Nat]

\* Every critical section happens before the next one: a thread that comes in
\* knows what all those before it did to the data.
SectionsOrdered ==
  \A t \in DOMAIN seen : pc[t] = "cs" => seen[t][Payload] = Newest(Payload)
=============================================================================
