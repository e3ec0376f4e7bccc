-------------------------- MODULE DiningPhilosophers --------------------------
(***************************************************************************)
(* The dining philosophers (benchmark/tsx/DiningPhilosophers) with their   *)
(* driver, which seats Min_Task, then one more, and so on up to Max_Task   *)
(* of them at a table with as many forks.  The driver is the main task: it *)
(* lets the philosophers go one after the other, while the first already   *)
(* eat, and then waits for each of them.                                   *)
(***************************************************************************)
EXTENDS Integers, FiniteSets

CONSTANTS
  MinTask, MaxTask,  \* -n and -m
  NumOp              \* -o

ASSUME TasksAssumption == MinTask \in Nat /\ MaxTask \in Nat /\ 2 <= MinTask /\ MinTask <= MaxTask
ASSUME NumOpAssumption == NumOp \in Nat

VARIABLES
  n,          \* N_Task
  main,       \* "seat" and "clear", the two inner loops of the main task
  id,         \* their loop variable
  phil,       \* label of each philosopher
  first, second, quota,   \* locals of Philosopher
  available,  \* Available of each fork
  held        \* the forks each philosopher has

philVars == <<phil, first, second, quota>>
vars == <<n, main, id, philVars, available, held>>

Seats == 1 .. MaxTask
Forks == 1 .. n

\* A table for k philosophers, with the forks on it.
Seated(k) == [p \in Seats |-> IF p <= k THEN "setPID" ELSE "absent"]
Laid(k) == [f \in 1 .. k |-> TRUE]

Init ==
  /\ n = MinTask /\ main = "seat" /\ id = 1
  /\ phil = Seated(n) /\ available = Laid(n)
  /\ first = [p \in Seats |-> 0] /\ second = [p \in Seats |-> 0]
  /\ quota = [p \in Seats |-> 0]
  /\ held = [p \in Seats |-> {}]

-----------------------------------------------------------------------------

\* Wrong variant of ForksOf: everyone takes the fork on the same side first.
ForksOfSame(p) == <<p, IF p = n THEN 1 ELSE p + 1>>

\* The forks of philosopher p in the order of acquisition.
ForksOf(p) == IF (p + 1) % n # 1 THEN <<p, p + 1>> ELSE <<1, p>>

\* The rendezvous Set_PID
SetPID ==
  /\ main = "seat" /\ phil[id] = "setPID"
  /\ phil' = [phil EXCEPT ![id] = IF NumOp > 0 THEN "first" ELSE "finish"]
  /\ first' = [first EXCEPT ![id] = ForksOf(id)[1]]
  /\ second' = [second EXCEPT ![id] = ForksOf(id)[2]]
  /\ quota' = [quota EXCEPT ![id] = NumOp]
  /\ IF id < n THEN id' = id + 1 /\ main' = main ELSE id' = 1 /\ main' = "clear"
  /\ UNCHANGED <<n, available, held>>

\* Wrong variant of Acquire: the fork is not looked at.
AcquireBlindly(p, f, there) ==
  /\ available' = [available EXCEPT ![f] = FALSE]
  /\ held' = [held EXCEPT ![p] = @ \cup {f}]
  /\ phil' = [phil EXCEPT ![p] = there]
  /\ UNCHANGED <<n, main, id, first, second, quota>>

\* The call of Acquire that returns True; the others change nothing.
Acquire(p, f, there) ==
  /\ available[f]
  /\ available' = [available EXCEPT ![f] = FALSE]
  /\ held' = [held EXCEPT ![p] = @ \cup {f}]
  /\ phil' = [phil EXCEPT ![p] = there]
  /\ UNCHANGED <<n, main, id, first, second, quota>>

Release(p, f) ==
  /\ available' = [available EXCEPT ![f] = TRUE]
  /\ held' = [held EXCEPT ![p] = @ \ {f}]
  /\ UNCHANGED <<n, main, id, first, second>>

AcquireFirst(p) == phil[p] = "first" /\ Acquire(p, first[p], "second")
AcquireSecond(p) == phil[p] = "second" /\ Acquire(p, second[p], "releaseFirst")

ReleaseFirst(p) ==
  /\ phil[p] = "releaseFirst"
  /\ phil' = [phil EXCEPT ![p] = "releaseSecond"]
  /\ Release(p, first[p])
  /\ UNCHANGED quota

\* ... and the loop control
ReleaseSecond(p) ==
  /\ phil[p] = "releaseSecond"
  /\ phil' = [phil EXCEPT ![p] = IF quota[p] > 1 THEN "first" ELSE "finish"]
  /\ quota' = [quota EXCEPT ![p] = @ - 1]
  /\ Release(p, second[p])

Eat(p) == AcquireFirst(p) \/ AcquireSecond(p) \/ ReleaseFirst(p) \/ ReleaseSecond(p)

\* The rendezvous Finish_Meal; after the last one the forks are freed, and the
\* next table is laid.
FinishMeal ==
  /\ main = "clear" /\ phil[id] = "finish"
  /\ IF id < n
     THEN /\ id' = id + 1
          /\ phil' = [phil EXCEPT ![id] = "absent"]
          /\ UNCHANGED <<n, main, available>>
     ELSE /\ id' = 1
          /\ IF n < MaxTask
             THEN n' = n + 1 /\ main' = "seat" /\ phil' = Seated(n + 1) /\ available' = Laid(n + 1)
             ELSE /\ main' = "done"
                  /\ phil' = [phil EXCEPT ![id] = "absent"]
                  /\ UNCHANGED <<n, available>>
  /\ UNCHANGED <<first, second, quota, held>>

Main == SetPID \/ FinishMeal

Next == Main \/ \E p \in Seats : Eat(p)

Spec == Init /\ [][Next]_vars

\* The operating system schedules every task again and again.
FairSpec == Spec /\ WF_vars(Main) /\ \A p \in Seats : WF_vars(Eat(p))

-----------------------------------------------------------------------------

TypeOK ==
  /\ n \in MinTask .. MaxTask /\ main \in {"seat", "clear", "done"} /\ id \in Forks
  /\ phil \in [Seats -> {"absent", "setPID", "first", "second", "releaseFirst",
                         "releaseSecond", "finish"}]
  /\ first \in [Seats -> 0 .. MaxTask] /\ second \in [Seats -> 0 .. MaxTask]
  /\ quota \in [Seats -> 0 .. NumOp]
  /\ available \in [Forks -> BOOLEAN]
  /\ held \in [Seats -> SUBSET Forks]

\* A fork is in the hands of the one neighbour who took it, and of nobody when
\* it lies on the table, although forks are laid anew while philosophers wait.
ForksHeld ==
  /\ \A p, q \in Seats : p # q => held[p] \cap held[q] = {}
  /\ \A f \in Forks : available[f] <=> \A p \in Seats : f \notin held[p]
  /\ \A p \in Seats : phil[p] = "releaseFirst" => held[p] = {first[p], second[p]}

\* Philosophers who hold a fork wait for a fork of a higher number only, so that
\* they never wait for each other in a circle.
OrderedForks ==
  \A p \in Seats :
    phil[p] = "second" => held[p] = {first[p]} /\ first[p] < second[p]
=============================================================================
