------------------------------ MODULE FilterLock ------------------------------
(***************************************************************************)
(* Peterson's filter lock (benchmark/blocking/FilterLock) with its driver. *)
(* Before the barrier of each execution thread tid resets levels[tid] and  *)
(* victims[tid].  The first is its own, but victims[tid] belongs to the    *)
(* threads that compete at level tid, which may still be running.  Every   *)
(* load and store of a shared variable is a step of its own.               *)
(***************************************************************************)
EXTENDS Bench

VARIABLES
  levels, victims,   \* the shared arrays
  level, k           \* locals of lock() and of higher_or_equal()

levelVars == <<levels, victims, level, k>>
filterVars == <<driverVars, levelVars>>

FilterLabels == {"resetLevel", "resetVictim", "arrive", "wait",
                 "level", "victim", "scan", "check", "cs", "end"}

Levels == 0 .. NrThreads - 1

\* The first thread at or after i that the scan of t does not skip.
NextOther(t, i) == IF i = t THEN i + 1 ELSE i

\* Where lock() begins: with one thread there is no level to climb.
FilterEntry == IF NrThreads > 1 THEN "level" ELSE "cs"

\* posix_memalign returns uninitialised memory.
FilterInit ==
  /\ DriverInit("resetLevel")
  /\ levels \in [Threads -> {0, NrThreads - 1}]
  /\ victims \in [Levels -> {0, NrThreads - 1}]
  /\ level = [t \in Threads |-> 1]
  /\ k = [t \in Threads |-> 0]

\* reset_filter_lock(tid): two stores
ResetLevel(t) ==
  /\ Within(t, "resetLevel", "resetVictim")
  /\ levels' = [levels EXCEPT ![t] = 0]
  /\ UNCHANGED <<victims, level, k>>

ResetVictim(t) ==
  /\ Within(t, "resetVictim", "arrive")
  /\ victims' = [victims EXCEPT ![t] = 0]
  /\ UNCHANGED <<levels, level, k>>

FilterArrive(t) == Arrive(t, "arrive", "wait") /\ UNCHANGED levelVars

FilterStart(t) ==
  /\ Start(t, "wait", FilterEntry, "end")
  /\ level' = [level EXCEPT ![t] = 1]
  /\ UNCHANGED <<levels, victims, k>>

\* lock(): levels[tid] = level
SetLevel(t) ==
  /\ Within(t, "level", "victim")
  /\ levels' = [levels EXCEPT ![t] = level[t]]
  /\ UNCHANGED <<victims, level, k>>

\* victims[level].exchange(tid), and the call of higher_or_equal
SetVictim(t) ==
  /\ Within(t, "victim", "scan")
  /\ victims' = [victims EXCEPT ![level[t]] = t]
  /\ k' = [k EXCEPT ![t] = NextOther(t, 0)]
  /\ UNCHANGED <<levels, level>>

\* The spin loop of a level ends: on to the next level or out of lock().
Climb(t, here) ==
  /\ Within(t, here, IF level[t] + 1 < NrThreads THEN "level" ELSE "cs")
  /\ level' = [level EXCEPT ![t] = @ + 1]

\* higher_or_equal: one load of levels[k]
Scan(t) ==
  /\ pc[t] = "scan"
  /\ IF levels[k[t]] >= level[t]
     THEN Within(t, "scan", "check") /\ UNCHANGED <<level, k>>
     ELSE /\ k' = [k EXCEPT ![t] = NextOther(t, k[t] + 1)]
          /\ IF k'[t] < NrThreads
             THEN Within(t, "scan", "scan") /\ UNCHANGED level
             ELSE Climb(t, "scan")
  /\ UNCHANGED <<levels, victims>>

\* tid == victims[level].load(), and yield()
Check(t) ==
  /\ pc[t] = "check"
  /\ IF victims[level[t]] = t
     THEN /\ Within(t, "check", "scan")
          /\ k' = [k EXCEPT ![t] = NextOther(t, 0)]
          /\ UNCHANGED level
     ELSE Climb(t, "check") /\ UNCHANGED k
  /\ UNCHANGED <<levels, victims>>

\* unlock(): levels[tid] = 0
LeaveLevels(t) ==
  /\ EndIteration(t, "cs", FilterEntry, "end")
  /\ levels' = [levels EXCEPT ![t] = 0]
  /\ level' = [level EXCEPT ![t] = 1]
  /\ UNCHANGED <<victims, k>>

FilterEndExec(t) ==
  /\ Record(t)
  /\ NextExec(t, "end", "resetLevel")
  /\ UNCHANGED levelVars

FilterStep(t) ==
  \/ ResetLevel(t) \/ ResetVictim(t) \/ FilterArrive(t) \/ FilterStart(t)
  \/ SetLevel(t) \/ SetVictim(t) \/ Scan(t) \/ Check(t) \/ LeaveLevels(t) \/ FilterEndExec(t)

FilterNext == \E t \in Threads : FilterStep(t)

FilterSpec == FilterInit /\ [][FilterNext]_filterVars

\* The operating system schedules every thread again and again.
FilterFairness == \A t \in Threads : WF_filterVars(FilterStep(t))

FairFilterSpec == FilterSpec /\ FilterFairness

-----------------------------------------------------------------------------

FilterTypeOK ==
  /\ DriverTypeOK(FilterLabels)
  /\ levels \in [Threads -> Levels]
  /\ victims \in [Levels -> Threads]
  /\ level \in [Threads -> 1 .. NrThreads]
  /\ k \in [Threads -> 0 .. NrThreads]

\* The threads that have passed level l.
Above(l) == {t \in Threads : pc[t] = "cs" \/ (pc[t] \in {"level", "victim", "scan", "check"} /\ level[t] > l)}

\* Why: a reset of victims[l] may let a thread slip through level l, but the
\* thread that resets has dropped out, so at most NrThreads - l threads are
\* above level l all the same.
LevelsFilter == \A l \in 1 .. NrThreads - 1 : Cardinality(Above(l)) <= NrThreads - l
=============================================================================
