--------------------------- MODULE RelaxedTurnLocks ---------------------------
(***************************************************************************)
(* The two locks whose threads let each other go first, in their acquire-  *)
(* release builds.                                                         *)
(*                                                                         *)
(* peterson_lock_ar.cpp, for two threads: the flag is raised by a relaxed  *)
(* store, turn given away by an exchange with acquire and release          *)
(* semantics, and the spin loop acquires the other's flag and reads turn   *)
(* relaxed.                                                                *)
(*                                                                         *)
(* filter_lock_ar.cpp: levels are stored with release semantics, victims   *)
(* exchanged with acquire and release semantics, and the spin loop reads   *)
(* both relaxed.                                                           *)
(*                                                                         *)
(* A thread that is done goes on to the next execution, before whose       *)
(* barrier it resets the lock while others may still be running.  The one  *)
(* of the filter is a plain store in the middle of the exchanges of the    *)
(* others, which it keeps from learning of each other.                     *)
(***************************************************************************)
EXTENDS RelaxedBench

VARIABLES level, k   \* locals of the filter's lock() and higher_or_equal()

-----------------------------------------------------------------------------
(* peterson_lock_ar.cpp *)

turn == <<"turn", 0>>
FlagOf(t) == <<"flag", t>>
Other(t) == 1 - t

PetersonLabels == {"flag", "turn", "load", "check", "reset0", "reset1", "resetTurn"}

\* reset_peterson_lock, before the barrier
PetersonInit == BenchInit("flag", "reset0", [l \in {turn, FlagOf(0), FlagOf(1)} |-> 0])

\* lock(): flag0.store(1, relaxed)
RaiseFlag(t) ==
  /\ Within(t, "flag", "turn")
  /\ Store(t, FlagOf(t), 1, "relaxed")

\* Wrong variant of GiveTurn: a store, which does not read what it replaces.
GiveTurnByStore(t) ==
  /\ Within(t, "turn", "load")
  /\ Store(t, turn, Other(t), "release")

\* turn.exchange(1, acq_rel)
GiveTurn(t) ==
  /\ Within(t, "turn", "load")
  /\ Exchange(t, turn, Other(t), "acq_rel")

\* while (flag1.load(acquire) &&
LoadFlag(t) ==
  \E n \in Visible(t, FlagOf(Other(t))) :
    /\ Load(t, FlagOf(Other(t)), n, "acquire")
    /\ Within(t, "load", IF written[FlagOf(Other(t))][n].value = 1 THEN "check" ELSE "cs")

\* 1 == turn.load(relaxed)) yield()
CheckTurn(t) ==
  \E n \in Visible(t, turn) :
    /\ Load(t, turn, n, "relaxed")
    /\ Within(t, "check", IF written[turn][n].value = Other(t) THEN "load" ELSE "cs")

\* unlock(): flag0.store(0, release)
LowerFlag(t) ==
  /\ EndIteration(t, "unlock", "flag", "reset0")
  /\ Store(t, FlagOf(t), 0, "release")

\* reset_peterson_lock() of the next execution: three sequentially consistent
\* stores
ResetOf(t, here, there, l) ==
  /\ Within(t, here, there)
  /\ Store(t, l, 0, "release")

ResetPeterson(t) ==
  \/ ResetOf(t, "reset0", "reset1", FlagOf(0))
  \/ ResetOf(t, "reset1", "resetTurn", FlagOf(1))
  \/ ResetOf(t, "resetTurn", "done", turn)

PetersonStep(t) ==
  \/ RaiseFlag(t) \/ GiveTurn(t) \/ LoadFlag(t) \/ CheckTurn(t) \/ Section(t) \/ LowerFlag(t)
  \/ ResetPeterson(t)

PetersonNext == \E t \in Threads : PetersonStep(t)

PetersonSpec == PetersonInit /\ [][PetersonNext]_benchVars

PetersonTypeOK == BenchTypeOK(PetersonLabels)

-----------------------------------------------------------------------------
(* filter_lock_ar.cpp *)

locals == <<level, k>>

Level(t) == <<"levels", t>>
Victim(l) == <<"victims", l>>

FilterLabels == {"level", "victim", "scan", "check", "resetVictim"}

\* The first thread at or after i that the scan of t does not skip.
NextOther(t, i) == IF i = t THEN i + 1 ELSE i

\* Where lock() begins: with one thread there is no level to climb.
FilterEntry == IF NrThreads > 1 THEN "level" ELSE "cs"

\* reset_filter_lock of every thread, before the barrier
FilterInit ==
  /\ BenchInit(FilterEntry, "resetVictim",
       [l \in {Level(t) : t \in Threads} \cup {Victim(t) : t \in Threads} |-> 0])
  /\ level = [t \in Threads |-> 1]
  /\ k = [t \in Threads |-> 0]

\* lock(): levels[tid].v.store(level, release)
SetLevel(t) ==
  /\ Within(t, "level", "victim")
  /\ Store(t, Level(t), level[t], "release")
  /\ UNCHANGED locals

\* victims[level].v.exchange(tid, acq_rel), and the call of higher_or_equal
SetVictim(t) ==
  /\ Within(t, "victim", "scan")
  /\ Exchange(t, Victim(level[t]), t, "acq_rel")
  /\ k' = [k EXCEPT ![t] = NextOther(t, 0)]
  /\ UNCHANGED level

\* The spin loop of a level ends: on to the next level or out of lock().
Climb(t, here) ==
  /\ Within(t, here, IF level[t] + 1 < NrThreads THEN "level" ELSE "cs")
  /\ level' = [level EXCEPT ![t] = @ + 1]

\* higher_or_equal: levels[k].v.load(relaxed)
Scan(t) ==
  /\ pc[t] = "scan"
  /\ \E n \in Visible(t, Level(k[t])) :
       /\ Load(t, Level(k[t]), n, "relaxed")
       /\ IF written[Level(k[t])][n].value >= level[t]
          THEN Within(t, "scan", "check") /\ UNCHANGED locals
          ELSE /\ k' = [k EXCEPT ![t] = NextOther(t, k[t] + 1)]
               /\ IF k'[t] < NrThreads
                  THEN Within(t, "scan", "scan") /\ UNCHANGED level
                  ELSE Climb(t, "scan")

\* tid == victims[level].v.load(relaxed), and yield()
Check(t) ==
  /\ pc[t] = "check"
  /\ \E n \in Visible(t, Victim(level[t])) :
       /\ Load(t, Victim(level[t]), n, "relaxed")
       /\ IF written[Victim(level[t])][n].value = t
          THEN /\ Within(t, "check", "scan")
               /\ k' = [k EXCEPT ![t] = NextOther(t, 0)]
               /\ UNCHANGED level
          ELSE Climb(t, "check") /\ UNCHANGED k

Work(t) == Section(t) /\ UNCHANGED locals

\* unlock(): levels[tid].v.store(0, release)
LeaveLevels(t) ==
  /\ EndIteration(t, "unlock", FilterEntry, "resetVictim")
  /\ Store(t, Level(t), 0, "release")
  /\ level' = [level EXCEPT ![t] = 1]
  /\ UNCHANGED k

\* reset_filter_lock(tid) of the next execution.  The first of its two sequentially
\* consistent stores is left out: it repeats the 0 that unlock() stored in the
\* level of the thread, which others load relaxed and thus only as a value.
ResetFilter(t) ==
  /\ Within(t, "resetVictim", "done")
  /\ Store(t, Victim(t), 0, "release")
  /\ UNCHANGED locals

FilterStep(t) ==
  \/ SetLevel(t) \/ SetVictim(t) \/ Scan(t) \/ Check(t) \/ Work(t) \/ LeaveLevels(t) \/ ResetFilter(t)

FilterNext == \E t \in Threads : FilterStep(t)

filterVars == <<benchVars, locals>>

FilterSpec == FilterInit /\ [][FilterNext]_filterVars

FilterTypeOK ==
  /\ BenchTypeOK(FilterLabels)
  /\ level \in [Threads -> 1 .. NrThreads]
  /\ k \in [Threads -> 0 .. NrThreads]
=============================================================================
