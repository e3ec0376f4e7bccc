----------------------------- MODULE PetersonLock -----------------------------
(***************************************************************************)
(* Peterson's lock (benchmark/blocking/PetersonLock) with its driver.      *)
(* Every thread resets the lock before the barrier of each execution: a    *)
(* thread that is done, or that sits out a scaling run, clears flag0,      *)
(* flag1 and turn while the other may still be locking.  Every load and    *)
(* store of a shared variable is a step of its own.                        *)
(***************************************************************************)
EXTENDS Bench

VARIABLES
  flag,   \* flag[0] is flag0, flag[1] is flag1
  turn,
  passed  \* history: passed[t] counts the entries of the other side since t
          \* gave the turn away

flagVars == <<flag, turn, passed>>
petersonVars == <<driverVars, flagVars>>

PetersonLabels == {"reset0", "reset1", "resetTurn", "arrive", "wait",
                   "flag", "turn", "load", "check", "cs", "end"}

\* The branches of lock() and unlock(): thread 0 is one side, all others the
\* other one.
Side(t) == IF t = 0 THEN 0 ELSE 1
Other(t) == 1 - Side(t)

PetersonInit ==
  /\ DriverInit("reset0")
  /\ flag = [s \in 0 .. 1 |-> 0]
  /\ turn = 0
  /\ passed = [t \in Threads |-> 0]

\* reset_peterson_lock(): three stores
ResetFlag0(t) ==
  /\ Within(t, "reset0", "reset1")
  /\ flag' = [flag EXCEPT ![0] = 0]
  /\ UNCHANGED <<turn, passed>>

ResetFlag1(t) ==
  /\ Within(t, "reset1", "resetTurn")
  /\ flag' = [flag EXCEPT ![1] = 0]
  /\ UNCHANGED <<turn, passed>>

ResetTurn(t) ==
  /\ Within(t, "resetTurn", "arrive")
  /\ turn' = 0
  /\ UNCHANGED <<flag, passed>>

PetersonArrive(t) == Arrive(t, "arrive", "wait") /\ UNCHANGED flagVars

PetersonStart(t) == Start(t, "wait", "flag", "end") /\ UNCHANGED flagVars

\* lock(): flag0.store(1)
RaiseFlag(t) ==
  /\ Within(t, "flag", "turn")
  /\ flag' = [flag EXCEPT ![Side(t)] = 1]
  /\ UNCHANGED <<turn, passed>>

\* turn.exchange(1)
GiveTurn(t) ==
  /\ Within(t, "turn", "load")
  /\ turn' = Other(t)
  /\ passed' = [passed EXCEPT ![t] = 0]
  /\ UNCHANGED flag

\* If t leaves the spin loop by this load, it passes those that wait.
CountEntry(t, enters) ==
  passed' = [u \in Threads |->
               IF enters /\ Side(u) # Side(t) /\ pc[u] \in {"load", "check"}
               THEN passed[u] + 1 ELSE passed[u]]

\* flag1.load() of the spin loop
LoadFlag(t) ==
  /\ Within(t, "load", IF flag[Other(t)] = 1 THEN "check" ELSE "cs")
  /\ CountEntry(t, flag[Other(t)] = 0)
  /\ UNCHANGED <<flag, turn>>

\* 1 == turn.load() of the spin loop, and yield()
CheckTurn(t) ==
  /\ Within(t, "check", IF turn = Other(t) THEN "load" ELSE "cs")
  /\ CountEntry(t, turn # Other(t))
  /\ UNCHANGED <<flag, turn>>

\* unlock(): flag0.store(0)
LowerFlag(t) ==
  /\ EndIteration(t, "cs", "flag", "end")
  /\ flag' = [flag EXCEPT ![Side(t)] = 0]
  /\ UNCHANGED <<turn, passed>>

PetersonEndExec(t) ==
  /\ Record(t)
  /\ NextExec(t, "end", "reset0")
  /\ UNCHANGED flagVars

PetersonStep(t) ==
  \/ ResetFlag0(t) \/ ResetFlag1(t) \/ ResetTurn(t) \/ PetersonArrive(t)
  \/ PetersonStart(t) \/ RaiseFlag(t) \/ GiveTurn(t) \/ LoadFlag(t) \/ CheckTurn(t)
  \/ LowerFlag(t) \/ PetersonEndExec(t)

PetersonNext == \E t \in Threads : PetersonStep(t)

PetersonSpec == PetersonInit /\ [][PetersonNext]_petersonVars

\* The operating system schedules every thread again and again.
PetersonFairness == \A t \in Threads : WF_petersonVars(PetersonStep(t))

FairPetersonSpec == PetersonSpec /\ PetersonFairness

-----------------------------------------------------------------------------

PetersonTypeOK ==
  /\ DriverTypeOK(PetersonLabels)
  /\ flag \in [0 .. 1 -> 0 .. 1]
  /\ turn \in 0 .. 1
  /\ passed \in [Threads -> Nat]

\* A waiting thread is overtaken at most once: once it has given the turn
\* away, the other side enters at most one more time before it does.
OvertakenOnce ==
  \A t \in Threads : pc[t] \in {"load", "check"} => passed[t] <= 1
=============================================================================
