------------------------------ MODULE LockProofs ------------------------------
(***************************************************************************)
(* Locks for every number of threads, iterations and executions: the spin  *)
(* locks, Peterson's lock (its exclusion for at most two threads), the     *)
(* filter lock, the CLH queue lock, and the benchmarks of the libraries'   *)
(* mutexes and of protected objects.  What the driver's statements         *)
(* preserve is known from BenchProofs, so is the account of accesses and   *)
(* samples that each lock's statements keep.                               *)
(***************************************************************************)
EXTENDS SpinLock, PetersonLock, FilterLock, LibraryLocks, CLHQueueLock, BenchProofs,
        FiniteSetTheorems

Waits == {"wait"}

\* At most one thread is in the critical section.
Exclusive == \A t, u \in Threads : pc[t] = "cs" /\ pc[u] = "cs" => t = u

-----------------------------------------------------------------------------
(* The spin locks.  The flag is set whenever somebody is in the critical   *)
(* section (HolderLocks), also across the barriers.                        *)


SpinWork == {"test", "swap", "cs"}

HolderLocks == \A t \in Threads : pc[t] = "cs" => locked


SpinLockInv == locked \in BOOLEAN /\ HolderLocks /\ Exclusive

SpinIInv == DriverInv(SpinLabels, SpinWork, Waits) /\ SpinLockInv

\* lock() begins with a label of the work.
LEMMA SpinLockLabel == SpinEntry \in SpinLabels /\ SpinEntry \in SpinWork /\ SpinEntry # "cs"
  BY DEF SpinEntry, SpinLabels, SpinWork

\* The flag is static and starts out false.
LEMMA SpinInitIInv == SpinInit => SpinIInv
<1> SUFFICES ASSUME SpinInit
             PROVE  SpinIInv
  OBVIOUS
<1>1. DriverInv(SpinLabels, SpinWork, Waits)
  BY DriverInitInv DEF SpinInit, SpinLabels, SpinWork, Waits
<1>2. SpinLockInv
  BY DEF SpinInit, DriverInit, SpinLockInv, HolderLocks, Exclusive
<1>3. QED
  BY <1>1, <1>2 DEF SpinIInv

\* Nothing outside lock() and unlock() touches the flag or enters.
LEMMA SpinElsewhere ==
  ASSUME SpinLockInv, UNCHANGED locked, NEW t \in Threads, NEW there,
         there # "cs", pc \in [Threads -> SpinLabels \cup {"done"}],
         pc' = [pc EXCEPT ![t] = there]
  PROVE  SpinLockInv'
  BY DEF SpinLockInv, HolderLocks, Exclusive

\* Every statement preserves the invariant.
LEMMA SpinNextIInv == SpinIInv /\ [SpinNext]_spinVars => SpinIInv'
<1> SUFFICES ASSUME SpinIInv, [SpinNext]_spinVars
             PROVE  SpinIInv'
  OBVIOUS
<1> USE DEF SpinIInv
<1>1. pc \in [Threads -> SpinLabels \cup {"done"}]
  BY DEF DriverInv, DriverTypeOK
<1>2. ASSUME NEW t \in Threads, SpinArrive(t)
      PROVE  SpinIInv'
  <2>1. DriverInv(SpinLabels, SpinWork, Waits)'
    BY <1>2, ArriveInv DEF SpinArrive, SpinLabels, SpinWork, Waits
  <2>2. SpinLockInv'
    BY <1>1, <1>2, SpinElsewhere DEF SpinArrive, Arrive, Goto
  <2>3. QED
    BY <2>1, <2>2
<1>3. ASSUME NEW t \in Threads, SpinStart(t)
      PROVE  SpinIInv'
  <2>1. DriverInv(SpinLabels, SpinWork, Waits)'
    <3>1. SpinEntry \in SpinLabels /\ SpinEntry \notin Waits
      BY DEF SpinEntry, SpinLabels, Waits
    <3>2. Start(t, "wait", SpinEntry, "end")
      BY <1>3 DEF SpinStart
    <3>3. "end" \in SpinLabels /\ "end" \notin Waits /\ "end" \notin SpinWork
      BY DEF SpinLabels, SpinWork, Waits
    <3>4. QED
      BY <3>1, <3>2, <3>3, StartInv
  <2>2. SpinLockInv'
    <3>1. PICK there : there # "cs" /\ pc' = [pc EXCEPT ![t] = there]
      BY <1>3, SpinLockLabel DEF SpinStart, Start, Goto
    <3>2. QED
      BY <1>1, <1>3, <3>1, SpinElsewhere DEF SpinStart
  <2>3. QED
    BY <2>1, <2>2
<1>4. ASSUME NEW t \in Threads, Test(t)
      PROVE  SpinIInv'
  <2>1. DriverInv(SpinLabels, SpinWork, Waits)'
    BY <1>4, WithinInv DEF Test, SpinLabels, SpinWork, Waits
  <2>2. SpinLockInv'
    BY <1>1, <1>4, SpinElsewhere DEF Test, Within, Goto
  <2>3. QED
    BY <2>1, <2>2
<1>5. ASSUME NEW t \in Threads, Swap(t)
      PROVE  SpinIInv'
  <2>1. DriverInv(SpinLabels, SpinWork, Waits)'
    BY <1>5, WithinInv DEF Swap, SpinLabels, SpinWork, Waits
  <2>2. \A u \in Threads : pc[u] # "cs"
    BY <1>5 DEF Swap, SpinLockInv, HolderLocks
  <2>3. /\ locked' = TRUE
        /\ \A u \in Threads : u # t => pc'[u] = pc[u]
    BY <1>1, <1>5 DEF Swap, Within, Goto
  <2>4. SpinLockInv'
    BY <2>2, <2>3 DEF SpinLockInv, HolderLocks, Exclusive
  <2>5. QED
    BY <2>1, <2>4
<1>6. ASSUME NEW t \in Threads, Lose(t)
      PROVE  SpinIInv'
  <2>1. DriverInv(SpinLabels, SpinWork, Waits)'
    BY <1>6, WithinInv DEF Lose, SpinLabels, SpinWork, Waits
  <2>2. SpinLockInv'
    BY <1>1, <1>6, SpinElsewhere DEF Lose, Within, Goto
  <2>3. QED
    BY <2>1, <2>2
<1>7. ASSUME NEW t \in Threads, SpinUnlock(t)
      PROVE  SpinIInv'
  <2>1. DriverInv(SpinLabels, SpinWork, Waits)'
    <3>1. SpinEntry \in SpinLabels /\ SpinEntry \notin Waits
      BY DEF SpinEntry, SpinLabels, Waits
    <3>2. EndIteration(t, "cs", SpinEntry, "end")
      BY <1>7 DEF SpinUnlock
    <3>3. /\ "cs" \in SpinWork /\ "cs" \notin Waits
          /\ "end" \in SpinLabels /\ "end" \notin Waits /\ "end" \notin SpinWork
      BY DEF SpinLabels, SpinWork, Waits
    <3>4. QED
      BY <3>1, <3>2, <3>3, EndIterationInv
  <2>2. pc[t] = "cs" /\ pc'[t] # "cs" /\ locked' = FALSE
    BY <1>1, <1>7, SpinLockLabel DEF SpinUnlock, EndIteration, Goto
  <2>3. \A u \in Threads : u # t => pc[u] # "cs" /\ pc'[u] = pc[u]
    BY <1>1, <1>7, <2>2 DEF SpinUnlock, EndIteration, Goto, SpinLockInv, Exclusive
  <2>4. SpinLockInv'
    BY <2>2, <2>3 DEF SpinLockInv, HolderLocks, Exclusive
  <2>5. QED
    BY <2>1, <2>4
<1>8. ASSUME NEW t \in Threads, SpinEndExec(t)
      PROVE  SpinIInv'
  <2>1. DriverInv(SpinLabels, SpinWork, Waits)'
    <3>1. samples' \in SUBSET Nat
      BY <1>8, RecordNat DEF SpinEndExec, DriverInv
    <3>2. QED
      BY <1>8, <3>1, NextExecInv DEF SpinEndExec, SpinLabels, SpinWork, Waits
  <2>2. SpinLockInv'
    <3>1. PICK there : there # "cs" /\ pc' = [pc EXCEPT ![t] = there]
      BY <1>8 DEF SpinEndExec, NextExec, Goto
    <3>2. QED
      BY <1>1, <1>8, <3>1, SpinElsewhere DEF SpinEndExec
  <2>3. QED
    BY <2>1, <2>2
<1>9. CASE UNCHANGED spinVars
  BY <1>9 DEF spinVars, driverVars, DriverInv, DriverTypeOK, Counted, Separated,
              Returned, SpinLockInv, HolderLocks, Exclusive, LastRun
<1>10. QED
  BY <1>2, <1>3, <1>4, <1>5, <1>6, <1>7, <1>8, <1>9 DEF SpinNext, SpinStep

\* The inductive invariant holds of every behaviour.
THEOREM SpinInvariance == SpinSpec => []SpinIInv
  BY SpinInitIInv, SpinNextIInv, PTL DEF SpinSpec

\* The lock and the driver keep their types: run, exec and iter stay in their
\* ranges whatever the options are.
THEOREM SpinTypeCorrect == SpinSpec => []SpinTypeOK
<1>1. SpinIInv => SpinTypeOK
  BY DEF SpinIInv, DriverInv, SpinLockInv, SpinTypeOK
<1>2. QED
  BY <1>1, SpinInvariance, PTL

\* TASLock and TATASLock exclude, for any number of threads.
THEOREM SpinLockExcludes == SpinSpec => []MutualExclusion
<1>1. SpinIInv => MutualExclusion
  BY DEF SpinIInv, DriverInv, DriverTypeOK, SpinLabels,
         SpinLockInv, Exclusive, MutualExclusion, Inside
<1>2. QED
  BY <1>1, SpinInvariance, PTL

(* The account of the driver. *)

SpinBefore == {"arrive", "wait"}

SpinAccount == Account(SpinBefore, SpinWork, {})

\* It begins empty.
LEMMA SpinAccountInit == SpinInit => SpinAccount
  BY AccountInit DEF SpinInit, SpinAccount, Kinds, SpinBefore, SpinWork

\* Every statement keeps it.
LEMMA SpinAccountNext == SpinIInv /\ SpinAccount /\ [SpinNext]_spinVars => SpinAccount'
<1> SUFFICES ASSUME SpinIInv, SpinAccount, [SpinNext]_spinVars
             PROVE  SpinAccount'
  OBVIOUS
<1>1. Kinds(SpinBefore, SpinWork, {}) /\ DriverTypeOK(SpinLabels) /\ Counted(SpinWork)
  BY DEF Kinds, SpinBefore, SpinWork, SpinIInv, DriverInv
<1>2. ASSUME NEW t \in Threads, SpinStep(t)
      PROVE  DriverStep(t, SpinBefore, SpinWork, {})
  <2>1. CASE SpinArrive(t)
    BY <2>1, QuietStep DEF SpinArrive, SpinBefore, SpinWork
  <2>2. CASE SpinStart(t)
    <3>1. SpinEntry \in SpinWork
      BY DEF SpinEntry, SpinWork
    <3> QED
      BY <1>1, <2>2, <3>1, StartStep DEF SpinStart, SpinBefore, SpinWork
  <2>3. CASE Test(t) \/ Swap(t) \/ Lose(t)
    BY <2>3, QuietStep DEF Test, Swap, Lose, SpinBefore, SpinWork
  <2>4. CASE SpinUnlock(t)
    <3>1. SpinEntry \in SpinWork
      BY DEF SpinEntry, SpinWork
    <3> QED
      BY <1>1, <2>4, <3>1, EndIterationStep DEF SpinUnlock, SpinBefore, SpinWork
  <2>5. CASE SpinEndExec(t)
    BY <1>1, <2>5, NextExecStep DEF SpinEndExec, SpinBefore, SpinWork
  <2> QED
    BY <1>2, <2>1, <2>2, <2>3, <2>4, <2>5 DEF SpinStep
<1>3. CASE SpinNext
  BY <1>1, <1>2, <1>3, DriverStepAccount DEF SpinNext, SpinAccount
<1>4. CASE UNCHANGED spinVars
  BY <1>4, AccountStutters DEF SpinAccount, spinVars
<1> QED
  BY <1>3, <1>4

\* Under the spin locks, all --iterations of each execution of each run are done
\* and every participant's sample is there, for any split among any threads.
THEOREM SpinWorkSampled == SpinSpec => [](AllWorkDone /\ NoSampleLost)
<1>1. SpinIInv /\ SpinAccount => AllWorkDone /\ NoSampleLost
  BY AccountComplete DEF SpinIInv, DriverInv, SpinAccount
<1>2. SpinSpec => []SpinAccount
  BY SpinAccountInit, SpinAccountNext, SpinInvariance, PTL DEF SpinSpec
<1> QED
  BY <1>1, <1>2, SpinInvariance, PTL

-----------------------------------------------------------------------------
(* Peterson's lock.  Each thread resets it while the other may be inside.  *)
(* The resets are harmless because a thread that resets has left the       *)
(* execution the other one is in, and cannot enter the lock again before   *)
(* the other has left it too.  So a raised flag can be relied upon only by *)
(* a thread that is still in the same execution (FlagsUp).                 *)


PetersonWork == {"flag", "turn", "load", "check", "cs"}

PetersonLockTypes ==
  flag \in [0 .. 1 -> 0 .. 1] /\ turn \in 0 .. 1 /\ passed \in [Threads -> Nat]

PetersonTInv == DriverInv(PetersonLabels, PetersonWork, Waits) /\ PetersonLockTypes

\* u is in, or about to enter, the execution that t is in.
InPhase(u, t) == pc[u] \in PetersonWork \/ (pc[u] = "wait" /\ ctr[u] = ctr[t])

FlagsUp ==
  \A t, u \in Threads :
    t # u /\ pc[t] \in {"turn", "load", "check", "cs"} /\ InPhase(u, t) => flag[t] = 1

\* Whoever waits behind the holder has given the turn to it.
TurnGiven ==
  \A t, u \in Threads :
    t # u /\ pc[t] = "cs" /\ pc[u] \in {"load", "check"} => turn = t

\* A thread that overtook another one and waits again has given it the turn.
Overtaking ==
  \A t, u \in Threads :
    pc[t] \in {"load", "check"} =>
      /\ passed[t] \in 0 .. 1
      /\ t # u /\ passed[t] = 1 /\ pc[u] \in {"load", "check"} => turn = t


PetersonLockInv == FlagsUp /\ TurnGiven /\ Exclusive /\ Overtaking

PetersonIInv == PetersonTInv /\ PetersonLockInv

-----------------------------------------------------------------------------

\* Every statement keeps the types, whatever the number of threads.
LEMMA PetersonInitTInv == PetersonInit => PetersonTInv
<1> SUFFICES ASSUME PetersonInit
             PROVE  PetersonTInv
  OBVIOUS
<1>1. DriverInv(PetersonLabels, PetersonWork, Waits)
  BY DriverInitInv DEF PetersonInit, PetersonLabels, PetersonWork, Waits
<1>2. PetersonLockTypes
  BY DEF PetersonInit, PetersonLockTypes
<1>3. QED
  BY <1>1, <1>2 DEF PetersonTInv

\* ... and so does each step.
LEMMA PetersonNextTInv == PetersonTInv /\ [PetersonNext]_petersonVars => PetersonTInv'
<1> SUFFICES ASSUME PetersonTInv, [PetersonNext]_petersonVars
             PROVE  PetersonTInv'
  OBVIOUS
<1> USE DEF PetersonTInv
<1> DEFINE D == DriverInv(PetersonLabels, PetersonWork, Waits)
<1>1. ASSUME NEW t \in Threads,
             \/ ResetFlag0(t) \/ ResetFlag1(t) \/ ResetTurn(t)
             \/ RaiseFlag(t) \/ GiveTurn(t)
      PROVE  PetersonTInv'
  <2>1. D'
    <3>1. CASE ResetFlag0(t)
      BY <3>1, WithinInv DEF ResetFlag0, PetersonLabels, PetersonWork, Waits
    <3>2. CASE ResetFlag1(t)
      BY <3>2, WithinInv DEF ResetFlag1, PetersonLabels, PetersonWork, Waits
    <3>3. CASE ResetTurn(t)
      BY <3>3, WithinInv DEF ResetTurn, PetersonLabels, PetersonWork, Waits
    <3>4. CASE RaiseFlag(t)
      BY <3>4, WithinInv DEF RaiseFlag, PetersonLabels, PetersonWork, Waits
    <3>5. CASE GiveTurn(t)
      BY <3>5, WithinInv DEF GiveTurn, PetersonLabels, PetersonWork, Waits
    <3>6. QED
      BY <1>1, <3>1, <3>2, <3>3, <3>4, <3>5
  <2>2. PetersonLockTypes'
    BY <1>1 DEF ResetFlag0, ResetFlag1, ResetTurn, RaiseFlag, GiveTurn, PetersonLockTypes,
                Side, Other
  <2>3. QED
    BY <2>1, <2>2
<1>2. ASSUME NEW t \in Threads, PetersonArrive(t)
      PROVE  PetersonTInv'
  <2>1. D'
    BY <1>2, ArriveInv DEF PetersonArrive, PetersonLabels, PetersonWork, Waits
  <2>2. QED
    BY <1>2, <2>1 DEF PetersonArrive, flagVars, PetersonLockTypes
<1>3. ASSUME NEW t \in Threads, PetersonStart(t)
      PROVE  PetersonTInv'
  <2>1. D'
    BY <1>3, StartInv DEF PetersonStart, PetersonLabels, PetersonWork, Waits
  <2>2. QED
    BY <1>3, <2>1 DEF PetersonStart, flagVars, PetersonLockTypes
<1>4. ASSUME NEW t \in Threads, LoadFlag(t) \/ CheckTurn(t)
      PROVE  PetersonTInv'
  <2>1. D'
    <3>1. PICK here \in {"load", "check"}, there \in {"load", "check", "cs"} :
            Within(t, here, there)
      BY <1>4 DEF LoadFlag, CheckTurn
    <3>2. QED
      BY <3>1, WithinInv DEF PetersonLabels, PetersonWork, Waits
  <2>2. PetersonLockTypes'
    BY <1>4 DEF LoadFlag, CheckTurn, CountEntry, PetersonLockTypes
  <2>3. QED
    BY <2>1, <2>2
<1>5. ASSUME NEW t \in Threads, LowerFlag(t)
      PROVE  PetersonTInv'
  <2>1. D'
    <3>1. EndIteration(t, "cs", "flag", "end")
      BY <1>5 DEF LowerFlag
    <3>2. /\ "cs" \in PetersonWork /\ "flag" \in PetersonLabels /\ "end" \in PetersonLabels
          /\ "cs" \notin Waits /\ "flag" \notin Waits /\ "end" \notin Waits
          /\ "end" \notin PetersonWork
      BY DEF PetersonLabels, PetersonWork, Waits
    <3>3. QED
      BY <3>1, <3>2, EndIterationInv
  <2>2. PetersonLockTypes'
    BY <1>5 DEF LowerFlag, PetersonLockTypes, Side
  <2>3. QED
    BY <2>1, <2>2
<1>6. ASSUME NEW t \in Threads, PetersonEndExec(t)
      PROVE  PetersonTInv'
  <2>1. samples' \in SUBSET Nat
    BY <1>6, RecordNat DEF PetersonEndExec, DriverInv
  <2>2. D'
    BY <1>6, <2>1, NextExecInv DEF PetersonEndExec, PetersonLabels, PetersonWork, Waits
  <2>3. QED
    BY <1>6, <2>2 DEF PetersonEndExec, flagVars, PetersonLockTypes
<1>7. CASE UNCHANGED petersonVars
  BY <1>7 DEF petersonVars, driverVars, flagVars, PetersonLockTypes, DriverInv, DriverTypeOK,
              Counted, Separated, Returned
<1>8. QED
  BY <1>1, <1>2, <1>3, <1>4, <1>5, <1>6, <1>7 DEF PetersonNext, PetersonStep

\* The types and the driver's invariant hold of every behaviour.
THEOREM PetersonTypeInvariance == PetersonSpec => []PetersonTInv
  BY PetersonInitTInv, PetersonNextTInv, PTL DEF PetersonSpec

\* The lock and the driver keep their types, for any number of threads.
THEOREM PetersonTypeCorrect == PetersonSpec => []PetersonTypeOK
<1>1. PetersonTInv => PetersonTypeOK
  BY DEF PetersonTInv, DriverInv, PetersonLockTypes, PetersonTypeOK
<1>2. QED
  BY <1>1, PetersonTypeInvariance, PTL

-----------------------------------------------------------------------------

\* With at most two threads the sides are the threads.
LEMMA Sides ==
  ASSUME NrThreads <= 2
  PROVE  /\ \A t \in Threads : t \in 0 .. 1 /\ Side(t) = t /\ Other(t) = 1 - t
         /\ \A t, u \in Threads : t # u => Other(t) = u
<1>1. \A t \in Threads : t \in 0 .. 1
  BY NrThreadsAssumption DEF Threads
<1>2. QED
  BY <1>1 DEF Side, Other

\* Two threads at work are in the same execution.
LEMMA WorkTogether ==
  ASSUME PetersonTInv, NEW t \in Threads, NEW u \in Threads, pc[t] \in PetersonWork
  PROVE  /\ ctr[t] <= ctr[u] /\ ctr[t] \in Nat /\ ctr[u] \in Nat
         /\ pc[u] # "wait" => ctr[u] <= ctr[t]
<1>1. pc[t] \notin Waits
  BY DEF PetersonWork, Waits
<1>2. ctr[t] \in Nat /\ ctr[u] \in Nat
  BY DEF PetersonTInv, DriverInv, DriverTypeOK
<1>3. QED
  BY <1>1, <1>2 DEF PetersonTInv, DriverInv, Separated, Returned, Waits

\* A thread that goes to, or stays, where it does not count as being in an
\* execution may clear what it likes.
LEMMA AwayInv ==
  ASSUME NrThreads <= 2, PetersonLockInv, NEW t \in Threads,
         pc'[t] \notin PetersonWork \cup {"wait"},
         \A u \in Threads : u # t => pc'[u] = pc[u]
  PROVE  /\ FlagsUp' /\ TurnGiven' /\ Exclusive'
         /\ passed' = passed => Overtaking'
<1>1. \A u, v \in Threads : u # v => u = t \/ v = t
  BY Sides
<1>2. FlagsUp'
  BY <1>1 DEF FlagsUp, InPhase, PetersonWork
<1>3. TurnGiven' /\ Exclusive'
  BY <1>1 DEF PetersonLockInv, TurnGiven, Exclusive, PetersonWork
<1>4. passed' = passed => Overtaking'
  BY <1>1 DEF PetersonLockInv, Overtaking, PetersonWork
<1>5. QED
  BY <1>2, <1>3, <1>4

\* barrier_wait returns: the thread was already about to enter.
LEMMA StartLockInv ==
  ASSUME NrThreads <= 2, PetersonTInv, PetersonLockInv, NEW t \in Threads, PetersonStart(t)
  PROVE  PetersonLockInv'
<1> USE DEF PetersonLockInv
<1>1. /\ pc[t] = "wait" /\ pc'[t] \in {"flag", "end"}
      /\ UNCHANGED <<ctr, flag, turn, passed>>
      /\ \A u \in Threads : u # t => pc'[u] = pc[u]
      /\ \A u \in Threads : ctr[u] >= ctr[t]
  BY DEF PetersonStart, Start, Goto, Released, flagVars, PetersonTInv, DriverInv, DriverTypeOK
<1>2. \A u \in Threads : pc[u] \in PetersonWork => ctr[t] = ctr[u]
  BY <1>1, WorkTogether
<1>3. FlagsUp'
  BY <1>1, <1>2 DEF FlagsUp, InPhase, PetersonWork
<1>4. TurnGiven' /\ Exclusive' /\ Overtaking'
  BY <1>1 DEF TurnGiven, Exclusive, Overtaking
<1>5. QED
  BY <1>3, <1>4

\* barrier_wait is called: the thread counts itself into the next execution.
LEMMA ArriveLockInv ==
  ASSUME NrThreads <= 2, PetersonTInv, PetersonLockInv, NEW t \in Threads, PetersonArrive(t)
  PROVE  PetersonLockInv'
<1> USE DEF PetersonLockInv
<1>1. /\ pc[t] = "arrive" /\ pc'[t] = "wait" /\ ctr'[t] = ctr[t] + 1
      /\ UNCHANGED <<flag, turn, passed>>
      /\ \A u \in Threads : u # t => pc'[u] = pc[u] /\ ctr'[u] = ctr[u]
  BY DEF PetersonArrive, Arrive, Goto, flagVars, PetersonTInv, DriverInv, DriverTypeOK
<1>2. \A u \in Threads : pc[u] \in PetersonWork => ctr'[t] # ctr[u]
  BY <1>1, WorkTogether
<1>3. FlagsUp'
  <2>1. SUFFICES ASSUME NEW u \in Threads, NEW v \in Threads, u # v,
                        pc'[u] \in {"turn", "load", "check", "cs"}, InPhase(v, u)'
                 PROVE  flag'[u] = 1
    BY DEF FlagsUp
  <2>2. u # t /\ pc[u] \in {"turn", "load", "check", "cs"}
    BY <1>1, <2>1
  <2>3. v # t
    BY <1>1, <1>2, <2>1, <2>2 DEF InPhase, PetersonWork
  <2>4. QED
    BY <1>1, <2>1, <2>2, <2>3, Sides
<1>4. TurnGiven' /\ Exclusive' /\ Overtaking'
  BY <1>1 DEF TurnGiven, Exclusive, Overtaking
<1>5. QED
  BY <1>3, <1>4

\* The stores of lock().
LEMMA RaiseLockInv ==
  ASSUME NrThreads <= 2, PetersonTInv, PetersonLockInv, NEW t \in Threads, RaiseFlag(t)
  PROVE  PetersonLockInv'
<1> USE DEF PetersonLockInv
<1>1. /\ pc[t] = "flag" /\ pc'[t] = "turn" /\ flag'[t] = 1
      /\ UNCHANGED <<ctr, turn, passed>>
      /\ \A u \in Threads : u # t => pc'[u] = pc[u] /\ flag'[u] = flag[u]
  BY Sides DEF RaiseFlag, Within, Goto, PetersonTInv, PetersonLockTypes, DriverInv, DriverTypeOK
<1>2. FlagsUp'
  BY <1>1 DEF FlagsUp, InPhase, PetersonWork
<1>3. TurnGiven' /\ Exclusive' /\ Overtaking'
  BY <1>1 DEF TurnGiven, Exclusive, Overtaking
<1>4. QED
  BY <1>2, <1>3

\* ... and turn is given away: the other one may overtake once.
LEMMA GiveLockInv ==
  ASSUME NrThreads <= 2, PetersonTInv, PetersonLockInv, NEW t \in Threads, GiveTurn(t)
  PROVE  PetersonLockInv'
<1> USE DEF PetersonLockInv
<1>1. /\ pc[t] = "turn" /\ pc'[t] = "load" /\ passed'[t] = 0
      /\ \A u \in Threads : u # t => turn' = u
      /\ UNCHANGED <<ctr, flag>>
      /\ \A u \in Threads : u # t => pc'[u] = pc[u] /\ passed'[u] = passed[u]
  BY Sides DEF GiveTurn, Within, Goto, PetersonTInv, PetersonLockTypes, DriverInv, DriverTypeOK
<1>2. \A u, v \in Threads : u # v => u = t \/ v = t
  BY Sides
<1>3. FlagsUp'
  BY <1>1 DEF FlagsUp, InPhase, PetersonWork
<1>4. TurnGiven' /\ Exclusive' /\ Overtaking'
  BY <1>1, <1>2 DEF TurnGiven, Exclusive, Overtaking
<1>5. QED
  BY <1>3, <1>4

\* The load that finds the other flag down: the other one is outside.
LEMMA LoadLockInv ==
  ASSUME NrThreads <= 2, PetersonTInv, PetersonLockInv, NEW t \in Threads, LoadFlag(t)
  PROVE  PetersonLockInv'
<1> USE DEF PetersonLockInv
<1>1. /\ pc[t] = "load"
      /\ pc'[t] = (IF flag[Other(t)] = 1 THEN "check" ELSE "cs")
      /\ UNCHANGED <<ctr, flag, turn>>
      /\ \A u \in Threads : u # t => pc'[u] = pc[u]
      /\ CountEntry(t, flag[Other(t)] = 0)
      /\ flag[Other(t)] \in 0 .. 1
  BY Sides DEF LoadFlag, Within, Goto, PetersonTInv, PetersonLockTypes, DriverInv, DriverTypeOK
<1>2. \A u \in Threads : u # t => Other(t) = u
  BY Sides
<1>3. \A u, v \in Threads : u # v => u = t \/ v = t
  BY Sides
<1>4. CASE flag[Other(t)] = 1
  <2>1. passed' = passed
    BY <1>4 DEF CountEntry, PetersonTInv, PetersonLockTypes, LoadFlag
  <2>2. FlagsUp'
    BY <1>1, <1>4 DEF FlagsUp, InPhase, PetersonWork
  <2>3. TurnGiven' /\ Exclusive' /\ Overtaking'
    BY <1>1, <1>3, <1>4, <2>1 DEF TurnGiven, Exclusive, Overtaking
  <2>4. QED
    BY <2>2, <2>3
<1>5. CASE flag[Other(t)] = 0
  <2>1. \A u \in Threads : u # t => pc[u] \notin {"turn", "load", "check", "cs"}
    BY <1>1, <1>2, <1>5 DEF FlagsUp, InPhase, PetersonWork
  <2>2. FlagsUp'
    BY <1>1, <1>5 DEF FlagsUp, InPhase, PetersonWork
  <2>3. TurnGiven' /\ Exclusive' /\ Overtaking'
    BY <1>1, <1>3, <1>5, <2>1 DEF TurnGiven, Exclusive, Overtaking
  <2>4. QED
    BY <2>2, <2>3
<1>6. QED
  BY <1>1, <1>4, <1>5

\* The load that finds the turn given back: the other one waits behind.
LEMMA CheckLockInv ==
  ASSUME NrThreads <= 2, PetersonTInv, PetersonLockInv, NEW t \in Threads, CheckTurn(t)
  PROVE  PetersonLockInv'
<1> USE DEF PetersonLockInv
<1>1. /\ pc[t] = "check"
      /\ pc'[t] = (IF turn = Other(t) THEN "load" ELSE "cs")
      /\ UNCHANGED <<ctr, flag, turn>>
      /\ \A u \in Threads : u # t => pc'[u] = pc[u]
      /\ CountEntry(t, turn # Other(t))
  BY DEF CheckTurn, Within, Goto, PetersonTInv, DriverInv, DriverTypeOK
<1>2. turn = Other(t) \/ turn = t
  BY Sides DEF PetersonTInv, PetersonLockTypes
<1>3. \A u, v \in Threads : u # v => u = t \/ v = t
  BY Sides
<1>4. FlagsUp'
  BY <1>1 DEF FlagsUp, InPhase, PetersonWork
<1>5. CASE turn = Other(t)
  <2>1. passed' = passed
    BY <1>5 DEF CountEntry, PetersonTInv, PetersonLockTypes, CheckTurn
  <2>2. TurnGiven' /\ Exclusive' /\ Overtaking'
    BY <1>1, <1>3, <1>5, <2>1 DEF TurnGiven, Exclusive, Overtaking
  <2>3. QED
    BY <1>4, <2>2
<1>6. CASE turn # Other(t)
  <2>1. turn = t /\ pc'[t] = "cs"
    BY <1>1, <1>2, <1>6
  <2>2. \A u \in Threads : u # t => pc[u] # "cs"
    BY <1>1, <2>1 DEF TurnGiven
  <2>3. TurnGiven' /\ Exclusive'
    BY <1>1, <1>3, <2>1, <2>2 DEF TurnGiven, Exclusive
  <2>4. \A u \in Threads : u # t /\ pc[u] \in {"load", "check"} => passed'[u] = 1
    <3>1. SUFFICES ASSUME NEW u \in Threads, u # t, pc[u] \in {"load", "check"}
                   PROVE  passed'[u] = 1
      OBVIOUS
    <3>2. passed[u] = 0
      BY <1>1, <2>1, <3>1 DEF Overtaking
    <3>3. Side(u) # Side(t)
      BY <3>1, Sides
    <3>4. QED
      BY <1>1, <1>6, <3>1, <3>2, <3>3 DEF CountEntry
  <2>5. Overtaking'
    BY <1>1, <1>3, <2>1, <2>4 DEF Overtaking
  <2>6. QED
    BY <1>4, <2>3, <2>5
<1>7. QED
  BY <1>5, <1>6

\* unlock() lowers the thread's own flag.
LEMMA UnlockLockInv ==
  ASSUME NrThreads <= 2, PetersonTInv, PetersonLockInv, NEW t \in Threads, LowerFlag(t)
  PROVE  PetersonLockInv'
<1> USE DEF PetersonLockInv
<1>1. /\ pc[t] = "cs" /\ pc'[t] \in {"flag", "end"}
      /\ UNCHANGED <<ctr, turn, passed>>
      /\ \A u \in Threads : u # t => pc'[u] = pc[u] /\ flag'[u] = flag[u]
  BY Sides DEF LowerFlag, EndIteration, Goto, PetersonTInv, PetersonLockTypes, DriverInv, DriverTypeOK
<1>2. FlagsUp'
  BY <1>1 DEF FlagsUp, InPhase, PetersonWork
<1>3. TurnGiven' /\ Exclusive' /\ Overtaking'
  BY <1>1 DEF TurnGiven, Exclusive, Overtaking
<1>4. QED
  BY <1>2, <1>3

\* Every statement preserves the invariant of two threads.
LEMMA PetersonNextLockInv == NrThreads <= 2 /\ PetersonIInv /\ [PetersonNext]_petersonVars => PetersonLockInv'
<1> SUFFICES ASSUME NrThreads <= 2, PetersonTInv, PetersonLockInv, [PetersonNext]_petersonVars
             PROVE  PetersonLockInv'
  BY DEF PetersonIInv
<1>1. ASSUME NEW t \in Threads,
             ResetFlag0(t) \/ ResetFlag1(t) \/ ResetTurn(t) \/ PetersonEndExec(t)
      PROVE  PetersonLockInv'
  <2>1. /\ pc'[t] \notin PetersonWork \cup {"wait"} /\ passed' = passed
        /\ \A u \in Threads : u # t => pc'[u] = pc[u]
    BY <1>1 DEF ResetFlag0, ResetFlag1, ResetTurn, PetersonEndExec, Within, NextExec, Goto,
                flagVars, PetersonWork, PetersonTInv, DriverInv, DriverTypeOK
  <2>2. QED
    BY <2>1, AwayInv DEF PetersonLockInv
<1>2. CASE UNCHANGED petersonVars
  BY <1>2 DEF petersonVars, driverVars, flagVars, PetersonLockInv, FlagsUp, InPhase, TurnGiven,
              Exclusive, Overtaking
<1>3. QED
  BY <1>1, <1>2, StartLockInv, ArriveLockInv, RaiseLockInv, GiveLockInv,
     LoadLockInv, CheckLockInv, UnlockLockInv DEF PetersonNext, PetersonStep

\* The invariant of two threads holds of every behaviour.
THEOREM PetersonInvariance == NrThreads <= 2 /\ PetersonSpec => []PetersonIInv
<1> SUFFICES ASSUME NrThreads <= 2
             PROVE  PetersonSpec => []PetersonIInv
  OBVIOUS
<1>1. PetersonInit => PetersonIInv
  <2>1. PetersonInit => PetersonLockInv
    BY DEF PetersonInit, DriverInit, PetersonLockInv, FlagsUp, TurnGiven, Exclusive, Overtaking
  <2>2. QED
    BY <2>1, PetersonInitTInv DEF PetersonIInv
<1>2. PetersonIInv /\ [PetersonNext]_petersonVars => PetersonIInv'
  BY PetersonNextTInv, PetersonNextLockInv DEF PetersonIInv
<1>3. QED
  BY <1>1, <1>2, PTL DEF PetersonSpec

\* At most one of two threads is in the critical section: the unsynchronised
\* resets of all executions and scaling runs do no harm.
THEOREM PetersonExcludes == NrThreads <= 2 /\ PetersonSpec => []MutualExclusion
<1>1. PetersonIInv => MutualExclusion
  BY DEF PetersonIInv, PetersonTInv, DriverInv, DriverTypeOK, PetersonLabels,
         PetersonLockInv, Exclusive, MutualExclusion, Inside
<1>2. QED
  BY <1>1, PetersonInvariance, PTL

\* A waiting thread is overtaken at most once.
THEOREM PetersonBounded == NrThreads <= 2 /\ PetersonSpec => []OvertakenOnce
<1>1. PetersonIInv => OvertakenOnce
  BY DEF PetersonIInv, PetersonLockInv, Overtaking, OvertakenOnce
<1>2. QED
  BY <1>1, PetersonInvariance, PTL

(* The account of the driver. *)

PetersonBefore == {"reset0", "reset1", "resetTurn", "arrive", "wait"}

PetersonAccount == Account(PetersonBefore, PetersonWork, {})

\* It begins empty.
LEMMA PetersonAccountInit == PetersonInit => PetersonAccount
  BY AccountInit DEF PetersonInit, PetersonAccount, Kinds, PetersonBefore, PetersonWork

\* Every statement keeps it.
LEMMA PetersonAccountNext == PetersonTInv /\ PetersonAccount /\ [PetersonNext]_petersonVars => PetersonAccount'
<1> SUFFICES ASSUME PetersonTInv, PetersonAccount, [PetersonNext]_petersonVars
             PROVE  PetersonAccount'
  OBVIOUS
<1>1. Kinds(PetersonBefore, PetersonWork, {}) /\ DriverTypeOK(PetersonLabels) /\ Counted(PetersonWork)
  BY DEF Kinds, PetersonBefore, PetersonWork, PetersonTInv, DriverInv
<1>2. ASSUME NEW t \in Threads, PetersonStep(t)
      PROVE  DriverStep(t, PetersonBefore, PetersonWork, {})
  <2>1. CASE ResetFlag0(t) \/ ResetFlag1(t) \/ ResetTurn(t) \/ PetersonArrive(t)
    BY <2>1, QuietStep DEF ResetFlag0, ResetFlag1, ResetTurn, PetersonArrive, PetersonBefore, PetersonWork
  <2>2. CASE PetersonStart(t)
    BY <1>1, <2>2, StartStep DEF PetersonStart, PetersonBefore, PetersonWork
  <2>3. CASE RaiseFlag(t) \/ GiveTurn(t)
    BY <2>3, QuietStep DEF RaiseFlag, GiveTurn, PetersonBefore, PetersonWork
  <2>4. CASE LoadFlag(t) \/ CheckTurn(t)
    <3>1. PICK here \in {"load", "check"}, there \in {"load", "check", "cs"} :
            Within(t, here, there)
      BY <2>4 DEF LoadFlag, CheckTurn
    <3> QED
      BY <3>1, QuietStep DEF PetersonBefore, PetersonWork
  <2>5. CASE LowerFlag(t)
    BY <1>1, <2>5, EndIterationStep DEF LowerFlag, PetersonBefore, PetersonWork
  <2>6. CASE PetersonEndExec(t)
    BY <1>1, <2>6, NextExecStep DEF PetersonEndExec, PetersonBefore, PetersonWork
  <2> QED
    BY <1>2, <2>1, <2>2, <2>3, <2>4, <2>5, <2>6 DEF PetersonStep
<1>3. CASE PetersonNext
  BY <1>1, <1>2, <1>3, DriverStepAccount DEF PetersonNext, PetersonAccount
<1>4. CASE UNCHANGED petersonVars
  BY <1>4, AccountStutters DEF PetersonAccount, petersonVars
<1> QED
  BY <1>3, <1>4

\* Under Peterson's lock too, however many threads use it.
THEOREM PetersonWorkSampled == PetersonSpec => [](AllWorkDone /\ NoSampleLost)
<1>1. PetersonTInv /\ PetersonAccount => AllWorkDone /\ NoSampleLost
  BY AccountComplete DEF PetersonTInv, DriverInv, PetersonAccount
<1>2. PetersonSpec => []PetersonAccount
  BY PetersonAccountInit, PetersonAccountNext, PetersonTypeInvariance, PTL DEF PetersonSpec
<1> QED
  BY <1>1, <1>2, PetersonTypeInvariance, PTL

-----------------------------------------------------------------------------
(* The filter lock.  Of two threads that have named a victim at a level,   *)
(* the one that is past the other is not the victim (NotVictim), and the   *)
(* victim is there (VictimThere): at every level somebody stays behind.    *)
(* This fails for level l when thread l resets its victim; but thread l    *)
(* has then dropped out itself, and does as well as a thread that stays.   *)
(* So the threads above level l together with those that have dropped out  *)
(* and would reset a higher level are at most NrThreads - l (Filtered).    *)


FilterWork == {"level", "victim", "scan", "check", "cs"}
Climbing == {"level", "victim", "scan", "check"}

\* The levels somebody waits at.
Competed == 1 .. NrThreads - 1

\* The threads that have named a victim at level l, also those that passed it.
Engaged(l) == Above(l) \cup {t \in Threads : pc[t] \in {"scan", "check"} /\ level[t] = l}

\* Thread l has cleared victims[l] for the next execution, which has not begun.
ResetDone(l) == pc[l] = "arrive" \/ (pc[l] = "wait" /\ ~Released(l))

FilterLockTypes ==
  /\ levels \in [Threads -> Levels]
  /\ victims \in [Levels -> Threads]
  /\ level \in [Threads -> 1 .. NrThreads]
  /\ k \in [Threads -> 0 .. NrThreads]

\* What a thread shows of itself in levels, and where its scan is.
Shown ==
  \A t \in Threads :
    /\ pc[t] \in {"resetVictim", "arrive", "wait"} => levels[t] = 0
    /\ pc[t] \in Climbing => level[t] \in Competed
    /\ pc[t] = "level" => levels[t] = level[t] - 1
    /\ pc[t] \in {"victim", "scan", "check"} => levels[t] = level[t]
    /\ pc[t] \in {"scan", "check"} => k[t] \in Threads \ {t}
    /\ pc[t] = "cs" => level[t] = NrThreads /\ levels[t] = NrThreads - 1

\* u has passed level l, or its scan has passed thread t.
Past(l, u, t) == u \in Above(l) \/ k[u] > t

\* A thread is past another one at its level only if it is not the victim.
NotVictim(l) ==
  \A t, u \in Engaged(l) : t # u /\ Past(l, u, t) => victims[l] # u

\* The victim of a level is there.
VictimThere(l) == Engaged(l) # {} => victims[l] \in Engaged(l)

Filtering == \A l \in Competed : ~ResetDone(l) => NotVictim(l) /\ VictimThere(l)

FilterLockInv == FilterLockTypes /\ Shown /\ Filtering

FilterIInv == DriverInv(FilterLabels, FilterWork, Waits) /\ FilterLockInv

-----------------------------------------------------------------------------

\* lock() begins with a label of the work, and not in a wait.
LEMMA FilterLockLabel ==
  FilterEntry \in FilterLabels /\ FilterEntry \in FilterWork /\ FilterEntry \notin Waits /\ FilterEntry \in {"level", "cs"}
  BY DEF FilterEntry, FilterLabels, FilterWork, Waits

\* Levels, identifiers and their bounds are numbers.
LEMMA Numbers ==
  /\ NrThreads \in Nat \ {0} /\ Threads \subseteq Nat /\ Levels = Threads
  /\ Competed \subseteq Threads /\ Competed \subseteq Nat \ {0}
  /\ \A t \in Threads : t < NrThreads
  /\ 0 \in Threads
  BY NrThreadsAssumption DEF Threads, Levels, Competed

\* The levels and the victims are static and start out as zeros.
LEMMA FilterInitIInv == FilterInit => FilterIInv
<1> SUFFICES ASSUME FilterInit
             PROVE  FilterIInv
  OBVIOUS
<1>1. DriverInv(FilterLabels, FilterWork, Waits)
  BY DriverInitInv DEF FilterInit, FilterLabels, FilterWork, Waits
<1>2. FilterLockTypes
  <2>1. {0, NrThreads - 1} \subseteq Threads /\ 1 \in 1 .. NrThreads /\ 0 \in 0 .. NrThreads
    BY NrThreadsAssumption DEF Threads
  <2>2. levels \in [Threads -> Levels] /\ victims \in [Levels -> Threads]
    BY <2>1, Numbers DEF FilterInit
  <2>3. level \in [Threads -> 1 .. NrThreads] /\ k \in [Threads -> 0 .. NrThreads]
    BY <2>1 DEF FilterInit
  <2> QED
    BY <2>2, <2>3 DEF FilterLockTypes
<1>3. \A t \in Threads : pc[t] = "resetLevel"
  BY DEF FilterInit, DriverInit
<1>4. Shown
  BY <1>3 DEF Shown, Climbing
<1>5. \A l : Engaged(l) = {}
  BY <1>3 DEF Engaged, Above
<1>6. Filtering
  BY <1>5 DEF Filtering, NotVictim, VictimThere
<1>7. QED
  BY <1>1, <1>2, <1>4, <1>6 DEF FilterIInv, FilterLockInv

\* The driver's invariant.
LEMMA FilterNextDriver == FilterIInv /\ [FilterNext]_filterVars => DriverInv(FilterLabels, FilterWork, Waits)'
<1> SUFFICES ASSUME FilterIInv, [FilterNext]_filterVars
             PROVE  DriverInv(FilterLabels, FilterWork, Waits)'
  OBVIOUS
<1>0. DriverInv(FilterLabels, FilterWork, Waits)
  BY DEF FilterIInv
<1> DEFINE D == DriverInv(FilterLabels, FilterWork, Waits)
<1>1. ASSUME NEW t \in Threads, ResetLevel(t) \/ ResetVictim(t) \/ SetLevel(t) \/ SetVictim(t)
      PROVE  D'
  <2>1. CASE ResetLevel(t)
    BY <1>0, <2>1, WithinInv DEF ResetLevel, FilterLabels, FilterWork, Waits
  <2>2. CASE ResetVictim(t)
    BY <1>0, <2>2, WithinInv DEF ResetVictim, FilterLabels, FilterWork, Waits
  <2>3. CASE SetLevel(t)
    BY <1>0, <2>3, WithinInv DEF SetLevel, FilterLabels, FilterWork, Waits
  <2>4. CASE SetVictim(t)
    BY <1>0, <2>4, WithinInv DEF SetVictim, FilterLabels, FilterWork, Waits
  <2>5. QED
    BY <1>1, <2>1, <2>2, <2>3, <2>4
<1>2. ASSUME NEW t \in Threads, FilterArrive(t)
      PROVE  D'
  BY <1>0, <1>2, ArriveInv DEF FilterArrive, FilterLabels, FilterWork, Waits
<1>3. ASSUME NEW t \in Threads, FilterStart(t)
      PROVE  D'
  <2>1. Start(t, "wait", FilterEntry, "end")
    BY <1>3 DEF FilterStart
  <2>2. "end" \in FilterLabels /\ "end" \notin Waits /\ "end" \notin FilterWork
    BY DEF FilterLabels, FilterWork, Waits
  <2>3. QED
    BY <1>0, <2>1, <2>2, FilterLockLabel, StartInv
<1>4. ASSUME NEW t \in Threads, Scan(t) \/ Check(t)
      PROVE  D'
  <2>1. PICK here \in {"scan", "check"}, there \in {"scan", "check", "level", "cs"} :
          Within(t, here, there)
    BY <1>4 DEF Scan, Check, Climb
  <2>2. here \in FilterWork /\ here \notin Waits /\ here # "done" /\ there \in FilterLabels /\ there \notin Waits
    BY DEF FilterLabels, FilterWork, Waits
  <2>3. QED
    BY <1>0, <2>1, <2>2, WithinInv
<1>5. ASSUME NEW t \in Threads, LeaveLevels(t)
      PROVE  D'
  <2>1. EndIteration(t, "cs", FilterEntry, "end")
    BY <1>5 DEF LeaveLevels
  <2>2. /\ "cs" \in FilterWork /\ "cs" \notin Waits
        /\ "end" \in FilterLabels /\ "end" \notin Waits /\ "end" \notin FilterWork
    BY DEF FilterLabels, FilterWork, Waits
  <2>3. QED
    BY <1>0, <2>1, <2>2, FilterLockLabel, EndIterationInv
<1>6. ASSUME NEW t \in Threads, FilterEndExec(t)
      PROVE  D'
  <2>1. samples' \in SUBSET Nat
    BY <1>0, <1>6, RecordNat DEF FilterEndExec, DriverInv
  <2>2. QED
    BY <1>0, <1>6, <2>1, NextExecInv DEF FilterEndExec, FilterLabels, FilterWork, Waits
<1>7. CASE UNCHANGED filterVars
  BY <1>0, <1>7 DEF filterVars, driverVars, DriverInv, DriverTypeOK, Counted, Separated,
              Returned, LastRun
<1>8. QED
  BY <1>1, <1>2, <1>3, <1>4, <1>5, <1>6, <1>7 DEF FilterNext, FilterStep

\* The lock's own variables, and what a thread shows.
LEMMA NextShown == FilterIInv /\ [FilterNext]_filterVars => FilterLockTypes' /\ Shown'
<1> SUFFICES ASSUME FilterIInv, [FilterNext]_filterVars
             PROVE  FilterLockTypes' /\ Shown'
  OBVIOUS
<1>0. FilterLockTypes /\ Shown /\ pc \in [Threads -> FilterLabels \cup {"done"}]
  BY DEF FilterIInv, FilterLockInv, DriverInv, DriverTypeOK
<1> USE Numbers
<1> DEFINE G == FilterLockTypes' /\ Shown'
<1>a. ASSUME NEW t \in Threads, NextOther(t, 0) \notin Threads \ {t}
      PROVE  NrThreads = 1
  BY <1>a DEF NextOther, Threads
<1>b. ASSUME NEW t \in Threads, NEW i \in Threads, NextOther(t, i + 1) < NrThreads
      PROVE  NextOther(t, i + 1) \in Threads \ {t}
  BY <1>b DEF NextOther, Threads
<1>c. ASSUME NEW t \in Threads, NEW i \in Threads \ {t}
      PROVE  NextOther(t, i + 1) \in 0 .. NrThreads
  BY <1>c DEF NextOther, Threads
<1>1. ASSUME NEW t \in Threads, ResetLevel(t)
      PROVE  G
  BY <1>0, <1>1 DEF ResetLevel, Within, Goto, FilterLockTypes, Shown, Climbing
<1>2. ASSUME NEW t \in Threads, ResetVictim(t)
      PROVE  G
  <2>1. 0 \in Threads
    BY DEF Threads
  <2> QED
    BY <1>0, <1>2, <2>1 DEF ResetVictim, Within, Goto, FilterLockTypes, Shown, Climbing
<1>3. ASSUME NEW t \in Threads, FilterArrive(t)
      PROVE  G
  BY <1>0, <1>3 DEF FilterArrive, Arrive, Goto, levelVars, FilterLockTypes, Shown, Climbing
<1>4. ASSUME NEW t \in Threads, FilterStart(t)
      PROVE  G
  <2>1. /\ pc[t] = "wait" /\ pc'[t] \in {FilterEntry, "end"} /\ level'[t] = 1
        /\ UNCHANGED <<levels, victims, k>>
        /\ \A u \in Threads : u # t => pc'[u] = pc[u] /\ level'[u] = level[u]
        /\ level' \in [Threads -> 1 .. NrThreads]
    BY <1>0, <1>4 DEF FilterStart, Start, Goto, FilterLockTypes
  <2>2. levels[t] = 0
    BY <1>0, <2>1 DEF Shown
  <2>3. (FilterEntry = "level" /\ NrThreads > 1) \/ (FilterEntry = "cs" /\ NrThreads = 1)
    BY DEF FilterEntry
  <2>4. FilterLockTypes'
    BY <1>0, <2>1 DEF FilterLockTypes
  <2>5. Shown'
    BY <1>0, <2>1, <2>2, <2>3 DEF Shown, Climbing, Competed
  <2> QED
    BY <2>4, <2>5
<1>5. ASSUME NEW t \in Threads, SetLevel(t)
      PROVE  G
  <2>1. level[t] \in Competed
    BY <1>0, <1>5 DEF SetLevel, Within, Goto, Shown, Climbing
  <2> QED
    BY <1>0, <1>5, <2>1 DEF SetLevel, Within, Goto, FilterLockTypes, Shown, Climbing
<1>6. ASSUME NEW t \in Threads, SetVictim(t)
      PROVE  G
  <2>1. level[t] \in Competed
    BY <1>0, <1>6 DEF SetVictim, Within, Goto, Shown, Climbing
  <2>2. NextOther(t, 0) \in Threads \ {t}
    BY <1>a, <2>1 DEF Competed
  <2>3. NextOther(t, 0) \in 0 .. NrThreads
    BY <2>2 DEF Threads
  <2> QED
    BY <1>0, <1>6, <2>1, <2>2, <2>3 DEF SetVictim, Within, Goto, FilterLockTypes, Shown, Climbing
<1>7. ASSUME NEW t \in Threads, Climb(t, pc[t]), pc[t] \in {"scan", "check"},
             UNCHANGED <<levels, victims>>, k' \in [Threads -> 0 .. NrThreads],
             \A u \in Threads : u # t => k'[u] = k[u]
      PROVE  G
  <2>1. level[t] \in Competed /\ levels[t] = level[t]
    BY <1>0, <1>7 DEF Shown, Climbing
  <2>2. /\ level'[t] = level[t] + 1
        /\ pc'[t] = IF level[t] + 1 < NrThreads THEN "level" ELSE "cs"
        /\ \A u \in Threads : u # t => pc'[u] = pc[u] /\ level'[u] = level[u]
    BY <1>0, <1>7 DEF Climb, Within, Goto, FilterLockTypes
  <2>3. level' \in [Threads -> 1 .. NrThreads]
    BY <1>0, <1>7, <2>1 DEF Climb, FilterLockTypes, Competed
  <2>4. FilterLockTypes'
    BY <1>0, <1>7, <2>3 DEF FilterLockTypes
  <2>5. Shown'
    BY <1>0, <1>7, <2>1, <2>2 DEF Shown, Climbing, Competed
  <2> QED
    BY <2>4, <2>5
<1>8. ASSUME NEW t \in Threads, Scan(t)
      PROVE  G
  <2>1. pc[t] = "scan" /\ k[t] \in Threads \ {t}
    BY <1>0, <1>8 DEF Scan, Shown
  <2>2. CASE levels[k[t]] >= level[t]
    BY <1>0, <1>8, <2>1, <2>2 DEF Scan, Within, Goto, FilterLockTypes, Shown, Climbing
  <2>3. CASE ~(levels[k[t]] >= level[t])
    <3>1. k' = [k EXCEPT ![t] = NextOther(t, k[t] + 1)] /\ NextOther(t, k[t] + 1) \in 0 .. NrThreads
      BY <1>8, <1>c, <2>1, <2>3 DEF Scan
    <3>2. CASE k'[t] < NrThreads
      <4>1. k'[t] \in Threads \ {t}
        BY <1>0, <1>b, <2>1, <3>1, <3>2 DEF FilterLockTypes
      <4>2. Within(t, "scan", "scan") /\ UNCHANGED <<level, levels, victims>>
        BY <1>8, <2>3, <3>2 DEF Scan
      <4>3. FilterLockTypes'
        BY <1>0, <3>1, <4>2 DEF FilterLockTypes
      <4>4. Shown'
        BY <1>0, <2>1, <3>1, <4>1, <4>2 DEF Within, Goto, Shown, FilterLockTypes
      <4> QED
        BY <4>3, <4>4
    <3>3. CASE ~(k'[t] < NrThreads)
      <4>1. Climb(t, "scan") /\ UNCHANGED <<levels, victims>>
        BY <1>8, <2>3, <3>3 DEF Scan
      <4>2. /\ k' \in [Threads -> 0 .. NrThreads]
            /\ \A u \in Threads : u # t => k'[u] = k[u]
        BY <1>0, <3>1 DEF FilterLockTypes
      <4> QED
        BY <1>7, <2>1, <4>1, <4>2
    <3> QED
      BY <3>2, <3>3
  <2> QED
    BY <2>2, <2>3
<1>9. ASSUME NEW t \in Threads, Check(t)
      PROVE  G
  <2>1. pc[t] = "check" /\ level[t] \in Competed
    BY <1>0, <1>9 DEF Check, Shown, Climbing
  <2>2. CASE victims[level[t]] = t
    <3>1. NextOther(t, 0) \in Threads \ {t}
      BY <1>a, <2>1 DEF Competed
    <3>2. NextOther(t, 0) \in 0 .. NrThreads
      BY <3>1 DEF Threads
    <3> QED
      BY <1>0, <1>9, <2>1, <2>2, <3>1, <3>2 DEF Check, Within, Goto, FilterLockTypes, Shown, Climbing
  <2>3. CASE victims[level[t]] # t
    <3>1. Climb(t, "check") /\ UNCHANGED <<levels, victims, k>>
      BY <1>9, <2>3 DEF Check
    <3> QED
      BY <1>0, <1>7, <2>1, <3>1 DEF FilterLockTypes
  <2> QED
    BY <2>2, <2>3
<1>10. ASSUME NEW t \in Threads, LeaveLevels(t)
       PROVE  G
  <2>1. /\ pc[t] = "cs" /\ pc'[t] \in {FilterEntry, "end"} /\ level'[t] = 1 /\ levels'[t] = 0
        /\ UNCHANGED <<victims, k>>
        /\ \A u \in Threads : u # t => pc'[u] = pc[u] /\ level'[u] = level[u] /\ levels'[u] = levels[u]
        /\ level' \in [Threads -> 1 .. NrThreads]
        /\ levels' \in [Threads -> Levels]
    BY <1>0, <1>10 DEF LeaveLevels, EndIteration, Goto, FilterLockTypes
  <2>3. (FilterEntry = "level" /\ NrThreads > 1) \/ (FilterEntry = "cs" /\ NrThreads = 1)
    BY DEF FilterEntry
  <2>4. FilterLockTypes'
    BY <1>0, <2>1 DEF FilterLockTypes
  <2>5. Shown'
    BY <1>0, <2>1, <2>3 DEF Shown, Climbing, Competed
  <2> QED
    BY <2>4, <2>5
<1>11. ASSUME NEW t \in Threads, FilterEndExec(t)
       PROVE  G
  BY <1>0, <1>11 DEF FilterEndExec, NextExec, Goto, levelVars, FilterLockTypes, Shown, Climbing
<1>12. CASE UNCHANGED filterVars
  BY <1>0, <1>12 DEF filterVars, driverVars, levelVars, FilterLockTypes, Shown
<1>13. QED
  BY <1>1, <1>2, <1>3, <1>4, <1>5, <1>6, <1>8, <1>9, <1>10, <1>11, <1>12 DEF FilterNext, FilterStep

-----------------------------------------------------------------------------
(* The filter. *)

\* A statement changes where its own thread is.
LEMMA Others ==
  ASSUME NEW t \in Threads,
         \A u \in Threads : u # t => pc'[u] = pc[u] /\ level'[u] = level[u]
  PROVE  \A l \in Competed, u \in Threads :
           u # t => (u \in Above(l)' <=> u \in Above(l)) /\ (u \in Engaged(l)' <=> u \in Engaged(l))
  BY DEF Above, Engaged

\* Engaged threads are past the barrier, and show it.
LEMMA EngagedThreads ==
  ASSUME FilterLockTypes, Shown, NEW l \in Competed, NEW t \in Engaged(l)
  PROVE  t \in Threads /\ pc[t] \in FilterWork /\ levels[t] >= l
<1>1. t \in Threads /\ pc[t] \in FilterWork
  BY DEF Engaged, Above, FilterWork
<1>2. level[t] \in Nat /\ levels[t] \in Nat /\ l \in Nat /\ NrThreads \in Nat
  <2>1. levels[t] \in Threads /\ level[t] \in 1 .. NrThreads
    BY <1>1, Numbers DEF FilterLockTypes
  <2>2. l \in Nat /\ NrThreads \in Nat
    BY NrThreadsAssumption DEF Competed
  <2>3. levels[t] \in Nat
    BY <2>1, Numbers
  <2>4. level[t] \in Nat
    BY <2>1, <2>2
  <2> QED
    BY <2>2, <2>3, <2>4
<1>3. l <= NrThreads - 1
  BY DEF Competed
<1>4. QED
  BY <1>1, <1>2, <1>3 DEF Engaged, Above, Shown

\* Nobody else's reset is affected.
LEMMA ResetKept ==
  ASSUME NEW t \in Threads, UNCHANGED ctr,
         \A u \in Threads : u # t => pc'[u] = pc[u],
         pc[t] # "arrive", pc'[t] \notin {"arrive", "wait"},
         pc[t] = "wait" => Released(t)
  PROVE  \A l \in Threads : ResetDone(l)' <=> ResetDone(l)
  BY DEF ResetDone, Released

\* The victims stay, nobody new is engaged, and who gets past whom is not the
\* victim.
LEMMA FilterKept ==
  ASSUME Filtering, NEW l \in Competed,
         ~ResetDone(l)' => ~ResetDone(l),
         victims'[l] = victims[l], Engaged(l)' \subseteq Engaged(l),
         \A t, u \in Engaged(l) :
           t # u /\ u \in Engaged(l)' /\ Past(l, u, t)' => Past(l, u, t) \/ victims[l] # u,
         \A t \in Engaged(l)' : victims[l] \in Engaged(l) => victims[l] \in Engaged(l)'
  PROVE  ~ResetDone(l)' => NotVictim(l)' /\ VictimThere(l)'
  BY DEF Filtering, NotVictim, VictimThere

\* A statement before or after lock() and unlock().
LEMMA Outside ==
  ASSUME Filtering, NEW t \in Threads, UNCHANGED <<victims, k>>,
         \A u \in Threads : u # t => pc'[u] = pc[u] /\ level'[u] = level[u],
         \A l \in Competed : /\ t \in Above(l)' <=> t \in Above(l)
                             /\ t \in Engaged(l)' <=> t \in Engaged(l)
                             /\ ResetDone(l) => ResetDone(l)' \/ Engaged(l) = {}
  PROVE  Filtering'
<1> SUFFICES ASSUME NEW l \in Competed, ~ResetDone(l)'
             PROVE  NotVictim(l)' /\ VictimThere(l)'
  BY DEF Filtering
<1>1. Above(l)' = Above(l) /\ Engaged(l)' = Engaged(l)
  <2>1. \A u \in Threads : (u \in Above(l)' <=> u \in Above(l)) /\ (u \in Engaged(l)' <=> u \in Engaged(l))
    BY Others
  <2>2. Above(l) \subseteq Threads /\ Above(l)' \subseteq Threads /\ Engaged(l) \subseteq Threads /\ Engaged(l)' \subseteq Threads
    BY DEF Above, Engaged
  <2> QED
    BY <2>1, <2>2
<1>2. CASE Engaged(l) = {}
  BY <1>1, <1>2 DEF NotVictim, VictimThere
<1>3. CASE ~ResetDone(l)
  BY <1>1, <1>3 DEF Filtering, NotVictim, VictimThere, Past
<1>4. QED
  BY <1>2, <1>3

\* A thread has just begun its scan: it is not past anybody.
LEMMA ScanBegins ==
  ASSUME NEW t \in Threads, NEW u \in Threads, NextOther(t, 0) > u
  PROVE  u = t
  BY DEF NextOther, Threads

\* A load of a level puts the thread past the thread that was looked at.
LEMMA ScanGoesOn ==
  ASSUME NEW t \in Threads, NEW u \in Threads, NEW i \in Threads, NextOther(t, i + 1) > u
  PROVE  u = t \/ u = i \/ i > u
  BY DEF NextOther, Threads

\* victims[level].exchange(tid)
LEMMA SetVictimFilter ==
  ASSUME FilterLockTypes, Shown, Filtering, NEW t \in Threads, SetVictim(t),
         pc \in [Threads -> FilterLabels \cup {"done"}]
  PROVE  Filtering'
<1>0. level[t] \in Competed
  BY DEF SetVictim, Within, Goto, Shown, Climbing
<1>m. PICK m \in Competed : m = level[t]
  BY <1>0
<1>1. /\ pc[t] = "victim" /\ pc'[t] = "scan"
      /\ \A l \in Competed : victims'[l] = (IF l = m THEN t ELSE victims[l])
      /\ k'[t] = NextOther(t, 0)
      /\ \A u \in Threads : u # t => pc'[u] = pc[u] /\ level'[u] = level[u] /\ k'[u] = k[u]
      /\ UNCHANGED <<ctr, level>>
  BY <1>m, Numbers DEF SetVictim, Within, Goto, FilterLockTypes, Shown, Climbing
<1>2. \A l \in Competed : ResetDone(l)' <=> ResetDone(l)
  BY <1>1, ResetKept, Numbers
<1>3. \A l \in Competed : /\ t \in Above(l)' <=> t \in Above(l)
                          /\ t \in Engaged(l) <=> t \in Above(l)
                          /\ t \in Engaged(l)' <=> t \in Above(l) \/ l = m
                          /\ t \notin Above(m)
  BY <1>m, <1>1, NrThreadsAssumption DEF Engaged, Above, Competed
<1>4. \A l \in Competed : Engaged(l) \subseteq Threads /\ Engaged(l)' \subseteq Threads
  BY DEF Engaged, Above
<1>5. ASSUME NEW l \in Competed, ~ResetDone(l)', l # m
      PROVE  NotVictim(l)' /\ VictimThere(l)'
  <2>1. Engaged(l)' \subseteq Engaged(l) /\ Engaged(l) \subseteq Engaged(l)'
    BY <1>1, <1>3, <1>4, <1>5, Others
  <2>2. \A a, u \in Engaged(l) : a # u /\ Past(l, u, a)' => Past(l, u, a)
    BY <1>1, <1>3, <1>4, <1>5, Others DEF Past
  <2> QED
    BY <1>1, <1>2, <1>5, <2>1, <2>2, FilterKept
<1>6. ASSUME ~ResetDone(m)'
      PROVE  NotVictim(m)' /\ VictimThere(m)'
  <2>1. ASSUME NEW a \in Engaged(m)', a # t, Past(m, t, a)'
        PROVE  FALSE
    <3>1. k'[t] > a /\ a \in Threads
      BY <1>1, <1>3, <1>4, <2>1 DEF Past
    <3> QED
      BY <1>1, <2>1, <3>1, ScanBegins
  <2> QED
    BY <1>1, <1>3, <2>1 DEF NotVictim, VictimThere
<1> QED
  BY <1>5, <1>6, <1>1 DEF Filtering

\* A load of the loop that does not end it.
LEMMA SpinFilter ==
  ASSUME FilterLockTypes, Shown, Filtering, NEW t \in Threads, UNCHANGED <<ctr, levels, victims, level>>,
         pc[t] \in {"scan", "check"}, pc'[t] \in {"scan", "check"},
         \A u \in Threads : u # t => pc'[u] = pc[u] /\ k'[u] = k[u],
         \A u \in Engaged(level[t]) : u # t /\ k'[t] > u => k[t] > u
  PROVE  Filtering'
<1>1. level[t] \in Competed
  BY DEF Shown, Climbing
<1>2. \A l \in Competed : ResetDone(l)' <=> ResetDone(l)
  BY ResetKept, Numbers
<1>3. \A l \in Competed : Engaged(l)' = Engaged(l) /\ Above(l)' = Above(l)
  BY DEF Engaged, Above
<1>4. ASSUME NEW l \in Competed, NEW a \in Engaged(l), NEW u \in Engaged(l), a # u, Past(l, u, a)'
      PROVE  Past(l, u, a)
  <2>1. a \in Threads /\ u \in Threads
    BY DEF Engaged, Above
  <2>2. CASE u # t
    BY <1>3, <1>4, <2>1, <2>2 DEF Past
  <2>3. CASE u = t /\ t \in Above(l)
    BY <2>3 DEF Past
  <2>4. CASE u = t /\ t \notin Above(l)
    <3>1. level[t] = l
      BY <2>4 DEF Engaged
    <3> QED
      BY <1>3, <1>4, <2>1, <2>4, <3>1 DEF Past
  <2> QED
    BY <2>2, <2>3, <2>4
<1>5. ASSUME NEW l \in Competed, ~ResetDone(l)'
      PROVE  NotVictim(l)' /\ VictimThere(l)'
  BY <1>2, <1>3, <1>4, <1>5, FilterKept
<1> QED
  BY <1>5 DEF Filtering

\* A thread goes on to the next level only if it is not the victim of this one,
\* or finds nobody there.
LEMMA ClimbFilter ==
  ASSUME FilterLockTypes, Shown, Filtering, NEW t \in Threads, Climb(t, pc[t]),
         pc \in [Threads -> FilterLabels \cup {"done"}], pc[t] \in {"scan", "check"},
         UNCHANGED <<levels, victims>>,
         \A u \in Threads : u # t => k'[u] = k[u],
         \A u \in Engaged(level[t]) : u # t => k[t] > u \/ victims[level[t]] # t
  PROVE  Filtering'
<1> DEFINE m == level[t]
<1>1. /\ m \in Competed /\ level'[t] = m + 1
      /\ pc'[t] = (IF m + 1 < NrThreads THEN "level" ELSE "cs")
      /\ \A u \in Threads : u # t => pc'[u] = pc[u] /\ level'[u] = level[u]
      /\ UNCHANGED ctr
  BY DEF Climb, Within, Goto, FilterLockTypes, Shown, Climbing
<1>2. \A l \in Competed : ResetDone(l)' <=> ResetDone(l)
  BY <1>1, ResetKept, Numbers
<1>3. \A l \in Competed : /\ t \in Above(l)' <=> t \in Above(l) \/ l = m
                          /\ t \in Engaged(l)' <=> t \in Engaged(l)
                          /\ t \in Engaged(l) <=> t \in Above(l) \/ l = m
  <2>1. NrThreads \in Nat /\ m \in Nat
    BY <1>1, NrThreadsAssumption DEF Competed
  <2>2. \A l \in Competed : l \in Nat /\ l <= NrThreads - 1
    BY NrThreadsAssumption DEF Competed
  <2>3. m + 1 < NrThreads \/ m + 1 = NrThreads
    BY <1>1, <2>1, <2>2
  <2> QED
    BY <1>1, <2>1, <2>2, <2>3 DEF Engaged, Above
<1>4. \A l \in Competed : Engaged(l) \subseteq Threads /\ Engaged(l)' \subseteq Threads
  BY DEF Engaged, Above
<1> HIDE DEF m
<1>5. ASSUME NEW l \in Competed, ~ResetDone(l)'
      PROVE  NotVictim(l)' /\ VictimThere(l)'
  <2>1. Engaged(l)' \subseteq Engaged(l) /\ Engaged(l) \subseteq Engaged(l)'
    BY <1>1, <1>3, <1>4, Others
  <2>2. ASSUME NEW a \in Engaged(l), NEW u \in Engaged(l), a # u, Past(l, u, a)'
        PROVE  Past(l, u, a) \/ victims[l] # u
    <3>1. a \in Threads /\ u \in Threads
      BY <1>4
    <3>2. CASE u # t
      BY <1>1, <2>2, <3>1, <3>2, Others DEF Past
    <3>3. CASE u = t /\ t \in Above(l)
      BY <3>3 DEF Past
    <3>4. CASE u = t /\ t \notin Above(l)
      <4>1. l = m
        BY <1>3, <2>2, <3>4
      <4> QED
        BY <2>2, <3>4, <4>1 DEF Past, m
    <3> QED
      BY <3>2, <3>3, <3>4
  <2> QED
    BY <1>2, <1>5, <2>1, <2>2, FilterKept
<1> QED
  BY <1>5 DEF Filtering

\* higher_or_equal
LEMMA ScanFilter ==
  ASSUME FilterLockTypes, Shown, Filtering, NEW t \in Threads, Scan(t),
         pc \in [Threads -> FilterLabels \cup {"done"}]
  PROVE  Filtering'
<1>1. /\ pc[t] = "scan" /\ k[t] \in Threads /\ level[t] \in Competed
      /\ k[t] \in Nat /\ level[t] \in Nat /\ levels[k[t]] \in Nat
  <2>1. pc[t] = "scan" /\ k[t] \in Threads /\ level[t] \in Competed
    BY DEF Scan, Shown, Climbing
  <2> QED
    BY <2>1, Numbers DEF FilterLockTypes
<1>2. CASE levels[k[t]] >= level[t]
  <2>1. /\ pc'[t] = "check" /\ UNCHANGED <<ctr, levels, victims, level, k>>
        /\ \A u \in Threads : u # t => pc'[u] = pc[u]
    BY <1>1, <1>2 DEF Scan, Within, Goto
  <2> QED
    BY <1>1, <2>1, SpinFilter
<1>3. CASE ~(levels[k[t]] >= level[t])
  <2>1. /\ k'[t] = NextOther(t, k[t] + 1) /\ UNCHANGED <<levels, victims>>
        /\ \A u \in Threads : u # t => k'[u] = k[u]
    BY <1>1, <1>3 DEF Scan, FilterLockTypes
  <2>2. \A u \in Engaged(level[t]) : u \in Threads /\ u # k[t]
    BY <1>1, <1>3, EngagedThreads
  <2>3. \A u \in Engaged(level[t]) : u # t /\ k'[t] > u => k[t] > u
    BY <1>1, <2>1, <2>2, ScanGoesOn
  <2>4. CASE k'[t] < NrThreads
    <3>1. /\ pc'[t] = "scan" /\ UNCHANGED <<ctr, levels, victims, level>>
          /\ \A u \in Threads : u # t => pc'[u] = pc[u]
      BY <1>3, <2>4 DEF Scan, Within, Goto
    <3> QED
      BY <1>1, <2>1, <2>3, <3>1, SpinFilter
  <2>5. CASE ~(k'[t] < NrThreads)
    <3>1. Climb(t, pc[t])
      BY <1>1, <1>3, <2>5 DEF Scan
    <3>2. \A u \in Engaged(level[t]) : k'[t] > u
      <4>1. k'[t] \in Nat /\ NrThreads \in Nat
        BY <1>1, <2>1, NrThreadsAssumption DEF NextOther
      <4>2. \A u \in Engaged(level[t]) : u \in Nat /\ u < NrThreads
        BY <2>2, Numbers
      <4> QED
        BY <2>5, <4>1, <4>2
    <3>3. \A u \in Engaged(level[t]) : u # t => k[t] > u
      BY <2>3, <3>2
    <3> QED
      BY <1>1, <2>1, <3>1, <3>3, ClimbFilter
  <2> QED
    BY <2>4, <2>5
<1> QED
  BY <1>2, <1>3

\* tid == victims[level].load()
LEMMA CheckFilter ==
  ASSUME FilterLockTypes, Shown, Filtering, NEW t \in Threads, Check(t),
         pc \in [Threads -> FilterLabels \cup {"done"}]
  PROVE  Filtering'
<1>1. pc[t] = "check"
  BY DEF Check
<1>2. CASE victims[level[t]] = t
  <2>1. /\ pc'[t] = "scan" /\ UNCHANGED <<ctr, levels, victims, level>>
        /\ k'[t] = NextOther(t, 0)
        /\ \A u \in Threads : u # t => pc'[u] = pc[u] /\ k'[u] = k[u]
    BY <1>2 DEF Check, Within, Goto, FilterLockTypes
  <2>2. Engaged(level[t]) \subseteq Threads
    BY DEF Engaged, Above
  <2> QED
    BY <1>1, <2>1, <2>2, ScanBegins, SpinFilter
<1>3. CASE victims[level[t]] # t
  <2>1. Climb(t, pc[t]) /\ UNCHANGED <<levels, victims, k>>
    BY <1>1, <1>3 DEF Check
  <2> QED
    BY <1>1, <1>3, <2>1, ClimbFilter
<1> QED
  BY <1>2, <1>3

\* unlock(): the thread that leaves is not the victim of a level where others are.
LEMMA UnlockFilter ==
  ASSUME FilterLockTypes, Shown, Filtering, NEW t \in Threads, LeaveLevels(t),
         pc \in [Threads -> FilterLabels \cup {"done"}]
  PROVE  Filtering'
<1>1. /\ pc[t] = "cs" /\ pc'[t] \in {FilterEntry, "end"} /\ level[t] = NrThreads /\ level'[t] = 1
      /\ \A u \in Threads : u # t => pc'[u] = pc[u] /\ level'[u] = level[u]
      /\ UNCHANGED <<ctr, victims, k>>
  BY DEF LeaveLevels, EndIteration, Goto, FilterLockTypes, Shown
<1>2. \A l \in Competed : ResetDone(l)' <=> ResetDone(l)
  BY <1>1, ResetKept, Numbers, FilterLockLabel
<1>3. \A l \in Competed : t \in Above(l) /\ t \in Engaged(l) /\ t \notin Above(l)' /\ t \notin Engaged(l)'
  <2>1. \A l \in Competed : l \in Nat /\ l >= 1 /\ NrThreads > 1
    BY NrThreadsAssumption DEF Competed
  <2>2. pc'[t] = "cs" => NrThreads = 1
    BY <1>1, NrThreadsAssumption DEF FilterEntry
  <2>3. pc'[t] \notin {"scan", "check"}
    BY <1>1 DEF FilterEntry
  <2> QED
    BY <1>1, <2>1, <2>2, <2>3 DEF Engaged, Above
<1>4. \A l \in Competed : Engaged(l) \subseteq Threads /\ Engaged(l)' \subseteq Threads
  BY DEF Engaged, Above
<1>5. ASSUME NEW l \in Competed, ~ResetDone(l)'
      PROVE  NotVictim(l)' /\ VictimThere(l)'
  <2>1. \A u \in Engaged(l)' : u \in Engaged(l) /\ u # t
    BY <1>1, <1>3, <1>4, Others
  <2>2. \A a, u \in Engaged(l) : u \in Engaged(l)' /\ Past(l, u, a)' => Past(l, u, a)
    BY <1>1, <1>3, <1>4, Others DEF Past
  <2>3. ASSUME NEW a \in Engaged(l)', victims[l] \in Engaged(l)
        PROVE  victims[l] \in Engaged(l)'
    <3>1. victims[l] # t
      BY <1>2, <1>3, <1>5, <2>1, <2>3 DEF Filtering, NotVictim, Past
    <3> QED
      BY <1>1, <1>4, <2>3, <3>1, Others
  <2> QED
    BY <1>1, <1>2, <1>5, <2>1, <2>2, <2>3, FilterKept
<1> QED
  BY <1>5 DEF Filtering

\* A thread that begins the next execution finds nobody in the lock.
LEMMA ArriveFilter ==
  ASSUME FilterIInv, NEW t \in Threads, FilterArrive(t)
  PROVE  Filtering'
<1>0. /\ FilterLockTypes /\ Shown /\ Filtering /\ Separated(Waits)
      /\ pc \in [Threads -> FilterLabels \cup {"done"}] /\ ctr \in [Threads -> Nat]
  BY DEF FilterIInv, FilterLockInv, DriverInv, DriverTypeOK
<1>1. /\ pc[t] = "arrive" /\ pc'[t] = "wait" /\ ctr'[t] = ctr[t] + 1
      /\ UNCHANGED <<levels, victims, level, k>>
      /\ \A u \in Threads : u # t => pc'[u] = pc[u] /\ ctr'[u] = ctr[u]
  BY <1>0 DEF FilterArrive, Arrive, Goto, levelVars
<1>2. \A l \in Competed : /\ t \in Above(l)' <=> t \in Above(l)
                          /\ t \in Engaged(l)' <=> t \in Engaged(l)
  BY <1>1 DEF Above, Engaged
<1>3. ASSUME NEW l \in Competed, ResetDone(l), ~ResetDone(l)', NEW u \in Engaged(l)
      PROVE  FALSE
  <2>1. u \in Threads /\ pc[u] \in FilterWork /\ l \in Threads
    BY <1>0, EngagedThreads, Numbers
  <2>2. u # t /\ pc[u] \notin Waits
    BY <1>1, <2>1 DEF FilterWork, Waits
  <2>3. ctr[u] <= ctr[t] /\ ctr[u] \in Nat /\ ctr[t] \in Nat /\ ctr[l] \in Nat
    BY <1>0, <2>1, <2>2 DEF Separated, Returned
  <2>4. \A v \in Threads : ctr'[v] >= ctr'[l]
    BY <1>1, <1>3, <2>1 DEF ResetDone, Released
  <2>5. CASE l = t
    BY <1>1, <2>1, <2>2, <2>3, <2>4, <2>5
  <2>6. CASE l # t
    <3>1. pc[l] = "wait" /\ ctr'[l] = ctr[l] /\ ~Released(l)
      BY <1>1, <1>3, <2>1, <2>6 DEF ResetDone
    <3>2. PICK v \in Threads : ~(ctr[v] >= ctr[l])
      BY <3>1 DEF Released
    <3>3. ctr[v] \in Nat
      BY <1>0
    <3>4. v = t
      BY <1>1, <2>4, <3>1, <3>2
    <3>5. ctr'[u] >= ctr[l] /\ ctr'[u] = ctr[u]
      BY <1>1, <2>1, <2>2, <2>4, <3>1
    <3> QED
      BY <2>3, <3>2, <3>4, <3>5
  <2> QED
    BY <2>5, <2>6
<1> QED
  BY <1>0, <1>1, <1>2, <1>3, Outside

\* Every statement preserves the filter.
LEMMA NextFilter == FilterIInv /\ [FilterNext]_filterVars => Filtering'
<1> SUFFICES ASSUME FilterIInv, [FilterNext]_filterVars
             PROVE  Filtering'
  OBVIOUS
<1>0. FilterLockTypes /\ Shown /\ Filtering /\ pc \in [Threads -> FilterLabels \cup {"done"}]
  BY DEF FilterIInv, FilterLockInv, DriverInv, DriverTypeOK
<1>1. ASSUME NEW t \in Threads, ResetLevel(t) \/ FilterEndExec(t)
      PROVE  Filtering'
  <2>1. /\ pc[t] \in {"resetLevel", "end"}
        /\ pc'[t] \in {"resetLevel", "resetVictim", "done"}
        /\ \A u \in Threads : u # t => pc'[u] = pc[u]
        /\ UNCHANGED <<ctr, victims, level, k>>
    BY <1>0, <1>1 DEF ResetLevel, FilterEndExec, Within, NextExec, Goto, levelVars
  <2>2. \A l \in Threads : ResetDone(l)' <=> ResetDone(l)
    BY <2>1, ResetKept
  <2>3. \A l \in Competed : /\ t \in Above(l)' <=> t \in Above(l)
                            /\ t \in Engaged(l)' <=> t \in Engaged(l)
    BY <2>1 DEF Above, Engaged
  <2> QED
    BY <1>0, <2>1, <2>2, <2>3, Outside, Numbers
<1>2. ASSUME NEW t \in Threads, ResetVictim(t)
      PROVE  Filtering'
  <2>1. /\ pc[t] = "resetVictim" /\ pc'[t] = "arrive"
        /\ \A u \in Threads : u # t => pc'[u] = pc[u] /\ level'[u] = level[u]
        /\ \A l \in Competed : l # t => victims'[l] = victims[l]
        /\ UNCHANGED <<ctr, level, k>>
    BY <1>0, <1>2, Numbers DEF ResetVictim, Within, Goto, FilterLockTypes
  <2>2. \A l \in Competed : l = t => ResetDone(l)'
    BY <2>1 DEF ResetDone
  <2>3. \A l \in Competed : l # t => (ResetDone(l)' <=> ResetDone(l))
    BY <2>1, Numbers DEF ResetDone, Released
  <2>4. \A l \in Competed : Above(l)' = Above(l) /\ Engaged(l)' = Engaged(l)
    BY <2>1 DEF Above, Engaged
  <2>5. ASSUME NEW l \in Competed, ~ResetDone(l)'
        PROVE  NotVictim(l)' /\ VictimThere(l)'
    BY <1>0, <2>1, <2>2, <2>3, <2>4, <2>5 DEF Filtering, NotVictim, VictimThere, Past
  <2> QED
    BY <2>5 DEF Filtering
<1>3. ASSUME NEW t \in Threads, FilterStart(t)
      PROVE  Filtering'
  <2>1. /\ pc[t] = "wait" /\ pc'[t] \in {FilterEntry, "end"} /\ Released(t) /\ level'[t] = 1
        /\ \A u \in Threads : u # t => pc'[u] = pc[u] /\ level'[u] = level[u]
        /\ UNCHANGED <<ctr, victims, k>>
    BY <1>0, <1>3 DEF FilterStart, Start, Goto, FilterLockTypes
  <2>2. \A l \in Threads : ResetDone(l)' <=> ResetDone(l)
    BY <2>1, FilterLockLabel, ResetKept
  <2>3. pc'[t] \in {"level", "cs", "end"} /\ (pc'[t] = "cs" => NrThreads = 1)
    BY <2>1, NrThreadsAssumption DEF FilterEntry
  <2>4. \A l \in Competed : l >= 1 /\ l \in Nat /\ NrThreads # 1
    BY NrThreadsAssumption DEF Competed
  <2>5. \A l \in Competed : /\ t \in Above(l)' <=> t \in Above(l)
                            /\ t \in Engaged(l)' <=> t \in Engaged(l)
    BY <2>1, <2>3, <2>4 DEF Above, Engaged
  <2> QED
    BY <1>0, <2>1, <2>2, <2>5, Outside, Numbers
<1>4. ASSUME NEW t \in Threads, SetLevel(t)
      PROVE  Filtering'
  <2>1. /\ pc[t] = "level" /\ pc'[t] = "victim" /\ UNCHANGED <<ctr, victims, level, k>>
        /\ \A u \in Threads : u # t => pc'[u] = pc[u]
    BY <1>0, <1>4 DEF SetLevel, Within, Goto
  <2>2. \A l \in Threads : ResetDone(l)' <=> ResetDone(l)
    BY <2>1, ResetKept
  <2>3. \A l \in Competed : /\ t \in Above(l)' <=> t \in Above(l)
                            /\ t \in Engaged(l)' <=> t \in Engaged(l)
    BY <2>1 DEF Above, Engaged
  <2> QED
    BY <1>0, <2>1, <2>2, <2>3, Outside, Numbers
<1>5. CASE UNCHANGED filterVars
  BY <1>0, <1>5 DEF filterVars, driverVars, levelVars, Filtering, NotVictim, VictimThere, Past,
                    Engaged, Above, ResetDone, Released
<1>6. QED
  BY <1>0, <1>1, <1>2, <1>3, <1>4, <1>5, ArriveFilter, SetVictimFilter, ScanFilter, CheckFilter, UnlockFilter
     DEF FilterNext, FilterStep

\* The inductive invariant holds of every behaviour.
THEOREM FilterInvariance == FilterSpec => []FilterIInv
<1>1. FilterIInv /\ [FilterNext]_filterVars => FilterIInv'
  BY FilterNextDriver, NextShown, NextFilter DEF FilterIInv, FilterLockInv
<1>2. QED
  BY <1>1, FilterInitIInv, PTL DEF FilterSpec

\* The filter lock and its driver keep their types, for any number of threads:
\* levels and victims never hold what is not a level or an identifier.
THEOREM FilterTypeCorrect == FilterSpec => []FilterTypeOK
<1>1. FilterIInv => FilterTypeOK
  BY DEF FilterIInv, FilterLockInv, DriverInv, FilterLockTypes, FilterTypeOK
<1>2. QED
  BY <1>1, FilterInvariance, PTL

-----------------------------------------------------------------------------
(* Counting the threads above a level. *)

\* The threads above level l, and those that have dropped out to reset the
\* victim of a higher level.
Filterable(l) == Above(l) \cup {d \in Threads : d > l /\ ResetDone(d)}

\* At every level somebody is filtered out, if two get past it.
LEMMA LevelFilters ==
  ASSUME FilterLockTypes, Shown, Filtering, NEW l \in Competed,
         NEW a \in Above(l), NEW b \in Above(l), a # b
  PROVE  /\ Filterable(l) \subseteq Filterable(l - 1)
         /\ \E v \in Filterable(l - 1) : v \notin Filterable(l)
         /\ Above(l) \subseteq Above(l - 1)
<1>0. l \in Nat \ {0} /\ l \in Threads /\ Threads \subseteq Nat /\ NrThreads \in Nat /\ l < NrThreads
  BY Numbers
<1>1. Above(l) \subseteq Engaged(l) /\ Engaged(l) \subseteq Above(l - 1) /\ Engaged(l) \subseteq Threads
  <2>1. \A t \in Threads : level[t] \in Nat
    BY <1>0 DEF FilterLockTypes
  <2>2. \A t \in Threads : (level[t] > l => level[t] > l - 1) /\ (level[t] = l => level[t] > l - 1)
    BY <1>0, <2>1
  <2>3. Above(l) \subseteq Engaged(l) /\ Engaged(l) \subseteq Threads
    BY DEF Engaged, Above
  <2>4. ASSUME NEW t \in Engaged(l)
        PROVE  t \in Above(l - 1)
    BY <2>2, <2>4 DEF Engaged, Above
  <2> QED
    BY <2>3, <2>4
<1>2. Filterable(l) \subseteq Filterable(l - 1)
  <2>1. \A d \in Threads : d > l => d > l - 1
    BY <1>0
  <2> QED
    BY <1>1, <2>1 DEF Filterable
<1>3. CASE ResetDone(l)
  <2>1. l \in Filterable(l - 1)
    BY <1>0, <1>3 DEF Filterable
  <2>2. l \notin Filterable(l)
    BY <1>0, <1>3 DEF Filterable, ResetDone, Above
  <2> QED
    BY <1>1, <1>2, <2>1, <2>2
<1>4. CASE ~ResetDone(l)
  <2>1. victims[l] \in Engaged(l)
    BY <1>1, <1>4 DEF Filtering, VictimThere
  <2>2. victims[l] \notin Above(l)
    BY <1>1, <1>4, <2>1 DEF Filtering, NotVictim, Past
  <2>3. ~ResetDone(victims[l])
    <3>1. pc[victims[l]] \in FilterWork
      BY <2>1, EngagedThreads
    <3> QED
      BY <3>1 DEF ResetDone, FilterWork
  <2>4. victims[l] \notin Filterable(l) /\ victims[l] \in Filterable(l - 1)
    BY <1>1, <2>1, <2>2, <2>3 DEF Filterable
  <2> QED
    BY <1>1, <1>2, <2>4
<1> QED
  BY <1>3, <1>4

\* So no more than NrThreads - l get past level l.
Filtered(l) ==
  l < NrThreads /\ (\E a, b \in Above(l) : a # b) => Cardinality(Filterable(l)) <= NrThreads - l

\* By induction on the level: nobody who has got past level l + 1 is missing
\* from level l, and one who is there is not past it.
LEMMA AllFiltered == FilterIInv => \A l \in Nat : Filtered(l)
<1> SUFFICES ASSUME FilterIInv
             PROVE  \A l \in Nat : Filtered(l)
  OBVIOUS
<1>0. FilterLockTypes /\ Shown /\ Filtering
  BY DEF FilterIInv, FilterLockInv
<1>1. IsFiniteSet(Threads) /\ Cardinality(Threads) = NrThreads
  BY FS_Interval, NrThreadsAssumption DEF Threads
<1>2. \A l : Filterable(l) \in SUBSET Threads
  BY DEF Filterable, Above
<1>3. \A l : IsFiniteSet(Filterable(l)) /\ Cardinality(Filterable(l)) \in Nat
  BY <1>1, <1>2, FS_Subset, FS_CardinalityType
<1>4. Filtered(0)
  <2>1. Cardinality(Filterable(0)) <= NrThreads
    BY <1>1, <1>2, FS_Subset
  <2> QED
    BY <2>1, NrThreadsAssumption DEF Filtered
<1>5. ASSUME NEW n \in Nat, Filtered(n), n + 1 < NrThreads, NEW a \in Above(n + 1), NEW b \in Above(n + 1), a # b
      PROVE  Cardinality(Filterable(n + 1)) <= NrThreads - (n + 1)
  <2>1. n + 1 \in Competed /\ (n + 1) - 1 = n
    BY <1>5, NrThreadsAssumption DEF Competed
  <2>2. PICK v \in Filterable(n) : v \notin Filterable(n + 1) /\ Filterable(n + 1) \subseteq Filterable(n) /\ Above(n + 1) \subseteq Above(n)
    BY <1>0, <1>5, <2>1, LevelFilters
  <2>3. Cardinality(Filterable(n)) <= NrThreads - n
    BY <1>5, <2>2, NrThreadsAssumption DEF Filtered
  <2>4. Cardinality(Filterable(n) \ {v}) = Cardinality(Filterable(n)) - 1 /\ IsFiniteSet(Filterable(n) \ {v})
    BY <1>3, FS_RemoveElement
  <2>5. Cardinality(Filterable(n + 1)) <= Cardinality(Filterable(n) \ {v})
    BY <2>2, <2>4, FS_Subset
  <2> QED
    BY <1>3, <2>3, <2>4, <2>5, NrThreadsAssumption
<1>6. \A n \in Nat : Filtered(n) => Filtered(n + 1)
  BY <1>5 DEF Filtered
<1> DEFINE S == {l \in Nat : Filtered(l)}
<1>7. 0 \in S /\ \A n \in Nat : n \in S => n + 1 \in S
  BY <1>4, <1>6
<1> HIDE DEF S
<1>8. Nat \subseteq S
  BY <1>7, Induction
<1> QED
  BY <1>8 DEF S

\* At most NrThreads - l threads are past level l, for any number of threads and
\* although every thread clears entries of victims[] between executions.
THEOREM LevelsAreFiltered == FilterSpec => []LevelsFilter
<1>1. ASSUME FilterIInv, NEW l \in 1 .. NrThreads - 1
      PROVE  Cardinality(Above(l)) <= NrThreads - l
  <2>0. l \in Nat /\ l < NrThreads /\ NrThreads \in Nat
    BY NrThreadsAssumption
  <2>1. Filtered(l)
    BY <1>1, <2>0, AllFiltered
  <2>2. IsFiniteSet(Threads)
    BY FS_Interval, NrThreadsAssumption DEF Threads
  <2>3. IsFiniteSet(Filterable(l)) /\ Above(l) \in SUBSET Filterable(l)
    <3>1. Filterable(l) \in SUBSET Threads
      BY DEF Filterable, Above
    <3> QED
      BY <2>2, <3>1, FS_Subset DEF Filterable
  <2>4. Cardinality(Above(l)) <= Cardinality(Filterable(l)) /\ Cardinality(Above(l)) \in Nat /\ Cardinality(Filterable(l)) \in Nat
    BY <2>3, FS_Subset, FS_CardinalityType
  <2>5. CASE \E a, b \in Above(l) : a # b
    BY <2>0, <2>1, <2>4, <2>5 DEF Filtered
  <2>6. CASE Above(l) = {}
    BY <2>0, <2>6, FS_EmptySet
  <2>7. CASE \E a \in Above(l) : Above(l) = {a}
    <3>1. Cardinality(Above(l)) = 1
      BY <2>7, FS_Singleton
    <3> QED
      BY <2>0, <3>1
  <2> QED
    BY <2>5, <2>6, <2>7
<1>2. FilterIInv => LevelsFilter
  BY <1>1 DEF LevelsFilter
<1>3. QED
  BY <1>2, FilterInvariance, PTL

\* The filter lock excludes, for any number of threads, executions and runs.
THEOREM FilterLockExcludes == FilterSpec => []MutualExclusion
<1>1. ASSUME FilterIInv, NEW a \in Threads, NEW b \in Threads, pc[a] = "cs", pc[b] = "cs", a # b
      PROVE  FALSE
  <2>0. Shown /\ NrThreads \in Nat /\ NrThreads >= 2 /\ NrThreads - 1 \in Nat
    BY <1>1, NrThreadsAssumption DEF FilterIInv, FilterLockInv, Threads
  <2>1. {a, b} \in SUBSET Filterable(NrThreads - 1) /\ a \in Above(NrThreads - 1) /\ b \in Above(NrThreads - 1)
    BY <1>1 DEF Above, Filterable
  <2>2. Filtered(NrThreads - 1)
    BY <1>1, <2>0, AllFiltered
  <2>3. Cardinality(Filterable(NrThreads - 1)) <= 1
    BY <1>1, <2>0, <2>1, <2>2 DEF Filtered
  <2>4. IsFiniteSet(Filterable(NrThreads - 1))
    <3>1. Filterable(NrThreads - 1) \in SUBSET Threads
      BY DEF Filterable, Above
    <3>2. IsFiniteSet(Threads)
      BY FS_Interval, NrThreadsAssumption DEF Threads
    <3> QED
      BY <3>1, <3>2, FS_Subset
  <2>5. IsFiniteSet({a}) /\ Cardinality({a}) = 1 /\ Cardinality({a} \cup {b}) = 2
    <3>1. IsFiniteSet({a}) /\ Cardinality({a}) = 1
      BY FS_Singleton
    <3>2. Cardinality({a} \cup {b}) = Cardinality({a}) + 1
      BY <1>1, <3>1, FS_AddElement
    <3> QED
      BY <3>1, <3>2
  <2>6. Cardinality({a} \cup {b}) <= Cardinality(Filterable(NrThreads - 1)) /\ Cardinality(Filterable(NrThreads - 1)) \in Nat
    BY <2>1, <2>4, FS_Subset, FS_CardinalityType
  <2> QED
    BY <2>3, <2>5, <2>6
<1>2. FilterIInv => MutualExclusion
  BY <1>1 DEF FilterIInv, DriverInv, DriverTypeOK, FilterLabels, MutualExclusion, Inside
<1>3. QED
  BY <1>2, FilterInvariance, PTL

(* The account of the driver. *)

FilterBefore == {"resetLevel", "resetVictim", "arrive", "wait"}

FilterAccount == Account(FilterBefore, FilterWork, {})

\* It begins empty.
LEMMA FilterAccountInit == FilterInit => FilterAccount
  BY AccountInit DEF FilterInit, FilterAccount, Kinds, FilterBefore, FilterWork

\* Every statement keeps it.
LEMMA FilterAccountNext == FilterIInv /\ FilterAccount /\ [FilterNext]_filterVars => FilterAccount'
<1> SUFFICES ASSUME FilterIInv, FilterAccount, [FilterNext]_filterVars
             PROVE  FilterAccount'
  OBVIOUS
<1>1. Kinds(FilterBefore, FilterWork, {}) /\ DriverTypeOK(FilterLabels) /\ Counted(FilterWork)
  BY DEF Kinds, FilterBefore, FilterWork, FilterIInv, DriverInv
<1>2. ASSUME NEW t \in Threads, FilterStep(t)
      PROVE  DriverStep(t, FilterBefore, FilterWork, {})
  <2>1. CASE ResetLevel(t) \/ ResetVictim(t) \/ FilterArrive(t)
    BY <2>1, QuietStep DEF ResetLevel, ResetVictim, FilterArrive, FilterBefore, FilterWork
  <2>2. CASE FilterStart(t)
    <3>1. FilterEntry \in FilterWork
      BY DEF FilterEntry, FilterWork
    <3> QED
      BY <1>1, <2>2, <3>1, StartStep DEF FilterStart, FilterBefore, FilterWork
  <2>3. CASE SetLevel(t) \/ SetVictim(t)
    BY <2>3, QuietStep DEF SetLevel, SetVictim, FilterBefore, FilterWork
  <2>4. CASE Scan(t) \/ Check(t)
    <3>1. PICK here \in {"scan", "check"}, there \in {"level", "scan", "check", "cs"} :
            Within(t, here, there)
      BY <2>4 DEF Scan, Check, Climb
    <3> QED
      BY <3>1, QuietStep DEF FilterBefore, FilterWork
  <2>5. CASE LeaveLevels(t)
    <3>1. FilterEntry \in FilterWork
      BY DEF FilterEntry, FilterWork
    <3> QED
      BY <1>1, <2>5, <3>1, EndIterationStep DEF LeaveLevels, FilterBefore, FilterWork
  <2>6. CASE FilterEndExec(t)
    BY <1>1, <2>6, NextExecStep DEF FilterEndExec, FilterBefore, FilterWork
  <2> QED
    BY <1>2, <2>1, <2>2, <2>3, <2>4, <2>5, <2>6 DEF FilterStep
<1>3. CASE FilterNext
  BY <1>1, <1>2, <1>3, DriverStepAccount DEF FilterNext, FilterAccount
<1>4. CASE UNCHANGED filterVars
  BY <1>4, AccountStutters DEF FilterAccount, filterVars
<1> QED
  BY <1>3, <1>4

\* Under the filter lock too.
THEOREM FilterWorkSampled == FilterSpec => [](AllWorkDone /\ NoSampleLost)
<1>1. FilterIInv /\ FilterAccount => AllWorkDone /\ NoSampleLost
  BY AccountComplete DEF FilterIInv, DriverInv, FilterAccount
<1>2. FilterSpec => []FilterAccount
  BY FilterAccountInit, FilterAccountNext, FilterInvariance, PTL DEF FilterSpec
<1> QED
  BY <1>1, <1>2, FilterInvariance, PTL

-----------------------------------------------------------------------------
(* The benchmarks of a library's mutex and of protected objects.  The      *)
(* guard is down while somebody is inside.  The calls that wait for the    *)
(* entry are those of different threads, and nobody else waits (Calls).    *)

LibraryWork == {"lock", "queued", "cs"}

GuardLocks == \A t \in Threads : pc[t] = "cs" => ~Guard

Calls ==
  /\ waiting \in Seq(Threads)
  /\ \A i \in 1 .. Len(waiting) : pc[waiting[i]] = "queued"
  /\ \A i, m \in 1 .. Len(waiting) : waiting[i] = waiting[m] => i = m

LibraryLockInv == Guard \in BOOLEAN /\ GuardLocks /\ Exclusive /\ Calls

LibraryIInv == DriverInv(LibraryLabels, LibraryWork, Waits) /\ LibraryLockInv

\* Nothing but the calls and the ends of critical sections touches the guard,
\* the calls, or a thread inside.
LEMMA LibraryElsewhere ==
  ASSUME LibraryLockInv, UNCHANGED <<Guard, waiting>>, NEW t \in Threads, NEW there,
         pc[t] # "queued", there # "cs", pc \in [Threads -> LibraryLabels \cup {"done"}],
         pc' = [pc EXCEPT ![t] = there]
  PROVE  LibraryLockInv'
<1>1. Calls'
  BY DEF LibraryLockInv, Calls
<1>2. Guard' \in BOOLEAN /\ GuardLocks' /\ Exclusive'
  BY DEF LibraryLockInv, GuardLocks, Exclusive
<1> QED
  BY <1>1, <1>2 DEF LibraryLockInv

\* The guard is up and nobody waits when the program starts.
LEMMA LibraryInitIInv == LibraryInit => LibraryIInv
<1> SUFFICES ASSUME LibraryInit
             PROVE  LibraryIInv
  OBVIOUS
<1>1. DriverInv(LibraryLabels, LibraryWork, Waits)
  BY DriverInitInv DEF LibraryInit, LibraryLabels, LibraryWork, Waits
<1>2. LibraryLockInv
  BY DEF LibraryInit, DriverInit, LibraryLockInv, GuardLocks, Exclusive, Calls
<1> QED
  BY <1>1, <1>2 DEF LibraryIInv

\* PO_FIFO_Lock's main program gives nobody more than --iterations either.
LEMMA LibraryShareRange ==
  ASSUME NEW t \in Threads, run[t] \in Nat
  PROVE  LibraryShare(t) \in 0 .. NrIter
<1>1. CASE ~Fifo
  BY <1>1, IterPerThreadRange DEF LibraryShare
<1>2. CASE Fifo
  <2> DEFINE q == NrIter \div NrThreads
  <2> DEFINE r == NrIter % NrThreads
  <2>1. NrIter = NrThreads * q + r /\ q \in Nat /\ r \in Nat /\ r < NrThreads
    BY DivMod, NrThreadsAssumption, NrIterAssumption
  <2>2. LibraryShare(t) = q + (IF t < r THEN 1 ELSE 0)
    BY <1>2 DEF LibraryShare
  <2>3. t \in Nat
    BY DEF Threads
  <2> HIDE DEF q, r
  <2>4. q <= NrThreads * q /\ NrThreads * q \in Nat
    BY <2>1, NrThreadsAssumption
  <2> QED
    BY <2>1, <2>2, <2>3, <2>4, NrThreadsAssumption, NrIterAssumption
<1> QED
  BY <1>1, <1>2

\* Every statement preserves the invariant.
LEMMA LibraryNextIInv == LibraryIInv /\ [LibraryNext]_libraryVars => LibraryIInv'
<1> SUFFICES ASSUME LibraryIInv, [LibraryNext]_libraryVars
             PROVE  LibraryIInv'
  OBVIOUS
<1> USE DEF LibraryIInv
<1>1. pc \in [Threads -> LibraryLabels \cup {"done"}]
  BY DEF DriverInv, DriverTypeOK
<1>2. ASSUME NEW t \in Threads, LibraryArrive(t)
      PROVE  LibraryIInv'
  <2>1. DriverInv(LibraryLabels, LibraryWork, Waits)'
    BY <1>2, ArriveInv DEF LibraryArrive, LibraryLabels, LibraryWork, Waits
  <2>2. LibraryLockInv'
    BY <1>1, <1>2, LibraryElsewhere DEF LibraryArrive, Arrive, Goto
  <2> QED
    BY <2>1, <2>2
<1>3. ASSUME NEW t \in Threads, LibraryStart(t)
      PROVE  LibraryIInv'
  <2> DEFINE n == IF Participates(t) THEN LibraryShare(t) ELSE 0
  <2> DEFINE there == IF n > 0 THEN "lock" ELSE "end"
  <2>1. n \in 0 .. NrIter
    BY LibraryShareRange, LastRunNat, NrIterAssumption DEF DriverInv, DriverTypeOK
  <2>2. /\ iter' = [iter EXCEPT ![t] = n] /\ iter'[t] = n
        /\ Released(t) /\ UNCHANGED <<ctr, run, exec, samples, worked>>
    BY <1>3 DEF LibraryStart, DriverInv, DriverTypeOK
  <2>3. pc[t] = "wait" /\ pc' = [pc EXCEPT ![t] = there]
    BY <1>3, <2>2 DEF LibraryStart, Goto
  <2> HIDE DEF n
  <2>4. DriverInv(LibraryLabels, LibraryWork, Waits)'
    BY <2>1, <2>2, <2>3, SharesInv DEF LibraryLabels, LibraryWork, Waits
  <2>5. LibraryLockInv'
    BY <1>1, <1>3, <2>3, LibraryElsewhere DEF LibraryStart
  <2> QED
    BY <2>4, <2>5
<1>4. ASSUME NEW t \in Threads, Call(t)
      PROVE  LibraryIInv'
  <2>1. DriverInv(LibraryLabels, LibraryWork, Waits)'
    BY <1>4, WithinInv DEF Call, LibraryLabels, LibraryWork, Waits
  <2>2. /\ pc[t] = "lock" /\ pc' = [pc EXCEPT ![t] = "queued"]
        /\ UNCHANGED Guard /\ waiting' = Append(waiting, t)
    BY <1>4 DEF Call, Within, Goto
  <2>3. waiting \in Seq(Threads) /\ waiting' \in Seq(Threads)
    BY <2>2 DEF LibraryLockInv, Calls
  <2>4. /\ Len(waiting') = Len(waiting) + 1 /\ Len(waiting) \in Nat
        /\ waiting'[Len(waiting) + 1] = t
        /\ \A i \in 1 .. Len(waiting) : waiting'[i] = waiting[i] /\ waiting[i] \in Threads
    BY <2>2, <2>3
  <2>5. \A i \in 1 .. Len(waiting) : waiting[i] # t /\ pc[waiting[i]] = "queued"
    BY <2>2 DEF LibraryLockInv, Calls
  <2>6. Calls'
    <3>1. \A i \in 1 .. Len(waiting') : i \in 1 .. Len(waiting) \/ i = Len(waiting) + 1
      BY <2>4
    <3>2. \A i \in 1 .. Len(waiting') : pc'[waiting'[i]] = "queued"
      BY <1>1, <2>2, <2>4, <2>5, <3>1
    <3>3. \A i, m \in 1 .. Len(waiting) : waiting[i] = waiting[m] => i = m
      BY DEF LibraryLockInv, Calls
    <3>4. \A i, m \in 1 .. Len(waiting') : waiting'[i] = waiting'[m] => i = m
      BY <2>4, <2>5, <3>1, <3>3
    <3> QED
      BY <2>3, <3>2, <3>4 DEF Calls
  <2>7. Guard' \in BOOLEAN /\ GuardLocks' /\ Exclusive'
    BY <1>1, <2>2 DEF LibraryLockInv, GuardLocks, Exclusive
  <2> QED
    BY <2>1, <2>6, <2>7 DEF LibraryLockInv
<1>5. ASSUME NEW t \in Threads, Serve(t)
      PROVE  LibraryIInv'
  <2>1. DriverInv(LibraryLabels, LibraryWork, Waits)'
    BY <1>5, WithinInv DEF Serve, LibraryLabels, LibraryWork, Waits
  <2>2. /\ pc[t] = "queued" /\ pc' = [pc EXCEPT ![t] = "cs"]
        /\ Guard /\ Guard' = FALSE /\ waiting # <<>> /\ t = Head(waiting)
        /\ waiting' = Tail(waiting)
    BY <1>5 DEF Serve, Within, Goto
  <2>3. waiting \in Seq(Threads) /\ waiting' \in Seq(Threads)
    BY <2>2 DEF LibraryLockInv, Calls
  <2>4. /\ Len(waiting') = Len(waiting) - 1 /\ Len(waiting) \in Nat \ {0} /\ waiting[1] = t
        /\ \A i \in 1 .. Len(waiting') : /\ waiting'[i] = waiting[i + 1]
                                         /\ i + 1 \in 1 .. Len(waiting) /\ i + 1 # 1
    BY <2>2, <2>3
  <2>5. Calls'
    <3>1. /\ \A i \in 1 .. Len(waiting) : pc[waiting[i]] = "queued" /\ waiting[i] \in Threads
          /\ \A i, m \in 1 .. Len(waiting) : waiting[i] = waiting[m] => i = m
      BY <2>3 DEF LibraryLockInv, Calls
    <3>2. \A i \in 1 .. Len(waiting') : waiting'[i] # t /\ waiting'[i] \in Threads
      BY <2>4, <3>1
    <3>3. \A i \in 1 .. Len(waiting') : pc'[waiting'[i]] = "queued"
      BY <1>1, <2>2, <2>4, <3>1, <3>2
    <3>4. \A i, m \in 1 .. Len(waiting') : waiting'[i] = waiting'[m] => i = m
      BY <2>4, <3>1
    <3> QED
      BY <2>3, <3>3, <3>4 DEF Calls
  <2>6. Guard' \in BOOLEAN /\ GuardLocks' /\ Exclusive'
    BY <1>1, <2>2 DEF LibraryLockInv, GuardLocks, Exclusive
  <2> QED
    BY <2>1, <2>5, <2>6 DEF LibraryLockInv
<1>6. ASSUME NEW t \in Threads, LibraryLock(t)
      PROVE  LibraryIInv'
  <2>1. DriverInv(LibraryLabels, LibraryWork, Waits)'
    BY <1>6, WithinInv DEF LibraryLock, LibraryLabels, LibraryWork, Waits
  <2>2. /\ pc[t] = "lock" /\ pc' = [pc EXCEPT ![t] = "cs"]
        /\ Guard /\ Guard' = FALSE /\ UNCHANGED waiting
    BY <1>6 DEF LibraryLock, Within, Goto
  <2>3. Calls'
    BY <1>1, <2>2 DEF LibraryLockInv, Calls
  <2>4. Guard' \in BOOLEAN /\ GuardLocks' /\ Exclusive'
    BY <1>1, <2>2 DEF LibraryLockInv, GuardLocks, Exclusive
  <2> QED
    BY <2>1, <2>3, <2>4 DEF LibraryLockInv
<1>7. ASSUME NEW t \in Threads, LibraryUnlock(t)
      PROVE  LibraryIInv'
  <2>1. DriverInv(LibraryLabels, LibraryWork, Waits)'
    BY <1>7, EndIterationInv DEF LibraryUnlock, LibraryLabels, LibraryWork, Waits
  <2>2. PICK there \in {"lock", "end"} :
          /\ pc[t] = "cs" /\ pc' = [pc EXCEPT ![t] = there]
          /\ Guard' = TRUE /\ UNCHANGED waiting
    BY <1>7 DEF LibraryUnlock, EndIteration, Goto
  <2>3. Calls'
    BY <1>1, <2>2 DEF LibraryLockInv, Calls
  <2>4. Guard' \in BOOLEAN /\ GuardLocks' /\ Exclusive'
    BY <1>1, <2>2 DEF LibraryLockInv, GuardLocks, Exclusive
  <2> QED
    BY <2>1, <2>3, <2>4 DEF LibraryLockInv
<1>8. ASSUME NEW t \in Threads, LibraryEndExec(t)
      PROVE  LibraryIInv'
  <2>1. DriverInv(LibraryLabels, LibraryWork, Waits)'
    <3>1. samples' \in SUBSET Nat
      BY <1>8, RecordNat DEF LibraryEndExec, DriverInv
    <3> QED
      BY <1>8, <3>1, NextExecInv DEF LibraryEndExec, LibraryLabels, LibraryWork, Waits
  <2>2. LibraryLockInv'
    <3>1. PICK there : there # "cs" /\ pc[t] = "end" /\ pc' = [pc EXCEPT ![t] = there]
      BY <1>8 DEF LibraryEndExec, NextExec, Goto
    <3> QED
      BY <1>1, <1>8, <3>1, LibraryElsewhere DEF LibraryEndExec
  <2> QED
    BY <2>1, <2>2
<1>9. CASE UNCHANGED libraryVars
  BY <1>9 DEF libraryVars, driverVars, DriverInv, DriverTypeOK, Counted, Separated,
              Returned, LibraryLockInv, GuardLocks, Exclusive, Calls, LastRun
<1> QED
  BY <1>2, <1>3, <1>4, <1>5, <1>6, <1>7, <1>8, <1>9 DEF LibraryNext, LibraryStep

\* The inductive invariant holds of every behaviour.
THEOREM LibraryInvariance == LibrarySpec => []LibraryIInv
  BY LibraryInitIInv, LibraryNextIInv, PTL DEF LibrarySpec

\* The lock, the calls that wait and the driver keep their types.
THEOREM LibraryTypeCorrect == LibrarySpec => []LibraryTypeOK
<1>1. LibraryIInv => LibraryTypeOK
  BY DEF LibraryIInv, DriverInv, LibraryLockInv, Calls, LibraryTypeOK
<1> QED
  BY <1>1, LibraryInvariance, PTL

\* The guard of PO_FIFO_Lock's entry, up again before those that wait are served,
\* lets one of them in at a time, and so do the mutexes.
THEOREM LibraryLocksExclude == LibrarySpec => []MutualExclusion
<1>1. LibraryIInv => MutualExclusion
  BY DEF LibraryIInv, DriverInv, DriverTypeOK, LibraryLabels,
         LibraryLockInv, Exclusive, MutualExclusion, Inside
<1> QED
  BY <1>1, LibraryInvariance, PTL

(* The account of the driver. *)

LibraryBefore == {"arrive", "wait"}

LibraryAccount == Account(LibraryBefore, LibraryWork, {})

\* It begins empty.
LEMMA LibraryAccountInit == LibraryInit => LibraryAccount
  BY AccountInit DEF LibraryInit, LibraryAccount, Kinds, LibraryBefore, LibraryWork

\* Every statement keeps it.
LEMMA LibraryAccountNext ==
  ~Fifo /\ LibraryIInv /\ LibraryAccount /\ [LibraryNext]_libraryVars => LibraryAccount'
<1> SUFFICES ASSUME ~Fifo, LibraryIInv, LibraryAccount, [LibraryNext]_libraryVars
             PROVE  LibraryAccount'
  OBVIOUS
<1>1. Kinds(LibraryBefore, LibraryWork, {}) /\ DriverTypeOK(LibraryLabels) /\ Counted(LibraryWork)
  BY DEF Kinds, LibraryBefore, LibraryWork, LibraryIInv, DriverInv
<1>2. ASSUME NEW t \in Threads, LibraryStep(t)
      PROVE  DriverStep(t, LibraryBefore, LibraryWork, {})
  <2>1. CASE LibraryArrive(t)
    BY <2>1, QuietStep DEF LibraryArrive, LibraryBefore, LibraryWork
  <2>2. CASE LibraryStart(t)
    <3>1. Start(t, "wait", "lock", "end")
      BY <2>2 DEF LibraryStart, LibraryShare, Start
    <3> QED
      BY <1>1, <2>2, <3>1, StartStep DEF LibraryBefore, LibraryWork
  <2>3. CASE Call(t) \/ Serve(t) \/ LibraryLock(t)
    BY <2>3, QuietStep DEF Call, Serve, LibraryLock, LibraryBefore, LibraryWork
  <2>4. CASE LibraryUnlock(t)
    BY <1>1, <2>4, EndIterationStep DEF LibraryUnlock, LibraryBefore, LibraryWork
  <2>5. CASE LibraryEndExec(t)
    BY <1>1, <2>5, NextExecStep DEF LibraryEndExec, LibraryBefore, LibraryWork
  <2> QED
    BY <1>2, <2>1, <2>2, <2>3, <2>4, <2>5 DEF LibraryStep
<1>3. CASE LibraryNext
  BY <1>1, <1>2, <1>3, DriverStepAccount DEF LibraryNext, LibraryAccount
<1>4. CASE UNCHANGED libraryVars
  BY <1>4, AccountStutters DEF LibraryAccount, libraryVars
<1> QED
  BY <1>3, <1>4

\* Under the mutexes and POLock too.  (The shares of PO_FIFO_Lock are not those of
\* a scaling run.)
THEOREM LibraryWorkSampled == ASSUME ~Fifo PROVE LibrarySpec => [](AllWorkDone /\ NoSampleLost)
<1>1. LibraryIInv /\ LibraryAccount => AllWorkDone /\ NoSampleLost
  BY AccountComplete DEF LibraryIInv, DriverInv, LibraryAccount
<1>2. LibrarySpec => []LibraryAccount
  BY LibraryAccountInit, LibraryAccountNext, LibraryInvariance, PTL DEF LibrarySpec
<1> QED
  BY <1>1, <1>2, LibraryInvariance, PTL

(* The order of service. *)

\* What joining, entering and leaving do to the holder and those that wait.
LEMMA HolderAhead ==
  ASSUME NEW S, NEW w \in Seq(S), NEW h \in S
  PROVE  /\ \A t \in S : Append(<<h>> \o w, t) = <<h>> \o Append(w, t)
         /\ Tail(<<h>> \o w) = w /\ <<h>> \o w # <<>>
         /\ w # <<>> => <<Head(w)>> \o Tail(w) = w
         /\ \A i \in DOMAIN (<<h>> \o w) :
              (<<h>> \o w)[i] = h \/ \E m \in 1 .. Len(w) : (<<h>> \o w)[i] = w[m]
<1>1. \A t \in S : Append(<<h>> \o w, t) = <<h>> \o Append(w, t)
  OBVIOUS
<1>2. Tail(<<h>> \o w) = w /\ <<h>> \o w # <<>>
  OBVIOUS
<1>3. w # <<>> => <<Head(w)>> \o Tail(w) = w
  OBVIOUS
<1>4. ASSUME NEW i \in DOMAIN (<<h>> \o w)
      PROVE  (<<h>> \o w)[i] = h \/ \E m \in 1 .. Len(w) : (<<h>> \o w)[i] = w[m]
  <2>1. i \in 1 .. Len(w) + 1
    OBVIOUS
  <2>2. CASE i = 1
    BY <2>2
  <2>3. CASE i # 1
    BY <2>1, <2>3
  <2> QED
    BY <2>2, <2>3
<1> QED
  BY <1>1, <1>2, <1>3, <1>4

\* Who holds the lock is the first of the queue.
LEMMA HolderIs ==
  ASSUME LibraryLockInv, NEW t \in Threads, pc[t] = "cs"
  PROVE  Holding = {t} /\ EntryQueue = <<t>> \o waiting
<1>1. Holding = {t}
  BY DEF LibraryLockInv, Exclusive, Holding
<1> QED
  BY <1>1 DEF EntryQueue

\* Every step of PO_FIFO_Lock's benchmark is one of the queue, or none.
LEMMA LibraryStepIsFifo ==
  ASSUME Fifo, LibraryIInv, LibraryIInv', [LibraryNext]_libraryVars
  PROVE  [EntryFifo!Next]_EntryFifo!vars
<1> USE DEF LibraryIInv
<1>1. /\ pc \in [Threads -> LibraryLabels \cup {"done"}]
      /\ waiting \in Seq(Threads)
  BY DEF DriverInv, DriverTypeOK, LibraryLockInv, Calls
<1>2. ASSUME Holding' = Holding, UNCHANGED waiting
      PROVE  UNCHANGED EntryFifo!vars
  BY <1>2 DEF EntryFifo!vars, EntryQueue
<1>3. ASSUME NEW t \in Threads, LibraryArrive(t) \/ LibraryStart(t) \/ LibraryEndExec(t)
      PROVE  UNCHANGED EntryFifo!vars
  <2>1. PICK there : pc[t] # "cs" /\ there # "cs" /\ pc' = [pc EXCEPT ![t] = there]
    BY <1>3 DEF LibraryArrive, LibraryStart, LibraryEndExec, Arrive, NextExec, Goto
  <2>2. UNCHANGED waiting
    BY <1>3 DEF LibraryArrive, LibraryStart, LibraryEndExec
  <2>3. Holding' = Holding
    BY <1>1, <2>1 DEF Holding
  <2> QED
    BY <1>2, <2>2, <2>3
<1>4. ASSUME NEW t \in Threads, Call(t)
      PROVE  EntryFifo!Join(t)
  <2>1. /\ pc[t] = "lock" /\ pc' = [pc EXCEPT ![t] = "queued"]
        /\ waiting' = Append(waiting, t)
    BY <1>4 DEF Call, Within, Goto
  <2>2. Holding' = Holding
    BY <1>1, <2>1 DEF Holding
  <2>3. \A i \in 1 .. Len(waiting) : waiting[i] # t
    BY <2>1 DEF LibraryLockInv, Calls
  <2>4. CASE Holding = {}
    BY <1>1, <2>1, <2>2, <2>3, <2>4 DEF EntryFifo!Join, EntryQueue
  <2>5. ASSUME NEW h \in Holding
        PROVE  EntryFifo!Join(t)
    <3>1. h \in Threads /\ pc[h] = "cs" /\ pc'[h] = "cs" /\ h # t
      BY <1>1, <2>1, <2>2 DEF Holding
    <3>2. EntryQueue = <<h>> \o waiting /\ EntryQueue' = <<h>> \o waiting'
      <4>1. EntryQueue = <<h>> \o waiting /\ Holding = {h}
        BY <3>1, HolderIs
      <4> QED
        BY <2>2, <4>1 DEF EntryQueue
    <3>3. EntryQueue' = Append(EntryQueue, t)
      BY <1>1, <2>1, <3>1, <3>2, HolderAhead
    <3>4. \A i \in DOMAIN EntryQueue : EntryQueue[i] # t
      BY <1>1, <2>3, <3>1, <3>2, HolderAhead
    <3> QED
      BY <2>2, <3>3, <3>4 DEF EntryFifo!Join
  <2> QED
    BY <2>4, <2>5
<1>5. ASSUME NEW t \in Threads, Serve(t)
      PROVE  EntryFifo!Grant
  <2>1. /\ pc' = [pc EXCEPT ![t] = "cs"] /\ Guard
        /\ waiting # <<>> /\ t = Head(waiting) /\ waiting' = Tail(waiting)
    BY <1>5 DEF Serve, Within, Goto
  <2>2. Holding = {}
    BY <2>1 DEF LibraryLockInv, GuardLocks, Holding
  <2>3. Holding' = {t}
    BY <1>1, <2>1, <2>2 DEF Holding
  <2>4. EntryQueue = waiting /\ EntryQueue' = <<t>> \o waiting'
    BY <2>2, <2>3 DEF EntryQueue
  <2>5. EntryQueue' = EntryQueue
    BY <1>1, <2>1, <2>4, HolderAhead
  <2> QED
    BY <2>1, <2>2, <2>3, <2>4, <2>5 DEF EntryFifo!Grant
<1>6. ASSUME NEW t \in Threads, LibraryUnlock(t)
      PROVE  EntryFifo!Leave
  <2>1. PICK there \in {"lock", "end"} :
          pc[t] = "cs" /\ pc' = [pc EXCEPT ![t] = there] /\ UNCHANGED waiting
    BY <1>6 DEF LibraryUnlock, EndIteration, Goto
  <2>2. Holding = {t} /\ EntryQueue = <<t>> \o waiting
    BY <2>1, HolderIs
  <2>3. Holding' = {}
    BY <1>1, <2>1, <2>2 DEF Holding
  <2>4. EntryQueue' = waiting
    BY <2>1, <2>3 DEF EntryQueue
  <2>5. Tail(EntryQueue) = waiting
    BY <1>1, <2>2, HolderAhead
  <2> QED
    BY <2>2, <2>3, <2>4, <2>5 DEF EntryFifo!Leave
<1>7. CASE UNCHANGED libraryVars
  BY <1>2, <1>7 DEF libraryVars, driverVars, Holding
<1> QED
  BY <1>3, <1>4, <1>5, <1>6, <1>7 DEF LibraryNext, LibraryStep, LibraryLock, EntryFifo!Next

\* PO_FIFO_Lock serves the calls of its entry in their order, one after the
\* other.
THEOREM EntryServesInOrder == ASSUME Fifo PROVE LibrarySpec => ImplementsEntryFifo
<1>1. LibraryInit => EntryFifo!Init
  BY DEF LibraryInit, DriverInit, EntryFifo!Init, EntryQueue, Holding
<1>2. LibraryIInv /\ LibraryIInv' /\ [LibraryNext]_libraryVars => [EntryFifo!Next]_EntryFifo!vars
  BY LibraryStepIsFifo
<1> QED
  BY <1>1, <1>2, LibraryInvariance, PTL DEF LibrarySpec, ImplementsEntryFifo, EntryFifo!Spec

-----------------------------------------------------------------------------
(* The CLH queue lock.  For who may enter, the order of the queue is not   *)
(* needed.  Each thread is going to own one node next, the one it spins on *)
(* if it is in the queue and its present one otherwise, and one node is    *)
(* what tail points to: these are all different (Apart), and lock() and    *)
(* unlock() do no more than exchange two of them.  Among the nodes that    *)
(* are spun on and the one at tail at most one is unlocked (OneGrant).     *)
(* What is allocated and freed is known from the phases between the three  *)
(* barriers (CLHPhases, Heaped).                                           *)

CLHWork == {"mark", "swap", "spin", "cs"}
CLHWaits == {"wait1", "wait2", "wait3"}

\* Labels after the first, the second and the third barrier_wait began.
PhaseOne == {"wait1", "init", "alloc", "arrive2"}
PhaseTwo == {"wait2", "mark", "swap", "spin", "cs", "end", "arrive3"}

CLHPhases ==
  \A t \in Threads : ctr[t] % 3 = IF pc[t] \in PhaseOne THEN 1
                                  ELSE IF pc[t] \in PhaseTwo THEN 2 ELSE 0

\* Labels at which a thread has a node it may lock with, and at which its
\* allocation is not freed.
Equipped == {"arrive2", "wait2", "mark", "swap", "spin", "cs", "end", "arrive3"}
NodeHolders == {t \in Threads : pc[t] \in Equipped \cup {"wait3"}}
Owing == {t \in Threads : pc[t] \in Equipped \cup {"wait3", "free"}}

CLHLockTypes ==
  /\ tail \in Nodes \cup {Null}
  /\ nodeLocked \in [Nodes -> BOOLEAN]
  /\ myNode \in [Threads -> Nodes \cup {Null}]
  /\ myPred \in [Threads -> Nodes \cup {Null}]
  /\ myAlloc \in [Threads -> Heap \cup {Null}]
  /\ alive \subseteq Heap

\* What is allocated: one node per thread.
Heaped ==
  /\ \A t \in Owing : myAlloc[t] \in alive
  /\ \A n \in alive : \E t \in Owing : myAlloc[t] = n
  /\ \A t, u \in Owing : myAlloc[t] = myAlloc[u] => t = u

\* A thread that has not begun still has the node it allocated.
Fresh == \A t \in Threads : pc[t] \in {"arrive2", "wait2"} => myNode[t] # common

\* The node a thread owns next.
Future(t) == IF t \in Queued THEN myPred[t] ELSE myNode[t]

\* Whether tail is that of this execution.
Ready == pc[0] \in Equipped \cup {"alloc", "wait3"}

\* What tail points to and the nodes the threads own next are different ones.
Apart ==
  /\ \A t, u \in NodeHolders : Future(t) = Future(u) => t = u
  /\ \A t, u \in NodeHolders : myNode[t] = myNode[u] => t = u
  /\ Ready => \A t \in NodeHolders : Future(t) # tail

\* A node is freed when nobody is between the barriers around lock().
Alive ==
  /\ \A t \in Threads :
       pc[t] \in Equipped => myNode[t] \in alive \cup {common} /\ Future(t) \in alive \cup {common}
  /\ Ready /\ (\E t \in Threads : pc[t] \in Equipped \cup {"alloc"}) =>
       tail \in alive \cup {common}

\* The nodes that are spun on, and the one that will be.
Watched == {tail} \cup {myPred[t] : t \in Queued}

\* One thread at most finds, or will find, that its turn has come.
OneGrant ==
  /\ Ready => \A m, n \in Watched : ~nodeLocked[m] /\ ~nodeLocked[n] => m = n
  /\ \A t \in Threads : pc[t] = "cs" => ~nodeLocked[myPred[t]]
  /\ \A t \in Threads : pc[t] \in {"swap", "spin", "cs"} => nodeLocked[myNode[t]]

CLHLockInv == CLHLockTypes /\ Heaped /\ Fresh /\ Apart /\ Alive /\ OneGrant

CLHIInv == DriverInv(CLHLabels, CLHWork, CLHWaits) /\ CLHPhases /\ CLHLockInv

USE NrThreadsAssumption

-----------------------------------------------------------------------------

\* How far apart two threads can be.
LEMMA Together ==
  ASSUME DriverInv(CLHLabels, CLHWork, CLHWaits), CLHPhases, NEW t \in Threads, NEW u \in Threads
  PROVE  /\ pc[t] \in {"init", "alloc", "arrive2"} \/ (pc[t] = "wait1" /\ Released(t)) =>
              pc[u] \in PhaseOne \cup {"wait2"}
         /\ pc[t] \in PhaseTwo \ {"wait2"} => pc[u] \in PhaseTwo \cup {"wait3"}
         /\ pc[t] = "free" => pc[u] \in {"wait3", "free", "arrive1", "done", "wait1"}
<1> DEFINE a == ctr[t]
           b == ctr[u]
<1>1. /\ a \in Nat /\ b \in Nat
      /\ pc[t] \in CLHLabels \cup {"done"} /\ pc[u] \in CLHLabels \cup {"done"}
  BY DEF DriverInv, DriverTypeOK
<1>2. /\ (IF pc[t] \in CLHWaits THEN a - 1 ELSE a) <= b
      /\ (IF pc[u] \in CLHWaits THEN b - 1 ELSE b) <= a
  BY DEF DriverInv, Separated, Returned
<1>3. /\ a % 3 = IF pc[t] \in PhaseOne THEN 1 ELSE IF pc[t] \in PhaseTwo THEN 2 ELSE 0
      /\ b % 3 = IF pc[u] \in PhaseOne THEN 1 ELSE IF pc[u] \in PhaseTwo THEN 2 ELSE 0
  BY DEF CLHPhases
<1>4. Released(t) => b >= a
  BY DEF Released
<1> HIDE DEF a, b
<1>5. ASSUME pc[t] \in {"init", "alloc", "arrive2"} \/ (pc[t] = "wait1" /\ Released(t))
      PROVE  pc[u] \in PhaseOne \cup {"wait2"}
  <2>1. a % 3 = 1 /\ (pc[t] \in CLHWaits => b >= a)
    BY <1>3, <1>4, <1>5 DEF PhaseOne, CLHWaits
  <2>2. a <= b
    BY <1>1, <1>2, <2>1
  <2>3. CASE pc[u] \in CLHWaits
    <3>1. b = a \/ b = a + 1
      BY <1>1, <1>2, <2>2, <2>3
    <3>2. b % 3 = 1 \/ b % 3 = 2
      BY <1>1, <2>1, <3>1
    <3> QED
      BY <1>1, <1>3, <2>3, <3>2 DEF PhaseOne, PhaseTwo, CLHWaits
  <2>4. CASE pc[u] \notin CLHWaits
    <3>1. b = a
      BY <1>1, <1>2, <2>2, <2>4
    <3> QED
      BY <1>3, <2>1, <3>1
  <2> QED
    BY <2>3, <2>4
<1>6. ASSUME pc[t] \in PhaseTwo \ {"wait2"}
      PROVE  pc[u] \in PhaseTwo \cup {"wait3"}
  <2>1. a % 3 = 2 /\ pc[t] \notin CLHWaits
    BY <1>3, <1>6 DEF PhaseOne, PhaseTwo, CLHWaits
  <2>2. a <= b
    BY <1>2, <2>1
  <2>3. CASE pc[u] \in CLHWaits
    <3>1. b = a \/ b = a + 1
      BY <1>1, <1>2, <2>2, <2>3
    <3>2. b % 3 = 2 \/ b % 3 = 0
      BY <1>1, <2>1, <3>1
    <3> QED
      BY <1>1, <1>3, <2>3, <3>2 DEF PhaseOne, PhaseTwo, CLHWaits
  <2>4. CASE pc[u] \notin CLHWaits
    <3>1. b = a
      BY <1>1, <1>2, <2>2, <2>4
    <3> QED
      BY <1>3, <2>1, <3>1
  <2> QED
    BY <2>3, <2>4
<1>7. ASSUME pc[t] = "free"
      PROVE  pc[u] \in {"wait3", "free", "arrive1", "done", "wait1"}
  <2>1. a % 3 = 0 /\ pc[t] \notin CLHWaits
    BY <1>3, <1>7 DEF PhaseOne, PhaseTwo, CLHWaits
  <2>2. a <= b
    BY <1>2, <2>1
  <2>3. CASE pc[u] \in CLHWaits
    <3>1. b = a \/ b = a + 1
      BY <1>1, <1>2, <2>2, <2>3
    <3>2. b % 3 = 0 \/ b % 3 = 1
      BY <1>1, <2>1, <3>1
    <3> QED
      BY <1>1, <1>3, <2>3, <3>2 DEF PhaseOne, PhaseTwo, CLHWaits
  <2>4. CASE pc[u] \notin CLHWaits
    <3>1. b = a
      BY <1>1, <1>2, <2>2, <2>4
    <3>2. b % 3 = 0
      BY <2>1, <3>1
    <3> QED
      BY <1>1, <1>3, <2>4, <3>2 DEF PhaseOne, PhaseTwo, CLHWaits, CLHLabels
  <2> QED
    BY <2>3, <2>4
<1> QED
  BY <1>5, <1>6, <1>7

\* The nodes allocated for threads are none but addresses of the heap.
LEMMA CommonApart == common \notin Heap /\ common \in Nodes /\ Heap \subseteq Nodes
  BY DEF common, Heap, Nodes

-----------------------------------------------------------------------------

\* Nobody has a node before the threads are created.
LEMMA CLHInitIInv == CLHInit => CLHIInv
<1> SUFFICES ASSUME CLHInit
             PROVE  CLHIInv
  OBVIOUS
<1>1. DriverInv(CLHLabels, CLHWork, CLHWaits)
  BY DriverInitInv DEF CLHInit, CLHLabels, CLHWork, CLHWaits
<1>2. \A t \in Threads : pc[t] = "arrive1" /\ ctr[t] = 0
  BY DEF CLHInit, DriverInit
<1>3. CLHPhases
  BY <1>2 DEF CLHPhases, PhaseOne, PhaseTwo
<1>4. 0 \in Threads
  BY DEF Threads
<1>5. CLHLockTypes
  BY DEF CLHInit, CLHLockTypes
<1>6. Heaped /\ Fresh /\ Apart /\ Alive /\ OneGrant
  BY <1>2, <1>4
     DEF CLHInit, Heaped, Fresh, Apart, Alive, OneGrant, Owing, NodeHolders, Equipped, Ready
<1> QED
  BY <1>1, <1>3, <1>5, <1>6 DEF CLHIInv, CLHLockInv

\* Outside lock() and unlock(), and without allocation, nothing changes but the
\* label: a thread may give up its place, not take one.
LEMMA CLHElsewhere ==
  ASSUME CLHLockInv, UNCHANGED nodeVars, NEW t \in Threads, NEW there,
         pc \in [Threads -> CLHLabels \cup {"done"}],
         pc' = [pc EXCEPT ![t] = there],
         pc[t] \notin {"swap", "spin", "cs"}, there \notin {"swap", "spin", "cs"},
         there \in Equipped \cup {"wait3"} => pc[t] \in Equipped \cup {"wait3"},
         there \in Equipped => pc[t] \in Equipped,
         there \in {"arrive2", "wait2"} => pc[t] \in {"arrive2", "wait2"},
         pc[t] \in Equipped \cup {"wait3", "free"} <=> there \in Equipped \cup {"wait3", "free"},
         there = "alloc" =>
           /\ t # 0
           /\ Ready => \E u \in Threads : pc[u] \in Equipped \cup {"alloc"}
  PROVE  CLHLockInv'
<1> USE DEF CLHLockInv
<1>1. UNCHANGED <<tail, nodeLocked, myNode, myPred, myAlloc, alive>>
  BY DEF nodeVars
<1>2. \A u \in Threads : pc'[u] = IF u = t THEN there ELSE pc[u]
  OBVIOUS
<1>3. Queued' = Queued /\ Owing' = Owing /\ NodeHolders' \subseteq NodeHolders
  BY <1>2 DEF Queued, Owing, NodeHolders
<1>4. Ready' => Ready
  BY <1>2 DEF Ready, Threads
<1>5. \A u \in Threads : Future(u)' = Future(u)
  BY <1>1, <1>3 DEF Future
<1>6. CLHLockTypes' /\ Heaped' /\ Fresh'
  BY <1>1, <1>2, <1>3 DEF CLHLockTypes, Heaped, Fresh
<1>7. Apart'
  BY <1>1, <1>3, <1>4, <1>5 DEF Apart, NodeHolders
<1>8. Alive'
  <2>1. \A u \in Threads : pc'[u] \in Equipped => pc[u] \in Equipped
    BY <1>2
  <2>2. Ready' /\ (\E u \in Threads : pc'[u] \in Equipped \cup {"alloc"}) =>
          \E u \in Threads : pc[u] \in Equipped \cup {"alloc"}
    BY <1>2, <1>4
  <2> QED
    BY <1>1, <1>4, <1>5, <2>1, <2>2 DEF Alive
<1>9. OneGrant'
  <2>1. Watched' = Watched
    BY <1>1, <1>3 DEF Watched
  <2> QED
    BY <1>1, <1>2, <1>4, <2>1 DEF OneGrant
<1> QED
  BY <1>6, <1>7, <1>8, <1>9

\* init_per_exec_global: whoever has a node has a new one.
LEMMA InitGlobalInv ==
  ASSUME CLHLockInv, NEW t \in Threads, InitGlobal(t), pc \in [Threads -> CLHLabels \cup {"done"}],
         \A u \in Threads : pc[u] \in PhaseOne \cup {"wait2"}
  PROVE  CLHLockInv'
<1> USE DEF CLHLockInv
<1>1. /\ pc[t] = "init" /\ tail' = common /\ nodeLocked' = [nodeLocked EXCEPT ![common] = FALSE]
      /\ UNCHANGED <<myNode, myPred, myAlloc, alive>>
      /\ \A u \in Threads : pc'[u] = IF u = t THEN "alloc" ELSE pc[u]
  BY DEF InitGlobal, Within, Goto
<1>2. Owing' = Owing /\ NodeHolders' = NodeHolders
  BY <1>1 DEF Owing, NodeHolders, Equipped
<1>3. Queued = {} /\ Queued' = {}
  BY <1>1 DEF Queued, PhaseOne
<1>4. CLHLockTypes' /\ Heaped' /\ Fresh'
  BY <1>1, <1>2, CommonApart DEF CLHLockTypes, Heaped, Fresh
<1>5. \A u \in Threads : Future(u)' = Future(u) /\ Future(u) = myNode[u]
  BY <1>1, <1>3 DEF Future
<1>6. \A u \in NodeHolders : pc[u] \in {"arrive2", "wait2"}
  BY DEF NodeHolders, Equipped, PhaseOne
<1>7. Apart'
  <2>1. \A u \in NodeHolders : Future(u) # common
    BY <1>5, <1>6 DEF Fresh, NodeHolders
  <2> QED
    BY <1>1, <1>2, <1>5, <2>1 DEF Apart, NodeHolders
<1>8. Alive'
  BY <1>1, <1>5 DEF Alive, Equipped
<1>9. OneGrant'
  <2>1. Watched' = {common}
    BY <1>1, <1>3 DEF Watched
  <2>2. \A u \in Threads : pc'[u] \notin {"swap", "spin", "cs"}
    BY <1>1 DEF PhaseOne
  <2> QED
    BY <2>1, <2>2 DEF OneGrant
<1> QED
  BY <1>4, <1>7, <1>8, <1>9

\* init_per_exec_per_thread: the memory is nobody else's.
LEMMA AllocInv ==
  ASSUME CLHLockInv, NEW t \in Threads, Alloc(t), pc \in [Threads -> CLHLabels \cup {"done"}],
         \A u \in Threads : pc[u] \in PhaseOne \cup {"wait2"}
  PROVE  CLHLockInv'
<1> USE DEF CLHLockInv
<1>1. /\ pc[t] = "alloc" /\ tail' = tail /\ myPred' = myPred
      /\ \A u \in Threads : pc'[u] = IF u = t THEN "arrive2" ELSE pc[u]
  BY DEF Alloc, Within, Goto
<1>2. PICK n \in Heap \ alive, garbage \in BOOLEAN :
        /\ myAlloc' = [myAlloc EXCEPT ![t] = n]
        /\ myNode' = [myNode EXCEPT ![t] = n]
        /\ nodeLocked' = [nodeLocked EXCEPT ![n] = garbage]
        /\ alive' = alive \cup {n}
  BY DEF Alloc
<1>3. n \in Nodes /\ n # common /\ n \notin alive /\ n \in Heap
  BY CommonApart
<1>4. CLHLockTypes'
  BY <1>1, <1>2, <1>3 DEF CLHLockTypes
<1>5. /\ myAlloc'[t] = n /\ myNode'[t] = n
      /\ \A u \in Threads : u # t => myAlloc'[u] = myAlloc[u] /\ myNode'[u] = myNode[u]
      /\ \A m \in Nodes : m # n => nodeLocked'[m] = nodeLocked[m]
  BY <1>2, <1>3 DEF CLHLockTypes
<1>6. Owing' = Owing \cup {t} /\ NodeHolders' = NodeHolders \cup {t} /\ t \notin Owing /\ t \notin NodeHolders
  BY <1>1 DEF Owing, NodeHolders, Equipped
<1>7. Queued = {} /\ Queued' = {}
  BY <1>1 DEF Queued, PhaseOne
<1>8. Heaped'
  BY <1>2, <1>3, <1>5, <1>6 DEF Heaped, Owing
<1>9. Fresh'
  BY <1>1, <1>3, <1>5 DEF Fresh
<1>10. \A u \in NodeHolders : pc[u] \in {"arrive2", "wait2"}
  BY DEF NodeHolders, Equipped, PhaseOne
<1>11. \A u \in NodeHolders : myNode[u] \in alive
  BY <1>10 DEF Alive, Fresh, Equipped, NodeHolders
<1>12. \A u \in Threads : Future(u) = myNode[u] /\ Future(u)' = myNode'[u]
  BY <1>7 DEF Future
<1>13. Ready' /\ Ready => tail \in alive \cup {common}
  BY <1>1 DEF Alive
<1>14. Ready' => Ready
  BY <1>1 DEF Ready, Equipped, Threads
<1>15. Apart'
  <2>1. \A u, w \in NodeHolders' : myNode'[u] = myNode'[w] => u = w
    BY <1>3, <1>5, <1>6, <1>11, <1>12 DEF Apart, NodeHolders
  <2>2. Ready' => \A u \in NodeHolders' : myNode'[u] # tail
    BY <1>3, <1>5, <1>6, <1>12, <1>13, <1>14 DEF Apart, NodeHolders
  <2> QED
    BY <1>1, <1>6, <1>12, <2>1, <2>2 DEF Apart, NodeHolders
<1>16. Alive'
  BY <1>1, <1>2, <1>5, <1>12, <1>13, <1>14 DEF Alive
<1>17. OneGrant'
  <2>1. Watched' = {tail}
    BY <1>1, <1>7 DEF Watched
  <2>2. \A u \in Threads : pc'[u] \notin {"swap", "spin", "cs"}
    BY <1>1 DEF PhaseOne
  <2> QED
    BY <2>1, <2>2 DEF OneGrant
<1> QED
  BY <1>4, <1>8, <1>9, <1>15, <1>16, <1>17

\* lock(): the thread locks a node that nobody watches yet.
LEMMA MarkInv ==
  ASSUME CLHLockInv, NEW t \in Threads, Mark(t), pc \in [Threads -> CLHLabels \cup {"done"}]
  PROVE  CLHLockInv'
<1> USE DEF CLHLockInv
<1>1. /\ pc[t] = "mark" /\ nodeLocked' = [nodeLocked EXCEPT ![myNode[t]] = TRUE]
      /\ UNCHANGED <<tail, myNode, myPred, myAlloc, alive>>
      /\ \A u \in Threads : pc'[u] = IF u = t THEN "swap" ELSE pc[u]
  BY DEF Mark, Within, Goto
<1>2. Owing' = Owing /\ NodeHolders' = NodeHolders /\ Queued' = Queued /\ t \in NodeHolders /\ t \notin Queued
  BY <1>1 DEF Owing, NodeHolders, Equipped, Queued
<1>3. Ready' = Ready
  BY <1>1 DEF Ready, Equipped, Threads
<1>4. \A u \in Threads : Future(u)' = Future(u)
  BY <1>1, <1>2 DEF Future
<1>5. CLHLockTypes' /\ Heaped' /\ Fresh'
  BY <1>1, <1>2 DEF CLHLockTypes, Heaped, Fresh
<1>6. Apart' /\ Alive'
  BY <1>1, <1>2, <1>3, <1>4 DEF Apart, Alive, NodeHolders, Equipped
<1>7. Watched' = Watched
  BY <1>1, <1>2 DEF Watched
<1>8. myNode[t] \in Nodes
  BY <1>1, CommonApart DEF Alive, Equipped, CLHLockTypes
<1>9. /\ nodeLocked'[myNode[t]] = TRUE
      /\ \A n \in Nodes : n # myNode[t] => nodeLocked'[n] = nodeLocked[n]
      /\ \A n \in Nodes : nodeLocked[n] => nodeLocked'[n]
  BY <1>1, <1>8 DEF CLHLockTypes
<1>10. \A u \in Queued : myPred[u] # myNode[t] /\ myPred[u] \in Nodes
  <2>1. \A u \in Queued : u \in NodeHolders /\ u # t /\ Future(u) = myPred[u] /\ pc[u] \in Equipped
    BY <1>2 DEF Queued, NodeHolders, Equipped, Future
  <2>2. Future(t) = myNode[t]
    BY <1>2 DEF Future
  <2> QED
    BY <1>2, <2>1, <2>2, CommonApart DEF Apart, Alive, CLHLockTypes, NodeHolders
<1>11. Ready => tail # myNode[t]
  BY <1>2 DEF Apart, Future
<1>12. Ready => tail \in Nodes
  BY <1>1, CommonApart DEF Alive, CLHLockTypes, Equipped
<1>13. OneGrant'
  <2>1. Ready => \A n \in Watched : n \in Nodes /\ n # myNode[t]
    BY <1>10, <1>11, <1>12 DEF Watched
  <2>2. Ready' => \A m, n \in Watched' : ~nodeLocked'[m] /\ ~nodeLocked'[n] => m = n
    BY <1>3, <1>7, <1>9, <2>1 DEF OneGrant
  <2>3. \A u \in Threads : pc'[u] = "cs" => ~nodeLocked'[myPred'[u]]
    <3>1. SUFFICES ASSUME NEW u \in Threads, pc'[u] = "cs" PROVE ~nodeLocked'[myPred[u]]
      BY <1>1
    <3>2. pc[u] = "cs" /\ u \in Queued
      BY <1>1, <3>1 DEF Queued
    <3> QED
      BY <1>9, <1>10, <3>2 DEF OneGrant
  <2>4. \A u \in Threads : pc'[u] \in {"swap", "spin", "cs"} => nodeLocked'[myNode'[u]]
    <3>1. SUFFICES ASSUME NEW u \in Threads, pc'[u] \in {"swap", "spin", "cs"}
                   PROVE  nodeLocked'[myNode[u]]
      BY <1>1
    <3>2. CASE u = t
      BY <1>9, <3>2
    <3>3. CASE u # t
      <4>1. pc[u] \in {"swap", "spin", "cs"} /\ nodeLocked[myNode[u]]
        BY <1>1, <3>1, <3>3 DEF OneGrant
      <4>2. myNode[u] \in Nodes
        BY <4>1, CommonApart DEF Alive, Equipped, CLHLockTypes
      <4> QED
        BY <1>9, <4>1, <4>2
    <3> QED
      BY <3>2, <3>3
  <2> QED
    BY <2>2, <2>3, <2>4 DEF OneGrant
<1> QED
  BY <1>5, <1>6, <1>13

\* What is known of a thread between the second and the third barrier.
LEMMA AtWork ==
  ASSUME CLHLockInv, NEW t \in Threads, pc[t] \in {"mark", "swap", "spin", "cs"}
  PROVE  /\ t \in NodeHolders /\ t \in Owing
         /\ myNode[t] \in alive \cup {common} /\ myNode[t] \in Nodes
         /\ Future(t) \in alive \cup {common} /\ Future(t) \in Nodes
         /\ Ready => tail \in alive \cup {common} /\ tail \in Nodes /\ tail # Future(t)
<1>1. t \in NodeHolders /\ t \in Owing /\ pc[t] \in Equipped
  BY DEF NodeHolders, Owing, Equipped
<1>2. alive \cup {common} \subseteq Nodes
  BY CommonApart DEF CLHLockInv, CLHLockTypes
<1>3. myNode[t] \in alive \cup {common} /\ Future(t) \in alive \cup {common}
  BY <1>1 DEF CLHLockInv, Alive
<1>4. Ready => tail \in alive \cup {common} /\ tail # Future(t)
  BY <1>1 DEF CLHLockInv, Alive, Apart
<1> QED
  BY <1>1, <1>2, <1>3, <1>4

\* lock(): tail and the node the thread owns next are exchanged.
LEMMA SwapInv ==
  ASSUME CLHLockInv, Ready, NEW t \in Threads, SwapTail(t), pc \in [Threads -> CLHLabels \cup {"done"}]
  PROVE  CLHLockInv'
<1> USE DEF CLHLockInv
<1>1. /\ pc[t] = "swap" /\ tail' = myNode[t]
      /\ myPred' = [myPred EXCEPT ![t] = tail]
      /\ UNCHANGED <<nodeLocked, myNode, myAlloc, alive>>
      /\ \A u \in Threads : pc'[u] = IF u = t THEN "spin" ELSE pc[u]
  BY DEF SwapTail, Within, Goto
<1>2. /\ t \in NodeHolders
      /\ myNode[t] \in alive \cup {common} /\ myNode[t] \in Nodes
      /\ tail \in alive \cup {common} /\ tail \in Nodes
  BY <1>1, AtWork
<1>3. Owing' = Owing /\ NodeHolders' = NodeHolders /\ Queued' = Queued \cup {t} /\ t \notin Queued
  BY <1>1 DEF Owing, NodeHolders, Equipped, Queued
<1>4. Ready' = Ready
  BY <1>1 DEF Ready, Equipped, Threads
<1>5. Future(t) = myNode[t] /\ Future(t)' = tail
  BY <1>1, <1>3 DEF Future, CLHLockTypes
<1>6. \A u \in Threads : u # t => Future(u)' = Future(u) /\ myPred'[u] = myPred[u]
  BY <1>1, <1>3 DEF Future, CLHLockTypes
<1>7. CLHLockTypes' /\ Heaped' /\ Fresh'
  BY <1>1, <1>2, <1>3 DEF CLHLockTypes, Heaped, Fresh
<1>8. Apart'
  <2>1. ASSUME NEW u \in NodeHolders, NEW w \in NodeHolders, Future(u)' = Future(w)' PROVE u = w
    BY <1>2, <1>5, <1>6, <2>1 DEF Apart, NodeHolders
  <2>2. \A u \in NodeHolders : Future(u)' # tail'
    BY <1>1, <1>2, <1>5, <1>6 DEF Apart, NodeHolders
  <2> QED
    BY <1>1, <1>3, <2>1, <2>2 DEF Apart
<1>9. Alive'
  BY <1>1, <1>2, <1>5, <1>6 DEF Alive, Equipped
<1>10. OneGrant'
  <2>1. nodeLocked[myNode[t]]
    BY <1>1 DEF OneGrant
  <2>2. Watched' \subseteq Watched \cup {myNode[t]}
    BY <1>1, <1>3, <1>6 DEF Watched, CLHLockTypes, Queued
  <2>3. \A m, n \in Watched' : ~nodeLocked'[m] /\ ~nodeLocked'[n] => m = n
    BY <1>1, <2>1, <2>2 DEF OneGrant
  <2>4. \A u \in Threads : pc'[u] = "cs" => ~nodeLocked'[myPred'[u]]
    BY <1>1, <1>6 DEF OneGrant
  <2> QED
    BY <1>1, <2>3, <2>4 DEF OneGrant
<1> QED
  BY <1>7, <1>8, <1>9, <1>10

\* lock() returns to the thread that finds its predecessor's node unlocked.
LEMMA CLHEnterInv ==
  ASSUME CLHLockInv, NEW t \in Threads, CLHEnter(t), pc \in [Threads -> CLHLabels \cup {"done"}]
  PROVE  CLHLockInv'
<1> USE DEF CLHLockInv
<1>1. /\ pc[t] = "spin" /\ ~nodeLocked[myPred[t]]
      /\ UNCHANGED <<tail, nodeLocked, myNode, myPred, myAlloc, alive>>
      /\ \A u \in Threads : pc'[u] = IF u = t THEN "cs" ELSE pc[u]
  BY DEF CLHEnter, Within, Goto, nodeVars
<1>2. Owing' = Owing /\ NodeHolders' = NodeHolders /\ Queued' = Queued
  BY <1>1 DEF Owing, NodeHolders, Equipped, Queued
<1>3. Ready' = Ready
  BY <1>1 DEF Ready, Equipped, Threads
<1>4. \A u \in Threads : Future(u)' = Future(u)
  BY <1>1, <1>2 DEF Future
<1>5. CLHLockTypes' /\ Heaped' /\ Fresh'
  BY <1>1, <1>2 DEF CLHLockTypes, Heaped, Fresh
<1>6. Apart' /\ Alive'
  BY <1>1, <1>2, <1>3, <1>4 DEF Apart, Alive, NodeHolders, Equipped
<1>7. OneGrant'
  <2>1. Watched' = Watched
    BY <1>1, <1>2 DEF Watched
  <2> QED
    BY <1>1, <1>3, <2>1 DEF OneGrant
<1> QED
  BY <1>5, <1>6, <1>7

\* unlock(): the node that its successor watches is unlocked, and the thread
\* takes over the one it has watched itself.
LEMMA UnlockInv ==
  ASSUME CLHLockInv, Ready, NEW t \in Threads, CLHUnlock(t), pc \in [Threads -> CLHLabels \cup {"done"}]
  PROVE  CLHLockInv'
<1> USE DEF CLHLockInv
<1>1. /\ pc[t] = "cs" /\ nodeLocked' = [nodeLocked EXCEPT ![myNode[t]] = FALSE]
      /\ myNode' = [myNode EXCEPT ![t] = myPred[t]]
      /\ UNCHANGED <<tail, myPred, myAlloc, alive>>
  BY DEF CLHUnlock, EndIteration, Goto
<1>2. PICK there \in {"mark", "end"} :
        \A u \in Threads : pc'[u] = IF u = t THEN there ELSE pc[u]
  BY DEF CLHUnlock, EndIteration, Goto
<1>3. /\ t \in NodeHolders /\ t \in Queued
      /\ myNode[t] \in alive \cup {common} /\ myNode[t] \in Nodes
  BY <1>1, AtWork DEF Queued
<1>4. Owing' = Owing /\ NodeHolders' = NodeHolders /\ Queued' = Queued \ {t}
  BY <1>1, <1>2 DEF Owing, NodeHolders, Equipped, Queued
<1>5. Ready' = Ready
  BY <1>1, <1>2 DEF Ready, Equipped, Threads
<1>6. myNode'[t] = myPred[t] /\ \A u \in Threads : u # t => myNode'[u] = myNode[u]
  BY <1>1 DEF CLHLockTypes
<1>7. \A u \in Threads : Future(u)' = Future(u)
  <2>1. Future(t) = myPred[t] /\ Future(t)' = myNode'[t]
    BY <1>3, <1>4 DEF Future
  <2>2. ASSUME NEW u \in Threads, u # t PROVE Future(u)' = Future(u)
    BY <1>1, <1>4, <1>6, <2>2 DEF Future
  <2> QED
    BY <1>6, <2>1, <2>2
<1>8. /\ myPred[t] \in alive \cup {common} /\ myPred[t] \in Nodes
      /\ ~nodeLocked[myPred[t]] /\ Future(t) = myPred[t]
  BY <1>1, <1>3, AtWork DEF OneGrant, Future
<1>9. CLHLockTypes' /\ Heaped' /\ Fresh'
  BY <1>1, <1>2, <1>3, <1>4, <1>6, <1>8 DEF CLHLockTypes, Heaped, Fresh
<1>10. \A u \in NodeHolders : u # t => myNode[u] # myPred[t]
  <2>1. ASSUME NEW u \in NodeHolders, u # t, u \in Queued PROVE nodeLocked[myNode[u]]
    BY <2>1 DEF OneGrant, Queued
  <2>2. ASSUME NEW u \in NodeHolders, u # t, u \notin Queued PROVE Future(u) = myNode[u]
    BY <2>2 DEF Future
  <2> QED
    BY <1>3, <1>8, <2>1, <2>2 DEF Apart
<1>11. Apart'
  <2>1. \A u, w \in NodeHolders : myNode'[u] = myNode'[w] => u = w
    BY <1>6, <1>10 DEF Apart, NodeHolders
  <2> QED
    BY <1>1, <1>4, <1>5, <1>7, <2>1 DEF Apart, NodeHolders
<1>12. Alive'
  BY <1>1, <1>2, <1>6, <1>7, <1>8 DEF Alive, Equipped
<1>13. ASSUME NEW n \in Nodes, n # myNode[t] PROVE nodeLocked'[n] = nodeLocked[n]
  BY <1>1, <1>13 DEF CLHLockTypes
<1>14. Watched' \subseteq Watched /\ myPred[t] \notin Watched' /\ myPred[t] \in Watched
  <2>1. tail # myPred[t]
    BY <1>3, <1>8 DEF Apart
  <2>2. \A u \in Queued : u # t => myPred[u] # myPred[t]
    <3>1. \A u \in Queued : u \in NodeHolders /\ Future(u) = myPred[u]
      BY DEF Queued, NodeHolders, Equipped, Future
    <3> QED
      BY <1>3, <3>1 DEF Apart
  <2> QED
    BY <1>1, <1>3, <1>4, <2>1, <2>2 DEF Watched
<1>15. Watched \subseteq Nodes
  <2>1. \A u \in Queued : myPred[u] \in Nodes
    BY AtWork DEF Queued, Future
  <2>2. tail \in Nodes
    BY <1>1, AtWork
  <2> QED
    BY <2>1, <2>2 DEF Watched
<1>16. OneGrant'
  <2>1. \A n \in Watched' : ~nodeLocked'[n] => n = myNode[t]
    BY <1>8, <1>13, <1>14, <1>15 DEF OneGrant
  <2>2. \A u \in Threads : pc'[u] = "cs" => ~nodeLocked'[myPred'[u]]
    <3>1. SUFFICES ASSUME NEW u \in Threads, pc'[u] = "cs" PROVE FALSE
      OBVIOUS
    <3>2. pc[u] = "cs" /\ u # t
      BY <1>2, <3>1
    <3>3. u \in Queued /\ myPred[u] \in Watched /\ ~nodeLocked[myPred[u]]
      BY <3>2 DEF Queued, Watched, OneGrant
    <3>4. myPred[u] = myPred[t]
      BY <1>8, <1>14, <3>3 DEF OneGrant
    <3>5. myPred[u] \in Watched'
      BY <1>1, <1>4, <3>2, <3>3 DEF Watched
    <3> QED
      BY <1>14, <3>4, <3>5
  <2>3. \A u \in Threads : pc'[u] \in {"swap", "spin", "cs"} => nodeLocked'[myNode'[u]]
    <3>1. SUFFICES ASSUME NEW u \in Threads, pc'[u] \in {"swap", "spin", "cs"}
                   PROVE  nodeLocked'[myNode'[u]]
      OBVIOUS
    <3>2. pc[u] \in {"swap", "spin", "cs"} /\ u # t
      BY <1>2, <3>1
    <3>3. u \in NodeHolders /\ myNode[u] \in Nodes /\ nodeLocked[myNode[u]] /\ myNode'[u] = myNode[u]
      BY <1>6, <3>2, AtWork DEF OneGrant
    <3>4. myNode[u] # myNode[t]
      BY <1>3, <3>2, <3>3 DEF Apart
    <3> QED
      BY <1>13, <3>3, <3>4
  <2> QED
    BY <2>1, <2>2, <2>3 DEF OneGrant
<1> QED
  BY <1>9, <1>11, <1>12, <1>16

\* delete_per_thread, when nobody is going to use a node.
LEMMA FreeInv ==
  ASSUME CLHLockInv, NEW t \in Threads, Free(t), pc \in [Threads -> CLHLabels \cup {"done"}],
         \A u \in Threads : pc[u] \in {"wait3", "free", "arrive1", "done", "wait1"}
  PROVE  CLHLockInv'
<1> USE DEF CLHLockInv
<1>1. /\ pc[t] = "free" /\ alive' = alive \ {myAlloc[t]}
      /\ UNCHANGED <<tail, nodeLocked, myNode, myPred, myAlloc>>
  BY DEF Free, NextExec, Goto
<1>2. PICK there \in {"arrive1", "done"} :
        \A u \in Threads : pc'[u] = IF u = t THEN there ELSE pc[u]
  BY DEF Free, NextExec, Goto
<1>3. Owing' = Owing \ {t} /\ NodeHolders' = NodeHolders /\ Queued' = {} /\ Queued = {} /\ t \in Owing
  BY <1>1, <1>2 DEF Owing, NodeHolders, Equipped, Queued
<1>4. Ready' => Ready
  BY <1>1, <1>2 DEF Ready, Equipped, Threads
<1>5. \A u \in Threads : Future(u)' = Future(u)
  BY <1>1, <1>3 DEF Future
<1>6. CLHLockTypes' /\ Fresh'
  BY <1>1, <1>2 DEF CLHLockTypes, Fresh
<1>7. Heaped'
  BY <1>1, <1>3 DEF Heaped
<1>8. Apart'
  BY <1>1, <1>3, <1>4, <1>5 DEF Apart, NodeHolders
<1>9. \A u \in Threads : pc'[u] \notin Equipped \cup {"alloc"}
  BY <1>2 DEF Equipped
<1>10. Alive'
  BY <1>9 DEF Alive
<1>11. OneGrant'
  <2>1. Watched' = {tail}
    BY <1>1, <1>3 DEF Watched
  <2> QED
    BY <1>9, <2>1 DEF OneGrant, Equipped
<1> QED
  BY <1>6, <1>7, <1>8, <1>10, <1>11

-----------------------------------------------------------------------------

\* A statement that is not a call of the barrier keeps the phase.
LEMMA CLHSamePhase ==
  ASSUME CLHPhases, UNCHANGED ctr, NEW t \in Threads, NEW there,
         pc \in [Threads -> CLHLabels \cup {"done"}],
         pc' = [pc EXCEPT ![t] = there],
         pc[t] \in PhaseOne <=> there \in PhaseOne,
         pc[t] \in PhaseTwo <=> there \in PhaseTwo
  PROVE  CLHPhases'
<1>1. \A u \in Threads : pc'[u] = IF u = t THEN there ELSE pc[u]
  OBVIOUS
<1> QED
  BY <1>1 DEF CLHPhases

\* A call of the barrier begins the next phase.
LEMMA NextPhase ==
  ASSUME CLHPhases, NEW t \in Threads, NEW here, NEW there, Arrive(t, here, there),
         pc \in [Threads -> CLHLabels \cup {"done"}], ctr \in [Threads -> Nat],
         \/ here = "arrive1" /\ there = "wait1"
         \/ here = "arrive2" /\ there = "wait2"
         \/ here = "arrive3" /\ there = "wait3"
  PROVE  CLHPhases'
<1>1. /\ \A u \in Threads : pc'[u] = IF u = t THEN there ELSE pc[u]
      /\ \A u \in Threads : ctr'[u] = IF u = t THEN ctr[t] + 1 ELSE ctr[u]
      /\ pc[t] = here /\ ctr[t] \in Nat
  BY DEF Arrive, Goto
<1>2. ctr[t] % 3 = IF here \in PhaseOne THEN 1 ELSE IF here \in PhaseTwo THEN 2 ELSE 0
  BY <1>1 DEF CLHPhases
<1>3. (ctr[t] + 1) % 3 = IF there \in PhaseOne THEN 1 ELSE IF there \in PhaseTwo THEN 2 ELSE 0
  <2>1. CASE here = "arrive1"
    BY <1>1, <1>2, <2>1 DEF PhaseOne, PhaseTwo
  <2>2. CASE here = "arrive2"
    BY <1>1, <1>2, <2>2 DEF PhaseOne, PhaseTwo
  <2>3. CASE here = "arrive3"
    BY <1>1, <1>2, <2>3 DEF PhaseOne, PhaseTwo
  <2> QED
    BY <2>1, <2>2, <2>3
<1> QED
  BY <1>1, <1>3 DEF CLHPhases

\* Every statement preserves the invariant.
LEMMA CLHNextIInv == CLHIInv /\ [CLHNext]_clhVars => CLHIInv'
<1> SUFFICES ASSUME CLHIInv, [CLHNext]_clhVars
             PROVE  CLHIInv'
  OBVIOUS
<1> USE DEF CLHIInv
<1> DEFINE D == DriverInv(CLHLabels, CLHWork, CLHWaits)
<1>1. pc \in [Threads -> CLHLabels \cup {"done"}] /\ ctr \in [Threads -> Nat]
  BY DEF DriverInv, DriverTypeOK
<1>2. 0 \in Threads
  BY DEF Threads
<1>3. ASSUME NEW t \in Threads, ArriveFirst(t)
      PROVE  CLHIInv'
  <2>1. Arrive(t, "arrive1", "wait1")
    BY <1>3 DEF ArriveFirst
  <2>2. D'
    BY <2>1, ArriveInv DEF CLHLabels, CLHWork, CLHWaits
  <2>3. CLHPhases'
    BY <1>1, <2>1, NextPhase
  <2>4. CLHLockInv'
    BY <1>1, <1>3, <2>1, CLHElsewhere DEF ArriveFirst, Arrive, Goto, Equipped
  <2> QED
    BY <2>2, <2>3, <2>4
<1>4. ASSUME NEW t \in Threads, PassFirst(t)
      PROVE  CLHIInv'
  <2>1. PICK there \in {"init", "alloc"} :
          Pass(t, "wait1", there) /\ (there = "alloc" => t # 0)
    BY <1>4 DEF PassFirst
  <2>2. D'
    BY <2>1, PassInv DEF CLHLabels, CLHWork, CLHWaits
  <2>3. pc[t] = "wait1" /\ pc' = [pc EXCEPT ![t] = there] /\ UNCHANGED ctr /\ Released(t)
    BY <2>1 DEF Pass, Goto
  <2>4. CLHPhases'
    BY <1>1, <2>3, CLHSamePhase DEF PhaseOne, PhaseTwo
  <2>5. Ready => \E u \in Threads : pc[u] \in Equipped \cup {"alloc"}
    <3>1. pc[0] \in PhaseOne \cup {"wait2"}
      BY <1>2, <2>3, Together
    <3> QED
      BY <1>2, <3>1 DEF Ready, PhaseOne
  <2>6. CLHLockInv'
    <3>1. UNCHANGED nodeVars
      BY <1>4 DEF PassFirst
    <3> QED
      BY <1>1, <2>1, <2>3, <2>5, <3>1, CLHElsewhere DEF Equipped
  <2> QED
    BY <2>2, <2>4, <2>6
<1>5. ASSUME NEW t \in Threads, InitGlobal(t)
      PROVE  CLHIInv'
  <2>1. Within(t, "init", "alloc")
    BY <1>5 DEF InitGlobal
  <2>2. D'
    BY <2>1, WithinInv DEF CLHLabels, CLHWork, CLHWaits
  <2>3. CLHPhases'
    BY <1>1, <2>1, CLHSamePhase DEF Within, Goto, PhaseOne, PhaseTwo
  <2>4. \A u \in Threads : pc[u] \in PhaseOne \cup {"wait2"}
    BY <2>1, Together DEF Within, Goto
  <2>5. CLHLockInv'
    BY <1>1, <1>5, <2>4, InitGlobalInv
  <2> QED
    BY <2>2, <2>3, <2>5
<1>6. ASSUME NEW t \in Threads, Alloc(t)
      PROVE  CLHIInv'
  <2>1. Within(t, "alloc", "arrive2")
    BY <1>6 DEF Alloc
  <2>2. D'
    BY <2>1, WithinInv DEF CLHLabels, CLHWork, CLHWaits
  <2>3. CLHPhases'
    BY <1>1, <2>1, CLHSamePhase DEF Within, Goto, PhaseOne, PhaseTwo
  <2>4. \A u \in Threads : pc[u] \in PhaseOne \cup {"wait2"}
    BY <2>1, Together DEF Within, Goto
  <2>5. CLHLockInv'
    BY <1>1, <1>6, <2>4, AllocInv
  <2> QED
    BY <2>2, <2>3, <2>5
<1>7. ASSUME NEW t \in Threads, ArriveSecond(t)
      PROVE  CLHIInv'
  <2>1. Arrive(t, "arrive2", "wait2")
    BY <1>7 DEF ArriveSecond
  <2>2. D'
    BY <2>1, ArriveInv DEF CLHLabels, CLHWork, CLHWaits
  <2>3. CLHPhases'
    BY <1>1, <2>1, NextPhase
  <2>4. CLHLockInv'
    BY <1>1, <1>7, <2>1, CLHElsewhere DEF ArriveSecond, Arrive, Goto, Equipped
  <2> QED
    BY <2>2, <2>3, <2>4
<1>8. ASSUME NEW t \in Threads, CLHStart(t)
      PROVE  CLHIInv'
  <2>1. D'
    BY <1>8, StartInv DEF CLHStart, CLHLabels, CLHWork, CLHWaits
  <2>2. PICK there \in {"mark", "end"} :
          pc[t] = "wait2" /\ pc' = [pc EXCEPT ![t] = there] /\ UNCHANGED ctr
    BY <1>8 DEF CLHStart, Start, Goto
  <2>3. CLHPhases'
    BY <1>1, <2>2, CLHSamePhase DEF PhaseOne, PhaseTwo
  <2>4. CLHLockInv'
    BY <1>1, <1>8, <2>2, CLHElsewhere DEF CLHStart, Equipped
  <2> QED
    BY <2>1, <2>3, <2>4
<1>9. ASSUME NEW t \in Threads, Mark(t)
      PROVE  CLHIInv'
  <2>1. Within(t, "mark", "swap")
    BY <1>9 DEF Mark
  <2>2. D'
    BY <2>1, WithinInv DEF CLHLabels, CLHWork, CLHWaits
  <2>3. CLHPhases'
    BY <1>1, <2>1, CLHSamePhase DEF Within, Goto, PhaseOne, PhaseTwo
  <2>5. CLHLockInv'
    BY <1>1, <1>9, MarkInv
  <2> QED
    BY <2>2, <2>3, <2>5
<1>10. ASSUME NEW t \in Threads, SwapTail(t)
      PROVE  CLHIInv'
  <2>1. Within(t, "swap", "spin")
    BY <1>10 DEF SwapTail
  <2>2. D'
    BY <2>1, WithinInv DEF CLHLabels, CLHWork, CLHWaits
  <2>3. CLHPhases'
    BY <1>1, <2>1, CLHSamePhase DEF Within, Goto, PhaseOne, PhaseTwo
  <2>4. Ready
    BY <1>2, <2>1, Together DEF Within, Goto, Ready, PhaseTwo, Equipped
  <2>5. CLHLockInv'
    BY <1>1, <1>10, <2>4, SwapInv
  <2> QED
    BY <2>2, <2>3, <2>5
<1>11. ASSUME NEW t \in Threads, CLHEnter(t)
      PROVE  CLHIInv'
  <2>1. Within(t, "spin", "cs")
    BY <1>11 DEF CLHEnter
  <2>2. D'
    BY <2>1, WithinInv DEF CLHLabels, CLHWork, CLHWaits
  <2>3. CLHPhases'
    BY <1>1, <2>1, CLHSamePhase DEF Within, Goto, PhaseOne, PhaseTwo
  <2>5. CLHLockInv'
    BY <1>1, <1>11, CLHEnterInv
  <2> QED
    BY <2>2, <2>3, <2>5
<1>12. ASSUME NEW t \in Threads, CLHUnlock(t)
      PROVE  CLHIInv'
  <2>1. D'
    <3>1. EndIteration(t, "cs", "mark", "end")
      BY <1>12 DEF CLHUnlock
    <3>2. /\ "cs" \in CLHWork /\ "mark" \in CLHLabels /\ "end" \in CLHLabels
          /\ "cs" \notin CLHWaits /\ "mark" \notin CLHWaits /\ "end" \notin CLHWaits
          /\ "end" \notin CLHWork
      BY DEF CLHLabels, CLHWork, CLHWaits
    <3> QED
      BY <3>1, <3>2, EndIterationInv
  <2>2. PICK there \in {"mark", "end"} :
          pc[t] = "cs" /\ pc' = [pc EXCEPT ![t] = there] /\ UNCHANGED ctr
    BY <1>12 DEF CLHUnlock, EndIteration, Goto
  <2>3. CLHPhases'
    BY <1>1, <2>2, CLHSamePhase DEF PhaseOne, PhaseTwo
  <2>4. Ready
    BY <1>2, <2>2, Together DEF Ready, PhaseTwo, Equipped
  <2>5. CLHLockInv'
    BY <1>1, <1>12, <2>4, UnlockInv
  <2> QED
    BY <2>1, <2>3, <2>5
<1>13. ASSUME NEW t \in Threads, CLHSample(t)
      PROVE  CLHIInv'
  <2>1. samples' \in SUBSET Nat
    BY <1>13, RecordNat DEF CLHSample, DriverInv
  <2>2. /\ pc[t] = "end" /\ pc' = [pc EXCEPT ![t] = "arrive3"]
        /\ UNCHANGED <<ctr, run, exec, iter, worked, nodeVars>>
    BY <1>13 DEF CLHSample, Goto
  <2>3. D'
    BY <1>1, <2>1, <2>2, SampleInv DEF CLHLabels, CLHWork, CLHWaits
  <2>4. CLHPhases'
    BY <1>1, <2>2, CLHSamePhase DEF PhaseOne, PhaseTwo
  <2>5. CLHLockInv'
    BY <1>1, <2>2, CLHElsewhere DEF Equipped
  <2> QED
    BY <2>3, <2>4, <2>5
<1>14. ASSUME NEW t \in Threads, ArriveThird(t)
      PROVE  CLHIInv'
  <2>1. Arrive(t, "arrive3", "wait3")
    BY <1>14 DEF ArriveThird
  <2>2. D'
    BY <2>1, ArriveInv DEF CLHLabels, CLHWork, CLHWaits
  <2>3. CLHPhases'
    BY <1>1, <2>1, NextPhase
  <2>4. CLHLockInv'
    BY <1>1, <1>14, <2>1, CLHElsewhere DEF ArriveThird, Arrive, Goto, Equipped
  <2> QED
    BY <2>2, <2>3, <2>4
<1>15. ASSUME NEW t \in Threads, PassThird(t)
      PROVE  CLHIInv'
  <2>1. Pass(t, "wait3", "free")
    BY <1>15 DEF PassThird
  <2>2. D'
    BY <2>1, PassInv DEF CLHLabels, CLHWork, CLHWaits
  <2>3. CLHPhases'
    BY <1>1, <2>1, CLHSamePhase DEF Pass, Goto, PhaseOne, PhaseTwo
  <2>4. CLHLockInv'
    BY <1>1, <1>15, <2>1, CLHElsewhere DEF PassThird, Pass, Goto, Equipped
  <2> QED
    BY <2>2, <2>3, <2>4
<1>16. ASSUME NEW t \in Threads, Free(t)
      PROVE  CLHIInv'
  <2>1. D'
    <3>1. samples' \in SUBSET Nat
      BY <1>16 DEF Free, DriverInv, DriverTypeOK
    <3> QED
      BY <1>16, <3>1, NextExecInv DEF Free, CLHLabels, CLHWork, CLHWaits
  <2>2. PICK there \in {"arrive1", "done"} :
          pc[t] = "free" /\ pc' = [pc EXCEPT ![t] = there] /\ UNCHANGED ctr
    BY <1>16 DEF Free, NextExec, Goto
  <2>3. CLHPhases'
    BY <1>1, <2>2, CLHSamePhase DEF PhaseOne, PhaseTwo
  <2>4. \A u \in Threads : pc[u] \in {"wait3", "free", "arrive1", "done", "wait1"}
    BY <2>2, Together
  <2>5. CLHLockInv'
    BY <1>1, <1>16, <2>4, FreeInv
  <2> QED
    BY <2>1, <2>3, <2>5
<1>17. CASE UNCHANGED clhVars
  <2>1. UNCHANGED <<pc, ctr, run, exec, iter, samples, worked, nodeVars>>
    BY <1>17 DEF clhVars, driverVars
  <2>2. D'
    BY <2>1 DEF DriverInv, DriverTypeOK, Counted, Separated, Returned
  <2>3. CLHPhases'
    BY <2>1 DEF CLHPhases
  <2>4. Queued' = Queued /\ Owing' = Owing /\ NodeHolders' = NodeHolders /\ Ready' = Ready
    BY <2>1 DEF Queued, Owing, NodeHolders, Ready
  <2>5. \A t \in Threads : Future(t)' = Future(t)
    BY <2>1, <2>4 DEF Future, nodeVars
  <2>6. CLHLockInv'
    BY <2>1, <2>4, <2>5
       DEF nodeVars, CLHLockInv, CLHLockTypes, Heaped, Fresh, Apart, Alive, OneGrant, Watched, NodeHolders
  <2> QED
    BY <2>2, <2>3, <2>6
<1> QED
  BY <1>3, <1>4, <1>5, <1>6, <1>7, <1>8, <1>9,
     <1>10, <1>11, <1>12, <1>13, <1>14, <1>15, <1>16, <1>17
     DEF CLHNext, CLHStep

\* The inductive invariant holds of every behaviour.
THEOREM CLHInvariance == CLHSpec => []CLHIInv
  BY CLHInitIInv, CLHNextIInv, PTL DEF CLHSpec

\* The lock and the driver keep their types, and the pointers of every thread
\* those to nodes, or to none.
THEOREM CLHTypeCorrect == CLHSpec => []CLHTypeOK
<1>1. CLHIInv => CLHTypeOK
  BY DEF CLHIInv, DriverInv, CLHLockInv, CLHLockTypes, CLHTypeOK
<1> QED
  BY <1>1, CLHInvariance, PTL

\* The CLH lock excludes, for any number of threads: whoever returns from lock()
\* found the only unlocked node there was to find.
THEOREM CLHQueueLockExcludes == CLHSpec => []MutualExclusion
<1>1. CLHIInv => MutualExclusion
  <2>1. SUFFICES ASSUME CLHIInv, NEW t \in Threads, NEW u \in Threads,
                        pc[t] = "cs", pc[u] = "cs"
                 PROVE  t = u
    BY DEF MutualExclusion, Inside, CLHIInv, DriverInv, DriverTypeOK, CLHLabels
  <2>2. 0 \in Threads /\ Ready
    <3>1. 0 \in Threads
      BY DEF Threads
    <3> QED
      BY <2>1, <3>1, Together DEF CLHIInv, Ready, PhaseTwo, Equipped
  <2>3. /\ t \in Queued /\ u \in Queued /\ t \in NodeHolders /\ u \in NodeHolders
        /\ ~nodeLocked[myPred[t]] /\ ~nodeLocked[myPred[u]]
    BY <2>1 DEF Queued, NodeHolders, Equipped, CLHIInv, CLHLockInv, OneGrant
  <2>4. myPred[t] = myPred[u]
    BY <2>1, <2>2, <2>3 DEF CLHIInv, CLHLockInv, OneGrant, Watched
  <2> QED
    BY <2>1, <2>3, <2>4 DEF CLHIInv, CLHLockInv, Apart, Future
<1> QED
  BY <1>1, CLHInvariance, PTL

\* No thread uses a node that was freed or that another one has, and every node
\* is freed once, although threads free nodes that others hold by then.
THEOREM NodesAreOwned == CLHSpec => []NodesOwned
<1>1. CLHIInv => NodesOwned
  <2> SUFFICES ASSUME CLHIInv PROVE NodesOwned
    OBVIOUS
  <2> USE DEF CLHIInv, CLHLockInv
  <2>1. ASSUME NEW t \in Threads PROVE InUse(t) \subseteq alive \cup {common}
    <3>1. CASE pc[t] \in {"mark", "swap", "spin", "cs"}
      <4>1. 0 \in Threads
        BY DEF Threads
      <4>2. Ready
        BY <3>1, <4>1, Together DEF Ready, PhaseTwo, Equipped
      <4>3. /\ myNode[t] \in alive \cup {common} /\ Future(t) \in alive \cup {common}
            /\ tail \in alive \cup {common}
        BY <3>1, <4>2, AtWork
      <4>4. pc[t] \in {"spin", "cs"} => Future(t) = myPred[t]
        BY DEF Future, Queued
      <4> QED
        BY <3>1, <4>3, <4>4 DEF InUse
    <3>2. CASE pc[t] \notin {"mark", "swap", "spin", "cs"}
      BY <3>2 DEF InUse
    <3> QED
      BY <3>1, <3>2
  <2>2. OwnNodes
    <3>1. \A t \in Threads : pc[t] \in {"mark", "swap", "spin", "cs"} => t \in NodeHolders
      BY DEF NodeHolders, Equipped
    <3> QED
      BY <3>1 DEF OwnNodes, Apart
  <2>3. FreedOnce
    BY DEF FreedOnce, Heaped, Owing, AllDone, Equipped
  <2> QED
    BY <2>1, <2>2, <2>3 DEF NodesOwned, NoUseAfterFree
<1> QED
  BY <1>1, CLHInvariance, PTL

-----------------------------------------------------------------------------
(* First come, first served *)

\* Two sequences linked by the same pointers agree from their ends on.
LEMMA OneOrder ==
  ASSUME NEW n \in Nat, NEW s \in [1 .. n -> Queued], NEW r \in [1 .. n -> Queued],
         Linked(s), Linked(r),
         \A t, u \in Queued : myNode[t] = myNode[u] => t = u
  PROVE  s = r
<1> DEFINE S == {j \in Nat : j < n => s[n - j] = r[n - j]}
<1>1. Len(s) = n /\ Len(r) = n
  OBVIOUS
<1>2. 0 \in S
  <2>1. SUFFICES ASSUME 0 < n PROVE s[n] = r[n]
    OBVIOUS
  <2>2. n \in 1 .. n
    BY <2>1
  <2>3. s # <<>> /\ r # <<>>
    BY <1>1, <2>1
  <2>4. myNode[s[n]] = tail /\ myNode[r[n]] = tail
    BY <1>1, <2>3 DEF Linked
  <2> QED
    BY <2>2, <2>4
<1>3. ASSUME NEW j \in Nat, j \in S PROVE j + 1 \in S
  <2>1. SUFFICES ASSUME j + 1 < n PROVE s[n - (j + 1)] = r[n - (j + 1)]
    OBVIOUS
  <2>2. n - j \in 2 .. n /\ n - j - 1 = n - (j + 1) /\ n - (j + 1) \in 1 .. n /\ j < n
    BY <2>1
  <2>3. s[n - j] = r[n - j]
    BY <1>3, <2>2
  <2>4. /\ myPred[s[n - j]] = myNode[s[n - j - 1]]
        /\ myPred[r[n - j]] = myNode[r[n - j - 1]]
    BY <1>1, <2>2 DEF Linked
  <2> QED
    BY <2>2, <2>3, <2>4
<1>4. Nat \subseteq S
  <2> HIDE DEF S
  <2> QED
    BY <1>2, <1>3, Induction
<1>5. ASSUME NEW i \in 1 .. n PROVE s[i] = r[i]
  <2>1. n - i \in Nat /\ n - i < n /\ n - (n - i) = i
    OBVIOUS
  <2>2. n - i \in S
    BY <1>4, <2>1
  <2> QED
    BY <2>1, <2>2
<1> QED
  BY <1>5

\* Whatever is linked as the queue is must be Order.
OrderIs ==
  CLHIInv => \A s \in Seq(Queued) : Linked(s) => CLHOrder = s

LEMMA OrderFound == OrderIs
<1> SUFFICES ASSUME CLHIInv, NEW s \in Seq(Queued), Linked(s)
             PROVE  CLHOrder = s
  BY DEF OrderIs
<1> DEFINE n == Len(s)
<1>1. n \in Nat /\ s \in [1 .. n -> Queued] /\ DOMAIN s = 1 .. n
  BY LenProperties
<1>2. Cardinality(Queued) = n
  <2>1. \A t \in Queued : \E i \in 1 .. n : s[i] = t
    BY <1>1 DEF Linked
  <2>2. \A i, j \in 1 .. n : s[i] = s[j] => i = j
    BY <1>1 DEF Linked
  <2>3. s \in Bijection(1 .. n, Queued)
    BY <1>1, <2>1, <2>2 DEF Bijection, Injection, Surjection, IsInjective
  <2>4. ExistsBijection(1 .. n, Queued)
    BY <2>3 DEF ExistsBijection
  <2> QED
    BY <1>1, <2>4, FS_CountingElements
<1>3. CLHOrder \in [1 .. n -> Queued] /\ Linked(CLHOrder)
  <2> DEFINE F == [1 .. Cardinality(Queued) -> Queued]
             P(r) == Linked(r)
  <2>1. s \in F /\ P(s)
    BY <1>1, <1>2
  <2>2. CLHOrder = CHOOSE r \in F : P(r)
    BY DEF CLHOrder
  <2>3. F = [1 .. n -> Queued]
    BY <1>2
  <2> HIDE DEF F, P
  <2>4. CLHOrder \in F /\ P(CLHOrder)
    BY <2>1, <2>2
  <2> QED
    BY <2>3, <2>4 DEF P
<1>4. \A t, u \in Queued : myNode[t] = myNode[u] => t = u
  BY DEF CLHIInv, CLHLockInv, Apart, Queued, NodeHolders, Equipped
<1> QED
  BY <1>1, <1>3, <1>4, OneOrder

\* The same in the next state.
LEMMA OrderFoundNext == OrderIs'
  BY OrderFound, PTL

\* The queue is linked.
Chained == CLHOrder \in Seq(Queued) /\ Linked(CLHOrder)

\* Before anybody comes there is no queue.
NobodyIs == CLHIInv /\ Queued = {} => Chained /\ CLHOrder = <<>>

LEMMA Nobody == NobodyIs
<1> SUFFICES ASSUME CLHIInv, Queued = {} PROVE Chained /\ CLHOrder = <<>>
  BY DEF NobodyIs
<1>1. Linked(<<>>)
  BY DEF Linked
<1>2. <<>> \in Seq(Queued)
  OBVIOUS
<1>3. CLHOrder = <<>>
  BY <1>1, <1>2, OrderFound DEF OrderIs
<1> QED
  BY <1>1, <1>2, <1>3 DEF Chained

\* The same in the next state.
LEMMA NobodyNext == NobodyIs'
  BY Nobody, PTL

\* A step that nobody in the queue notices.
LEMMA OrderKept ==
  ASSUME CLHIInv, CLHIInv', Chained, Queued' = Queued, CLHHeld' = CLHHeld, tail' = tail,
         \A t \in Queued : myNode'[t] = myNode[t] /\ myPred'[t] = myPred[t]
  PROVE  Chained' /\ UNCHANGED QueueFifo!vars
<1>1. PICK s \in Seq(Queued) : s = CLHOrder /\ Linked(s)
  BY DEF Chained
<1>2. \A i \in 1 .. Len(s) : s[i] \in Queued
  BY <1>1
<1>3. DOMAIN s = 1 .. Len(s) /\ Len(s) \in Nat
  BY <1>1, LenProperties
<1>4. Linked(s)'
  <2>1. /\ \A t \in Queued' : \E i \in DOMAIN s : s[i] = t
        /\ \A i, j \in DOMAIN s : s[i] = s[j] => i = j
    BY <1>1 DEF Linked
  <2>2. s # <<>> => myNode'[s[Len(s)]] = tail'
    <3>1. SUFFICES ASSUME s # <<>> PROVE myNode'[s[Len(s)]] = tail'
      OBVIOUS
    <3>2. Len(s) \in 1 .. Len(s)
      BY <1>3, <3>1, EmptySeq
    <3> QED
      BY <1>1, <1>2, <3>1, <3>2 DEF Linked
  <2>3. ASSUME NEW i \in 2 .. Len(s) PROVE myPred'[s[i]] = myNode'[s[i - 1]]
    <3>1. i \in 1 .. Len(s) /\ i - 1 \in 1 .. Len(s)
      BY <1>3
    <3> QED
      BY <1>1, <1>2, <3>1 DEF Linked
  <2> QED
    BY <2>1, <2>2, <2>3 DEF Linked
<1>5. CLHOrder' = s /\ s \in Seq(Queued')
  BY <1>4, OrderFoundNext DEF OrderIs
<1> QED
  BY <1>1, <1>4, <1>5 DEF Chained, QueueFifo!vars

\* tail is exchanged: the thread joins the queue.
LEMMA SwapJoins ==
  ASSUME CLHIInv, CLHIInv', Chained, NEW t \in Threads, SwapTail(t)
  PROVE  Chained' /\ QueueFifo!Join(t)
<1>1. PICK s \in Seq(Queued) : s = CLHOrder /\ Linked(s)
  BY DEF Chained
<1>2. /\ pc \in [Threads -> CLHLabels \cup {"done"}] /\ myPred \in [Threads -> Nodes \cup {Null}]
  BY DEF CLHIInv, DriverInv, DriverTypeOK, CLHLockInv, CLHLockTypes
<1>3. /\ pc[t] = "swap" /\ tail' = myNode[t] /\ myNode' = myNode
      /\ myPred' = [myPred EXCEPT ![t] = tail]
      /\ \A u \in Threads : pc'[u] = IF u = t THEN "spin" ELSE pc[u]
  BY <1>2 DEF SwapTail, Within, Goto
<1>4. t \notin Queued /\ Queued' = Queued \cup {t} /\ CLHHeld' = CLHHeld
  BY <1>3 DEF Queued, CLHHeld
<1>5. myPred'[t] = tail /\ \A u \in Queued : myPred'[u] = myPred[u]
  BY <1>2, <1>3, <1>4 DEF Queued
<1> DEFINE r == Append(s, t)
<1>6. /\ r \in Seq(Queued') /\ Len(r) = Len(s) + 1 /\ Len(s) \in Nat
      /\ \A i \in 1 .. Len(s) : r[i] = s[i] /\ s[i] \in Queued
      /\ r[Len(s) + 1] = t
      /\ DOMAIN s = 1 .. Len(s) /\ DOMAIN r = 1 .. Len(s) + 1
  <2>1. s \in Seq(Queued') /\ t \in Queued'
    BY <1>4
  <2>2. /\ r \in Seq(Queued') /\ Len(r) = Len(s) + 1
        /\ \A i \in 1 .. Len(s) : r[i] = s[i]
        /\ r[Len(s) + 1] = t
    BY <2>1, AppendProperties
  <2> HIDE DEF r
  <2> QED
    BY <2>2, LenProperties
<1> HIDE DEF r
<1>7. Linked(r)'
  <2>1. ASSUME NEW u \in Queued' PROVE \E i \in DOMAIN r : r[i] = u
    <3>1. CASE u = t
      <4>1. Len(s) + 1 \in DOMAIN r
        BY <1>6
      <4> QED
        BY <1>6, <3>1, <4>1
    <3>2. CASE u \in Queued
      <4>1. PICK i \in 1 .. Len(s) : s[i] = u
        BY <1>1, <1>6, <3>2 DEF Linked
      <4>2. i \in DOMAIN r
        BY <1>6
      <4> QED
        BY <1>6, <4>1, <4>2
    <3> QED
      BY <1>4, <3>1, <3>2
  <2>2. ASSUME NEW i \in DOMAIN r, NEW j \in DOMAIN r, r[i] = r[j] PROVE i = j
    <3>1. /\ i \in 1 .. Len(s) \/ i = Len(s) + 1
          /\ j \in 1 .. Len(s) \/ j = Len(s) + 1
      BY <1>6
    <3>2. \A m \in 1 .. Len(s) : r[m] # t
      BY <1>4, <1>6
    <3>3. CASE i \in 1 .. Len(s) /\ j \in 1 .. Len(s)
      BY <1>1, <1>6, <2>2, <3>3 DEF Linked
    <3> QED
      BY <1>6, <2>2, <3>1, <3>2, <3>3
  <2>3. myNode'[r[Len(r)]] = tail'
    BY <1>3, <1>6
  <2>4. ASSUME NEW i \in 2 .. Len(r) PROVE myPred'[r[i]] = myNode'[r[i - 1]]
    <3>1. CASE i \in 2 .. Len(s)
      <4>1. i \in 1 .. Len(s) /\ i - 1 \in 1 .. Len(s)
        BY <1>6, <3>1
      <4>2. myPred[s[i]] = myNode[s[i - 1]]
        BY <1>1, <3>1 DEF Linked
      <4> QED
        BY <1>3, <1>5, <1>6, <4>1, <4>2
    <3>2. CASE i = Len(s) + 1
      <4>1. Len(s) \in 1 .. Len(s) /\ i - 1 = Len(s)
        BY <1>6, <3>2
      <4>2. s # <<>>
        BY <4>1
      <4>3. myNode[s[Len(s)]] = tail
        BY <1>1, <4>2 DEF Linked
      <4> QED
        BY <1>3, <1>5, <1>6, <3>2, <4>1, <4>3
    <3> QED
      BY <1>6, <3>1, <3>2
  <2> QED
    BY <2>1, <2>2, <2>3, <2>4 DEF Linked
<1>8. CLHOrder' = r
  BY <1>6, <1>7, OrderFoundNext DEF OrderIs
<1>9. \A i \in DOMAIN CLHOrder : CLHOrder[i] # t
  BY <1>1, <1>4, <1>6
<1>10. Chained'
  BY <1>6, <1>7, <1>8 DEF Chained
<1> QED
  BY <1>1, <1>4, <1>8, <1>9, <1>10 DEF QueueFifo!Join, r

\* Only the first thread finds the node unlocked that it spins on.
LEMMA FirstUnlocked ==
  ASSUME CLHIInv, NEW s \in Seq(Queued), Linked(s), NEW t \in Queued, ~nodeLocked[myPred[t]]
  PROVE  Len(s) \in Nat \ {0} /\ t = s[1]
<1>1. DOMAIN s = 1 .. Len(s) /\ Len(s) \in Nat
  BY LenProperties
<1>2. PICK i \in 1 .. Len(s) : s[i] = t
  BY <1>1 DEF Linked
<1>3. i = 1
  <2>1. SUFFICES ASSUME i # 1 PROVE FALSE
    OBVIOUS
  <2>2. i \in 2 .. Len(s) /\ i - 1 \in 1 .. Len(s)
    BY <1>1, <2>1
  <2>3. myPred[t] = myNode[s[i - 1]]
    BY <1>2, <2>2 DEF Linked
  <2>4. s[i - 1] \in Queued
    BY <2>2
  <2>5. nodeLocked[myNode[s[i - 1]]]
    BY <2>4 DEF CLHIInv, CLHLockInv, OneGrant, Queued
  <2> QED
    BY <2>3, <2>5
<1> QED
  BY <1>1, <1>2, <1>3

\* The spinning ends: the first thread is let in.
LEMMA EnterGrants ==
  ASSUME CLHIInv, CLHIInv', MutualExclusion', Chained, NEW t \in Threads, CLHEnter(t)
  PROVE  Chained' /\ QueueFifo!Grant
<1>1. PICK s \in Seq(Queued) : s = CLHOrder /\ Linked(s)
  BY DEF Chained
<1>2. pc \in [Threads -> CLHLabels \cup {"done"}]
  BY DEF CLHIInv, DriverInv, DriverTypeOK
<1>3. /\ pc[t] = "spin" /\ UNCHANGED <<tail, myNode, myPred>> /\ ~nodeLocked[myPred[t]]
      /\ \A u \in Threads : pc'[u] = IF u = t THEN "cs" ELSE pc[u]
  BY <1>2 DEF CLHEnter, Within, Goto, nodeVars
<1>4. Queued' = Queued /\ t \in Queued /\ CLHHeld'
  BY <1>3 DEF Queued, CLHHeld
<1>5. ~CLHHeld
  <2>1. SUFFICES ASSUME NEW u \in Threads, pc[u] = "cs" PROVE FALSE
    BY DEF CLHHeld
  <2>2. pc'[u] = "cs" /\ pc'[t] = "cs" /\ u # t
    BY <1>3, <2>1
  <2>3. DOMAIN pc' = Threads
    BY DEF CLHIInv, DriverInv, DriverTypeOK
  <2> QED
    BY <2>2, <2>3 DEF MutualExclusion, Inside
<1>6. Len(s) \in Nat \ {0}
  BY <1>1, <1>3, <1>4, FirstUnlocked
<1>7. Linked(s)'
  BY <1>1, <1>3, <1>4 DEF Linked
<1>8. CLHOrder' = s
  BY <1>4, <1>7, OrderFoundNext DEF OrderIs
<1>9. s # <<>>
  BY <1>6
<1> QED
  BY <1>1, <1>4, <1>5, <1>7, <1>8, <1>9 DEF QueueFifo!Grant, Chained

\* unlock(): the first thread leaves.
LEMMA UnlockLeaves ==
  ASSUME CLHIInv, CLHIInv', MutualExclusion, Chained, NEW t \in Threads, CLHUnlock(t)
  PROVE  Chained' /\ QueueFifo!Leave
<1>1. PICK s \in Seq(Queued) : s = CLHOrder /\ Linked(s)
  BY DEF Chained
<1>2. /\ pc \in [Threads -> CLHLabels \cup {"done"}] /\ myNode \in [Threads -> Nodes \cup {Null}]
  BY DEF CLHIInv, DriverInv, DriverTypeOK, CLHLockInv, CLHLockTypes
<1>3. /\ pc[t] = "cs" /\ UNCHANGED <<tail, myPred>>
      /\ myNode' = [myNode EXCEPT ![t] = myPred[t]]
  BY DEF CLHUnlock, EndIteration, Goto
<1>4. PICK there \in {"mark", "end"} :
        \A u \in Threads : pc'[u] = IF u = t THEN there ELSE pc[u]
  BY <1>2 DEF CLHUnlock, EndIteration, Goto
<1>5. t \in Queued /\ Queued' = Queued \ {t} /\ CLHHeld
  BY <1>3, <1>4 DEF Queued, CLHHeld
<1>6. ~CLHHeld'
  <2>1. SUFFICES ASSUME NEW u \in Threads, pc'[u] = "cs" PROVE FALSE
    BY DEF CLHHeld
  <2>2. pc[u] = "cs" /\ u # t
    BY <1>4, <2>1
  <2> QED
    BY <1>2, <1>3, <2>2 DEF MutualExclusion, Inside
<1>7. ~nodeLocked[myPred[t]]
  BY <1>3 DEF CLHIInv, CLHLockInv, OneGrant
<1>8. Len(s) \in Nat \ {0} /\ t = s[1]
  BY <1>1, <1>5, <1>7, FirstUnlocked
<1>9. \A u \in Queued : u # t => myNode'[u] = myNode[u]
  BY <1>2, <1>3 DEF Queued
<1> DEFINE r == Tail(s)
<1>10. /\ Len(r) = Len(s) - 1
       /\ \A i \in 1 .. Len(r) : r[i] = s[i + 1]
       /\ DOMAIN r = 1 .. Len(r) /\ DOMAIN s = 1 .. Len(s)
  BY <1>8
<1>11. \A i \in 1 .. Len(r) : i + 1 \in 1 .. Len(s) /\ r[i] \in Queued /\ r[i] # t
  <2>1. ASSUME NEW i \in 1 .. Len(r)
        PROVE  i + 1 \in 1 .. Len(s) /\ 1 \in 1 .. Len(s) /\ i + 1 # 1
    BY <1>8, <1>10
  <2>2. \A i, j \in 1 .. Len(s) : s[i] = s[j] => i = j
    BY <1>1, <1>10 DEF Linked
  <2> HIDE DEF r
  <2> QED
    BY <1>8, <1>10, <2>1, <2>2
<1>12. r \in Seq(Queued')
  <2>1. Len(r) \in Nat
    BY <1>8, <1>10
  <2>2. \A i \in 1 .. Len(r) : r[i] \in Queued'
    BY <1>5, <1>11
  <2>3. r = [i \in 1 .. Len(r) |-> r[i]]
    <3>1. r \in Seq(Queued)
      BY <1>8, EmptySeq, HeadTailProperties
    <3> HIDE DEF r
    <3> QED
      BY <3>1, LenProperties
  <2> HIDE DEF r
  <2>4. r \in [1 .. Len(r) -> Queued']
    BY <2>2, <2>3
  <2> QED
    BY <2>1, <2>4
<1> HIDE DEF r
<1>13. Linked(r)'
  <2>1. ASSUME NEW u \in Queued' PROVE \E i \in DOMAIN r : r[i] = u
    <3>1. PICK i \in 1 .. Len(s) : s[i] = u
      BY <1>1, <1>5, <1>10 DEF Linked
    <3>2. i # 1
      BY <1>5, <1>8, <3>1
    <3>3. i - 1 \in 1 .. Len(r) /\ (i - 1) + 1 = i
      BY <1>8, <1>10, <3>2
    <3> QED
      BY <1>10, <3>1, <3>3
  <2>2. ASSUME NEW i \in DOMAIN r, NEW j \in DOMAIN r, r[i] = r[j] PROVE i = j
    <3>1. i \in 1 .. Len(r) /\ j \in 1 .. Len(r)
      BY <1>10
    <3>2. s[i + 1] = s[j + 1] /\ i + 1 \in DOMAIN s /\ j + 1 \in DOMAIN s
      BY <1>10, <1>11, <2>2, <3>1
    <3>3. i + 1 = j + 1
      BY <1>1, <3>2 DEF Linked
    <3> QED
      BY <3>1, <3>3
  <2>3. r # <<>> => myNode'[r[Len(r)]] = tail'
    <3>1. SUFFICES ASSUME r # <<>> PROVE myNode'[r[Len(r)]] = tail'
      OBVIOUS
    <3>2. Len(r) \in Nat /\ Len(r) # 0
      BY <1>12, <3>1, EmptySeq, LenProperties
    <3>3. Len(r) \in 1 .. Len(r) /\ Len(r) + 1 = Len(s)
      BY <1>8, <1>10, <3>2
    <3>4. s # <<>>
      BY <1>8
    <3>5. myNode[s[Len(s)]] = tail
      BY <1>1, <3>4 DEF Linked
    <3>6. r[Len(r)] = s[Len(s)] /\ r[Len(r)] \in Queued /\ r[Len(r)] # t
      BY <1>10, <1>11, <3>3
    <3> QED
      BY <1>3, <1>9, <3>5, <3>6
  <2>4. ASSUME NEW i \in 2 .. Len(r) PROVE myPred'[r[i]] = myNode'[r[i - 1]]
    <3>1. /\ i \in 1 .. Len(r) /\ i - 1 \in 1 .. Len(r)
          /\ i + 1 \in 2 .. Len(s) /\ (i + 1) - 1 = i /\ (i - 1) + 1 = i
      BY <1>8, <1>10
    <3>2. myPred[s[i + 1]] = myNode[s[i]]
      BY <1>1, <3>1 DEF Linked
    <3>3. r[i] = s[i + 1] /\ r[i - 1] = s[i] /\ r[i - 1] \in Queued /\ r[i - 1] # t
      BY <1>10, <1>11, <3>1
    <3> QED
      BY <1>3, <1>9, <3>2, <3>3
  <2> QED
    BY <2>1, <2>2, <2>3, <2>4 DEF Linked
<1>14. CLHOrder' = r
  BY <1>12, <1>13, OrderFoundNext DEF OrderIs
<1>15. CLHOrder' = Tail(CLHOrder)
  BY <1>1, <1>14 DEF r
<1> QED
  BY <1>5, <1>6, <1>12, <1>13, <1>14, <1>15 DEF QueueFifo!Leave, Chained

\* Every step of the lock is one of the queue, or leaves it alone.
LEMMA StepIsFifo ==
  ASSUME CLHIInv, CLHIInv', MutualExclusion, MutualExclusion', Chained, [CLHNext]_clhVars
  PROVE  Chained' /\ [QueueFifo!Next]_QueueFifo!vars
<1> DEFINE Kept == Chained' /\ UNCHANGED QueueFifo!vars
<1>1. pc \in [Threads -> CLHLabels \cup {"done"}] /\ myNode \in [Threads -> Nodes \cup {Null}]
  BY DEF CLHIInv, DriverInv, DriverTypeOK, CLHLockInv, CLHLockTypes
<1>2. ASSUME NEW t \in Threads, NEW there, pc' = [pc EXCEPT ![t] = there],
             pc[t] \notin {"spin", "cs"}, there \notin {"spin", "cs"},
             tail' = tail, myPred' = myPred, \A u \in Threads : u # t => myNode'[u] = myNode[u]
      PROVE  Kept
  <2>1. \A u \in Threads : pc'[u] = IF u = t THEN there ELSE pc[u]
    BY <1>1, <1>2
  <2>2. Queued' = Queued /\ CLHHeld' = CLHHeld
    BY <1>2, <2>1 DEF Queued, CLHHeld
  <2>3. \A u \in Queued : u # t /\ u \in Threads
    BY <1>2 DEF Queued
  <2> QED
    BY <1>2, <2>2, <2>3, OrderKept
<1>3. ASSUME NEW t \in Threads, ArriveFirst(t) \/ ArriveSecond(t) \/ ArriveThird(t) \/ CLHSample(t)
      PROVE  Kept
  BY <1>2, <1>3 DEF ArriveFirst, ArriveSecond, ArriveThird, CLHSample, Arrive, Goto, nodeVars
<1>4. ASSUME NEW t \in Threads, PassFirst(t) \/ PassThird(t)
      PROVE  Kept
  <2>1. PICK there \in {"init", "alloc", "free"} :
          pc[t] \in {"wait1", "wait3"} /\ pc' = [pc EXCEPT ![t] = there]
    BY <1>4 DEF PassFirst, PassThird, Pass, Goto
  <2>2. UNCHANGED <<tail, myPred, myNode>>
    BY <1>4 DEF PassFirst, PassThird, nodeVars
  <2> QED
    BY <1>2, <2>1, <2>2
<1>5. ASSUME NEW t \in Threads, InitGlobal(t)
      PROVE  Kept
  <2>1. pc[t] = "init" /\ pc' = [pc EXCEPT ![t] = "alloc"]
    BY <1>5 DEF InitGlobal, Within, Goto
  <2>2. \A u \in Threads : pc[u] \notin {"spin", "cs"}
    BY <2>1, Together DEF CLHIInv, PhaseOne
  <2>3. \A u \in Threads : pc'[u] \notin {"spin", "cs"}
    BY <1>1, <2>1, <2>2
  <2>4. Queued = {} /\ Queued' = {} /\ CLHHeld' = CLHHeld
    BY <2>2, <2>3 DEF Queued, CLHHeld
  <2> QED
    BY <2>4, Nobody, NobodyNext DEF NobodyIs, QueueFifo!vars
<1>6. ASSUME NEW t \in Threads, Alloc(t)
      PROVE  Kept
  <2>1. pc[t] = "alloc" /\ pc' = [pc EXCEPT ![t] = "arrive2"] /\ UNCHANGED <<tail, myPred>>
    BY <1>6 DEF Alloc, Within, Goto
  <2>2. PICK n \in Heap : myNode' = [myNode EXCEPT ![t] = n]
    BY <1>6 DEF Alloc
  <2>3. \A u \in Threads : u # t => myNode'[u] = myNode[u]
    BY <1>1, <2>2
  <2> QED
    BY <1>2, <2>1, <2>3
<1>7. ASSUME NEW t \in Threads, CLHStart(t)
      PROVE  Kept
  <2>1. PICK there \in {"mark", "end"} : pc[t] = "wait2" /\ pc' = [pc EXCEPT ![t] = there]
    BY <1>7 DEF CLHStart, Start, Goto
  <2>2. UNCHANGED <<tail, myPred, myNode>>
    BY <1>7 DEF CLHStart, nodeVars
  <2> QED
    BY <1>2, <2>1, <2>2
<1>8. ASSUME NEW t \in Threads, Mark(t)
      PROVE  Kept
  BY <1>2, <1>8 DEF Mark, Within, Goto
<1>9. ASSUME NEW t \in Threads, Free(t)
      PROVE  Kept
  <2>1. PICK there \in {"arrive1", "done"} : pc[t] = "free" /\ pc' = [pc EXCEPT ![t] = there]
    BY <1>9 DEF Free, NextExec, Goto
  <2>2. UNCHANGED <<tail, myPred, myNode>>
    BY <1>9 DEF Free
  <2> QED
    BY <1>2, <2>1, <2>2
<1>10. ASSUME NEW t \in Threads, SwapTail(t) \/ CLHEnter(t) \/ CLHUnlock(t)
       PROVE  Chained' /\ QueueFifo!Next
  BY <1>10, SwapJoins, EnterGrants, UnlockLeaves DEF QueueFifo!Next
<1>11. CASE UNCHANGED clhVars
  <2>1. UNCHANGED <<pc, tail, myPred, myNode>>
    BY <1>11 DEF clhVars, driverVars, nodeVars
  <2>2. Queued' = Queued /\ CLHHeld' = CLHHeld
    BY <2>1 DEF Queued, CLHHeld
  <2> QED
    BY <2>1, <2>2, OrderKept
<1> QED
  BY <1>3, <1>4, <1>5, <1>6, <1>7, <1>8, <1>9, <1>10, <1>11 DEF CLHNext, CLHStep

\* The lock is first come, first served, where one comes with the exchange of
\* tail, for any number of threads, although nothing records the queue.
THEOREM CLHFirstComeFirstServed == CLHSpec => CLHImplementsFifo
<1>1. CLHInit => QueueFifo!Init /\ Chained
  <2>1. SUFFICES ASSUME CLHInit PROVE Chained /\ CLHOrder = <<>> /\ CLHHeld = FALSE
    BY DEF QueueFifo!Init
  <2>2. CLHIInv /\ \A t \in Threads : pc[t] = "arrive1"
    BY <2>1, CLHInitIInv DEF CLHInit, DriverInit
  <2>3. Queued = {} /\ CLHHeld = FALSE
    BY <2>2 DEF Queued, CLHHeld
  <2> QED
    BY <2>2, <2>3, Nobody DEF NobodyIs
<1>2. /\ CLHIInv /\ CLHIInv' /\ MutualExclusion /\ MutualExclusion' /\ Chained /\ [CLHNext]_clhVars
      => Chained' /\ [QueueFifo!Next]_QueueFifo!vars
  BY StepIsFifo
<1> QED
  BY <1>1, <1>2, CLHInvariance, CLHQueueLockExcludes, PTL DEF CLHSpec, CLHImplementsFifo, QueueFifo!Spec

(* The account of the driver. *)

CLHBefore == {"arrive1", "wait1", "init", "alloc", "arrive2", "wait2"}
CLHSaved == {"arrive3", "wait3", "free"}

CLHAccount == Account(CLHBefore, CLHWork, CLHSaved)

\* It begins empty.
LEMMA CLHAccountInit == CLHInit => CLHAccount
  BY AccountInit DEF CLHInit, CLHAccount, Kinds, CLHBefore, CLHWork, CLHSaved

\* Every statement keeps it.
LEMMA CLHAccountNext == CLHIInv /\ CLHAccount /\ [CLHNext]_clhVars => CLHAccount'
<1> SUFFICES ASSUME CLHIInv, CLHAccount, [CLHNext]_clhVars
             PROVE  CLHAccount'
  OBVIOUS
<1>1. Kinds(CLHBefore, CLHWork, CLHSaved) /\ DriverTypeOK(CLHLabels) /\ Counted(CLHWork)
  BY DEF Kinds, CLHBefore, CLHWork, CLHSaved, CLHIInv, DriverInv
<1>2. ASSUME NEW t \in Threads, CLHStep(t)
      PROVE  DriverStep(t, CLHBefore, CLHWork, CLHSaved)
  <2>1. CASE ArriveFirst(t) \/ InitGlobal(t) \/ Alloc(t) \/ ArriveSecond(t)
    BY <2>1, QuietStep DEF ArriveFirst, InitGlobal, Alloc, ArriveSecond, CLHBefore, CLHWork, CLHSaved
  <2>2. CASE PassFirst(t)
    <3>1. PICK there \in {"init", "alloc"} : Pass(t, "wait1", there)
      BY <2>2 DEF PassFirst
    <3> QED
      BY <3>1, QuietStep DEF CLHBefore, CLHWork, CLHSaved
  <2>3. CASE CLHStart(t)
    BY <1>1, <2>3, StartStep DEF CLHStart, CLHBefore, CLHWork, CLHSaved
  <2>4. CASE Mark(t) \/ SwapTail(t) \/ CLHEnter(t)
    BY <2>4, QuietStep DEF Mark, SwapTail, CLHEnter, CLHBefore, CLHWork, CLHSaved
  <2>5. CASE CLHUnlock(t)
    BY <1>1, <2>5, EndIterationStep DEF CLHUnlock, CLHBefore, CLHWork, CLHSaved
  <2>6. CASE CLHSample(t)
    BY <2>6 DEF CLHSample, Goto, DriverStep, Enters, CLHBefore, CLHWork, CLHSaved
  <2>7. CASE ArriveThird(t) \/ PassThird(t)
    BY <2>7, QuietStep DEF ArriveThird, PassThird, CLHBefore, CLHWork, CLHSaved
  <2>8. CASE Free(t)
    BY <1>1, <2>8, NextExecStep DEF Free, CLHBefore, CLHWork, CLHSaved
  <2> QED
    BY <1>2, <2>1, <2>2, <2>3, <2>4, <2>5, <2>6, <2>7, <2>8 DEF CLHStep
<1>3. CASE CLHNext
  BY <1>1, <1>2, <1>3, DriverStepAccount DEF CLHNext, CLHAccount
<1>4. CASE UNCHANGED clhVars
  BY <1>4, AccountStutters DEF CLHAccount, clhVars
<1> QED
  BY <1>3, <1>4

\* All --iterations of each execution of each run are done and every sample is
\* there, for any split among any threads.
THEOREM CLHWorkSampled == CLHSpec => [](AllWorkDone /\ NoSampleLost)
<1>1. CLHIInv /\ CLHAccount => AllWorkDone /\ NoSampleLost
  BY AccountComplete DEF CLHIInv, DriverInv, CLHAccount
<1>2. CLHSpec => []CLHAccount
  BY CLHAccountInit, CLHAccountNext, CLHInvariance, PTL DEF CLHSpec
<1> QED
  BY <1>1, <1>2, CLHInvariance, PTL
=============================================================================
