------------------------------- MODULE SpinLock -------------------------------
(***************************************************************************)
(* The test-and-set lock (benchmark/blocking/TASLock) and the test-and-    *)
(* test-and-set lock (TATASLock) with their driver.  A spinning thread     *)
(* that does not get on changes nothing: its failing loads are not steps.  *)
(***************************************************************************)
EXTENDS Bench

CONSTANT TestFirst   \* TRUE for TATASLock, FALSE for TASLock

VARIABLE locked      \* std::atomic<bool> locked, std::atomic_flag locked

spinVars == <<driverVars, locked>>

SpinLabels == {"arrive", "wait", "test", "swap", "cs", "end"}

\* The first statement of lock().
SpinEntry == IF TestFirst THEN "test" ELSE "swap"

SpinInit == DriverInit("arrive") /\ locked = FALSE

SpinArrive(t) == Arrive(t, "arrive", "wait") /\ UNCHANGED locked

SpinStart(t) == Start(t, "wait", SpinEntry, "end") /\ UNCHANGED locked

\* while (locked.load()) ;
Test(t) ==
  /\ ~locked
  /\ Within(t, "test", "swap")
  /\ UNCHANGED locked

\* Wrong variant of Swap: the value exchanged out is not looked at.
SwapBlindly(t) ==
  /\ Within(t, "swap", "cs")
  /\ locked' = TRUE

\* if (!locked.exchange(true)) return, and the same for test_and_set()
Swap(t) ==
  /\ ~locked
  /\ Within(t, "swap", "cs")
  /\ locked' = TRUE

\* The exchange of TATASLock found the lock taken: back to the loads.  That of
\* TASLock is repeated.
Lose(t) ==
  /\ TestFirst /\ locked
  /\ Within(t, "swap", "test")
  /\ UNCHANGED locked

\* unlock(): locked.store(false), locked.clear()
SpinUnlock(t) ==
  /\ EndIteration(t, "cs", SpinEntry, "end")
  /\ locked' = FALSE

SpinEndExec(t) ==
  /\ Record(t)
  /\ NextExec(t, "end", "arrive")
  /\ UNCHANGED locked

SpinStep(t) ==
  \/ SpinArrive(t) \/ SpinStart(t) \/ Test(t) \/ Swap(t) \/ Lose(t)
  \/ SpinUnlock(t) \/ SpinEndExec(t)

SpinNext == \E t \in Threads : SpinStep(t)

SpinSpec == SpinInit /\ [][SpinNext]_spinVars

\* The operating system schedules every thread again and again.
SpinFairness == \A t \in Threads : WF_spinVars(SpinStep(t))

FairSpinSpec == SpinSpec /\ SpinFairness

-----------------------------------------------------------------------------

SpinTypeOK == DriverTypeOK(SpinLabels) /\ locked \in BOOLEAN
=============================================================================
