---------------------------- MODULE RelaxedSpinLock ----------------------------
(***************************************************************************)
(* taslock_ar.cpp and tatas_lock_ar.cpp: the test-and-set locks with       *)
(* acquire and release operations.                                         *)
(***************************************************************************)
EXTENDS RelaxedBench

CONSTANT TestFirst   \* TRUE for TATASLock, FALSE for TASLock

locked == <<"locked", 0>>

\* The first statement of lock().
Lock == IF TestFirst THEN "test" ELSE "swap"

Labels == {"test", "swap"}

Init == BenchInit(Lock, "done", [l \in {locked} |-> FALSE])

\* while (locked.load(relaxed)) ;
Test(t) ==
  \E n \in Visible(t, locked) :
    /\ Load(t, locked, n, "relaxed")
    /\ Within(t, "test", IF written[locked][n].value THEN "test" ELSE "swap")

\* if (!locked.exchange(true, acquire)) return, and the same for test_and_set
Swap(t) ==
  /\ Within(t, "swap", "cs")
  /\ ~Last(locked)
  /\ Exchange(t, locked, TRUE, "acquire")

\* The exchange finds the lock taken.  It stores what is there already, and what
\* that message carries: nobody can tell the two apart.
Lose(t) ==
  /\ Within(t, "swap", Lock)
  /\ Last(locked)
  /\ Load(t, locked, Newest(locked), "acquire")

\* locked.store(false, release), locked.clear(release)
Unlock(t) ==
  /\ EndIteration(t, "unlock", Lock, "done")
  /\ Store(t, locked, FALSE, "release")

Step(t) == Test(t) \/ Swap(t) \/ Lose(t) \/ Section(t) \/ Unlock(t)

Next == \E t \in Threads : Step(t)

Spec == Init /\ [][Next]_benchVars

-----------------------------------------------------------------------------

TypeOK == BenchTypeOK(Labels)
=============================================================================
