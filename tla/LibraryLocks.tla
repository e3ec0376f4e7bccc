----------------------------- MODULE LibraryLocks -----------------------------
(***************************************************************************)
(* The benchmarks whose lock is a library's or the language's: those of    *)
(* C++11MutexLock, POSIXMutexLock and POLock, which are free or taken, and *)
(* PO_FIFO_Lock, a protected object whose entry has a queue, as the Ada    *)
(* reference manual has it: calls are served in their order, and those     *)
(* that wait before those that come.                                       *)
(***************************************************************************)
EXTENDS Bench, Sequences, FiniteSetsExt

CONSTANT Fifo        \* TRUE for PO_FIFO_Lock

VARIABLES
  Guard,             \* the barrier of the entry, or: the mutex is free
  waiting            \* the calls of the entry that are not served yet

libraryVars == <<driverVars, Guard, waiting>>

LibraryLabels == {"arrive", "wait", "lock", "queued", "cs", "end"}

LibraryInit == DriverInit("arrive") /\ Guard = TRUE /\ waiting = <<>>

LibraryArrive(t) == Arrive(t, "arrive", "wait") /\ UNCHANGED <<Guard, waiting>>

\* The main program of PO_FIFO_Lock computes the shares, once for all runs: the
\* threads of a scaling run have no more to do than those of the last one.
LibraryShare(t) ==
  IF Fifo THEN NrIter \div NrThreads + (IF t < NrIter % NrThreads THEN 1 ELSE 0)
          ELSE IterPerThread(t)

LibraryStart(t) ==
  /\ Released(t)
  /\ iter' = [iter EXCEPT ![t] = IF Participates(t) THEN LibraryShare(t) ELSE 0]
  /\ Goto(t, "wait", IF iter'[t] > 0 THEN "lock" ELSE "end")
  /\ UNCHANGED <<ctr, run, exec, samples, worked, Guard, waiting>>

\* The call of the entry Lock
Call(t) ==
  /\ Fifo
  /\ Within(t, "lock", "queued")
  /\ waiting' = Append(waiting, t)
  /\ UNCHANGED Guard

\* The body of the entry, when Guard
Serve(t) ==
  /\ Fifo /\ Guard /\ waiting # <<>> /\ t = Head(waiting)
  /\ Within(t, "queued", "cs")
  /\ Guard' = FALSE
  /\ waiting' = Tail(waiting)

\* lock() of the mutexes, and the entry of the procedure CriticalSection
LibraryLock(t) ==
  /\ ~Fifo /\ Guard
  /\ Within(t, "lock", "cs")
  /\ Guard' = FALSE
  /\ UNCHANGED waiting

LibraryUnlock(t) ==
  /\ EndIteration(t, "cs", "lock", "end")
  /\ Guard' = TRUE
  /\ UNCHANGED waiting

LibraryEndExec(t) ==
  /\ Record(t)
  /\ NextExec(t, "end", "arrive")
  /\ UNCHANGED <<Guard, waiting>>

LibraryStep(t) ==
  \/ LibraryArrive(t) \/ LibraryStart(t) \/ Call(t) \/ Serve(t) \/ LibraryLock(t)
  \/ LibraryUnlock(t) \/ LibraryEndExec(t)

LibraryNext == \E t \in Threads : LibraryStep(t)

LibrarySpec == LibraryInit /\ [][LibraryNext]_libraryVars

\* The operating system schedules every thread again and again.
FairLibrarySpec == LibrarySpec /\ \A t \in Threads : WF_libraryVars(LibraryStep(t))

\* The thread that holds the lock of PO_FIFO_Lock, and those that wait for it.
Holding == {t \in Threads : pc[t] = "cs"}
EntryQueue == IF Holding = {} THEN waiting ELSE <<CHOOSE t \in Holding : TRUE>> \o waiting

EntryFifo == INSTANCE FifoMutex WITH queue <- EntryQueue, held <- Holding # {}

\* Calls of the entry are served in their order, each after the one before has
\* left.
ImplementsEntryFifo == EntryFifo!Spec

-----------------------------------------------------------------------------

LibraryTypeOK ==
  /\ DriverTypeOK(LibraryLabels)
  /\ Guard \in BOOLEAN
  /\ waiting \in Seq(Threads)

\* PO_FIFO_Lock, unlike the others, does all the work asked for in its last
\* scaling run only: in run r the shares of threads 0 .. r, and nothing else.
SharesDone ==
  LET ofRun(r) == MapThenSumSet(LibraryShare, 0 .. IF ScRuns THEN r ELSE NrThreads - 1)
  IN  AllDone => worked = NrExec * MapThenSumSet(ofRun, 0 .. LastRun)
=============================================================================
