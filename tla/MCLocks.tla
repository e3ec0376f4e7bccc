-------------------------------- MODULE MCLocks --------------------------------
(***************************************************************************)
(* The locks in their drivers, for TLC, one of them in each behaviour:     *)
(* those that are built on a read-modify-write instruction, the benchmarks *)
(* of a library's locks, those in which threads wait for each other's turn *)
(* (Peterson's for two threads), and Taubenfeld's fair lock once more with *)
(* the store buffers of x86-64.  And the order in which those with a queue *)
(* grant.                                                                  *)
(***************************************************************************)
EXTENDS Locks, Sequences

CONSTANTS NrFilter, NrFair                   \* threads of these two locks

VARIABLES
  ctr, run, exec, iter, samples, worked,     \* see Bench
  lock,                                      \* which benchmark is run
  locked, tail, passed,                      \* shared by name
  flags, slot, ticket, served,               \* ArrayLock
  myNode, myPred, myAlloc, alive,            \* CLHQueueLock
  Guard, waiting,                            \* LibraryLocks
  flag, turn,                                \* PetersonLock
  levels, victims, level, k,                 \* FilterLock
  group, state, j, tmp, buffer               \* fair lock

Tas      == INSTANCE SpinLock WITH TestFirst <- FALSE
Tatas    == INSTANCE SpinLock WITH TestFirst <- TRUE
Array    == INSTANCE ArrayLock WITH NrIter <- NrIter + 3, MaxNrThreads <- NrThreads
CLH      == INSTANCE CLHQueueLock WITH nodeLocked <- locked, NrExec <- NrExec - 1
Mutex    == INSTANCE LibraryLocks WITH Fifo <- FALSE
Entry    == INSTANCE LibraryLocks WITH Fifo <- TRUE
Peterson == INSTANCE PetersonLock WITH NrThreads <- 2, NrExec <- NrExec + 1
Filter   == INSTANCE FilterLock WITH NrThreads <- NrFilter
Fair     == INSTANCE FairLock WITH Buffered <- FALSE, NrThreads <- NrFair, ScRuns <- FALSE
FairTSO  == INSTANCE FairLock WITH Buffered <- TRUE, NrThreads <- NrFair,
                                 NrIter <- NrIter - 1, NrExec <- NrExec - 1, ScRuns <- FALSE

\* The driver alone.  (An INSTANCE of its own also tells TLC that Threads and
\* LastRun differ from one lock to another.)
Driver == INSTANCE Bench
Threads == Driver!Threads

driverVars == <<pc, ctr, run, exec, iter, samples, worked>>
sharedVars == <<locked, tail, passed>>
arrayVars == <<flags, slot, ticket, served>>
clhVars == <<myNode, myPred, myAlloc, alive>>
libraryVars == <<Guard, waiting>>
petersonVars == <<flag, turn>>
filterVars == <<levels, victims, level, k>>
fairVars == <<group, state, j, tmp>>
vars == <<driverVars, lock, sharedVars, arrayVars, clhVars, libraryVars, petersonVars,
          filterVars, fairVars, buffer>>

None == 0

Spins == {"TASLock", "TATASLock"}
Library == {"MutexLock", "PO_FIFO_Lock"}
Fairs == {"FairLock", "FairLockTSO"}

\* A variable that only some benchmarks have is None in, and unchanged by, the
\* others.
Only(ls, absent) == IF lock \in ls THEN TRUE ELSE absent

Init ==
  /\ \/ lock = "TASLock" /\ Tas!SpinInit
     \/ lock = "TATASLock" /\ Tatas!SpinInit
     \/ lock = "ArrayLock" /\ Array!Init
     \/ lock = "CLHQueueLock" /\ CLH!CLHInit
     \/ lock = "MutexLock" /\ Mutex!LibraryInit
     \/ lock = "PO_FIFO_Lock" /\ Entry!LibraryInit
     \/ lock = "PetersonLock" /\ Peterson!PetersonInit
     \/ lock = "FilterLock" /\ Filter!FilterInit
     \/ lock = "FairLock" /\ Fair!FairInit
     \/ lock = "FairLockTSO" /\ FairTSO!FairInit
  /\ Only(Spins \cup {"CLHQueueLock"} \cup Fairs, locked = None)
  /\ Only({"ArrayLock", "CLHQueueLock"}, tail = None)
  /\ Only({"PetersonLock"} \cup Fairs, passed = None)
  /\ Only({"ArrayLock"}, flags = None /\ slot = None /\ ticket = None /\ served = None)
  /\ Only({"CLHQueueLock"}, myNode = None /\ myPred = None /\ myAlloc = None /\ alive = None)
  /\ Only(Library, Guard = None /\ waiting = None)
  /\ Only({"PetersonLock"}, flag = None /\ turn = None)
  /\ Only({"FilterLock"}, levels = None /\ victims = None /\ level = None /\ k = None)
  /\ Only(Fairs, group = None /\ state = None /\ j = None /\ tmp = None)
  /\ Only(Fairs, buffer = None)

KeepOthers ==
  /\ UNCHANGED lock
  /\ Only(Spins \cup {"CLHQueueLock"} \cup Fairs, UNCHANGED locked)
  /\ Only({"ArrayLock", "CLHQueueLock"}, UNCHANGED tail)
  /\ Only({"PetersonLock"} \cup Fairs, UNCHANGED passed)
  /\ Only({"ArrayLock"}, UNCHANGED arrayVars)
  /\ Only({"CLHQueueLock"}, UNCHANGED clhVars)
  /\ Only(Library, UNCHANGED libraryVars)
  /\ Only({"PetersonLock"}, UNCHANGED petersonVars)
  /\ Only({"FilterLock"}, UNCHANGED filterVars)
  /\ Only(Fairs, UNCHANGED fairVars)
  /\ Only(Fairs, UNCHANGED buffer)

Step(t) ==
  /\ \/ lock = "TASLock" /\ Tas!SpinStep(t)
     \/ lock = "TATASLock" /\ Tatas!SpinStep(t)
     \/ lock = "ArrayLock" /\ Array!Step(t)
     \/ lock = "CLHQueueLock" /\ CLH!CLHStep(t)
     \/ lock = "MutexLock" /\ Mutex!LibraryStep(t)
     \/ lock = "PO_FIFO_Lock" /\ Entry!LibraryStep(t)
     \/ lock = "PetersonLock" /\ Peterson!PetersonStep(t)
     \/ lock = "FilterLock" /\ Filter!FilterStep(t)
     \/ lock = "FairLock" /\ Fair!FairStep(t)
     \/ lock = "FairLockTSO" /\ FairTSO!FairStep(t)
  /\ KeepOthers

Running == DOMAIN pc

\* The oldest store of a thread reaches the memory.
Drain(t) == lock = "FairLockTSO" /\ FairTSO!Drain(t) /\ KeepOthers

Draining == \E t \in Running : Drain(t)

Next == Draining \/ \E t \in Running : Step(t)

\* The operating system schedules every thread again and again, and while
\* stores are in some buffer, one of them reaches the memory again and again.
FairSpec ==
  /\ Init /\ [][Next]_vars
  /\ \A t \in Threads : WF_vars(t \in Running /\ Step(t))
  /\ WF_vars(Draining)

-----------------------------------------------------------------------------

TypeOK ==
  CASE lock = "TASLock" -> Tas!SpinTypeOK
    [] lock = "TATASLock" -> Tatas!SpinTypeOK
    [] lock = "ArrayLock" -> Array!TypeOK
    [] lock = "CLHQueueLock" -> CLH!CLHTypeOK
    [] lock = "MutexLock" -> Mutex!LibraryTypeOK
    [] lock = "PO_FIFO_Lock" -> Entry!LibraryTypeOK
    [] lock = "PetersonLock" -> Peterson!PetersonTypeOK
    [] lock = "FilterLock" -> Filter!FilterTypeOK
    [] lock = "FairLock" -> Fair!FairTypeOK
    [] lock = "FairLockTSO" -> FairTSO!FairTypeOK

\* The driver's accounting, under each lock (see Bench).
AllWorkSampled ==
  CASE lock = "TASLock" -> Tas!NoSampleLost /\ Tas!AllWorkDone
    [] lock = "TATASLock" -> Tatas!NoSampleLost /\ Tatas!AllWorkDone
    [] lock = "ArrayLock" -> Array!NoSampleLost /\ Array!AllWorkDone
    [] lock = "CLHQueueLock" -> CLH!NoSampleLost /\ CLH!AllWorkDone
    [] lock = "MutexLock" -> Mutex!NoSampleLost /\ Mutex!AllWorkDone
    [] lock = "PO_FIFO_Lock" -> Entry!NoSampleLost /\ Entry!SharesDone
    [] lock = "PetersonLock" -> Peterson!NoSampleLost /\ Peterson!AllWorkDone
    [] lock = "FilterLock" -> Filter!NoSampleLost /\ Filter!AllWorkDone
    [] lock = "FairLock" -> Fair!NoSampleLost /\ Fair!AllWorkDone
    [] lock = "FairLockTSO" -> FairTSO!NoSampleLost /\ FairTSO!AllWorkDone

\* ArrayLock: nobody draws a slot in use, and thread 0 finds nobody in the lock
\* that it initialises again.
SlotsOwned == lock = "ArrayLock" => Array!SlotsOwned

\* CLHQueueLock: the nodes that wander from thread to thread are used by one at
\* a time, not after they are freed, and freed once.
NodesOwned == lock = "CLHQueueLock" => CLH!NodesOwned

\* Every benchmark ends: nobody waits for ever, nor do threads wait for one
\* another.  (Nothing follows the end, so that []<> says what <> does; TLC checks
\* it faster.)
Termination == []<>(\A t \in Running : pc[t] = "done")

Fifo == INSTANCE FifoMutex WITH
          queue <- CASE lock = "ArrayLock" -> Array!Order
                     [] lock = "CLHQueueLock" -> CLH!CLHOrder
                     [] lock = "PO_FIFO_Lock" -> Entry!EntryQueue
                     [] OTHER -> <<>>,
          held <- /\ lock \in {"ArrayLock", "CLHQueueLock", "PO_FIFO_Lock"}
                  /\ \E t \in Threads : pc[t] \in {"cs", "grant"}

\* The queue locks are first come, first served, where one comes with the
\* fetch_add or exchange of tail in lock(), or the call of the entry; the first
\* is always let in.
ImplementsFifo == Fifo!FairSpec
=============================================================================
