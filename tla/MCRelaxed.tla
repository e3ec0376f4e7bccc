------------------------------- MODULE MCRelaxed -------------------------------
(***************************************************************************)
(* Safety, for TLC, one program in each behaviour: the locks and the Ada   *)
(* queue on the memory of their languages, where loads return old values;  *)
(* the fences, by litmus tests; and those locks in which threads wait for  *)
(* each other's turn with more threads or iterations than in MCLocks.      *)
(***************************************************************************)
EXTENDS Locks, Sequences, FiniteSets

CONSTANT NrFair   \* threads of the fair lock, sequentially consistent

VARIABLES
  prog,                                                  \* what is run
  written, seen, left,                                   \* Memory, RelaxedBench
  slot,                                                  \* RelaxedQueueLocks
  myNode, myPred, fenced,                                \* RelaxedQueueLocks
  level, k,                                              \* both filter locks
  node, myFirst, myLast, myNext, item, got,              \* AcquireQueue
  arch, kinds, fence, done, memory, loaded,              \* Fences
  ctr, run, exec, iter, samples, worked,                 \* Bench
  passed, flag, turn, levels, victims,                   \* PetersonLock, FilterLock
  group, state, locked, j, tmp, buffer                   \* FairLock

Tas       == INSTANCE RelaxedSpinLock WITH TestFirst <- FALSE
Tatas     == INSTANCE RelaxedSpinLock WITH TestFirst <- TRUE
Array     == INSTANCE RelaxedQueueLocks WITH NrIter <- NrIter + 1
CLH       == INSTANCE RelaxedQueueLocks
Peterson  == INSTANCE RelaxedTurnLocks WITH NrThreads <- 2
Filter    == INSTANCE RelaxedTurnLocks WITH NrIter <- NrIter - 1

\* One producer with two items and two consumers, and the other way round.
Queue     == INSTANCE AcquireQueue WITH Producers <- {0}, Consumers <- {1, 2},
                                        Share <- [t \in 0 .. 2 |-> IF t = 0 THEN 2 ELSE 1],
                                        DwAtomic <- TRUE
QueueTwo  == INSTANCE AcquireQueue WITH Producers <- {0, 1}, Consumers <- {2},
                                        Share <- [t \in 0 .. 2 |-> IF t = 2 THEN 2 ELSE 1],
                                        DwAtomic <- TRUE

Litmus    == INSTANCE Fences

WidePeterson == INSTANCE PetersonLock WITH NrThreads <- 2, NrIter <- NrIter + 4,
                                           NrExec <- NrExec + 2
WideFilter   == INSTANCE FilterLock WITH NrIter <- NrIter + 3, NrExec <- NrExec + 1
WideFair     == INSTANCE FairLock WITH Buffered <- FALSE, NrThreads <- NrFair, ScRuns <- FALSE
LongFairTSO  == INSTANCE FairLock WITH Buffered <- TRUE, NrThreads <- 2,
                                       NrIter <- NrIter + 1, ScRuns <- FALSE

\* The drivers alone.  (INSTANCEs of their own also tell TLC that Threads, LastRun
\* and Participants differ from one lock to another.)
Driver == INSTANCE Bench
Execution == INSTANCE RelaxedBench

ClhVars == <<myNode, myPred, fenced>>
QueueVars == <<node, myFirst, myLast, myNext, item, got>>
LitmusVars == <<arch, kinds, fence, done, memory, loaded>>
DriverVars == <<ctr, run, exec, iter, samples, worked>>
FairVars == <<group, state, locked, j, tmp>>
vars == <<prog, pc, written, seen, left, slot, ClhVars, level, k, QueueVars, LitmusVars,
          DriverVars, passed, flag, turn, levels, victims, FairVars, buffer>>

None == 0

\* The programs, by what they have in common.
Ordered == {"Tas", "Tatas", "Array", "CLH"}
Relaxed == Ordered \cup {"Peterson", "Filter"}
Queues == {"Queue", "QueueTwo"}
Fairs == {"WideFair", "LongFairTSO"}
Wide == Fairs \cup {"WidePeterson", "WideFilter"}

\* A variable that only some programs have is None in, and unchanged by, the
\* others.
Only(ps, absent) == IF prog \in ps THEN TRUE ELSE absent

Init ==
  /\ \/ prog = "Tas" /\ Tas!Init
     \/ prog = "Tatas" /\ Tatas!Init
     \/ prog = "Array" /\ Array!ArrayInit
     \/ prog = "CLH" /\ CLH!CLHInit
     \/ prog = "Peterson" /\ Peterson!PetersonInit
     \/ prog = "Filter" /\ Filter!FilterInit
     \/ prog = "Queue" /\ Queue!Init
     \/ prog = "QueueTwo" /\ QueueTwo!Init
     \/ prog = "Litmus" /\ Litmus!FencesInit /\ pc = <<>>
     \/ prog = "WidePeterson" /\ WidePeterson!PetersonInit
     \/ prog = "WideFilter" /\ WideFilter!FilterInit
     \/ prog = "WideFair" /\ WideFair!FairInit
     \/ prog = "LongFairTSO" /\ LongFairTSO!FairInit
  /\ Only(Relaxed \cup Queues, written = None /\ seen = None /\ left = None)
  /\ Only({"Array"}, slot = None)
  /\ Only({"CLH"}, myNode = None /\ myPred = None /\ fenced = None)
  /\ Only({"Filter", "WideFilter"}, level = None /\ k = None)
  /\ Only(Queues, /\ node = None /\ myFirst = None /\ myLast = None
                  /\ myNext = None /\ item = None /\ got = None)
  /\ Only({"Litmus"}, /\ arch = None /\ kinds = None /\ fence = None /\ done = None
                      /\ memory = None /\ loaded = None)
  /\ Only(Wide, /\ ctr = None /\ run = None /\ exec = None /\ iter = None
                /\ samples = None /\ worked = None)
  /\ Only(Wide \ {"WideFilter"}, passed = None)
  /\ Only({"WidePeterson"}, flag = None /\ turn = None)
  /\ Only({"WideFilter"}, levels = None /\ victims = None)
  /\ Only(Fairs, group = None /\ state = None /\ locked = None /\ j = None /\ tmp = None)
  /\ Only(Fairs, buffer = None)

KeepOthers ==
  /\ UNCHANGED prog
  /\ IF prog \in Wide
     THEN /\ UNCHANGED <<written, seen, left, slot, ClhVars, QueueVars, LitmusVars>>
          /\ Only({"WidePeterson"}, UNCHANGED <<flag, turn>>)
          /\ Only({"WideFilter"}, UNCHANGED <<level, k, levels, victims>>)
          /\ Only(Fairs, UNCHANGED <<FairVars, buffer>>)
          /\ prog = "WideFilter" => UNCHANGED passed
     ELSE /\ UNCHANGED <<DriverVars, passed, flag, turn, levels, victims, FairVars, buffer>>
          /\ Only({"Array"}, UNCHANGED slot)
          /\ Only({"CLH"}, UNCHANGED ClhVars)
          /\ Only({"Filter"}, UNCHANGED <<level, k>>)
          /\ Only(Queues, UNCHANGED QueueVars)
          /\ prog = "Litmus" => UNCHANGED <<written, seen, left>>
          /\ prog # "Litmus" => UNCHANGED LitmusVars

Step(t) ==
  \/ prog = "Tas" /\ Tas!Step(t)
  \/ prog = "Tatas" /\ Tatas!Step(t)
  \/ prog = "Array" /\ Array!ArrayStep(t)
  \/ prog = "CLH" /\ CLH!CLHStep(t)
  \/ prog = "Peterson" /\ Peterson!PetersonStep(t)
  \/ prog = "Filter" /\ Filter!FilterStep(t)
  \/ prog = "Queue" /\ Queue!Step(t)
  \/ prog = "QueueTwo" /\ QueueTwo!Step(t)
  \/ prog = "WidePeterson" /\ WidePeterson!PetersonStep(t)
  \/ prog = "WideFilter" /\ WideFilter!FilterStep(t)
  \/ prog = "WideFair" /\ WideFair!FairStep(t)
  \/ prog = "LongFairTSO" /\ (LongFairTSO!FairStep(t) \/ LongFairTSO!Drain(t))

Next ==
  \/ \E t \in DOMAIN pc : Step(t) /\ KeepOthers
  \/ prog = "Litmus" /\ Litmus!FencesNext /\ KeepOthers /\ UNCHANGED pc

Spec == Init /\ [][Next]_vars

-----------------------------------------------------------------------------

TypeOK ==
  CASE prog = "Tas" -> Tas!TypeOK
    [] prog = "Tatas" -> Tatas!TypeOK
    [] prog = "Array" -> Array!ArrayTypeOK
    [] prog = "CLH" -> CLH!CLHTypeOK
    [] prog = "Peterson" -> Peterson!PetersonTypeOK
    [] prog = "Filter" -> Filter!FilterTypeOK
    [] prog = "Queue" -> Queue!TypeOK
    [] prog = "QueueTwo" -> QueueTwo!TypeOK
    [] OTHER -> TRUE

\* What critical sections do to the data is ordered (see RelaxedBench).
SectionsOrdered == prog \in Relaxed => Execution!SectionsOrdered

\* It is in those acquire-release builds whose threads acquire what their
\* predecessor released ...
SectionsOrderedByLock == prog \in Ordered => SectionsOrdered

\* ... and would be under the filter lock, if the exchange of lock() did what its
\* comment says: create "synchronizes-with".
SectionsOrderedByFilter == prog = "Filter" => SectionsOrdered

\* See AcquireQueue, and Fences.
ItemsAsPut ==
  CASE prog = "Queue" -> Queue!ItemsAsPut
    [] prog = "QueueTwo" -> QueueTwo!ItemsAsPut
    [] OTHER -> TRUE
FencesSuffice == prog = "Litmus" => Litmus!FencesSuffice

\* Those who wait come first, each lock in its way: Peterson's lets the other
\* side pass once, each level of the filter holds one thread back, and the fair
\* lock lets nobody in twice while another waits (see there).
WaitersFirst ==
  CASE prog = "WidePeterson" -> WidePeterson!OvertakenOnce
    [] prog = "WideFilter" -> WideFilter!LevelsFilter
    [] prog = "WideFair" -> WideFair!NoSecondAccess
    [] prog = "LongFairTSO" -> LongFairTSO!NoSecondAccess
    [] OTHER -> TRUE
=============================================================================
