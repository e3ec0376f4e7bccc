------------------------------- MODULE MCQueues -------------------------------
(***************************************************************************)
(* The queues and the stack under a mutex in their drivers, for TLC: one   *)
(* of them in each behaviour; and the lock-free stack over two scaling     *)
(* runs, where items are left over from one to the next.                   *)
(***************************************************************************)
EXTENDS Integers, Sequences, FiniteSets

CONSTANTS
  NrPairs, NrIter, NrExec, ScRuns,           \* see PairBench
  Benchmarks,                                \* those that are run
  Heap, CountTag, NrReusing,                 \* MSQueue, and its pairs with reuse
  QueueSize, Batch, BatchIncrement, NrRing,  \* BQueue, NrRing for --iterations
  Capacity,                                  \* LibraryQueue
  Stacked                                    \* COstack: its heap

VARIABLES
  pc, ctr, run, exec, iter,                  \* see PairBench
  bench,                                     \* which benchmark is run
  First, Last, element, next, alive, used,   \* MSQueue
  node, myFirst, myLast, myNext, item, made, got,
  data, front, batchFront, tail, batchTail,  \* BQueue
  history, probe, size, value,
  Locked, length,                            \* ListUnderLock
  list,                                      \* shared by name
  queue,                                     \* LibraryQueue
  head, nextOnStack, dataOnStack, aliveOnStack, nodeOnStack, pushed, popped,
  hazard, reclaim, count, old, nx, mine, k   \* COstack

MS == INSTANCE MSQueue WITH Reuse <- FALSE, NrIter <- NrIter - 1, ScRuns <- FALSE
MSReuse == INSTANCE MSQueue WITH Reuse <- TRUE, NrPairs <- NrReusing, ScRuns <- FALSE
Ring == INSTANCE BQueue WITH Batched <- FALSE, NrExec <- NrExec + 1,
          ProdBatch <- Batch, ConsBatch <- Batch
BatchRing == INSTANCE BQueue WITH Batched <- TRUE, NrPairs <- 1, NrIter <- NrRing,
          NrExec <- NrExec + 1, ProdBatch <- Batch, ConsBatch <- Batch
Tas == INSTANCE ListUnderLock WITH Ada <- TRUE
Mutex == INSTANCE ListUnderLock WITH Ada <- FALSE, NrExec <- NrExec + 1
SPSC == INSTANCE LibraryQueue WITH Kind <- "BoostSPSC", NrExec <- NrExec + 1
MPMC == INSTANCE LibraryQueue WITH Kind <- "BoostMPMC", NrExec <- NrExec + 1
AdaPO == INSTANCE LibraryQueue WITH Kind <- "AdaPO", ScRuns <- FALSE, NrExec <- NrExec + 1
Stack == INSTANCE COstack WITH NrIter <- 1, Heap <- Stacked,
           MaxHazardPointers <- 2 * NrPairs, ReclaimAt <- 1,
           next <- nextOnStack, data <- dataOnStack, alive <- aliveOnStack,
           node <- nodeOnStack, made <- pushed, got <- popped

driverVars == <<pc, ctr, run, exec, iter>>
msVars == <<First, Last, element, next, alive, used, node, myFirst, myLast, myNext,
            item, made, got>>
ringVars == <<data, front, batchFront, tail, batchTail, history, probe, size, value>>
stackVars == <<head, nextOnStack, dataOnStack, aliveOnStack, nodeOnStack, pushed, popped,
               hazard, reclaim, count, old, nx, mine, k>>
vars == <<driverVars, bench, msVars, ringVars, Locked, length, list, queue, stackVars>>

OfMS == bench \in {"MSQueue", "MSQueueReuse"}
OfList == bench \in {"TasQueue", "MutexStack"}
OfRing == bench \in {"BQueue", "BQueueBatched"}
OfLibrary == bench \in {"BoostSPSC", "BoostMPMC", "AdaPO"}

None == 0

NoMS ==
  /\ First = None /\ Last = None /\ element = None /\ next = None
  /\ alive = None /\ used = None /\ node = None /\ item = None
  /\ myFirst = None /\ myLast = None /\ myNext = None /\ made = None /\ got = None
NoRing ==
  /\ data = None /\ front = None /\ batchFront = None
  /\ tail = None /\ batchTail = None /\ history = None
  /\ probe = None /\ size = None /\ value = None
NoStack ==
  /\ head = None /\ nextOnStack = None /\ dataOnStack = None /\ aliveOnStack = None
  /\ nodeOnStack = None /\ pushed = None /\ popped = None /\ hazard = None
  /\ reclaim = None /\ count = None /\ old = None /\ nx = None /\ mine = None /\ k = None

Init ==
  /\ bench \in Benchmarks
  /\ \/ bench = "MSQueue" /\ MS!MSInit
     \/ bench = "MSQueueReuse" /\ MSReuse!MSInit
     \/ ~OfMS /\ NoMS
  /\ \/ bench = "BQueue" /\ Ring!RingInit
     \/ bench = "BQueueBatched" /\ BatchRing!RingInit
     \/ ~OfRing /\ NoRing
  /\ \/ bench = "TasQueue" /\ Tas!ListInit
     \/ bench = "MutexStack" /\ Mutex!ListInit
     \/ ~OfList /\ Locked = None /\ length = None /\ list = None
  /\ \/ bench = "BoostSPSC" /\ SPSC!Init
     \/ bench = "BoostMPMC" /\ MPMC!Init
     \/ bench = "AdaPO" /\ AdaPO!Init
     \/ ~OfLibrary /\ queue = None
  /\ \/ bench = "COstack" /\ Stack!Init
     \/ bench # "COstack" /\ NoStack

Running == DOMAIN pc

Step(t) ==
  /\ \/ bench = "MSQueue" /\ MS!MSStep(t)
     \/ bench = "MSQueueReuse" /\ MSReuse!MSStep(t)
     \/ ~OfMS /\ UNCHANGED msVars
  /\ \/ bench = "BQueue" /\ Ring!RingStep(t)
     \/ bench = "BQueueBatched" /\ BatchRing!RingStep(t)
     \/ ~OfRing /\ UNCHANGED ringVars
  /\ \/ bench = "TasQueue" /\ Tas!ListStep(t)
     \/ bench = "MutexStack" /\ Mutex!ListStep(t)
     \/ ~OfList /\ UNCHANGED <<Locked, length, list>>
  /\ \/ bench = "BoostSPSC" /\ SPSC!Step(t)
     \/ bench = "BoostMPMC" /\ MPMC!Step(t)
     \/ bench = "AdaPO" /\ AdaPO!Step(t)
     \/ ~OfLibrary /\ UNCHANGED queue
  /\ \/ bench = "COstack" /\ Stack!Step(t)
     \/ bench # "COstack" /\ UNCHANGED stackVars
  /\ UNCHANGED bench

Next == \E t \in Running : Step(t)

Spec == Init /\ [][Next]_vars

FairSpec == Spec /\ \A t \in 0 .. 2 * NrPairs - 1 : WF_vars(t \in Running /\ Step(t))

AllDone == \A t \in Running : pc[t] = "done"

-----------------------------------------------------------------------------

TypeOK ==
  CASE bench = "MSQueue" -> MS!MSTypeOK
    [] bench = "MSQueueReuse" -> MSReuse!MSTypeOK
    [] bench = "BQueue" -> Ring!RingTypeOK
    [] bench = "BQueueBatched" -> BatchRing!RingTypeOK
    [] bench = "TasQueue" -> Tas!ListTypeOK
    [] bench = "MutexStack" -> Mutex!ListTypeOK
    [] bench = "BoostSPSC" -> SPSC!TypeOK
    [] bench = "BoostMPMC" -> MPMC!TypeOK
    [] bench = "AdaPO" -> AdaPO!TypeOK
    [] bench = "COstack" -> Stack!TypeOK

\* See the module of each queue.
FreedUnused ==
  CASE bench = "MSQueue" -> MS!FreedUnused /\ MS!LastLags
    [] bench = "MSQueueReuse" -> MSReuse!FreedUnused /\ MSReuse!LastLags
    [] OTHER -> TRUE
NoItemLost == bench = "MSQueueReuse" => MSReuse!NoItemLost
CountsHold ==
  CASE bench = "BQueue" -> Ring!BatchesHold
    [] bench = "BQueueBatched" -> BatchRing!BatchesHold
    [] bench = "TasQueue" -> Tas!LengthCounts
    [] OTHER -> TRUE

\* The items in queue l.
InQueue(l) ==
  CASE bench = "MSQueue" -> IF l = 0 THEN MS!Contents ELSE <<>>
    [] bench = "MSQueueReuse" -> IF l = 0 THEN MSReuse!Contents ELSE <<>>
    [] bench = "BQueue" -> Ring!RingContents(l)
    [] bench = "BQueueBatched" -> IF l = 0 THEN BatchRing!RingContents(0) ELSE <<>>
    [] bench = "TasQueue" -> IF l = 0 THEN list ELSE <<>>
    [] bench \in {"MutexStack", "COstack"} -> <<>>
    [] OfLibrary -> queue[l]

\* Every queue that the repository implements is one for any interleaving of
\* its statements: in a single step an item is added at the end or taken from
\* the front.
Added == 0 .. NrIter + NrRing
AbstractFirst == INSTANCE Container WITH Items <- Added, Lifo <- FALSE, items <- InQueue(0)
AbstractSecond == INSTANCE Container WITH Items <- Added, Lifo <- FALSE, items <- InQueue(1)
ImplementsQueue == AbstractFirst!Spec /\ AbstractSecond!Spec

\* What is left at the end are the items that the consumers' shares leave out,
\* no more, although consumers wait, race and fail; of the stack its dummy.
LeftBehind ==
  CASE bench = "BoostSPSC" -> SPSC!LeftBehind
    [] bench = "BoostMPMC" -> MPMC!LeftBehind
    [] bench = "AdaPO" -> AdaPO!LeftBehind
    [] bench = "MutexStack" -> Mutex!OneNodeStays
    [] OTHER -> TRUE

\* A benchmark without a lock ends: no consumer waits for an item that does not
\* come, and no producer for a place in the queue.  (Consumers that find a queue
\* under a lock empty take that lock again and again, and neither the lock nor
\* the scheduler keeps them from shutting a producer out for ever.)  Nothing
\* follows the end, so that []<> says what <> does; TLC checks it faster.
Termination == OfList \/ []<>AllDone
=============================================================================
