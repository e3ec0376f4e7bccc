---------------------------- MODULE CLHQueueLock ----------------------------
(***************************************************************************)
(* The CLH queue lock (benchmark/blocking/CLHQueueLock) with its driver: a *)
(* thread appends its node to an implicit queue by exchanging tail, spins  *)
(* on the node of its predecessor, and afterwards keeps that node as its   *)
(* own.  Nodes thus wander between threads while each thread frees, after  *)
(* the execution, the node it allocated before it.                         *)
(***************************************************************************)
EXTENDS Bench, Sequences

VARIABLES
  tail,        \* std::atomic<aligned_node *> tail
  nodeLocked,  \* locked[n]: the flag of node n
  myNode, myPred, myAlloc,   \* the thread_local pointers
  alive        \* allocated nodes: aligned_alloc returns any other one

nodeVars == <<tail, nodeLocked, myNode, myPred, myAlloc, alive>>
clhVars == <<driverVars, nodeVars>>

CLHLabels == {"arrive1", "wait1", "init", "alloc", "arrive2", "wait2",
              "mark", "swap", "spin", "cs", "end", "arrive3", "wait3", "free"}

common == 0              \* &common_node
Heap == 1 .. NrThreads   \* addresses: no more nodes than threads are alive
Nodes == Heap \cup {common}
Null == -1

CLHInit ==
  /\ DriverInit("arrive1")
  /\ tail = Null
  /\ nodeLocked = [n \in Nodes |-> FALSE]
  /\ myNode = [t \in Threads |-> Null]
  /\ myPred = [t \in Threads |-> Null]
  /\ myAlloc = [t \in Threads |-> Null]
  /\ alive = {}

ArriveFirst(t) == Arrive(t, "arrive1", "wait1") /\ UNCHANGED nodeVars

PassFirst(t) ==
  /\ Pass(t, "wait1", IF t = 0 THEN "init" ELSE "alloc")
  /\ UNCHANGED nodeVars

\* init_per_exec_global by thread 0
InitGlobal(t) ==
  /\ Within(t, "init", "alloc")
  /\ tail' = common
  /\ nodeLocked' = [nodeLocked EXCEPT ![common] = FALSE]
  /\ UNCHANGED <<myNode, myPred, myAlloc, alive>>

\* init_per_exec_per_thread; the memory comes uninitialised
Alloc(t) ==
  /\ Within(t, "alloc", "arrive2")
  /\ \E n \in Heap \ alive, garbage \in BOOLEAN :
       /\ myAlloc' = [myAlloc EXCEPT ![t] = n]
       /\ myNode' = [myNode EXCEPT ![t] = n]
       /\ nodeLocked' = [nodeLocked EXCEPT ![n] = garbage]
       /\ alive' = alive \cup {n}
  /\ UNCHANGED <<tail, myPred>>

ArriveSecond(t) == Arrive(t, "arrive2", "wait2") /\ UNCHANGED nodeVars

CLHStart(t) == Start(t, "wait2", "mark", "end") /\ UNCHANGED nodeVars

\* lock(): myNode->locked = true
Mark(t) ==
  /\ Within(t, "mark", "swap")
  /\ nodeLocked' = [nodeLocked EXCEPT ![myNode[t]] = TRUE]
  /\ UNCHANGED <<tail, myNode, myPred, myAlloc, alive>>

\* myPred = tail.exchange(myNode)
SwapTail(t) ==
  /\ Within(t, "swap", "spin")
  /\ myPred' = [myPred EXCEPT ![t] = tail]
  /\ tail' = myNode[t]
  /\ UNCHANGED <<nodeLocked, myNode, myAlloc, alive>>

\* The load that ends while (myPred->locked)
CLHEnter(t) ==
  /\ Within(t, "spin", "cs")
  /\ ~nodeLocked[myPred[t]]
  /\ UNCHANGED nodeVars

\* unlock(): myNode->locked = false; myNode = myPred, which is thread-local
CLHUnlock(t) ==
  /\ EndIteration(t, "cs", "mark", "end")
  /\ nodeLocked' = [nodeLocked EXCEPT ![myNode[t]] = FALSE]
  /\ myNode' = [myNode EXCEPT ![t] = myPred[t]]
  /\ UNCHANGED <<tail, myPred, myAlloc, alive>>

CLHSample(t) ==
  /\ Record(t)
  /\ Goto(t, "end", "arrive3")
  /\ UNCHANGED <<ctr, run, exec, iter, worked, nodeVars>>

\* Wrong variant of ArriveThird: no barrier between the work and free().
ArriveThirdOpen(t) ==
  /\ Within(t, "arrive3", "free")
  /\ UNCHANGED nodeVars

ArriveThird(t) == Arrive(t, "arrive3", "wait3") /\ UNCHANGED nodeVars

PassThird(t) == Pass(t, "wait3", "free") /\ UNCHANGED nodeVars

\* delete_per_thread: free(myAlloc), and the loop control of thread_f
Free(t) ==
  /\ NextExec(t, "free", "arrive1")
  /\ alive' = alive \ {myAlloc[t]}
  /\ UNCHANGED <<samples, tail, nodeLocked, myNode, myPred, myAlloc>>

CLHStep(t) ==
  \/ ArriveFirst(t) \/ PassFirst(t) \/ InitGlobal(t) \/ Alloc(t)
  \/ ArriveSecond(t) \/ CLHStart(t) \/ Mark(t) \/ SwapTail(t) \/ CLHEnter(t)
  \/ CLHUnlock(t) \/ CLHSample(t) \/ ArriveThird(t) \/ PassThird(t) \/ Free(t)

CLHNext == \E t \in Threads : CLHStep(t)

CLHSpec == CLHInit /\ [][CLHNext]_clhVars

\* The operating system schedules every thread again and again.
CLHFairness == \A t \in Threads : WF_clhVars(CLHStep(t))

FairCLHSpec == CLHSpec /\ CLHFairness

-----------------------------------------------------------------------------

CLHTypeOK ==
  /\ DriverTypeOK(CLHLabels)
  /\ tail \in Nodes \cup {Null}
  /\ nodeLocked \in [Nodes -> BOOLEAN]
  /\ myNode \in [Threads -> Nodes \cup {Null}]
  /\ myPred \in [Threads -> Nodes \cup {Null}]
  /\ myAlloc \in [Threads -> Heap \cup {Null}]
  /\ alive \subseteq Heap

\* The threads that have exchanged tail and not yet released their node.
Queued == {t \in Threads : pc[t] \in {"spin", "cs"}}

\* The memory lock() and unlock() work on: the thread's node, its
\* predecessor's, and whatever tail points to when it is exchanged.
InUse(t) ==
  CASE pc[t] = "mark" -> {myNode[t]}
    [] pc[t] = "swap" -> {myNode[t], tail}
    [] pc[t] \in {"spin", "cs"} -> {myNode[t], myPred[t]}
    [] OTHER -> {}

\* No thread touches a node that has been freed, although a thread frees a
\* node that may by then belong to any other thread.
NoUseAfterFree == \A t \in Threads : InUse(t) \subseteq alive \cup {common}

\* The nodes the threads hold between the barriers are always different ones:
\* nobody marks, as its own, a node that somebody else still spins on.
OwnNodes ==
  \A t, u \in Threads :
    /\ pc[t] \in {"mark", "swap", "spin", "cs"}
    /\ pc[u] \in {"mark", "swap", "spin", "cs"}
    /\ t # u
    => myNode[t] # myNode[u]

\* Every node is freed exactly once, and common_node never is.
FreedOnce ==
  /\ \A t \in Threads : pc[t] = "free" => myAlloc[t] \in alive
  /\ AllDone => alive = {}

\* The nodes that wander from thread to thread are used by one at a time, not
\* after they are freed, and freed once.
NodesOwned == NoUseAfterFree /\ OwnNodes /\ FreedOnce

\* s is the queue that tail and the predecessors imply: tail is the node of the
\* last thread, and each one but the first spins on the node of the one before.
Linked(s) ==
  /\ \A t \in Queued : \E i \in DOMAIN s : s[i] = t
  /\ \A i, j \in DOMAIN s : s[i] = s[j] => i = j
  /\ s # <<>> => myNode[s[Len(s)]] = tail
  /\ \A i \in 2 .. Len(s) : myPred[s[i]] = myNode[s[i - 1]]

CLHOrder == CHOOSE s \in [1 .. Cardinality(Queued) -> Queued] : Linked(s)

CLHHeld == \E t \in Threads : pc[t] = "cs"

QueueFifo == INSTANCE FifoMutex WITH queue <- CLHOrder, held <- CLHHeld

\* The lock is first come, first served, where one comes with the exchange of
\* tail, and the implicit queue is never broken.
CLHImplementsFifo == QueueFifo!Spec

\* The program ends: nobody spins for ever on a node it took over or on one
\* of an earlier execution.
CLHTermination == <>AllDone
=============================================================================
