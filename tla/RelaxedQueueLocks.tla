-------------------------- MODULE RelaxedQueueLocks --------------------------
(***************************************************************************)
(* The two locks whose threads wait in the order in which they came, in    *)
(* their acquire-release builds.                                           *)
(*                                                                         *)
(* arraylock_ar.cpp: a slot is drawn with acquire and release semantics,   *)
(* its flag is awaited with acquire loads, lowered by a relaxed store, and *)
(* that of the next slot is raised by a release store.  A slot is used     *)
(* again and again: its flag may still be seen up from the time before.    *)
(*                                                                         *)
(* clhqueue_lock_ar.cpp: the only barrier of lock() before its spin loop   *)
(* is mem_fence(ss), between the store that marks the thread's node and    *)
(* the relaxed exchange that appends it ("tentative substitute for         *)
(* memory_order_release"); on the other side stands only the dependency of *)
(* the load of myPred->locked on the pointer myPred ("for                  *)
(* memory_order_consume").  Nodes come uninitialised and are used again.   *)
(***************************************************************************)
EXTENDS RelaxedBench

VARIABLES
  slot,             \* thread_local thread_lock_slot
  myNode, myPred,   \* thread_local pointers to nodes
  fenced            \* the view of the store that the last mem_fence(ss) keeps
                    \* before later ones of the thread

tail == <<"tail", 0>>

-----------------------------------------------------------------------------
(* arraylock_ar.cpp *)

Flag(s) == <<"flag", s>>

Slots == 0 .. NrThreads - 1

ArrayLabels == {"lock", "spin", "grant"}

\* init_arraylock, between two barriers
ArrayInit ==
  /\ BenchInit("lock", "done",
       [l \in {tail} \cup {Flag(s) : s \in Slots} |-> IF l = tail THEN 0 ELSE l = Flag(0)])
  /\ slot = [t \in Threads |-> 0]

\* thread_lock_slot = tail.fetch_add(1, acq_rel) % nr_threads
Draw(t) ==
  /\ Within(t, "lock", "spin")
  /\ slot' = [slot EXCEPT ![t] = Last(tail) % NrThreads]
  /\ Exchange(t, tail, Last(tail) + 1, "acq_rel")

\* while (!flags[thread_lock_slot].b.load(acquire)) {}
SpinOnSlot(t) ==
  /\ \E n \in Visible(t, Flag(slot[t])) :
       /\ Load(t, Flag(slot[t]), n, "acquire")
       /\ Within(t, "spin", IF written[Flag(slot[t])][n].value THEN "cs" ELSE "spin")
  /\ UNCHANGED slot

WorkWithSlot(t) == Section(t) /\ UNCHANGED slot

\* unlock(): flags[thread_lock_slot].b.store(false, relaxed)
Lower(t) ==
  /\ Within(t, "unlock", "grant")
  /\ Store(t, Flag(slot[t]), FALSE, "relaxed")
  /\ UNCHANGED slot

\* flags[(thread_lock_slot + 1) % nr_threads].b.store(true, release)
Grant(t) ==
  /\ EndIteration(t, "grant", "lock", "done")
  /\ Store(t, Flag((slot[t] + 1) % NrThreads), TRUE, "release")
  /\ UNCHANGED slot

ArrayStep(t) == Draw(t) \/ SpinOnSlot(t) \/ WorkWithSlot(t) \/ Lower(t) \/ Grant(t)

ArrayNext == \E t \in Threads : ArrayStep(t)

arrayVars == <<benchVars, slot>>

ArraySpec == ArrayInit /\ [][ArrayNext]_arrayVars

ArrayTypeOK == BenchTypeOK(ArrayLabels) /\ slot \in [Threads -> Slots]

-----------------------------------------------------------------------------
(* clhqueue_lock_ar.cpp *)

nodeVars == <<myNode, myPred, fenced>>

Nodes == 0 .. NrThreads
common == NrThreads   \* common_node

Locked(n) == <<"locked", n>>

CLHLabels == {"mark", "fence", "swap", "spin"}

\* init_per_exec_global and init_per_exec_per_thread, between two barriers
CLHInit ==
  /\ \E garbage \in BOOLEAN :
       BenchInit("mark", "done",
         [l \in {tail} \cup {Locked(n) : n \in Nodes} |->
            IF l = tail THEN common ELSE l # Locked(common) /\ garbage])
  /\ myNode = [t \in Threads |-> t]
  /\ myPred = [t \in Threads |-> common]
  /\ fenced = [t \in Threads |-> Nothing]

\* lock(): myNode->locked.store(true, relaxed)
Mark(t) ==
  /\ Within(t, "mark", "fence")
  /\ Store(t, Locked(myNode[t]), TRUE, "relaxed")
  /\ UNCHANGED nodeVars

\* Wrong variant of Fence: there is none.
FenceNone(t) == Within(t, "fence", "swap") /\ UNCHANGED <<memoryVars, nodeVars>>

\* mem_fence(ss): the store is visible to all who see a later one of the thread.
Fence(t) ==
  /\ Within(t, "fence", "swap")
  /\ fenced' = [fenced EXCEPT ![t] =
                  [Nothing EXCEPT ![Locked(myNode[t])] = seen[t][Locked(myNode[t])]]]
  /\ UNCHANGED <<memoryVars, myNode, myPred>>

\* myPred = tail.exchange(myNode, relaxed).  Of what the message carries, the
\* thread learns what concerns *myPred, which it goes on to load through it.
SwapTail(t) ==
  LET n == Newest(tail)
      pred == Last(tail)
      l == Locked(pred)
  IN  /\ Within(t, "swap", "spin")
      /\ myPred' = [myPred EXCEPT ![t] = pred]
      /\ written' = [written EXCEPT ![tail] =
                       Append(@, [value |-> myNode[t],
                                  view |-> [fenced[t] EXCEPT ![tail] = n + 1]])]
      /\ seen' = [seen EXCEPT ![t][tail] = n + 1,
                              ![t][l] = IF written[tail][n].view[l] > @ THEN written[tail][n].view[l] ELSE @]
      /\ UNCHANGED <<myNode, fenced>>

\* while (myPred->locked.load(acquire)) {}
SpinOnNode(t) ==
  /\ \E n \in Visible(t, Locked(myPred[t])) :
       /\ Load(t, Locked(myPred[t]), n, "acquire")
       /\ Within(t, "spin", IF written[Locked(myPred[t])][n].value THEN "spin" ELSE "cs")
  /\ UNCHANGED nodeVars

WorkWithNodes(t) == Section(t) /\ UNCHANGED nodeVars

\* unlock(): myNode->locked.store(false, release); myNode = myPred
CLHUnlock(t) ==
  /\ EndIteration(t, "unlock", "mark", "done")
  /\ Store(t, Locked(myNode[t]), FALSE, "release")
  /\ myNode' = [myNode EXCEPT ![t] = myPred[t]]
  /\ UNCHANGED <<myPred, fenced>>

CLHStep(t) == Mark(t) \/ Fence(t) \/ SwapTail(t) \/ SpinOnNode(t) \/ WorkWithNodes(t) \/ CLHUnlock(t)

CLHNext == \E t \in Threads : CLHStep(t)

clhVars == <<benchVars, nodeVars>>

CLHSpec == CLHInit /\ [][CLHNext]_clhVars

CLHTypeOK ==
  /\ BenchTypeOK(CLHLabels)
  /\ myNode \in [Threads -> Nodes]
  /\ myPred \in [Threads -> Nodes]
=============================================================================
