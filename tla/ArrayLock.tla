------------------------------ MODULE ArrayLock ------------------------------
(***************************************************************************)
(* Anderson's array lock (benchmark/blocking/ArrayLock) with its driver: a *)
(* thread draws a slot from tail and spins on the flag of its slot, and    *)
(* unlock() hands over by raising the flag of the next one.  Thread 0      *)
(* re-initialises tail and the flags between two barriers before every     *)
(* execution.                                                              *)
(***************************************************************************)
EXTENDS Bench

CONSTANT MaxNrThreads   \* MAX_NR_THREADS, the length of flags[]

VARIABLES
  tail,     \* std::atomic<long long> tail
  flags,    \* flags[0 .. nr_threads - 1]
  slot,     \* thread_local thread_lock_slot
  ticket,   \* history: the value of tail that lock() fetched,
  served    \* ... and the number of unlock() calls since init_arraylock

lockVars == <<tail, flags, slot, ticket, served>>
vars == <<driverVars, lockVars>>

Labels == {"arrive1", "wait1", "init", "arrive2", "wait2",
           "lock", "spin", "cs", "grant", "end"}

Slots == 0 .. NrThreads - 1

\* main calls init_arraylock before it creates the threads.
Init ==
  /\ DriverInit("arrive1")
  /\ tail = 0
  /\ flags = [s \in Slots |-> s = 0]
  /\ slot = [t \in Threads |-> 0]
  /\ ticket = [t \in Threads |-> 0]
  /\ served = 0

ArriveFirst(t) == Arrive(t, "arrive1", "wait1") /\ UNCHANGED lockVars

PassFirst(t) ==
  /\ Pass(t, "wait1", IF t = 0 THEN "init" ELSE "arrive2")
  /\ UNCHANGED lockVars

\* Wrong variant of InitArrayLock: only tail is reset.
InitTailOnly(t) ==
  /\ Within(t, "init", "arrive2")
  /\ tail' = 0 /\ served' = 0
  /\ UNCHANGED <<flags, slot, ticket>>

\* Wrong variant of ArriveSecond: the second barrier is passed straight away,
\* as if a thread had been counted in twice.
ArriveSecondOpen(t) ==
  /\ Goto(t, "arrive2", "wait2")
  /\ UNCHANGED <<ctr, run, exec, iter, samples, worked, lockVars>>

\* init_arraylock by thread 0.  Its stores are one step: InitAlone says that
\* nobody else touches the lock meanwhile.
InitArrayLock(t) ==
  /\ Within(t, "init", "arrive2")
  /\ tail' = 0 /\ served' = 0
  /\ flags' = [s \in Slots |-> s = tail']
  /\ UNCHANGED <<slot, ticket>>

ArriveSecond(t) == Arrive(t, "arrive2", "wait2") /\ UNCHANGED lockVars

StartSync(t) == Start(t, "wait2", "lock", "end") /\ UNCHANGED lockVars

\* thread_lock_slot = (tail++) % nr_threads
Draw(t) ==
  /\ Within(t, "lock", "spin")
  /\ tail' = tail + 1
  /\ slot' = [slot EXCEPT ![t] = tail % NrThreads]
  /\ ticket' = [ticket EXCEPT ![t] = tail]
  /\ UNCHANGED <<flags, served>>

\* The load that ends while (!flags[thread_lock_slot].b.load())
Enter(t) ==
  /\ Within(t, "spin", "cs")
  /\ flags[slot[t]]
  /\ UNCHANGED lockVars

\* unlock(): flags[thread_lock_slot].b.store(false)
Lower(t) ==
  /\ Within(t, "cs", "grant")
  /\ flags' = [flags EXCEPT ![slot[t]] = FALSE]
  /\ UNCHANGED <<tail, slot, ticket, served>>

\* Wrong variant of Grant: the next slot is not taken modulo nr_threads, so
\* the hand-over falls off the end of the array.
GrantNoWrap(t) ==
  /\ EndIteration(t, "grant", "lock", "end")
  /\ flags' = [s \in Slots |-> flags[s] \/ s = slot[t] + 1]
  /\ served' = served + 1
  /\ UNCHANGED <<tail, slot, ticket>>

\* flags[(thread_lock_slot + 1) % nr_threads].b.store(true)
Grant(t) ==
  /\ EndIteration(t, "grant", "lock", "end")
  /\ flags' = [flags EXCEPT ![(slot[t] + 1) % NrThreads] = TRUE]
  /\ served' = served + 1
  /\ UNCHANGED <<tail, slot, ticket>>

EndExec(t) ==
  /\ Record(t)
  /\ NextExec(t, "end", "arrive1")
  /\ UNCHANGED lockVars

Step(t) ==
  \/ ArriveFirst(t) \/ PassFirst(t) \/ InitArrayLock(t) \/ ArriveSecond(t)
  \/ StartSync(t) \/ Draw(t) \/ Enter(t) \/ Lower(t) \/ Grant(t) \/ EndExec(t)

Next == \E t \in Threads : Step(t)

Spec == Init /\ [][Next]_vars

\* The operating system schedules every thread again and again.
Fairness == \A t \in Threads : WF_vars(Step(t))

FairSpec == Spec /\ Fairness

-----------------------------------------------------------------------------

TypeOK ==
  /\ DriverTypeOK(Labels)
  /\ tail \in Nat
  /\ flags \in [Slots -> BOOLEAN]
  /\ slot \in [Threads -> Slots]
  /\ ticket \in [Threads -> Nat]
  /\ served \in Nat

\* The threads that have drawn a slot and not yet handed over.
Queued == {t \in Threads : pc[t] \in {"spin", "cs", "grant"}}

\* No two threads ever spin on, or hold, the same slot: tail is taken modulo
\* the number of threads, so a slot could be drawn again too early.
OwnSlots == \A t, u \in Queued : slot[t] = slot[u] => t = u

\* Whenever thread 0 re-initialises the lock, everybody has left the lock of
\* the last execution and nobody has entered that of the next one.
InitAlone == \A t \in Threads : pc[t] = "init" => Queued = {}

SlotsOwned == OwnSlots /\ InitAlone

\* The threads in the queue by the value of tail they fetched.
Order == [i \in 1 .. tail - served |-> CHOOSE t \in Queued : ticket[t] = served + i - 1]

Held == \E t \in Threads : pc[t] \in {"cs", "grant"}

Fifo == INSTANCE FifoMutex WITH queue <- Order, held <- Held

\* The lock is first come, first served, where one comes with the fetch_add of
\* tail: also in scaling runs, and although slots wrap around.
ImplementsFifo == Fifo!Spec

\* The program ends: the hand-over chain never breaks, not even from one
\* execution to the next.
Termination == <>AllDone

\* Every slot in use lies in the array, whose length is MAX_NR_THREADS.
SlotInArray == \A t \in Queued : slot[t] < MaxNrThreads
=============================================================================
