------------------------------- MODULE FairLock -------------------------------
(***************************************************************************)
(* Taubenfeld's fair synchronization around a test-and-test-and-set lock   *)
(* (benchmark/blocking/Taubenfeld) with its driver, in both builds: the    *)
(* sequentially consistent one, and the acquire-release one on x86-64,     *)
(* where a store waits in the store buffer of its thread, seen only by     *)
(* that, until it reaches the memory, and mfence at the end of             *)
(* entry_section, the exchange of lock() and that of barrier_wait wait     *)
(* until the buffer is empty.                                              *)
(***************************************************************************)
EXTENDS Bench, Sequences

CONSTANT Buffered        \* FALSE for fair_lock_sc.cpp, TRUE for fair_lock_ar.cpp

VARIABLES
  group, state, locked,  \* the shared variables, in memory
  buffer,                \* the stores of each thread that are not there yet
  j, tmp,                \* locals of entry_section; tmp is what is stored in
                         \* state[tid], which only thread tid writes
  passed                 \* history: passed[t][u] counts how often u got the lock
                         \* since the doorway of t ended for all to see, from -1
                         \* if u was on its way by then

fairVars == <<group, state, j, tmp>>
fairLockVars == <<fairVars, locked, buffer, passed>>
allFairVars == <<driverVars, fairLockVars>>

Waiting == {"enabled", "doorway", "differ", "same1", "same2", "fence", "test", "swap"}

\* From the first store of the doorway to the acquisition of the lock.
Entry == {"choose", "join"} \cup Waiting

FairLabels == {"arrive", "wait", "enter"} \cup Entry \cup {"cs", "leave1", "leave2", "end"}

\* init_fair_lock
FairInit ==
  /\ DriverInit("arrive")
  /\ group = 0
  /\ state = [t \in Threads |-> 3]
  /\ locked = FALSE
  /\ buffer = [t \in Threads |-> <<>>]
  /\ j = [t \in Threads |-> 0]
  /\ tmp = [t \in Threads |-> 0]
  /\ passed = [t \in Threads |-> [u \in Threads |-> 0]]

-----------------------------------------------------------------------------
(* The store buffers *)

\* Where in its buffer the stores of t in a variable are, which only t sees.
Pending(t, var) == {i \in DOMAIN buffer[t] : buffer[t][i].var = var}
Newest(t, var) == CHOOSE i \in Pending(t, var) : \A m \in Pending(t, var) : m <= i

\* A load by t returns its own newest store, or else what is in memory.
Value(t, var, inMemory) ==
  IF Pending(t, var) = {} THEN inMemory ELSE buffer[t][Newest(t, var)].value

Group(t) == Value(t, "group", group)
State(t, u) == IF u = t THEN Value(t, "state", state[t]) ELSE state[u]

\* A store reaches the memory.  The doorway has ended when the group joined is
\* there.
Write(t, var, value) ==
  /\ group' = IF var = "group" THEN value ELSE group
  /\ state' = IF var = "state" THEN [state EXCEPT ![t] = value] ELSE state
  /\ locked' = IF var = "locked" THEN value ELSE locked
  /\ passed' = IF var = "state" /\ value \in 0 .. 1
               THEN [passed EXCEPT ![t] = [u \in Threads |-> IF pc[u] \in Entry THEN -1 ELSE 0]]
               ELSE passed

\* Thread t stores a value: it waits in the buffer, or is seen at once.
Store(t, var, value) ==
  IF Buffered
  THEN /\ buffer' = [buffer EXCEPT ![t] = Append(@, [var |-> var, value |-> value])]
       /\ UNCHANGED <<group, state, locked, passed>>
  ELSE Write(t, var, value) /\ UNCHANGED buffer

\* What mfence and locked instructions wait for.
Flushed(t) == buffer[t] = <<>>

\* The oldest store of t reaches the memory.
Drain(t) ==
  /\ ~Flushed(t)
  /\ Write(t, Head(buffer[t]).var, Head(buffer[t]).value)
  /\ buffer' = [buffer EXCEPT ![t] = Tail(@)]
  /\ UNCHANGED <<driverVars, j, tmp>>

-----------------------------------------------------------------------------

\* ++ctr[tid], a locked instruction
ArriveBarrier(t) == Flushed(t) /\ Arrive(t, "arrive", "wait") /\ UNCHANGED fairLockVars

FairStart(t) == Start(t, "wait", "enter", "end") /\ UNCHANGED fairLockVars

\* entry_section: state[tid].state.store(2, relaxed)
BeginDoorway(t) == Within(t, "enter", "choose") /\ Store(t, "state", 2) /\ UNCHANGED <<j, tmp>>

\* tmp = group.load(relaxed)
ChooseGroup(t) ==
  /\ Within(t, "choose", "join")
  /\ tmp' = [tmp EXCEPT ![t] = Group(t)]
  /\ UNCHANGED <<group, state, j, locked, buffer, passed>>

\* state[tid].state.store(tmp, release)
JoinGroup(t) ==
  /\ Within(t, "join", "enabled")
  /\ Store(t, "state", tmp[t])
  /\ j' = [j EXCEPT ![t] = 0]
  /\ UNCHANGED tmp

\* The statement after the waiting loop
Enabled == IF Buffered THEN "fence" ELSE "test"

\* if (tmp != group.load(relaxed)) break
CheckEnabled(t) ==
  /\ Within(t, "enabled", IF tmp[t] # Group(t) THEN Enabled ELSE "doorway")
  /\ UNCHANGED fairLockVars

\* The body of the for loop ends.
NextThread(t, here) ==
  /\ Within(t, here, IF j[t] + 1 < NrThreads THEN "enabled" ELSE Enabled)
  /\ j' = [j EXCEPT ![t] = @ + 1]
  /\ UNCHANGED <<group, state, tmp, locked, buffer, passed>>

\* Wrong variant of OtherGroup: nobody is waited for.
OtherGroupNever(t) == FALSE

OtherGroup(t) == State(t, j[t]) = 1 - tmp[t]

\* if (current_state == 1 - tmp), of a state that has just been loaded
Differs(t, here) ==
  \/ OtherGroup(t) /\ Within(t, here, "same1") /\ UNCHANGED fairLockVars
  \/ ~OtherGroup(t) /\ NextThread(t, here)

\* The load that ends while (state[j].state == 2); the acquire-release build goes
\* on with its value, the other one loads once more.
AwaitDoorway(t) ==
  /\ pc[t] = "doorway"
  /\ State(t, j[t]) # 2
  /\ \/ Buffered /\ Differs(t, "doorway")
     \/ ~Buffered /\ Within(t, "doorway", "differ") /\ UNCHANGED fairLockVars

Differ(t) == pc[t] = "differ" /\ Differs(t, "differ")

\* The two loads of the loop that awaits a thread of the other group
AwaitOther(t) ==
  /\ pc[t] = "same1"
  /\ \/ OtherGroup(t) /\ Within(t, "same1", "same2") /\ UNCHANGED fairLockVars
     \/ ~OtherGroup(t) /\ NextThread(t, "same1")

AwaitGroup(t) ==
  \/ tmp[t] = Group(t) /\ Within(t, "same2", "same1") /\ UNCHANGED fairLockVars
  \/ tmp[t] # Group(t) /\ NextThread(t, "same2")

\* mfence
Fence(t) == Flushed(t) /\ Within(t, "fence", "test") /\ UNCHANGED fairLockVars

-----------------------------------------------------------------------------
(* lock, unlock and exit_section *)

\* while (locked.load(relaxed)) ;
Test(t) ==
  /\ ~Value(t, "locked", locked)
  /\ Within(t, "test", "swap")
  /\ UNCHANGED fairLockVars

\* if (!locked.exchange(true, acquire)) return
Swap(t) ==
  /\ Flushed(t) /\ ~locked
  /\ Within(t, "swap", "cs")
  /\ locked' = TRUE
  /\ passed' = [u \in Threads |->
                  IF u # t /\ pc[u] \in Waiting /\ Pending(u, "state") = {}
                  THEN [passed[u] EXCEPT ![t] = @ + 1] ELSE passed[u]]
  /\ UNCHANGED <<fairVars, buffer>>

Lose(t) == Flushed(t) /\ locked /\ Within(t, "swap", "test") /\ UNCHANGED fairLockVars

\* unlock(): locked.store(false, release)
Unlock(t) == Within(t, "cs", "leave1") /\ Store(t, "locked", FALSE) /\ UNCHANGED <<j, tmp>>

\* exit_section(): group.store(1 - state[tid].state.load(relaxed), relaxed)
SwitchGroup(t) ==
  /\ Within(t, "leave1", "leave2")
  /\ Store(t, "group", 1 - State(t, t))
  /\ UNCHANGED <<j, tmp>>

\* state[tid].state.store(3, release)
Retire(t) ==
  /\ EndIteration(t, "leave2", "enter", "end")
  /\ Store(t, "state", 3)
  /\ UNCHANGED <<j, tmp>>

FairEndExec(t) ==
  /\ Record(t)
  /\ NextExec(t, "end", "arrive")
  /\ UNCHANGED fairLockVars

-----------------------------------------------------------------------------

FairStep(t) ==
  \/ ArriveBarrier(t) \/ FairStart(t)
  \/ BeginDoorway(t) \/ ChooseGroup(t) \/ JoinGroup(t) \/ CheckEnabled(t)
  \/ AwaitDoorway(t) \/ Differ(t) \/ AwaitOther(t) \/ AwaitGroup(t) \/ Fence(t)
  \/ Test(t) \/ Swap(t) \/ Lose(t) \/ Unlock(t) \/ SwitchGroup(t) \/ Retire(t)
  \/ FairEndExec(t)

FairNext == \E t \in Threads : FairStep(t) \/ Drain(t)

FairLockSpec == FairInit /\ [][FairNext]_allFairVars

-----------------------------------------------------------------------------

FairTypeOK ==
  /\ DriverTypeOK(FairLabels)
  /\ group \in 0 .. 1
  /\ state \in [Threads -> 0 .. 3]
  /\ locked \in BOOLEAN
  /\ j \in [Threads -> 0 .. NrThreads]
  /\ tmp \in [Threads -> 0 .. 1]
  /\ passed \in [Threads -> [Threads -> Int]]

\* "The fairness requirement prevents a thread from accessing a resource twice
\* while another thread is waiting" (README.md): from the moment at which all can
\* see the end of its doorway to its own acquisition of the lock, a thread sees
\* each other one come and get the lock at most once, although the lock inside is
\* an unfair one.  (An access for which the other had already set out comes on
\* top.)
NoSecondAccess ==
  \A t, u \in Threads :
    pc[t] \in Waiting /\ Pending(t, "state") = {} => passed[t][u] <= 1

\* A bound for TLC, with stores that are buffered: one thread executes its doorway
\* before the others come, whose stores soon reach the memory, and its own stores
\* do so only when each of the others has at most one access ahead.
OneComesLate ==
  LET late == NrThreads - 1 IN
    \A t \in Threads \ {late} :
      /\ Len(buffer[t]) <= 1
      /\ pc[late] \in {"arrive", "wait", "enter", "choose", "join", "enabled", "doorway"}
           => pc[t] \in {"arrive", "wait"}
      /\ pc[late] = "fence" /\ Len(buffer[late]) < 2 => pc[t] # "wait" /\ iter[t] <= 1
=============================================================================
