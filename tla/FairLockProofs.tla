---------------------------- MODULE FairLockProofs ----------------------------
(***************************************************************************)
(* The locks that are fair by the order in which threads come, for every   *)
(* number of threads, iterations and executions.                           *)
(*                                                                         *)
(* ArrayLock.  The tickets of the threads in the queue are the numbers     *)
(* from served to tail - 1, each drawn by one thread (Queue).  There are   *)
(* at most NrThreads of them, so that no two agree modulo NrThreads, and   *)
(* the one flag that is up is that of ticket served (Flags).               *)
(* Re-initialisation meets an empty queue because the barriers separate    *)
(* the phases (Phases).                                                    *)
(*                                                                         *)
(* Taubenfeld's lock.  A thread owns the inner lock until its release has  *)
(* left the store buffer.  The threads that are in the lock belong to two  *)
(* groups; group changes when the last thread of the other one has left,   *)
(* which bounds how often those that wait can be passed (FairOrderInv).    *)
(***************************************************************************)
EXTENDS ArrayLock, FairLock, BenchProofs, FiniteSetTheorems

Work == {"lock", "spin", "cs", "grant"}
Waits == {"wait1", "wait2"}

\* Threads between the return of the first barrier and the second one have
\* made an odd number of calls.
Phases ==
  \A t \in Threads : ctr[t] % 2 = IF pc[t] \in {"wait1", "init", "arrive2"} THEN 1 ELSE 0

LockTypes ==
  /\ tail \in Nat /\ served \in Nat
  /\ flags \in [Slots -> BOOLEAN]
  /\ slot \in [Threads -> Slots]
  /\ ticket \in [Threads -> Nat]

Tickets ==
  \A t \in Queued : /\ served <= ticket[t] /\ ticket[t] < tail
                    /\ slot[t] = ticket[t] % NrThreads

Distinct == \A t, u \in Queued : ticket[t] = ticket[u] => t = u

Gapless == \A k \in served .. tail - 1 : \E t \in Queued : ticket[t] = k

Queue == served <= tail /\ Tickets /\ Distinct /\ Gapless

Holder == \A t \in Threads : pc[t] \in {"cs", "grant"} => ticket[t] = served

Flags ==
  \A s \in Slots :
    flags[s] <=> s = served % NrThreads /\ \A t \in Threads : pc[t] # "grant"

LockInv == LockTypes /\ Queue /\ Holder /\ Flags

IInv == DriverInv(Labels, Work, Waits) /\ Phases /\ LockInv

USE NrThreadsAssumption

-----------------------------------------------------------------------------

\* Numbers less than n apart that agree modulo n are equal.
LEMMA ModEqual ==
  ASSUME NEW n \in Nat \ {0}, NEW a \in Nat, NEW b \in Nat,
         a <= b, b < a + n, a % n = b % n
  PROVE  a = b
<1>1. /\ a = n * (a \div n) + (a % n) /\ a \div n \in Nat
      /\ b = n * (b \div n) + (b % n) /\ b \div n \in Nat
      /\ a % n \in Nat
  <2>1. a = n * (a \div n) + (a % n) /\ a \div n \in Nat /\ a % n \in Nat
    BY DivMod
  <2>2. b = n * (b \div n) + (b % n) /\ b \div n \in Nat
    BY DivMod
  <2>3. QED
    BY <2>1, <2>2
<1> DEFINE d == (b \div n) - (a \div n)
<1>2. d \in Int /\ b - a = n * d
  BY <1>1
<1> HIDE DEF d
<1>3. d < 1
  <2>1. SUFFICES ASSUME d >= 1 PROVE FALSE
    BY <1>2
  <2>2. n * d >= n
    BY <1>2, <2>1
  <2>3. QED
    BY <1>2, <2>2
<1>4. d > -1
  <2>1. SUFFICES ASSUME d <= -1 PROVE FALSE
    BY <1>2
  <2>2. n * d <= -n
    BY <1>2, <2>1
  <2>3. QED
    BY <1>2, <2>2
<1>5. d = 0
  BY <1>2, <1>3, <1>4
<1>6. QED
  BY <1>2, <1>5

\* The successor of a slot is the slot of the successor.
LEMMA ModSucc ==
  ASSUME NEW n \in Nat \ {0}, NEW a \in Nat
  PROVE  ((a % n) + 1) % n = (a + 1) % n
<1> DEFINE q == a \div n
<1> DEFINE r == a % n
<1>1. a = n * q + r /\ q \in Nat /\ r \in Nat /\ r < n
  BY DivMod
<1> HIDE DEF q, r
<1>2. CASE r + 1 < n
  <2>1. a + 1 = n * q + (r + 1)
    BY <1>1
  <2>2. (a + 1) % n = r + 1
    BY <1>1, <1>2, <2>1
  <2>3. (r + 1) % n = r + 1
    BY <1>1, <1>2
  <2>4. QED
    BY <2>2, <2>3 DEF r
<1>3. CASE r + 1 = n
  <2>1. a + 1 = n * (q + 1)
    BY <1>1, <1>3
  <2>2. (a + 1) % n = 0
    BY <1>1, <2>1
  <2>3. (r + 1) % n = 0
    BY <1>1, <1>3
  <2>4. QED
    BY <2>2, <2>3 DEF r
<1>4. QED
  BY <1>1, <1>2, <1>3

\* The first ticket has the first slot.
LEMMA ModZero == 0 % NrThreads = 0
  OBVIOUS

\* There are no more tickets in the queue than threads.
LEMMA TicketsFit ==
  ASSUME LockTypes, Queue
  PROVE  tail <= served + NrThreads
<1> DEFINE S == served .. tail - 1
<1> DEFINE f == [k \in S |-> CHOOSE t \in Queued : ticket[t] = k]
<1> USE DEF LockTypes, Queue
<1>1. \A k \in S : f[k] \in Queued /\ ticket[f[k]] = k
  BY DEF Gapless
<1>2. f \in Injection(S, Threads)
  <2>1. f \in [S -> Threads]
    BY <1>1 DEF Queued
  <2>2. \A k, m \in S : f[k] = f[m] => k = m
    BY <1>1
  <2> HIDE DEF f, S
  <2>3. QED
    BY <2>1, <2>2 DEF Injection, IsInjective
<1>3. IsFiniteSet(Threads) /\ Cardinality(Threads) = NrThreads
  BY FS_Interval DEF Threads
<1>4. Cardinality(S) = IF served > tail - 1 THEN 0 ELSE tail - 1 - served + 1
  BY FS_Interval
<1>5. Cardinality(S) <= Cardinality(Threads)
  BY <1>2, <1>3, FS_Injection
<1>6. served > tail - 1 \/ tail - served <= NrThreads
  BY <1>3, <1>4, <1>5
<1>7. QED
  BY <1>6

\* Two threads in the queue with the same slot have the same ticket.
LEMMA SlotsApart ==
  ASSUME LockTypes, Queue, NEW t \in Queued, NEW u \in Queued, slot[t] = slot[u]
  PROVE  t = u
<1>1. /\ ticket[t] \in Nat /\ ticket[u] \in Nat /\ served \in Nat /\ tail \in Nat
      /\ ticket[t] % NrThreads = ticket[u] % NrThreads
      /\ served <= ticket[t] /\ ticket[t] < tail
      /\ served <= ticket[u] /\ ticket[u] < tail
  BY DEF LockTypes, Queue, Tickets, Queued
<1>2. ticket[t] < ticket[u] + NrThreads /\ ticket[u] < ticket[t] + NrThreads
  BY <1>1, TicketsFit
<1>3. ticket[t] = ticket[u]
  <2>1. CASE ticket[t] <= ticket[u]
    BY <1>1, <1>2, <2>1, ModEqual
  <2>2. CASE ticket[u] <= ticket[t]
    BY <1>1, <1>2, <2>2, ModEqual
  <2>3. QED
    BY <1>1, <2>1, <2>2
<1>4. QED
  BY <1>3 DEF Queue, Distinct

\* Thread 0 finds the queue empty when it re-initialises the lock.
LEMMA PhasesSeparate ==
  ASSUME DriverInv(Labels, Work, Waits), Phases
  PROVE  InitAlone
<1> SUFFICES ASSUME NEW t \in Threads, pc[t] = "init",
                    NEW u \in Threads, u \in Queued
             PROVE  FALSE
  BY DEF InitAlone, Queued
<1>1. ctr[t] \in Nat /\ ctr[u] \in Nat
  BY DEF DriverInv, DriverTypeOK
<1>2. ctr[t] <= ctr[u] /\ ctr[u] <= ctr[t]
  BY DEF DriverInv, Separated, Returned, Waits, Queued
<1>3. ctr[t] % 2 = 1 /\ ctr[u] % 2 = 0
  BY DEF Phases, Queued
<1>4. QED
  BY <1>1, <1>2, <1>3

-----------------------------------------------------------------------------

\* main has initialised the lock before it creates the threads.
LEMMA InitIInv == Init => IInv
<1> SUFFICES ASSUME Init
             PROVE  IInv
  OBVIOUS
<1>1. DriverInv(Labels, Work, Waits)
  BY DriverInitInv DEF Init, Labels, Work, Waits
<1>2. Phases
  BY DEF Init, DriverInit, Phases
<1>3. \A t \in Threads : pc[t] = "arrive1"
  BY DEF Init, DriverInit
<1>4. LockTypes
  BY DEF Init, LockTypes, Slots
<1>5. Queue /\ Holder
  BY <1>3 DEF Init, Queue, Tickets, Distinct, Gapless, Holder, Queued
<1>6. Flags
  BY <1>3, ModZero DEF Init, Flags
<1>7. QED
  BY <1>1, <1>2, <1>4, <1>5, <1>6 DEF IInv, LockInv

\* Nothing outside lock() and unlock() touches the queue.
LEMMA Elsewhere ==
  ASSUME LockInv, UNCHANGED lockVars, NEW t \in Threads, NEW there,
         pc \in [Threads -> Labels \cup {"done"}],
         pc' = [pc EXCEPT ![t] = there],
         pc[t] \notin {"spin", "cs", "grant"}, there \notin {"spin", "cs", "grant"}
  PROVE  LockInv'
<1> USE DEF LockInv
<1>1. UNCHANGED <<tail, flags, slot, ticket, served>>
  BY DEF lockVars
<1>2. \A u \in Threads : \A l \in {"spin", "cs", "grant"} : pc'[u] = l <=> pc[u] = l
  OBVIOUS
<1>3. Queued' = Queued
  BY <1>2 DEF Queued
<1>4. LockTypes'
  BY <1>1 DEF LockTypes
<1>5. Queue'
  BY <1>1, <1>3 DEF Queue, Tickets, Distinct, Gapless
<1>6. Holder' /\ Flags'
  BY <1>1, <1>2 DEF Holder, Flags
<1>7. QED
  BY <1>4, <1>5, <1>6

\* A statement that is not a call of the barrier keeps the phase.
LEMMA SamePhase ==
  ASSUME Phases, UNCHANGED ctr, NEW t \in Threads, NEW there,
         pc \in [Threads -> Labels \cup {"done"}],
         pc' = [pc EXCEPT ![t] = there],
         pc[t] \in {"wait1", "init", "arrive2"} <=> there \in {"wait1", "init", "arrive2"}
  PROVE  Phases'
<1>1. \A u \in Threads : pc'[u] = IF u = t THEN there ELSE pc[u]
  OBVIOUS
<1>2. QED
  BY <1>1 DEF Phases

\* init_arraylock, when nobody is in the queue.
LEMMA InitArrayLockInv ==
  ASSUME LockInv, Queued = {}, NEW t \in Threads, InitArrayLock(t),
         pc \in [Threads -> Labels \cup {"done"}]
  PROVE  LockInv'
<1>1. /\ pc' = [pc EXCEPT ![t] = "arrive2"]
      /\ tail' = 0 /\ served' = 0 /\ slot' = slot /\ ticket' = ticket
      /\ flags' = [s \in Slots |-> s = 0]
  BY DEF InitArrayLock, Within, Goto
<1>2. \A u \in Threads : pc'[u] \notin {"spin", "cs", "grant"}
  BY <1>1 DEF Queued
<1>3. LockTypes'
  BY <1>1 DEF LockInv, LockTypes
<1>4. Queue' /\ Holder'
  BY <1>1, <1>2 DEF Queue, Tickets, Distinct, Gapless, Holder, Queued
<1>5. Flags'
  <2>1. \A s \in Slots : flags'[s] <=> s = 0
    BY <1>1
  <2>2. served' % NrThreads = 0
    BY <1>1, ModZero
  <2>3. QED
    BY <1>2, <2>1, <2>2 DEF Flags
<1>6. QED
  BY <1>3, <1>4, <1>5 DEF LockInv

\* lock() draws a ticket: the queue grows at its end.
LEMMA DrawInv ==
  ASSUME LockInv, NEW t \in Threads, Draw(t), pc \in [Threads -> Labels \cup {"done"}]
  PROVE  LockInv'
<1> USE DEF LockInv
<1>1. /\ pc[t] = "lock" /\ pc'[t] = "spin" /\ tail' = tail + 1
      /\ slot' = [slot EXCEPT ![t] = tail % NrThreads]
      /\ ticket' = [ticket EXCEPT ![t] = tail]
      /\ flags' = flags /\ served' = served
      /\ \A u \in Threads : u # t => pc'[u] = pc[u]
  BY DEF Draw, Within, Goto
<1>2. /\ tail \in Nat /\ served \in Nat /\ ticket'[t] = tail
      /\ slot'[t] = tail % NrThreads
      /\ \A u \in Threads : u # t => ticket'[u] = ticket[u] /\ slot'[u] = slot[u]
  BY <1>1 DEF LockTypes
<1>3. t \notin Queued /\ Queued' = Queued \cup {t}
  BY <1>1 DEF Queued
<1>4. LockTypes'
  <2>1. tail % NrThreads \in Slots
    BY <1>2, DivMod DEF Slots
  <2>2. QED
    BY <1>1, <2>1 DEF LockTypes
<1>5. Queue'
  <2>1. Queued \subseteq Threads
    BY DEF Queued
  <2>2. served' <= tail' /\ Tickets'
    BY <1>1, <1>2, <1>3, <2>1 DEF Queue, Tickets, LockTypes
  <2>3. Distinct'
    BY <1>2, <1>3, <2>1 DEF Queue, Tickets, Distinct, LockTypes
  <2>4. Gapless'
    <3>1. SUFFICES ASSUME NEW k \in served .. tail
                   PROVE  \E u \in Queued' : ticket'[u] = k
      BY <1>1, <1>2 DEF Gapless
    <3>2. CASE k = tail
      BY <1>2, <1>3, <3>2
    <3>3. CASE k # tail
      <4>1. k \in served .. tail - 1
        BY <1>2, <3>3
      <4>2. PICK u \in Queued : ticket[u] = k
        BY <4>1 DEF Queue, Gapless
      <4>3. u # t /\ u \in Queued' /\ ticket'[u] = k
        BY <1>2, <1>3, <2>1, <4>2
      <4>4. QED
        BY <4>3
    <3>4. QED
      BY <3>2, <3>3
  <2>5. QED
    BY <2>2, <2>3, <2>4 DEF Queue
<1>6. Holder'
  BY <1>1, <1>2 DEF Holder
<1>7. Flags'
  BY <1>1 DEF Flags
<1>8. QED
  BY <1>4, <1>5, <1>6, <1>7

\* The spinning thread that finds its flag up has the ticket to be served.
LEMMA EnterInv ==
  ASSUME LockInv, NEW t \in Threads, Enter(t), pc \in [Threads -> Labels \cup {"done"}]
  PROVE  LockInv'
<1> USE DEF LockInv
<1>1. /\ pc[t] = "spin" /\ pc'[t] = "cs" /\ flags[slot[t]]
      /\ UNCHANGED <<tail, flags, slot, ticket, served>>
      /\ \A u \in Threads : u # t => pc'[u] = pc[u]
  BY DEF Enter, Within, Goto, lockVars
<1>2. t \in Queued /\ Queued' = Queued
  BY <1>1 DEF Queued
<1>3. /\ ticket[t] \in Nat /\ served \in Nat /\ tail \in Nat /\ slot[t] \in Slots
      /\ served <= ticket[t] /\ ticket[t] < tail /\ slot[t] = ticket[t] % NrThreads
  BY <1>2 DEF LockTypes, Queue, Tickets
<1>4. slot[t] = served % NrThreads /\ \A u \in Threads : pc[u] # "grant"
  BY <1>1, <1>3 DEF Flags
<1>5. ticket[t] = served
  <2>1. ticket[t] < served + NrThreads
    BY <1>3, TicketsFit
  <2>2. QED
    BY <1>3, <1>4, <2>1, ModEqual
<1>6. LockTypes' /\ Queue'
  BY <1>1, <1>2 DEF LockTypes, Queue, Tickets, Distinct, Gapless
<1>7. Holder' /\ Flags'
  BY <1>1, <1>5 DEF Holder, Flags
<1>8. QED
  BY <1>6, <1>7

\* unlock() lowers the flag that is up.
LEMMA LowerInv ==
  ASSUME LockInv, NEW t \in Threads, Lower(t), pc \in [Threads -> Labels \cup {"done"}]
  PROVE  LockInv'
<1> USE DEF LockInv
<1>1. /\ pc[t] = "cs" /\ pc'[t] = "grant"
      /\ flags' = [flags EXCEPT ![slot[t]] = FALSE]
      /\ UNCHANGED <<tail, slot, ticket, served>>
      /\ \A u \in Threads : u # t => pc'[u] = pc[u]
  BY DEF Lower, Within, Goto
<1>2. t \in Queued /\ Queued' = Queued
  BY <1>1 DEF Queued
<1>3. slot[t] \in Slots /\ slot[t] = served % NrThreads
  BY <1>1, <1>2 DEF LockTypes, Queue, Tickets, Holder
<1>4. LockTypes'
  BY <1>1, <1>3 DEF LockTypes
<1>5. Queue'
  BY <1>1, <1>2 DEF Queue, Tickets, Distinct, Gapless
<1>6. Holder'
  BY <1>1 DEF Holder
<1>7. Flags'
  <2>1. \A s \in Slots : ~flags'[s]
    BY <1>1, <1>3 DEF Flags, LockTypes
  <2>2. QED
    BY <1>1, <2>1 DEF Flags
<1>8. QED
  BY <1>4, <1>5, <1>6, <1>7

\* unlock() raises the flag of the next ticket, whether or not it is drawn.
LEMMA GrantInv ==
  ASSUME LockInv, NEW t \in Threads, Grant(t), pc \in [Threads -> Labels \cup {"done"}]
  PROVE  LockInv'
<1> USE DEF LockInv
<1> DEFINE next == (served + 1) % NrThreads
<1>1. /\ pc[t] = "grant" /\ pc'[t] \in {"lock", "end"}
      /\ flags' = [flags EXCEPT ![(slot[t] + 1) % NrThreads] = TRUE]
      /\ served' = served + 1
      /\ UNCHANGED <<tail, slot, ticket>>
      /\ \A u \in Threads : u # t => pc'[u] = pc[u]
  BY DEF Grant, EndIteration, Goto
<1>2. t \in Queued /\ Queued' = Queued \ {t} /\ Queued \subseteq Threads
  BY <1>1 DEF Queued
<1>3. /\ served \in Nat /\ tail \in Nat /\ ticket[t] = served
      /\ served < tail /\ slot[t] = served % NrThreads
  BY <1>1, <1>2 DEF LockTypes, Queue, Tickets, Holder
<1>4. (slot[t] + 1) % NrThreads = next
  BY <1>3, ModSucc
<1>5. next \in Slots
  BY <1>3, DivMod DEF Slots
<1> HIDE DEF next
<1>6. LockTypes'
  BY <1>1, <1>3, <1>4, <1>5 DEF LockTypes
<1>7. \A u \in Threads : u # t => u \notin Queued \/ ticket[u] > served
  BY <1>2, <1>3 DEF Queue, Tickets, Distinct, LockTypes
<1>8. Queue'
  <2>1. served' <= tail' /\ Tickets' /\ Distinct'
    BY <1>1, <1>2, <1>3, <1>7 DEF Queue, Tickets, Distinct, LockTypes
  <2>2. Gapless'
    <3>1. SUFFICES ASSUME NEW k \in served + 1 .. tail - 1
                   PROVE  \E u \in Queued' : ticket'[u] = k
      BY <1>1, <1>3 DEF Gapless
    <3>2. k \in served .. tail - 1 /\ k # served
      BY <1>3
    <3>3. PICK u \in Queued : ticket[u] = k
      BY <3>2 DEF Queue, Gapless
    <3>4. u # t
      BY <1>3, <3>2, <3>3
    <3>5. QED
      BY <1>1, <1>2, <3>3, <3>4
  <2>3. QED
    BY <2>1, <2>2 DEF Queue
<1>9. \A u \in Threads : pc'[u] \notin {"cs", "grant"}
  <2>1. \A u \in Threads : u # t => pc[u] \notin {"cs", "grant"}
    <3>1. \A u \in Threads : pc[u] \in {"cs", "grant"} => u \in Queued /\ ticket[u] = served
      BY DEF Holder, Queued
    <3>2. QED
      BY <1>3, <1>7, <3>1
  <2>2. QED
    BY <1>1, <2>1
<1>10. Holder'
  BY <1>9 DEF Holder
<1>11. Flags'
  <2>1. \A s \in Slots : ~flags[s]
    BY <1>1 DEF Flags
  <2>2. \A s \in Slots : flags'[s] <=> s = next
    BY <1>1, <1>4, <1>5, <2>1 DEF LockTypes
  <2>3. served' % NrThreads = next
    BY <1>1 DEF next
  <2>4. QED
    BY <1>9, <2>2, <2>3 DEF Flags
<1>12. QED
  BY <1>6, <1>8, <1>10, <1>11

\* Every statement preserves the invariant.
LEMMA NextIInv == IInv /\ [Next]_vars => IInv'
<1> SUFFICES ASSUME IInv, [Next]_vars
             PROVE  IInv'
  OBVIOUS
<1> USE DEF IInv
<1> DEFINE D == DriverInv(Labels, Work, Waits)
<1>1. pc \in [Threads -> Labels \cup {"done"}] /\ ctr \in [Threads -> Nat]
  BY DEF DriverInv, DriverTypeOK
<1>2. ASSUME NEW t \in Threads, ArriveFirst(t)
      PROVE  IInv'
  <2>1. D'
    BY <1>2, ArriveInv DEF ArriveFirst, Labels, Work, Waits
  <2>2. Phases'
    BY <1>1, <1>2 DEF ArriveFirst, Arrive, Goto, Phases
  <2>3. LockInv'
    BY <1>1, <1>2, Elsewhere DEF ArriveFirst, Arrive, Goto
  <2>4. QED
    BY <2>1, <2>2, <2>3
<1>3. ASSUME NEW t \in Threads, PassFirst(t)
      PROVE  IInv'
  <2>1. PICK there \in {"init", "arrive2"} : Pass(t, "wait1", there)
    BY <1>3 DEF PassFirst
  <2>2. D'
    BY <2>1, PassInv DEF Labels, Work, Waits
  <2>3. pc[t] = "wait1" /\ pc' = [pc EXCEPT ![t] = there] /\ UNCHANGED ctr
    BY <2>1 DEF Pass, Goto
  <2>4. Phases'
    BY <1>1, <2>3, SamePhase
  <2>5. LockInv'
    BY <1>1, <1>3, <2>3, Elsewhere DEF PassFirst
  <2>6. QED
    BY <2>2, <2>4, <2>5
<1>4. ASSUME NEW t \in Threads, InitArrayLock(t)
      PROVE  IInv'
  <2>1. D'
    BY <1>4, WithinInv DEF InitArrayLock, Labels, Work, Waits
  <2>2. Phases'
    BY <1>1, <1>4, SamePhase DEF InitArrayLock, Within, Goto
  <2>3. Queued = {}
    BY <1>4, PhasesSeparate DEF InitAlone, InitArrayLock, Within, Goto
  <2>4. LockInv'
    BY <1>1, <1>4, <2>3, InitArrayLockInv
  <2>5. QED
    BY <2>1, <2>2, <2>4
<1>5. ASSUME NEW t \in Threads, ArriveSecond(t)
      PROVE  IInv'
  <2>1. D'
    BY <1>5, ArriveInv DEF ArriveSecond, Labels, Work, Waits
  <2>2. Phases'
    BY <1>1, <1>5 DEF ArriveSecond, Arrive, Goto, Phases
  <2>3. LockInv'
    BY <1>1, <1>5, Elsewhere DEF ArriveSecond, Arrive, Goto
  <2>4. QED
    BY <2>1, <2>2, <2>3
<1>6. ASSUME NEW t \in Threads, StartSync(t)
      PROVE  IInv'
  <2>1. D'
    BY <1>6, StartInv DEF StartSync, Labels, Work, Waits
  <2>2. PICK there \in {"lock", "end"} :
          pc[t] = "wait2" /\ pc' = [pc EXCEPT ![t] = there] /\ UNCHANGED ctr
    BY <1>6 DEF StartSync, Start, Goto
  <2>3. Phases'
    BY <1>1, <2>2, SamePhase
  <2>4. LockInv'
    BY <1>1, <1>6, <2>2, Elsewhere DEF StartSync
  <2>5. QED
    BY <2>1, <2>3, <2>4
<1>7. ASSUME NEW t \in Threads, Draw(t)
      PROVE  IInv'
  <2>1. D'
    BY <1>7, WithinInv DEF Draw, Labels, Work, Waits
  <2>2. Phases'
    BY <1>1, <1>7, SamePhase DEF Draw, Within, Goto
  <2>3. QED
    BY <1>1, <1>7, <2>1, <2>2, DrawInv
<1>8. ASSUME NEW t \in Threads, Enter(t)
      PROVE  IInv'
  <2>1. D'
    BY <1>8, WithinInv DEF Enter, Labels, Work, Waits
  <2>2. Phases'
    BY <1>1, <1>8, SamePhase DEF Enter, Within, Goto
  <2>3. QED
    BY <1>1, <1>8, <2>1, <2>2, EnterInv
<1>9. ASSUME NEW t \in Threads, Lower(t)
      PROVE  IInv'
  <2>1. D'
    BY <1>9, WithinInv DEF Lower, Labels, Work, Waits
  <2>2. Phases'
    BY <1>1, <1>9, SamePhase DEF Lower, Within, Goto
  <2>3. QED
    BY <1>1, <1>9, <2>1, <2>2, LowerInv
<1>10. ASSUME NEW t \in Threads, Grant(t)
       PROVE  IInv'
  <2>1. D'
    <3>1. EndIteration(t, "grant", "lock", "end")
      BY <1>10 DEF Grant
    <3>2. /\ "grant" \in Work /\ "lock" \in Labels /\ "end" \in Labels
          /\ "grant" \notin Waits /\ "lock" \notin Waits /\ "end" \notin Waits
          /\ "end" \notin Work
      BY DEF Labels, Work, Waits
    <3>3. QED
      BY <3>1, <3>2, EndIterationInv
  <2>2. PICK there \in {"lock", "end"} :
          pc[t] = "grant" /\ pc' = [pc EXCEPT ![t] = there] /\ UNCHANGED ctr
    BY <1>10 DEF Grant, EndIteration, Goto
  <2>3. Phases'
    BY <1>1, <2>2, SamePhase
  <2>4. QED
    BY <1>1, <1>10, <2>1, <2>3, GrantInv
<1>11. ASSUME NEW t \in Threads, EndExec(t)
       PROVE  IInv'
  <2>1. D'
    <3>1. samples' \in SUBSET Nat
      BY <1>11, RecordNat DEF EndExec, DriverInv
    <3>2. QED
      BY <1>11, <3>1, NextExecInv DEF EndExec, Labels, Work, Waits
  <2>2. PICK there \in {"arrive1", "done"} :
          pc[t] = "end" /\ pc' = [pc EXCEPT ![t] = there] /\ UNCHANGED ctr
    BY <1>11 DEF EndExec, NextExec, Goto
  <2>3. Phases'
    BY <1>1, <2>2, SamePhase
  <2>4. LockInv'
    BY <1>1, <1>11, <2>2, Elsewhere DEF EndExec
  <2>5. QED
    BY <2>1, <2>3, <2>4
<1>12. CASE UNCHANGED vars
  <2>1. D' /\ Phases'
    <3>1. UNCHANGED <<pc, ctr, run, exec, iter, samples, worked>>
      BY <1>12 DEF vars, driverVars
    <3>2. D'
      BY <3>1 DEF DriverInv, DriverTypeOK, Counted, Separated, Returned
    <3>3. Phases'
      BY <3>1 DEF Phases
    <3>4. QED
      BY <3>2, <3>3
  <2>2. LockInv'
    BY <1>12 DEF vars, driverVars, lockVars, LockInv, LockTypes, Queue, Tickets,
                 Distinct, Gapless, Holder, Flags, Queued
  <2>3. QED
    BY <2>1, <2>2
<1>13. QED
  BY <1>2, <1>3, <1>4, <1>5, <1>6, <1>7, <1>8, <1>9, <1>10, <1>11, <1>12
     DEF Next, Step

\* The inductive invariant holds of every behaviour.
THEOREM Invariance == Spec => []IInv
  BY InitIInv, NextIInv, PTL DEF Spec

\* The lock and the driver keep their types; slots stay below nr_threads.
THEOREM TypeCorrect == Spec => []TypeOK
<1>1. IInv => TypeOK
  BY DEF IInv, DriverInv, LockInv, LockTypes, TypeOK
<1>2. QED
  BY <1>1, Invariance, PTL

\* init_arraylock by thread 0 never meets a thread inside lock() or unlock(),
\* for any number of threads: the two barriers keep them apart.
THEOREM InitIsAlone == Spec => []InitAlone
<1>1. IInv => InitAlone
  BY PhasesSeparate DEF IInv
<1>2. QED
  BY <1>1, Invariance, PTL

\* No two threads in the queue ever share a slot of flags[].
THEOREM SlotsAreOwn == Spec => []OwnSlots
<1>1. IInv => OwnSlots
  BY SlotsApart DEF IInv, LockInv, OwnSlots
<1>2. QED
  BY <1>1, Invariance, PTL

\* With no more threads than MAX_NR_THREADS, which the driver does not demand,
\* every slot in use lies in flags[].
THEOREM SlotsFit == MaxNrThreads \in Nat /\ NrThreads <= MaxNrThreads /\ Spec => []SlotInArray
<1> SUFFICES ASSUME MaxNrThreads \in Nat, NrThreads <= MaxNrThreads
             PROVE  Spec => []SlotInArray
  OBVIOUS
<1>1. IInv => SlotInArray
  BY NrThreadsAssumption DEF IInv, LockInv, LockTypes, SlotInArray, Queued, Slots, Threads
<1>2. QED
  BY <1>1, Invariance, PTL

\* The array lock excludes, over all executions and their re-initialisations.
THEOREM ArrayLockExcludes == Spec => []MutualExclusion
<1>1. IInv => MutualExclusion
  <2>1. SUFFICES ASSUME IInv, NEW t \in Threads, NEW u \in Threads,
                        pc[t] = "cs", pc[u] = "cs"
                 PROVE  t = u
    BY DEF MutualExclusion, Inside, IInv, DriverInv, DriverTypeOK, Labels
  <2>2. t \in Queued /\ u \in Queued
    BY <2>1 DEF Queued
  <2>3. ticket[t] = ticket[u]
    BY <2>1 DEF IInv, LockInv, Holder
  <2>4. QED
    BY <2>1, <2>2, <2>3 DEF IInv, LockInv, Queue, Distinct
<1>2. QED
  BY <1>1, Invariance, PTL

-----------------------------------------------------------------------------
(* First come, first served *)

\* Order is the queue: each place has one thread, that with its ticket.
OrderIs ==
  LockTypes /\ Queue =>
    /\ tail - served \in Nat
    /\ Order \in Seq(Threads) /\ Len(Order) = tail - served
    /\ \A i \in 1 .. tail - served : Order[i] \in Queued /\ ticket[Order[i]] = served + i - 1
    /\ \A t \in Queued : \A i \in 1 .. tail - served : ticket[t] = served + i - 1 => Order[i] = t

LEMMA OrderIsIt == OrderIs
<1> SUFFICES ASSUME LockTypes, Queue
             PROVE  /\ tail - served \in Nat
                    /\ Order \in Seq(Threads) /\ Len(Order) = tail - served
                    /\ \A i \in 1 .. tail - served :
                         Order[i] \in Queued /\ ticket[Order[i]] = served + i - 1
                    /\ \A t \in Queued : \A i \in 1 .. tail - served :
                         ticket[t] = served + i - 1 => Order[i] = t
  BY DEF OrderIs
<1>1. tail \in Nat /\ served \in Nat /\ served <= tail
  BY DEF LockTypes, Queue
<1>2. ASSUME NEW i \in 1 .. tail - served
      PROVE  /\ Order[i] \in Queued /\ ticket[Order[i]] = served + i - 1
             /\ \A t \in Queued : ticket[t] = served + i - 1 => Order[i] = t
  <2>1. Order[i] = CHOOSE t \in Queued : ticket[t] = served + i - 1
    BY DEF Order
  <2>2. served + i - 1 \in served .. tail - 1
    BY <1>1
  <2>3. PICK t \in Queued : ticket[t] = served + i - 1
    BY <2>2 DEF Queue, Gapless
  <2>4. Order[i] \in Queued /\ ticket[Order[i]] = served + i - 1
    BY <2>1, <2>3
  <2> QED
    BY <2>4 DEF Queue, Distinct
<1>3. Order \in [1 .. tail - served -> Threads]
  <2>1. \A i \in 1 .. tail - served : Order[i] \in Threads
    BY <1>2 DEF Queued
  <2> QED
    BY <2>1 DEF Order
<1>4. tail - served \in Nat
  BY <1>1
<1>5. Order \in Seq(Threads) /\ Len(Order) = tail - served
  BY <1>3, <1>4
<1> QED
  BY <1>2, <1>4, <1>5

\* The same in the next state.
LEMMA OrderIsNext == OrderIs'
  BY OrderIsIt, PTL

\* Where nobody enters, leaves or holds, the queue stays.
LEMMA OrderKept ==
  ASSUME UNCHANGED <<tail, served, ticket>>, NEW t \in Threads, NEW there,
         pc \in [Threads -> Labels \cup {"done"}], pc' = [pc EXCEPT ![t] = there],
         \/ pc[t] \notin {"spin", "cs", "grant"} /\ there \notin {"spin", "cs", "grant"}
         \/ pc[t] = "cs" /\ there = "grant"
  PROVE  UNCHANGED Fifo!vars
<1>1. \A u \in Threads : pc'[u] = IF u = t THEN there ELSE pc[u]
  OBVIOUS
<1>2. Queued' = Queued /\ Held' = Held
  BY <1>1 DEF Queued, Held
<1>3. Order' = Order
  BY <1>2 DEF Order
<1> QED
  BY <1>2, <1>3 DEF Fifo!vars

\* lock() draws the ticket: the thread joins the queue.
LEMMA DrawJoins ==
  ASSUME IInv, IInv', NEW t \in Threads, Draw(t)
  PROVE  Fifo!Join(t)
<1>1. LockTypes /\ Queue /\ LockTypes' /\ Queue' /\ pc \in [Threads -> Labels \cup {"done"}]
  BY DEF IInv, LockInv, DriverInv, DriverTypeOK
<1>2. /\ pc[t] = "lock" /\ tail' = tail + 1 /\ served' = served
      /\ ticket' = [ticket EXCEPT ![t] = tail]
      /\ \A u \in Threads : pc'[u] = IF u = t THEN "spin" ELSE pc[u]
  BY <1>1 DEF Draw, Within, Goto
<1>3. /\ tail \in Nat /\ served \in Nat /\ ticket'[t] = tail
      /\ \A u \in Threads : u # t => ticket'[u] = ticket[u]
  BY <1>1, <1>2 DEF LockTypes
<1>4. t \notin Queued /\ Queued' = Queued \cup {t} /\ Held' = Held
  BY <1>2 DEF Queued, Held
<1>5. /\ tail - served \in Nat /\ Order \in Seq(Threads) /\ Len(Order) = tail - served
      /\ \A i \in 1 .. tail - served : Order[i] \in Queued /\ ticket[Order[i]] = served + i - 1
  BY <1>1, OrderIsIt DEF OrderIs
<1>6. /\ Order' \in Seq(Threads) /\ Len(Order') = tail' - served'
      /\ \A u \in Queued' : \A i \in 1 .. tail' - served' :
           ticket'[u] = served' + i - 1 => Order'[i] = u
  BY <1>1, OrderIsNext DEF OrderIs
<1>7. Order'[tail - served + 1] = t
  <2>1. tail - served + 1 \in 1 .. tail' - served' /\ tail = served' + (tail - served + 1) - 1
    BY <1>2, <1>3, <1>5
  <2>2. t \in Queued' /\ ticket'[t] = served' + (tail - served + 1) - 1
    BY <1>3, <1>4, <2>1
  <2> QED
    BY <1>6, <2>1, <2>2
<1>8. ASSUME NEW i \in 1 .. tail - served PROVE Order'[i] = Order[i]
  <2>1. Order[i] \in Queued /\ Order[i] # t /\ Order[i] \in Threads
    BY <1>4, <1>5 DEF Queued
  <2>2. Order[i] \in Queued' /\ ticket'[Order[i]] = served' + i - 1
    BY <1>2, <1>3, <1>4, <1>5, <2>1
  <2>3. i \in 1 .. tail' - served'
    BY <1>2, <1>3
  <2> QED
    BY <1>6, <2>2, <2>3
<1>9. Order' = Append(Order, t)
  <2>1. Len(Order') = Len(Order) + 1 /\ Order'[Len(Order) + 1] = t
    <3>1. tail' - served' = tail - served + 1
      BY <1>2, <1>3
    <3> QED
      BY <1>5, <1>6, <1>7, <3>1
  <2>2. \A i \in 1 .. Len(Order) : Order'[i] = Order[i]
    BY <1>5, <1>8
  <2>3. Order \in Seq(Threads) /\ Order' \in Seq(Threads)
    BY <1>5, <1>6
  <2> HIDE DEF Order
  <2> QED
    BY <2>1, <2>2, <2>3, Joined
<1>10. \A i \in DOMAIN Order : Order[i] # t
  BY <1>4, <1>5
<1> QED
  BY <1>4, <1>9, <1>10 DEF Fifo!Join

\* The flag that is up is that of the first thread: it is let in.
LEMMA EnterGrants ==
  ASSUME IInv, IInv', NEW t \in Threads, Enter(t)
  PROVE  Fifo!Grant
<1>1. LockTypes /\ Queue /\ pc \in [Threads -> Labels \cup {"done"}]
  BY DEF IInv, LockInv, DriverInv, DriverTypeOK
<1>2. /\ pc[t] = "spin" /\ UNCHANGED <<tail, served, ticket>>
      /\ \A u \in Threads : pc'[u] = IF u = t THEN "cs" ELSE pc[u]
  BY <1>1 DEF Enter, Within, Goto, lockVars
<1>3. Queued' = Queued /\ t \in Queued /\ Held'
  BY <1>2 DEF Queued, Held
<1>4. ~Held
  <2>1. SUFFICES ASSUME NEW u \in Threads, pc[u] \in {"cs", "grant"} PROVE FALSE
    BY DEF Held
  <2>2. pc'[u] \in {"cs", "grant"} /\ pc'[t] = "cs" /\ u \in Queued /\ u # t
    BY <1>2, <2>1 DEF Queued
  <2>3. ticket[u] = served /\ ticket[t] = served
    BY <1>2, <2>2 DEF IInv, LockInv, Holder
  <2> QED
    BY <1>1, <1>3, <2>2, <2>3 DEF Queue, Distinct
<1>5. Order' = Order
  BY <1>2, <1>3 DEF Order
<1>6. Order # <<>>
  <2>1. Len(Order) = tail - served /\ Order \in Seq(Threads) /\ tail - served \in Nat
    BY <1>1, OrderIsIt DEF OrderIs
  <2>2. served < tail /\ served \in Nat /\ tail \in Nat
    BY <1>1, <1>3 DEF Queue, Tickets, LockTypes, Queued
  <2> QED
    BY <2>1, <2>2, EmptySeq
<1> QED
  BY <1>3, <1>4, <1>5, <1>6 DEF Fifo!Grant

\* unlock() hands over: the first thread leaves.
LEMMA GrantLeaves ==
  ASSUME IInv, IInv', NEW t \in Threads, Grant(t)
  PROVE  Fifo!Leave
<1>1. LockTypes /\ Queue /\ LockTypes' /\ Queue' /\ pc \in [Threads -> Labels \cup {"done"}]
  BY DEF IInv, LockInv, DriverInv, DriverTypeOK
<1>2. /\ pc[t] = "grant" /\ UNCHANGED <<tail, ticket>> /\ served' = served + 1
  BY DEF Grant, EndIteration, Goto
<1>3. PICK there \in {"lock", "end"} :
        \A u \in Threads : pc'[u] = IF u = t THEN there ELSE pc[u]
  BY <1>1 DEF Grant, EndIteration, Goto
<1>4. t \in Queued /\ Queued' = Queued \ {t} /\ Held
  BY <1>2, <1>3 DEF Queued, Held
<1>5. ticket[t] = served /\ served \in Nat /\ tail \in Nat /\ served < tail
  BY <1>1, <1>2, <1>4 DEF IInv, LockInv, Holder, Queue, Tickets, LockTypes
<1>6. ~Held'
  <2>1. SUFFICES ASSUME NEW u \in Threads, pc'[u] \in {"cs", "grant"} PROVE FALSE
    BY DEF Held
  <2>2. pc[u] \in {"cs", "grant"} /\ u # t /\ u \in Queued
    BY <1>3, <2>1 DEF Queued
  <2>3. ticket[u] = served
    BY <2>2 DEF IInv, LockInv, Holder
  <2> QED
    BY <1>1, <1>4, <1>5, <2>2, <2>3 DEF Queue, Distinct
<1>7. /\ tail - served \in Nat /\ Order \in Seq(Threads) /\ Len(Order) = tail - served
      /\ \A i \in 1 .. tail - served : Order[i] \in Queued /\ ticket[Order[i]] = served + i - 1
  BY <1>1, OrderIsIt DEF OrderIs
<1>8. /\ Order' \in Seq(Threads) /\ Len(Order') = tail - (served + 1)
      /\ \A u \in Queued' : \A i \in 1 .. tail - (served + 1) :
           ticket[u] = served + 1 + i - 1 => Order'[i] = u
  BY <1>1, <1>2, OrderIsNext DEF OrderIs
<1>9. ASSUME NEW i \in 1 .. tail - (served + 1) PROVE Order'[i] = Order[i + 1]
  <2>1. i + 1 \in 1 .. tail - served /\ served + (i + 1) - 1 = served + 1 + i - 1
    BY <1>5
  <2>2. Order[i + 1] \in Queued /\ ticket[Order[i + 1]] = served + 1 + i - 1
    BY <1>7, <2>1
  <2>3. Order[i + 1] # t
    BY <1>5, <2>2
  <2> QED
    BY <1>4, <1>8, <2>2, <2>3
<1>10. Order' = Tail(Order)
  <2>1. Len(Order') + 1 = Len(Order) /\ Len(Order) # 0
    BY <1>5, <1>7, <1>8
  <2>2. \A i \in 1 .. Len(Order') : Order'[i] = Order[i + 1]
    BY <1>8, <1>9
  <2>3. Order \in Seq(Threads) /\ Order' \in Seq(Threads)
    BY <1>7, <1>8
  <2>4. Order # <<>>
    BY <2>1, <2>3, EmptySeq
  <2> HIDE DEF Order
  <2> QED
    BY <2>1, <2>2, <2>3, <2>4, Left
<1> QED
  BY <1>4, <1>6, <1>10 DEF Fifo!Leave

\* Without anybody in the queue Order is empty.
NobodyIs == LockTypes /\ Queue /\ Queued = {} => Order = <<>>

LEMMA Nobody == NobodyIs
<1> SUFFICES ASSUME LockTypes, Queue, Queued = {} PROVE Order = <<>>
  BY DEF NobodyIs
<1>1. /\ Order \in Seq(Threads) /\ Len(Order) = tail - served /\ tail - served \in Nat
      /\ \A i \in 1 .. tail - served : Order[i] \in Queued
  BY OrderIsIt DEF OrderIs
<1>2. Len(Order) = 0
  <2>1. Len(Order) \in Nat /\ \A i \in 1 .. Len(Order) : FALSE
    BY <1>1
  <2> HIDE DEF Order
  <2> QED
    BY <2>1
<1> QED
  BY <1>1, <1>2, EmptySeq

\* The same in the next state.
LEMMA NobodyNext == NobodyIs'
  BY Nobody, PTL

\* Every step of the lock is one of the queue, or leaves it alone.
LEMMA StepIsFifo == IInv /\ IInv' /\ [Next]_vars => [Fifo!Next]_Fifo!vars
<1> SUFFICES ASSUME IInv, IInv', [Next]_vars
             PROVE  [Fifo!Next]_Fifo!vars
  OBVIOUS
<1>1. /\ LockTypes /\ Queue /\ LockTypes' /\ Queue' /\ pc \in [Threads -> Labels \cup {"done"}]
      /\ DriverInv(Labels, Work, Waits) /\ Phases
  BY DEF IInv, LockInv, DriverInv, DriverTypeOK
<1>2. ASSUME NEW t \in Threads, UNCHANGED lockVars, NEW there,
             pc' = [pc EXCEPT ![t] = there],
             pc[t] \notin {"spin", "cs", "grant"}, there \notin {"spin", "cs", "grant"}
      PROVE  UNCHANGED Fifo!vars
  <2>1. UNCHANGED <<tail, served, ticket>>
    BY <1>2 DEF lockVars
  <2> QED
    BY <1>1, <1>2, <2>1, OrderKept
<1>3. ASSUME NEW t \in Threads, ArriveFirst(t) \/ ArriveSecond(t)
      PROVE  UNCHANGED Fifo!vars
  BY <1>2, <1>3 DEF ArriveFirst, ArriveSecond, Arrive, Goto
<1>4. ASSUME NEW t \in Threads, PassFirst(t)
      PROVE  UNCHANGED Fifo!vars
  <2>1. PICK there \in {"init", "arrive2"} : pc[t] = "wait1" /\ pc' = [pc EXCEPT ![t] = there]
    BY <1>4 DEF PassFirst, Pass, Goto
  <2>2. UNCHANGED lockVars
    BY <1>4 DEF PassFirst
  <2> QED
    BY <1>2, <2>1, <2>2
<1>5. ASSUME NEW t \in Threads, InitArrayLock(t)
      PROVE  UNCHANGED Fifo!vars
  <2>1. pc[t] = "init" /\ pc' = [pc EXCEPT ![t] = "arrive2"]
    BY <1>5 DEF InitArrayLock, Within, Goto
  <2>2. Queued = {}
    BY <1>1, <2>1, PhasesSeparate DEF InitAlone
  <2>3. \A u \in Threads : pc[u] \notin {"spin", "cs", "grant"}
    BY <2>2 DEF Queued
  <2>4. \A u \in Threads : pc'[u] \notin {"spin", "cs", "grant"}
    BY <1>1, <2>1, <2>3
  <2>5. Queued' = {}
    BY <2>4 DEF Queued
  <2>6. Order = <<>> /\ Order' = <<>>
    BY <1>1, <2>2, <2>5, Nobody, NobodyNext DEF NobodyIs
  <2>7. Held' = Held
    BY <2>3, <2>4 DEF Held
  <2> QED
    BY <2>6, <2>7 DEF Fifo!vars
<1>6. ASSUME NEW t \in Threads, StartSync(t)
      PROVE  UNCHANGED Fifo!vars
  <2>1. PICK there \in {"lock", "end"} : pc[t] = "wait2" /\ pc' = [pc EXCEPT ![t] = there]
    BY <1>6 DEF StartSync, Start, Goto
  <2>2. UNCHANGED lockVars
    BY <1>6 DEF StartSync
  <2> QED
    BY <1>2, <2>1, <2>2
<1>7. ASSUME NEW t \in Threads, Lower(t)
      PROVE  UNCHANGED Fifo!vars
  <2>1. pc[t] = "cs" /\ pc' = [pc EXCEPT ![t] = "grant"] /\ UNCHANGED <<tail, served, ticket>>
    BY <1>7 DEF Lower, Within, Goto
  <2> QED
    BY <1>1, <2>1, OrderKept
<1>8. ASSUME NEW t \in Threads, EndExec(t)
      PROVE  UNCHANGED Fifo!vars
  <2>1. PICK there \in {"arrive1", "done"} : pc[t] = "end" /\ pc' = [pc EXCEPT ![t] = there]
    BY <1>8 DEF EndExec, NextExec, Goto
  <2>2. UNCHANGED lockVars
    BY <1>8 DEF EndExec
  <2> QED
    BY <1>2, <2>1, <2>2
<1>9. ASSUME NEW t \in Threads, Draw(t) \/ Enter(t) \/ Grant(t)
      PROVE  Fifo!Next
  BY <1>9, DrawJoins, EnterGrants, GrantLeaves DEF Fifo!Next
<1>10. CASE UNCHANGED vars
  <2>1. UNCHANGED <<pc, tail, served, ticket>>
    BY <1>10 DEF vars, driverVars, lockVars
  <2>2. Queued' = Queued /\ Held' = Held
    BY <2>1 DEF Queued, Held
  <2>3. Order' = Order
    BY <2>1, <2>2 DEF Order
  <2> QED
    BY <2>2, <2>3 DEF Fifo!vars
<1> QED
  BY <1>3, <1>4, <1>5, <1>6, <1>7, <1>8, <1>9, <1>10 DEF Next, Step

\* The lock is first come, first served, where one comes with the fetch_add of
\* tail: for any number of threads, executions and turns of the array.
THEOREM FirstComeFirstServed == Spec => ImplementsFifo
<1>1. Init => Fifo!Init
  <2>1. SUFFICES ASSUME Init PROVE Order = <<>> /\ Held = FALSE
    BY DEF Fifo!Init
  <2>2. LockTypes /\ Queue /\ \A t \in Threads : pc[t] = "arrive1"
    BY <2>1, InitIInv DEF IInv, LockInv, Init, DriverInit
  <2>3. Queued = {} /\ Held = FALSE
    BY <2>2 DEF Queued, Held
  <2> QED
    BY <2>2, <2>3, Nobody DEF NobodyIs
<1> QED
  BY <1>1, Invariance, StepIsFifo, PTL DEF Spec, ImplementsFifo, Fifo!Spec

\* Slots are never shared, and init_arraylock finds nobody in the lock.
THEOREM SlotsAreOwned == Spec => []SlotsOwned
  BY InitIsAlone, SlotsAreOwn, PTL DEF SlotsOwned

(* The account of the driver. *)

ArrayBefore == {"arrive1", "wait1", "init", "arrive2", "wait2"}

ArrayAccount == Account(ArrayBefore, Work, {})

\* It begins empty.
LEMMA ArrayAccountInit == Init => ArrayAccount
  BY AccountInit DEF Init, ArrayAccount, Kinds, ArrayBefore, Work

\* Every statement keeps it.
LEMMA ArrayAccountNext == IInv /\ ArrayAccount /\ [Next]_vars => ArrayAccount'
<1> SUFFICES ASSUME IInv, ArrayAccount, [Next]_vars
             PROVE  ArrayAccount'
  OBVIOUS
<1>1. Kinds(ArrayBefore, Work, {}) /\ DriverTypeOK(Labels) /\ Counted(Work)
  BY DEF Kinds, ArrayBefore, Work, IInv, DriverInv
<1>2. ASSUME NEW t \in Threads, Step(t)
      PROVE  DriverStep(t, ArrayBefore, Work, {})
  <2>1. CASE ArriveFirst(t) \/ InitArrayLock(t) \/ ArriveSecond(t)
    BY <2>1, QuietStep DEF ArriveFirst, InitArrayLock, ArriveSecond, ArrayBefore, Work
  <2>2. CASE PassFirst(t)
    <3>1. PICK there \in {"init", "arrive2"} : Pass(t, "wait1", there)
      BY <2>2 DEF PassFirst
    <3> QED
      BY <3>1, QuietStep DEF ArrayBefore, Work
  <2>3. CASE StartSync(t)
    BY <1>1, <2>3, StartStep DEF StartSync, ArrayBefore, Work
  <2>4. CASE Draw(t) \/ Enter(t) \/ Lower(t)
    BY <2>4, QuietStep DEF Draw, Enter, Lower, ArrayBefore, Work
  <2>5. CASE Grant(t)
    BY <1>1, <2>5, EndIterationStep DEF Grant, ArrayBefore, Work
  <2>6. CASE EndExec(t)
    BY <1>1, <2>6, NextExecStep DEF EndExec, ArrayBefore, Work
  <2> QED
    BY <1>2, <2>1, <2>2, <2>3, <2>4, <2>5, <2>6 DEF Step
<1>3. CASE Next
  BY <1>1, <1>2, <1>3, DriverStepAccount DEF Next, ArrayAccount
<1>4. CASE UNCHANGED vars
  BY <1>4, AccountStutters DEF ArrayAccount, vars
<1> QED
  BY <1>3, <1>4

\* All --iterations of each execution of each run are done and every sample is
\* there, for any split among any threads.
THEOREM WorkSampled == Spec => [](AllWorkDone /\ NoSampleLost)
<1>1. IInv /\ ArrayAccount => AllWorkDone /\ NoSampleLost
  BY AccountComplete DEF IInv, DriverInv, ArrayAccount
<1>2. Spec => []ArrayAccount
  BY ArrayAccountInit, ArrayAccountNext, Invariance, PTL DEF Spec
<1> QED
  BY <1>1, <1>2, Invariance, PTL

-----------------------------------------------------------------------------
(***************************************************************************)
(* Taubenfeld's fair synchronization.                                      *)
(***************************************************************************)

FairWork == {"enter"} \cup Entry \cup {"cs", "leave1", "leave2"}
FairWaits == {"wait"}

\* What a store buffer can hold.
IsStore(var, value) ==
  \/ var = "group" /\ value \in 0 .. 1
  \/ var = "state" /\ value \in 0 .. 3
  \/ var = "locked" /\ value = FALSE

FairStores ==
  {s \in [var : {"group", "state", "locked"}, value : 0 .. 3 \cup {FALSE}] :
     IsStore(s.var, s.value)}

FairTypes ==
  /\ group \in 0 .. 1
  /\ state \in [Threads -> 0 .. 3]
  /\ locked \in BOOLEAN
  /\ j \in [Threads -> 0 .. NrThreads]
  /\ tmp \in [Threads -> 0 .. 1]
  /\ passed \in [Threads -> [Threads -> Int]]

Stored ==
  /\ buffer \in [Threads -> Seq(FairStores)]
  /\ ~Buffered => \A t \in Threads : buffer[t] = <<>>

\* A thread owns the lock until its release is in memory.
Owner(t) == pc[t] = "cs" \/ Pending(t, "locked") # {}

Owners ==
  /\ \A t \in Threads : Owner(t) => locked
  /\ \A t, u \in Threads : Owner(t) /\ Owner(u) => t = u
  /\ \A t \in Threads : \A i, m \in Pending(t, "locked") : i = m

\* The group that t has joined is the last of its stores.
Declared(t) ==
  IF buffer[t] = <<>> THEN state[t] = tmp[t]
  ELSE buffer[t][Len(buffer[t])] = [var |-> "state", value |-> tmp[t]]

Looping == {"enabled", "doorway", "differ", "same1", "same2"}

Settled ==
  \A t \in Threads :
    /\ pc[t] \in Waiting => Declared(t)
    /\ pc[t] = "cs" => buffer[t] = <<>>
    /\ pc[t] \in {"cs", "leave1"} => state[t] = tmp[t]
    /\ pc[t] = "leave1" => Pending(t, "state") = {} /\ Pending(t, "group") = {}
    /\ pc[t] \in Looping => j[t] < NrThreads

FairMemoryInv == FairTypes /\ Stored /\ Owners /\ Settled

-----------------------------------------------------------------------------
(* The store buffers *)

\* Places, of any sequence of stores.
Places(b, var) == {i \in DOMAIN b : b[i].var = var}

\* A nonempty set of places has a last one.
LEMMA LastPlace ==
  ASSUME NEW n \in Nat, NEW P \in SUBSET (1 .. n), P # {}
  PROVE  \E i \in P : \A m \in P : m <= i
<1> DEFINE S == {k \in Nat : \A Q \in SUBSET (1 .. k) :
                               Q # {} => \E i \in Q : \A m \in Q : m <= i}
<1>1. 0 \in S
  <2>1. 1 .. 0 = {}
    OBVIOUS
  <2> QED
    BY <2>1
<1>2. ASSUME NEW k \in Nat, k \in S
      PROVE  k + 1 \in S
  <2> SUFFICES ASSUME NEW Q \in SUBSET (1 .. k + 1), Q # {}
               PROVE  \E i \in Q : \A m \in Q : m <= i
    OBVIOUS
  <2>1. CASE k + 1 \in Q
    BY <2>1
  <2>2. CASE k + 1 \notin Q
    <3>1. Q \in SUBSET (1 .. k)
      BY <2>2
    <3> QED
      BY <1>2, <3>1
  <2> QED
    BY <2>1, <2>2
<1> HIDE DEF S
<1>3. n \in S
  BY <1>1, <1>2, Induction
<1> QED
  BY <1>3 DEF S

LEMMA IsStored ==
  ASSUME NEW var, NEW value, IsStore(var, value)
  PROVE  [var |-> var, value |-> value] \in FairStores
<1>1. var \in {"group", "state", "locked"} /\ value \in 0 .. 3 \cup {FALSE}
  <2>1. CASE var = "locked" /\ value = FALSE
    BY <2>1, Zenon
  <2>2. CASE var = "group" /\ value \in 0 .. 1
    <3>1. value \in 0 .. 3
      BY <2>2
    <3> QED
      BY <2>2, <3>1, Zenon
  <2>3. CASE var = "state" /\ value \in 0 .. 3
    BY <2>3
  <2> QED
    BY <2>1, <2>2, <2>3, Zenon DEF IsStore
<1> QED
  BY <1>1 DEF FairStores

\* A load returns a value of the type of its variable.
LEMMA ValueTypes ==
  ASSUME FairTypes, Stored, NEW t \in Threads
  PROVE  Group(t) \in 0 .. 1 /\ \A u \in Threads : State(t, u) \in 0 .. 3
<1>1. ASSUME NEW var, Pending(t, var) # {}
      PROVE  buffer[t][Newest(t, var)] \in FairStores /\ Newest(t, var) \in Pending(t, var)
  <2>1. buffer[t] \in Seq(FairStores)
    BY DEF Stored
  <2>2. Len(buffer[t]) \in Nat /\ DOMAIN buffer[t] = 1 .. Len(buffer[t])
    BY <2>1, LenProperties
  <2>3. Pending(t, var) \in SUBSET (1 .. Len(buffer[t]))
    BY <2>2 DEF Pending
  <2>4. \E i \in Pending(t, var) : \A m \in Pending(t, var) : m <= i
    BY <1>1, <2>2, <2>3, LastPlace
  <2>5. Newest(t, var) \in Pending(t, var)
    BY <2>4 DEF Newest
  <2>6. buffer[t][Newest(t, var)] \in FairStores
    BY <2>1, <2>2, <2>3, <2>5, ElementOfSeq
  <2> QED
    BY <2>5, <2>6
<1>2. ASSUME NEW var, Pending(t, var) # {}
      PROVE  IsStore(var, buffer[t][Newest(t, var)].value)
  BY <1>1, <1>2 DEF FairStores, Pending
<1>3. Group(t) \in 0 .. 1
  <2>1. CASE Pending(t, "group") = {}
    BY <2>1 DEF Group, Value, FairTypes
  <2>2. CASE Pending(t, "group") # {}
    <3>1. IsStore("group", Group(t))
      BY <1>2, <2>2 DEF Group, Value
    <3> QED
      BY <3>1 DEF IsStore
  <2> QED
    BY <2>1, <2>2
<1>4. ASSUME NEW u \in Threads
      PROVE  State(t, u) \in 0 .. 3
  <2>1. CASE u # t \/ Pending(t, "state") = {}
    BY <2>1 DEF State, Value, FairTypes
  <2>2. CASE u = t /\ Pending(t, "state") # {}
    <3>1. IsStore("state", State(t, u))
      BY <1>2, <2>2 DEF State, Value
    <3> QED
      BY <3>1 DEF IsStore
  <2> QED
    BY <2>1, <2>2
<1> QED
  BY <1>3, <1>4

\* What a store to memory changes.
LEMMA WriteEffect ==
  ASSUME FairTypes, NEW t \in Threads, NEW var, NEW value, IsStore(var, value),
         Write(t, var, value)
  PROVE  /\ group' \in 0 .. 1 /\ state' \in [Threads -> 0 .. 3] /\ locked' \in BOOLEAN
         /\ passed' \in [Threads -> [Threads -> Int]]
         /\ \A u \in Threads : state'[u] = IF u = t /\ var = "state" THEN value ELSE state[u]
         /\ locked' = IF var = "locked" THEN FALSE ELSE locked
<1>1. group' \in 0 .. 1 /\ locked' = (IF var = "locked" THEN FALSE ELSE locked)
  BY DEF Write, IsStore, FairTypes
<1>2. /\ state' \in [Threads -> 0 .. 3]
      /\ \A u \in Threads : state'[u] = IF u = t /\ var = "state" THEN value ELSE state[u]
  BY DEF Write, IsStore, FairTypes
<1>3. passed' \in [Threads -> [Threads -> Int]]
  BY DEF Write, FairTypes
<1> QED
  BY <1>1, <1>2, <1>3 DEF FairTypes

\* What a store by t changes.
LEMMA StoreEffect ==
  ASSUME FairTypes, Stored, NEW t \in Threads, NEW var, NEW value, IsStore(var, value),
         Store(t, var, value)
  PROVE  /\ group' \in 0 .. 1 /\ state' \in [Threads -> 0 .. 3] /\ locked' \in BOOLEAN
         /\ passed' \in [Threads -> [Threads -> Int]]
         /\ Stored'
         /\ \A u \in Threads : u # t => state'[u] = state[u] /\ buffer'[u] = buffer[u]
         /\ \/ /\ Buffered /\ state' = state /\ locked' = locked
               /\ buffer'[t] = Append(buffer[t], [var |-> var, value |-> value])
            \/ /\ ~Buffered /\ buffer[t] = <<>> /\ buffer'[t] = <<>>
               /\ state'[t] = IF var = "state" THEN value ELSE state[t]
               /\ locked' = IF var = "locked" THEN FALSE ELSE locked
<1>1. CASE Buffered
  <2>1. [var |-> var, value |-> value] \in FairStores
    BY IsStored
  <2>2. buffer[t] \in Seq(FairStores)
    BY DEF Stored
  <2>3. Append(buffer[t], [var |-> var, value |-> value]) \in Seq(FairStores)
    BY <2>1, <2>2, AppendProperties
  <2>4. buffer' = [buffer EXCEPT ![t] = Append(buffer[t], [var |-> var, value |-> value])]
    BY <1>1 DEF Store
  <2>5. Stored'
    BY <1>1, <2>3, <2>4 DEF Stored
  <2>6. UNCHANGED <<group, state, locked, passed>>
    BY <1>1 DEF Store
  <2>7. /\ buffer'[t] = Append(buffer[t], [var |-> var, value |-> value])
        /\ \A u \in Threads : u # t => buffer'[u] = buffer[u]
    BY <2>4 DEF Stored
  <2> QED
    BY <1>1, <2>5, <2>6, <2>7 DEF FairTypes
<1>2. CASE ~Buffered
  <2>1. Write(t, var, value) /\ buffer' = buffer
    BY <1>2 DEF Store
  <2>2. Stored' /\ buffer[t] = <<>>
    BY <1>2, <2>1 DEF Stored
  <2> QED
    BY <1>2, <2>1, <2>2, WriteEffect
<1> QED
  BY <1>1, <1>2

\* Where the stores are once there is one more, or one less.
LEMMA PlacesAppend ==
  ASSUME NEW b \in Seq(FairStores), NEW s \in FairStores, NEW var
  PROVE  Places(Append(b, s), var) =
           Places(b, var) \cup (IF s.var = var THEN {Len(b) + 1} ELSE {})
<1>1. /\ Append(b, s) \in Seq(FairStores) /\ Len(Append(b, s)) = Len(b) + 1
      /\ \A i \in 1 .. Len(b) : Append(b, s)[i] = b[i]
      /\ Append(b, s)[Len(b) + 1] = s
  BY AppendProperties
<1>2. /\ Len(b) \in Nat /\ DOMAIN b = 1 .. Len(b)
      /\ DOMAIN Append(b, s) = 1 .. Len(b) + 1
  BY <1>1, LenProperties
<1>3. \A i : i \in 1 .. Len(b) + 1 <=> i \in 1 .. Len(b) \/ i = Len(b) + 1
  BY <1>2
<1> QED
  BY <1>1, <1>2, <1>3 DEF Places

LEMMA PlacesTail ==
  ASSUME NEW b \in Seq(FairStores), b # <<>>, NEW var
  PROVE  /\ Tail(b) \in Seq(FairStores) /\ Head(b) \in FairStores
         /\ Head(b) = b[1] /\ 1 \in DOMAIN b
         /\ Places(Tail(b), var) = {i \in 1 .. Len(b) - 1 : i + 1 \in Places(b, var)}
<1>1. /\ Tail(b) \in Seq(FairStores) /\ Len(Tail(b)) = Len(b) - 1
      /\ \A i \in 1 .. Len(Tail(b)) : Tail(b)[i] = b[i + 1]
      /\ Head(b) \in FairStores /\ Head(b) = b[1]
  BY HeadTailProperties
<1>2. /\ Len(b) \in Nat /\ DOMAIN b = 1 .. Len(b) /\ Len(b) # 0
      /\ DOMAIN Tail(b) = 1 .. Len(b) - 1
  BY <1>1, LenProperties, EmptySeq
<1>3. \A i \in 1 .. Len(b) - 1 : i + 1 \in 1 .. Len(b)
  BY <1>2
<1>4. 1 \in DOMAIN b
  BY <1>2
<1> QED
  BY <1>1, <1>2, <1>3, <1>4 DEF Places

\* The stores that wait once t has stored a value.
LEMMA StorePending ==
  ASSUME FairTypes, Stored, NEW t \in Threads, NEW var, NEW value, IsStore(var, value),
         Store(t, var, value), NEW u \in Threads, NEW other
  PROVE  Pending(u, other)' =
           IF Buffered /\ u = t /\ other = var
           THEN Pending(u, other) \cup {Len(buffer[t]) + 1} ELSE Pending(u, other)
<1>1. Pending(u, other) = Places(buffer[u], other) /\ Pending(u, other)' = Places(buffer'[u], other)
  BY DEF Pending, Places
<1>2. CASE Buffered /\ u = t
  <2>1. buffer[t] \in Seq(FairStores) /\ [var |-> var, value |-> value] \in FairStores
    BY IsStored DEF Stored
  <2>2. buffer'[t] = Append(buffer[t], [var |-> var, value |-> value])
    BY <1>2, StoreEffect
  <2>3. Places(buffer'[t], other) =
          Places(buffer[t], other) \cup (IF var = other THEN {Len(buffer[t]) + 1} ELSE {})
    BY <2>1, <2>2, PlacesAppend
  <2> QED
    BY <1>1, <1>2, <2>3
<1>3. CASE ~(Buffered /\ u = t)
  <2>1. buffer'[u] = buffer[u]
    BY <1>3, StoreEffect
  <2> QED
    BY <1>1, <1>3, <2>1
<1> QED
  BY <1>2, <1>3

-----------------------------------------------------------------------------
(* The invariant of the memory, statement by statement. *)

\* What concerns t of Settled, and that it does not concern others.
SettledAt(t) ==
  /\ pc[t] \in Waiting => Declared(t)
  /\ pc[t] = "cs" => buffer[t] = <<>>
  /\ pc[t] \in {"cs", "leave1"} => state[t] = tmp[t]
  /\ pc[t] = "leave1" => Pending(t, "state") = {} /\ Pending(t, "group") = {}
  /\ pc[t] \in Looping => j[t] < NrThreads

LEMMA OthersSettled ==
  ASSUME Settled, NEW t \in Threads, SettledAt(t)',
         \A u \in Threads : u # t => /\ pc'[u] = pc[u] /\ buffer'[u] = buffer[u]
                                     /\ state'[u] = state[u] /\ tmp'[u] = tmp[u]
                                     /\ j'[u] = j[u]
  PROVE  Settled'
<1>1. ASSUME NEW u \in Threads, u # t
      PROVE  SettledAt(u)'
  BY <1>1 DEF Settled, SettledAt, Declared, Pending
<1>2. \A u \in Threads : SettledAt(u)'
  BY <1>1
<1> QED
  BY <1>2 DEF Settled, SettledAt, Declared, Pending, Waiting, Looping

\* Owners stay when no release is on its way.
LEMMA OwnersStay ==
  ASSUME Owners, locked' = locked, NEW t \in Threads, NEW there,
         pc \in [Threads -> FairLabels \cup {"done"}], pc' = [pc EXCEPT ![t] = there],
         pc[t] # "cs", there # "cs",
         \A u \in Threads : Pending(u, "locked")' = Pending(u, "locked")
  PROVE  Owners'
<1>1. \A u \in Threads : pc'[u] = "cs" <=> pc[u] = "cs"
  OBVIOUS
<1>2. \A u \in Threads : Owner(u)' <=> Owner(u)
  BY <1>1 DEF Owner
<1> QED
  BY <1>2 DEF Owners

\* Statements of the driver.
LEMMA FairElsewhereMemory ==
  ASSUME FairMemoryInv, UNCHANGED fairLockVars, NEW t \in Threads, NEW there,
         pc \in [Threads -> FairLabels \cup {"done"}], pc' = [pc EXCEPT ![t] = there],
         pc[t] # "cs", there \notin Waiting \cup {"cs", "leave1"}
  PROVE  FairMemoryInv'
<1>1. /\ UNCHANGED <<group, state, j, tmp, locked, buffer, passed>>
      /\ pc'[t] = there /\ \A u \in Threads : u # t => pc'[u] = pc[u]
  BY DEF fairLockVars, fairVars
<1>2. FairTypes' /\ Stored'
  BY <1>1 DEF FairMemoryInv, FairTypes, Stored
<1>3. \A u \in Threads : Pending(u, "locked")' = Pending(u, "locked")
  BY <1>1 DEF Pending
<1>4. Owners'
  BY <1>1, <1>3, OwnersStay DEF FairMemoryInv
<1>5. SettledAt(t)'
  BY <1>1 DEF SettledAt, Looping, Waiting
<1>6. Settled'
  BY <1>1, <1>5, OthersSettled DEF FairMemoryInv
<1> QED
  BY <1>2, <1>4, <1>6 DEF FairMemoryInv

\* Statements of the waiting loop and of lock() that only read.
LEMMA WaitMemory ==
  ASSUME FairMemoryInv, UNCHANGED <<group, state, tmp, locked, buffer, passed>>,
         NEW t \in Threads, NEW there \in Waiting, NEW k \in 0 .. NrThreads,
         there \in Looping => k < NrThreads,
         pc \in [Threads -> FairLabels \cup {"done"}], pc' = [pc EXCEPT ![t] = there],
         pc[t] \in Waiting, j' = [j EXCEPT ![t] = k]
  PROVE  FairMemoryInv'
<1>1. /\ pc'[t] = there /\ \A u \in Threads : u # t => pc'[u] = pc[u]
      /\ j'[t] = k /\ \A u \in Threads : u # t => j'[u] = j[u]
  BY DEF FairMemoryInv, FairTypes
<1>2. FairTypes' /\ Stored'
  BY DEF FairMemoryInv, FairTypes, Stored
<1>3. \A u \in Threads : Pending(u, "locked")' = Pending(u, "locked")
  BY DEF Pending
<1>4. Owners'
  BY <1>1, <1>3, OwnersStay DEF FairMemoryInv, Waiting
<1>5. SettledAt(t)'
  <2>1. Declared(t)' = Declared(t)
    BY DEF Declared
  <2>2. there \notin {"cs", "leave1"}
    BY DEF Waiting
  <2> QED
    BY <1>1, <2>1, <2>2 DEF SettledAt, FairMemoryInv, Settled
<1>6. Settled'
  BY <1>1, <1>5, OthersSettled DEF FairMemoryInv
<1> QED
  BY <1>2, <1>4, <1>6 DEF FairMemoryInv

\* entry_section declares that t has come.
LEMMA BeginDoorwayMemory ==
  ASSUME FairMemoryInv, NEW t \in Threads, BeginDoorway(t),
         pc \in [Threads -> FairLabels \cup {"done"}]
  PROVE  FairMemoryInv'
<1>1. /\ pc[t] = "enter" /\ pc'[t] = "choose" /\ pc' = [pc EXCEPT ![t] = "choose"]
      /\ Store(t, "state", 2) /\ UNCHANGED <<j, tmp>>
      /\ \A u \in Threads : u # t => pc'[u] = pc[u]
  BY DEF BeginDoorway, Within, Goto
<1>2. IsStore("state", 2)
  <2>1. 2 \in 0 .. 3
    OBVIOUS
  <2> QED
    BY <2>1, Zenon DEF IsStore
<1>3. FairTypes' /\ Stored'
  BY <1>1, <1>2, StoreEffect DEF FairMemoryInv, FairTypes
<1>4. /\ locked' = locked
      /\ \A u \in Threads : u # t => state'[u] = state[u] /\ buffer'[u] = buffer[u]
  BY <1>1, <1>2, StoreEffect DEF FairMemoryInv
<1>5. \A u \in Threads : Pending(u, "locked")' = Pending(u, "locked")
  BY <1>1, <1>2, StorePending DEF FairMemoryInv
<1>6. Owners'
  BY <1>1, <1>4, <1>5, OwnersStay DEF FairMemoryInv
<1>7. SettledAt(t)'
  BY <1>1 DEF SettledAt, Looping, Waiting
<1>8. Settled'
  BY <1>1, <1>4, <1>7, OthersSettled DEF FairMemoryInv
<1> QED
  BY <1>3, <1>6, <1>8 DEF FairMemoryInv

\* It reads the group ...
LEMMA ChooseGroupMemory ==
  ASSUME FairMemoryInv, NEW t \in Threads, ChooseGroup(t),
         pc \in [Threads -> FairLabels \cup {"done"}]
  PROVE  FairMemoryInv'
<1>1. /\ pc[t] = "choose" /\ pc'[t] = "join" /\ pc' = [pc EXCEPT ![t] = "join"]
      /\ tmp' = [tmp EXCEPT ![t] = Group(t)]
      /\ UNCHANGED <<group, state, j, locked, buffer, passed>>
      /\ \A u \in Threads : u # t => pc'[u] = pc[u]
  BY DEF ChooseGroup, Within, Goto
<1>2. Group(t) \in 0 .. 1
  BY ValueTypes DEF FairMemoryInv
<1>3. FairTypes' /\ Stored'
  BY <1>1, <1>2 DEF FairMemoryInv, FairTypes, Stored
<1>4. \A u \in Threads : u # t => tmp'[u] = tmp[u]
  BY <1>1 DEF FairMemoryInv, FairTypes
<1>5. \A u \in Threads : Pending(u, "locked")' = Pending(u, "locked")
  BY <1>1 DEF Pending
<1>6. Owners'
  BY <1>1, <1>5, OwnersStay DEF FairMemoryInv
<1>7. SettledAt(t)'
  BY <1>1 DEF SettledAt, Looping, Waiting
<1>8. Settled'
  BY <1>1, <1>4, <1>7, OthersSettled DEF FairMemoryInv
<1> QED
  BY <1>3, <1>6, <1>8 DEF FairMemoryInv

\* ... and joins it.
LEMMA JoinGroupMemory ==
  ASSUME FairMemoryInv, NEW t \in Threads, JoinGroup(t),
         pc \in [Threads -> FairLabels \cup {"done"}]
  PROVE  FairMemoryInv'
<1>1. /\ pc[t] = "join" /\ pc'[t] = "enabled" /\ pc' = [pc EXCEPT ![t] = "enabled"]
      /\ Store(t, "state", tmp[t]) /\ j' = [j EXCEPT ![t] = 0] /\ tmp' = tmp
      /\ \A u \in Threads : u # t => pc'[u] = pc[u]
  BY DEF JoinGroup, Within, Goto
<1>2. IsStore("state", tmp[t])
  BY DEF IsStore, FairMemoryInv, FairTypes
<1>3. FairTypes' /\ Stored'
  <2>1. 0 \in 0 .. NrThreads
    BY NrThreadsAssumption
  <2>2. j' \in [Threads -> 0 .. NrThreads] /\ tmp' \in [Threads -> 0 .. 1]
    BY <1>1, <2>1 DEF FairMemoryInv, FairTypes
  <2>3. /\ group' \in 0 .. 1 /\ state' \in [Threads -> 0 .. 3] /\ locked' \in BOOLEAN
        /\ passed' \in [Threads -> [Threads -> Int]] /\ Stored'
    BY <1>1, <1>2, StoreEffect DEF FairMemoryInv
  <2> QED
    BY <2>2, <2>3 DEF FairTypes
<1>4. /\ locked' = locked /\ j'[t] = 0
      /\ \A u \in Threads : u # t =>
           state'[u] = state[u] /\ buffer'[u] = buffer[u] /\ j'[u] = j[u]
  BY <1>1, <1>2, StoreEffect DEF FairMemoryInv, FairTypes
<1>5. \A u \in Threads : Pending(u, "locked")' = Pending(u, "locked")
  BY <1>1, <1>2, StorePending DEF FairMemoryInv
<1>6. Owners'
  BY <1>1, <1>4, <1>5, OwnersStay DEF FairMemoryInv
<1>7. Declared(t)'
  <2>1. CASE Buffered
    <3> DEFINE s == [var |-> "state", value |-> tmp[t]]
    <3>1. buffer'[t] = Append(buffer[t], s)
      BY <1>1, <1>2, <2>1, StoreEffect DEF FairMemoryInv
    <3>2. buffer[t] \in Seq(FairStores) /\ s \in FairStores
      BY <1>2, IsStored DEF FairMemoryInv, Stored
    <3> HIDE DEF s
    <3>3. Len(buffer'[t]) = Len(buffer[t]) + 1 /\ buffer'[t][Len(buffer[t]) + 1] = s
      BY <3>1, <3>2, AppendProperties
    <3>4. Len(buffer[t]) \in Nat /\ buffer'[t] \in Seq(FairStores)
      BY <3>1, <3>2, LenProperties, AppendProperties
    <3>5. buffer'[t] # <<>>
      BY <3>1, <3>2, AppendProperties
    <3> QED
      BY <1>1, <3>3, <3>5 DEF Declared, s
  <2>2. CASE ~Buffered
    <3>1. buffer'[t] = <<>> /\ state'[t] = tmp[t]
      BY <1>1, <1>2, <2>2, StoreEffect DEF FairMemoryInv
    <3> QED
      BY <1>1, <3>1 DEF Declared
  <2> QED
    BY <2>1, <2>2
<1>8. SettledAt(t)'
  BY <1>1, <1>4, <1>7, NrThreadsAssumption DEF SettledAt
<1>9. Settled'
  BY <1>1, <1>4, <1>8, OthersSettled DEF FairMemoryInv
<1> QED
  BY <1>3, <1>6, <1>9 DEF FairMemoryInv

\* lock() takes the lock when it is free, and t has declared its group by then.
LEMMA SwapMemory ==
  ASSUME FairMemoryInv, NEW t \in Threads, Swap(t),
         pc \in [Threads -> FairLabels \cup {"done"}]
  PROVE  FairMemoryInv'
<1>1. /\ pc[t] = "swap" /\ pc'[t] = "cs" /\ buffer[t] = <<>> /\ ~locked /\ locked'
      /\ locked' = TRUE /\ UNCHANGED <<group, state, j, tmp, buffer>>
      /\ \A u \in Threads : u # t => pc'[u] = pc[u]
  BY DEF Swap, Within, Goto, Flushed, fairVars
<1>2. passed' \in [Threads -> [Threads -> Int]]
  BY DEF Swap, FairMemoryInv, FairTypes
<1>3. FairTypes' /\ Stored'
  BY <1>1, <1>2 DEF FairMemoryInv, FairTypes, Stored
<1>4. Owners'
  <2>1. \A u \in Threads : ~Owner(u)
    BY <1>1 DEF FairMemoryInv, Owners
  <2>2. \A u \in Threads : u # t => ~Owner(u)'
    BY <1>1, <2>1 DEF Owner, Pending
  <2>3. \A u \in Threads : Pending(u, "locked")' = {}
    BY <1>1, <2>1 DEF Owner, Pending
  <2>4. \A u, v \in Threads : Owner(u)' /\ Owner(v)' => u = v
    BY <2>2
  <2> QED
    BY <1>1, <2>3, <2>4 DEF Owners
<1>5. SettledAt(t)'
  <2>1. state[t] = tmp[t]
    BY <1>1 DEF FairMemoryInv, Settled, Declared, Waiting
  <2>2. "cs" \notin Waiting /\ "cs" \notin Looping
    BY DEF Waiting, Looping
  <2> QED
    BY <1>1, <2>1, <2>2 DEF SettledAt
<1>6. Settled'
  BY <1>1, <1>5, OthersSettled DEF FairMemoryInv
<1> QED
  BY <1>3, <1>4, <1>6 DEF FairMemoryInv

\* unlock() stores the release: t owns the lock until that is in memory.
LEMMA UnlockMemory ==
  ASSUME FairMemoryInv, NEW t \in Threads, Unlock(t),
         pc \in [Threads -> FairLabels \cup {"done"}]
  PROVE  FairMemoryInv'
<1> PICK value : value = FALSE
  OBVIOUS
<1>1. /\ pc[t] = "cs" /\ pc'[t] = "leave1"
      /\ Store(t, "locked", value) /\ UNCHANGED <<j, tmp>>
      /\ \A u \in Threads : u # t => pc'[u] = pc[u]
  BY DEF Unlock, Within, Goto
<1>2. IsStore("locked", value)
  BY Zenon DEF IsStore
<1>3. FairTypes' /\ Stored'
  BY <1>1, <1>2, StoreEffect DEF FairMemoryInv, FairTypes
<1>4. \A u \in Threads : u # t => state'[u] = state[u] /\ buffer'[u] = buffer[u]
  BY <1>1, <1>2, StoreEffect DEF FairMemoryInv
<1>5. buffer[t] = <<>> /\ Owner(t) /\ state[t] = tmp[t]
  BY <1>1 DEF FairMemoryInv, Settled, Owner
<1>6. \A u \in Threads : u # t => Pending(u, "locked") = {}
  BY <1>5 DEF FairMemoryInv, Owners, Owner
<1>7. /\ Pending(t, "locked") = {} /\ Pending(t, "state") = {} /\ Pending(t, "group") = {}
      /\ Len(buffer[t]) = 0
  <2>1. DOMAIN buffer[t] = {} /\ Len(buffer[t]) = 0
    BY <1>5
  <2> QED
    BY <2>1 DEF Pending
<1>8. state'[t] = state[t]
  BY <1>1, <1>2, StoreEffect DEF FairMemoryInv
<1>9. Owners'
  <2>1. ASSUME NEW u \in Threads
        PROVE  /\ Pending(u, "locked")' = IF Buffered /\ u = t THEN {1} ELSE {}
    BY <1>1, <1>2, <1>6, <1>7, StorePending DEF FairMemoryInv
  <2>2. \A u \in Threads : pc'[u] # "cs"
    BY <1>1, <1>5 DEF FairMemoryInv, Owners, Owner
  <2>3. \A u \in Threads : Owner(u)' => Buffered /\ u = t
    BY <2>1, <2>2 DEF Owner
  <2>4. Buffered => locked'
    <3>1. locked
      BY <1>5 DEF FairMemoryInv, Owners
    <3>2. Buffered => locked' = locked
      BY <1>1, <1>2, StoreEffect DEF FairMemoryInv
    <3> QED
      BY <3>1, <3>2
  <2> QED
    BY <2>1, <2>3, <2>4 DEF Owners
<1>10. SettledAt(t)'
  <2>1. Pending(t, "state")' = {} /\ Pending(t, "group")' = {}
    BY <1>1, <1>2, <1>7, StorePending DEF FairMemoryInv
  <2>2. "leave1" \notin Waiting /\ "leave1" \notin Looping
    BY DEF Waiting, Looping
  <2> QED
    BY <1>1, <1>5, <1>8, <2>1, <2>2 DEF SettledAt
<1>11. Settled'
  BY <1>1, <1>4, <1>10, OthersSettled DEF FairMemoryInv
<1> QED
  BY <1>3, <1>9, <1>11 DEF FairMemoryInv

\* exit_section and the end of the iteration.
LEMMA LeaveMemory ==
  ASSUME FairMemoryInv, NEW t \in Threads, NEW var \in {"group", "state"}, NEW value,
         IsStore(var, value), Store(t, var, value), UNCHANGED <<j, tmp>>, NEW there,
         pc \in [Threads -> FairLabels \cup {"done"}], pc' = [pc EXCEPT ![t] = there],
         pc[t] # "cs", there \notin Waiting \cup {"cs", "leave1"}
  PROVE  FairMemoryInv'
<1>1. pc'[t] = there /\ \A u \in Threads : u # t => pc'[u] = pc[u]
  OBVIOUS
<1>2. FairTypes' /\ Stored'
  BY StoreEffect DEF FairMemoryInv, FairTypes
<1>3. /\ locked' = locked
      /\ \A u \in Threads : u # t => state'[u] = state[u] /\ buffer'[u] = buffer[u]
  BY StoreEffect DEF FairMemoryInv
<1>4. \A u \in Threads : Pending(u, "locked")' = Pending(u, "locked")
  BY StorePending DEF FairMemoryInv
<1>5. Owners'
  BY <1>1, <1>3, <1>4, OwnersStay DEF FairMemoryInv
<1>6. SettledAt(t)'
  BY <1>1 DEF SettledAt, Looping, Waiting
<1>7. Settled'
  BY <1>1, <1>3, <1>6, OthersSettled DEF FairMemoryInv
<1> QED
  BY <1>2, <1>5, <1>7 DEF FairMemoryInv

\* A store reaches the memory.
LEMMA DrainMemory ==
  ASSUME FairMemoryInv, NEW t \in Threads, Drain(t),
         pc \in [Threads -> FairLabels \cup {"done"}]
  PROVE  FairMemoryInv'
<1> DEFINE b == buffer[t]
           s == Head(b)
<1>1. /\ b # <<>> /\ Write(t, s.var, s.value) /\ buffer' = [buffer EXCEPT ![t] = Tail(b)]
      /\ UNCHANGED <<pc, j, tmp>>
  BY DEF Drain, Flushed, driverVars
<1>2. b \in Seq(FairStores)
  BY DEF FairMemoryInv, Stored
<1>3. /\ Tail(b) \in Seq(FairStores) /\ s \in FairStores /\ s = b[1] /\ 1 \in DOMAIN b
  BY <1>1, <1>2, PlacesTail
<1>4. IsStore(s.var, s.value)
  BY <1>3 DEF FairStores
<1>5. buffer'[t] = Tail(b) /\ \A u \in Threads : u # t => buffer'[u] = buffer[u]
  BY <1>1 DEF FairMemoryInv, Stored
<1>6. /\ group' \in 0 .. 1 /\ state' \in [Threads -> 0 .. 3] /\ locked' \in BOOLEAN
      /\ passed' \in [Threads -> [Threads -> Int]]
      /\ \A u \in Threads : state'[u] = IF u = t /\ s.var = "state" THEN s.value ELSE state[u]
      /\ locked' = IF s.var = "locked" THEN FALSE ELSE locked
  BY <1>1, <1>4, WriteEffect DEF FairMemoryInv
<1>7. FairTypes' /\ Stored'
  <2>1. Buffered
    BY <1>1 DEF FairMemoryInv, Stored
  <2>2. Stored'
    BY <1>1, <1>3, <2>1 DEF FairMemoryInv, Stored
  <2> QED
    BY <1>1, <1>6, <2>2 DEF FairMemoryInv, FairTypes
<1>8. ASSUME NEW var
      PROVE  /\ Pending(t, var)' = {i \in 1 .. Len(b) - 1 : i + 1 \in Pending(t, var)}
             /\ \A u \in Threads : u # t => Pending(u, var)' = Pending(u, var)
  <2>1. Pending(t, var) = Places(b, var) /\ Pending(t, var)' = Places(buffer'[t], var)
    BY DEF Pending, Places
  <2>2. \A u \in Threads : u # t => Pending(u, var)' = Pending(u, var)
    BY <1>5 DEF Pending
  <2> HIDE DEF b
  <2>3. Pending(t, var)' = {i \in 1 .. Len(b) - 1 : i + 1 \in Pending(t, var)}
    BY <1>1, <1>2, <1>5, <2>1, PlacesTail
  <2> QED
    BY <2>2, <2>3
<1>9. s.var = "locked" => 1 \in Pending(t, "locked")
  BY <1>3 DEF Pending
<1>10. pc[t] # "cs"
  BY <1>1 DEF FairMemoryInv, Settled
<1>11. Owners'
  <2>1. \A i, m \in Pending(t, "locked") : i = m
    BY DEF FairMemoryInv, Owners
  <2>2. \A u \in Threads : u # t => Owner(u)' = Owner(u)
    BY <1>1, <1>8 DEF Owner
  <2>3. \A i, m \in Pending(t, "locked")' : i = m
    BY <1>8, <2>1
  <2>4. \A u \in Threads : \A i, m \in Pending(u, "locked")' : i = m
    BY <1>8, <2>3 DEF FairMemoryInv, Owners
  <2>5. Owner(t)' => Owner(t) /\ s.var # "locked"
    <3>1. SUFFICES ASSUME Pending(t, "locked")' # {}
                   PROVE  Pending(t, "locked") # {} /\ s.var # "locked"
      BY <1>1, <1>10 DEF Owner
    <3>2. PICK i \in 1 .. Len(b) - 1 : i + 1 \in Pending(t, "locked")
      BY <1>8, <3>1
    <3>3. i + 1 # 1
      BY <3>2
    <3> QED
      BY <1>9, <2>1, <3>2, <3>3
  <2>6. \A u, v \in Threads : Owner(u)' /\ Owner(v)' => u = v
    BY <2>2, <2>5 DEF FairMemoryInv, Owners
  <2>7. \A u \in Threads : Owner(u)' => locked'
    <3>1. ASSUME NEW u \in Threads, Owner(u)'
          PROVE  s.var # "locked" /\ Owner(u)
      <4>1. CASE u = t
        BY <2>5, <3>1, <4>1
      <4>2. CASE u # t
        <5>1. Owner(u)
          BY <2>2, <3>1, <4>2
        <5>2. ~Owner(t)
          BY <4>2, <5>1 DEF FairMemoryInv, Owners
        <5> QED
          BY <1>9, <5>1, <5>2 DEF Owner
      <4> QED
        BY <4>1, <4>2
    <3> QED
      BY <1>6, <3>1 DEF FairMemoryInv, Owners
  <2> QED
    BY <2>4, <2>6, <2>7 DEF Owners
<1>12. SettledAt(t)'
  <2>1. SettledAt(t)
    BY DEF FairMemoryInv, Settled, SettledAt
  <2>2. Declared(t) => Declared(t)'
    <3>1. SUFFICES ASSUME b[Len(b)] = [var |-> "state", value |-> tmp[t]]
                   PROVE  Declared(t)'
      BY <1>1 DEF Declared
    <3> DEFINE c == Tail(b)
    <3>2. /\ c \in Seq(FairStores) /\ Len(c) = Len(b) - 1 /\ Len(c) \in Nat /\ Len(b) \in Nat /\ Len(b) >= 1
          /\ \A i \in 1 .. Len(c) : c[i] = b[i + 1]
      <4>1. DOMAIN b = 1 .. Len(b) /\ Len(b) \in Nat
        BY <1>2, LenProperties
      <4>2. Len(b) >= 1
        BY <1>3, <4>1
      <4> QED
        BY <1>1, <1>2, <4>1, <4>2, HeadTailProperties, LenProperties
    <3> HIDE DEF c
    <3>3. CASE Len(b) = 1
      <4>1. c = <<>>
        BY <3>2, <3>3, EmptySeq
      <4>2. buffer'[t] = c /\ s.var = "state" /\ s.value = tmp[t]
        BY <1>3, <1>5, <3>1, <3>3 DEF c
      <4> QED
        BY <1>1, <1>6, <4>1, <4>2 DEF Declared
    <3>4. CASE Len(b) # 1
      <4> DEFINE m == Len(b)
                 n == Len(c)
      <4>1. n \in Nat /\ m \in Nat /\ m # 1 /\ m >= 1 /\ n = m - 1
        BY <3>2, <3>4
      <4> HIDE DEF m, n
      <4>2. n \in 1 .. n /\ n + 1 = m
        BY <4>1
      <4>3. c[Len(c)] = b[Len(b)]
        BY <3>2, <4>2 DEF m, n
      <4>4. c # <<>>
        BY <3>2, <4>2, EmptySeq DEF n
      <4>5. buffer'[t] = c
        BY <1>5 DEF c
      <4> QED
        BY <1>1, <3>1, <4>3, <4>4, <4>5 DEF Declared
    <3> QED
      BY <3>3, <3>4
  <2>3. CASE pc[t] \in Waiting
    <3>1. pc[t] \notin {"cs", "leave1"}
      BY <2>3 DEF Waiting
    <3> QED
      BY <1>1, <2>1, <2>2, <2>3, <3>1 DEF SettledAt
  <2>4. CASE pc[t] = "leave1"
    <3>1. s.var \notin {"state", "group"}
      BY <1>3, <2>1, <2>4 DEF SettledAt, Pending
    <3>2. state'[t] = state[t]
      BY <1>6, <3>1
    <3>3. Pending(t, "state")' = {} /\ Pending(t, "group")' = {}
      BY <1>8, <2>1, <2>4 DEF SettledAt
    <3>4. "leave1" \notin Waiting /\ "leave1" \notin Looping
      BY DEF Waiting, Looping
    <3> QED
      BY <1>1, <2>1, <2>4, <3>2, <3>3, <3>4 DEF SettledAt
  <2>5. CASE pc[t] \notin Waiting \cup {"leave1"}
    BY <1>1, <1>10, <2>5 DEF SettledAt, Looping, Waiting
  <2> QED
    BY <2>3, <2>4, <2>5
<1>13. Settled'
  BY <1>1, <1>5, <1>6, <1>12, OthersSettled DEF FairMemoryInv
<1> QED
  BY <1>7, <1>11, <1>13 DEF FairMemoryInv

-----------------------------------------------------------------------------
(* The order of the sequentially consistent build.  Those who have chosen  *)
(* their group are of the group that is current or of the other, older     *)
(* one, and someone of the current group gets through the waiting loop     *)
(* only when nobody of the older one is left.  So the group does not       *)
(* change again before.                                                    *)

Chosen == {"join"} \cup Waiting \cup {"cs", "leave1"}
Coming(t) == pc[t] \in {"join"} \cup Waiting
Leaving(t) == pc[t] \in {"cs", "leave1"}

Old(t) == pc[t] \in Chosen /\ tmp[t] # group

\* The waiting loop of t is past thread u.
Seen(t, u) ==
  \/ pc[t] \in {"fence", "test", "swap", "cs", "leave1"}
  \/ pc[t] \in Looping /\ u < j[t]

Doorways == \A t \in Threads : pc[t] \in {"choose", "join"} => state[t] = 2

NoneOlder ==
  \A t, u \in Threads : pc[t] \in Chosen /\ tmp[t] = group /\ Seen(t, u) => ~Old(u)

\* The doorway of the thread looked at, if that is an older one, has ended.
OldJoined ==
  \A t \in Threads :
    /\ pc[t] \in {"differ", "same1", "same2"} /\ tmp[t] = group
    /\ Old(j[t])
    => pc[j[t]] # "join"

\* How often u may have got the lock while t has waited: an older one not yet
\* and one that comes after t not before t is an older one itself.
Budget(t, u) ==
  IF Old(t) THEN (IF Coming(u) /\ Old(u) THEN 0 ELSE 1)
  ELSE IF Coming(u) /\ Old(u) THEN -1
  ELSE IF Leaving(u) /\ ~Old(u) THEN 1 ELSE 0

Bounded ==
  \A t, u \in Threads : pc[t] \in Waiting => passed[t][u] <= IF t = u THEN 0 ELSE Budget(t, u)

FairOrderInv == Doorways /\ NoneOlder /\ OldJoined /\ Bounded

\* Without store buffers everybody sees the memory.
LEMMA AllInMemory ==
  ASSUME ~Buffered, Stored, NEW t \in Threads
  PROVE  /\ \A var : Pending(t, var) = {}
         /\ Group(t) = group /\ \A u \in Threads : State(t, u) = state[u]
<1>1. DOMAIN buffer[t] = {}
  BY DEF Stored
<1>2. \A var : Pending(t, var) = {}
  BY <1>1 DEF Pending
<1> QED
  BY <1>2 DEF Group, State, Value

\* The waiting loop looks at threads.
LEMMA LoopsOverThreads ==
  ASSUME FairMemoryInv, NEW t \in Threads, pc[t] \in Looping
  PROVE  j[t] \in Threads
<1>1. j[t] \in 0 .. NrThreads /\ j[t] < NrThreads
  BY DEF FairMemoryInv, FairTypes, Settled
<1> QED
  BY <1>1, NrThreadsAssumption DEF Threads

\* Budgets stay when nobody gets on.
LEMMA BudgetsStay ==
  ASSUME UNCHANGED <<group, tmp>>,
         \A u \in Threads : /\ Coming(u)' <=> Coming(u)
                            /\ Leaving(u)' <=> Leaving(u)
  PROVE  \A u, v \in Threads : (Old(u)' <=> Old(u)) /\ Budget(u, v)' = Budget(u, v)
<1>1. \A u \in Threads : (Old(u)' <=> Old(u))
  BY DEF Old, Coming, Leaving, Chosen
<1> QED
  BY <1>1 DEF Budget

\* Who has not chosen a group concerns nobody.
LEMMA AsideOrder ==
  ASSUME FairOrderInv, UNCHANGED <<group, tmp, passed, j>>, NEW t \in Threads, NEW there,
         pc \in [Threads -> FairLabels \cup {"done"}], pc' = [pc EXCEPT ![t] = there],
         pc[t] \notin Chosen, there \notin Chosen,
         \A u \in Threads : u # t => state'[u] = state[u],
         there = "choose" => state'[t] = 2
  PROVE  FairOrderInv'
<1>1. pc'[t] = there /\ \A u \in Threads : u # t => pc'[u] = pc[u]
  OBVIOUS
<1>2. \A u, v \in Threads : (Old(u)' <=> Old(u)) /\ Budget(u, v)' = Budget(u, v)
  BY <1>1, BudgetsStay DEF Coming, Leaving, Chosen
<1>3. Doorways'
  BY <1>1 DEF FairOrderInv, Doorways, Chosen
<1>4. NoneOlder'
  BY <1>1, <1>2 DEF FairOrderInv, NoneOlder, Seen
<1>5. OldJoined'
  BY <1>1, <1>2 DEF FairOrderInv, OldJoined, Old, Chosen, Waiting
<1>6. Bounded'
  BY <1>1, <1>2 DEF FairOrderInv, Bounded, Chosen
<1> QED
  BY <1>3, <1>4, <1>5, <1>6 DEF FairOrderInv

\* The group read is the current one.
LEMMA ChooseGroupOrder ==
  ASSUME ~Buffered, FairMemoryInv, FairOrderInv, NEW t \in Threads, ChooseGroup(t),
         pc \in [Threads -> FairLabels \cup {"done"}]
  PROVE  FairOrderInv'
<1>1. /\ pc[t] = "choose" /\ pc'[t] = "join" /\ tmp' = [tmp EXCEPT ![t] = Group(t)]
      /\ UNCHANGED <<group, state, j, locked, buffer, passed>>
      /\ \A u \in Threads : u # t => pc'[u] = pc[u]
  BY DEF ChooseGroup, Within, Goto
<1>2. tmp'[t] = group /\ \A u \in Threads : u # t => tmp'[u] = tmp[u]
  BY <1>1, AllInMemory DEF FairMemoryInv, FairTypes
<1>3. ~Old(t)' /\ ~Old(t) /\ \A u \in Threads : u # t => (Old(u)' <=> Old(u))
  BY <1>1, <1>2 DEF Old, Chosen, Waiting
<1>4. \A u, v \in Threads : Budget(u, v)' = Budget(u, v)
  <2>1. \A u \in Threads : u # t => (Coming(u)' <=> Coming(u)) /\ (Leaving(u)' <=> Leaving(u))
    BY <1>1 DEF Coming, Leaving
  <2>2. ~Coming(t) /\ ~Leaving(t) /\ ~Leaving(t)'
    BY <1>1 DEF Coming, Leaving, Waiting
  <2> QED
    BY <1>3, <2>1, <2>2 DEF Budget
<1>5. Doorways'
  BY <1>1 DEF FairOrderInv, Doorways
<1>6. NoneOlder'
  <2>1. \A u \in Threads : ~Seen(t, u)'
    BY <1>1 DEF Seen, Looping
  <2>2. ASSUME NEW v \in Threads, NEW u \in Threads, (pc[v] \in Chosen)', tmp'[v] = group', Seen(v, u)'
        PROVE  ~Old(u)'
    <3>1. v # t
      BY <2>1, <2>2
    <3>2. pc[v] \in Chosen /\ tmp[v] = group /\ Seen(v, u)
      BY <1>1, <1>2, <2>2, <3>1 DEF Seen
    <3> QED
      BY <1>3, <3>2 DEF FairOrderInv, NoneOlder
  <2> QED
    BY <2>2 DEF NoneOlder
<1>7. OldJoined'
  <2>1. ASSUME NEW v \in Threads, (pc[v] \in {"differ", "same1", "same2"})', tmp'[v] = group',
               Old(j[v])', pc'[j'[v]] = "join"
        PROVE  FALSE
    <3>1. v # t
      BY <1>1, <2>1
    <3>2. pc[v] \in {"differ", "same1", "same2"} /\ tmp[v] = group /\ j'[v] = j[v]
      BY <1>1, <1>2, <2>1, <3>1
    <3>3. j[v] \in Threads
      BY <3>2, LoopsOverThreads DEF Looping
    <3>4. j[v] # t
      BY <1>3, <2>1, <3>2
    <3>5. pc[j[v]] = "join" /\ Old(j[v])
      BY <1>1, <1>3, <2>1, <3>2, <3>3, <3>4
    <3> QED
      BY <3>2, <3>5 DEF FairOrderInv, OldJoined
  <2> QED
    BY <2>1 DEF OldJoined
<1>8. Bounded'
  BY <1>1, <1>4 DEF FairOrderInv, Bounded, Waiting
<1> QED
  BY <1>5, <1>6, <1>7, <1>8 DEF FairOrderInv

\* All can see what t has chosen, and t counts from here.
LEMMA JoinGroupOrder ==
  ASSUME ~Buffered, FairMemoryInv, FairOrderInv, NEW t \in Threads, JoinGroup(t),
         pc \in [Threads -> FairLabels \cup {"done"}]
  PROVE  FairOrderInv'
<1>1. /\ pc[t] = "join" /\ pc'[t] = "enabled" /\ Write(t, "state", tmp[t])
      /\ j' = [j EXCEPT ![t] = 0] /\ tmp' = tmp
      /\ \A u \in Threads : u # t => pc'[u] = pc[u]
  BY DEF JoinGroup, Store, Within, Goto
<1>2. tmp[t] \in 0 .. 1 /\ j'[t] = 0 /\ \A u \in Threads : u # t => j'[u] = j[u]
  BY <1>1 DEF FairMemoryInv, FairTypes
<1>3. /\ group' = group
      /\ \A u \in Threads : u # t => state'[u] = state[u] /\ passed'[u] = passed[u]
      /\ \A u \in Threads : passed'[t][u] = IF pc[u] \in Entry THEN -1 ELSE 0
  BY <1>1, <1>2 DEF Write, FairMemoryInv, FairTypes
<1>4. \A u, v \in Threads : (Old(u)' <=> Old(u)) /\ Budget(u, v)' = Budget(u, v)
  <2>1. \A u \in Threads : (Coming(u)' <=> Coming(u)) /\ (Leaving(u)' <=> Leaving(u))
    BY <1>1 DEF Coming, Leaving, Waiting
  <2> QED
    BY <1>1, <1>3, <2>1, BudgetsStay
<1>5. Doorways'
  BY <1>1, <1>3 DEF FairOrderInv, Doorways
<1>6. NoneOlder'
  <2>1. \A u \in Threads : ~Seen(t, u)'
    BY <1>1, <1>2 DEF Seen, Looping, Threads
  <2>2. ASSUME NEW v \in Threads, NEW u \in Threads, (pc[v] \in Chosen)', tmp'[v] = group', Seen(v, u)'
        PROVE  ~Old(u)'
    <3>1. v # t
      BY <2>1, <2>2
    <3>2. pc[v] \in Chosen /\ tmp[v] = group /\ Seen(v, u)
      BY <1>1, <1>2, <1>3, <2>2, <3>1 DEF Seen
    <3> QED
      BY <1>4, <3>2 DEF FairOrderInv, NoneOlder
  <2> QED
    BY <2>2 DEF NoneOlder
<1>7. OldJoined'
  <2>1. ASSUME NEW v \in Threads, (pc[v] \in {"differ", "same1", "same2"})', tmp'[v] = group',
               Old(j[v])', pc'[j'[v]] = "join"
        PROVE  FALSE
    <3>1. v # t
      BY <1>1, <2>1
    <3>2. pc[v] \in {"differ", "same1", "same2"} /\ tmp[v] = group /\ j'[v] = j[v]
      BY <1>1, <1>2, <1>3, <2>1, <3>1
    <3>3. j[v] \in Threads
      BY <3>2, LoopsOverThreads DEF Looping
    <3>4. pc[j[v]] = "join" /\ Old(j[v])
      BY <1>1, <1>3, <2>1, <3>2, <3>3 DEF Old, Chosen
    <3> QED
      BY <3>2, <3>4 DEF FairOrderInv, OldJoined
  <2> QED
    BY <2>1 DEF OldJoined
<1>8. Bounded'
  <2>1. ASSUME NEW u \in Threads
        PROVE  passed'[t][u] <= IF t = u THEN 0 ELSE Budget(t, u)
    <3>1. ASSUME Coming(u) PROVE pc[u] \in Entry
      BY <3>1 DEF Coming, Entry
    <3> QED
      BY <1>3, <3>1 DEF Budget
  <2>2. ASSUME NEW v \in Threads, NEW u \in Threads, (pc[v] \in Waiting)'
        PROVE  passed'[v][u] <= IF v = u THEN 0 ELSE Budget(v, u)
    <3>1. CASE v = t
      BY <2>1, <3>1
    <3>2. CASE v # t
      BY <1>1, <1>3, <2>2, <3>2 DEF FairOrderInv, Bounded
    <3> QED
      BY <3>1, <3>2
  <2> QED
    BY <1>4, <2>2 DEF Bounded
<1> QED
  BY <1>5, <1>6, <1>7, <1>8 DEF FairOrderInv

\* Statements of the waiting loop: what the loop gets past is not older, and its
\* doorway has ended when the loop looks at its group.
LEMMA WaitOrder ==
  ASSUME FairMemoryInv, FairOrderInv, UNCHANGED <<group, state, tmp, locked, buffer, passed>>,
         NEW t \in Threads, NEW there \in Waiting, NEW k \in 0 .. NrThreads,
         pc \in [Threads -> FairLabels \cup {"done"}], pc' = [pc EXCEPT ![t] = there],
         pc[t] \in Waiting, j' = [j EXCEPT ![t] = k],
         tmp[t] = group => \A u \in Threads : Seen(t, u)' => Seen(t, u) \/ ~Old(u),
         /\ tmp[t] = group /\ there \in {"differ", "same1", "same2"}
         /\ k < NrThreads /\ Old(k)
         => pc[k] # "join",
         there \in Looping => k < NrThreads
  PROVE  FairOrderInv'
<1>1. /\ pc'[t] = there /\ \A u \in Threads : u # t => pc'[u] = pc[u]
      /\ j'[t] = k /\ \A u \in Threads : u # t => j'[u] = j[u]
  BY DEF FairMemoryInv, FairTypes
<1>2. \A u, v \in Threads : (Old(u)' <=> Old(u)) /\ Budget(u, v)' = Budget(u, v)
  <2>1. \A u \in Threads : (Coming(u)' <=> Coming(u)) /\ (Leaving(u)' <=> Leaving(u))
    BY <1>1 DEF Coming, Leaving, Waiting
  <2> QED
    BY <2>1, BudgetsStay
<1>3. Doorways'
  BY <1>1 DEF FairOrderInv, Doorways, Waiting
<1>4. NoneOlder'
  <2>1. ASSUME NEW v \in Threads, NEW u \in Threads, (pc[v] \in Chosen)', tmp'[v] = group', Seen(v, u)'
        PROVE  ~Old(u)
    <3>1. CASE v = t
      <4>1. pc[t] \in Chosen /\ tmp[t] = group
        BY <2>1, <3>1 DEF Chosen
      <4> QED
        BY <2>1, <3>1, <4>1 DEF FairOrderInv, NoneOlder
    <3>2. CASE v # t
      <4>1. pc[v] \in Chosen /\ tmp[v] = group /\ Seen(v, u)
        BY <1>1, <2>1, <3>2 DEF Seen
      <4> QED
        BY <4>1 DEF FairOrderInv, NoneOlder
    <3> QED
      BY <3>1, <3>2
  <2> QED
    BY <1>2, <2>1 DEF NoneOlder
<1>5. OldJoined'
  <2>1. ASSUME NEW v \in Threads, (pc[v] \in {"differ", "same1", "same2"})', tmp'[v] = group',
               Old(j[v])', pc'[j'[v]] = "join"
        PROVE  FALSE
    <3>1. j'[v] \in Threads
      <4>1. CASE v = t
        <5>1. k \in 0 .. NrThreads /\ k < NrThreads /\ j'[v] = k
          BY <1>1, <2>1, <4>1 DEF Looping
        <5> QED
          BY <5>1, NrThreadsAssumption DEF Threads
      <4>2. CASE v # t
        <5>1. j'[v] = j[v] /\ pc[v] \in Looping
          BY <1>1, <2>1, <4>2 DEF Looping
        <5> QED
          BY <5>1, LoopsOverThreads
      <4> QED
        BY <4>1, <4>2
    <3>2. j'[v] # t
      BY <1>1, <2>1 DEF Waiting
    <3>3. pc[j'[v]] = "join" /\ Old(j'[v])
      BY <1>1, <2>1, <3>1, <3>2 DEF Old
    <3>4. CASE v = t
      <4>1. /\ tmp[t] = group /\ there \in {"differ", "same1", "same2"}
            /\ Old(k) /\ pc[k] = "join"
        BY <1>1, <2>1, <3>3, <3>4
      <4> QED
        BY <4>1 DEF Looping
    <3>5. CASE v # t
      BY <1>1, <2>1, <3>3, <3>5 DEF FairOrderInv, OldJoined
    <3> QED
      BY <3>4, <3>5
  <2> QED
    BY <2>1 DEF OldJoined
<1>6. Bounded'
  BY <1>1, <1>2 DEF FairOrderInv, Bounded
<1> QED
  BY <1>3, <1>4, <1>5, <1>6 DEF FairOrderInv

\* The lock is taken, past those who wait.
LEMMA SwapOrder ==
  ASSUME ~Buffered, FairMemoryInv, FairOrderInv, NEW t \in Threads, Swap(t),
         pc \in [Threads -> FairLabels \cup {"done"}]
  PROVE  FairOrderInv'
<1>1. /\ pc[t] = "swap" /\ pc'[t] = "cs" /\ UNCHANGED <<group, state, j, tmp>>
      /\ \A u \in Threads : u # t => pc'[u] = pc[u]
  BY DEF Swap, Within, Goto, fairVars
<1>2. \A u, v \in Threads :
        passed'[u][v] = IF v = t /\ u # t /\ pc[u] \in Waiting
                        THEN passed[u][v] + 1 ELSE passed[u][v]
  BY AllInMemory DEF Swap, FairMemoryInv, FairTypes
<1>3. \A u \in Threads : Old(u)' <=> Old(u)
  BY <1>1 DEF Old, Chosen, Waiting
<1>4. /\ Coming(t) /\ ~Leaving(t) /\ Leaving(t)' /\ ~Coming(t)'
      /\ \A u \in Threads : u # t => (Coming(u)' <=> Coming(u)) /\ (Leaving(u)' <=> Leaving(u))
  BY <1>1 DEF Coming, Leaving, Waiting
<1>5. \A u, v \in Threads : v # t => Budget(u, v)' = Budget(u, v)
  BY <1>3, <1>4 DEF Budget
<1>6. ASSUME NEW u \in Threads
      PROVE  Budget(u, t)' = Budget(u, t) + 1
  <2>1. Old(u) /\ ~Old(t) => FALSE
    BY <1>1 DEF FairOrderInv, NoneOlder, Seen, Old, Chosen, Waiting
  <2> QED
    BY <1>3, <1>4, <2>1 DEF Budget
<1>7. Doorways' /\ OldJoined'
  <2>1. Doorways'
    BY <1>1 DEF FairOrderInv, Doorways
  <2>2. ASSUME NEW v \in Threads, (pc[v] \in {"differ", "same1", "same2"})', tmp'[v] = group',
               Old(j[v])', pc'[j'[v]] = "join"
        PROVE  FALSE
    <3>1. v # t /\ pc[v] \in {"differ", "same1", "same2"} /\ tmp[v] = group /\ j'[v] = j[v]
      BY <1>1, <2>2
    <3>2. j[v] \in Threads
      BY <3>1, LoopsOverThreads DEF Looping
    <3>3. pc[j[v]] = "join" /\ Old(j[v])
      BY <1>1, <1>3, <2>2, <3>1, <3>2
    <3> QED
      BY <3>1, <3>3 DEF FairOrderInv, OldJoined
  <2> QED
    BY <2>1, <2>2 DEF OldJoined
<1>8. NoneOlder'
  <2>1. ASSUME NEW v \in Threads, NEW u \in Threads, (pc[v] \in Chosen)', tmp'[v] = group', Seen(v, u)'
        PROVE  pc[v] \in Chosen /\ tmp[v] = group /\ Seen(v, u)
    <3>1. CASE v = t
      BY <1>1, <2>1, <3>1 DEF Chosen, Waiting, Seen
    <3>2. CASE v # t
      BY <1>1, <2>1, <3>2 DEF Seen
    <3> QED
      BY <3>1, <3>2
  <2> QED
    BY <1>3, <2>1 DEF FairOrderInv, NoneOlder
<1>9. Bounded'
  <2>1. ASSUME NEW u \in Threads, NEW v \in Threads, (pc[u] \in Waiting)'
        PROVE  passed'[u][v] <= IF u = v THEN 0 ELSE Budget(u, v)'
    <3>1. u # t /\ pc[u] \in Waiting
      BY <1>1, <2>1 DEF Waiting
    <3>2. passed[u][v] <= IF u = v THEN 0 ELSE Budget(u, v)
      BY <3>1 DEF FairOrderInv, Bounded
    <3>3. passed[u][v] \in Int /\ Budget(u, v) \in Int
      BY DEF FairMemoryInv, FairTypes, Budget
    <3>4. CASE v = t
      BY <1>2, <1>6, <3>1, <3>2, <3>3, <3>4
    <3>5. CASE v # t
      BY <1>2, <1>5, <3>2, <3>5
    <3> QED
      BY <3>4, <3>5
  <2> QED
    BY <2>1 DEF Bounded
<1> QED
  BY <1>7, <1>8, <1>9 DEF FairOrderInv

\* The lock is given back.
LEMMA UnlockOrder ==
  ASSUME ~Buffered, FairMemoryInv, FairOrderInv, NEW t \in Threads, Unlock(t),
         pc \in [Threads -> FairLabels \cup {"done"}]
  PROVE  FairOrderInv'
<1>1. /\ pc[t] = "cs" /\ pc'[t] = "leave1" /\ UNCHANGED <<group, state, j, tmp, passed>>
      /\ \A u \in Threads : u # t => pc'[u] = pc[u]
  BY DEF Unlock, Store, Write, Within, Goto
<1>2. \A u, v \in Threads : (Old(u)' <=> Old(u)) /\ Budget(u, v)' = Budget(u, v)
  <2>1. \A u \in Threads : (Coming(u)' <=> Coming(u)) /\ (Leaving(u)' <=> Leaving(u))
    BY <1>1 DEF Coming, Leaving, Waiting
  <2> QED
    BY <1>1, <2>1, BudgetsStay
<1>3. \A u, v \in Threads : Seen(u, v)' <=> Seen(u, v)
  BY <1>1 DEF Seen, Looping
<1>4. \A u \in Threads : /\ (pc[u] \in Chosen)' <=> pc[u] \in Chosen
                         /\ (pc[u] \in Waiting)' <=> pc[u] \in Waiting
  BY <1>1 DEF Chosen, Waiting
<1>5. Doorways' /\ NoneOlder' /\ Bounded'
  <2>1. Doorways'
    BY <1>1 DEF FairOrderInv, Doorways
  <2>2. NoneOlder'
    BY <1>1, <1>2, <1>3, <1>4 DEF FairOrderInv, NoneOlder
  <2>3. Bounded'
    BY <1>1, <1>2, <1>4 DEF FairOrderInv, Bounded
  <2> QED
    BY <2>1, <2>2, <2>3
<1>6. OldJoined'
  <2>1. ASSUME NEW v \in Threads, (pc[v] \in {"differ", "same1", "same2"})', tmp'[v] = group',
               Old(j[v])', pc'[j'[v]] = "join"
        PROVE  FALSE
    <3>1. pc[v] \in {"differ", "same1", "same2"} /\ tmp[v] = group /\ j'[v] = j[v]
      BY <1>1, <2>1
    <3>2. j[v] \in Threads
      BY <3>1, LoopsOverThreads DEF Looping
    <3>3. pc[j[v]] = "join" /\ Old(j[v])
      BY <1>1, <1>2, <2>1, <3>1, <3>2
    <3> QED
      BY <3>1, <3>3 DEF FairOrderInv, OldJoined
  <2> QED
    BY <2>1 DEF OldJoined
<1> QED
  BY <1>5, <1>6 DEF FairOrderInv

\* The group changes when one of the current group leaves, and then everybody
\* else is older.
LEMMA SwitchGroupOrder ==
  ASSUME ~Buffered, FairMemoryInv, FairOrderInv, NEW t \in Threads, SwitchGroup(t),
         pc \in [Threads -> FairLabels \cup {"done"}]
  PROVE  FairOrderInv'
<1>1. /\ pc[t] = "leave1" /\ pc'[t] = "leave2" /\ Write(t, "group", 1 - State(t, t))
      /\ pc' = [pc EXCEPT ![t] = "leave2"]
      /\ UNCHANGED <<j, tmp>> /\ \A u \in Threads : u # t => pc'[u] = pc[u]
  BY DEF SwitchGroup, Store, Within, Goto
<1>2. State(t, t) = tmp[t]
  BY <1>1, AllInMemory DEF FairMemoryInv, Settled
<1>3. group' = 1 - tmp[t] /\ UNCHANGED <<state, passed>>
  BY <1>1, <1>2 DEF Write
<1>4. group \in 0 .. 1 /\ \A u \in Threads : tmp[u] \in 0 .. 1
  BY DEF FairMemoryInv, FairTypes
<1>5. CASE Old(t)
  <2>1. group' = group
    BY <1>3, <1>4, <1>5 DEF Old
  <2>2. ASSUME NEW u \in Threads
        PROVE  Old(u)' <=> Old(u) /\ u # t
    BY <1>1, <2>1 DEF Old, Chosen, Waiting
  <2>3. \A u, v \in Threads : u # t => Budget(u, v)' = Budget(u, v)
    <3>1. ~Coming(t) /\ ~Coming(t)' /\ ~Leaving(t)'
      BY <1>1 DEF Coming, Leaving, Waiting
    <3>2. \A u \in Threads : u # t => (Coming(u)' <=> Coming(u)) /\ (Leaving(u)' <=> Leaving(u))
      BY <1>1 DEF Coming, Leaving
    <3> QED
      BY <1>5, <2>2, <3>1, <3>2 DEF Budget
  <2>4. Doorways' /\ Bounded'
    <3>1. Doorways'
      BY <1>1, <1>3 DEF FairOrderInv, Doorways
    <3>2. \A u \in Threads : (pc[u] \in Waiting)' => u # t /\ pc[u] \in Waiting
      BY <1>1 DEF Waiting
    <3> QED
      BY <1>3, <2>3, <3>1, <3>2 DEF FairOrderInv, Bounded
  <2>5. NoneOlder'
    <3>1. ASSUME NEW v \in Threads, NEW u \in Threads, (pc[v] \in Chosen)', tmp'[v] = group', Seen(v, u)'
          PROVE  pc[v] \in Chosen /\ tmp[v] = group /\ Seen(v, u)
      <4>1. v # t
        BY <1>1, <3>1 DEF Chosen, Waiting
      <4> QED
        BY <1>1, <2>1, <3>1, <4>1 DEF Seen
    <3> QED
      BY <2>2, <3>1 DEF FairOrderInv, NoneOlder
  <2>6. OldJoined'
    <3>1. ASSUME NEW v \in Threads, (pc[v] \in {"differ", "same1", "same2"})', tmp'[v] = group',
                 Old(j[v])', pc'[j'[v]] = "join"
          PROVE  FALSE
      <4>1. pc[v] \in {"differ", "same1", "same2"} /\ tmp[v] = group /\ j'[v] = j[v]
        BY <1>1, <2>1, <3>1
      <4>2. j[v] \in Threads
        BY <4>1, LoopsOverThreads DEF Looping
      <4>3. pc[j[v]] = "join" /\ Old(j[v])
        BY <1>1, <2>2, <3>1, <4>1, <4>2
      <4> QED
        BY <4>1, <4>3 DEF FairOrderInv, OldJoined
    <3> QED
      BY <3>1 DEF OldJoined
  <2> QED
    BY <2>4, <2>5, <2>6 DEF FairOrderInv
<1>6. CASE ~Old(t)
  <2>1. pc[t] \in Chosen /\ tmp[t] = group
    BY <1>1, <1>6 DEF Old, Chosen
  <2>2. \A u \in Threads : ~Old(u)
    BY <1>1, <2>1 DEF FairOrderInv, NoneOlder, Seen
  <2>3. ASSUME NEW u \in Threads, (pc[u] \in Chosen)'
        PROVE  u # t /\ tmp'[u] # group' /\ Old(u)'
    <3>1. u # t
      BY <1>1, <2>3 DEF Chosen, Waiting
    <3>2. tmp[u] = group
      BY <1>1, <2>2, <2>3, <3>1 DEF Old
    <3>3. tmp'[u] # group'
      BY <1>1, <1>3, <1>4, <2>1, <3>2
    <3> QED
      BY <2>3, <3>1, <3>3 DEF Old
  <2>4. Doorways' /\ NoneOlder' /\ OldJoined'
    <3>1. Doorways'
      BY <1>1, <1>3 DEF FairOrderInv, Doorways
    <3>2. \A v \in Threads : (pc[v] \in {"differ", "same1", "same2"})' => (pc[v] \in Chosen)'
      BY DEF Chosen, Waiting
    <3> QED
      BY <2>3, <3>1, <3>2 DEF NoneOlder, OldJoined
  <2>5. ASSUME NEW u \in Threads, NEW v \in Threads, (pc[u] \in Waiting)'
        PROVE  passed'[u][v] <= IF u = v THEN 0 ELSE Budget(u, v)'
    <3>1. u # t /\ pc[u] \in Waiting /\ (pc[u] \in Chosen)'
      BY <1>1, <2>5 DEF Waiting, Chosen
    <3>2. passed[u][v] <= IF u = v THEN 0 ELSE Budget(u, v)
      BY <3>1 DEF FairOrderInv, Bounded
    <3>3. Old(u)' /\ ~Old(u) /\ ~Old(v)
      BY <2>2, <2>3, <3>1
    <3>4. Coming(v)' => Coming(v) /\ ~Leaving(v)
      BY <1>1 DEF Coming, Leaving, Waiting
    <3>5. Budget(u, v) <= Budget(u, v)'
      BY <3>3, <3>4 DEF Budget
    <3>6. passed[u][v] \in Int /\ Budget(u, v) \in Int /\ Budget(u, v)' \in Int
      BY DEF FairMemoryInv, FairTypes, Budget
    <3> QED
      BY <1>3, <3>2, <3>5, <3>6
  <2>6. Bounded'
    BY <2>5 DEF Bounded
  <2> QED
    BY <2>4, <2>6 DEF FairOrderInv
<1> QED
  BY <1>5, <1>6

-----------------------------------------------------------------------------

FairLockInv == FairMemoryInv /\ (~Buffered => FairOrderInv)

\* A statement of the waiting loop or of lock() that stays with its thread.
LEMMA StayMoves ==
  ASSUME FairLockInv, NEW t \in Threads, NEW here \in Waiting, NEW there \in Waiting,
         Within(t, here, there), UNCHANGED fairLockVars,
         pc \in [Threads -> FairLabels \cup {"done"}],
         there \in Looping => here \in Looping,
         here \in Looping => there \in Looping \/ Buffered \/ tmp[t] # group,
         here = "doorway" /\ there = "differ" => Buffered \/ state[j[t]] # 2,
         there \in {"differ", "same1", "same2"} =>
           here \in {"differ", "same1", "same2"} \/ Buffered \/ (here = "doorway" /\ there = "differ")
  PROVE  FairLockInv'
<1>1. /\ pc[t] = here /\ pc' = [pc EXCEPT ![t] = there] /\ pc'[t] = there
      /\ UNCHANGED <<group, state, tmp, locked, buffer, passed, j>>
  BY DEF Within, Goto, fairLockVars, fairVars
<1>2. j[t] \in 0 .. NrThreads /\ j' = [j EXCEPT ![t] = j[t]]
  BY <1>1 DEF FairLockInv, FairMemoryInv, FairTypes
<1>3. there \in Looping => j[t] < NrThreads /\ j[t] \in Threads
  BY <1>1, LoopsOverThreads DEF FairLockInv, FairMemoryInv, Settled
<1>4. FairMemoryInv'
  BY <1>1, <1>2, <1>3, WaitMemory DEF FairLockInv
<1>5. ASSUME ~Buffered, tmp[t] = group
      PROVE  \A u \in Threads : Seen(t, u)' => Seen(t, u)
  <2>1. here \notin Looping => here \in {"fence", "test", "swap"}
    BY DEF Looping, Waiting
  <2>2. there \notin Looping => here \notin Looping
    BY <1>5
  <2> QED
    BY <1>1, <2>1, <2>2 DEF Seen, Looping
<1>6. ASSUME ~Buffered, tmp[t] = group, there \in {"differ", "same1", "same2"}, Old(j[t])
      PROVE  pc[j[t]] # "join"
  <2>1. FairOrderInv /\ j[t] \in Threads
    BY <1>3, <1>6 DEF FairLockInv, Looping
  <2>2. CASE here \in {"differ", "same1", "same2"}
    BY <1>1, <1>6, <2>1, <2>2 DEF FairOrderInv, OldJoined
  <2>3. CASE here = "doorway" /\ there = "differ"
    BY <1>6, <2>1, <2>3 DEF FairOrderInv, Doorways
  <2> QED
    BY <1>6, <2>2, <2>3
<1>7. ASSUME ~Buffered
      PROVE  FairOrderInv'
  BY <1>1, <1>2, <1>3, <1>5, <1>6, <1>7, WaitOrder DEF FairLockInv
<1> QED
  BY <1>4, <1>7 DEF FairLockInv

\* ... in particular one of the loop that awaits a thread of the other group.
LEMMA SameMoves ==
  ASSUME FairLockInv, NEW t \in Threads, NEW here \in Looping, NEW there \in {"same1", "same2"},
         Within(t, here, there), UNCHANGED fairLockVars,
         pc \in [Threads -> FairLabels \cup {"done"}],
         Buffered \/ here \in {"differ", "same1", "same2"}
  PROVE  FairLockInv' /\ here \in Waiting /\ there \in Waiting
<1>1. here \in Waiting /\ there \in Waiting /\ there \in Looping /\ there # "differ"
  BY DEF Looping, Waiting
<1>2. /\ there \in Looping => here \in Looping
      /\ here \in Looping => there \in Looping \/ Buffered \/ tmp[t] # group
      /\ here = "doorway" /\ there = "differ" => Buffered \/ state[j[t]] # 2
      /\ there \in {"differ", "same1", "same2"} =>
           here \in {"differ", "same1", "same2"} \/ Buffered \/ (here = "doorway" /\ there = "differ")
  BY <1>1
<1>3. FairLockInv'
  BY <1>1, <1>2, StayMoves
<1> QED
  BY <1>1, <1>3

\* The waiting loop goes on to the next thread.
LEMMA NextMoves ==
  ASSUME FairLockInv, NEW t \in Threads, NEW here \in Looping, NextThread(t, here),
         pc \in [Threads -> FairLabels \cup {"done"}],
         ~Buffered /\ tmp[t] = group => ~Old(j[t])
  PROVE  FairLockInv'
<1> DEFINE there == IF j[t] + 1 < NrThreads THEN "enabled" ELSE Enabled
           k == j[t] + 1
<1>1. /\ pc[t] = here /\ pc' = [pc EXCEPT ![t] = there] /\ pc'[t] = there
      /\ UNCHANGED <<group, state, tmp, locked, buffer, passed>>
      /\ j' = [j EXCEPT ![t] = k]
  BY DEF NextThread, Within, Goto
<1>2. j[t] \in Threads
  BY <1>1, LoopsOverThreads DEF FairLockInv
<1>3. k \in 0 .. NrThreads /\ (k >= NrThreads => \A u \in Threads : u < k)
  BY <1>2, NrThreadsAssumption DEF Threads
<1>4. /\ there \in {"enabled", "fence", "test"} /\ (there = "enabled" <=> k < NrThreads)
      /\ there \in Waiting /\ here \in Waiting /\ (there \in Looping => k < NrThreads)
  BY DEF Enabled, Waiting, Looping
<1>5. j'[t] = k
  BY <1>1 DEF FairLockInv, FairMemoryInv, FairTypes
<1>6. \A u \in Threads : u < k => u < j[t] \/ u = j[t]
  BY <1>2 DEF Threads
<1> HIDE DEF there, k
<1>7. FairMemoryInv'
  BY <1>1, <1>3, <1>4, WaitMemory DEF FairLockInv
<1>8. ASSUME ~Buffered
      PROVE  FairOrderInv'
  <2>1. ASSUME tmp[t] = group, NEW u \in Threads, Seen(t, u)'
        PROVE  Seen(t, u) \/ ~Old(u)
    <3>1. k \in Nat /\ NrThreads \in Nat
      BY <1>3, NrThreadsAssumption
    <3>2. u < k
      <4>1. CASE there = "enabled"
        BY <1>1, <1>5, <2>1, <4>1 DEF Seen
      <4>2. CASE there # "enabled"
        BY <1>3, <1>4, <3>1, <4>2
      <4> QED
        BY <4>1, <4>2
    <3>3. CASE u < j[t]
      BY <1>1, <3>3 DEF Seen
    <3>4. CASE u = j[t]
      BY <1>8, <2>1, <3>4
    <3> QED
      BY <1>6, <3>2, <3>3, <3>4
  <2> QED
    BY <1>1, <1>3, <1>4, <1>8, <2>1, WaitOrder DEF FairLockInv
<1> QED
  BY <1>7, <1>8 DEF FairLockInv

\* Who is seen in the same group, and not in the doorway, is not older.
LEMMA SameGroup ==
  ASSUME FairLockInv, ~Buffered, NEW t \in Threads,
         pc[t] \in {"differ", "same1"}, ~OtherGroup(t), tmp[t] = group
  PROVE  ~Old(j[t])
<1>1. SUFFICES ASSUME Old(j[t]) PROVE FALSE
  OBVIOUS
<1>2. j[t] \in Threads
  BY LoopsOverThreads DEF FairLockInv, Looping
<1>3. pc[j[t]] # "join"
  BY <1>1 DEF FairLockInv, FairOrderInv, OldJoined
<1>4. state[j[t]] = tmp[j[t]]
  <2>1. pc[j[t]] \in Waiting \/ pc[j[t]] \in {"cs", "leave1"}
    BY <1>1, <1>3 DEF Old, Chosen
  <2> QED
    BY <1>2, <2>1 DEF FairLockInv, FairMemoryInv, Settled, Declared, Stored
<1>5. State(t, j[t]) = state[j[t]]
  BY <1>2, AllInMemory DEF FairLockInv, FairMemoryInv
<1>6. tmp[j[t]] \in 0 .. 1 /\ group \in 0 .. 1 /\ tmp[j[t]] # group
  BY <1>1, <1>2 DEF Old, FairLockInv, FairMemoryInv, FairTypes
<1>7. tmp[j[t]] = 1 - tmp[t]
  BY <1>6
<1> QED
  BY <1>4, <1>5, <1>7 DEF OtherGroup

\* The statements of the waiting loop and of lock(), but for the exchange that
\* takes the lock.
LEMMA LoopInv ==
  ASSUME FairLockInv, NEW t \in Threads, pc \in [Threads -> FairLabels \cup {"done"}],
         \/ CheckEnabled(t) \/ AwaitDoorway(t) \/ Differ(t) \/ AwaitOther(t) \/ AwaitGroup(t)
         \/ Fence(t) \/ Test(t) \/ Lose(t)
  PROVE  /\ FairLockInv'
         /\ \E here, there \in Waiting : Within(t, here, there)
<1> DEFINE stays == \E here, there \in Waiting : Within(t, here, there)
<1>1. \A here \in Looping : NextThread(t, here) => stays
  BY DEF NextThread, Looping, Waiting, Enabled
<1>2. ~Buffered => Group(t) = group /\ (j[t] \in Threads => State(t, j[t]) = state[j[t]])
  BY AllInMemory DEF FairLockInv, FairMemoryInv
<1>3. CASE CheckEnabled(t)
  <2>1. CASE tmp[t] # Group(t)
    BY <1>2, <1>3, <2>1, StayMoves DEF CheckEnabled, Enabled, Waiting, Looping
  <2>2. CASE tmp[t] = Group(t)
    BY <1>3, <2>2, StayMoves DEF CheckEnabled, Waiting, Looping
  <2> QED
    BY <2>1, <2>2
<1>4. CASE AwaitDoorway(t)
  <2>1. CASE ~Buffered
    <3>1. pc[t] = "doorway" /\ Within(t, "doorway", "differ") /\ UNCHANGED fairLockVars
      BY <1>4, <2>1 DEF AwaitDoorway
    <3>2. j[t] \in Threads
      BY <3>1, LoopsOverThreads DEF Looping, FairLockInv
    <3>3. state[j[t]] # 2
      BY <1>2, <1>4, <2>1, <3>2 DEF AwaitDoorway
    <3> QED
      BY <3>1, <3>3, StayMoves DEF Waiting, Looping
  <2>2. CASE Buffered
    <3>1. \/ Within(t, "doorway", "same1") /\ UNCHANGED fairLockVars
          \/ NextThread(t, "doorway")
      BY <1>4, <2>2 DEF AwaitDoorway, Differs
    <3>2. CASE Within(t, "doorway", "same1") /\ UNCHANGED fairLockVars
      <4>1. Within(t, "doorway", "same1") /\ UNCHANGED fairLockVars
        BY <3>2
      <4>2. "doorway" \in Looping
        BY DEF Looping
      <4> QED
        BY <2>2, <4>1, <4>2, SameMoves
    <3>3. CASE NextThread(t, "doorway")
      BY <1>1, <2>2, <3>3, NextMoves DEF Looping
    <3> QED
      BY <3>1, <3>2, <3>3
  <2> QED
    BY <2>1, <2>2
<1>5. CASE Differ(t)
  <2>1. CASE OtherGroup(t)
    <3>1. Within(t, "differ", "same1") /\ UNCHANGED fairLockVars
      BY <1>5, <2>1 DEF Differ, Differs
    <3>2. "differ" \in Looping
      BY DEF Looping
    <3> QED
      BY <3>1, <3>2, SameMoves
  <2>2. CASE ~OtherGroup(t)
    BY <1>1, <1>5, <2>2, NextMoves, SameGroup DEF Differ, Differs, Looping
  <2> QED
    BY <2>1, <2>2
<1>6. CASE AwaitOther(t)
  <2>1. CASE OtherGroup(t)
    <3>1. Within(t, "same1", "same2") /\ UNCHANGED fairLockVars
      BY <1>6, <2>1 DEF AwaitOther
    <3>2. "same1" \in Looping
      BY DEF Looping
    <3> QED
      BY <3>1, <3>2, SameMoves
  <2>2. CASE ~OtherGroup(t)
    BY <1>1, <1>6, <2>2, NextMoves, SameGroup DEF AwaitOther, Looping
  <2> QED
    BY <2>1, <2>2
<1>7. CASE AwaitGroup(t)
  <2>1. CASE tmp[t] = Group(t)
    <3>1. Within(t, "same2", "same1") /\ UNCHANGED fairLockVars
      BY <1>7, <2>1 DEF AwaitGroup
    <3>2. "same2" \in Looping
      BY DEF Looping
    <3> QED
      BY <3>1, <3>2, SameMoves
  <2>2. CASE tmp[t] # Group(t)
    BY <1>1, <1>2, <1>7, <2>2, NextMoves DEF AwaitGroup, Looping
  <2> QED
    BY <2>1, <2>2
<1>8. CASE Fence(t)
  BY <1>8, StayMoves DEF Fence, Waiting, Looping
<1>9. CASE Test(t)
  BY <1>9, StayMoves DEF Test, Waiting, Looping
<1>10. CASE Lose(t)
  BY <1>10, StayMoves DEF Lose, Waiting, Looping
<1> QED
  BY <1>3, <1>4, <1>5, <1>6, <1>7, <1>8, <1>9, <1>10

\* The statements of the driver.
LEMMA FairElsewhere ==
  ASSUME FairLockInv, UNCHANGED fairLockVars, NEW t \in Threads, NEW there,
         pc \in [Threads -> FairLabels \cup {"done"}], pc' = [pc EXCEPT ![t] = there],
         pc[t] \notin Chosen, there \notin Chosen \cup {"choose"}
  PROVE  FairLockInv'
<1>1. FairMemoryInv'
  BY FairElsewhereMemory DEF FairLockInv, Chosen
<1>2. ASSUME ~Buffered PROVE FairOrderInv'
  BY <1>2, AsideOrder DEF FairLockInv, fairLockVars, fairVars
<1> QED
  BY <1>1, <1>2 DEF FairLockInv

-----------------------------------------------------------------------------

FairIInv == DriverInv(FairLabels, FairWork, FairWaits) /\ FairLockInv

\* init_fair_lock leaves everybody out.
LEMMA FairInitIInv == FairInit => FairIInv
<1> SUFFICES ASSUME FairInit
             PROVE  FairIInv
  OBVIOUS
<1>1. DriverInv(FairLabels, FairWork, FairWaits)
  BY DriverInitInv DEF FairInit, FairLabels, FairWork, FairWaits, Entry, Waiting
<1>2. \A t \in Threads : pc[t] = "arrive" /\ buffer[t] = <<>>
  BY DEF FairInit, DriverInit
<1>3. FairTypes
  <2>1. 0 \in 0 .. NrThreads
    BY NrThreadsAssumption
  <2>2. locked \in BOOLEAN
    BY Zenon DEF FairInit
  <2>3. /\ group \in 0 .. 1 /\ state \in [Threads -> 0 .. 3] /\ j \in [Threads -> 0 .. NrThreads]
        /\ tmp \in [Threads -> 0 .. 1] /\ passed \in [Threads -> [Threads -> Int]]
    BY <2>1 DEF FairInit
  <2> QED
    BY <2>2, <2>3 DEF FairTypes
<1>4. Stored
  <2>1. <<>> \in Seq(FairStores)
    BY EmptySeq
  <2> QED
    BY <1>2, <2>1 DEF FairInit, Stored
<1>5. Owners
  <2>1. \A t \in Threads : Pending(t, "locked") = {}
    BY <1>2 DEF Pending
  <2> QED
    BY <1>2, <2>1 DEF Owners, Owner
<1>6. Settled
  BY <1>2 DEF Settled, Waiting, Looping
<1>7. FairOrderInv
  BY <1>2 DEF FairOrderInv, Doorways, NoneOlder, OldJoined, Bounded, Chosen, Waiting
<1> QED
  BY <1>1, <1>3, <1>4, <1>5, <1>6, <1>7 DEF FairIInv, FairLockInv, FairMemoryInv

\* Every statement preserves the invariant.
LEMMA FairNextIInv == FairIInv /\ [FairNext]_allFairVars => FairIInv'
<1> SUFFICES ASSUME FairIInv, [FairNext]_allFairVars
             PROVE  FairIInv'
  OBVIOUS
<1> DEFINE D == DriverInv(FairLabels, FairWork, FairWaits)
<1>1. pc \in [Threads -> FairLabels \cup {"done"}] /\ D /\ FairLockInv
  BY DEF FairIInv, DriverInv, DriverTypeOK
<1>2. ASSUME NEW t \in Threads, ArriveBarrier(t)
      PROVE  FairIInv'
  <2>1. D'
    BY <1>1, <1>2, ArriveInv DEF ArriveBarrier, FairLabels, FairWork, FairWaits, Entry, Waiting
  <2>2. pc[t] = "arrive" /\ pc' = [pc EXCEPT ![t] = "wait"] /\ UNCHANGED fairLockVars
    BY <1>2 DEF ArriveBarrier, Arrive, Goto
  <2>3. FairLockInv'
    BY <1>1, <2>2, FairElsewhere DEF Chosen, Waiting
  <2> QED
    BY <2>1, <2>3 DEF FairIInv
<1>3. ASSUME NEW t \in Threads, FairStart(t)
      PROVE  FairIInv'
  <2>1. D'
    <3>1. Start(t, "wait", "enter", "end")
      BY <1>3 DEF FairStart
    <3>2. /\ "enter" \in FairLabels /\ "end" \in FairLabels
          /\ "enter" \notin FairWaits /\ "end" \notin FairWaits /\ "end" \notin FairWork
      BY DEF FairLabels, FairWork, FairWaits, Entry, Waiting
    <3> QED
      BY <1>1, <3>1, <3>2, StartInv
  <2>2. PICK there \in {"enter", "end"} : pc[t] = "wait" /\ pc' = [pc EXCEPT ![t] = there]
    BY <1>3 DEF FairStart, Start, Goto
  <2>3. FairLockInv'
    BY <1>1, <1>3, <2>2, FairElsewhere DEF FairStart, Chosen, Waiting
  <2> QED
    BY <2>1, <2>3 DEF FairIInv
<1>4. ASSUME NEW t \in Threads, BeginDoorway(t)
      PROVE  FairIInv'
  <2>1. D'
    BY <1>1, <1>4, WithinInv DEF BeginDoorway, FairLabels, FairWork, FairWaits, Entry
  <2>2. FairMemoryInv'
    BY <1>1, <1>4, BeginDoorwayMemory DEF FairLockInv
  <2>3. ASSUME ~Buffered PROVE FairOrderInv'
    <3>1. /\ pc[t] = "enter" /\ pc' = [pc EXCEPT ![t] = "choose"]
          /\ Write(t, "state", 2) /\ UNCHANGED <<j, tmp>>
      BY <1>4, <2>3 DEF BeginDoorway, Store, Within, Goto
    <3>2. 2 \notin 0 .. 1
      OBVIOUS
    <3>3. group' = group /\ passed' = passed /\ state' = [state EXCEPT ![t] = 2]
      BY <3>1, <3>2 DEF Write
    <3>4. state'[t] = 2 /\ \A u \in Threads : u # t => state'[u] = state[u]
      BY <1>1, <3>3 DEF FairLockInv, FairMemoryInv, FairTypes
    <3>5. pc[t] \notin Chosen /\ "choose" \notin Chosen
      BY <3>1 DEF Chosen, Waiting
    <3> QED
      BY <1>1, <2>3, <3>1, <3>3, <3>4, <3>5, AsideOrder DEF FairLockInv
  <2> QED
    BY <2>1, <2>2, <2>3 DEF FairIInv, FairLockInv
<1>5. ASSUME NEW t \in Threads, ChooseGroup(t)
      PROVE  FairIInv'
  <2>1. D'
    BY <1>1, <1>5, WithinInv DEF ChooseGroup, FairLabels, FairWork, FairWaits, Entry
  <2> QED
    BY <1>1, <1>5, <2>1, ChooseGroupMemory, ChooseGroupOrder DEF FairIInv, FairLockInv
<1>6. ASSUME NEW t \in Threads, JoinGroup(t)
      PROVE  FairIInv'
  <2>1. D'
    BY <1>1, <1>6, WithinInv DEF JoinGroup, FairLabels, FairWork, FairWaits, Entry, Waiting
  <2> QED
    BY <1>1, <1>6, <2>1, JoinGroupMemory, JoinGroupOrder DEF FairIInv, FairLockInv
<1>7. ASSUME NEW t \in Threads,
             \/ CheckEnabled(t) \/ AwaitDoorway(t) \/ Differ(t) \/ AwaitOther(t) \/ AwaitGroup(t)
             \/ Fence(t) \/ Test(t) \/ Lose(t)
      PROVE  FairIInv'
  <2>1. PICK here \in Waiting, there \in Waiting : Within(t, here, there)
    BY <1>1, <1>7, LoopInv
  <2>2. /\ there \in FairLabels /\ here \notin FairWaits /\ here # "done"
        /\ there \notin FairWaits /\ here \in FairWork
    BY DEF FairLabels, FairWork, FairWaits, Entry, Waiting
  <2>3. D'
    BY <1>1, <2>1, <2>2, WithinInv
  <2> QED
    BY <1>1, <1>7, <2>3, LoopInv DEF FairIInv
<1>8. ASSUME NEW t \in Threads, Swap(t)
      PROVE  FairIInv'
  <2>1. D'
    BY <1>1, <1>8, WithinInv DEF Swap, FairLabels, FairWork, FairWaits, Entry, Waiting
  <2> QED
    BY <1>1, <1>8, <2>1, SwapMemory, SwapOrder DEF FairIInv, FairLockInv
<1>9. ASSUME NEW t \in Threads, Unlock(t)
      PROVE  FairIInv'
  <2>1. D'
    BY <1>1, <1>9, WithinInv DEF Unlock, FairLabels, FairWork, FairWaits
  <2> QED
    BY <1>1, <1>9, <2>1, UnlockMemory, UnlockOrder DEF FairIInv, FairLockInv
<1>10. ASSUME NEW t \in Threads, SwitchGroup(t)
       PROVE  FairIInv'
  <2>1. D'
    BY <1>1, <1>10, WithinInv DEF SwitchGroup, FairLabels, FairWork, FairWaits
  <2>2. /\ pc[t] = "leave1" /\ pc' = [pc EXCEPT ![t] = "leave2"]
        /\ Store(t, "group", 1 - State(t, t)) /\ UNCHANGED <<j, tmp>>
    BY <1>10 DEF SwitchGroup, Within, Goto
  <2>3. State(t, t) = tmp[t]
    BY <1>1, <2>2 DEF FairLockInv, FairMemoryInv, Settled, State, Value
  <2>4. tmp[t] \in 0 .. 1
    BY <1>1 DEF FairLockInv, FairMemoryInv, FairTypes
  <2>5. 1 - State(t, t) \in 0 .. 1
    BY <2>3, <2>4
  <2>6. IsStore("group", 1 - State(t, t))
    BY <2>5, Zenon DEF IsStore
  <2>7. "leave2" \notin Waiting \cup {"cs", "leave1"} /\ "leave1" # "cs"
    BY DEF Waiting
  <2>8. FairMemoryInv'
    BY <1>1, <2>2, <2>6, <2>7, LeaveMemory DEF FairLockInv
  <2> QED
    BY <1>1, <1>10, <2>1, <2>8, SwitchGroupOrder DEF FairIInv, FairLockInv
<1>11. ASSUME NEW t \in Threads, Retire(t)
       PROVE  FairIInv'
  <2>1. PICK there \in {"enter", "end"} :
          pc[t] = "leave2" /\ pc' = [pc EXCEPT ![t] = there]
    BY <1>11 DEF Retire, EndIteration, Goto
  <2>2. D'
    <3>1. EndIteration(t, "leave2", "enter", "end")
      BY <1>11 DEF Retire
    <3>2. /\ "leave2" \in FairWork /\ "enter" \in FairLabels /\ "end" \in FairLabels
          /\ "leave2" \notin FairWaits /\ "enter" \notin FairWaits /\ "end" \notin FairWaits
          /\ "end" \notin FairWork
      BY DEF FairLabels, FairWork, FairWaits, Entry, Waiting
    <3> QED
      BY <1>1, <3>1, <3>2, EndIterationInv
  <2>3. there \notin Waiting \cup {"cs", "leave1"} /\ pc[t] # "cs"
    BY <2>1 DEF Waiting
  <2>4. IsStore("state", 3)
    <3>1. 3 \in 0 .. 3
      OBVIOUS
    <3> QED
      BY <3>1, Zenon DEF IsStore
  <2>5. Store(t, "state", 3) /\ UNCHANGED <<j, tmp>>
    BY <1>11 DEF Retire
  <2>6. FairMemoryInv'
    BY <1>1, <2>1, <2>3, <2>4, <2>5, LeaveMemory DEF FairLockInv
  <2>7. ASSUME ~Buffered PROVE FairOrderInv'
    <3>1. Write(t, "state", 3)
      BY <2>5, <2>7 DEF Store
    <3>2. 3 \notin 0 .. 1
      OBVIOUS
    <3>3. group' = group /\ passed' = passed /\ state' = [state EXCEPT ![t] = 3]
      BY <3>1, <3>2 DEF Write
    <3>4. \A u \in Threads : u # t => state'[u] = state[u]
      BY <1>1, <3>3 DEF FairLockInv, FairMemoryInv, FairTypes
    <3>5. pc[t] \notin Chosen /\ there \notin Chosen /\ there # "choose"
      BY <2>1 DEF Chosen, Waiting
    <3> QED
      BY <1>1, <2>1, <2>5, <2>7, <3>3, <3>4, <3>5, AsideOrder DEF FairLockInv
  <2> QED
    BY <2>2, <2>6, <2>7 DEF FairIInv, FairLockInv
<1>12. ASSUME NEW t \in Threads, FairEndExec(t)
       PROVE  FairIInv'
  <2>1. D'
    <3>1. samples' \in SUBSET Nat
      BY <1>1, <1>12, RecordNat DEF FairEndExec, DriverInv
    <3> QED
      BY <1>1, <1>12, <3>1, NextExecInv
         DEF FairEndExec, FairLabels, FairWork, FairWaits, Entry, Waiting
  <2>2. PICK there \in {"arrive", "done"} : pc[t] = "end" /\ pc' = [pc EXCEPT ![t] = there]
    BY <1>12 DEF FairEndExec, NextExec, Goto
  <2>3. FairLockInv'
    BY <1>1, <1>12, <2>2, FairElsewhere DEF FairEndExec, Chosen, Waiting
  <2> QED
    BY <2>1, <2>3 DEF FairIInv
<1>13. ASSUME NEW t \in Threads, Drain(t)
       PROVE  FairIInv'
  <2>1. D'
    BY <1>1, <1>13 DEF Drain, driverVars, DriverInv, DriverTypeOK, Counted, Separated,
                       Returned
  <2>2. Buffered
    BY <1>1, <1>13 DEF Drain, Flushed, FairLockInv, FairMemoryInv, Stored
  <2>3. FairMemoryInv'
    BY <1>1, <1>13, DrainMemory DEF FairLockInv
  <2> QED
    BY <2>1, <2>2, <2>3 DEF FairIInv, FairLockInv
<1>14. CASE UNCHANGED allFairVars
  <2>1. /\ UNCHANGED <<pc, ctr, run, exec, iter, samples, worked>>
        /\ UNCHANGED <<group, state, j, tmp, locked, buffer, passed>>
    BY <1>14 DEF allFairVars, driverVars, fairLockVars, fairVars
  <2>2. D'
    BY <1>1, <2>1 DEF DriverInv, DriverTypeOK, Counted, Separated, Returned
  <2>3. FairMemoryInv'
    <3>1. FairTypes' /\ Stored'
      BY <1>1, <2>1 DEF FairLockInv, FairMemoryInv, FairTypes, Stored
    <3>2. Owners'
      BY <1>1, <2>1 DEF FairLockInv, FairMemoryInv, Owners, Owner, Pending
    <3>3. Settled'
      BY <1>1, <2>1 DEF FairLockInv, FairMemoryInv, Settled, Declared, Pending
    <3> QED
      BY <3>1, <3>2, <3>3 DEF FairMemoryInv
  <2>4. FairOrderInv' <=> FairOrderInv
    BY <2>1 DEF FairOrderInv, Doorways, NoneOlder, OldJoined, Bounded, Budget, Old, Seen,
                Coming, Leaving
  <2> QED
    BY <1>1, <2>2, <2>3, <2>4 DEF FairIInv, FairLockInv
<1> QED
  BY <1>2, <1>3, <1>4, <1>5, <1>6, <1>7, <1>8, <1>9, <1>10, <1>11, <1>12, <1>13, <1>14
     DEF FairNext, FairStep

\* The inductive invariant holds of every behaviour, in both builds.
THEOREM FairInvariance == FairLockSpec => []FairIInv
  BY FairInitIInv, FairNextIInv, PTL DEF FairLockSpec

\* The shared variables, the locals and the driver keep their types; the waiting
\* loop never reads past state[].
THEOREM FairTypeCorrect == FairLockSpec => []FairTypeOK
<1>1. FairIInv => FairTypeOK
  BY DEF FairIInv, FairLockInv, FairMemoryInv, FairTypes, DriverInv, FairTypeOK
<1> QED
  BY <1>1, FairInvariance, PTL

\* The lock inside excludes, in both builds: a release that is still in a store
\* buffer keeps everybody out, and only the owner has one.
THEOREM FairLockExcludes == FairLockSpec => []MutualExclusion
<1>1. FairIInv => MutualExclusion
  <2>1. SUFFICES ASSUME FairIInv, NEW t \in Threads, NEW u \in Threads,
                        pc[t] = "cs", pc[u] = "cs"
                 PROVE  t = u
    BY DEF MutualExclusion, Inside, FairIInv, DriverInv, DriverTypeOK, FairLabels, Entry, Waiting
  <2> QED
    BY <2>1 DEF FairIInv, FairLockInv, FairMemoryInv, Owners, Owner
<1> QED
  BY <1>1, FairInvariance, PTL

\* The fairness requirement of the sequentially consistent build: nobody gets the
\* lock twice past a thread that waits and has declared itself, for any number of
\* threads.  The acquire-release build does not keep it (run fair_lock_store_buffers).
THEOREM FairLockIsFair == ~Buffered /\ FairLockSpec => []NoSecondAccess
<1> SUFFICES ASSUME ~Buffered
             PROVE  FairLockSpec => []NoSecondAccess
  OBVIOUS
<1>1. FairIInv => NoSecondAccess
  <2> SUFFICES ASSUME FairIInv, NEW t \in Threads, NEW u \in Threads, pc[t] \in Waiting
               PROVE  passed[t][u] <= 1
    BY DEF NoSecondAccess
  <2>1. passed[t][u] \in Int /\ passed[t][u] <= IF t = u THEN 0 ELSE Budget(t, u)
    BY DEF FairIInv, FairLockInv, FairMemoryInv, FairTypes, FairOrderInv, Bounded
  <2>2. Budget(t, u) \in {-1, 0, 1}
    BY DEF Budget
  <2> QED
    BY <2>1, <2>2
<1> QED
  BY <1>1, FairInvariance, PTL

(* The account of the driver. *)

FairBefore == {"arrive", "wait"}

FairAccount == Account(FairBefore, FairWork, {})

LEMMA FairWorkIs ==
  FairWork = {"enter", "choose", "join", "enabled", "doorway", "differ", "same1", "same2",
              "fence", "test", "swap", "cs", "leave1", "leave2"}
  BY DEF FairWork, Entry, Waiting

\* It begins empty.
LEMMA FairAccountInit == FairInit => FairAccount
<1>1. Kinds(FairBefore, FairWork, {})
  BY FairWorkIs DEF Kinds, FairBefore
<1> QED
  BY <1>1, AccountInit, FairWorkIs DEF FairInit, FairAccount, FairBefore

\* Every statement keeps it.
LEMMA FairAccountNext == FairIInv /\ FairAccount /\ [FairNext]_allFairVars => FairAccount'
<1> SUFFICES ASSUME FairIInv, FairAccount, [FairNext]_allFairVars
             PROVE  FairAccount'
  OBVIOUS
<1>1. Kinds(FairBefore, FairWork, {}) /\ DriverTypeOK(FairLabels) /\ Counted(FairWork)
  BY FairWorkIs DEF Kinds, FairBefore, FairIInv, DriverInv
<1>2. ASSUME NEW t \in Threads, FairStep(t)
      PROVE  DriverStep(t, FairBefore, FairWork, {})
  <2>1. CASE ArriveBarrier(t)
    BY <2>1, QuietStep, FairWorkIs DEF ArriveBarrier, FairBefore
  <2>2. CASE FairStart(t)
    BY <1>1, <2>2, StartStep, FairWorkIs DEF FairStart, FairBefore
  <2>3. CASE \/ BeginDoorway(t) \/ ChooseGroup(t) \/ JoinGroup(t)
             \/ Swap(t) \/ Unlock(t) \/ SwitchGroup(t)
    <3>1. \/ Within(t, "enter", "choose") \/ Within(t, "choose", "join")
          \/ Within(t, "join", "enabled") \/ Within(t, "swap", "cs")
          \/ Within(t, "cs", "leave1") \/ Within(t, "leave1", "leave2")
      BY <2>3 DEF BeginDoorway, ChooseGroup, JoinGroup, Swap, Unlock, SwitchGroup
    <3> QED
      BY <3>1, QuietStep, FairWorkIs DEF FairBefore
  <2>4. CASE \/ CheckEnabled(t) \/ AwaitDoorway(t) \/ Differ(t) \/ AwaitOther(t)
             \/ AwaitGroup(t) \/ Fence(t) \/ Test(t) \/ Lose(t)
    <3>1. PICK here \in Waiting, there \in Waiting : Within(t, here, there)
      BY <1>1, <2>4, LoopInv DEF FairIInv, DriverInv, DriverTypeOK
    <3>2. /\ here \in FairWork /\ there \in FairWork /\ here # "done" /\ there # "done"
          /\ here \notin FairBefore /\ there \notin FairBefore
      BY FairWorkIs DEF Waiting, FairBefore
    <3> QED
      BY <3>1, <3>2, QuietStep
  <2>5. CASE Retire(t)
    BY <1>1, <2>5, EndIterationStep, FairWorkIs DEF Retire, FairBefore
  <2>6. CASE FairEndExec(t)
    BY <1>1, <2>6, NextExecStep, FairWorkIs DEF FairEndExec, FairBefore
  <2> QED
    BY <1>2, <2>1, <2>2, <2>3, <2>4, <2>5, <2>6 DEF FairStep
<1>3. CASE FairNext
  <2>1. PICK t \in Threads : FairStep(t) \/ Drain(t)
    BY <1>3 DEF FairNext
  <2>2. CASE FairStep(t)
    BY <1>1, <1>2, <2>2, DriverStepAccount DEF FairAccount
  <2>3. CASE Drain(t)
    BY <2>3, AccountStutters DEF FairAccount, Drain
  <2> QED
    BY <2>1, <2>2, <2>3
<1>4. CASE UNCHANGED allFairVars
  BY <1>4, AccountStutters DEF FairAccount, allFairVars
<1> QED
  BY <1>3, <1>4

\* All --iterations are done under the fair synchronization, in both builds, and
\* every participant's sample is there.
THEOREM FairWorkSampled == FairLockSpec => [](AllWorkDone /\ NoSampleLost)
<1>1. FairIInv /\ FairAccount => AllWorkDone /\ NoSampleLost
  BY AccountComplete DEF FairIInv, DriverInv, FairAccount
<1>2. FairLockSpec => []FairAccount
  BY FairAccountInit, FairAccountNext, FairInvariance, PTL DEF FairLockSpec
<1> QED
  BY <1>1, <1>2, FairInvariance, PTL
=============================================================================
