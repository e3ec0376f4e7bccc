---------------------------- MODULE RelaxedProofs ----------------------------
(***************************************************************************)
(* The acquire-release builds of the locks keep their critical sections    *)
(* apart, for any number of threads and iterations (Peterson's lock: for   *)
(* two threads), although a load may return a value that is out of date.   *)
(* Those of TASLock, TATASLock, CLHQueueLock and ArrayLock also order      *)
(* them: a thread that comes in knows of all sections before its own.      *)
(* The lock-free Ada queue hands over what was put in, for any number of   *)
(* producers and consumers.                                                *)
(***************************************************************************)
EXTENDS RelaxedSpinLock, RelaxedQueueLocks, RelaxedTurnLocks, TLAPS, FiniteSetTheorems,
        WellFoundedInduction

(* The test-and-set locks *)

Locs == {locked, Payload}
Views == [Locs -> Nat]
Messages == [value : BOOLEAN \cup {0}, view : Views]

\* What the last message of the lock carries.
LockView == written[locked][Newest(locked)].view

MemoryOK ==
  /\ written \in [Locs -> Seq(Messages)]
  /\ \A l \in Locs : Newest(l) >= 1
  /\ Last(locked) \in BOOLEAN
  /\ seen \in [Threads -> Views]
  /\ \A t \in Threads : seen[t][Payload] <= Newest(Payload)
  /\ LockView[Payload] <= Newest(Payload)

PcOK == pc \in [Threads -> Labels \cup {"cs", "unlock", "done"}]

Exclusive == \A t, u \in Threads : Inside(t) /\ Inside(u) => t = u

\* While a thread is inside the newest value of the lock is TRUE, and it knows of
\* all sections before; once the newest message of the lock is FALSE it carries
\* that knowledge, unless there was no section and every thread has it.
Handed ==
  /\ \A t \in Threads : Inside(t) => Last(locked) = TRUE /\ seen[t][Payload] = Newest(Payload)
  /\ Last(locked) = FALSE =>
       \A t \in Threads :
         seen[t][Payload] = Newest(Payload) \/ LockView[Payload] = Newest(Payload)

IInv == MemoryOK /\ PcOK /\ Exclusive /\ Handed

\* The lock and the data are two locations.
LEMMA Apart == locked # Payload
BY DEF locked, Payload

\* Appending to a location leaves the others alone.
LEMMA AppendedAtEnd ==
  ASSUME NEW S, NEW s \in Seq(S), NEW e \in S
  PROVE  /\ Append(s, e) \in Seq(S)
         /\ Len(Append(s, e)) = Len(s) + 1
         /\ Append(s, e)[Len(s) + 1] = e
OBVIOUS

\* Joining two views.
LEMMA Joined ==
  ASSUME MemoryOK, NEW v \in Views, NEW w \in Views
  PROVE  /\ Join(v, w) \in Views
         /\ Join(v, w)[Payload] = IF v[Payload] >= w[Payload] THEN v[Payload] ELSE w[Payload]
BY DEF MemoryOK, Join, Locations, Views, Locs

\* A view of nothing.
LEMMA NothingKnown ==
  ASSUME MemoryOK
  PROVE  Nothing \in Views /\ Nothing[Payload] = 0
BY DEF MemoryOK, Nothing, Locations, Views, Locs

\* The last message of the lock.
LEMMA LockViewTyped ==
  ASSUME MemoryOK
  PROVE  LockView \in Views
<1>1. written[locked] \in Seq(Messages) /\ Len(written[locked]) >= 1
  BY DEF MemoryOK, Locs, Newest
<1>2. written[locked][Len(written[locked])] \in Messages
  BY <1>1
<1> QED
  BY <1>2 DEF Messages, LockView, Newest

-----------------------------------------------------------------------------

LEMMA InitHolds == Init => IInv
<1> SUFFICES ASSUME Init PROVE IInv
  OBVIOUS
<1> USE Apart DEF Init, BenchInit, MemoryInit, Newest, Locs
<1>1. DOMAIN [l \in {locked} |-> FALSE] \cup {Payload} = Locs
  OBVIOUS
<1>2. /\ written = [l \in Locs |-> <<[value |-> IF l = Payload THEN 0 ELSE FALSE,
                                     view |-> [loc \in Locs |-> 0]]>>]
      /\ seen = [t \in Threads |-> [l \in Locs |-> 1]]
  BY <1>1
<1>3. PcOK
  BY DEF PcOK, Labels, Lock
<1>4. \A t \in Threads : ~Inside(t)
  BY DEF Inside, Lock
<1>5. [loc \in Locs |-> 0] \in Views
  BY DEF Views
<1>6. \A l \in Locs : [value |-> IF l = Payload THEN 0 ELSE FALSE,
                       view |-> [loc \in Locs |-> 0]] \in Messages
  BY <1>5 DEF Messages
<1>7. written \in [Locs -> Seq(Messages)] /\ \A l \in Locs : Len(written[l]) = 1
  BY ONLY <1>2, <1>6
<1>8. LockView[Payload] = 0
  BY <1>2 DEF LockView
<1>9. seen \in [Threads -> Views] /\ \A t \in Threads : seen[t][Payload] = 1
  BY <1>2 DEF Views
<1>10. MemoryOK
  <2>1. Last(locked) = FALSE
    BY <1>2 DEF Last
  <2> QED
    <3>1. \A l \in Locs : Len(written[l]) >= 1
      BY <1>7
    <3>2. \A t \in Threads : seen[t][Payload] <= Newest(Payload)
      BY <1>7, <1>9
    <3>3. LockView[Payload] <= Newest(Payload)
      BY <1>7, <1>8
    <3> QED
      BY <1>7, <1>9, <2>1, <3>1, <3>2, <3>3 DEF MemoryOK
<1>11. \A t \in Threads : seen[t][Payload] = Newest(Payload)
  BY <1>7, <1>9
<1> QED
  BY <1>3, <1>4, <1>10, <1>11 DEF IInv, Exclusive, Handed

\* A load of the lock that does not let its thread in: a relaxed one of any
\* message, or an acquire one of the last.
LEMMA LoadKeeps ==
  ASSUME IInv, NEW t \in Threads, ~Inside(t),
         NEW n \in Visible(t, locked), NEW order,
         Acquires(order) => n = Newest(locked),
         Load(t, locked, n, order),
         NEW there \in Labels, pc' = [pc EXCEPT ![t] = there]
  PROVE  IInv'
<1> USE Apart
<1>1. /\ UNCHANGED written
      /\ seen' = [seen EXCEPT ![t] = Learned(t, locked, n, order)]
  BY DEF Load
<1> DEFINE known == [seen[t] EXCEPT ![locked] = n]
           learned == Learned(t, locked, n, order)
<1>2. /\ known \in Views /\ known[Payload] = seen[t][Payload]
  <2>1. seen[t] \in [Locs -> Nat] /\ seen[t][locked] \in Nat /\ Newest(locked) \in Nat
    BY DEF IInv, MemoryOK, Views, Locs, Newest
  <2>2. n \in Nat
    BY <2>1 DEF Visible
  <2> QED
    BY <2>1, <2>2 DEF Views, Locs
<1>3. LockView \in Views
  BY LockViewTyped DEF IInv
<1>4. /\ known[Payload] \in Nat /\ LockView[Payload] \in Nat /\ Newest(Payload) \in Nat
      /\ known[Payload] <= Newest(Payload) /\ LockView[Payload] <= Newest(Payload)
  BY <1>2, <1>3 DEF IInv, MemoryOK, Views, Locs, Newest
<1>5. learned \in Views /\ learned[Payload] <= Newest(Payload) /\ learned[Payload] >= seen[t][Payload]
  <2>1. CASE Acquires(order)
    <3>1. learned = Join(known, LockView)
      BY <2>1 DEF Learned, LockView
    <3> HIDE DEF known, learned
    <3>2. /\ Join(known, LockView) \in Views
          /\ Join(known, LockView)[Payload] = IF known[Payload] >= LockView[Payload]
                                               THEN known[Payload] ELSE LockView[Payload]
      BY <1>2, <1>3, Joined DEF IInv
    <3> QED
      BY <1>2, <1>4, <3>1, <3>2
  <2>2. CASE ~Acquires(order)
    <3>1. learned = known
      BY <2>2 DEF Learned
    <3> HIDE DEF known, learned
    <3> QED
      BY <1>2, <1>4, <3>1
  <2> QED
    BY <2>1, <2>2
<1> HIDE DEF known, learned
<1>6. seen' = [seen EXCEPT ![t] = learned]
  BY <1>1 DEF learned
<1>7. seen' \in [Threads -> Views]
  BY <1>5, <1>6 DEF IInv, MemoryOK
<1>8. \A u \in Threads : /\ seen'[u][Payload] <= Newest(Payload)
                         /\ seen[u][Payload] = Newest(Payload) => seen'[u][Payload] = Newest(Payload)
  <2> SUFFICES ASSUME NEW u \in Threads
               PROVE  /\ seen'[u][Payload] <= Newest(Payload)
                      /\ seen[u][Payload] = Newest(Payload) => seen'[u][Payload] = Newest(Payload)
    OBVIOUS
  <2>1. CASE u # t
    BY <1>6, <2>1 DEF IInv, MemoryOK
  <2>2. CASE u = t
    <3>1. seen'[u] = learned
      BY <1>6, <2>2 DEF IInv, MemoryOK
    <3>2. learned[Payload] \in Nat /\ Newest(Payload) \in Nat
      BY <1>5 DEF IInv, MemoryOK, Newest, Locs, Views
    <3> QED
      BY <1>5, <2>2, <3>1, <3>2
  <2> QED
    BY <2>1, <2>2
<1>9. MemoryOK'
  BY <1>1, <1>7, <1>8 DEF IInv, MemoryOK, LockView, Last, Newest, Locs
<1>10. PcOK'
  BY DEF IInv, PcOK
<1>11. \A u \in Threads : Inside(u)' => Inside(u)
  BY DEF IInv, PcOK, Inside, Labels
<1>12. Exclusive'
  BY <1>11 DEF IInv, Exclusive
<1>13. Handed'
  BY <1>1, <1>8, <1>11 DEF IInv, Handed, Last, LockView, Newest
<1> QED
  BY <1>9, <1>10, <1>12, <1>13 DEF IInv

LEMMA TestKeeps == ASSUME IInv, NEW t \in Threads, Test(t) PROVE IInv'
<1>1. PICK n \in Visible(t, locked) :
        /\ Load(t, locked, n, "relaxed")
        /\ Within(t, "test", IF written[locked][n].value THEN "test" ELSE "swap")
  BY DEF Test
<1>2. ~Inside(t)
  BY <1>1 DEF Within, Goto, Inside
<1>3. \E there \in Labels : pc' = [pc EXCEPT ![t] = there]
  BY <1>1 DEF Within, Goto, Labels
<1>4. ~Acquires("relaxed")
  BY DEF Acquires
<1> QED
  BY <1>1, <1>2, <1>3, <1>4, LoadKeeps

LEMMA LoseKeeps == ASSUME IInv, NEW t \in Threads, Lose(t) PROVE IInv'
<1>1. Newest(locked) \in Visible(t, locked)
  BY DEF Lose, Load
<1>2. ~Inside(t)
  BY DEF Lose, Within, Goto, Inside
<1>3. \E there \in Labels : pc' = [pc EXCEPT ![t] = there]
  BY DEF Lose, Within, Goto, Labels, Lock
<1>4. Load(t, locked, Newest(locked), "acquire")
  BY DEF Lose
<1> QED
  BY <1>1, <1>2, <1>3, <1>4, LoadKeeps

\* A message is appended to a location.
LEMMA MessageAdded ==
  ASSUME MemoryOK, NEW l \in Locs, NEW message \in Messages,
         written' = [written EXCEPT ![l] = Append(@, message)]
  PROVE  /\ written' \in [Locs -> Seq(Messages)]
         /\ Newest(l)' = Newest(l) + 1
         /\ written'[l][Newest(l)'] = message
         /\ \A loc \in Locs \ {l} : Newest(loc)' = Newest(loc) /\ written'[loc] = written[loc]
<1>1. written[l] \in Seq(Messages)
  BY DEF MemoryOK
<1>2. /\ written'[l] = Append(written[l], message)
      /\ \A loc \in Locs \ {l} : written'[loc] = written[loc]
  BY DEF MemoryOK
<1>3. /\ written'[l] \in Seq(Messages)
      /\ Len(written'[l]) = Len(written[l]) + 1
      /\ written'[l][Len(written[l]) + 1] = message
  BY <1>1, <1>2, AppendedAtEnd
<1> QED
  BY <1>2, <1>3 DEF MemoryOK, Newest

\* The thread that takes the free lock learns of all sections.
LEMMA SwapKeeps == ASSUME IInv, NEW t \in Threads, Swap(t) PROVE IInv'
<1> USE Apart
<1> DEFINE n == Newest(locked)
           here == [seen[t] EXCEPT ![locked] = n]
           known == Join(here, LockView)
           message == [value |-> TRUE,
                       view |-> [Join(LockView, Nothing) EXCEPT ![locked] = n + 1]]
<1>1. /\ pc[t] = "swap" /\ pc' = [pc EXCEPT ![t] = "cs"]
      /\ Last(locked) = FALSE
      /\ written' = [written EXCEPT ![locked] = Append(@, message)]
      /\ seen' = [seen EXCEPT ![t] = [known EXCEPT ![locked] = n + 1]]
  <2>1. Last(locked) = FALSE
    BY DEF Swap, IInv, MemoryOK
  <2> QED
    BY <2>1 DEF Swap, Within, Goto, Exchange, Learned, Acquires, Releases, LockView, Inside
<1>2. n \in Nat /\ n >= 1 /\ Newest(Payload) \in Nat
  BY DEF IInv, MemoryOK, Newest, Locs
<1>3. LockView \in Views /\ LockView[Payload] \in Nat
  BY LockViewTyped DEF IInv, Views, Locs
<1>4. here \in Views /\ here[Payload] = seen[t][Payload] /\ seen[t][Payload] \in Nat
  BY <1>2 DEF IInv, MemoryOK, Views, Locs
<1>5. /\ known \in Views
      /\ known[Payload] = Newest(Payload)
  <2>1. known \in Views /\ known[Payload] = IF here[Payload] >= LockView[Payload]
                                            THEN here[Payload] ELSE LockView[Payload]
    BY <1>3, <1>4, Joined DEF IInv
  <2>2. /\ seen[t][Payload] <= Newest(Payload) /\ LockView[Payload] <= Newest(Payload)
        /\ seen[t][Payload] = Newest(Payload) \/ LockView[Payload] = Newest(Payload)
    BY <1>1 DEF IInv, MemoryOK, Handed
  <2> HIDE DEF known, here
  <2> QED
    BY ONLY <1>2, <1>3, <1>4, <2>1, <2>2
<1>6. Join(LockView, Nothing) \in Views /\ Join(LockView, Nothing)[Payload] = LockView[Payload]
  <2>1. Nothing \in Views /\ Nothing[Payload] = 0
    BY NothingKnown DEF IInv
  <2> QED
    BY <1>3, <2>1, Joined DEF IInv
<1>7. message \in Messages /\ message.view[Payload] = LockView[Payload] /\ message.value = TRUE
  BY <1>2, <1>6 DEF Messages, Views, Locs
<1>8. /\ [known EXCEPT ![locked] = n + 1] \in Views
      /\ [known EXCEPT ![locked] = n + 1][Payload] = Newest(Payload)
  BY <1>2, <1>5 DEF Views, Locs
<1> HIDE DEF message, known, here, n
<1>9. /\ written' \in [Locs -> Seq(Messages)]
      /\ Newest(locked)' = Newest(locked) + 1
      /\ written'[locked][Newest(locked)'] = message
      /\ Newest(Payload)' = Newest(Payload)
  BY <1>1, <1>7, MessageAdded DEF IInv, Locs
<1>10. Last(locked)' = TRUE /\ LockView'[Payload] = LockView[Payload]
  BY <1>7, <1>9 DEF Last, LockView
<1>11. /\ seen' \in [Threads -> Views]
       /\ seen'[t][Payload] = Newest(Payload)
       /\ \A u \in Threads \ {t} : seen'[u] = seen[u]
  BY <1>1, <1>8 DEF IInv, MemoryOK
<1>12. MemoryOK'
  <2>1. \A l \in Locs : Newest(l)' >= 1
    BY <1>2, <1>9 DEF IInv, MemoryOK, Locs, n
  <2>2. \A u \in Threads : seen'[u][Payload] <= Newest(Payload)'
    <3>1. \A u \in Threads : seen[u][Payload] <= Newest(Payload)
      BY DEF IInv, MemoryOK
    <3>2. Newest(Payload) \in Nat /\ Newest(Payload)' = Newest(Payload)
      BY <1>2, <1>9
    <3> QED
      BY <1>11, <3>1, <3>2
  <2>3. LockView'[Payload] <= Newest(Payload)'
    BY <1>9, <1>10 DEF IInv, MemoryOK
  <2>4. Last(locked)' \in BOOLEAN
    BY <1>10
  <2> QED
    BY <1>9, <1>11, <2>1, <2>2, <2>3, <2>4 DEF MemoryOK
<1>13. PcOK'
  BY <1>1 DEF IInv, PcOK
<1>14. \A u \in Threads : ~Inside(u)
  BY <1>1 DEF IInv, Handed
<1>15. \A u \in Threads : Inside(u)' => u = t
  BY <1>1, <1>14 DEF Inside, IInv, PcOK
<1>16. Exclusive'
  BY <1>15 DEF Exclusive
<1>17. Handed'
  BY <1>9, <1>10, <1>11, <1>15 DEF Handed
<1> QED
  BY <1>12, <1>13, <1>16, <1>17 DEF IInv

\* What a section does the thread that did it knows of.
LEMMA SectionKeeps == ASSUME IInv, NEW t \in Threads, Section(t) PROVE IInv'
<1> USE Apart
<1> DEFINE n == Newest(Payload) + 1
           message == [value |-> 0, view |-> [Nothing EXCEPT ![Payload] = n]]
<1>1. /\ pc[t] = "cs" /\ pc' = [pc EXCEPT ![t] = "unlock"]
      /\ written' = [written EXCEPT ![Payload] = Append(@, message)]
      /\ seen' = [seen EXCEPT ![t][Payload] = n]
  BY DEF Section, Within, Goto, Store, StoreCarrying, Releases
<1>2. n \in Nat /\ n = Newest(Payload) + 1 /\ Newest(Payload) \in Nat /\ Newest(Payload) >= 1
  BY DEF IInv, MemoryOK, Newest, Locs
<1>3. message \in Messages
  <2>1. Nothing \in Views
    BY NothingKnown DEF IInv
  <2> QED
    BY <1>2, <2>1 DEF Messages, Views, Locs
<1> HIDE DEF message, n
<1>4. /\ written' \in [Locs -> Seq(Messages)]
      /\ Newest(Payload)' = n
      /\ Newest(locked)' = Newest(locked) /\ written'[locked] = written[locked]
  BY <1>1, <1>2, <1>3, MessageAdded DEF IInv, Locs
<1>5. Last(locked)' = Last(locked) /\ LockView' = LockView
  BY <1>4 DEF Last, LockView
<1>6. /\ seen' \in [Threads -> Views]
      /\ seen'[t][Payload] = n
      /\ \A u \in Threads \ {t} : seen'[u] = seen[u]
  BY <1>1, <1>2 DEF IInv, MemoryOK, Views, Locs
<1>7. LockView[Payload] \in Nat
  BY LockViewTyped DEF IInv, Views, Locs
<1>8. MemoryOK'
  <2>1. \A l \in Locs : Newest(l)' >= 1
    BY <1>2, <1>4 DEF IInv, MemoryOK, Locs
  <2>2. \A u \in Threads : seen'[u][Payload] <= Newest(Payload)'
    <3>1. \A u \in Threads : seen[u][Payload] \in Nat /\ seen[u][Payload] <= Newest(Payload)
      BY DEF IInv, MemoryOK, Views, Locs
    <3> QED
      BY <1>2, <1>4, <1>6, <3>1
  <2>3. LockView'[Payload] <= Newest(Payload)'
    <3>1. LockView[Payload] <= Newest(Payload)
      BY DEF IInv, MemoryOK
    <3> QED
      BY <1>2, <1>4, <1>5, <1>7, <3>1
  <2> QED
    BY <1>4, <1>5, <1>6, <2>1, <2>2, <2>3 DEF IInv, MemoryOK
<1>9. PcOK'
  BY <1>1 DEF IInv, PcOK
<1>10. Inside(t) /\ Last(locked) = TRUE
  BY <1>1 DEF Inside, IInv, Handed
<1>11. \A u \in Threads : Inside(u)' => u = t
  BY <1>1, <1>10 DEF Inside, IInv, PcOK, Exclusive
<1>12. Exclusive'
  BY <1>11 DEF Exclusive
<1>13. Handed'
  BY <1>4, <1>5, <1>6, <1>10, <1>11 DEF Handed
<1> QED
  BY <1>8, <1>9, <1>12, <1>13 DEF IInv

\* The message that releases the lock carries what the thread knows.
LEMMA UnlockKeeps == ASSUME IInv, NEW t \in Threads, Unlock(t) PROVE IInv'
<1> USE Apart
<1> DEFINE n == Newest(locked) + 1
           message == [value |-> FALSE, view |-> [seen[t] EXCEPT ![locked] = n]]
<1>1. /\ pc[t] = "unlock"
      /\ written' = [written EXCEPT ![locked] = Append(@, message)]
      /\ seen' = [seen EXCEPT ![t][locked] = n]
  BY DEF Unlock, EndIteration, Goto, Store, StoreCarrying, Releases
<1>2. PICK there \in Labels \cup {"done"} : pc' = [pc EXCEPT ![t] = there]
  BY DEF Unlock, EndIteration, Goto, Lock, Labels
<1>3. n \in Nat /\ n = Newest(locked) + 1 /\ Newest(locked) \in Nat /\ Newest(Payload) \in Nat
  BY DEF IInv, MemoryOK, Newest, Locs
<1>4. message \in Messages /\ message.value = FALSE /\ message.view[Payload] = seen[t][Payload]
  BY <1>3 DEF IInv, MemoryOK, Messages, Views, Locs
<1> HIDE DEF message, n
<1>5. /\ written' \in [Locs -> Seq(Messages)]
      /\ Newest(locked)' = n
      /\ written'[locked][Newest(locked)'] = message
      /\ Newest(Payload)' = Newest(Payload)
  BY <1>1, <1>3, <1>4, MessageAdded DEF IInv, Locs
<1>6. Inside(t) /\ seen[t][Payload] = Newest(Payload)
  BY <1>1 DEF Inside, IInv, Handed
<1>7. Last(locked)' = FALSE /\ LockView'[Payload] = Newest(Payload)
  BY <1>4, <1>5, <1>6 DEF Last, LockView
<1>8. /\ seen' \in [Threads -> Views]
      /\ \A u \in Threads : seen'[u][Payload] = seen[u][Payload]
  BY <1>1, <1>3 DEF IInv, MemoryOK, Views, Locs
<1>9. MemoryOK'
  <2>1. \A l \in Locs : Newest(l)' >= 1
    BY <1>3, <1>5 DEF IInv, MemoryOK, Locs
  <2>2. \A u \in Threads : seen'[u][Payload] <= Newest(Payload)'
    BY <1>5, <1>8 DEF IInv, MemoryOK
  <2>3. LockView'[Payload] <= Newest(Payload)'
    BY <1>3, <1>5, <1>7
  <2>4. Last(locked)' \in BOOLEAN
    BY <1>7
  <2> QED
    BY <1>5, <1>8, <2>1, <2>2, <2>3, <2>4 DEF MemoryOK
<1>10. PcOK'
  BY <1>2 DEF IInv, PcOK
<1>11. \A u \in Threads : ~Inside(u)'
  BY <1>2, <1>6 DEF Inside, IInv, PcOK, Exclusive, Labels
<1> QED
  BY <1>5, <1>7, <1>9, <1>10, <1>11 DEF IInv, Exclusive, Handed

LEMMA StepKeeps == IInv /\ [Next]_benchVars => IInv'
<1> SUFFICES ASSUME IInv, [Next]_benchVars PROVE IInv'
  OBVIOUS
<1>1. CASE UNCHANGED benchVars
  BY <1>1 DEF benchVars, memoryVars, IInv, MemoryOK, PcOK, Exclusive, Handed,
              Inside, Last, LockView, Newest
<1>2. CASE \E t \in Threads : Step(t)
  BY <1>2, TestKeeps, SwapKeeps, LoseKeeps, SectionKeeps, UnlockKeeps DEF Step
<1> QED
  BY <1>1, <1>2 DEF Next

LEMMA Invariant == Spec => []IInv
BY InitHolds, StepKeeps, PTL DEF Spec

-----------------------------------------------------------------------------

\* At most one thread is inside, although Test may read an old value and the
\* exchange is only an acquire operation.
THEOREM RelaxedSpinLockExcludes == Spec => []MutualExclusion
<1>1. IInv => MutualExclusion
  BY DEF IInv, PcOK, Exclusive, MutualExclusion
<1> QED
  BY <1>1, Invariant, PTL

\* Every critical section happens before the next: the exchange acquires what the
\* store of unlock() released, with no other synchronisation between the two.
THEOREM RelaxedSpinLockOrders == Spec => []SectionsOrdered
<1>1. IInv => SectionsOrdered
  BY DEF IInv, MemoryOK, Handed, SectionsOrdered, Inside
<1> QED
  BY <1>1, Invariant, PTL

-----------------------------------------------------------------------------

(* A memory of the locations locs *)

\* What is stored: flags and numbers, addresses and tagged pointers.
Values == BOOLEAN \cup Nat \cup (Int \X Int) \cup [ptr : Int \X Int, count : Int]
MessagesOf(locs) == [value : Values, view : [locs -> Nat]]

\* Nobody knows of a message that there is not, and no message carries one.
MemOK(locs) ==
  /\ written \in [locs -> Seq(MessagesOf(locs))]
  /\ \A l \in locs : Newest(l) \in Nat \ {0}
  /\ seen \in [Threads -> [locs -> Nat]]
  /\ \A t \in Threads : \A l \in locs : seen[t][l] >= 1 /\ seen[t][l] <= Newest(l)
  /\ \A l \in locs : \A n \in 1 .. Newest(l) : \A loc \in locs : written[l][n].view[loc] <= Newest(loc)

\* A message is appended to location l, ...
Appends(l, value, view) ==
  written' = [written EXCEPT ![l] = Append(@, [value |-> value, view |-> view])]
Sees(t, known) == seen' = [seen EXCEPT ![t] = known]

\* ... which is there then.
Added(locs, l, value, view) ==
  /\ Newest(l)' = Newest(l) + 1
  /\ \A n \in 1 .. Newest(l) : written'[l][n] = written[l][n]
  /\ written'[l][Newest(l) + 1].value = value
  /\ written'[l][Newest(l) + 1].view = view
  /\ \A loc \in locs \ {l} : written'[loc] = written[loc] /\ Newest(loc)' = Newest(loc)

\* What thread t knows grows, up to what there is.
Learns(locs, t) ==
  /\ \A u \in Threads \ {t} : seen'[u] = seen[u]
  /\ \A loc \in locs : seen'[t][loc] \in Nat /\ seen[t][loc] <= seen'[t][loc]

\* The messages.
LEMMA MessageTypes ==
  ASSUME NEW locs, MemOK(locs), NEW l \in locs, NEW n \in 1 .. Newest(l)
  PROVE  written[l][n] \in MessagesOf(locs) /\ written[l][n].view \in [locs -> Nat]
<1>1. written[l] \in Seq(MessagesOf(locs)) /\ n \in 1 .. Len(written[l])
  BY DEF MemOK, Newest
<1>2. written[l][n] \in MessagesOf(locs)
  BY ONLY <1>1
<1>3. QED
  BY <1>2 DEF MessagesOf

\* Joining two views.
LEMMA JoinTypes ==
  ASSUME NEW locs, MemOK(locs), NEW v \in [locs -> Nat], NEW w \in [locs -> Nat]
  PROVE  /\ Join(v, w) \in [locs -> Nat]
         /\ \A loc \in locs : /\ v[loc] <= Join(v, w)[loc] /\ w[loc] <= Join(v, w)[loc]
                            /\ Join(v, w)[loc] \in {v[loc], w[loc]}
<1>1. Locations = locs
  BY DEF MemOK, Locations
<1>2. Join(v, w) = [loc \in locs |-> IF v[loc] >= w[loc] THEN v[loc] ELSE w[loc]]
  BY <1>1 DEF Join
<1>3. QED
  BY <1>2

LEMMA NothingTypes ==
  ASSUME NEW locs, MemOK(locs)
  PROVE  Nothing \in [locs -> Nat] /\ \A loc \in locs : Nothing[loc] = 0
BY DEF MemOK, Nothing, Locations

\* Loads.
LEMMA LoadEffect ==
  ASSUME NEW locs, MemOK(locs), NEW t \in Threads, NEW l \in locs, NEW n, NEW order,
         Load(t, l, n, order)
  PROVE  /\ MemOK(locs)' /\ written' = written
         /\ Learns(locs, t)
         /\ n \in seen[t][l] .. Newest(l)
         /\ n <= seen'[t][l]
         /\ Acquires(order) => \A loc \in locs : written[l][n].view[loc] <= seen'[t][loc]
<1>1. /\ n \in seen[t][l] .. Newest(l)
      /\ seen' = [seen EXCEPT ![t] = Learned(t, l, n, order)]
      /\ written' = written
  BY DEF Load, Visible
<1>2. /\ seen[t] \in [locs -> Nat] /\ Newest(l) \in Nat /\ seen[t][l] >= 1
      /\ \A loc \in locs : Newest(loc) \in Nat /\ seen[t][loc] \in Nat /\ seen[t][loc] >= 1 /\ seen[t][loc] <= Newest(loc)
  BY DEF MemOK
<1>3. n \in Nat /\ n \in 1 .. Newest(l)
  BY <1>1, <1>2
<1>4. PICK known \in [locs -> Nat] : known = [seen[t] EXCEPT ![l] = n]
  BY <1>2, <1>3
<1>5. \A loc \in locs : seen[t][loc] <= known[loc] /\ known[loc] <= Newest(loc) /\ known[l] = n
  BY <1>1, <1>2, <1>3, <1>4
<1>6. PICK view \in [locs -> Nat] : view = written[l][n].view
  BY <1>3, MessageTypes
<1>7. \A loc \in locs : view[loc] <= Newest(loc)
  BY <1>3, <1>6 DEF MemOK
<1>8. PICK j : j = Join(known, view)
  OBVIOUS
<1>9. /\ j \in [locs -> Nat]
      /\ \A loc \in locs : known[loc] <= j[loc] /\ view[loc] <= j[loc] /\ j[loc] \in {known[loc], view[loc]}
  BY <1>8, JoinTypes
<1>10. PICK learned : learned = Learned(t, l, n, order)
  OBVIOUS
<1>11. learned = IF Acquires(order) THEN j ELSE known
  BY <1>4, <1>6, <1>8, <1>10 DEF Learned
<1>12. /\ learned \in [locs -> Nat]
       /\ \A loc \in locs : known[loc] <= learned[loc] /\ learned[loc] <= Newest(loc)
       /\ Acquires(order) => \A loc \in locs : view[loc] <= learned[loc]
  <2>1. CASE Acquires(order)
    <3>1. learned = j
      BY <1>11, <2>1
    <3>2. QED
      BY <1>2, <1>5, <1>7, <1>9, <3>1
  <2>2. CASE ~Acquires(order)
    <3>1. learned = known
      BY <1>11, <2>2
    <3>2. QED
      BY <1>2, <1>5, <2>2, <3>1
  <2>3. QED
    BY <2>1, <2>2
<1>13. /\ seen' \in [Threads -> [locs -> Nat]]
       /\ seen'[t] = learned /\ \A u \in Threads \ {t} : seen'[u] = seen[u]
  BY <1>1, <1>10, <1>12 DEF MemOK
<1>14. \A loc \in locs : seen[t][loc] <= learned[loc]
  BY <1>2, <1>4, <1>5, <1>12
<1>15. Learns(locs, t)
  BY <1>12, <1>13, <1>14 DEF Learns
<1>16. \A loc \in locs : Newest(loc)' = Newest(loc)
  BY <1>1 DEF Newest
<1>17. \A u \in Threads : \A loc \in locs : seen'[u][loc] >= 1 /\ seen'[u][loc] <= Newest(loc)'
  <2> SUFFICES ASSUME NEW u \in Threads, NEW loc \in locs
               PROVE  seen'[u][loc] >= 1 /\ seen'[u][loc] <= Newest(loc)
    BY <1>16
  <2>1. CASE u = t
    BY <1>2, <1>12, <1>13, <1>14, <2>1
  <2>2. CASE u # t
    BY <1>13, <2>2 DEF MemOK
  <2>3. QED
    BY <2>1, <2>2
<1>18. MemOK(locs)'
  BY <1>1, <1>13, <1>16, <1>17 DEF MemOK, Newest
<1>19. n <= learned[l]
  BY <1>3, <1>4, <1>5, <1>12
<1>20. QED
  BY <1>1, <1>6, <1>12, <1>13, <1>15, <1>18, <1>19

\* A message and what its thread knows then.
LEMMA MessageEffect ==
  ASSUME NEW locs, MemOK(locs), NEW t \in Threads, NEW l \in locs,
         NEW value \in Values, NEW view \in [locs -> Nat], NEW known \in [locs -> Nat],
         Appends(l, value, view), Sees(t, known),
         known[l] = Newest(l) + 1,
         \A loc \in locs \ {l} : view[loc] <= Newest(loc) /\ seen[t][loc] <= known[loc] /\ known[loc] <= Newest(loc),
         view[l] <= Newest(l) + 1
  PROVE  MemOK(locs)' /\ Added(locs, l, value, view) /\ Learns(locs, t) /\ seen'[t] = known
<1>1. PICK m : m = [value |-> value, view |-> view]
  OBVIOUS
<1>2. m \in MessagesOf(locs) /\ m.value = value /\ m.view = view
  BY <1>1 DEF MessagesOf
<1>3. PICK s \in Seq(MessagesOf(locs)) : s = written[l]
  BY DEF MemOK
<1>4. PICK s2 : s2 = Append(s, m)
  OBVIOUS
<1>5. /\ s2 \in Seq(MessagesOf(locs)) /\ Len(s2) = Len(s) + 1
      /\ s2[Len(s) + 1] = m /\ \A n \in 1 .. Len(s) : s2[n] = s[n]
  BY <1>2, <1>4
<1>6. /\ written'[l] = s2 /\ \A loc \in locs \ {l} : written'[loc] = written[loc]
      /\ written' \in [locs -> Seq(MessagesOf(locs))]
  BY <1>1, <1>3, <1>4, <1>5 DEF MemOK, Appends
<1>7. Newest(l) = Len(s) /\ Newest(l)' = Len(s) + 1 /\ \A loc \in locs \ {l} : Newest(loc)' = Newest(loc)
  BY <1>3, <1>5, <1>6 DEF Newest
<1>8. Added(locs, l, value, view)
  BY <1>2, <1>3, <1>5, <1>6, <1>7 DEF Added
<1>9. \A loc \in locs : Newest(loc) \in Nat \ {0} /\ Newest(loc)' \in Nat \ {0} /\ Newest(loc) <= Newest(loc)'
  BY <1>7 DEF MemOK, Newest
<1>10. \A loc \in locs : view[loc] <= Newest(loc)' /\ known[loc] <= Newest(loc)'
  BY <1>7 DEF Newest
<1>11. /\ seen' \in [Threads -> [locs -> Nat]] /\ seen'[t] = known
       /\ \A u \in Threads \ {t} : seen'[u] = seen[u]
  BY DEF MemOK, Sees
<1>12. \A loc \in locs : seen[t][loc] \in Nat /\ seen[t][loc] <= known[loc] /\ seen[t][loc] >= 1
  BY <1>7, <1>9 DEF MemOK
<1>13. Learns(locs, t)
  BY <1>11, <1>12 DEF Learns
<1>14. \A u \in Threads : \A loc \in locs : seen'[u][loc] >= 1 /\ seen'[u][loc] <= Newest(loc)'
  <2> SUFFICES ASSUME NEW u \in Threads, NEW loc \in locs
               PROVE  seen'[u][loc] >= 1 /\ seen'[u][loc] <= Newest(loc)'
    OBVIOUS
  <2>1. CASE u = t
    BY <1>10, <1>11, <1>12, <2>1 DEF Newest
  <2>2. CASE u # t
    <3>1. seen[u][loc] \in Nat /\ seen[u][loc] >= 1 /\ seen[u][loc] <= Newest(loc)
      BY DEF MemOK
    <3>2. QED
      BY <1>9, <1>11, <2>2, <3>1 DEF Newest
  <2>3. QED
    BY <2>1, <2>2
<1>15. \A j \in locs : \A n \in 1 .. Newest(j)' : \A loc \in locs : written'[j][n].view[loc] <= Newest(loc)'
  <2> SUFFICES ASSUME NEW j \in locs, NEW n \in 1 .. Newest(j)', NEW loc \in locs
               PROVE  written'[j][n].view[loc] <= Newest(loc)'
    OBVIOUS
  <2>1. CASE j = l /\ n = Newest(l) + 1
    BY <1>8, <1>10, <2>1 DEF Added
  <2>2. CASE ~(j = l /\ n = Newest(l) + 1)
    <3>1. n \in 1 .. Newest(j) /\ written'[j][n] = written[j][n]
      BY <1>7, <1>8, <1>9, <2>2 DEF Added, Newest
    <3>2. written[j][n].view \in [locs -> Nat]
      BY <3>1, MessageTypes
    <3>3. written[j][n].view[loc] <= Newest(loc) /\ written[j][n].view[loc] \in Nat
      BY <3>1, <3>2 DEF MemOK
    <3>4. PICK a \in Nat : a = written[j][n].view[loc] /\ a <= Newest(loc)
      BY <3>3
    <3>5. written'[j][n].view[loc] = a
      BY <3>1, <3>4
    <3>6. PICK b \in Nat : b = Newest(loc)' /\ Newest(loc) <= b
      BY <1>9 DEF Newest
    <3>7. Newest(loc) \in Nat
      BY <1>9
    <3>8. a <= b
      BY <3>4, <3>6, <3>7
    <3>9. QED
      BY <3>5, <3>6, <3>8 DEF Newest
  <2>3. QED
    BY <2>1, <2>2
<1>16. MemOK(locs)'
  BY <1>6, <1>9, <1>11, <1>14, <1>15 DEF MemOK
<1>17. QED
  BY <1>8, <1>11, <1>13, <1>16

\* Stores.
LEMMA StoreEffect ==
  ASSUME NEW locs, MemOK(locs), NEW t \in Threads, NEW l \in locs,
         NEW value \in Values, NEW order, Store(t, l, value, order)
  PROVE  /\ MemOK(locs)' /\ Learns(locs, t)
         /\ seen'[t][l] = Newest(l) + 1 /\ \A loc \in locs \ {l} : seen'[t][loc] = seen[t][loc]
         /\ \E view \in [locs -> Nat] :
              /\ Added(locs, l, value, view)
              /\ view[l] = Newest(l) + 1
              /\ Releases(order) => \A loc \in locs \ {l} : view[loc] = seen[t][loc]
<1>1. PICK carried : carried = IF Releases(order) THEN seen[t] ELSE Nothing
  OBVIOUS
<1>2. Newest(l) \in Nat /\ \A loc \in locs : Newest(loc) \in Nat /\ seen[t][loc] \in Nat /\ seen[t][loc] <= Newest(loc)
  BY DEF MemOK
<1>3. carried \in [locs -> Nat] /\ \A loc \in locs : carried[loc] <= Newest(loc)
  <2>1. CASE Releases(order)
    BY <1>1, <1>2, <2>1 DEF MemOK
  <2>2. CASE ~Releases(order)
    BY <1>1, <1>2, <2>2, NothingTypes
  <2>3. QED
    BY <2>1, <2>2
<1>4. PICK view : view = [carried EXCEPT ![l] = Newest(l) + 1]
  OBVIOUS
<1>5. view \in [locs -> Nat] /\ view[l] = Newest(l) + 1 /\ \A loc \in locs \ {l} : view[loc] = carried[loc]
  BY <1>2, <1>3, <1>4
<1>6. PICK known : known = [seen[t] EXCEPT ![l] = Newest(l) + 1]
  OBVIOUS
<1>7. known \in [locs -> Nat] /\ known[l] = Newest(l) + 1 /\ \A loc \in locs \ {l} : known[loc] = seen[t][loc]
  BY <1>2, <1>6 DEF MemOK
<1>8. Appends(l, value, view) /\ Sees(t, known)
  BY <1>1, <1>4, <1>6 DEF Store, StoreCarrying, Appends, Sees
<1>9. \A loc \in locs \ {l} : view[loc] <= Newest(loc) /\ seen[t][loc] <= known[loc] /\ known[loc] <= Newest(loc)
  BY <1>2, <1>3, <1>5, <1>7
<1>10. view[l] <= Newest(l) + 1
  BY <1>2, <1>5
<1>11. MemOK(locs)' /\ Added(locs, l, value, view) /\ Learns(locs, t) /\ seen'[t] = known
  BY <1>5, <1>7, <1>8, <1>9, <1>10, MessageEffect
<1>12. Releases(order) => \A loc \in locs \ {l} : view[loc] = seen[t][loc]
  BY <1>1, <1>5
<1>13. QED
  BY <1>5, <1>7, <1>11, <1>12

\* Exchanges that acquire and release.
LEMMA ExchangeEffect ==
  ASSUME NEW locs, MemOK(locs), NEW t \in Threads, NEW l \in locs,
         NEW value \in Values, Exchange(t, l, value, "acq_rel")
  PROVE  /\ MemOK(locs)' /\ Learns(locs, t)
         /\ seen'[t][l] = Newest(l) + 1
         /\ \A loc \in locs : written[l][Newest(l)].view[loc] <= seen'[t][loc]
         /\ \E view \in [locs -> Nat] :
              /\ Added(locs, l, value, view)
              /\ \A loc \in locs : written[l][Newest(l)].view[loc] <= view[loc]
              /\ \A loc \in locs : seen[t][loc] <= view[loc]
<1>1. Newest(l) \in Nat \ {0} /\ \A loc \in locs : Newest(loc) \in Nat /\ seen[t][loc] \in Nat /\ seen[t][loc] <= Newest(loc)
  BY DEF MemOK
<1>2. PICK old \in [locs -> Nat] : old = written[l][Newest(l)].view
  BY <1>1, MessageTypes
<1>3. \A loc \in locs : old[loc] <= Newest(loc)
  <2>1. Newest(l) \in 1 .. Newest(l)
    BY <1>1
  <2>2. QED
    BY <1>2, <2>1 DEF MemOK
<1>4. PICK here \in [locs -> Nat] : here = [seen[t] EXCEPT ![l] = Newest(l)]
  BY <1>1 DEF MemOK
<1>5. \A loc \in locs : here[loc] \in Nat /\ seen[t][loc] <= here[loc] /\ here[loc] <= Newest(loc)
  BY <1>1, <1>4
<1>6. PICK known : known = Join(here, old)
  OBVIOUS
<1>7. /\ known \in [locs -> Nat]
      /\ \A loc \in locs : here[loc] <= known[loc] /\ old[loc] <= known[loc] /\ known[loc] \in {here[loc], old[loc]}
  BY <1>6, JoinTypes
<1>8. \A loc \in locs : known[loc] \in Nat /\ old[loc] \in Nat /\ known[loc] <= Newest(loc) /\ seen[t][loc] <= known[loc]
  BY <1>1, <1>3, <1>5, <1>7
<1>9. known = Learned(t, l, Newest(l), "acq_rel")
  BY <1>2, <1>4, <1>6 DEF Learned, Acquires
<1>10. PICK both : both = Join(old, known)
  OBVIOUS
<1>11. /\ both \in [locs -> Nat]
       /\ \A loc \in locs : old[loc] <= both[loc] /\ known[loc] <= both[loc] /\ both[loc] \in {old[loc], known[loc]}
  BY <1>7, <1>10, JoinTypes
<1>12. PICK view : view = [both EXCEPT ![l] = Newest(l) + 1]
  OBVIOUS
<1>13. /\ view \in [locs -> Nat] /\ view[l] = Newest(l) + 1
       /\ \A loc \in locs \ {l} : view[loc] = both[loc]
  BY <1>1, <1>11, <1>12
<1>14. PICK after : after = [known EXCEPT ![l] = Newest(l) + 1]
  OBVIOUS
<1>15. /\ after \in [locs -> Nat] /\ after[l] = Newest(l) + 1
       /\ \A loc \in locs \ {l} : after[loc] = known[loc]
  BY <1>1, <1>7, <1>14
<1>16. Appends(l, value, view) /\ Sees(t, after)
  BY <1>2, <1>9, <1>10, <1>12, <1>14 DEF Exchange, Releases, Appends, Sees
<1>17. \A loc \in locs \ {l} : view[loc] <= Newest(loc) /\ seen[t][loc] <= after[loc] /\ after[loc] <= Newest(loc)
  BY <1>3, <1>8, <1>11, <1>13, <1>15
<1>18. view[l] <= Newest(l) + 1
  BY <1>1, <1>13
<1>19. MemOK(locs)' /\ Added(locs, l, value, view) /\ Learns(locs, t) /\ seen'[t] = after
  BY <1>13, <1>15, <1>16, <1>17, <1>18, MessageEffect
<1>20. \A loc \in locs : old[loc] <= view[loc] /\ seen[t][loc] <= view[loc] /\ old[loc] <= after[loc]
  <2> SUFFICES ASSUME NEW loc \in locs PROVE old[loc] <= view[loc] /\ seen[t][loc] <= view[loc] /\ old[loc] <= after[loc]
    OBVIOUS
  <2>1. CASE loc = l
    BY <1>1, <1>3, <1>8, <1>13, <1>15, <2>1
  <2>2. CASE loc # l
    BY <1>7, <1>8, <1>11, <1>13, <1>15, <2>2
  <2>3. QED
    BY <2>1, <2>2
<1>21. QED
  BY <1>2, <1>13, <1>15, <1>19, <1>20

-----------------------------------------------------------------------------
(* The CLH lock *)

CLHLocs == {tail, Payload} \cup {Locked(n) : n \in Nodes}

\* The node that the p-th exchange of tail but one has appended.
Appended(p) == written[tail][p].value
NodeLoc(p) == Locked(Appended(p))

\* The message that marks that node, as far as the exchange carries it.
MarkOf(p) == written[tail][p].view[NodeLoc(p)]

Value(l, n) == written[l][n].value

CLHQueued(t) == pc[t] \in {"spin", "cs", "unlock"}

CLHTypes ==
  /\ MemOK(CLHLocs)
  /\ pc \in [Threads -> CLHLabels \cup {"cs", "unlock", "done"}]
  /\ myNode \in [Threads -> Nodes] /\ myPred \in [Threads -> Nodes]
  /\ fenced \in [Threads -> [CLHLocs -> Nat]]
  /\ \A t \in Threads : \A l \in CLHLocs : fenced[t][l] <= Newest(l)

\* The nodes from the g-th on are different ones and no others' that are not queued.
NodesApart(g) ==
  /\ \A p \in g .. Newest(tail) : Appended(p) \in Nodes
  /\ \A p, q \in g .. Newest(tail) : Appended(p) = Appended(q) => p = q
  /\ \A t \in Threads : ~CLHQueued(t) => \A p \in g .. Newest(tail) : Appended(p) # myNode[t]
  /\ \A t, u \in Threads : ~CLHQueued(t) /\ ~CLHQueued(u) /\ myNode[t] = myNode[u] => t = u

\* pos[t] is the place of a queued thread.
Placed(g, pos) ==
  /\ \A t \in Threads : CLHQueued(t) =>
       /\ pos[t] \in g + 1 .. Newest(tail)
       /\ Appended(pos[t]) = myNode[t] /\ Appended(pos[t] - 1) = myPred[t]
  /\ \A t, u \in Threads : CLHQueued(t) /\ CLHQueued(u) /\ pos[t] = pos[u] => t = u
  /\ \A t \in Threads : Inside(t) => pos[t] = g + 1

\* The nodes of the queued threads are marked, and who reads their exchange of
\* tail knows that; the one before them is released, which tells of all sections.
Marks(g) ==
  /\ \A p \in g + 1 .. Newest(tail) :
       MarkOf(p) = Newest(NodeLoc(p)) /\ Value(NodeLoc(p), Newest(NodeLoc(p))) = TRUE
  /\ MarkOf(g) + 1 = Newest(NodeLoc(g))
  /\ MarkOf(g) >= 1 => Value(NodeLoc(g), MarkOf(g)) = TRUE
  /\ Value(NodeLoc(g), Newest(NodeLoc(g))) = FALSE
  /\ g > 1 => written[NodeLoc(g)][Newest(NodeLoc(g))].view[Payload] >= g

\* What thread t knows, whose place is q.
CLHKnows(t, q) ==
  /\ pc[t] = "spin" => seen[t][Locked(myPred[t])] >= MarkOf(q - 1)
  /\ Inside(t) => seen[t][Payload] >= Newest(Payload)
  /\ pc[t] \in {"fence", "swap"} =>
       Value(Locked(myNode[t]), Newest(Locked(myNode[t]))) = TRUE
  /\ pc[t] = "fence" => seen[t][Locked(myNode[t])] >= Newest(Locked(myNode[t]))
  /\ pc[t] = "swap" => fenced[t][Locked(myNode[t])] >= Newest(Locked(myNode[t]))

\* Sections are counted.
Sections(g) ==
  /\ (\E t \in Threads : pc[t] = "unlock") => Newest(Payload) = g + 1
  /\ (\A t \in Threads : pc[t] # "unlock") => Newest(Payload) = g

CLHAt(g, pos) ==
  /\ g <= Newest(tail)
  /\ NodesApart(g) /\ Placed(g, pos) /\ Marks(g) /\ Sections(g)
  /\ \A t \in Threads : CLHKnows(t, pos[t])

CLHIInv == CLHTypes /\ \E g \in Nat \ {0} : \E pos \in [Threads -> Nat] : CLHAt(g, pos)

\* The locations are different.
LEMMA CLHLocations ==
  /\ tail \in CLHLocs /\ Payload \in CLHLocs /\ tail # Payload
  /\ \A n \in Nodes : Locked(n) \in CLHLocs /\ Locked(n) # tail /\ Locked(n) # Payload
  /\ \A m, n \in Nodes : Locked(m) = Locked(n) => m = n
BY DEF CLHLocs, tail, Payload, Locked

LEMMA ValuesIn == TRUE \in Values /\ FALSE \in Values /\ \A n \in Nat : n \in Values
BY DEF Values

LEMMA NodesIn == Nodes \subseteq Values /\ Nodes \subseteq Nat
BY NrThreadsAssumption DEF Nodes, Values

\* Only what is stored in these locations matters to the queue.
LEMMA MarksKept ==
  ASSUME NEW g \in Nat \ {0}, Marks(g), Newest(tail) \in Nat, g <= Newest(tail),
         written'[tail] = written[tail],
         \A p \in g .. Newest(tail) : written'[NodeLoc(p)] = written[NodeLoc(p)]
  PROVE  /\ Marks(g)' /\ Newest(tail)' = Newest(tail)
         /\ \A p : Appended(p)' = Appended(p) /\ MarkOf(p)' = MarkOf(p)
<1>1. Newest(tail)' = Newest(tail)
  BY DEF Newest
<1>2. \A p : Appended(p)' = Appended(p) /\ NodeLoc(p)' = NodeLoc(p) /\ MarkOf(p)' = MarkOf(p)
  BY DEF Appended, NodeLoc, MarkOf
<1>3. \A p \in g .. Newest(tail) :
        /\ Newest(NodeLoc(p))' = Newest(NodeLoc(p))
        /\ written'[NodeLoc(p)] = written[NodeLoc(p)]
  BY <1>2 DEF Newest
<1>4. g \in g .. Newest(tail) /\ \A p \in g + 1 .. Newest(tail) : p \in g .. Newest(tail)
  OBVIOUS
<1>5. Marks(g)'
  BY <1>1, <1>2, <1>3, <1>4 DEF Marks, Value
<1>6. QED
  BY <1>1, <1>2, <1>5

\* What a thread knows it goes on to know.
LEMMA CLHKnowsKept ==
  ASSUME CLHTypes, NEW u \in Threads, NEW q, CLHKnows(u, q),
         pc'[u] = pc[u], myNode'[u] = myNode[u], myPred'[u] = myPred[u], fenced'[u] = fenced[u],
         \A loc \in CLHLocs : seen'[u][loc] \in Nat /\ seen[u][loc] <= seen'[u][loc],
         pc[u] = "spin" => MarkOf(q - 1) \in Nat /\ MarkOf(q - 1)' = MarkOf(q - 1),
         Inside(u) => Newest(Payload)' = Newest(Payload),
         pc[u] \in {"fence", "swap"} => written'[Locked(myNode[u])] = written[Locked(myNode[u])]
  PROVE  CLHKnows(u, q)'
<1>1. PICK a \in CLHLocs, b \in CLHLocs : a = Locked(myNode[u]) /\ b = Locked(myPred[u])
  BY CLHLocations DEF CLHTypes
<1>2. Payload \in CLHLocs
  BY CLHLocations
<1>3. \A loc \in CLHLocs : seen[u][loc] \in Nat /\ Newest(loc) \in Nat
  BY DEF CLHTypes, MemOK
<1>4. Locked(myNode[u])' = a /\ Locked(myPred[u])' = b
  BY <1>1 DEF Locked
<1>5. pc[u] \in {"fence", "swap"} => Newest(a)' = Newest(a) /\ written'[a] = written[a]
  BY <1>1 DEF Newest
<1>6. pc'[u] = "spin" => seen'[u][b] >= MarkOf(q - 1)'
  BY <1>1, <1>3 DEF CLHKnows
<1>7. Inside(u)' => Inside(u)
  BY DEF Inside
<1>8. Inside(u)' => seen'[u][Payload] >= Newest(Payload)'
  BY <1>2, <1>3, <1>7 DEF CLHKnows
<1>9. pc'[u] \in {"fence", "swap"} => Value(a, Newest(a))' = TRUE
  BY <1>1, <1>5 DEF CLHKnows, Value
<1>10. pc'[u] = "fence" => seen'[u][a] >= Newest(a)'
  BY <1>1, <1>3, <1>5 DEF CLHKnows
<1>11. pc'[u] = "swap" => fenced'[u][a] >= Newest(a)'
  BY <1>1, <1>3, <1>5 DEF CLHKnows
<1>12. QED
  BY <1>4, <1>6, <1>8, <1>9, <1>10, <1>11 DEF CLHKnows

\* The queue's end, and the marks in it.
LEMMA MarkTypes ==
  ASSUME CLHTypes, NEW g \in Nat \ {0}, NodesApart(g), g <= Newest(tail)
  PROVE  /\ Newest(tail) \in Nat
         /\ \A p \in g .. Newest(tail) :
              /\ NodeLoc(p) \in CLHLocs /\ NodeLoc(p) # tail /\ NodeLoc(p) # Payload
              /\ MarkOf(p) \in Nat /\ MarkOf(p) <= Newest(NodeLoc(p))
              /\ Newest(NodeLoc(p)) \in Nat
<1>1. Newest(tail) \in Nat
  BY CLHLocations DEF CLHTypes, MemOK
<1>2. ASSUME NEW p \in g .. Newest(tail)
      PROVE  /\ NodeLoc(p) \in CLHLocs /\ NodeLoc(p) # tail /\ NodeLoc(p) # Payload
             /\ MarkOf(p) \in Nat /\ MarkOf(p) <= Newest(NodeLoc(p))
             /\ Newest(NodeLoc(p)) \in Nat
  <2>1. Appended(p) \in Nodes
    BY DEF NodesApart
  <2>2. NodeLoc(p) \in CLHLocs /\ NodeLoc(p) # tail /\ NodeLoc(p) # Payload
    BY <2>1, CLHLocations DEF NodeLoc
  <2>3. p \in 1 .. Newest(tail) /\ tail \in CLHLocs /\ MemOK(CLHLocs)
    BY <1>1, CLHLocations DEF CLHTypes
  <2>4. written[tail][p].view \in [CLHLocs -> Nat]
    BY <2>3, MessageTypes
  <2>5. QED
    BY <2>2, <2>3, <2>4 DEF MarkOf, MemOK
<1>3. QED
  BY <1>1, <1>2

\* A thread outside the queue, or one that goes on waiting.
LEMMA CLHQuiet ==
  ASSUME CLHTypes, NEW g \in Nat \ {0}, NEW pos \in [Threads -> Nat], CLHAt(g, pos),
         NEW t \in Threads, NEW there, pc' = [pc EXCEPT ![t] = there],
         \/ (pc[t] \in {"mark", "fence"} /\ there \in {"fence", "swap"})
         \/ (pc[t] = "spin" /\ there \in {"spin", "cs"}),
         there = "cs" => pos[t] = g + 1,
         UNCHANGED <<myNode, myPred>>, \A u \in Threads \ {t} : fenced'[u] = fenced[u],
         Learns(CLHLocs, t),
         written'[tail] = written[tail], written'[Payload] = written[Payload],
         \A p \in g .. Newest(tail) : written'[NodeLoc(p)] = written[NodeLoc(p)],
         \A u \in Threads \ {t} :
           pc[u] \in {"fence", "swap"} => written'[Locked(myNode[u])] = written[Locked(myNode[u])],
         CLHKnows(t, pos[t])'
  PROVE  CLHAt(g, pos)'
<1>1. /\ NodesApart(g) /\ Placed(g, pos) /\ Marks(g) /\ Sections(g) /\ g <= Newest(tail)
      /\ \A u \in Threads : CLHKnows(u, pos[u])
  BY DEF CLHAt
<1>2. Newest(tail) \in Nat
  BY <1>1, MarkTypes
<1>3. /\ Marks(g)' /\ Newest(tail)' = Newest(tail)
      /\ \A p : Appended(p)' = Appended(p) /\ MarkOf(p)' = MarkOf(p)
  BY <1>1, <1>2, MarksKept
<1>4. /\ pc'[t] = there /\ \A u \in Threads \ {t} : pc'[u] = pc[u]
      /\ there # "unlock" /\ pc[t] # "unlock"
  BY DEF CLHTypes
<1>5. /\ \A u \in Threads : CLHQueued(u)' = CLHQueued(u)
      /\ \A u \in Threads : Inside(u)' => (Inside(u) \/ (u = t /\ there = "cs"))
  BY <1>4 DEF CLHQueued, Inside
<1>6. NodesApart(g)'
  BY <1>1, <1>3, <1>5 DEF NodesApart
<1>7. Placed(g, pos)'
  BY <1>1, <1>3, <1>5 DEF Placed
<1>8. Newest(Payload)' = Newest(Payload)
  BY DEF Newest
<1>9. Sections(g)'
  <2>1. \A u \in Threads : pc'[u] = "unlock" <=> pc[u] = "unlock"
    BY <1>4
  <2>2. QED
    BY <1>1, <1>8, <2>1 DEF Sections
<1>10. ASSUME NEW u \in Threads PROVE CLHKnows(u, pos[u])'
  <2>1. CASE u = t
    BY <2>1
  <2>2. CASE u # t
    <3>1. PICK q \in Nat : q = pos[u]
      OBVIOUS
    <3>2. \A loc \in CLHLocs : seen[u][loc] \in Nat /\ seen'[u][loc] = seen[u][loc]
      BY <2>2 DEF Learns, CLHTypes, MemOK
    <3>3. \A loc \in CLHLocs : seen'[u][loc] \in Nat /\ seen[u][loc] <= seen'[u][loc]
      BY <3>2
    <3>4. pc[u] = "spin" => MarkOf(q - 1) \in Nat /\ MarkOf(q - 1)' = MarkOf(q - 1)
      <4>1. pc[u] = "spin" => q - 1 \in g .. Newest(tail)
        BY <1>1, <1>2, <3>1 DEF Placed, CLHQueued
      <4>2. QED
        BY <1>1, <1>3, <4>1, MarkTypes
    <3>5. CLHKnows(u, q)
      BY <1>1, <3>1
    <3>6. /\ pc'[u] = pc[u] /\ myNode'[u] = myNode[u] /\ myPred'[u] = myPred[u]
          /\ fenced'[u] = fenced[u]
          /\ Inside(u) => Newest(Payload)' = Newest(Payload)
          /\ pc[u] \in {"fence", "swap"} => written'[Locked(myNode[u])] = written[Locked(myNode[u])]
      BY <1>4, <1>8, <2>2
    <3>7. CLHKnows(u, q)'
      BY <3>3, <3>4, <3>5, <3>6, CLHKnowsKept
    <3>8. QED
      BY <3>1, <3>7
  <2>3. QED
    BY <2>1, <2>2
<1>11. g <= Newest(tail)'
  BY <1>1, <1>3
<1>12. QED
  BY <1>3, <1>6, <1>7, <1>9, <1>10, <1>11 DEF CLHAt

\* The types of what a step does not touch.
LEMMA CLHTypesKept ==
  ASSUME CLHTypes, MemOK(CLHLocs)', NEW t \in Threads,
         NEW there \in CLHLabels \cup {"cs", "unlock", "done"}, pc' = [pc EXCEPT ![t] = there],
         myNode' \in [Threads -> Nodes], myPred' \in [Threads -> Nodes], fenced' = fenced,
         \A l \in CLHLocs : Newest(l) <= Newest(l)'
  PROVE  CLHTypes'
<1>1. \A l \in CLHLocs : Newest(l) \in Nat /\ Newest(l)' \in Nat
  BY DEF CLHTypes, MemOK
<1>2. \A u \in Threads : \A l \in CLHLocs : fenced'[u][l] <= Newest(l)'
  BY <1>1 DEF CLHTypes
<1>3. QED
  BY <1>2 DEF CLHTypes

LEMMA MarkKeeps == ASSUME CLHIInv, NEW t \in Threads, Mark(t) PROVE CLHIInv'
<1>1. PICK g \in Nat \ {0}, pos \in [Threads -> Nat] : CLHAt(g, pos)
  BY DEF CLHIInv
<1>2. PICK l : l = Locked(myNode[t])
  OBVIOUS
<1>3. /\ pc[t] = "mark" /\ pc' = [pc EXCEPT ![t] = "fence"]
      /\ Store(t, l, TRUE, "relaxed") /\ UNCHANGED <<myNode, myPred, fenced>>
  BY <1>2 DEF Mark, Within, Goto, nodeVars
<1>4. CLHTypes /\ MemOK(CLHLocs) /\ l \in CLHLocs /\ l # tail /\ l # Payload /\ TRUE \in Values
  BY <1>2, CLHLocations, ValuesIn DEF CLHIInv, CLHTypes
<1>5. PICK view \in [CLHLocs -> Nat] :
        /\ MemOK(CLHLocs)' /\ Learns(CLHLocs, t)
        /\ seen'[t][l] = Newest(l) + 1
        /\ Added(CLHLocs, l, TRUE, view)
  <2>1. MemOK(CLHLocs) /\ l \in CLHLocs /\ TRUE \in Values /\ Store(t, l, TRUE, "relaxed")
    BY <1>3, <1>4
  <2>2. QED
    BY <2>1, StoreEffect
<1>6. /\ Newest(l)' = Newest(l) + 1 /\ written'[l][Newest(l) + 1].value = TRUE
      /\ \A loc \in CLHLocs \ {l} : written'[loc] = written[loc] /\ Newest(loc)' = Newest(loc)
  BY <1>5 DEF Added
<1>7. NodesApart(g) /\ g <= Newest(tail) /\ Newest(tail) \in Nat
      /\ \A p \in g .. Newest(tail) : Appended(p) \in Nodes /\ NodeLoc(p) \in CLHLocs
  BY <1>1, <1>4, MarkTypes DEF CLHAt, NodesApart
<1>8. \A p \in g .. Newest(tail) : NodeLoc(p) # l
  <2>1. ~CLHQueued(t) /\ myNode[t] \in Nodes
    BY <1>3, <1>4 DEF CLHQueued, CLHTypes
  <2>2. \A p \in g .. Newest(tail) : Appended(p) # myNode[t]
    BY <1>7, <2>1 DEF NodesApart
  <2>3. QED
    BY <1>2, <1>7, <2>1, <2>2, CLHLocations DEF NodeLoc
<1>9. \A p \in g .. Newest(tail) : written'[NodeLoc(p)] = written[NodeLoc(p)]
  BY <1>6, <1>7, <1>8
<1>10. ASSUME NEW u \in Threads \ {t}, pc[u] \in {"fence", "swap"}
       PROVE  written'[Locked(myNode[u])] = written[Locked(myNode[u])]
  <2>1. ~CLHQueued(t) /\ ~CLHQueued(u) /\ myNode[t] \in Nodes /\ myNode[u] \in Nodes
    BY <1>3, <1>4, <1>10 DEF CLHQueued, CLHTypes
  <2>2. myNode[u] # myNode[t]
    BY <1>7, <2>1 DEF NodesApart
  <2>3. Locked(myNode[u]) # l /\ Locked(myNode[u]) \in CLHLocs
    BY <1>2, <2>1, <2>2, CLHLocations
  <2>4. QED
    BY <1>6, <2>3
<1>11. pc'[t] = "fence"
  BY <1>3, <1>4 DEF CLHTypes
<1>12. Locked(myNode[t])' = l
  BY <1>2, <1>3 DEF Locked
<1>13. CLHKnows(t, pos[t])'
  <2>1. Value(l, Newest(l))' = TRUE
    BY <1>6 DEF Value
  <2>2. seen'[t][l] >= Newest(l)'
    BY <1>4, <1>5, <1>6 DEF MemOK
  <2>3. QED
    BY <1>11, <1>12, <2>1, <2>2 DEF CLHKnows, Inside
<1>14. written'[tail] = written[tail] /\ written'[Payload] = written[Payload]
  BY <1>4, <1>6, CLHLocations
<1>15. CLHAt(g, pos)'
  <2>1. UNCHANGED <<myNode, myPred>> /\ \A u \in Threads \ {t} : fenced'[u] = fenced[u]
    BY <1>3
  <2>2. PICK there : there = "fence"
    OBVIOUS
  <2>3. pc[t] \in {"mark", "fence"} /\ there \in {"fence", "swap"} /\ there # "cs"
        /\ pc' = [pc EXCEPT ![t] = there]
    BY <1>3, <2>2
  <2>4. QED
    BY <1>1, <1>4, <1>5, <1>9, <1>10, <1>13, <1>14, <2>1, <2>3, CLHQuiet
<1>16. CLHTypes'
  <2>1. \A loc \in CLHLocs : Newest(loc) <= Newest(loc)'
    <3> SUFFICES ASSUME NEW loc \in CLHLocs PROVE Newest(loc) <= Newest(loc)'
      OBVIOUS
    <3>1. Newest(loc) \in Nat
      BY <1>4 DEF MemOK
    <3>2. CASE loc = l
      BY <1>6, <3>1, <3>2 DEF Newest
    <3>3. CASE loc # l
      BY <1>6, <3>1, <3>3 DEF Newest
    <3>4. QED
      BY <3>2, <3>3
  <2>2. "fence" \in CLHLabels
    BY DEF CLHLabels
  <2>3. myNode' \in [Threads -> Nodes] /\ myPred' \in [Threads -> Nodes] /\ fenced' = fenced
    BY <1>3, <1>4 DEF CLHTypes
  <2>4. QED
    BY <1>3, <1>4, <1>5, <2>1, <2>2, <2>3, CLHTypesKept
<1>17. QED
  BY <1>15, <1>16 DEF CLHIInv

LEMMA FenceKeeps == ASSUME CLHIInv, NEW t \in Threads, Fence(t) PROVE CLHIInv'
<1>1. PICK g \in Nat \ {0}, pos \in [Threads -> Nat] : CLHAt(g, pos)
  BY DEF CLHIInv
<1>2. PICK l : l = Locked(myNode[t])
  OBVIOUS
<1>3. PICK view : view = [Nothing EXCEPT ![l] = seen[t][l]]
  OBVIOUS
<1>4. /\ pc[t] = "fence" /\ pc' = [pc EXCEPT ![t] = "swap"]
      /\ fenced' = [fenced EXCEPT ![t] = view]
      /\ UNCHANGED <<written, seen, myNode, myPred>>
  BY <1>2, <1>3 DEF Fence, Within, Goto, memoryVars
<1>5. CLHTypes /\ MemOK(CLHLocs) /\ l \in CLHLocs
  BY <1>2, CLHLocations DEF CLHIInv, CLHTypes
<1>6. /\ seen[t][l] \in Nat /\ seen[t][l] <= Newest(l) /\ Newest(l) \in Nat
      /\ \A loc \in CLHLocs : Newest(loc) \in Nat /\ Newest(loc)' = Newest(loc)
  BY <1>4, <1>5 DEF MemOK, Newest
<1>7. Nothing \in [CLHLocs -> Nat] /\ \A loc \in CLHLocs : Nothing[loc] = 0
  BY <1>5, NothingTypes
<1>8. /\ view \in [CLHLocs -> Nat] /\ view[l] = seen[t][l]
      /\ \A loc \in CLHLocs : view[loc] <= Newest(loc)
  BY <1>3, <1>5, <1>6, <1>7
<1>9. /\ fenced' \in [Threads -> [CLHLocs -> Nat]] /\ fenced'[t] = view
      /\ \A u \in Threads \ {t} : fenced'[u] = fenced[u]
  BY <1>4, <1>5, <1>8 DEF CLHTypes
<1>10. CLHTypes'
  <2>1. MemOK(CLHLocs)'
    BY <1>4, <1>5, <1>6 DEF MemOK, Newest
  <2>2. \A u \in Threads : \A loc \in CLHLocs : fenced'[u][loc] <= Newest(loc)'
    BY <1>5, <1>6, <1>8, <1>9 DEF CLHTypes
  <2>3. pc' \in [Threads -> CLHLabels \cup {"cs", "unlock", "done"}]
    BY <1>4, <1>5 DEF CLHTypes, CLHLabels
  <2>4. QED
    BY <1>4, <1>5, <1>9, <2>1, <2>2, <2>3 DEF CLHTypes
<1>11. CLHKnows(t, pos[t])'
  <2>1. Value(l, Newest(l)) = TRUE /\ seen[t][l] >= Newest(l)
    BY <1>1, <1>2, <1>4 DEF CLHAt, CLHKnows
  <2>2. Value(l, Newest(l))' = TRUE /\ Newest(l)' = Newest(l)
    BY <1>4, <2>1 DEF Value, Newest
  <2>3. pc'[t] = "swap" /\ Locked(myNode[t])' = l
    BY <1>2, <1>4, <1>5 DEF CLHTypes, Locked
  <2>4. fenced'[t][l] >= Newest(l)'
    BY <1>6, <1>8, <1>9, <2>1, <2>2
  <2>5. QED
    BY <2>2, <2>3, <2>4 DEF CLHKnows, Inside
<1>12. CLHAt(g, pos)'
  <2>1. Learns(CLHLocs, t)
    BY <1>4, <1>5 DEF Learns, MemOK
  <2>2. PICK there : there = "swap"
    OBVIOUS
  <2>3. pc[t] \in {"mark", "fence"} /\ there \in {"fence", "swap"} /\ there # "cs"
        /\ pc' = [pc EXCEPT ![t] = there]
    BY <1>4, <2>2
  <2>4. /\ UNCHANGED <<myNode, myPred>> /\ \A u \in Threads \ {t} : fenced'[u] = fenced[u]
        /\ written'[tail] = written[tail] /\ written'[Payload] = written[Payload]
        /\ \A p \in g .. Newest(tail) : written'[NodeLoc(p)] = written[NodeLoc(p)]
        /\ \A u \in Threads \ {t} :
             pc[u] \in {"fence", "swap"} => written'[Locked(myNode[u])] = written[Locked(myNode[u])]
    BY <1>4, <1>9
  <2>5. QED
    BY <1>1, <1>5, <1>11, <2>1, <2>3, <2>4, CLHQuiet
<1>13. QED
  BY <1>10, <1>12 DEF CLHIInv

\* The thread that waits for the node that is released is let in, and nobody else.
LEMMA SpinOnNodeKeeps == ASSUME CLHIInv, NEW t \in Threads, SpinOnNode(t) PROVE CLHIInv'
<1>1. PICK g \in Nat \ {0}, pos \in [Threads -> Nat] : CLHAt(g, pos)
  BY DEF CLHIInv
<1>2. PICK l : l = Locked(myPred[t])
  OBVIOUS
<1>3. PICK n \in Visible(t, l) :
        /\ Load(t, l, n, "acquire")
        /\ Within(t, "spin", IF written[l][n].value THEN "spin" ELSE "cs")
  BY <1>2 DEF SpinOnNode
<1>4. PICK there : there = IF written[l][n].value THEN "spin" ELSE "cs"
  OBVIOUS
<1>5. /\ pc[t] = "spin" /\ pc' = [pc EXCEPT ![t] = there] /\ there \in {"spin", "cs"}
      /\ UNCHANGED <<myNode, myPred, fenced>>
  BY <1>3, <1>4 DEF Within, Goto, SpinOnNode, nodeVars
<1>6. CLHTypes /\ MemOK(CLHLocs) /\ l \in CLHLocs
  BY <1>2, CLHLocations DEF CLHIInv, CLHTypes
<1>7. /\ MemOK(CLHLocs)' /\ written' = written /\ Learns(CLHLocs, t)
      /\ n \in seen[t][l] .. Newest(l)
      /\ \A loc \in CLHLocs : written[l][n].view[loc] <= seen'[t][loc]
  BY <1>3, <1>6, LoadEffect DEF Acquires
<1>8. PICK q \in Nat : q = pos[t]
  OBVIOUS
<1>9. /\ NodesApart(g) /\ Placed(g, pos) /\ Marks(g) /\ Sections(g) /\ g <= Newest(tail)
      /\ CLHKnows(t, q)
  BY <1>1, <1>8 DEF CLHAt
<1>10. /\ Newest(tail) \in Nat
       /\ \A p \in g .. Newest(tail) :
              /\ NodeLoc(p) \in CLHLocs
              /\ MarkOf(p) \in Nat /\ MarkOf(p) <= Newest(NodeLoc(p))
              /\ Newest(NodeLoc(p)) \in Nat
  BY <1>6, <1>9, MarkTypes
<1>11. q \in g + 1 .. Newest(tail) /\ NodeLoc(q - 1) = l /\ q - 1 \in g .. Newest(tail)
  BY <1>2, <1>5, <1>8, <1>9, <1>10 DEF Placed, CLHQueued, NodeLoc
<1>12. n \in Nat /\ n >= 1 /\ n >= MarkOf(q - 1) /\ n <= Newest(l) /\ Newest(l) \in Nat
  <2>1. seen[t][l] \in Nat /\ seen[t][l] >= 1 /\ Newest(l) \in Nat
    BY <1>6 DEF MemOK
  <2>2. seen[t][l] >= MarkOf(q - 1) /\ MarkOf(q - 1) \in Nat
    BY <1>2, <1>5, <1>9, <1>10, <1>11 DEF CLHKnows
  <2>3. QED
    BY <1>7, <2>1, <2>2
<1>13. PICK mark \in Nat : mark = MarkOf(q - 1)
  BY <1>10, <1>11
<1>14. ASSUME there = "cs" PROVE q = g + 1 /\ seen'[t][Payload] >= Newest(Payload)'
  <2>1. Value(l, n) # TRUE
    BY <1>4, <1>14 DEF Value
  <2>2. q = g + 1
    <3>1. CASE q - 1 \in g + 1 .. Newest(tail)
      <4>1. mark = Newest(l) /\ Value(l, Newest(l)) = TRUE
        BY <1>9, <1>11, <1>13, <3>1 DEF Marks
      <4>2. n = Newest(l)
        BY <1>12, <1>13, <4>1
      <4>3. QED
        BY <2>1, <4>1, <4>2
    <3>2. QED
      BY <1>10, <1>11, <3>1
  <2>3. NodeLoc(g) = l /\ mark = MarkOf(g)
    BY <1>11, <1>13, <2>2
  <2>4. mark + 1 = Newest(l) /\ (mark >= 1 => Value(l, mark) = TRUE)
    BY <1>9, <2>3 DEF Marks
  <2>5. n = Newest(l)
    <3>1. n # mark
      BY <1>12, <2>1, <2>4
    <3>2. QED
      BY <1>12, <1>13, <2>4, <3>1
  <2>6. PICK known \in Nat : known = seen'[t][Payload]
    BY <1>7, CLHLocations DEF Learns
  <2>7. known >= g
    <3>1. CASE g > 1
      <4>1. written[l][n].view[Payload] >= g
        BY <1>9, <2>3, <2>5, <3>1 DEF Marks
      <4>2. written[l][n].view[Payload] <= known
        BY <1>7, <2>6, CLHLocations
      <4>3. written[l][n].view \in [CLHLocs -> Nat]
        <5>1. n \in 1 .. Newest(l)
          BY <1>12
        <5>2. QED
          BY <1>6, <5>1, MessageTypes
      <4>4. PICK v \in Nat : v = written[l][n].view[Payload]
        BY <4>3, CLHLocations
      <4>5. QED
        BY <4>1, <4>2, <4>4
    <3>2. CASE ~(g > 1)
      <4>1. seen[t][Payload] \in Nat /\ seen[t][Payload] >= 1 /\ seen[t][Payload] <= known
        BY <1>6, <1>7, <2>6, CLHLocations DEF MemOK, Learns
      <4>2. QED
        BY <3>2, <4>1
    <3>3. QED
      BY <3>1, <3>2
  <2>8. Newest(Payload) = g
    <3>1. \A u \in Threads : pc[u] # "unlock"
      <4> SUFFICES ASSUME NEW u \in Threads, pc[u] = "unlock" PROVE FALSE
        OBVIOUS
      <4>1. CLHQueued(u) /\ Inside(u) /\ CLHQueued(t)
        BY <1>5 DEF CLHQueued, Inside
      <4>2. pos[u] = g + 1
        BY <1>9, <4>1 DEF Placed
      <4>3. u = t
        BY <1>8, <1>9, <2>2, <4>1, <4>2 DEF Placed
      <4>4. QED
        BY <1>5, <4>3
    <3>2. QED
      BY <1>9, <3>1 DEF Sections
  <2>9. Newest(Payload)' = g
    BY <1>7, <2>8 DEF Newest
  <2>10. QED
    BY <2>2, <2>6, <2>7, <2>9
<1>15. pc'[t] = there
  BY <1>5, <1>6 DEF CLHTypes
<1>16. CLHKnows(t, q)'
  <2>1. CASE there = "cs"
    BY <1>14, <1>15, <2>1 DEF CLHKnows
  <2>2. CASE there = "spin"
    <3>1. seen[t][l] \in Nat /\ seen'[t][l] \in Nat /\ seen[t][l] <= seen'[t][l] /\ seen[t][l] >= mark
      BY <1>2, <1>5, <1>6, <1>7, <1>9, <1>13 DEF MemOK, Learns, CLHKnows
    <3>2. MarkOf(q - 1)' = mark
      BY <1>7, <1>13 DEF MarkOf, NodeLoc, Appended
    <3>3. Locked(myPred[t])' = l
      BY <1>2, <1>5 DEF Locked
    <3>4. QED
      BY <1>15, <2>2, <3>1, <3>2, <3>3 DEF CLHKnows, Inside
  <2>3. QED
    BY <1>5, <2>1, <2>2
<1>17. CLHAt(g, pos)'
  <2>1. CLHKnows(t, pos[t])'
    BY <1>8, <1>16
  <2>2. there = "cs" => pos[t] = g + 1
    BY <1>8, <1>14
  <2>3. /\ UNCHANGED <<myNode, myPred>> /\ \A u \in Threads \ {t} : fenced'[u] = fenced[u]
        /\ written'[tail] = written[tail] /\ written'[Payload] = written[Payload]
        /\ \A p \in g .. Newest(tail) : written'[NodeLoc(p)] = written[NodeLoc(p)]
        /\ \A u \in Threads \ {t} :
             pc[u] \in {"fence", "swap"} => written'[Locked(myNode[u])] = written[Locked(myNode[u])]
    BY <1>5, <1>7
  <2>4. QED
    BY <1>1, <1>5, <1>6, <1>7, <2>1, <2>2, <2>3, CLHQuiet
<1>18. CLHTypes'
  <2>1. there \in CLHLabels \cup {"cs", "unlock", "done"}
    BY <1>5 DEF CLHLabels
  <2>2. \A loc \in CLHLocs : Newest(loc) <= Newest(loc)'
    BY <1>6, <1>7 DEF Newest, MemOK
  <2>3. QED
    BY <1>5, <1>6, <1>7, <2>1, <2>2, CLHTypesKept DEF CLHTypes
<1>19. QED
  BY <1>17, <1>18 DEF CLHIInv

\* The appended node is marked, and its message says so to whom reads it.
LEMMA SwapTailKeeps == ASSUME CLHIInv, NEW t \in Threads, SwapTail(t) PROVE CLHIInv'
<1>1. PICK g \in Nat \ {0}, pos \in [Threads -> Nat] : CLHAt(g, pos)
  BY DEF CLHIInv
<1>2. CLHTypes /\ MemOK(CLHLocs)
  BY DEF CLHIInv, CLHTypes
<1>3. /\ NodesApart(g) /\ Placed(g, pos) /\ Marks(g) /\ Sections(g) /\ g <= Newest(tail)
      /\ \A u \in Threads : CLHKnows(u, pos[u])
  BY <1>1 DEF CLHAt
<1>4. /\ Newest(tail) \in Nat
      /\ \A p \in g .. Newest(tail) :
              /\ NodeLoc(p) \in CLHLocs /\ NodeLoc(p) # tail /\ NodeLoc(p) # Payload
              /\ MarkOf(p) \in Nat /\ MarkOf(p) <= Newest(NodeLoc(p))
              /\ Newest(NodeLoc(p)) \in Nat
  BY <1>2, <1>3, MarkTypes
<1>5. PICK n \in Nat : n = Newest(tail)
  BY <1>4
<1>6. g <= n /\ n \in g .. n /\ n >= 1
  BY <1>3, <1>5
<1>7. PICK pred \in Nodes, l \in CLHLocs : pred = Appended(n) /\ l = NodeLoc(n) /\ l = Locked(pred)
                                            /\ l # tail /\ l # Payload
  BY <1>3, <1>4, <1>5, <1>6 DEF NodesApart, NodeLoc
<1>8. PICK mine \in Nodes, own \in CLHLocs : mine = myNode[t] /\ own = Locked(mine) /\ own # tail
  BY <1>2, CLHLocations DEF CLHTypes
<1>9. PICK mark \in Nat : mark = MarkOf(n) /\ mark <= Newest(l)
  BY <1>4, <1>5, <1>6, <1>7
<1>10. PICK view : view = [fenced[t] EXCEPT ![tail] = n + 1]
  OBVIOUS
<1>11. PICK s \in [CLHLocs -> Nat] : s = seen[t]
  BY <1>2 DEF MemOK
<1>12. PICK known : known = [s EXCEPT ![tail] = n + 1, ![l] = IF mark > @ THEN mark ELSE @]
  OBVIOUS
<1>13. /\ pc[t] = "swap" /\ pc' = [pc EXCEPT ![t] = "spin"]
       /\ myPred' = [myPred EXCEPT ![t] = pred]
       /\ Appends(tail, mine, view) /\ Sees(t, known)
       /\ UNCHANGED <<myNode, fenced>>
  <2>1. Last(tail) = pred /\ written[tail][n].view[l] = mark
    BY <1>5, <1>7, <1>9 DEF Last, Appended, MarkOf
  <2>2. seen' = [seen EXCEPT ![t] = known]
    <3>1. seen' = [seen EXCEPT ![t][tail] = n + 1, ![t][l] = IF mark > @ THEN mark ELSE @]
      BY <1>5, <1>7, <2>1 DEF SwapTail
    <3>2. seen \in [Threads -> [CLHLocs -> Nat]] /\ tail \in CLHLocs /\ tail # l
      BY <1>2, <1>7, CLHLocations DEF MemOK
    <3>3. QED
      BY <1>11, <1>12, <3>1, <3>2
  <2>3. QED
    BY <1>5, <1>8, <1>10, <2>1, <2>2 DEF SwapTail, Within, Goto, Appends, Sees
<1>14. /\ tail \in CLHLocs /\ Payload \in CLHLocs
       /\ \A loc \in CLHLocs : Newest(loc) \in Nat /\ s[loc] <= Newest(loc)
       /\ fenced[t] \in [CLHLocs -> Nat] /\ \A loc \in CLHLocs : fenced[t][loc] <= Newest(loc)
  BY <1>2, <1>11, CLHLocations DEF CLHTypes, MemOK
<1>15. /\ view \in [CLHLocs -> Nat] /\ view[tail] = n + 1
       /\ \A loc \in CLHLocs \ {tail} : view[loc] = fenced[t][loc]
  BY <1>10, <1>14
<1>16. /\ known \in [CLHLocs -> Nat] /\ known[tail] = n + 1
       /\ \A loc \in CLHLocs \ {tail} : s[loc] <= known[loc] /\ known[loc] <= Newest(loc)
       /\ mark <= known[l]
  BY <1>7, <1>9, <1>11, <1>12, <1>14
<1>17. /\ MemOK(CLHLocs)' /\ Added(CLHLocs, tail, mine, view) /\ Learns(CLHLocs, t)
       /\ seen'[t] = known
  <2>1. mine \in Values
    BY NodesIn
  <2>2. \A loc \in CLHLocs \ {tail} : view[loc] <= Newest(loc) /\ seen[t][loc] <= known[loc] /\ known[loc] <= Newest(loc)
    BY <1>11, <1>14, <1>15, <1>16
  <2>3. view[tail] <= Newest(tail) + 1 /\ known[tail] = Newest(tail) + 1
    BY <1>5, <1>15, <1>16
  <2>4. QED
    BY <1>2, <1>13, <1>14, <1>15, <1>16, <2>1, <2>2, <2>3, MessageEffect
<1>18. /\ Newest(tail)' = n + 1
       /\ \A p \in 1 .. n : written'[tail][p] = written[tail][p]
       /\ written'[tail][n + 1].value = mine /\ written'[tail][n + 1].view = view
       /\ \A loc \in CLHLocs \ {tail} : written'[loc] = written[loc] /\ Newest(loc)' = Newest(loc)
  BY <1>5, <1>17 DEF Added
<1>19. /\ \A p \in g .. n : /\ Appended(p)' = Appended(p) /\ NodeLoc(p)' = NodeLoc(p)
                            /\ MarkOf(p)' = MarkOf(p) /\ Newest(NodeLoc(p))' = Newest(NodeLoc(p))
                            /\ written'[NodeLoc(p)] = written[NodeLoc(p)]
       /\ Appended(n + 1)' = mine /\ NodeLoc(n + 1)' = own /\ MarkOf(n + 1)' = view[own]
  <2>1. ASSUME NEW p \in g .. n
        PROVE  /\ Appended(p)' = Appended(p) /\ NodeLoc(p)' = NodeLoc(p)
               /\ MarkOf(p)' = MarkOf(p) /\ Newest(NodeLoc(p))' = Newest(NodeLoc(p))
               /\ written'[NodeLoc(p)] = written[NodeLoc(p)]
    <3>1. written'[tail][p] = written[tail][p]
      BY <1>18
    <3>2. Appended(p)' = Appended(p) /\ NodeLoc(p)' = NodeLoc(p) /\ MarkOf(p)' = MarkOf(p)
      BY <3>1 DEF Appended, NodeLoc, MarkOf
    <3>3. NodeLoc(p) \in CLHLocs \ {tail}
      BY <1>4, <1>5
    <3>4. written'[NodeLoc(p)] = written[NodeLoc(p)]
      BY <1>18, <3>3
    <3>5. QED
      BY <3>2, <3>4 DEF Newest
  <2>2. QED
    BY <1>8, <1>18, <2>1 DEF Appended, NodeLoc, MarkOf
<1>20. /\ pc'[t] = "spin" /\ \A u \in Threads \ {t} : pc'[u] = pc[u]
       /\ myPred'[t] = pred /\ \A u \in Threads \ {t} : myPred'[u] = myPred[u]
       /\ ~CLHQueued(t) /\ CLHQueued(t)' /\ ~Inside(t)'
       /\ \A u \in Threads \ {t} : CLHQueued(u)' = CLHQueued(u) /\ Inside(u)' = Inside(u)
  BY <1>2, <1>13 DEF CLHTypes, CLHQueued, Inside
<1>21. PICK pos2 \in [Threads -> Nat] : pos2 = [pos EXCEPT ![t] = n + 1]
  <2>1. n + 1 \in Nat /\ pos \in [Threads -> Nat]
    OBVIOUS
  <2>2. QED
    BY <2>1
<1>22. pos2[t] = n + 1 /\ \A u \in Threads \ {t} : pos2[u] = pos[u]
  BY <1>21
<1>23. \A p \in g .. n + 1 : p \in g .. n \/ p = n + 1
  BY <1>6
<1>24. NodesApart(g)'
  <2>1. \A p \in g .. n : Appended(p) \in Nodes /\ Appended(p) # mine
    BY <1>3, <1>5, <1>8, <1>20 DEF NodesApart
  <2>2. \A p \in g .. n + 1 : Appended(p)' \in Nodes
    BY <1>19, <1>23, <2>1
  <2>3. \A p, q \in g .. n + 1 : Appended(p)' = Appended(q)' => p = q
    <3>1. \A p, q \in g .. n : Appended(p) = Appended(q) => p = q
      BY <1>3, <1>5 DEF NodesApart
    <3>2. QED
      BY <1>19, <1>23, <2>1, <3>1
  <2>4. ASSUME NEW u \in Threads, ~CLHQueued(u)'
        PROVE  ~CLHQueued(u) /\ u # t /\ \A p \in g .. n + 1 : Appended(p)' # myNode'[u]
    <3>1. ~CLHQueued(u) /\ u # t
      BY <1>20, <2>4
    <3>2. myNode[u] # mine /\ myNode'[u] = myNode[u]
      BY <1>3, <1>8, <1>13, <1>20, <3>1 DEF NodesApart
    <3>3. \A p \in g .. n : Appended(p) # myNode[u]
      BY <1>3, <1>5, <3>1 DEF NodesApart
    <3>4. QED
      BY <1>19, <1>23, <3>1, <3>2, <3>3
  <2>5. \A u, v \in Threads : ~CLHQueued(u)' /\ ~CLHQueued(v)' /\ myNode'[u] = myNode'[v] => u = v
    BY <1>3, <1>13, <2>4 DEF NodesApart
  <2>6. QED
    BY <1>18, <2>2, <2>3, <2>4, <2>5 DEF NodesApart
<1>25. Placed(g, pos2)'
  <2>1. ASSUME NEW u \in Threads, CLHQueued(u)'
        PROVE  /\ pos2[u] \in g + 1 .. n + 1
               /\ Appended(pos2[u])' = myNode'[u] /\ Appended(pos2[u] - 1)' = myPred'[u]
               /\ u # t => pos2[u] = pos[u] /\ pos[u] \in g + 1 .. n /\ CLHQueued(u)
    <3>1. CASE u = t
      BY <1>6, <1>7, <1>8, <1>13, <1>19, <1>20, <1>22, <3>1
    <3>2. CASE u # t
      <4>1. PICK q \in Nat : q = pos[u] /\ pos2[u] = q
        BY <1>22, <3>2
      <4>2. CLHQueued(u) /\ q \in g + 1 .. n /\ Appended(q) = myNode[u] /\ Appended(q - 1) = myPred[u]
        BY <1>3, <1>5, <1>20, <2>1, <3>2, <4>1 DEF Placed
      <4>3. q \in g .. n /\ q - 1 \in g .. n /\ q \in g + 1 .. n + 1
        BY <4>2
      <4>4. Appended(q)' = myNode'[u] /\ Appended(q - 1)' = myPred'[u]
        BY <1>13, <1>19, <1>20, <3>2, <4>2, <4>3
      <4>5. QED
        BY <4>1, <4>2, <4>3, <4>4
    <3>3. QED
      BY <3>1, <3>2
  <2>2. \A u, v \in Threads : CLHQueued(u)' /\ CLHQueued(v)' /\ pos2[u] = pos2[v] => u = v
    BY <1>3, <1>22, <2>1 DEF Placed
  <2>3. \A u \in Threads : Inside(u)' => pos2[u] = g + 1
    BY <1>3, <1>20, <1>22 DEF Placed
  <2>4. QED
    BY <1>18, <2>1, <2>2, <2>3 DEF Placed
<1>26. Marks(g)'
  <2>1. /\ view[own] = Newest(own) /\ Value(own, Newest(own)) = TRUE
    <3>1. fenced[t][own] >= Newest(own) /\ Value(own, Newest(own)) = TRUE
      BY <1>3, <1>8, <1>13 DEF CLHKnows
    <3>2. fenced[t][own] \in Nat /\ fenced[t][own] <= Newest(own) /\ Newest(own) \in Nat
      BY <1>8, <1>14
    <3>3. view[own] = fenced[t][own]
      BY <1>8, <1>15
    <3>4. QED
      BY <3>1, <3>2, <3>3
  <2>2. written'[own] = written[own] /\ Newest(own)' = Newest(own)
    BY <1>8, <1>18
  <2>3. ASSUME NEW p \in g + 1 .. n + 1
        PROVE  /\ MarkOf(p)' = Newest(NodeLoc(p))'
               /\ Value(NodeLoc(p), Newest(NodeLoc(p)))' = TRUE
    <3>1. CASE p = n + 1
      <4>1. NodeLoc(p)' = own /\ MarkOf(p)' = Newest(own)
        BY <1>19, <2>1, <3>1
      <4>2. QED
        BY <2>1, <2>2, <4>1 DEF Value, Newest
    <3>2. CASE p # n + 1
      <4>1. p \in g + 1 .. n /\ p \in g .. n
        BY <1>6, <3>2
      <4>2. MarkOf(p) = Newest(NodeLoc(p)) /\ Value(NodeLoc(p), Newest(NodeLoc(p))) = TRUE
        BY <1>3, <1>5, <4>1 DEF Marks
      <4>3. QED
        BY <1>19, <4>1, <4>2 DEF Value
    <3>3. QED
      BY <3>1, <3>2
  <2>4. /\ MarkOf(g)' + 1 = Newest(NodeLoc(g))'
        /\ MarkOf(g)' >= 1 => Value(NodeLoc(g), MarkOf(g))' = TRUE
        /\ Value(NodeLoc(g), Newest(NodeLoc(g)))' = FALSE
        /\ g > 1 => written'[NodeLoc(g)'][Newest(NodeLoc(g))'].view[Payload] >= g
    <3>1. g \in g .. n
      BY <1>6
    <3>2. /\ NodeLoc(g)' = NodeLoc(g) /\ MarkOf(g)' = MarkOf(g) /\ Newest(NodeLoc(g))' = Newest(NodeLoc(g))
          /\ written'[NodeLoc(g)] = written[NodeLoc(g)]
      BY <1>19, <3>1
    <3>3. QED
      BY <1>3, <3>2 DEF Marks, Value
  <2>5. QED
    BY <1>18, <2>3, <2>4 DEF Marks
<1>27. Sections(g)'
  <2>1. Newest(Payload)' = Newest(Payload)
    BY <1>14, <1>18, CLHLocations
  <2>2. \A u \in Threads : pc'[u] = "unlock" <=> pc[u] = "unlock"
    BY <1>13, <1>20
  <2>3. QED
    BY <1>3, <2>1, <2>2 DEF Sections
<1>28. ASSUME NEW u \in Threads PROVE CLHKnows(u, pos2[u])'
  <2>1. CASE u = t
    <3>1. seen'[t][l] >= mark
      BY <1>16, <1>17
    <3>2. MarkOf(n)' = mark /\ Locked(myPred[t])' = l
      BY <1>6, <1>7, <1>9, <1>19, <1>20 DEF Locked
    <3>3. CLHKnows(t, n + 1)'
      <4>1. n + 1 - 1 = n
        OBVIOUS
      <4>2. QED
        BY <1>20, <3>1, <3>2, <4>1 DEF CLHKnows
    <3>4. QED
      BY <1>22, <2>1, <3>3
  <2>2. CASE u # t
    <3>1. PICK q \in Nat : q = pos[u] /\ pos2[u] = q
      BY <1>22, <2>2
    <3>2. \A loc \in CLHLocs : seen[u][loc] \in Nat /\ seen'[u][loc] = seen[u][loc]
      BY <1>2, <1>17, <2>2 DEF Learns, MemOK
    <3>3. \A loc \in CLHLocs : seen'[u][loc] \in Nat /\ seen[u][loc] <= seen'[u][loc]
      BY <3>2
    <3>4. pc[u] = "spin" => MarkOf(q - 1) \in Nat /\ MarkOf(q - 1)' = MarkOf(q - 1)
      <4>1. pc[u] = "spin" => q - 1 \in g .. n
        BY <1>3, <1>5, <3>1 DEF Placed, CLHQueued
      <4>2. QED
        BY <1>4, <1>5, <1>19, <4>1
    <3>5. CLHKnows(u, q)
      BY <1>3, <3>1
    <3>6. Newest(Payload)' = Newest(Payload)
      BY <1>14, <1>18, CLHLocations
    <3>7. pc[u] \in {"fence", "swap"} => written'[Locked(myNode[u])] = written[Locked(myNode[u])]
      <4>1. Locked(myNode[u]) \in CLHLocs \ {tail}
        BY <1>2, CLHLocations DEF CLHTypes
      <4>2. QED
        BY <1>18, <4>1
    <3>8. /\ pc'[u] = pc[u] /\ myNode'[u] = myNode[u] /\ myPred'[u] = myPred[u]
          /\ fenced'[u] = fenced[u]
      BY <1>13, <1>20, <2>2
    <3>9. CLHKnows(u, q)'
      BY <1>2, <3>3, <3>4, <3>5, <3>6, <3>7, <3>8, CLHKnowsKept
    <3>10. QED
      BY <3>1, <3>9
  <2>3. QED
    BY <2>1, <2>2
<1>29. CLHAt(g, pos2)'
  <2>1. g <= Newest(tail)'
    BY <1>6, <1>18
  <2>2. QED
    BY <1>24, <1>25, <1>26, <1>27, <1>28, <2>1 DEF CLHAt
<1>30. CLHTypes'
  <2>1. "spin" \in CLHLabels \cup {"cs", "unlock", "done"}
    BY DEF CLHLabels
  <2>2. \A loc \in CLHLocs : Newest(loc) <= Newest(loc)'
    BY <1>5, <1>14, <1>18
  <2>3. myNode' \in [Threads -> Nodes] /\ myPred' \in [Threads -> Nodes] /\ fenced' = fenced
    BY <1>2, <1>13 DEF CLHTypes
  <2>4. QED
    BY <1>2, <1>13, <1>17, <2>1, <2>2, <2>3, CLHTypesKept
<1>31. QED
  BY <1>29, <1>30 DEF CLHIInv

\* A section is done, and its thread knows of it.
LEMMA WorkWithNodesKeeps == ASSUME CLHIInv, NEW t \in Threads, WorkWithNodes(t) PROVE CLHIInv'
<1>1. PICK g \in Nat \ {0}, pos \in [Threads -> Nat] : CLHAt(g, pos)
  BY DEF CLHIInv
<1>2. CLHTypes /\ MemOK(CLHLocs)
  BY DEF CLHIInv, CLHTypes
<1>3. /\ NodesApart(g) /\ Placed(g, pos) /\ Marks(g) /\ Sections(g) /\ g <= Newest(tail)
      /\ \A u \in Threads : CLHKnows(u, pos[u])
  BY <1>1 DEF CLHAt
<1>4. /\ pc[t] = "cs" /\ pc' = [pc EXCEPT ![t] = "unlock"]
      /\ Store(t, Payload, 0, "relaxed") /\ UNCHANGED <<myNode, myPred, fenced>>
  BY DEF WorkWithNodes, Section, Within, Goto, nodeVars
<1>5. PICK view \in [CLHLocs -> Nat] :
        /\ MemOK(CLHLocs)' /\ Learns(CLHLocs, t)
        /\ seen'[t][Payload] = Newest(Payload) + 1
        /\ Added(CLHLocs, Payload, 0, view)
  <2>1. Payload \in CLHLocs /\ 0 \in Values
    BY CLHLocations, ValuesIn
  <2>2. QED
    BY <1>2, <1>4, <2>1, StoreEffect
<1>6. /\ Newest(Payload)' = Newest(Payload) + 1
      /\ \A loc \in CLHLocs \ {Payload} : written'[loc] = written[loc] /\ Newest(loc)' = Newest(loc)
  BY <1>5 DEF Added
<1>7. /\ Newest(tail) \in Nat
      /\ \A p \in g .. Newest(tail) :
              /\ NodeLoc(p) \in CLHLocs /\ NodeLoc(p) # tail /\ NodeLoc(p) # Payload
              /\ MarkOf(p) \in Nat /\ MarkOf(p) <= Newest(NodeLoc(p))
              /\ Newest(NodeLoc(p)) \in Nat
  BY <1>2, <1>3, MarkTypes
<1>8. /\ written'[tail] = written[tail]
      /\ \A p \in g .. Newest(tail) : written'[NodeLoc(p)] = written[NodeLoc(p)]
  BY <1>6, <1>7, CLHLocations
<1>9. /\ Marks(g)' /\ Newest(tail)' = Newest(tail)
      /\ \A p : Appended(p)' = Appended(p) /\ MarkOf(p)' = MarkOf(p)
  BY <1>3, <1>7, <1>8, MarksKept
<1>10. /\ pc'[t] = "unlock" /\ \A u \in Threads \ {t} : pc'[u] = pc[u]
       /\ \A u \in Threads : CLHQueued(u)' = CLHQueued(u) /\ Inside(u)' = Inside(u)
  BY <1>2, <1>4 DEF CLHTypes, CLHQueued, Inside
<1>11. NodesApart(g)'
  BY <1>3, <1>4, <1>9, <1>10 DEF NodesApart
<1>12. Placed(g, pos)'
  BY <1>3, <1>4, <1>9, <1>10 DEF Placed
<1>13. \A u \in Threads \ {t} : ~Inside(u)
  BY <1>3, <1>4 DEF Placed, Inside, CLHQueued
<1>14. Sections(g)'
  <2>1. \A u \in Threads : pc[u] # "unlock"
    BY <1>4, <1>13 DEF Inside
  <2>2. Newest(Payload) = g
    BY <1>3, <2>1 DEF Sections
  <2>3. QED
    BY <1>6, <1>10, <2>2 DEF Sections
<1>15. ASSUME NEW u \in Threads PROVE CLHKnows(u, pos[u])'
  <2>1. CASE u = t
    <3>1. seen'[t][Payload] >= Newest(Payload)'
      BY <1>2, <1>5, <1>6, CLHLocations DEF MemOK
    <3>2. QED
      BY <1>10, <2>1, <3>1 DEF CLHKnows
  <2>2. CASE u # t
    <3>1. PICK q \in Nat : q = pos[u]
      OBVIOUS
    <3>2. \A loc \in CLHLocs : seen[u][loc] \in Nat /\ seen'[u][loc] = seen[u][loc]
      BY <1>2, <1>5, <2>2 DEF Learns, MemOK
    <3>3. \A loc \in CLHLocs : seen'[u][loc] \in Nat /\ seen[u][loc] <= seen'[u][loc]
      BY <3>2
    <3>4. pc[u] = "spin" => MarkOf(q - 1) \in Nat /\ MarkOf(q - 1)' = MarkOf(q - 1)
      <4>1. pc[u] = "spin" => q - 1 \in g .. Newest(tail)
        BY <1>3, <1>7, <3>1 DEF Placed, CLHQueued
      <4>2. QED
        BY <1>7, <1>9, <4>1
    <3>5. CLHKnows(u, q)
      BY <1>3, <3>1
    <3>6. ~Inside(u)
      BY <1>13, <2>2
    <3>7. pc[u] \in {"fence", "swap"} => written'[Locked(myNode[u])] = written[Locked(myNode[u])]
      <4>1. Locked(myNode[u]) \in CLHLocs \ {Payload}
        BY <1>2, CLHLocations DEF CLHTypes
      <4>2. QED
        BY <1>6, <4>1
    <3>8. /\ pc'[u] = pc[u] /\ myNode'[u] = myNode[u] /\ myPred'[u] = myPred[u]
          /\ fenced'[u] = fenced[u]
      BY <1>4, <1>10, <2>2
    <3>9. CLHKnows(u, q)'
      BY <1>2, <3>3, <3>4, <3>5, <3>6, <3>7, <3>8, CLHKnowsKept
    <3>10. QED
      BY <3>1, <3>9
  <2>3. QED
    BY <2>1, <2>2
<1>16. CLHAt(g, pos)'
  BY <1>3, <1>9, <1>11, <1>12, <1>14, <1>15 DEF CLHAt
<1>17. CLHTypes'
  <2>1. \A loc \in CLHLocs : Newest(loc) <= Newest(loc)'
    <3> SUFFICES ASSUME NEW loc \in CLHLocs PROVE Newest(loc) <= Newest(loc)'
      OBVIOUS
    <3>1. Newest(loc) \in Nat
      BY <1>2 DEF MemOK
    <3>2. CASE loc = Payload
      BY <1>6, <3>1, <3>2 DEF Newest
    <3>3. CASE loc # Payload
      BY <1>6, <3>1, <3>3 DEF Newest
    <3>4. QED
      BY <3>2, <3>3
  <2>2. myNode' \in [Threads -> Nodes] /\ myPred' \in [Threads -> Nodes] /\ fenced' = fenced
    BY <1>2, <1>4 DEF CLHTypes
  <2>3. QED
    BY <1>2, <1>4, <1>5, <2>1, <2>2, CLHTypesKept
<1>18. QED
  BY <1>16, <1>17 DEF CLHIInv

\* The node of the thread that leaves is the released one; it takes the node that
\* was before, which nobody else uses.
LEMMA CLHUnlockKeeps == ASSUME CLHIInv, NEW t \in Threads, CLHUnlock(t) PROVE CLHIInv'
<1>1. PICK g \in Nat \ {0}, pos \in [Threads -> Nat] : CLHAt(g, pos)
  BY DEF CLHIInv
<1>2. CLHTypes /\ MemOK(CLHLocs)
  BY DEF CLHIInv, CLHTypes
<1>3. /\ NodesApart(g) /\ Placed(g, pos) /\ Marks(g) /\ Sections(g) /\ g <= Newest(tail)
      /\ \A u \in Threads : CLHKnows(u, pos[u])
  BY <1>1 DEF CLHAt
<1>4. PICK h \in Nat \ {0} : h = g + 1
  OBVIOUS
<1>5. PICK mine \in Nodes, l \in CLHLocs : mine = myNode[t] /\ l = Locked(mine) /\ l # tail /\ l # Payload
  BY <1>2, CLHLocations DEF CLHTypes
<1>6. PICK pred \in Nodes : pred = myPred[t]
  BY <1>2 DEF CLHTypes
<1>7. PICK there \in {"mark", "done"} :
        /\ pc[t] = "unlock" /\ pc' = [pc EXCEPT ![t] = there]
        /\ Store(t, l, FALSE, "release")
        /\ myNode' = [myNode EXCEPT ![t] = pred] /\ UNCHANGED <<myPred, fenced>>
  BY <1>5, <1>6 DEF CLHUnlock, EndIteration, Goto
<1>8. PICK view \in [CLHLocs -> Nat] :
        /\ MemOK(CLHLocs)' /\ Learns(CLHLocs, t)
        /\ seen'[t][l] = Newest(l) + 1
        /\ Added(CLHLocs, l, FALSE, view)
        /\ \A loc \in CLHLocs \ {l} : view[loc] = seen[t][loc]
  <2>1. PICK value \in Values : value = FALSE
    BY ValuesIn
  <2>2. Store(t, l, value, "release")
    BY <1>7, <2>1
  <2>3. /\ MemOK(CLHLocs)' /\ Learns(CLHLocs, t)
        /\ seen'[t][l] = Newest(l) + 1 /\ \A loc \in CLHLocs \ {l} : seen'[t][loc] = seen[t][loc]
        /\ \E view \in [CLHLocs -> Nat] :
              /\ Added(CLHLocs, l, value, view)
              /\ view[l] = Newest(l) + 1
              /\ Releases("release") => \A loc \in CLHLocs \ {l} : view[loc] = seen[t][loc]
    BY <1>2, <2>2, StoreEffect
  <2>4. Releases("release")
    BY DEF Releases
  <2>5. QED
    BY <2>1, <2>3, <2>4
<1>9. /\ Newest(l)' = Newest(l) + 1
      /\ \A n \in 1 .. Newest(l) : written'[l][n] = written[l][n]
      /\ written'[l][Newest(l) + 1].value = FALSE /\ written'[l][Newest(l) + 1].view = view
      /\ \A loc \in CLHLocs \ {l} : written'[loc] = written[loc] /\ Newest(loc)' = Newest(loc)
  BY <1>8 DEF Added
<1>10. /\ Newest(tail) \in Nat
       /\ \A p \in g .. Newest(tail) :
              /\ NodeLoc(p) \in CLHLocs /\ NodeLoc(p) # tail /\ NodeLoc(p) # Payload
              /\ MarkOf(p) \in Nat /\ MarkOf(p) <= Newest(NodeLoc(p))
              /\ Newest(NodeLoc(p)) \in Nat
  BY <1>2, <1>3, MarkTypes
<1>11. /\ CLHQueued(t) /\ Inside(t) /\ pos[t] = h /\ h \in g + 1 .. Newest(tail)
       /\ Appended(h) = mine /\ NodeLoc(h) = l /\ Appended(g) = pred
  <2>1. CLHQueued(t) /\ Inside(t)
    BY <1>7 DEF CLHQueued, Inside
  <2>2. pos[t] = h /\ h \in g + 1 .. Newest(tail) /\ Appended(h) = mine /\ Appended(h - 1) = pred
    BY <1>3, <1>4, <1>5, <1>6, <2>1 DEF Placed
  <2>3. h - 1 = g
    BY <1>4
  <2>4. QED
    BY <1>5, <2>1, <2>2, <2>3 DEF NodeLoc
<1>12. /\ written'[tail] = written[tail] /\ Newest(tail)' = Newest(tail)
       /\ \A p : Appended(p)' = Appended(p) /\ NodeLoc(p)' = NodeLoc(p) /\ MarkOf(p)' = MarkOf(p)
  <2>1. written'[tail] = written[tail]
    BY <1>5, <1>9, CLHLocations
  <2>2. QED
    BY <2>1 DEF Newest, Appended, NodeLoc, MarkOf
<1>13. /\ pc'[t] = there /\ \A u \in Threads \ {t} : pc'[u] = pc[u]
       /\ myNode'[t] = pred /\ \A u \in Threads \ {t} : myNode'[u] = myNode[u]
       /\ ~CLHQueued(t)' /\ ~Inside(t)'
       /\ \A u \in Threads \ {t} : CLHQueued(u)' = CLHQueued(u) /\ Inside(u)' = Inside(u)
  BY <1>2, <1>7 DEF CLHTypes, CLHQueued, Inside
<1>14. \A p \in h .. Newest(tail) : p \in g .. Newest(tail) /\ p # g
  BY <1>4, <1>11
<1>15. \A u \in Threads \ {t} : ~Inside(u)
  BY <1>3, <1>4, <1>11 DEF Placed, Inside, CLHQueued
<1>16. g \in g .. Newest(tail) /\ h \in g .. Newest(tail) /\ g # h
  BY <1>3, <1>4, <1>10, <1>11
<1>17. ASSUME NEW u \in Threads \ {t}, ~CLHQueued(u)
       PROVE  myNode[u] # mine /\ myNode[u] # pred /\ \A p \in g .. Newest(tail) : Appended(p) # myNode[u]
  BY <1>3, <1>11, <1>16, <1>17 DEF NodesApart
<1>18. NodesApart(h)'
  <2>1. \A p \in h .. Newest(tail) : Appended(p) \in Nodes
    BY <1>3, <1>14 DEF NodesApart
  <2>2. \A p, q \in h .. Newest(tail) : Appended(p) = Appended(q) => p = q
    BY <1>3, <1>14 DEF NodesApart
  <2>3. \A p \in h .. Newest(tail) : Appended(p) # pred
    BY <1>3, <1>11, <1>14, <1>16 DEF NodesApart
  <2>4. \A u \in Threads : ~CLHQueued(u)' => \A p \in h .. Newest(tail) : Appended(p) # myNode'[u]
    BY <1>13, <1>14, <1>17, <2>3
  <2>5. \A u, v \in Threads : ~CLHQueued(u)' /\ ~CLHQueued(v)' /\ myNode'[u] = myNode'[v] => u = v
    <3>1. \A u, v \in Threads \ {t} : ~CLHQueued(u) /\ ~CLHQueued(v) /\ myNode[u] = myNode[v] => u = v
      BY <1>3 DEF NodesApart
    <3>2. QED
      BY <1>13, <1>17, <3>1
  <2>6. QED
    BY <1>12, <2>1, <2>2, <2>4, <2>5 DEF NodesApart
<1>19. Placed(h, pos)'
  <2>1. ASSUME NEW u \in Threads, CLHQueued(u)'
        PROVE  /\ CLHQueued(u) /\ u # t
               /\ pos[u] \in h + 1 .. Newest(tail)
               /\ Appended(pos[u]) = myNode'[u] /\ Appended(pos[u] - 1) = myPred'[u]
    <3>1. CLHQueued(u) /\ u # t
      BY <1>13, <2>1
    <3>2. pos[u] # h /\ pos[u] \in g + 1 .. Newest(tail)
      BY <1>3, <1>11, <3>1 DEF Placed
    <3>3. pos[u] \in h + 1 .. Newest(tail)
      BY <1>4, <1>10, <3>2
    <3>4. Appended(pos[u]) = myNode[u] /\ Appended(pos[u] - 1) = myPred[u]
      BY <1>3, <3>1 DEF Placed
    <3>5. QED
      BY <1>7, <1>13, <3>1, <3>3, <3>4
  <2>2. \A u, v \in Threads : CLHQueued(u)' /\ CLHQueued(v)' /\ pos[u] = pos[v] => u = v
    BY <1>3, <2>1 DEF Placed
  <2>3. \A u \in Threads : ~Inside(u)'
    BY <1>13, <1>15
  <2>4. QED
    BY <1>12, <2>1, <2>2, <2>3 DEF Placed
<1>20. /\ MarkOf(h) = Newest(l) /\ Value(l, Newest(l)) = TRUE /\ Newest(l) \in Nat \ {0}
  <2>1. NodeLoc(h) = l /\ h \in g + 1 .. Newest(tail)
    BY <1>11
  <2>2. MarkOf(h) = Newest(NodeLoc(h)) /\ Value(NodeLoc(h), Newest(NodeLoc(h))) = TRUE
    BY <1>3, <2>1 DEF Marks
  <2>3. Newest(l) \in Nat \ {0}
    BY <1>2, <1>5 DEF MemOK
  <2>4. QED
    BY <2>1, <2>2, <2>3
<1>21. Newest(Payload) = h /\ seen[t][Payload] \in Nat /\ seen[t][Payload] >= h
  <2>1. Newest(Payload) = h
    BY <1>3, <1>4, <1>7 DEF Sections
  <2>2. seen[t][Payload] \in Nat
    BY <1>2, CLHLocations DEF MemOK
  <2>3. seen[t][Payload] >= Newest(Payload)
    BY <1>3, <1>11 DEF CLHKnows
  <2>4. QED
    BY <2>1, <2>2, <2>3
<1>22. Marks(h)'
  <2>1. ASSUME NEW p \in h + 1 .. Newest(tail)
        PROVE  /\ MarkOf(p) = Newest(NodeLoc(p))'
               /\ Value(NodeLoc(p), Newest(NodeLoc(p)))' = TRUE
    <3>1. p \in g + 1 .. Newest(tail) /\ p \in g .. Newest(tail) /\ p # h
      BY <1>4, <1>10
    <3>2. Appended(p) # Appended(h) /\ Appended(p) \in Nodes
      BY <1>3, <1>16, <3>1 DEF NodesApart
    <3>3. NodeLoc(p) # l /\ NodeLoc(p) \in CLHLocs
      BY <1>5, <1>10, <1>11, <3>1, <3>2, CLHLocations DEF NodeLoc
    <3>4. PICK loc \in CLHLocs \ {l} : loc = NodeLoc(p)
      BY <3>3
    <3>5. written'[loc] = written[loc] /\ Newest(loc)' = Newest(loc)
      BY <1>9, <3>4
    <3>6. MarkOf(p) = Newest(loc) /\ Value(loc, Newest(loc)) = TRUE
      BY <1>3, <3>1, <3>4 DEF Marks
    <3>7. NodeLoc(p)' = loc
      BY <1>12, <3>4
    <3>8. QED
      BY <3>5, <3>6, <3>7 DEF Value, Newest
  <2>2. MarkOf(h) + 1 = Newest(l)'
    BY <1>9, <1>20
  <2>3. Value(l, MarkOf(h))' = TRUE
    <3>1. PICK n \in 1 .. Newest(l) : n = MarkOf(h)
      BY <1>20
    <3>2. MarkOf(h)' = n
      BY <1>12, <3>1
    <3>3. written'[l][n] = written[l][n] /\ written[l][n].value = TRUE
      BY <1>9, <1>20, <3>1 DEF Value
    <3>4. QED
      BY <3>2, <3>3 DEF Value
  <2>4. Value(l, Newest(l))' = FALSE
    BY <1>9 DEF Value
  <2>5. written'[l][Newest(l)'].view[Payload] >= h
    <3>1. written'[l][Newest(l)'].view = view
      BY <1>9
    <3>2. view[Payload] = seen[t][Payload]
      BY <1>5, <1>8, CLHLocations
    <3>3. QED
      BY <1>21, <3>1, <3>2
  <2>6. NodeLoc(h)' = l
    BY <1>11, <1>12
  <2>7. QED
    BY <1>12, <2>1, <2>2, <2>3, <2>4, <2>5, <2>6 DEF Marks
<1>23. Sections(h)'
  <2>1. \A u \in Threads : pc'[u] # "unlock"
    BY <1>13, <1>15 DEF Inside
  <2>2. Newest(Payload)' = h
    BY <1>5, <1>9, <1>21, CLHLocations
  <2>3. QED
    BY <2>1, <2>2 DEF Sections
<1>24. ASSUME NEW u \in Threads PROVE CLHKnows(u, pos[u])'
  <2>1. CASE u = t
    <3>1. pc'[u] \notin {"spin", "fence", "swap"} /\ ~Inside(u)'
      BY <1>13, <2>1
    <3>2. QED
      BY <3>1 DEF CLHKnows
  <2>2. CASE u # t
    <3>1. PICK q \in Nat : q = pos[u]
      OBVIOUS
    <3>2. \A loc \in CLHLocs : seen[u][loc] \in Nat /\ seen'[u][loc] = seen[u][loc]
      BY <1>2, <1>8, <2>2 DEF Learns, MemOK
    <3>3. \A loc \in CLHLocs : seen'[u][loc] \in Nat /\ seen[u][loc] <= seen'[u][loc]
      BY <3>2
    <3>4. pc[u] = "spin" => MarkOf(q - 1) \in Nat /\ MarkOf(q - 1)' = MarkOf(q - 1)
      <4>1. pc[u] = "spin" => q - 1 \in g .. Newest(tail)
        BY <1>3, <1>10, <3>1 DEF Placed, CLHQueued
      <4>2. QED
        BY <1>10, <1>12, <4>1
    <3>5. CLHKnows(u, q)
      BY <1>3, <3>1
    <3>6. ~Inside(u)
      BY <1>15, <2>2
    <3>7. pc[u] \in {"fence", "swap"} => written'[Locked(myNode[u])] = written[Locked(myNode[u])]
      <4>1. SUFFICES ASSUME pc[u] \in {"fence", "swap"}
                     PROVE  written'[Locked(myNode[u])] = written[Locked(myNode[u])]
        OBVIOUS
      <4>2. ~CLHQueued(u) /\ myNode[u] \in Nodes
        BY <1>2, <4>1 DEF CLHQueued, CLHTypes
      <4>3. myNode[u] # mine
        BY <1>17, <2>2, <4>2
      <4>4. Locked(myNode[u]) \in CLHLocs \ {l}
        BY <1>5, <4>2, <4>3, CLHLocations
      <4>5. QED
        BY <1>9, <4>4
    <3>8. /\ pc'[u] = pc[u] /\ myNode'[u] = myNode[u] /\ myPred'[u] = myPred[u]
          /\ fenced'[u] = fenced[u]
      BY <1>7, <1>13, <2>2
    <3>9. CLHKnows(u, q)'
      BY <1>2, <3>3, <3>4, <3>5, <3>6, <3>7, <3>8, CLHKnowsKept
    <3>10. QED
      BY <3>1, <3>9
  <2>3. QED
    BY <2>1, <2>2
<1>25. CLHAt(h, pos)'
  <2>1. h <= Newest(tail)'
    BY <1>11, <1>12
  <2>2. QED
    BY <1>18, <1>19, <1>22, <1>23, <1>24, <2>1 DEF CLHAt
<1>26. CLHTypes'
  <2>1. \A loc \in CLHLocs : Newest(loc) <= Newest(loc)'
    <3> SUFFICES ASSUME NEW loc \in CLHLocs PROVE Newest(loc) <= Newest(loc)'
      OBVIOUS
    <3>1. Newest(loc) \in Nat
      BY <1>2 DEF MemOK
    <3>2. CASE loc = l
      BY <1>9, <3>1, <3>2 DEF Newest
    <3>3. CASE loc # l
      BY <1>9, <3>1, <3>3 DEF Newest
    <3>4. QED
      BY <3>2, <3>3
  <2>2. myNode' \in [Threads -> Nodes] /\ myPred' \in [Threads -> Nodes] /\ fenced' = fenced
    BY <1>2, <1>7 DEF CLHTypes
  <2>3. there \in CLHLabels \cup {"cs", "unlock", "done"}
    BY DEF CLHLabels
  <2>4. QED
    BY <1>2, <1>7, <1>8, <2>1, <2>2, <2>3, CLHTypesKept
<1>27. QED
  BY <1>25, <1>26 DEF CLHIInv

LEMMA CLHInitHolds == CLHInit => CLHIInv
<1> SUFFICES ASSUME CLHInit PROVE CLHIInv
  OBVIOUS
<1>1. PICK garbage \in BOOLEAN :
        BenchInit("mark", "done",
         [l \in {tail} \cup {Locked(n) : n \in Nodes} |->
            IF l = tail THEN common ELSE l # Locked(common) /\ garbage])
  BY DEF CLHInit
<1>2. PICK first : first = [l \in CLHLocs |-> IF l = Payload THEN 0
                                              ELSE IF l = tail THEN common
                                              ELSE l # Locked(common) /\ garbage]
  OBVIOUS
<1>3. common \in Nodes /\ common \in Nat /\ Threads \subseteq Nodes /\ \A t \in Threads : t # common
  BY NrThreadsAssumption DEF common, Nodes, Threads
<1>4. PICK unmarked \in CLHLocs : unmarked = Locked(common)
  BY <1>3, CLHLocations
<1>5. unmarked # tail /\ unmarked # Payload /\ tail \in CLHLocs /\ Payload \in CLHLocs /\ tail # Payload
  BY <1>3, <1>4, CLHLocations
<1>6. \A l \in CLHLocs : first[l] \in Values
  BY <1>2, <1>3, ValuesIn DEF Values
<1>7. first[tail] = common /\ first[unmarked] = FALSE
  BY <1>2, <1>4, <1>5
<1>8. PICK none \in [CLHLocs -> Nat] : none = [loc \in CLHLocs |-> 0]
  OBVIOUS
<1>9. /\ written = [l \in CLHLocs |-> <<[value |-> first[l], view |-> none]>>]
      /\ seen = [t \in Threads |-> [l \in CLHLocs |-> 1]]
  <2>1. CLHLocs = ({tail} \cup {Locked(n) : n \in Nodes}) \cup {Payload}
    BY DEF CLHLocs
  <2>2. MemoryInit(Threads, first)
    <3>1. first = [l \in ({tail} \cup {Locked(n) : n \in Nodes}) \cup {Payload} |->
              IF l = Payload THEN 0
              ELSE [m \in {tail} \cup {Locked(n) : n \in Nodes} |->
                     IF m = tail THEN common ELSE m # Locked(common) /\ garbage][l]]
      BY <1>2, <2>1
    <3>2. QED
      BY <1>1, <3>1 DEF BenchInit
  <2>3. DOMAIN first = CLHLocs
    BY <1>2
  <2>4. QED
    BY <1>8, <2>2, <2>3 DEF MemoryInit
<1>10. \A l \in CLHLocs : /\ [value |-> first[l], view |-> none] \in MessagesOf(CLHLocs)
                          /\ written[l] = <<[value |-> first[l], view |-> none]>>
  BY <1>6, <1>8, <1>9 DEF MessagesOf
<1>11. \A l \in CLHLocs : /\ written[l] \in Seq(MessagesOf(CLHLocs)) /\ Len(written[l]) = 1
                          /\ written[l][1].value = first[l] /\ written[l][1].view = none
  <2> SUFFICES ASSUME NEW l \in CLHLocs
               PROVE  /\ written[l] \in Seq(MessagesOf(CLHLocs)) /\ Len(written[l]) = 1
                      /\ written[l][1].value = first[l] /\ written[l][1].view = none
    OBVIOUS
  <2>1. PICK m \in MessagesOf(CLHLocs) : m = [value |-> first[l], view |-> none]
    BY <1>10
  <2>2. m.value = first[l] /\ m.view = none
    BY <2>1
  <2>3. written[l] = <<m>>
    BY <1>10, <2>1
  <2>4. <<m>> \in Seq(MessagesOf(CLHLocs)) /\ Len(<<m>>) = 1 /\ <<m>>[1] = m
    OBVIOUS
  <2>5. QED
    BY <2>2, <2>3, <2>4
<1>12. \A l \in CLHLocs : Newest(l) = 1
  BY <1>11 DEF Newest
<1>13. MemOK(CLHLocs)
  <2>1. written \in [CLHLocs -> Seq(MessagesOf(CLHLocs))]
    BY <1>9, <1>11
  <2>2. \A l \in CLHLocs : \A n \in 1 .. Newest(l) : \A loc \in CLHLocs : written[l][n].view[loc] <= Newest(loc)
    BY <1>8, <1>11, <1>12
  <2>3. QED
    BY <1>9, <1>12, <2>1, <2>2 DEF MemOK
<1>14. \A t \in Threads : pc[t] \in {"mark", "done"} /\ ~CLHQueued(t) /\ ~Inside(t)
  BY <1>1 DEF BenchInit, CLHQueued, Inside
<1>15. /\ pc \in [Threads -> CLHLabels \cup {"cs", "unlock", "done"}]
       /\ myNode = [t \in Threads |-> t]
  BY <1>1 DEF BenchInit, CLHLabels, CLHInit
<1>16. CLHTypes
  <2>1. Nothing \in [CLHLocs -> Nat] /\ \A loc \in CLHLocs : Nothing[loc] = 0
    BY <1>13, NothingTypes
  <2>2. fenced \in [Threads -> [CLHLocs -> Nat]] /\ \A t \in Threads : \A loc \in CLHLocs : fenced[t][loc] = 0
    BY <2>1 DEF CLHInit
  <2>3. \A t \in Threads : \A l \in CLHLocs : fenced[t][l] <= Newest(l)
    BY <1>12, <2>2
  <2>4. QED
    BY <1>3, <1>13, <1>15, <2>2, <2>3 DEF CLHTypes, CLHInit
<1>17. Newest(tail) = 1 /\ Newest(Payload) = 1 /\ Newest(unmarked) = 1
  BY <1>5, <1>12
<1>18. Appended(1) = common /\ NodeLoc(1) = unmarked /\ MarkOf(1) = 0
  <2>1. written[tail][1].value = common /\ written[tail][1].view = none
    BY <1>5, <1>7, <1>11
  <2>2. QED
    BY <1>4, <1>8, <2>1 DEF Appended, NodeLoc, MarkOf
<1>19. Value(unmarked, 1) = FALSE
  BY <1>7, <1>11 DEF Value
<1>20. PICK pos \in [Threads -> Nat] : pos = [t \in Threads |-> 0]
  OBVIOUS
<1>21. PICK g \in Nat \ {0} : g = 1
  OBVIOUS
<1>22. CLHAt(g, pos)
  <2>1. NodesApart(g)
    BY <1>3, <1>15, <1>17, <1>18, <1>21 DEF NodesApart
  <2>2. Placed(g, pos)
    BY <1>14 DEF Placed
  <2>3. Marks(g)
    BY <1>17, <1>18, <1>19, <1>21 DEF Marks
  <2>4. Sections(g)
    BY <1>14, <1>17, <1>21 DEF Sections
  <2>5. \A t \in Threads : CLHKnows(t, pos[t])
    BY <1>14 DEF CLHKnows
  <2>6. QED
    BY <1>17, <1>21, <2>1, <2>2, <2>3, <2>4, <2>5 DEF CLHAt
<1>23. QED
  BY <1>16, <1>22 DEF CLHIInv

LEMMA CLHStepKeeps == CLHIInv /\ [CLHNext]_clhVars => CLHIInv'
<1> SUFFICES ASSUME CLHIInv, [CLHNext]_clhVars PROVE CLHIInv'
  OBVIOUS
<1>1. CASE UNCHANGED clhVars
  <2>1. UNCHANGED <<written, seen, pc, myNode, myPred, fenced>>
    BY <1>1 DEF clhVars, benchVars, memoryVars, nodeVars
  <2>2. CLHTypes'
    BY <2>1 DEF CLHIInv, CLHTypes, MemOK, Newest
  <2>3. PICK g \in Nat \ {0}, pos \in [Threads -> Nat] : CLHAt(g, pos)
    BY DEF CLHIInv
  <2>4. CLHAt(g, pos)'
    BY <2>1, <2>3 DEF CLHAt, NodesApart, Placed, Marks, Sections, CLHKnows, CLHQueued, Inside,
                      Appended, NodeLoc, MarkOf, Value, Newest
  <2>5. QED
    BY <2>2, <2>4 DEF CLHIInv
<1>2. CASE CLHNext
  BY <1>2, MarkKeeps, FenceKeeps, SwapTailKeeps, SpinOnNodeKeeps, WorkWithNodesKeeps, CLHUnlockKeeps
     DEF CLHNext, CLHStep
<1>3. QED
  BY <1>1, <1>2

LEMMA CLHInvariant == CLHSpec => []CLHIInv
BY CLHInitHolds, CLHStepKeeps, PTL DEF CLHSpec

\* In the CLH lock (clhqueue_lock_ar.cpp) no two threads are inside, and the one that
\* is inside has seen the write of every section before, although the exchange of
\* the tail is relaxed: the fence and the wait on the predecessor's flag carry it.
THEOREM RelaxedCLHOrders == CLHSpec => [](MutualExclusion /\ SectionsOrdered)
<1>1. ASSUME CLHIInv PROVE MutualExclusion /\ SectionsOrdered
  <2>1. PICK g \in Nat \ {0}, pos \in [Threads -> Nat] : CLHAt(g, pos)
    BY <1>1 DEF CLHIInv
  <2>2. DOMAIN pc = Threads /\ DOMAIN seen = Threads
    BY <1>1 DEF CLHIInv, CLHTypes, MemOK
  <2>3. \A t \in Threads : Inside(t) => CLHQueued(t)
    BY DEF Inside, CLHQueued
  <2>4. \A t, u \in Threads : Inside(t) /\ Inside(u) => t = u
    BY <2>1, <2>3 DEF CLHAt, Placed
  <2>5. ASSUME NEW t \in Threads, pc[t] = "cs" PROVE seen[t][Payload] = Newest(Payload)
    <3>1. seen[t][Payload] >= Newest(Payload)
      BY <2>1, <2>5 DEF CLHAt, CLHKnows, Inside
    <3>2. seen[t][Payload] <= Newest(Payload) /\ seen[t][Payload] \in Nat /\ Newest(Payload) \in Nat
      BY <1>1, CLHLocations DEF CLHIInv, CLHTypes, MemOK
    <3>3. QED
      BY <3>1, <3>2
  <2>6. QED
    BY <2>2, <2>4, <2>5 DEF MutualExclusion, SectionsOrdered
<1>2. QED
  BY <1>1, CLHInvariant, PTL

-----------------------------------------------------------------------------

(* The array lock *)

ArrayLocs == {tail, Payload} \cup {Flag(s) : s \in Slots}

\* The flag of ticket i, and the message of it that lets the ticket in.
SlotOf(i) == i % NrThreads
TicketFlag(i) == Flag(SlotOf(i))
Turn(i) == 2 * (i \div NrThreads) + (IF SlotOf(i) = 0 THEN 1 ELSE 2)

Drawn == Newest(tail) - 1

\* View v covers the sections of the tickets before m and the lowering of their flags.
Covers(v, m) ==
  /\ m > 0 => v[Payload] >= m + 1
  /\ \A i \in 0 .. m - 1 : v[TicketFlag(i)] >= Turn(i) + 1

ArrayQueued(t) == pc[t] \in {"spin", "cs", "unlock", "grant"}
Served(t) == pc[t] \in {"cs", "unlock", "grant"}
Past(t) == pc[t] \in {"unlock", "grant"}

ArrayTypes ==
  /\ MemOK(ArrayLocs)
  /\ pc \in [Threads -> ArrayLabels \cup {"cs", "unlock", "done"}]
  /\ slot \in [Threads -> Slots]

\* last[t] is the ticket that thread t drew last, g the ticket served, and the
\* tickets from oldest on are the last ones of their threads.
Tickets(g, oldest, last) ==
  /\ Last(tail) = Drawn /\ oldest <= g /\ g <= Drawn
  /\ \A t \in Threads : last[t] < Drawn
  /\ \A t, u \in Threads : last[t] = last[u] /\ last[t] >= 0 => t = u
  /\ \A i \in oldest .. Drawn - 1 : \E t \in Threads : last[t] = i
  /\ \A t \in Threads : ArrayQueued(t) <=> last[t] >= g
  /\ \A t \in Threads : ArrayQueued(t) => slot[t] = SlotOf(last[t])
  /\ \A t \in Threads : Served(t) => last[t] = g

\* What thread t knows, whose last ticket was m.
Knows(t, m, g) ==
  /\ ~ArrayQueued(t) => Covers(seen[t], m + 1)
  /\ pc[t] = "spin" => Covers(seen[t], m - NrThreads + 1)
  /\ Served(t) => Covers(seen[t], g)
  /\ Inside(t) => seen[t][Payload] >= Newest(Payload)
  /\ pc[t] = "grant" => Covers(seen[t], g + 1)

\* The flag of ticket i is down, until it is raised for i.
Down(i) ==
  /\ Newest(TicketFlag(i)) = Turn(i) - 1
  /\ Turn(i) >= 2 => Value(TicketFlag(i), Turn(i) - 1) = FALSE

Flags(g) ==
  /\ \A i \in g + 1 .. g + NrThreads - 1 : Down(i)
  /\ (\E t \in Threads : pc[t] = "grant") => Down(g + NrThreads)
  /\ (\A t \in Threads : pc[t] # "grant") =>
       /\ Newest(TicketFlag(g)) = Turn(g)
       /\ Value(TicketFlag(g), Turn(g)) = TRUE
       /\ Turn(g) >= 2 => Value(TicketFlag(g), Turn(g) - 1) = FALSE
       /\ Covers(written[TicketFlag(g)][Turn(g)].view, g)

Counted(g) ==
  /\ (\E t \in Threads : Past(t)) => Newest(Payload) = g + 2
  /\ (\A t \in Threads : ~Past(t)) => Newest(Payload) = g + 1

ArrayAt(g, oldest, last) ==
  /\ Tickets(g, oldest, last) /\ Flags(g) /\ Counted(g)
  /\ Covers(written[tail][Newest(tail)].view, oldest)
  /\ \A t \in Threads : Knows(t, last[t], g)

ArrayIInv ==
  ArrayTypes /\ \E g, oldest \in Nat : \E last \in [Threads -> Nat \cup {-1}] : ArrayAt(g, oldest, last)

LEMMA ArrayLocations ==
  /\ tail \in ArrayLocs /\ Payload \in ArrayLocs /\ tail # Payload
  /\ \A s \in Slots : Flag(s) \in ArrayLocs /\ Flag(s) # tail /\ Flag(s) # Payload
  /\ \A r, s \in Slots : Flag(r) = Flag(s) => r = s
BY DEF ArrayLocs, tail, Payload, Flag

\* Division.
LEMMA Divide ==
  ASSUME NEW n \in Nat \ {0}, NEW a \in Nat
  PROVE  /\ a = n * (a \div n) + (a % n)
         /\ a \div n \in Nat /\ a % n \in Nat /\ a % n < n
OBVIOUS

LEMMA DivideUnique ==
  ASSUME NEW n \in Nat \ {0}, NEW a \in Nat, NEW b \in 0 .. n - 1,
         NEW c \in Nat, NEW d \in 0 .. n - 1, n * a + b = n * c + d
  PROVE  a = c /\ b = d
<1>1. ASSUME NEW x \in Nat, NEW y \in Nat, x < y
      PROVE  n * x + n <= n * y
  <2>1. PICK z \in Nat : y = x + 1 + z
    <3>1. y - x - 1 \in Nat /\ y = x + 1 + (y - x - 1)
      BY <1>1
    <3>2. QED
      BY <3>1
  <2>2. n * y = n * x + n + n * z /\ n * z \in Nat /\ n * x \in Nat
    BY <2>1
  <2>3. QED
    BY <2>2
<1>2. n * a \in Nat /\ n * c \in Nat
  OBVIOUS
<1>3. ~(a < c)
  BY <1>1, <1>2
<1>4. ~(c < a)
  BY <1>1, <1>2
<1>5. a = c
  BY <1>3, <1>4
<1>6. n * a = n * c
  BY <1>5
<1>7. QED
  BY <1>2, <1>5, <1>6

LEMMA DivideOf ==
  ASSUME NEW n \in Nat \ {0}, NEW a \in Nat, NEW b \in 0 .. n - 1, NEW m \in Nat, m = n * a + b
  PROVE  m \div n = a /\ m % n = b
<1>1. m = n * (m \div n) + (m % n) /\ m \div n \in Nat /\ m % n \in 0 .. n - 1
  BY Divide
<1>2. QED
  BY <1>1, DivideUnique

\* The slots of the tickets.
LEMMA SlotTypes ==
  ASSUME NEW i \in Nat
  PROVE  /\ SlotOf(i) \in Slots
         /\ TicketFlag(i) \in ArrayLocs /\ TicketFlag(i) # tail /\ TicketFlag(i) # Payload
         /\ Turn(i) \in Nat /\ Turn(i) >= 1
<1>1. i \div NrThreads \in Nat /\ i % NrThreads \in 0 .. NrThreads - 1
  BY Divide, NrThreadsAssumption
<1>2. SlotOf(i) \in Slots
  BY <1>1 DEF SlotOf, Slots
<1>3. Turn(i) \in Nat /\ Turn(i) >= 1
  BY <1>1 DEF Turn
<1>4. QED
  BY <1>2, <1>3, ArrayLocations DEF TicketFlag

\* A slot is used again after NrThreads tickets.
LEMMA NextRound ==
  ASSUME NEW i \in Nat
  PROVE  TicketFlag(i + NrThreads) = TicketFlag(i) /\ SlotOf(i + NrThreads) = SlotOf(i)
         /\ Turn(i + NrThreads) = Turn(i) + 2
<1> DEFINE q == i \div NrThreads
           r == i % NrThreads
<1>1. NrThreads \in Nat \ {0}
  BY NrThreadsAssumption
<1>2. i = NrThreads * q + r /\ q \in Nat /\ r \in 0 .. NrThreads - 1
  BY <1>1, Divide
<1> HIDE DEF q, r
<1>3. i + NrThreads \in Nat /\ i + NrThreads = NrThreads * (q + 1) + r /\ q + 1 \in Nat
  BY <1>1, <1>2
<1>4. (i + NrThreads) \div NrThreads = q + 1 /\ (i + NrThreads) % NrThreads = r
  BY <1>1, <1>2, <1>3, DivideOf
<1>5. SlotOf(i + NrThreads) = r /\ SlotOf(i) = r
  BY <1>4 DEF SlotOf, r
<1>6. Turn(i + NrThreads) = 2 * (q + 1) + (IF r = 0 THEN 1 ELSE 2)
  BY <1>4, <1>5 DEF Turn
<1>7. Turn(i) = 2 * q + (IF r = 0 THEN 1 ELSE 2)
  BY <1>5 DEF Turn, q
<1>8. Turn(i + NrThreads) = Turn(i) + 2
  BY <1>2, <1>6, <1>7
<1>9. QED
  BY <1>5, <1>8 DEF TicketFlag

\* Numbers less than n apart that agree modulo n are equal.
LEMMA ModEqual ==
  ASSUME NEW n \in Nat \ {0}, NEW a \in Nat, NEW b \in Nat,
         a <= b, b < a + n, a % n = b % n
  PROVE  a = b
<1>1. /\ a = n * (a \div n) + (a % n) /\ a \div n \in Nat
      /\ b = n * (b \div n) + (b % n) /\ b \div n \in Nat
      /\ a % n \in Nat
  <2>1. a = n * (a \div n) + (a % n) /\ a \div n \in Nat /\ a % n \in Nat
    BY Divide
  <2>2. b = n * (b \div n) + (b % n) /\ b \div n \in Nat
    BY Divide
  <2>3. QED
    BY <2>1, <2>2
<1> DEFINE d == (b \div n) - (a \div n)
<1>2. d \in Int /\ b - a = n * d
  BY <1>1
<1> HIDE DEF d
<1>3. d < 1
  <2>1. SUFFICES ASSUME d >= 1 PROVE FALSE
    BY <1>2
  <2>2. n * d >= n
    BY <1>2, <2>1
  <2>3. QED
    BY <1>2, <2>2
<1>4. d > -1
  <2>1. SUFFICES ASSUME d <= -1 PROVE FALSE
    BY <1>2
  <2>2. n * d <= -n
    BY <1>2, <2>1
  <2>3. QED
    BY <1>2, <2>2
<1>5. d = 0
  BY <1>2, <1>3, <1>4
<1>6. QED
  BY <1>2, <1>5

\* The successor of a slot is the slot of the successor.
LEMMA ModSucc ==
  ASSUME NEW n \in Nat \ {0}, NEW a \in Nat
  PROVE  ((a % n) + 1) % n = (a + 1) % n
<1> DEFINE q == a \div n
<1> DEFINE r == a % n
<1>1. a = n * q + r /\ q \in Nat /\ r \in Nat /\ r < n
  BY Divide
<1> HIDE DEF q, r
<1>2. CASE r + 1 < n
  <2>1. a + 1 = n * q + (r + 1)
    BY <1>1
  <2>2. (a + 1) % n = r + 1
    BY <1>1, <1>2, <2>1
  <2>3. (r + 1) % n = r + 1
    BY <1>1, <1>2
  <2>4. QED
    BY <2>2, <2>3 DEF r
<1>3. CASE r + 1 = n
  <2>1. a + 1 = n * (q + 1)
    BY <1>1, <1>3
  <2>2. (a + 1) % n = 0
    BY <1>1, <2>1
  <2>3. (r + 1) % n = 0
    BY <1>1, <1>3
  <2>4. QED
    BY <2>2, <2>3 DEF r
<1>4. QED
  BY <1>1, <1>2, <1>3

\* And not before.
LEMMA SlotsApart ==
  ASSUME NEW i \in Nat, NEW j \in Nat, i < j, j < i + NrThreads
  PROVE  TicketFlag(i) # TicketFlag(j)
<1>1. SlotOf(i) # SlotOf(j)
  <2>1. i # j /\ i <= j /\ NrThreads \in Nat \ {0}
    BY NrThreadsAssumption
  <2>2. i % NrThreads # j % NrThreads
    BY <2>1, ModEqual
  <2>3. QED
    BY <2>2 DEF SlotOf
<1>2. QED
  BY <1>1, SlotTypes, ArrayLocations DEF TicketFlag

\* Grant raises the flag of the next ticket.
LEMMA SlotSucc ==
  ASSUME NEW i \in Nat
  PROVE  (SlotOf(i) + 1) % NrThreads = SlotOf(i + 1)
BY ModSucc, NrThreadsAssumption DEF SlotOf

\* The first round.
LEMMA FirstRound ==
  ASSUME NEW i \in 0 .. NrThreads - 1
  PROVE  SlotOf(i) = i /\ Turn(i) = IF i = 0 THEN 1 ELSE 2
<1>1. NrThreads \in Nat \ {0} /\ i \in Nat /\ i = NrThreads * 0 + i
  BY NrThreadsAssumption
<1>2. i \div NrThreads = 0 /\ i % NrThreads = i
  BY <1>1, DivideOf
<1>3. QED
  BY <1>2 DEF SlotOf, Turn

LEMMA CoversKept ==
  ASSUME NEW v \in [ArrayLocs -> Nat], NEW w \in [ArrayLocs -> Nat], NEW m \in Int, Covers(v, m),
         \A l \in ArrayLocs : v[l] <= w[l]
  PROVE  Covers(w, m)
<1>1. m > 0 => w[Payload] >= m + 1
  BY ArrayLocations DEF Covers
<1>2. ASSUME NEW i \in 0 .. m - 1 PROVE w[TicketFlag(i)] >= Turn(i) + 1
  <2>1. i \in Nat
    OBVIOUS
  <2>2. TicketFlag(i) \in ArrayLocs /\ Turn(i) \in Nat
    BY <2>1, SlotTypes
  <2>3. v[TicketFlag(i)] >= Turn(i) + 1
    BY DEF Covers
  <2>4. QED
    BY <2>2, <2>3
<1>3. QED
  BY <1>1, <1>2 DEF Covers

LEMMA CoversLess ==
  ASSUME NEW v \in [ArrayLocs -> Nat], NEW m \in Int, Covers(v, m), NEW n \in Int, n <= m
  PROVE  Covers(v, n)
<1>1. n > 0 => v[Payload] >= n + 1
  BY ArrayLocations DEF Covers
<1>2. \A i \in 0 .. n - 1 : i \in 0 .. m - 1
  OBVIOUS
<1>3. QED
  BY <1>1, <1>2 DEF Covers

\* As many tickets as threads that drew them.
LEMMA TicketsFit ==
  ASSUME NEW S \in SUBSET Threads, NEW last \in [Threads -> Nat \cup {-1}],
         NEW a \in Nat, NEW b \in Nat, a <= b, \A i \in a .. b - 1 : \E t \in S : last[t] = i
  PROVE  /\ b - a <= NrThreads
         /\ S # Threads => b - a <= NrThreads - 1
<1> DEFINE Q == a .. b - 1
           f == [i \in Q |-> CHOOSE t \in S : last[t] = i]
<1>1. \A i \in Q : f[i] \in S /\ last[f[i]] = i
  OBVIOUS
<1>2. f \in Injection(Q, S)
  <2>1. f \in [Q -> S]
    BY <1>1
  <2>2. \A i, j \in Q : f[i] = f[j] => i = j
    BY <1>1
  <2> HIDE DEF f, Q
  <2>3. QED
    BY <2>1, <2>2 DEF Injection, IsInjective
<1>3. IsFiniteSet(Threads) /\ Cardinality(Threads) = NrThreads
  BY FS_Interval, NrThreadsAssumption DEF Threads
<1>4. IsFiniteSet(S) /\ Cardinality(S) <= NrThreads /\ Cardinality(S) \in Nat
      /\ (S # Threads => Cardinality(S) # NrThreads)
  BY <1>3, FS_Subset, FS_CardinalityType
<1>5. Cardinality(Q) = b - a
  <2>1. Cardinality(Q) = IF a > b - 1 THEN 0 ELSE b - 1 - a + 1
    BY FS_Interval
  <2>2. QED
    BY <2>1
<1>6. Cardinality(Q) <= Cardinality(S)
  BY <1>2, <1>4, FS_Injection
<1>7. QED
  BY <1>4, <1>5, <1>6, NrThreadsAssumption

\* The types of what a step does.
LEMMA ArrayTypesKept ==
  ASSUME ArrayTypes, MemOK(ArrayLocs)', NEW t \in Threads,
         NEW there \in ArrayLabels \cup {"cs", "unlock", "done"}, pc' = [pc EXCEPT ![t] = there],
         slot' \in [Threads -> Slots]
  PROVE  ArrayTypes'
BY DEF ArrayTypes

\* What a thread knows when others take steps.
LEMMA KnowsKept ==
  ASSUME NEW u \in Threads, NEW m \in Int, NEW g \in Int, NEW h \in Int, Knows(u, m, g),
         pc'[u] = pc[u], seen'[u] = seen[u],
         Inside(u) => Newest(Payload)' = Newest(Payload),
         Served(u) => h = g
  PROVE  Knows(u, m, h)'
<1>1. PICK v : v = seen[u]
  OBVIOUS
<1>2. seen'[u] = v
  BY <1>1
<1>3. /\ ArrayQueued(u)' = ArrayQueued(u) /\ Served(u)' = Served(u) /\ Inside(u)' = Inside(u)
      /\ pc[u] = "grant" => Served(u)
  BY DEF ArrayQueued, Served, Inside
<1>4. /\ ~ArrayQueued(u) => Covers(v, m + 1)
      /\ pc[u] = "spin" => Covers(v, m - NrThreads + 1)
      /\ Served(u) => Covers(v, h)
      /\ Inside(u) => v[Payload] >= Newest(Payload)
      /\ pc[u] = "grant" => Covers(v, h + 1)
  BY <1>1, <1>3 DEF Knows
<1>5. QED
  BY <1>2, <1>3, <1>4 DEF Knows

\* A flag that nobody touches.
LEMMA DownKept ==
  ASSUME NEW i \in Nat, Down(i), written'[TicketFlag(i)] = written[TicketFlag(i)]
  PROVE  Down(i)'
<1>1. PICK f : f = TicketFlag(i)
  OBVIOUS
<1>2. Newest(f)' = Newest(f) /\ \A n : Value(f, n)' = Value(f, n)
  BY <1>1 DEF Newest, Value
<1>3. QED
  BY <1>1, <1>2 DEF Down

LEMMA FlagsKept ==
  ASSUME NEW g \in Nat, Flags(g), \A i \in Nat : written'[TicketFlag(i)] = written[TicketFlag(i)],
         \A t \in Threads : pc'[t] = "grant" <=> pc[t] = "grant"
  PROVE  Flags(g)'
<1>1. \A i \in g + 1 .. g + NrThreads - 1 : i \in Nat
  BY NrThreadsAssumption
<1>2. \A i \in g + 1 .. g + NrThreads - 1 : Down(i)'
  BY <1>1, DownKept DEF Flags
<1>3. g + NrThreads \in Nat
  BY NrThreadsAssumption
<1>4. Down(g + NrThreads) => Down(g + NrThreads)'
  BY <1>3, DownKept
<1>5. PICK f : f = TicketFlag(g)
  OBVIOUS
<1>6. written'[f] = written[f]
  BY <1>5
<1>7. Newest(f)' = Newest(f) /\ \A n : Value(f, n)' = Value(f, n)
  BY <1>6 DEF Newest, Value
<1>8. PICK n : n = Turn(g)
  OBVIOUS
<1>9. (\A t \in Threads : pc[t] # "grant") =>
       /\ Newest(f)' = n
       /\ Value(f, n)' = TRUE
       /\ n >= 2 => Value(f, n - 1)' = FALSE
       /\ Covers(written'[f][n].view, g)
  BY <1>5, <1>6, <1>7, <1>8 DEF Flags
<1>10. QED
  BY <1>2, <1>4, <1>5, <1>8, <1>9 DEF Flags

\* A thread draws a ticket: the exchange tells it of all sections that the drawers
\* before it knew of, and the tickets after those fit into the array.
LEMMA DrawKeeps == ASSUME ArrayIInv, NEW t \in Threads, Draw(t) PROVE ArrayIInv'
<1>1. PICK g \in Nat, oldest \in Nat, last \in [Threads -> Nat \cup {-1}] : ArrayAt(g, oldest, last)
  BY DEF ArrayIInv
<1>2. ArrayTypes /\ MemOK(ArrayLocs) /\ tail \in ArrayLocs /\ Payload \in ArrayLocs
  BY ArrayLocations DEF ArrayIInv, ArrayTypes
<1>3. /\ Tickets(g, oldest, last) /\ Flags(g) /\ Counted(g)
      /\ Covers(written[tail][Newest(tail)].view, oldest)
      /\ \A u \in Threads : Knows(u, last[u], g)
  BY <1>1 DEF ArrayAt
<1>4. PICK d \in Nat : d = Drawn /\ Newest(tail) = d + 1 /\ Last(tail) = d
  BY <1>2, <1>3 DEF MemOK, Drawn, Tickets
<1>5. PICK e \in Nat : e = d + 1
  OBVIOUS
<1>6. /\ pc[t] = "lock" /\ pc' = [pc EXCEPT ![t] = "spin"]
      /\ slot' = [slot EXCEPT ![t] = SlotOf(d)]
      /\ Exchange(t, tail, e, "acq_rel")
  BY <1>4, <1>5 DEF Draw, Within, Goto, SlotOf
<1>7. PICK old \in [ArrayLocs -> Nat] : old = written[tail][Newest(tail)].view
  <2>1. Newest(tail) \in 1 .. Newest(tail)
    BY <1>4
  <2>2. QED
    BY <1>2, <2>1, MessageTypes
<1>8. e \in Values
  BY ValuesIn
<1>9. PICK view \in [ArrayLocs -> Nat] :
        /\ MemOK(ArrayLocs)' /\ Learns(ArrayLocs, t)
        /\ \A l \in ArrayLocs : written[tail][Newest(tail)].view[l] <= seen'[t][l]
        /\ Added(ArrayLocs, tail, e, view)
        /\ \A l \in ArrayLocs : written[tail][Newest(tail)].view[l] <= view[l]
        /\ \A l \in ArrayLocs : seen[t][l] <= view[l]
  BY <1>2, <1>6, <1>8, ExchangeEffect
<1>10. PICK mine \in [ArrayLocs -> Nat], known \in [ArrayLocs -> Nat] : mine = seen[t] /\ known = seen'[t]
  BY <1>2, <1>9 DEF MemOK
<1>11. \A l \in ArrayLocs : old[l] <= known[l] /\ old[l] <= view[l] /\ mine[l] <= known[l] /\ mine[l] <= view[l]
  BY <1>7, <1>9, <1>10 DEF Learns
<1>12. ~ArrayQueued(t) /\ ~Served(t)
  BY <1>6 DEF ArrayQueued, Served
<1>13. PICK a \in Nat \cup {-1} : a = last[t] /\ a < g /\ a + 1 \in Nat /\ Covers(mine, a + 1) /\ g <= d /\ oldest <= g
  <2>1. last[t] \in Nat \cup {-1} /\ ~(last[t] >= g) /\ Covers(seen[t], last[t] + 1)
    BY <1>3, <1>12 DEF Tickets, Knows
  <2>2. g <= d /\ oldest <= g
    BY <1>3, <1>4 DEF Tickets
  <2>3. QED
    BY <1>10, <2>1, <2>2
<1>14. PICK oldest2 \in Nat : oldest2 = (IF oldest >= a + 1 THEN oldest ELSE a + 1)
  BY <1>13
<1>15. oldest2 >= oldest /\ oldest2 >= a + 1 /\ oldest2 <= g /\ oldest2 <= d
  BY <1>13, <1>14
<1>16. Covers(view, oldest2) /\ Covers(known, oldest2)
  <2>1. Covers(old, oldest)
    BY <1>3, <1>7
  <2>2. CASE oldest >= a + 1
    <3>1. oldest2 = oldest
      BY <1>14, <2>2
    <3>2. QED
      BY <1>11, <2>1, <3>1, CoversKept
  <2>3. CASE ~(oldest >= a + 1)
    <3>1. oldest2 = a + 1
      BY <1>14, <2>3
    <3>2. Covers(mine, oldest2)
      BY <1>13, <3>1
    <3>3. QED
      BY <1>11, <3>2, CoversKept
  <2>4. QED
    BY <2>2, <2>3
<1>17. \A i \in oldest2 .. d - 1 : \E u \in Threads \ {t} : last[u] = i
  <2> SUFFICES ASSUME NEW i \in oldest2 .. d - 1 PROVE \E u \in Threads \ {t} : last[u] = i
    OBVIOUS
  <2>1. i \in oldest .. Drawn - 1 /\ i # a
    BY <1>4, <1>15
  <2>2. QED
    BY <1>3, <1>13, <2>1 DEF Tickets
<1>18. d - oldest2 <= NrThreads - 1
  <2>1. Threads \ {t} \in SUBSET Threads /\ Threads \ {t} # Threads
    OBVIOUS
  <2>2. QED
    BY <1>15, <1>17, <2>1, TicketsFit
<1>19. Covers(known, d - NrThreads + 1)
  <2>1. d - NrThreads + 1 \in Int /\ d - NrThreads + 1 <= oldest2
    BY <1>18, NrThreadsAssumption
  <2>2. QED
    BY <1>16, <2>1, CoversLess
<1>20. /\ Newest(tail)' = d + 2 /\ Drawn' = d + 1 /\ Last(tail)' = d + 1
       /\ written'[tail][Newest(tail)'].view = view
       /\ \A l \in ArrayLocs \ {tail} : written'[l] = written[l] /\ Newest(l)' = Newest(l)
  <2>1. Newest(tail)' = d + 1 + 1 /\ written'[tail][d + 1 + 1].value = e /\ written'[tail][d + 1 + 1].view = view
        /\ \A l \in ArrayLocs \ {tail} : written'[l] = written[l] /\ Newest(l)' = Newest(l)
    BY <1>4, <1>9 DEF Added
  <2>2. d + 1 + 1 = d + 2
    OBVIOUS
  <2>3. QED
    BY <1>5, <2>1, <2>2 DEF Drawn, Last
<1>21. PICK last2 \in [Threads -> Nat \cup {-1}] : last2 = [last EXCEPT ![t] = d]
  <2>1. d \in Nat \cup {-1} /\ last \in [Threads -> Nat \cup {-1}]
    OBVIOUS
  <2>2. QED
    BY <2>1
<1>22. last2[t] = d /\ \A u \in Threads \ {t} : last2[u] = last[u] /\ last[u] < d
  BY <1>3, <1>4, <1>21 DEF Tickets
<1>23. /\ pc'[t] = "spin" /\ \A u \in Threads \ {t} : pc'[u] = pc[u]
       /\ slot'[t] = SlotOf(d) /\ \A u \in Threads \ {t} : slot'[u] = slot[u]
       /\ ArrayQueued(t)' /\ ~Served(t)' /\ ~Past(t)' /\ ~Past(t) /\ ~Inside(t)'
       /\ \A u \in Threads \ {t} :
            ArrayQueued(u)' = ArrayQueued(u) /\ Served(u)' = Served(u) /\ Past(u)' = Past(u)
  BY <1>2, <1>6 DEF ArrayTypes, ArrayQueued, Served, Past, Inside
<1>24. Tickets(g, oldest2, last2)'
  <2>1. oldest2 <= g /\ g <= d + 1
    BY <1>13, <1>15
  <2>2. \A u \in Threads : last2[u] < d + 1
    BY <1>22
  <2>3. \A u, v \in Threads : last2[u] = last2[v] /\ last2[u] >= 0 => u = v
    BY <1>3, <1>22 DEF Tickets
  <2>4. ASSUME NEW i \in oldest2 .. d PROVE \E u \in Threads : last2[u] = i
    <3>1. CASE i = d
      BY <1>22, <3>1
    <3>2. CASE i # d
      <4>1. i \in oldest2 .. d - 1
        BY <3>2
      <4>2. PICK u \in Threads \ {t} : last[u] = i
        BY <1>17, <4>1
      <4>3. QED
        BY <1>22, <4>2
    <3>3. QED
      BY <3>1, <3>2
  <2>5. \A u \in Threads : ArrayQueued(u)' <=> last2[u] >= g
    BY <1>3, <1>13, <1>22, <1>23 DEF Tickets
  <2>6. \A u \in Threads : ArrayQueued(u)' => slot'[u] = SlotOf(last2[u])
    BY <1>3, <1>22, <1>23 DEF Tickets
  <2>7. \A u \in Threads : Served(u)' => last2[u] = g
    BY <1>3, <1>22, <1>23 DEF Tickets
  <2>8. d + 1 - 1 = d
    OBVIOUS
  <2>9. QED
    BY <1>20, <2>1, <2>2, <2>3, <2>4, <2>5, <2>6, <2>7, <2>8 DEF Tickets
<1>25. Flags(g)'
  <2>1. \A i \in Nat : written'[TicketFlag(i)] = written[TicketFlag(i)]
    BY <1>20, SlotTypes
  <2>2. \A u \in Threads : pc'[u] = "grant" <=> pc[u] = "grant"
    BY <1>6, <1>23
  <2>3. QED
    BY <1>3, <2>1, <2>2, FlagsKept
<1>26. Newest(Payload)' = Newest(Payload)
  BY <1>2, <1>20, ArrayLocations
<1>27. Counted(g)'
  BY <1>3, <1>23, <1>26 DEF Counted
<1>28. ASSUME NEW u \in Threads PROVE Knows(u, last2[u], g)'
  <2>1. CASE u = t
    <3>1. Knows(t, d, g)'
      BY <1>10, <1>19, <1>23 DEF Knows
    <3>2. QED
      BY <1>22, <2>1, <3>1
  <2>2. CASE u # t
    <3>1. PICK m \in Int : m = last[u] /\ m = last2[u]
      BY <1>22, <2>2
    <3>2. pc'[u] = pc[u] /\ seen'[u] = seen[u] /\ Knows(u, m, g)
      BY <1>3, <1>9, <1>23, <2>2, <3>1 DEF Learns
    <3>3. Knows(u, m, g)'
      BY <1>26, <3>2, KnowsKept
    <3>4. QED
      BY <3>1, <3>3
  <2>3. QED
    BY <2>1, <2>2
<1>29. ArrayAt(g, oldest2, last2)'
  BY <1>16, <1>20, <1>24, <1>25, <1>27, <1>28 DEF ArrayAt
<1>30. ArrayTypes'
  <2>1. slot' \in [Threads -> Slots]
    BY <1>2, <1>6, SlotTypes DEF ArrayTypes
  <2>2. "spin" \in ArrayLabels \cup {"cs", "unlock", "done"}
    BY DEF ArrayLabels
  <2>3. QED
    BY <1>2, <1>6, <1>9, <2>1, <2>2, ArrayTypesKept
<1>31. QED
  BY <1>29, <1>30 DEF ArrayIInv

\* A thread goes on without touching a flag or drawing a ticket.
LEMMA ArrayQuiet ==
  ASSUME ArrayTypes, NEW g \in Nat, NEW oldest \in Nat, NEW last \in [Threads -> Nat \cup {-1}],
         ArrayAt(g, oldest, last),
         NEW t \in Threads, NEW there, pc' = [pc EXCEPT ![t] = there],
         \/ (pc[t] = "spin" /\ there \in {"spin", "cs"})
         \/ (pc[t] = "cs" /\ there = "unlock"),
         there = "cs" => last[t] = g,
         slot' = slot, \A u \in Threads \ {t} : seen'[u] = seen[u],
         written'[tail] = written[tail],
         \A i \in Nat : written'[TicketFlag(i)] = written[TicketFlag(i)],
         Newest(Payload)' = (IF there = "unlock" THEN g + 2 ELSE Newest(Payload)),
         Knows(t, last[t], g)'
  PROVE  ArrayAt(g, oldest, last)'
<1>1. /\ Tickets(g, oldest, last) /\ Flags(g) /\ Counted(g)
      /\ Covers(written[tail][Newest(tail)].view, oldest)
      /\ \A u \in Threads : Knows(u, last[u], g)
  BY DEF ArrayAt
<1>2. /\ pc'[t] = there /\ \A u \in Threads \ {t} : pc'[u] = pc[u]
  BY DEF ArrayTypes
<1>3. /\ \A u \in Threads : ArrayQueued(u)' = ArrayQueued(u)
      /\ \A u \in Threads \ {t} : Served(u)' = Served(u) /\ Past(u)' = Past(u) /\ Inside(u)' = Inside(u)
      /\ Served(t)' => last[t] = g
      /\ Past(t)' = (there = "unlock")
      /\ ~Past(t)
      /\ there = "unlock" => Served(t)
  <2>1. /\ \A u \in Threads : ArrayQueued(u)' = ArrayQueued(u)
        /\ \A u \in Threads \ {t} : Served(u)' = Served(u) /\ Past(u)' = Past(u) /\ Inside(u)' = Inside(u)
        /\ Past(t)' = (there = "unlock")
        /\ ~Past(t)
        /\ there = "unlock" => Served(t)
    BY <1>2 DEF ArrayQueued, Served, Past, Inside
  <2>2. Served(t)' => last[t] = g
    BY <1>1, <1>2, <2>1 DEF Tickets, Served
  <2>3. QED
    BY <2>1, <2>2
<1>4. Newest(tail)' = Newest(tail) /\ Drawn' = Drawn /\ Last(tail)' = Last(tail)
  BY DEF Newest, Drawn, Last
<1>5. Tickets(g, oldest, last)'
  BY <1>1, <1>3, <1>4 DEF Tickets
<1>6. Flags(g)'
  <2>1. \A u \in Threads : pc'[u] = "grant" <=> pc[u] = "grant"
    BY <1>2
  <2>2. QED
    BY <1>1, <2>1, FlagsKept
<1>7. Counted(g)'
  <2>1. CASE there = "unlock"
    BY <1>3, <2>1 DEF Counted
  <2>2. CASE there # "unlock"
    BY <1>1, <1>3, <2>2 DEF Counted
  <2>3. QED
    BY <2>1, <2>2
<1>8. ASSUME NEW u \in Threads PROVE Knows(u, last[u], g)'
  <2>1. CASE u = t
    BY <2>1
  <2>2. CASE u # t
    <3>1. PICK m \in Int : m = last[u]
      OBVIOUS
    <3>2. Inside(u) => there # "unlock"
      <4>1. SUFFICES ASSUME Inside(u), there = "unlock" PROVE FALSE
        OBVIOUS
      <4>2. Served(u) /\ Served(t)
        BY <1>3, <4>1 DEF Inside, Served
      <4>3. last[u] = g /\ last[t] = g
        BY <1>1, <4>2 DEF Tickets
      <4>4. QED
        BY <1>1, <2>2, <4>3 DEF Tickets
    <3>3. Inside(u) => Newest(Payload)' = Newest(Payload)
      BY <3>2
    <3>4. pc'[u] = pc[u] /\ seen'[u] = seen[u] /\ Knows(u, m, g)
      BY <1>1, <1>2, <2>2, <3>1
    <3>5. Knows(u, m, g)'
      BY <3>3, <3>4, KnowsKept
    <3>6. QED
      BY <3>1, <3>5
  <2>3. QED
    BY <2>1, <2>2
<1>9. QED
  BY <1>1, <1>4, <1>5, <1>6, <1>7, <1>8 DEF ArrayAt

\* The thread whose ticket is served is let in, and no other one, although flags
\* were up for earlier tickets.
LEMMA SpinOnSlotKeeps == ASSUME ArrayIInv, NEW t \in Threads, SpinOnSlot(t) PROVE ArrayIInv'
<1>1. PICK g \in Nat, oldest \in Nat, last \in [Threads -> Nat \cup {-1}] : ArrayAt(g, oldest, last)
  BY DEF ArrayIInv
<1>2. ArrayTypes /\ MemOK(ArrayLocs) /\ tail \in ArrayLocs /\ Payload \in ArrayLocs
  BY ArrayLocations DEF ArrayIInv, ArrayTypes
<1>3. /\ Tickets(g, oldest, last) /\ Flags(g) /\ Counted(g)
      /\ \A u \in Threads : Knows(u, last[u], g)
  BY <1>1 DEF ArrayAt
<1>4. PICK f : f = Flag(slot[t])
  OBVIOUS
<1>5. PICK n \in Visible(t, f) :
        /\ Load(t, f, n, "acquire")
        /\ Within(t, "spin", IF written[f][n].value THEN "cs" ELSE "spin")
  BY <1>4 DEF SpinOnSlot
<1>6. PICK there : there = IF written[f][n].value THEN "cs" ELSE "spin"
  OBVIOUS
<1>7. pc[t] = "spin" /\ pc' = [pc EXCEPT ![t] = there] /\ there \in {"spin", "cs"} /\ slot' = slot
  BY <1>5, <1>6 DEF Within, Goto, SpinOnSlot
<1>8. ArrayQueued(t) /\ ~Served(t) /\ ~Inside(t)
  BY <1>7 DEF ArrayQueued, Served, Inside
<1>9. PICK j \in Nat : j = last[t] /\ j >= g /\ f = TicketFlag(j) /\ j < Drawn
  <2>1. last[t] >= g /\ slot[t] = SlotOf(last[t]) /\ last[t] < Drawn
    BY <1>3, <1>8 DEF Tickets
  <2>2. QED
    BY <1>4, <2>1 DEF TicketFlag
<1>10. f \in ArrayLocs /\ f # tail /\ f # Payload /\ Turn(j) \in Nat /\ Turn(j) >= 1
  BY <1>9, SlotTypes
<1>11. /\ MemOK(ArrayLocs)' /\ written' = written /\ Learns(ArrayLocs, t)
       /\ n \in seen[t][f] .. Newest(f)
       /\ \A l \in ArrayLocs : written[f][n].view[l] <= seen'[t][l]
  BY <1>2, <1>5, <1>10, LoadEffect DEF Acquires
<1>12. PICK mine \in [ArrayLocs -> Nat], known \in [ArrayLocs -> Nat] :
         mine = seen[t] /\ known = seen'[t] /\ \A l \in ArrayLocs : mine[l] <= known[l] /\ mine[l] >= 1
  BY <1>2, <1>11 DEF MemOK, Learns
<1>13. Covers(mine, j - NrThreads + 1)
  BY <1>3, <1>7, <1>9, <1>12 DEF Knows
<1>14. n \in Nat /\ n >= 1 /\ n <= Newest(f) /\ n >= mine[f] /\ Newest(f) \in Nat
  BY <1>2, <1>10, <1>11, <1>12 DEF MemOK
<1>15. n >= Turn(j) - 1
  <2>1. CASE j >= NrThreads
    <3>1. PICK i \in Nat : j = i + NrThreads /\ i \in 0 .. (j - NrThreads + 1) - 1
      <4>1. j - NrThreads \in Nat /\ j = (j - NrThreads) + NrThreads
            /\ j - NrThreads \in 0 .. (j - NrThreads + 1) - 1
        BY <2>1, NrThreadsAssumption
      <4>2. QED
        BY <4>1
    <3>2. mine[TicketFlag(i)] >= Turn(i) + 1
      BY <1>13, <3>1 DEF Covers
    <3>3. TicketFlag(i) = f /\ Turn(j) = Turn(i) + 2 /\ Turn(i) \in Nat
      BY <1>9, <3>1, NextRound, SlotTypes
    <3>4. QED
      BY <1>10, <1>12, <1>14, <3>2, <3>3
  <2>2. CASE ~(j >= NrThreads)
    <3>1. j \in 0 .. NrThreads - 1
      BY <2>2, NrThreadsAssumption
    <3>2. Turn(j) <= 2
      BY <3>1, FirstRound
    <3>3. QED
      BY <1>10, <1>14, <3>2
  <2>3. QED
    BY <2>1, <2>2
<1>16. j <= g + NrThreads - 1
  <2>1. PICK d \in Nat : d = Drawn /\ oldest <= g /\ g <= d
    BY <1>2, <1>3 DEF Drawn, MemOK, Tickets
  <2>2. \A i \in oldest .. d - 1 : \E u \in Threads : last[u] = i
    BY <1>3, <2>1 DEF Tickets
  <2>3. d - oldest <= NrThreads
    <3>1. Threads \in SUBSET Threads /\ oldest <= d
      BY <2>1
    <3>2. QED
      BY <2>1, <2>2, <3>1, TicketsFit
  <2>4. QED
    BY <1>9, <2>1, <2>3, NrThreadsAssumption
<1>17. PICK number \in Nat : number = Turn(j)
  BY <1>10
<1>18. ASSUME there = "cs"
       PROVE  j = g /\ Covers(known, g) /\ known[Payload] >= g + 1 /\ Newest(Payload) = g + 1
  <2>1. Value(f, n) # FALSE
    BY <1>6, <1>18 DEF Value
  <2>2. j = g
    <3>1. SUFFICES ASSUME j # g PROVE FALSE
      OBVIOUS
    <3>2. j \in g + 1 .. g + NrThreads - 1
      BY <1>9, <1>16, <3>1, NrThreadsAssumption
    <3>3. Down(j)
      BY <1>3, <3>2 DEF Flags
    <3>4. Newest(f) = number - 1 /\ (number >= 2 => Value(f, number - 1) = FALSE)
      BY <1>9, <1>17, <3>3 DEF Down
    <3>5. n = number - 1 /\ number >= 2
      BY <1>14, <1>15, <1>17, <3>4
    <3>6. QED
      BY <2>1, <3>4, <3>5
  <2>3. \A u \in Threads : ~Served(u)
    <3>1. SUFFICES ASSUME NEW u \in Threads, Served(u) PROVE FALSE
      OBVIOUS
    <3>2. last[u] = g /\ last[t] = g
      BY <1>3, <1>9, <2>2, <3>1 DEF Tickets
    <3>3. u = t
      BY <1>3, <3>2 DEF Tickets
    <3>4. QED
      BY <1>8, <3>1, <3>3
  <2>4. /\ Newest(f) = number /\ (number >= 2 => Value(f, number - 1) = FALSE)
        /\ Covers(written[f][number].view, g)
    <3>1. \A u \in Threads : pc[u] # "grant"
      BY <2>3 DEF Served
    <3>2. QED
      BY <1>3, <1>9, <1>17, <2>2, <3>1 DEF Flags
  <2>5. n = number
    <3>1. n # number - 1
      <4>1. SUFFICES ASSUME n = number - 1 PROVE FALSE
        OBVIOUS
      <4>2. number >= 2
        BY <1>14, <4>1
      <4>3. Value(f, number - 1) = FALSE
        BY <2>4, <4>2
      <4>4. QED
        BY <2>1, <4>1, <4>3
    <3>2. QED
      BY <1>14, <1>15, <1>17, <2>4, <3>1
  <2>6. PICK view \in [ArrayLocs -> Nat] : view = written[f][n].view
    <3>1. n \in 1 .. Newest(f)
      BY <1>14
    <3>2. QED
      BY <1>2, <1>10, <3>1, MessageTypes
  <2>7. Covers(known, g)
    <3>1. Covers(view, g)
      BY <2>4, <2>5, <2>6
    <3>2. \A l \in ArrayLocs : view[l] <= known[l]
      BY <1>11, <1>12, <2>6
    <3>3. g \in Int
      OBVIOUS
    <3>4. QED
      BY <3>1, <3>2, <3>3, CoversKept
  <2>8. known[Payload] >= g + 1
    <3>1. CASE g > 0
      BY <2>7, <3>1 DEF Covers
    <3>2. CASE ~(g > 0)
      <4>1. mine[Payload] <= known[Payload] /\ mine[Payload] >= 1 /\ mine[Payload] \in Nat /\ known[Payload] \in Nat
        BY <1>2, <1>12
      <4>2. QED
        BY <3>2, <4>1
    <3>3. QED
      BY <3>1, <3>2
  <2>9. Newest(Payload) = g + 1
    <3>1. \A u \in Threads : ~Past(u)
      BY <2>3 DEF Past, Served
    <3>2. QED
      BY <1>3, <3>1 DEF Counted
  <2>10. QED
    BY <2>2, <2>7, <2>8, <2>9
<1>19. Newest(Payload)' = Newest(Payload)
  BY <1>11 DEF Newest
<1>20. pc'[t] = there
  BY <1>2, <1>7 DEF ArrayTypes
<1>21. Knows(t, j, g)'
  <2>1. CASE there = "cs"
    <3>1. seen'[t][Payload] >= Newest(Payload)'
      BY <1>12, <1>18, <1>19, <2>1
    <3>2. ArrayQueued(t)' /\ pc'[t] # "spin" /\ pc'[t] # "grant"
      BY <1>20, <2>1 DEF ArrayQueued
    <3>3. QED
      BY <1>12, <1>18, <2>1, <3>1, <3>2 DEF Knows
  <2>2. CASE there = "spin"
    <3>1. ArrayQueued(t)' /\ ~Served(t)' /\ ~Inside(t)' /\ pc'[t] # "grant"
      BY <1>20, <2>2 DEF ArrayQueued, Served, Inside
    <3>2. j - NrThreads + 1 \in Int /\ \A l \in ArrayLocs : mine[l] <= known[l]
      BY <1>12, NrThreadsAssumption
    <3>3. Covers(known, j - NrThreads + 1)
      BY <1>13, <3>2, CoversKept
    <3>4. QED
      BY <1>12, <3>1, <3>3 DEF Knows
  <2>3. QED
    BY <1>7, <2>1, <2>2
<1>22. ArrayAt(g, oldest, last)'
  <2>1. Knows(t, last[t], g)'
    BY <1>9, <1>21
  <2>2. there = "cs" => last[t] = g
    BY <1>9, <1>18
  <2>3. /\ \A u \in Threads \ {t} : seen'[u] = seen[u]
        /\ written'[tail] = written[tail]
        /\ \A i \in Nat : written'[TicketFlag(i)] = written[TicketFlag(i)]
    BY <1>11 DEF Learns
  <2>4. Newest(Payload)' = (IF there = "unlock" THEN g + 2 ELSE Newest(Payload))
    BY <1>7, <1>19
  <2>5. QED
    BY <1>1, <1>2, <1>7, <2>1, <2>2, <2>3, <2>4, ArrayQuiet
<1>23. ArrayTypes'
  <2>1. there \in ArrayLabels \cup {"cs", "unlock", "done"}
    BY <1>7 DEF ArrayLabels
  <2>2. slot' \in [Threads -> Slots]
    BY <1>2, <1>7 DEF ArrayTypes
  <2>3. QED
    BY <1>2, <1>7, <1>11, <2>1, <2>2, ArrayTypesKept
<1>24. QED
  BY <1>22, <1>23 DEF ArrayIInv

\* A section is done.
LEMMA WorkWithSlotKeeps == ASSUME ArrayIInv, NEW t \in Threads, WorkWithSlot(t) PROVE ArrayIInv'
<1>1. PICK g \in Nat, oldest \in Nat, last \in [Threads -> Nat \cup {-1}] : ArrayAt(g, oldest, last)
  BY DEF ArrayIInv
<1>2. ArrayTypes /\ MemOK(ArrayLocs) /\ tail \in ArrayLocs /\ Payload \in ArrayLocs /\ tail # Payload
  BY ArrayLocations DEF ArrayIInv, ArrayTypes
<1>3. /\ Tickets(g, oldest, last) /\ Flags(g) /\ Counted(g)
      /\ \A u \in Threads : Knows(u, last[u], g)
  BY <1>1 DEF ArrayAt
<1>4. PICK there : there = "unlock"
  OBVIOUS
<1>5. /\ pc[t] = "cs" /\ pc' = [pc EXCEPT ![t] = there]
      /\ Store(t, Payload, 0, "relaxed") /\ slot' = slot
  BY <1>4 DEF WorkWithSlot, Section, Within, Goto
<1>6. PICK view \in [ArrayLocs -> Nat] :
        /\ MemOK(ArrayLocs)' /\ Learns(ArrayLocs, t)
        /\ seen'[t][Payload] = Newest(Payload) + 1
        /\ Added(ArrayLocs, Payload, 0, view)
  <2>1. 0 \in Values
    BY ValuesIn
  <2>2. QED
    BY <1>2, <1>5, <2>1, StoreEffect
<1>7. /\ Newest(Payload)' = Newest(Payload) + 1
      /\ \A l \in ArrayLocs \ {Payload} : written'[l] = written[l]
  BY <1>6 DEF Added
<1>8. Served(t) /\ ArrayQueued(t)
  BY <1>5 DEF Served, ArrayQueued
<1>9. last[t] = g
  BY <1>3, <1>8 DEF Tickets
<1>10. Newest(Payload) = g + 1
  <2>1. \A u \in Threads : ~Past(u)
    <3>1. SUFFICES ASSUME NEW u \in Threads, Past(u) PROVE FALSE
      OBVIOUS
    <3>2. last[u] = g
      BY <1>3, <3>1 DEF Past, Served, Tickets
    <3>3. u = t
      BY <1>3, <1>9, <3>2 DEF Tickets
    <3>4. QED
      BY <1>5, <3>1, <3>3 DEF Past
  <2>2. QED
    BY <1>3, <2>1 DEF Counted
<1>11. PICK mine \in [ArrayLocs -> Nat], known \in [ArrayLocs -> Nat] :
         mine = seen[t] /\ known = seen'[t] /\ \A l \in ArrayLocs : mine[l] <= known[l]
  BY <1>2, <1>6 DEF MemOK, Learns
<1>12. Knows(t, g, g)'
  <2>1. Covers(mine, g)
    BY <1>3, <1>8, <1>11 DEF Knows
  <2>2. Covers(known, g)
    <3>1. g \in Int
      OBVIOUS
    <3>2. QED
      BY <1>11, <2>1, <3>1, CoversKept
  <2>3. pc'[t] = "unlock" /\ ArrayQueued(t)'
    BY <1>2, <1>4, <1>5 DEF ArrayTypes, ArrayQueued
  <2>4. seen'[t][Payload] >= Newest(Payload)'
    BY <1>6, <1>7, <1>10
  <2>5. QED
    BY <1>11, <2>2, <2>3, <2>4 DEF Knows
<1>13. ArrayAt(g, oldest, last)'
  <2>1. Knows(t, last[t], g)'
    BY <1>9, <1>12
  <2>2. /\ \A u \in Threads \ {t} : seen'[u] = seen[u]
        /\ written'[tail] = written[tail]
        /\ \A i \in Nat : written'[TicketFlag(i)] = written[TicketFlag(i)]
    BY <1>2, <1>6, <1>7, SlotTypes DEF Learns
  <2>3. Newest(Payload)' = (IF there = "unlock" THEN g + 2 ELSE Newest(Payload))
    BY <1>4, <1>7, <1>10
  <2>4. there # "cs"
    BY <1>4
  <2>5. QED
    BY <1>1, <1>2, <1>4, <1>5, <2>1, <2>2, <2>3, <2>4, ArrayQuiet
<1>14. ArrayTypes'
  <2>1. slot' \in [Threads -> Slots]
    BY <1>2, <1>5 DEF ArrayTypes
  <2>2. QED
    BY <1>2, <1>4, <1>5, <1>6, <2>1, ArrayTypesKept
<1>15. QED
  BY <1>13, <1>14 DEF ArrayIInv

\* What the others know while one of them leaves.
LEMMA OthersKnow ==
  ASSUME NEW g \in Nat, NEW oldest \in Nat, NEW last \in [Threads -> Nat \cup {-1}],
         Tickets(g, oldest, last), \A u \in Threads : Knows(u, last[u], g),
         NEW t \in Threads, Served(t), NEW h \in Int,
         \A u \in Threads \ {t} : pc'[u] = pc[u] /\ seen'[u] = seen[u]
  PROVE  \A u \in Threads \ {t} : Knows(u, last[u], h)' /\ ~Served(u) /\ ~Past(u) /\ pc[u] # "grant"
<1> SUFFICES ASSUME NEW u \in Threads \ {t}
             PROVE  Knows(u, last[u], h)' /\ ~Served(u) /\ ~Past(u) /\ pc[u] # "grant"
  OBVIOUS
<1>1. ~Served(u)
  BY DEF Tickets
<1>2. ~Past(u) /\ pc[u] # "grant" /\ ~Inside(u)
  BY <1>1 DEF Past, Served, Inside
<1>3. PICK m \in Int : m = last[u]
  OBVIOUS
<1>4. Knows(u, m, g) /\ pc'[u] = pc[u] /\ seen'[u] = seen[u]
  BY <1>3
<1>5. Knows(u, m, h)'
  BY <1>1, <1>2, <1>4, KnowsKept
<1>6. QED
  BY <1>1, <1>2, <1>3, <1>5

\* The flag is lowered, relaxed: those who draw tickets later will know of it.
LEMMA LowerKeeps == ASSUME ArrayIInv, NEW t \in Threads, Lower(t) PROVE ArrayIInv'
<1>1. PICK g \in Nat, oldest \in Nat, last \in [Threads -> Nat \cup {-1}] : ArrayAt(g, oldest, last)
  BY DEF ArrayIInv
<1>2. ArrayTypes /\ MemOK(ArrayLocs) /\ tail \in ArrayLocs /\ Payload \in ArrayLocs /\ tail # Payload
  BY ArrayLocations DEF ArrayIInv, ArrayTypes
<1>3. /\ Tickets(g, oldest, last) /\ Flags(g) /\ Counted(g)
      /\ Covers(written[tail][Newest(tail)].view, oldest)
      /\ \A u \in Threads : Knows(u, last[u], g)
  BY <1>1 DEF ArrayAt
<1>4. PICK f : f = TicketFlag(g)
  OBVIOUS
<1>5. f \in ArrayLocs /\ f # tail /\ f # Payload
  BY <1>4, SlotTypes
<1>6. pc[t] = "unlock" /\ pc' = [pc EXCEPT ![t] = "grant"] /\ slot' = slot
  BY DEF Lower, Within, Goto
<1>7. Served(t) /\ Past(t) /\ ArrayQueued(t) /\ Inside(t) /\ last[t] = g /\ slot[t] = SlotOf(g)
  BY <1>3, <1>6 DEF Served, Past, ArrayQueued, Inside, Tickets
<1>8. PICK value \in Values : value = FALSE
  BY ValuesIn
<1>9. Store(t, f, value, "relaxed")
  BY <1>4, <1>7, <1>8 DEF Lower, TicketFlag
<1>10. PICK view \in [ArrayLocs -> Nat] :
        /\ MemOK(ArrayLocs)' /\ Learns(ArrayLocs, t)
        /\ seen'[t][f] = Newest(f) + 1 /\ \A l \in ArrayLocs \ {f} : seen'[t][l] = seen[t][l]
        /\ Added(ArrayLocs, f, value, view)
  BY <1>2, <1>5, <1>9, StoreEffect
<1>11. /\ Newest(f)' = Newest(f) + 1
       /\ written'[f][Newest(f) + 1].value = FALSE
       /\ \A l \in ArrayLocs \ {f} : written'[l] = written[l]
  BY <1>8, <1>10 DEF Added
<1>12. /\ pc'[t] = "grant" /\ \A u \in Threads \ {t} : pc'[u] = pc[u] /\ seen'[u] = seen[u]
       /\ ArrayQueued(t)' /\ Served(t)' /\ Past(t)' /\ ~Inside(t)'
  BY <1>2, <1>6, <1>10 DEF ArrayTypes, Learns, ArrayQueued, Served, Past, Inside
<1>13. \A u \in Threads \ {t} : /\ Knows(u, last[u], g)' /\ ~Served(u) /\ ~Past(u) /\ pc[u] # "grant"
                                /\ ArrayQueued(u)' = ArrayQueued(u)
  <2>1. \A u \in Threads \ {t} : Knows(u, last[u], g)' /\ ~Served(u) /\ ~Past(u) /\ pc[u] # "grant"
    <3>1. g \in Int
      OBVIOUS
    <3>2. QED
      BY <1>3, <1>7, <1>12, <3>1, OthersKnow
  <2>2. QED
    BY <1>12, <2>1 DEF ArrayQueued
<1>14. \A u \in Threads \ {t} : ~Served(u)'
  BY <1>12, <1>13 DEF Served
<1>15. PICK number \in Nat : number = Turn(g) /\ number >= 1
  BY SlotTypes
<1>16. Newest(f) = number
  <2>1. \A u \in Threads : pc[u] # "grant"
    BY <1>6, <1>13
  <2>2. QED
    BY <1>3, <1>4, <1>15, <2>1 DEF Flags
<1>17. Newest(Payload) = g + 2
  BY <1>3, <1>7 DEF Counted
<1>18. PICK mine \in [ArrayLocs -> Nat], known \in [ArrayLocs -> Nat] :
         mine = seen[t] /\ known = seen'[t] /\ \A l \in ArrayLocs : mine[l] <= known[l]
  BY <1>2, <1>10 DEF MemOK, Learns
<1>19. Covers(known, g + 1) /\ Covers(known, g)
  <2>1. Covers(mine, g) /\ mine[Payload] >= g + 2
    BY <1>3, <1>7, <1>17, <1>18 DEF Knows
  <2>2. g \in Int
    OBVIOUS
  <2>3. Covers(known, g)
    BY <1>18, <2>1, <2>2, CoversKept
  <2>4. known[Payload] >= g + 1 + 1
    BY <1>2, <1>18, <2>1
  <2>5. known[f] = number + 1
    BY <1>10, <1>16, <1>18
  <2>6. ASSUME NEW i \in 0 .. g + 1 - 1 PROVE known[TicketFlag(i)] >= Turn(i) + 1
    <3>1. CASE i = g
      BY <1>4, <1>15, <2>5, <3>1
    <3>2. CASE i # g
      <4>1. i \in 0 .. g - 1
        BY <3>2
      <4>2. QED
        BY <2>3, <4>1 DEF Covers
    <3>3. QED
      BY <3>1, <3>2
  <2>7. QED
    BY <2>3, <2>4, <2>6 DEF Covers
<1>20. Knows(t, g, g)'
  BY <1>12, <1>18, <1>19 DEF Knows
<1>21. Newest(tail)' = Newest(tail) /\ Drawn' = Drawn /\ Last(tail)' = Last(tail)
       /\ written'[tail] = written[tail]
  BY <1>2, <1>5, <1>11 DEF Newest, Drawn, Last
<1>22. Tickets(g, oldest, last)'
  <2>1. \A u \in Threads : ArrayQueued(u)' = ArrayQueued(u)
    BY <1>6, <1>12 DEF ArrayQueued
  <2>2. \A u \in Threads : Served(u)' => last[u] = g
    BY <1>7, <1>14
  <2>3. QED
    BY <1>3, <1>6, <1>21, <2>1, <2>2 DEF Tickets
<1>23. Flags(g)'
  <2>1. ASSUME NEW i \in g + 1 .. g + NrThreads - 1 PROVE Down(i)'
    <3>1. i \in Nat /\ g < i /\ i < g + NrThreads /\ Down(i)
      BY <1>3, NrThreadsAssumption DEF Flags
    <3>2. TicketFlag(i) # f /\ TicketFlag(i) \in ArrayLocs
      BY <1>4, <3>1, SlotsApart, SlotTypes
    <3>3. written'[TicketFlag(i)] = written[TicketFlag(i)]
      BY <1>11, <3>2
    <3>4. QED
      BY <3>1, <3>3, DownKept
  <2>2. Down(g + NrThreads)'
    <3>1. TicketFlag(g + NrThreads) = f /\ Turn(g + NrThreads) = number + 2
      BY <1>4, <1>15, NextRound
    <3>2. Newest(f)' = number + 2 - 1
      BY <1>11, <1>16
    <3>3. Value(f, number + 2 - 1)' = FALSE
      <4>1. PICK n : n = number + 1
        OBVIOUS
      <4>2. written'[f][n].value = FALSE
        BY <1>11, <1>16, <4>1
      <4>3. number + 2 - 1 = n
        BY <4>1
      <4>4. QED
        BY <4>2, <4>3 DEF Value
    <3>4. QED
      BY <3>1, <3>2, <3>3 DEF Down
  <2>3. ~(\A u \in Threads : pc'[u] # "grant")
    BY <1>12
  <2>4. QED
    BY <2>1, <2>2, <2>3 DEF Flags
<1>24. Counted(g)'
  <2>1. Newest(Payload)' = Newest(Payload)
    BY <1>2, <1>5, <1>11 DEF Newest
  <2>2. QED
    BY <1>12, <1>17, <2>1 DEF Counted
<1>25. ArrayAt(g, oldest, last)'
  <2>1. \A u \in Threads : Knows(u, last[u], g)'
    BY <1>7, <1>13, <1>20
  <2>2. Covers(written'[tail][Newest(tail)'].view, oldest)
    BY <1>3, <1>21
  <2>3. QED
    BY <1>22, <1>23, <1>24, <2>1, <2>2 DEF ArrayAt
<1>26. ArrayTypes'
  <2>1. slot' \in [Threads -> Slots]
    BY <1>2, <1>6 DEF ArrayTypes
  <2>2. "grant" \in ArrayLabels \cup {"cs", "unlock", "done"}
    BY DEF ArrayLabels
  <2>3. QED
    BY <1>2, <1>6, <1>10, <2>1, <2>2, ArrayTypesKept
<1>27. QED
  BY <1>25, <1>26 DEF ArrayIInv

\* The next ticket is served, and its thread will know what this one does.
LEMMA GrantKeeps == ASSUME ArrayIInv, NEW t \in Threads, Grant(t) PROVE ArrayIInv'
<1>1. PICK g \in Nat, oldest \in Nat, last \in [Threads -> Nat \cup {-1}] : ArrayAt(g, oldest, last)
  BY DEF ArrayIInv
<1>2. ArrayTypes /\ MemOK(ArrayLocs) /\ tail \in ArrayLocs /\ Payload \in ArrayLocs /\ tail # Payload
  BY ArrayLocations DEF ArrayIInv, ArrayTypes
<1>3. /\ Tickets(g, oldest, last) /\ Flags(g) /\ Counted(g)
      /\ Covers(written[tail][Newest(tail)].view, oldest)
      /\ \A u \in Threads : Knows(u, last[u], g)
  BY <1>1 DEF ArrayAt
<1>4. PICK h \in Nat : h = g + 1
  OBVIOUS
<1>5. PICK f : f = TicketFlag(h)
  OBVIOUS
<1>6. f \in ArrayLocs /\ f # tail /\ f # Payload
  BY <1>5, SlotTypes
<1>7. PICK there \in {"lock", "done"} :
        pc[t] = "grant" /\ pc' = [pc EXCEPT ![t] = there] /\ slot' = slot
  BY DEF Grant, EndIteration, Goto
<1>8. Served(t) /\ Past(t) /\ last[t] = g /\ slot[t] = SlotOf(g)
  BY <1>3, <1>7 DEF Served, Past, ArrayQueued, Tickets
<1>9. PICK value \in Values : value = TRUE
  BY ValuesIn
<1>10. Store(t, f, value, "release")
  <2>1. (SlotOf(g) + 1) % NrThreads = SlotOf(h)
    BY <1>4, SlotSucc
  <2>2. QED
    BY <1>5, <1>8, <1>9, <2>1 DEF Grant, TicketFlag
<1>11. PICK view \in [ArrayLocs -> Nat] :
        /\ MemOK(ArrayLocs)' /\ Learns(ArrayLocs, t)
        /\ Added(ArrayLocs, f, value, view)
        /\ view[f] = Newest(f) + 1 /\ \A l \in ArrayLocs \ {f} : view[l] = seen[t][l]
  <2>1. /\ MemOK(ArrayLocs)' /\ Learns(ArrayLocs, t)
        /\ seen'[t][f] = Newest(f) + 1 /\ \A l \in ArrayLocs \ {f} : seen'[t][l] = seen[t][l]
        /\ \E view \in [ArrayLocs -> Nat] :
              /\ Added(ArrayLocs, f, value, view)
              /\ view[f] = Newest(f) + 1
              /\ Releases("release") => \A l \in ArrayLocs \ {f} : view[l] = seen[t][l]
    BY <1>2, <1>6, <1>10, StoreEffect
  <2>2. Releases("release")
    BY DEF Releases
  <2>3. QED
    BY <2>1, <2>2
<1>12. /\ Newest(f)' = Newest(f) + 1
       /\ \A n \in 1 .. Newest(f) : written'[f][n] = written[f][n]
       /\ written'[f][Newest(f) + 1].value = TRUE /\ written'[f][Newest(f) + 1].view = view
       /\ \A l \in ArrayLocs \ {f} : written'[l] = written[l]
  BY <1>9, <1>11 DEF Added
<1>13. /\ pc'[t] = there /\ \A u \in Threads \ {t} : pc'[u] = pc[u] /\ seen'[u] = seen[u]
       /\ ~ArrayQueued(t)' /\ ~Served(t)' /\ ~Past(t)' /\ ~Inside(t)' /\ pc'[t] \notin {"spin", "grant"}
  BY <1>2, <1>7, <1>11 DEF ArrayTypes, Learns, ArrayQueued, Served, Past, Inside
<1>14. \A u \in Threads \ {t} : Knows(u, last[u], h)' /\ ~Served(u) /\ ~Past(u) /\ pc[u] # "grant"
  <2>1. h \in Int
    OBVIOUS
  <2>2. QED
    BY <1>3, <1>8, <1>13, <2>1, OthersKnow
<1>15. \A u \in Threads : ~Served(u)' /\ ~Past(u)' /\ pc'[u] # "grant"
  BY <1>13, <1>14 DEF Served, Past
<1>16. PICK mine \in [ArrayLocs -> Nat], known \in [ArrayLocs -> Nat] :
         mine = seen[t] /\ known = seen'[t] /\ \A l \in ArrayLocs : mine[l] <= known[l] /\ mine[l] <= Newest(l)
  BY <1>2, <1>11 DEF MemOK, Learns
<1>17. Covers(mine, h)
  BY <1>3, <1>4, <1>7, <1>16 DEF Knows
<1>18. Covers(known, h) /\ Covers(view, h)
  <2>1. h \in Int
    OBVIOUS
  <2>2. \A l \in ArrayLocs : mine[l] <= view[l]
    <3> SUFFICES ASSUME NEW l \in ArrayLocs PROVE mine[l] <= view[l]
      OBVIOUS
    <3>1. CASE l = f
      <4>1. mine[f] <= Newest(f) /\ Newest(f) \in Nat /\ view[f] = Newest(f) + 1
        BY <1>2, <1>6, <1>11, <1>16 DEF MemOK
      <4>2. QED
        BY <1>6, <3>1, <4>1
    <3>2. CASE l # f
      BY <1>11, <1>16, <3>2
    <3>3. QED
      BY <3>1, <3>2
  <2>3. QED
    BY <1>16, <1>17, <2>1, <2>2, CoversKept
<1>19. ASSUME NEW i \in h .. g + NrThreads PROVE Down(i)
  <2>1. CASE i \in g + 1 .. g + NrThreads - 1
    BY <1>3, <2>1 DEF Flags
  <2>2. CASE i = g + NrThreads
    BY <1>3, <1>7, <2>2 DEF Flags
  <2>3. QED
    BY <1>4, <2>1, <2>2, NrThreadsAssumption
<1>20. PICK number \in Nat : number = Turn(h) /\ number >= 1
  BY SlotTypes
<1>21. Newest(f) = number - 1 /\ (number >= 2 => Value(f, number - 1) = FALSE)
  <2>1. h \in h .. g + NrThreads
    BY <1>4, NrThreadsAssumption
  <2>2. Down(h)
    BY <1>19, <2>1
  <2>3. QED
    BY <1>5, <1>20, <2>2 DEF Down
<1>22. Newest(tail)' = Newest(tail) /\ Drawn' = Drawn /\ Last(tail)' = Last(tail)
       /\ written'[tail] = written[tail]
  BY <1>2, <1>6, <1>12 DEF Newest, Drawn, Last
<1>23. Tickets(h, oldest, last)'
  <2>1. oldest <= h /\ h <= Drawn
    <3>1. PICK d \in Nat : d = Drawn
      BY <1>2 DEF MemOK, Drawn
    <3>2. oldest <= g /\ g < d
      BY <1>3, <1>8, <3>1 DEF Tickets
    <3>3. QED
      BY <1>4, <3>1, <3>2
  <2>2. ASSUME NEW u \in Threads
        PROVE  /\ ArrayQueued(u)' <=> last[u] >= h
               /\ ArrayQueued(u)' => slot'[u] = SlotOf(last[u])
    <3>1. CASE u = t
      BY <1>4, <1>8, <1>13, <3>1
    <3>2. CASE u # t
      <4>1. last[u] # g
        BY <1>3, <1>8, <3>2 DEF Tickets
      <4>2. /\ ArrayQueued(u) <=> last[u] >= g
            /\ ArrayQueued(u) => slot[u] = SlotOf(last[u])
        BY <1>3 DEF Tickets
      <4>3. ArrayQueued(u)' <=> ArrayQueued(u)
        BY <1>13, <3>2 DEF ArrayQueued
      <4>4. last[u] >= g <=> last[u] >= h
        BY <1>4, <4>1
      <4>5. QED
        BY <1>7, <4>2, <4>3, <4>4
    <3>3. QED
      BY <3>1, <3>2
  <2>3. QED
    BY <1>3, <1>15, <1>22, <2>1, <2>2 DEF Tickets
<1>24. Flags(h)'
  <2>1. ASSUME NEW i \in h + 1 .. h + NrThreads - 1 PROVE Down(i)'
    <3>1. i \in Nat /\ h < i /\ i < h + NrThreads /\ i \in h .. g + NrThreads
      BY <1>4, NrThreadsAssumption
    <3>2. Down(i)
      BY <1>19, <3>1
    <3>3. TicketFlag(i) # f /\ TicketFlag(i) \in ArrayLocs
      BY <1>5, <3>1, SlotsApart, SlotTypes
    <3>4. written'[TicketFlag(i)] = written[TicketFlag(i)]
      BY <1>12, <3>3
    <3>5. QED
      BY <3>1, <3>2, <3>4, DownKept
  <2>2. Newest(f)' = number
    BY <1>12, <1>20, <1>21
  <2>3. number = Newest(f) + 1
    BY <1>20, <1>21
  <2>4. written'[f][number].value = TRUE /\ written'[f][number].view = view
    BY <1>12, <2>3
  <2>5. number >= 2 => written'[f][number - 1].value = FALSE
    <3>1. SUFFICES ASSUME number >= 2 PROVE written'[f][number - 1].value = FALSE
      OBVIOUS
    <3>2. PICK n \in 1 .. Newest(f) : n = number - 1
      BY <1>20, <1>21, <3>1
    <3>3. Value(f, n) = FALSE
      BY <1>21, <3>1, <3>2
    <3>4. written'[f][n].value = FALSE
      BY <1>12, <3>2, <3>3 DEF Value
    <3>5. QED
      BY <3>2, <3>4
  <2>6. ~(\E u \in Threads : pc'[u] = "grant")
    BY <1>15
  <2>7. Newest(TicketFlag(h))' = Turn(h) /\ Value(TicketFlag(h), Turn(h))' = TRUE
        /\ (Turn(h) >= 2 => Value(TicketFlag(h), Turn(h) - 1)' = FALSE)
        /\ Covers(written'[TicketFlag(h)][Turn(h)].view, h)
    BY <1>5, <1>18, <1>20, <2>2, <2>4, <2>5 DEF Value
  <2>8. QED
    BY <2>1, <2>6, <2>7 DEF Flags
<1>25. Counted(h)'
  <2>1. Newest(Payload)' = Newest(Payload)
    BY <1>2, <1>6, <1>12 DEF Newest
  <2>2. Newest(Payload) = g + 2
    BY <1>3, <1>8 DEF Counted
  <2>3. g + 2 = h + 1
    BY <1>4
  <2>4. QED
    BY <1>15, <2>1, <2>2, <2>3 DEF Counted
<1>26. Knows(t, g, h)'
  BY <1>4, <1>13, <1>16, <1>18 DEF Knows
<1>27. ArrayAt(h, oldest, last)'
  <2>1. \A u \in Threads : Knows(u, last[u], h)'
    BY <1>8, <1>14, <1>26
  <2>2. Covers(written'[tail][Newest(tail)'].view, oldest)
    BY <1>3, <1>22
  <2>3. QED
    BY <1>23, <1>24, <1>25, <2>1, <2>2 DEF ArrayAt
<1>28. ArrayTypes'
  <2>1. slot' \in [Threads -> Slots]
    BY <1>2, <1>7 DEF ArrayTypes
  <2>2. there \in ArrayLabels \cup {"cs", "unlock", "done"}
    BY DEF ArrayLabels
  <2>3. QED
    BY <1>2, <1>7, <1>11, <2>1, <2>2, ArrayTypesKept
<1>29. QED
  BY <1>27, <1>28 DEF ArrayIInv

LEMMA ArrayInitHolds == ArrayInit => ArrayIInv
<1> SUFFICES ASSUME ArrayInit PROVE ArrayIInv
  OBVIOUS
<1>1. BenchInit("lock", "done",
        [l \in {tail} \cup {Flag(s) : s \in Slots} |-> IF l = tail THEN 0 ELSE l = Flag(0)])
  BY DEF ArrayInit
<1>2. PICK first : first = [l \in ArrayLocs |-> IF l = Payload THEN 0
                                                ELSE IF l = tail THEN 0 ELSE l = Flag(0)]
  OBVIOUS
<1>3. tail \in ArrayLocs /\ Payload \in ArrayLocs /\ tail # Payload
  BY ArrayLocations
<1>4. \A l \in ArrayLocs : first[l] \in Values
  BY <1>2, ValuesIn DEF Values
<1>5. PICK none \in [ArrayLocs -> Nat] : none = [l \in ArrayLocs |-> 0]
  OBVIOUS
<1>6. /\ written = [l \in ArrayLocs |-> <<[value |-> first[l], view |-> none]>>]
      /\ seen = [t \in Threads |-> [l \in ArrayLocs |-> 1]]
  <2>1. ArrayLocs = ({tail} \cup {Flag(s) : s \in Slots}) \cup {Payload}
    BY DEF ArrayLocs
  <2>2. MemoryInit(Threads, first)
    <3>1. first = [l \in ({tail} \cup {Flag(s) : s \in Slots}) \cup {Payload} |->
              IF l = Payload THEN 0
              ELSE [m \in {tail} \cup {Flag(s) : s \in Slots} |->
                     IF m = tail THEN 0 ELSE m = Flag(0)][l]]
      BY <1>2, <2>1
    <3>2. QED
      BY <1>1, <3>1 DEF BenchInit
  <2>3. DOMAIN first = ArrayLocs
    BY <1>2
  <2>4. QED
    BY <1>5, <2>2, <2>3 DEF MemoryInit
<1>7. ASSUME NEW l \in ArrayLocs
      PROVE  /\ written[l] \in Seq(MessagesOf(ArrayLocs)) /\ Len(written[l]) = 1
             /\ written[l][1].value = first[l] /\ written[l][1].view = none
  <2>1. PICK m \in MessagesOf(ArrayLocs) : m = [value |-> first[l], view |-> none]
    BY <1>4, <1>5 DEF MessagesOf
  <2>2. m.value = first[l] /\ m.view = none
    BY <2>1
  <2>3. written[l] = <<m>>
    BY <1>6, <2>1
  <2>4. <<m>> \in Seq(MessagesOf(ArrayLocs)) /\ Len(<<m>>) = 1 /\ <<m>>[1] = m
    OBVIOUS
  <2>5. QED
    BY <2>2, <2>3, <2>4
<1>8. \A l \in ArrayLocs : Newest(l) = 1 /\ Value(l, 1) = first[l]
  BY <1>7 DEF Newest, Value
<1>9. MemOK(ArrayLocs)
  <2>1. written \in [ArrayLocs -> Seq(MessagesOf(ArrayLocs))]
    BY <1>6, <1>7
  <2>2. \A l \in ArrayLocs : \A n \in 1 .. Newest(l) : \A loc \in ArrayLocs : written[l][n].view[loc] <= Newest(loc)
    BY <1>5, <1>7, <1>8
  <2>3. QED
    BY <1>6, <1>8, <2>1, <2>2 DEF MemOK
<1>10. \A t \in Threads : /\ pc[t] \in {"lock", "done"} /\ ~ArrayQueued(t) /\ ~Served(t)
                          /\ ~Past(t) /\ ~Inside(t)
  BY <1>1 DEF BenchInit, ArrayQueued, Served, Past, Inside
<1>11. ArrayTypes
  <2>1. pc \in [Threads -> ArrayLabels \cup {"cs", "unlock", "done"}]
    BY <1>1 DEF BenchInit, ArrayLabels
  <2>2. slot \in [Threads -> Slots]
    BY NrThreadsAssumption DEF ArrayInit, Slots
  <2>3. QED
    BY <1>9, <2>1, <2>2 DEF ArrayTypes
<1>12. PICK last \in [Threads -> Nat \cup {-1}] : last = [t \in Threads |-> -1]
  OBVIOUS
<1>13. PICK g \in Nat : g = 0
  OBVIOUS
<1>14. Newest(tail) = 1 /\ Drawn = 0 /\ Last(tail) = 0 /\ written[tail][1].view = none
  <2>1. first[tail] = 0
    BY <1>2, <1>3
  <2>2. QED
    BY <1>3, <1>7, <1>8, <2>1 DEF Drawn, Last
<1>15. \A v : Covers(v, 0)
  BY DEF Covers
<1>16. Tickets(g, g, last)
  BY <1>10, <1>12, <1>13, <1>14 DEF Tickets
<1>17. Flags(g)
  <2>1. ASSUME NEW i \in 0 .. NrThreads - 1
        PROVE  /\ TicketFlag(i) = Flag(i) /\ Turn(i) = (IF i = 0 THEN 1 ELSE 2)
               /\ Newest(TicketFlag(i)) = 1 /\ Value(TicketFlag(i), 1) = (i = 0)
    <3>1. SlotOf(i) = i /\ Turn(i) = IF i = 0 THEN 1 ELSE 2
      BY FirstRound
    <3>2. i \in Slots /\ 0 \in Slots
      BY NrThreadsAssumption DEF Slots
    <3>3. Flag(i) \in ArrayLocs /\ Flag(i) # tail /\ Flag(i) # Payload /\ (Flag(i) = Flag(0) <=> i = 0)
      BY <3>2, ArrayLocations
    <3>4. first[Flag(i)] = (i = 0)
      BY <1>2, <3>3
    <3>5. QED
      BY <1>8, <3>1, <3>3, <3>4 DEF TicketFlag
  <2>2. ASSUME NEW i \in g + 1 .. g + NrThreads - 1 PROVE Down(i)
    <3>1. i \in 0 .. NrThreads - 1 /\ i # 0
      BY <1>13, NrThreadsAssumption
    <3>2. Turn(i) = 2 /\ Newest(TicketFlag(i)) = 1 /\ Value(TicketFlag(i), 1) = FALSE
      BY <2>1, <3>1
    <3>3. Newest(TicketFlag(i)) = Turn(i) - 1
      BY <3>2
    <3>4. Value(TicketFlag(i), Turn(i) - 1) = FALSE
      <4>1. Turn(i) - 1 = 1
        BY <3>2
      <4>2. QED
        BY <3>2, <4>1
    <3>5. QED
      BY <3>3, <3>4 DEF Down
  <2>3. Newest(TicketFlag(g)) = Turn(g) /\ Value(TicketFlag(g), Turn(g)) = TRUE /\ Turn(g) = 1
    <3>1. 0 \in 0 .. NrThreads - 1
      BY NrThreadsAssumption
    <3>2. Turn(0) = 1 /\ Newest(TicketFlag(0)) = 1 /\ Value(TicketFlag(0), 1) = TRUE
      BY <2>1, <3>1
    <3>3. QED
      BY <1>13, <3>2
  <2>4. \A t \in Threads : pc[t] # "grant"
    BY <1>10
  <2>5. QED
    BY <1>13, <1>15, <2>2, <2>3, <2>4 DEF Flags
<1>18. Counted(g)
  BY <1>3, <1>8, <1>10, <1>13 DEF Counted
<1>19. \A t \in Threads : Knows(t, last[t], g)
  <2> SUFFICES ASSUME NEW t \in Threads PROVE Knows(t, last[t], g)
    OBVIOUS
  <2>1. last[t] + 1 = 0
    BY <1>12
  <2>2. QED
    BY <1>10, <1>15, <2>1 DEF Knows
<1>20. ArrayAt(g, g, last)
  <2>1. Covers(written[tail][Newest(tail)].view, g)
    BY <1>13, <1>15
  <2>2. QED
    BY <1>16, <1>17, <1>18, <1>19, <2>1 DEF ArrayAt
<1>21. QED
  BY <1>11, <1>20 DEF ArrayIInv

LEMMA ArrayStepKeeps == ArrayIInv /\ [ArrayNext]_arrayVars => ArrayIInv'
<1> SUFFICES ASSUME ArrayIInv, [ArrayNext]_arrayVars PROVE ArrayIInv'
  OBVIOUS
<1>1. CASE UNCHANGED arrayVars
  <2>1. UNCHANGED <<written, seen, pc, slot>>
    BY <1>1 DEF arrayVars, benchVars, memoryVars
  <2>2. ArrayTypes'
    BY <2>1 DEF ArrayIInv, ArrayTypes, MemOK, Newest
  <2>3. PICK g \in Nat, oldest \in Nat, last \in [Threads -> Nat \cup {-1}] : ArrayAt(g, oldest, last)
    BY DEF ArrayIInv
  <2>4. ArrayAt(g, oldest, last)'
    BY <2>1, <2>3 DEF ArrayAt, Tickets, Flags, Down, Counted, Knows, ArrayQueued, Served, Past,
                      Inside, Value, Newest, Drawn, Last
  <2>5. QED
    BY <2>2, <2>4 DEF ArrayIInv
<1>2. CASE ArrayNext
  BY <1>2, DrawKeeps, SpinOnSlotKeeps, WorkWithSlotKeeps, LowerKeeps, GrantKeeps
     DEF ArrayNext, ArrayStep
<1>3. QED
  BY <1>1, <1>2

LEMMA ArrayInvariant == ArraySpec => []ArrayIInv
BY ArrayInitHolds, ArrayStepKeeps, PTL DEF ArraySpec

\* In the array lock (arraylock_ar.cpp) no two threads are inside, and the one that
\* is inside has seen the write of every section before, although unlock() lowers its
\* flag by a relaxed store and a slot is used again every NrThreads tickets: no load
\* of the waiting thread finds the flag still up from the ticket before.
THEOREM RelaxedArrayOrders == ArraySpec => [](MutualExclusion /\ SectionsOrdered)
<1>1. ASSUME ArrayIInv PROVE MutualExclusion /\ SectionsOrdered
  <2>1. PICK g \in Nat, oldest \in Nat, last \in [Threads -> Nat \cup {-1}] : ArrayAt(g, oldest, last)
    BY <1>1 DEF ArrayIInv
  <2>2. DOMAIN pc = Threads /\ DOMAIN seen = Threads
    BY <1>1 DEF ArrayIInv, ArrayTypes, MemOK
  <2>3. \A t \in Threads : Inside(t) => Served(t)
    BY DEF Inside, Served
  <2>4. \A t, u \in Threads : Inside(t) /\ Inside(u) => t = u
    BY <2>1, <2>3 DEF ArrayAt, Tickets
  <2>5. ASSUME NEW t \in Threads, pc[t] = "cs" PROVE seen[t][Payload] = Newest(Payload)
    <3>1. seen[t][Payload] >= Newest(Payload)
      BY <2>1, <2>5 DEF ArrayAt, Knows, Inside
    <3>2. seen[t][Payload] <= Newest(Payload) /\ seen[t][Payload] \in Nat /\ Newest(Payload) \in Nat
      BY <1>1, ArrayLocations DEF ArrayIInv, ArrayTypes, MemOK
    <3>3. QED
      BY <3>1, <3>2
  <2>6. QED
    BY <2>2, <2>4, <2>5 DEF MutualExclusion, SectionsOrdered
<1>2. QED
  BY <1>1, ArrayInvariant, PTL

-----------------------------------------------------------------------------
(* Peterson's lock *)

PetersonLocs == {turn, FlagOf(0), FlagOf(1), Payload}

\* Thread t has not yet left the execution, ...
Active(t) == pc[t] \in {"flag", "turn", "load", "check", "cs", "unlock"}

\* ... has raised its flag, ...
Raised(t) == pc[t] \in {"turn", "load", "check", "cs", "unlock"}

\* ... and has given turn away.
Engaged(t) == pc[t] \in {"load", "check", "cs", "unlock"}

PetersonTypes ==
  /\ MemOK(PetersonLocs)
  /\ pc \in [Threads -> PetersonLabels \cup {"cs", "unlock", "done"}]

\* Thread t knows the last store of location l, ...
UpToDate(t, l) == seen[t][l] >= Newest(l)

\* ... and whoever reads the last message of turn does.
Told(l) == written[turn][Newest(turn)].view[l] >= Newest(l)

\* The flags that are raised, and that the last message of turn tells of those of
\* the engaged threads.
FlagsRaised ==
  \A t \in Threads :
    /\ UpToDate(t, FlagOf(t))
    /\ Raised(t) => Value(FlagOf(t), Newest(FlagOf(t))) = 1
    /\ Engaged(t) => Told(FlagOf(t))

\* Thread w gave turn away last; it knows that, and the other's flag.
IsLast(w) ==
  /\ Last(turn) = Other(w)
  /\ UpToDate(w, turn) /\ UpToDate(w, FlagOf(Other(w)))

\* Of two engaged threads, the one that gave turn away last waits.
LastWaits ==
  \A t \in Threads : Engaged(t) /\ Engaged(Other(t)) =>
    \E w \in {t, Other(t)} : pc[w] \in {"load", "check"} /\ IsLast(w)

\* A thread that has left resets the lock, and the other is alone.
PetersonIInv == PetersonTypes /\ ((\A t \in Threads : Active(t)) => FlagsRaised /\ LastWaits)

LEMMA PetersonLocations ==
  ASSUME NrThreads = 2, NEW t \in Threads
  PROVE  /\ Threads = {0, 1} /\ Other(t) \in Threads /\ Other(t) # t /\ Other(Other(t)) = t
         /\ Threads = {t, Other(t)}
         /\ turn \in PetersonLocs /\ Payload \in PetersonLocs /\ FlagOf(t) \in PetersonLocs
         /\ turn # Payload /\ FlagOf(t) # turn /\ FlagOf(t) # Payload /\ FlagOf(Other(t)) # FlagOf(t)
<1>1. Threads = {0, 1}
  BY DEF Threads
<1>2. \A u \in Threads : Other(u) \in Threads /\ Other(u) # u /\ Other(Other(u)) = u /\ Threads = {u, Other(u)}
  BY <1>1 DEF Other
<1>3. /\ turn \in PetersonLocs /\ Payload \in PetersonLocs /\ FlagOf(t) \in PetersonLocs
      /\ turn # Payload /\ FlagOf(t) # turn /\ FlagOf(t) # Payload /\ FlagOf(Other(t)) # FlagOf(t)
  BY <1>1, <1>2 DEF PetersonLocs, turn, Payload, FlagOf
<1>4. QED
  BY <1>1, <1>2, <1>3

\* What the types say of a location.
LEMMA PetersonNumbers ==
  ASSUME PetersonTypes
  PROVE  \A l \in PetersonLocs :
           /\ Newest(l) \in Nat \ {0}
           /\ \A t \in Threads : seen[t][l] \in Nat /\ seen[t][l] <= Newest(l)
           /\ \A loc \in PetersonLocs : written[l][Newest(l)].view[loc] \in Nat
<1> SUFFICES ASSUME NEW l \in PetersonLocs
             PROVE  /\ Newest(l) \in Nat \ {0}
                    /\ \A t \in Threads : seen[t][l] \in Nat /\ seen[t][l] <= Newest(l)
                    /\ \A loc \in PetersonLocs : written[l][Newest(l)].view[loc] \in Nat
  OBVIOUS
<1>1. Newest(l) \in Nat \ {0} /\ \A t \in Threads : seen[t][l] \in Nat /\ seen[t][l] <= Newest(l)
  BY DEF PetersonTypes, MemOK
<1>2. written[l][Newest(l)].view \in [PetersonLocs -> Nat]
  BY <1>1, MessageTypes DEF PetersonTypes
<1>3. QED
  BY <1>1, <1>2

\* Who is engaged, raised or active after thread t has gone from here to there.
LEMMA PetersonGoes ==
  ASSUME PetersonTypes, NEW t \in Threads, NEW there, pc' = [pc EXCEPT ![t] = there]
  PROVE  /\ pc'[t] = there /\ \A u \in Threads \ {t} : pc'[u] = pc[u]
         /\ \A u \in Threads \ {t} : /\ Engaged(u)' <=> Engaged(u)
                                     /\ Raised(u)' <=> Raised(u)
                                     /\ Active(u)' <=> Active(u)
         /\ there \in PetersonLabels \cup {"cs", "unlock", "done"} =>
              pc' \in [Threads -> PetersonLabels \cup {"cs", "unlock", "done"}]
BY DEF PetersonTypes, Engaged, Raised, Active

\* A load of an engaged thread, which goes on waiting if it gave turn away last.
LEMMA PetersonLoads ==
  ASSUME NrThreads = 2, PetersonIInv, NEW t \in Threads, NEW l \in PetersonLocs, NEW n, NEW order,
         Load(t, l, n, order), pc[t] \in {"load", "check"},
         NEW there \in {"load", "check", "cs"}, pc' = [pc EXCEPT ![t] = there],
         (\A u \in Threads : Active(u)) /\ Engaged(Other(t)) /\ IsLast(t) => there # "cs"
  PROVE  PetersonIInv'
<1>1. PetersonTypes
  BY DEF PetersonIInv
<1>2. MemOK(PetersonLocs)' /\ written' = written /\ Learns(PetersonLocs, t)
  BY <1>1, LoadEffect DEF PetersonTypes
<1>3. /\ pc'[t] = there /\ \A u \in Threads \ {t} : pc'[u] = pc[u]
      /\ \A u \in Threads \ {t} : (Engaged(u)' <=> Engaged(u)) /\ (Raised(u)' <=> Raised(u)) /\ (Active(u)' <=> Active(u))
      /\ pc' \in [Threads -> PetersonLabels \cup {"cs", "unlock", "done"}]
  BY <1>1, PetersonGoes DEF PetersonLabels
<1>4. PetersonTypes'
  BY <1>2, <1>3 DEF PetersonTypes
<1>5. ASSUME \A u \in Threads : Active(u)' PROVE FlagsRaised' /\ LastWaits'
  <2>1. Engaged(t) /\ Raised(t) /\ Active(t) /\ Engaged(t)' /\ Raised(t)'
    BY <1>3 DEF Engaged, Raised, Active
  <2>2. FlagsRaised /\ LastWaits /\ \A u \in Threads : Active(u)
    BY <1>3, <1>5, <2>1 DEF PetersonIInv
  <2>3. \A loc \in PetersonLocs : Newest(loc)' = Newest(loc) /\ Newest(loc) \in Nat
    BY <1>1, <1>2, PetersonNumbers DEF Newest
  <2>4. \A u \in Threads : \A loc \in PetersonLocs : UpToDate(u, loc) => UpToDate(u, loc)'
    <3> SUFFICES ASSUME NEW u \in Threads, NEW loc \in PetersonLocs, UpToDate(u, loc)
                 PROVE  UpToDate(u, loc)'
      OBVIOUS
    <3>1. seen'[u][loc] \in Nat /\ seen[u][loc] \in Nat /\ seen[u][loc] <= seen'[u][loc]
      <4>1. CASE u = t
        BY <1>1, <1>2, <4>1, PetersonNumbers DEF Learns
      <4>2. CASE u # t
        BY <1>1, <1>2, <4>2, PetersonNumbers DEF Learns
      <4>3. QED
        BY <4>1, <4>2
    <3>2. QED
      BY <2>3, <3>1 DEF UpToDate
  <2>5. \A u \in Threads : Engaged(u)' => Engaged(u)
    BY <1>3, <2>1
  <2>6. \A u \in Threads : Raised(u)' => Raised(u)
    BY <1>3, <2>1
  <2>7. FlagsRaised'
    <3> SUFFICES ASSUME NEW u \in Threads
                 PROVE  /\ UpToDate(u, FlagOf(u))'
                        /\ Raised(u)' => Value(FlagOf(u), Newest(FlagOf(u)))' = 1
                        /\ Engaged(u)' => Told(FlagOf(u))'
      BY DEF FlagsRaised
    <3>1. FlagOf(u) \in PetersonLocs /\ turn \in PetersonLocs
      BY PetersonLocations
    <3>2. UpToDate(u, FlagOf(u))'
      BY <2>2, <2>4, <3>1 DEF FlagsRaised
    <3>3. Raised(u)' => Value(FlagOf(u), Newest(FlagOf(u)))' = 1
      BY <1>2, <2>2, <2>6 DEF FlagsRaised, Value, Newest
    <3>4. Engaged(u)' => Told(FlagOf(u))'
      BY <1>2, <2>2, <2>5 DEF FlagsRaised, Told, Newest
    <3>5. QED
      BY <3>2, <3>3, <3>4
  <2>8. LastWaits'
    <3> SUFFICES ASSUME NEW a \in Threads, Engaged(a)', Engaged(Other(a))'
                 PROVE  \E w \in {a, Other(a)} : pc'[w] \in {"load", "check"} /\ IsLast(w)'
      BY DEF LastWaits
    <3>1. Other(a) \in Threads
      BY PetersonLocations
    <3>2. PICK w \in {a, Other(a)} : pc[w] \in {"load", "check"} /\ IsLast(w)
      BY <2>2, <2>5, <3>1 DEF LastWaits
    <3>3. w \in Threads /\ Other(w) \in Threads
      BY <3>1, PetersonLocations
    <3>4. turn \in PetersonLocs /\ FlagOf(Other(w)) \in PetersonLocs
      BY <3>3, PetersonLocations
    <3>5. IsLast(w)'
      BY <1>2, <2>4, <3>2, <3>3, <3>4 DEF IsLast, Last, Newest
    <3>6. pc'[w] \in {"load", "check"}
      <4>1. CASE w = t
        <5>1. Engaged(Other(t))
          <6>1. {a, Other(a)} = {t, Other(t)}
            BY <4>1, PetersonLocations
          <6>2. QED
            BY <2>1, <2>5, <6>1, <3>1
        <5>2. QED
          BY <1>3, <2>2, <3>2, <4>1, <5>1
      <4>2. CASE w # t
        BY <1>3, <3>2, <3>3, <4>2
      <4>3. QED
        BY <4>1, <4>2
    <3>7. QED
      BY <3>5, <3>6
  <2>9. QED
    BY <2>7, <2>8
<1>6. QED
  BY <1>4, <1>5 DEF PetersonIInv

LEMMA LoadFlagKeeps == ASSUME NrThreads = 2, PetersonIInv, NEW t \in Threads, LoadFlag(t) PROVE PetersonIInv'
<1>1. PICK n \in Visible(t, FlagOf(Other(t))) :
        /\ Load(t, FlagOf(Other(t)), n, "acquire")
        /\ Within(t, "load", IF written[FlagOf(Other(t))][n].value = 1 THEN "check" ELSE "cs")
  BY DEF LoadFlag
<1>2. PICK there : there = IF written[FlagOf(Other(t))][n].value = 1 THEN "check" ELSE "cs"
  OBVIOUS
<1>3. there \in {"load", "check", "cs"} /\ pc[t] \in {"load", "check"} /\ pc' = [pc EXCEPT ![t] = there]
  BY <1>1, <1>2 DEF Within, Goto
<1>4. Other(t) \in Threads /\ FlagOf(Other(t)) \in PetersonLocs
  <2>1. Other(t) \in Threads
    BY PetersonLocations
  <2>2. QED
    BY <2>1, PetersonLocations
<1>5. ASSUME \A u \in Threads : Active(u), Engaged(Other(t)), IsLast(t) PROVE there # "cs"
  <2>1. FlagsRaised /\ Raised(Other(t))
    BY <1>5 DEF PetersonIInv, Engaged, Raised
  <2>2. Value(FlagOf(Other(t)), Newest(FlagOf(Other(t)))) = 1
    BY <1>4, <2>1 DEF FlagsRaised
  <2>3. n \in seen[t][FlagOf(Other(t))] .. Newest(FlagOf(Other(t)))
    BY DEF Visible
  <2>4. n = Newest(FlagOf(Other(t)))
    BY <1>4, <1>5, <2>3, PetersonNumbers DEF IsLast, UpToDate, PetersonIInv
  <2>5. QED
    BY <1>2, <2>2, <2>4 DEF Value
<1>6. QED
  BY <1>1, <1>3, <1>4, <1>5, PetersonLoads

LEMMA CheckTurnKeeps == ASSUME NrThreads = 2, PetersonIInv, NEW t \in Threads, CheckTurn(t) PROVE PetersonIInv'
<1>1. PICK n \in Visible(t, turn) :
        /\ Load(t, turn, n, "relaxed")
        /\ Within(t, "check", IF written[turn][n].value = Other(t) THEN "load" ELSE "cs")
  BY DEF CheckTurn
<1>2. PICK there : there = IF written[turn][n].value = Other(t) THEN "load" ELSE "cs"
  OBVIOUS
<1>3. there \in {"load", "check", "cs"} /\ pc[t] \in {"load", "check"} /\ pc' = [pc EXCEPT ![t] = there]
  BY <1>1, <1>2 DEF Within, Goto
<1>4. turn \in PetersonLocs
  BY PetersonLocations
<1>5. ASSUME \A u \in Threads : Active(u), Engaged(Other(t)), IsLast(t) PROVE there # "cs"
  <2>1. n \in seen[t][turn] .. Newest(turn)
    BY DEF Visible
  <2>2. n = Newest(turn)
    BY <1>4, <1>5, <2>1, PetersonNumbers DEF IsLast, UpToDate, PetersonIInv
  <2>3. QED
    BY <1>2, <1>5, <2>2 DEF IsLast, Last
<1>6. QED
  BY <1>1, <1>3, <1>4, <1>5, PetersonLoads

\* A thread that is not engaged raises or lowers its flag.
LEMMA FlagStored ==
  ASSUME NrThreads = 2, PetersonIInv, NEW t \in Threads, NEW value \in {0, 1}, NEW order,
         Store(t, FlagOf(t), value, order),
         NEW there \in {"turn", "flag", "reset0"}, pc' = [pc EXCEPT ![t] = there],
         Active(t), there = "turn" => value = 1
  PROVE  PetersonIInv'
<1>1. PetersonTypes
  BY DEF PetersonIInv
<1>2. PICK f \in PetersonLocs : f = FlagOf(t)
  BY PetersonLocations
<1>3. value \in Values
  BY DEF Values
<1>4. /\ MemOK(PetersonLocs)' /\ Learns(PetersonLocs, t) /\ seen'[t][f] = Newest(f) + 1
      /\ \E view \in [PetersonLocs -> Nat] : Added(PetersonLocs, f, value, view)
  <2>1. Store(t, f, value, order)
    BY <1>2
  <2>2. QED
    BY <1>1, <1>3, <2>1, StoreEffect DEF PetersonTypes
<1>5. /\ Newest(f)' = Newest(f) + 1 /\ written'[f][Newest(f) + 1].value = value
      /\ \A loc \in PetersonLocs \ {f} : written'[loc] = written[loc] /\ Newest(loc)' = Newest(loc)
  BY <1>4 DEF Added
<1>6. /\ pc'[t] = there /\ \A u \in Threads \ {t} : pc'[u] = pc[u]
      /\ \A u \in Threads \ {t} : (Engaged(u)' <=> Engaged(u)) /\ (Raised(u)' <=> Raised(u)) /\ (Active(u)' <=> Active(u))
      /\ pc' \in [Threads -> PetersonLabels \cup {"cs", "unlock", "done"}]
  BY <1>1, PetersonGoes DEF PetersonLabels
<1>7. PetersonTypes'
  BY <1>4, <1>6 DEF PetersonTypes
<1>8. ASSUME \A u \in Threads : Active(u)' PROVE FlagsRaised' /\ LastWaits'
  <2>1. ~Engaged(t)' /\ (Raised(t)' => value = 1)
    BY <1>6 DEF Engaged, Raised
  <2>2. FlagsRaised /\ \A u \in Threads : Active(u)
    BY <1>6, <1>8 DEF PetersonIInv
  <2>3. LastWaits'
    BY <2>1, PetersonLocations DEF LastWaits
  <2>4. ASSUME NEW u \in Threads
        PROVE  /\ UpToDate(u, FlagOf(u))'
               /\ Raised(u)' => Value(FlagOf(u), Newest(FlagOf(u)))' = 1
               /\ Engaged(u)' => Told(FlagOf(u))'
    <3>1. CASE u = t
      <4>1. Newest(f) \in Nat
        BY <1>1, PetersonNumbers
      <4>2. UpToDate(t, f)'
        BY <1>4, <1>5, <4>1 DEF UpToDate
      <4>3. Raised(t)' => Value(f, Newest(f))' = 1
        BY <1>5, <2>1 DEF Value
      <4>4. QED
        BY <1>2, <2>1, <3>1, <4>2, <4>3
    <3>2. CASE u # t
      <4>1. PICK loc \in PetersonLocs \ {f} : loc = FlagOf(u)
        <5>1. FlagOf(u) \in PetersonLocs /\ u = Other(t)
          BY <3>2, PetersonLocations
        <5>2. FlagOf(u) # FlagOf(t)
          BY <5>1, PetersonLocations
        <5>3. QED
          BY <1>2, <5>1, <5>2
      <4>2. turn \in PetersonLocs \ {f}
        BY <1>2, PetersonLocations
      <4>3. written'[loc] = written[loc] /\ Newest(loc)' = Newest(loc) /\ written'[turn] = written[turn]
        BY <1>5, <4>1, <4>2
      <4>4. seen'[u] = seen[u] /\ (Engaged(u)' <=> Engaged(u)) /\ (Raised(u)' <=> Raised(u))
        BY <1>4, <1>6, <3>2 DEF Learns
      <4>5. UpToDate(u, loc) /\ (Raised(u) => Value(loc, Newest(loc)) = 1) /\ (Engaged(u) => Told(loc))
        BY <2>2, <4>1 DEF FlagsRaised
      <4>6. UpToDate(u, loc)' /\ (Raised(u)' => Value(loc, Newest(loc))' = 1) /\ (Engaged(u)' => Told(loc)')
        BY <4>3, <4>4, <4>5 DEF UpToDate, Value, Told, Newest
      <4>7. QED
        BY <4>1, <4>6
    <3>3. QED
      BY <3>1, <3>2
  <2>5. QED
    BY <2>3, <2>4 DEF FlagsRaised
<1>9. QED
  BY <1>7, <1>8 DEF PetersonIInv

LEMMA RaiseFlagKeeps == ASSUME NrThreads = 2, PetersonIInv, NEW t \in Threads, RaiseFlag(t) PROVE PetersonIInv'
<1>1. Active(t) /\ pc' = [pc EXCEPT ![t] = "turn"] /\ Store(t, FlagOf(t), 1, "relaxed")
  BY DEF RaiseFlag, Within, Goto, Active
<1>2. QED
  BY <1>1, FlagStored

LEMMA LowerFlagKeeps == ASSUME NrThreads = 2, PetersonIInv, NEW t \in Threads, LowerFlag(t) PROVE PetersonIInv'
<1>1. PICK there : there = IF left[t] > 1 THEN "flag" ELSE "reset0"
  OBVIOUS
<1>2. /\ Active(t) /\ pc' = [pc EXCEPT ![t] = there] /\ Store(t, FlagOf(t), 0, "release")
      /\ there \in {"turn", "flag", "reset0"} /\ there # "turn"
  BY <1>1 DEF LowerFlag, EndIteration, Goto, Active
<1>3. QED
  BY <1>2, FlagStored

LEMMA PetersonSectionKeeps == ASSUME NrThreads = 2, PetersonIInv, NEW t \in Threads, Section(t) PROVE PetersonIInv'
<1>1. PetersonTypes /\ pc[t] = "cs" /\ pc' = [pc EXCEPT ![t] = "unlock"]
  BY DEF PetersonIInv, Section, Within, Goto
<1>2. Payload \in PetersonLocs /\ 0 \in Values
  BY PetersonLocations DEF Values
<1>3. /\ MemOK(PetersonLocs)' /\ Learns(PetersonLocs, t)
      /\ \A loc \in PetersonLocs \ {Payload} : seen'[t][loc] = seen[t][loc]
      /\ \E view \in [PetersonLocs -> Nat] : Added(PetersonLocs, Payload, 0, view)
  <2>1. Store(t, Payload, 0, "relaxed")
    BY DEF Section
  <2>2. QED
    BY <1>1, <1>2, <2>1, StoreEffect DEF PetersonTypes
<1>4. \A loc \in PetersonLocs \ {Payload} : written'[loc] = written[loc] /\ Newest(loc)' = Newest(loc)
  BY <1>3 DEF Added
<1>5. /\ pc'[t] = "unlock" /\ \A u \in Threads \ {t} : pc'[u] = pc[u]
      /\ \A u \in Threads \ {t} : (Engaged(u)' <=> Engaged(u)) /\ (Raised(u)' <=> Raised(u)) /\ (Active(u)' <=> Active(u))
      /\ pc' \in [Threads -> PetersonLabels \cup {"cs", "unlock", "done"}]
  BY <1>1, PetersonGoes DEF PetersonLabels
<1>6. PetersonTypes'
  BY <1>3, <1>5 DEF PetersonTypes
<1>7. ASSUME \A u \in Threads : Active(u)' PROVE FlagsRaised' /\ LastWaits'
  <2>1. Engaged(t) /\ Raised(t) /\ Active(t) /\ Engaged(t)' /\ Raised(t)'
    BY <1>1, <1>5 DEF Engaged, Raised, Active
  <2>2. FlagsRaised /\ LastWaits
    BY <1>5, <1>7, <2>1 DEF PetersonIInv
  <2>3. \A u \in Threads : (Engaged(u)' <=> Engaged(u)) /\ (Raised(u)' <=> Raised(u))
    BY <1>5, <2>1
  <2>4. \A u \in Threads : FlagOf(u) \in PetersonLocs \ {Payload} /\ turn \in PetersonLocs \ {Payload}
    BY PetersonLocations
  <2>5. \A u \in Threads : \A loc \in PetersonLocs \ {Payload} : UpToDate(u, loc)' <=> UpToDate(u, loc)
    <3> SUFFICES ASSUME NEW u \in Threads, NEW loc \in PetersonLocs \ {Payload}
                 PROVE  UpToDate(u, loc)' <=> UpToDate(u, loc)
      OBVIOUS
    <3>1. seen'[u][loc] = seen[u][loc]
      BY <1>3 DEF Learns
    <3>2. QED
      BY <1>4, <3>1 DEF UpToDate
  <2>6. FlagsRaised'
    <3> SUFFICES ASSUME NEW u \in Threads
                 PROVE  /\ UpToDate(u, FlagOf(u))'
                        /\ Raised(u)' => Value(FlagOf(u), Newest(FlagOf(u)))' = 1
                        /\ Engaged(u)' => Told(FlagOf(u))'
      BY DEF FlagsRaised
    <3>1. PICK f \in PetersonLocs \ {Payload} : f = FlagOf(u)
      BY <2>4
    <3>2. UpToDate(u, f) /\ (Raised(u) => Value(f, Newest(f)) = 1) /\ (Engaged(u) => Told(f))
      BY <2>2, <3>1 DEF FlagsRaised
    <3>3. UpToDate(u, f)' /\ (Raised(u)' => Value(f, Newest(f))' = 1) /\ (Engaged(u)' => Told(f)')
      BY <1>4, <2>3, <2>4, <2>5, <3>2 DEF Value, Told, Newest
    <3>4. QED
      BY <3>1, <3>3
  <2>7. LastWaits'
    <3> SUFFICES ASSUME NEW a \in Threads, Engaged(a)', Engaged(Other(a))'
                 PROVE  \E w \in {a, Other(a)} : pc'[w] \in {"load", "check"} /\ IsLast(w)'
      BY DEF LastWaits
    <3>1. Other(a) \in Threads
      BY PetersonLocations
    <3>2. PICK w \in {a, Other(a)} : pc[w] \in {"load", "check"} /\ IsLast(w)
      BY <2>2, <2>3, <3>1 DEF LastWaits
    <3>3. w \in Threads /\ w # t /\ Other(w) \in Threads
      BY <1>1, <3>1, <3>2, PetersonLocations
    <3>4. IsLast(w)'
      BY <1>4, <2>4, <2>5, <3>2, <3>3 DEF IsLast, Last, Newest
    <3>5. QED
      BY <1>5, <3>2, <3>3, <3>4
  <2>8. QED
    BY <2>6, <2>7
<1>8. QED
  BY <1>6, <1>7 DEF PetersonIInv

LEMMA GiveTurnKeeps == ASSUME NrThreads = 2, PetersonIInv, NEW t \in Threads, GiveTurn(t) PROVE PetersonIInv'
<1>1. PetersonTypes /\ pc[t] = "turn" /\ pc' = [pc EXCEPT ![t] = "load"]
  BY DEF PetersonIInv, GiveTurn, Within, Goto
<1>2. PICK value \in Values : value = Other(t)
  BY PetersonLocations DEF Values
<1>3. turn \in PetersonLocs
  BY PetersonLocations
<1>4. PICK view \in [PetersonLocs -> Nat] :
        /\ MemOK(PetersonLocs)' /\ Learns(PetersonLocs, t)
        /\ seen'[t][turn] = Newest(turn) + 1
        /\ \A loc \in PetersonLocs : written[turn][Newest(turn)].view[loc] <= seen'[t][loc]
        /\ Added(PetersonLocs, turn, value, view)
        /\ \A loc \in PetersonLocs : written[turn][Newest(turn)].view[loc] <= view[loc]
        /\ \A loc \in PetersonLocs : seen[t][loc] <= view[loc]
  <2>1. Exchange(t, turn, value, "acq_rel")
    BY <1>2 DEF GiveTurn
  <2>2. QED
    BY <1>1, <1>3, <2>1, ExchangeEffect DEF PetersonTypes
<1>5. /\ Newest(turn)' = Newest(turn) + 1
      /\ written'[turn][Newest(turn) + 1].value = value /\ written'[turn][Newest(turn) + 1].view = view
      /\ \A loc \in PetersonLocs \ {turn} : written'[loc] = written[loc] /\ Newest(loc)' = Newest(loc)
  BY <1>4 DEF Added
<1>6. /\ pc'[t] = "load" /\ \A u \in Threads \ {t} : pc'[u] = pc[u]
      /\ \A u \in Threads \ {t} : (Engaged(u)' <=> Engaged(u)) /\ (Raised(u)' <=> Raised(u)) /\ (Active(u)' <=> Active(u))
      /\ pc' \in [Threads -> PetersonLabels \cup {"cs", "unlock", "done"}]
  BY <1>1, PetersonGoes DEF PetersonLabels
<1>7. PetersonTypes'
  BY <1>4, <1>6 DEF PetersonTypes
<1>8. ASSUME \A u \in Threads : Active(u)' PROVE FlagsRaised' /\ LastWaits'
  <2>1. Raised(t) /\ Active(t)
    BY <1>1 DEF Raised, Active
  <2>2. FlagsRaised
    BY <1>6, <1>8, <2>1 DEF PetersonIInv
  <2>3. \A loc \in PetersonLocs : /\ Newest(loc) \in Nat /\ seen[t][loc] \in Nat
                                 /\ written[turn][Newest(turn)].view[loc] \in Nat /\ view[loc] \in Nat
                                 /\ seen'[t][loc] \in Nat
    BY <1>1, <1>3, <1>4, PetersonNumbers DEF Learns
  <2>4. ASSUME NEW u \in Threads
        PROVE  /\ UpToDate(u, FlagOf(u))'
               /\ Raised(u)' => Value(FlagOf(u), Newest(FlagOf(u)))' = 1
               /\ Engaged(u)' => Told(FlagOf(u))'
    <3>1. PICK f \in PetersonLocs \ {turn} : f = FlagOf(u)
      BY PetersonLocations
    <3>2. UpToDate(u, f) /\ (Raised(u) => Value(f, Newest(f)) = 1) /\ (Engaged(u) => Told(f))
      BY <2>2, <3>1 DEF FlagsRaised
    <3>3. written'[f] = written[f] /\ Newest(f)' = Newest(f) /\ Newest(f) \in Nat
      BY <1>5, <2>3, <3>1
    <3>4. UpToDate(u, f)'
      <4>1. CASE u = t
        <5>1. seen[t][f] <= seen'[t][f]
          BY <1>4, <3>1 DEF Learns
        <5>2. QED
          BY <2>3, <3>2, <3>3, <4>1, <5>1 DEF UpToDate
      <4>2. CASE u # t
        BY <1>4, <3>2, <3>3, <4>2 DEF UpToDate, Learns
      <4>3. QED
        BY <4>1, <4>2
    <3>5. Raised(u)' => Value(f, Newest(f))' = 1
      BY <1>6, <2>1, <3>2, <3>3 DEF Value, Newest
    <3>6. Engaged(u)' => Told(f)'
      <4>1. CASE u = t
        <5>1. view[f] >= Newest(f)
          BY <1>4, <2>3, <3>1, <3>2, <4>1 DEF UpToDate
        <5>2. QED
          BY <1>5, <3>3, <5>1 DEF Told
      <4>2. CASE u # t
        <5>1. Engaged(u)' => view[f] >= Newest(f)
          BY <1>4, <1>6, <2>3, <3>1, <3>2, <4>2 DEF Told
        <5>2. QED
          BY <1>5, <3>3, <5>1 DEF Told
      <4>3. QED
        BY <4>1, <4>2
    <3>7. QED
      BY <3>1, <3>4, <3>5, <3>6
  <2>5. LastWaits'
    <3> SUFFICES ASSUME NEW a \in Threads, Engaged(a)', Engaged(Other(a))'
                 PROVE  \E w \in {a, Other(a)} : pc'[w] \in {"load", "check"} /\ IsLast(w)'
      BY DEF LastWaits
    <3>1. t \in {a, Other(a)} /\ Other(t) \in {a, Other(a)} /\ Other(t) \in Threads /\ Other(t) # t
      BY PetersonLocations
    <3>2. Engaged(Other(t))
      BY <1>6, <3>1
    <3>3. PICK f \in PetersonLocs \ {turn} : f = FlagOf(Other(t))
      BY <3>1, PetersonLocations
    <3>4. Told(f)
      BY <2>2, <3>1, <3>2, <3>3 DEF FlagsRaised
    <3>5. seen'[t][f] >= Newest(f)
      BY <1>4, <2>3, <3>3, <3>4 DEF Told
    <3>6. UpToDate(t, f)' /\ UpToDate(t, turn)'
      BY <1>3, <1>4, <1>5, <2>3, <3>3, <3>5 DEF UpToDate
    <3>7. Last(turn)' = Other(t)
      BY <1>2, <1>5 DEF Last
    <3>8. IsLast(t)'
      BY <3>3, <3>6, <3>7 DEF IsLast
    <3>9. QED
      BY <1>6, <3>1, <3>8
  <2>6. QED
    BY <2>4, <2>5 DEF FlagsRaised
<1>9. QED
  BY <1>7, <1>8 DEF PetersonIInv

\* A reset is after the last of the lock's uses by its thread.
LEMMA ResetKeeps == ASSUME NrThreads = 2, PetersonIInv, NEW t \in Threads, ResetPeterson(t) PROVE PetersonIInv'
<1>1. PICK here \in {"reset0", "reset1", "resetTurn"}, there \in {"reset1", "resetTurn", "done"},
           l \in PetersonLocs : ResetOf(t, here, there, l)
  <2>1. FlagOf(0) \in PetersonLocs /\ FlagOf(1) \in PetersonLocs /\ turn \in PetersonLocs
    BY DEF PetersonLocs
  <2>2. QED
    BY <2>1 DEF ResetPeterson
<1>2. PetersonTypes /\ pc' = [pc EXCEPT ![t] = there] /\ Store(t, l, 0, "release") /\ 0 \in Values
  BY <1>1 DEF PetersonIInv, ResetOf, Within, Goto, Values
<1>3. MemOK(PetersonLocs)'
  BY <1>2, StoreEffect DEF PetersonTypes
<1>4. pc'[t] = there /\ pc' \in [Threads -> PetersonLabels \cup {"cs", "unlock", "done"}]
  BY <1>2, PetersonGoes DEF PetersonLabels
<1>5. ~Active(t)'
  BY <1>4 DEF Active
<1>6. QED
  BY <1>3, <1>4, <1>5 DEF PetersonIInv, PetersonTypes

LEMMA PetersonInitHolds == ASSUME NrThreads = 2, PetersonInit PROVE PetersonIInv
<1>1. Threads = {0, 1}
  BY DEF Threads
<1>2. PICK first : first = [l \in PetersonLocs |-> 0]
  OBVIOUS
<1>3. PICK none \in [PetersonLocs -> Nat] : none = [l \in PetersonLocs |-> 0]
  OBVIOUS
<1>4. /\ pc \in [Threads -> {"flag", "reset0"}]
      /\ written = [l \in PetersonLocs |-> <<[value |-> 0, view |-> none]>>]
      /\ seen = [t \in Threads |-> [l \in PetersonLocs |-> 1]]
  <2>1. PICK initial : initial = [l \in {turn, FlagOf(0), FlagOf(1)} |-> 0]
    OBVIOUS
  <2>2. BenchInit("flag", "reset0", initial)
    BY <2>1 DEF PetersonInit
  <2>3. DOMAIN initial \cup {Payload} = PetersonLocs /\ \A l \in DOMAIN initial : initial[l] = 0
    BY <2>1 DEF PetersonLocs
  <2>4. [l \in DOMAIN initial \cup {Payload} |-> IF l = Payload THEN 0 ELSE initial[l]] = first
    BY <1>2, <2>3
  <2>5. pc \in [Threads -> {"flag", "reset0"}] /\ MemoryInit(Threads, first)
    BY <2>2, <2>4 DEF BenchInit
  <2>6. DOMAIN first = PetersonLocs /\ \A l \in PetersonLocs : first[l] = 0
    BY <1>2
  <2>7. QED
    BY <1>3, <2>5, <2>6 DEF MemoryInit
<1>5. PICK m \in MessagesOf(PetersonLocs) : m = [value |-> 0, view |-> none]
  BY DEF MessagesOf, Values
<1>6. \A l \in PetersonLocs : written[l] = <<m>> /\ Newest(l) = 1 /\ written[l][1].view = none
  BY <1>4, <1>5 DEF Newest
<1>7. MemOK(PetersonLocs)
  <2>1. written \in [PetersonLocs -> Seq(MessagesOf(PetersonLocs))]
    <3>1. <<m>> \in Seq(MessagesOf(PetersonLocs))
      OBVIOUS
    <3>2. QED
      BY <1>4, <1>5, <3>1
  <2>2. \A l \in PetersonLocs : \A n \in 1 .. Newest(l) : \A loc \in PetersonLocs : written[l][n].view[loc] <= Newest(loc)
    BY <1>3, <1>6
  <2>3. seen \in [Threads -> [PetersonLocs -> Nat]]
    BY <1>4
  <2>4. QED
    BY <1>4, <1>6, <2>1, <2>2, <2>3 DEF MemOK
<1>8. PetersonTypes
  BY <1>4, <1>7 DEF PetersonTypes, PetersonLabels
<1>9. \A t \in Threads : ~Raised(t) /\ ~Engaged(t)
  BY <1>4 DEF Raised, Engaged
<1>10. \A t \in Threads : UpToDate(t, FlagOf(t))
  BY <1>4, <1>6, PetersonLocations DEF UpToDate
<1>11. QED
  BY <1>8, <1>9, <1>10 DEF PetersonIInv, FlagsRaised, LastWaits

LEMMA PetersonStepKeeps == NrThreads = 2 => (PetersonIInv /\ [PetersonNext]_benchVars => PetersonIInv')
<1> SUFFICES ASSUME NrThreads = 2, PetersonIInv, [PetersonNext]_benchVars PROVE PetersonIInv'
  OBVIOUS
<1>1. CASE UNCHANGED benchVars
  <2>1. written' = written /\ seen' = seen /\ pc' = pc
    BY <1>1 DEF benchVars, memoryVars
  <2>2. PetersonTypes'
    BY <2>1 DEF PetersonIInv, PetersonTypes, MemOK, Newest
  <2>3. (\A t \in Threads : Active(t))' => FlagsRaised' /\ LastWaits'
    BY <2>1 DEF PetersonIInv, FlagsRaised, LastWaits, Active, Raised, Engaged, UpToDate, Told, IsLast,
                Last, Value, Newest
  <2>4. QED
    BY <2>2, <2>3 DEF PetersonIInv
<1>2. CASE PetersonNext
  BY <1>2, RaiseFlagKeeps, GiveTurnKeeps, LoadFlagKeeps, CheckTurnKeeps, PetersonSectionKeeps,
     LowerFlagKeeps, ResetKeeps DEF PetersonNext, PetersonStep
<1>3. QED
  BY <1>1, <1>2

\* In Peterson's lock (peterson_lock_ar.cpp) no two threads are inside, although the
\* flag is raised by a relaxed store and turn is loaded relaxed: the exchanges of
\* turn tell the thread that makes the last one of the other's flag.  A reset before
\* the next execution breaks their chain, but then the other thread is alone.
THEOREM RelaxedPetersonExcludes == NrThreads <= 2 => (PetersonSpec => []MutualExclusion)
<1>1. NrThreads = 2 => (PetersonInit => PetersonIInv)
  BY PetersonInitHolds
<1>2. ASSUME NrThreads = 2, PetersonIInv PROVE MutualExclusion
  <2>1. DOMAIN pc = Threads
    BY <1>2 DEF PetersonIInv, PetersonTypes
  <2> SUFFICES ASSUME NEW t \in Threads, NEW u \in Threads, Inside(t), Inside(u), t # u PROVE FALSE
    BY <2>1 DEF MutualExclusion
  <2>2. Threads = {t, u} /\ u = Other(t)
    BY <1>2, PetersonLocations
  <2>3. /\ Active(t) /\ Active(u) /\ Engaged(t) /\ Engaged(u)
        /\ pc[t] \notin {"load", "check"} /\ pc[u] \notin {"load", "check"}
    BY DEF Inside, Active, Engaged
  <2>4. LastWaits
    BY <1>2, <2>2, <2>3 DEF PetersonIInv
  <2>5. QED
    BY <2>2, <2>3, <2>4 DEF LastWaits
<1>3. PetersonInit => DOMAIN pc = Threads
  BY DEF PetersonInit, BenchInit
<1>4. DOMAIN pc = Threads /\ [PetersonNext]_benchVars => (DOMAIN pc = Threads)'
  <2> SUFFICES ASSUME DOMAIN pc = Threads, [PetersonNext]_benchVars PROVE DOMAIN pc' = DOMAIN pc
    OBVIOUS
  <2>1. CASE pc' = pc
    BY <2>1
  <2>2. CASE PetersonNext
    <3>1. \E t \in Threads : \E there : pc' = [pc EXCEPT ![t] = there]
      BY <2>2 DEF PetersonNext, PetersonStep, RaiseFlag, GiveTurn, LoadFlag, CheckTurn, Section, LowerFlag,
                  ResetPeterson, ResetOf, Within, EndIteration, Goto
    <3>2. QED
      BY <3>1
  <2>3. QED
    BY <2>1, <2>2 DEF benchVars
<1>5. NrThreads = 1 /\ DOMAIN pc = Threads => MutualExclusion
  BY DEF Threads, MutualExclusion
<1>6. CASE NrThreads = 2
  <2>1. PetersonInit => PetersonIInv
    BY <1>1, <1>6
  <2>2. PetersonIInv /\ [PetersonNext]_benchVars => PetersonIInv'
    BY <1>6, PetersonStepKeeps
  <2>3. PetersonIInv => MutualExclusion
    BY <1>2, <1>6
  <2>4. QED
    BY <2>1, <2>2, <2>3, PTL DEF PetersonSpec
<1>7. CASE NrThreads = 1
  <2>1. DOMAIN pc = Threads => MutualExclusion
    BY <1>5, <1>7
  <2>2. QED
    BY <1>3, <1>4, <2>1, PTL DEF PetersonSpec
<1>8. CASE ~(NrThreads <= 2)
  BY <1>8
<1>9. QED
  BY <1>6, <1>7, <1>8, NrThreadsAssumption

-----------------------------------------------------------------------------
(* The filter lock *)

FilterLocs == {Level(t) : t \in Threads} \cup {Victim(t) : t \in Threads} \cup {Payload}

\* The levels there are.  Level l is intact until thread l has reset its victim.
Competed == 1 .. NrThreads - 1
Intact(l) == pc[l] # "done"

Climbing == {"level", "victim", "scan", "check"}

FilterTypes ==
  /\ MemOK(FilterLocs)
  /\ pc \in [Threads -> FilterLabels \cup {"cs", "unlock", "done"}]
  /\ level \in [Threads -> 1 .. NrThreads] /\ k \in [Threads -> 0 .. NrThreads]
  /\ \A t \in Threads :
       /\ pc[t] \in Climbing => level[t] < NrThreads
       /\ pc[t] \in {"cs", "unlock"} => level[t] = NrThreads
       /\ pc[t] \in {"resetVictim", "done"} => level[t] = 1
       /\ pc[t] = "scan" => k[t] \in Threads \ {t}

\* The threads past level l, and those that have named themselves its victim.
Above(l) == {t \in Threads : level[t] > l}
EngagedAt(l) == Above(l) \cup {t \in Threads : level[t] = l /\ pc[t] \in {"scan", "check"}}

LastVictim(l) == Last(Victim(l))

\* Whoever knows of store n of thread u's level finds it at l or higher.
High(u, l, n) == n >= 1 /\ \A m \in n .. Newest(Level(u)) : Value(Level(u), m) >= l

\* Each thread knows its own level.
OwnLevels ==
  \A t \in Threads :
    /\ seen[t][Level(t)] >= Newest(Level(t))
    /\ pc[t] = "victim" => Value(Level(t), Newest(Level(t))) = level[t]

\* The last exchange of the victim tells of all that are engaged there, ...
ToldOfAll(l) ==
  \A u \in EngagedAt(l) : High(u, l, written[Victim(l)][Newest(Victim(l))].view[Level(u)])

\* ... one of whom made it.
VictimEngaged(l) == EngagedAt(l) # {} => LastVictim(l) \in EngagedAt(l)

\* That one knows what the exchange told, ...
VictimKnows(l) ==
  \A t \in EngagedAt(l) : t = LastVictim(l) /\ level[t] = l =>
    /\ seen[t][Victim(l)] >= Newest(Victim(l))
    /\ \A u \in EngagedAt(l) \ {t} : High(u, l, seen[t][Level(u)])

\* ... and so gets past the level only when nobody else is engaged.
VictimWaits(l) ==
  \A t \in EngagedAt(l) : t = LastVictim(l) =>
    \A u \in EngagedAt(l) \ {t} : level[t] = l /\ (pc[t] = "scan" => u >= k[t])

Chain(l) == ToldOfAll(l) /\ VictimEngaged(l) /\ VictimKnows(l) /\ VictimWaits(l)

FilterIInv == FilterTypes /\ OwnLevels /\ \A l \in Competed : Intact(l) => Chain(l)

LEMMA FilterLocations ==
  ASSUME NEW t \in Threads
  PROVE  /\ Level(t) \in FilterLocs /\ Victim(t) \in FilterLocs /\ Payload \in FilterLocs
         /\ Level(t) # Payload /\ Victim(t) # Payload
         /\ \A u : Level(t) # Victim(u) /\ (Level(t) = Level(u) => t = u) /\ (Victim(t) = Victim(u) => t = u)
BY DEF FilterLocs, Level, Victim, Payload

LEMMA CompetedNumbers ==
  /\ NrThreads \in Nat \ {0} /\ Threads \subseteq Int
  /\ \A l \in Competed : l \in Nat \ {0} /\ l \in Threads /\ l < NrThreads
BY NrThreadsAssumption DEF Competed, Threads

\* What the types say of a location.
LEMMA FilterNumbers ==
  ASSUME MemOK(FilterLocs)
  PROVE  \A l \in FilterLocs :
           /\ Newest(l) \in Nat \ {0}
           /\ \A t \in Threads : seen[t][l] \in Nat /\ seen[t][l] >= 1 /\ seen[t][l] <= Newest(l)
           /\ \A loc \in FilterLocs : /\ written[l][Newest(l)].view[loc] \in Nat
                                     /\ written[l][Newest(l)].view[loc] <= Newest(loc)
<1> SUFFICES ASSUME NEW l \in FilterLocs
             PROVE  /\ Newest(l) \in Nat \ {0}
                    /\ \A t \in Threads : seen[t][l] \in Nat /\ seen[t][l] >= 1 /\ seen[t][l] <= Newest(l)
                    /\ \A loc \in FilterLocs : /\ written[l][Newest(l)].view[loc] \in Nat
                                              /\ written[l][Newest(l)].view[loc] <= Newest(loc)
  OBVIOUS
<1>1. Newest(l) \in Nat \ {0} /\ \A t \in Threads : seen[t][l] \in Nat /\ seen[t][l] >= 1 /\ seen[t][l] <= Newest(l)
  BY DEF MemOK
<1>2. written[l][Newest(l)].view \in [FilterLocs -> Nat]
  BY <1>1, MessageTypes
<1>3. Newest(l) \in 1 .. Newest(l)
  BY <1>1
<1>4. \A loc \in FilterLocs : written[l][Newest(l)].view[loc] <= Newest(loc)
  BY <1>3 DEF MemOK
<1>5. QED
  BY <1>1, <1>2, <1>4

\* Thread t goes there, with these locals.
Moves(t, there, lev, next) ==
  /\ pc' = [pc EXCEPT ![t] = there]
  /\ level' = [level EXCEPT ![t] = lev] /\ k' = [k EXCEPT ![t] = next]

\* Where it may go.
MayGo(t, there, lev, next) ==
  /\ there \in FilterLabels \cup {"cs", "unlock", "done"}
  /\ lev \in 1 .. NrThreads /\ next \in 0 .. NrThreads
  /\ there \in Climbing => lev < NrThreads
  /\ there \in {"cs", "unlock"} => lev = NrThreads
  /\ there \in {"resetVictim", "done"} => lev = 1
  /\ there = "scan" => next \in Threads \ {t}

LEMMA FilterMoves ==
  ASSUME FilterTypes, NEW t \in Threads, NEW there, NEW lev, NEW next,
         Moves(t, there, lev, next), MayGo(t, there, lev, next), MemOK(FilterLocs)'
  PROVE  /\ FilterTypes'
         /\ pc'[t] = there /\ level'[t] = lev /\ k'[t] = next
         /\ \A u \in Threads \ {t} : pc'[u] = pc[u] /\ level'[u] = level[u] /\ k'[u] = k[u]
         /\ \A l \in Competed :
              /\ \A u \in Threads \ {t} : u \in EngagedAt(l)' <=> u \in EngagedAt(l)
              /\ t \in EngagedAt(l)' <=> lev > l \/ (lev = l /\ there \in {"scan", "check"})
<1>1. /\ pc'[t] = there /\ level'[t] = lev /\ k'[t] = next
      /\ \A u \in Threads \ {t} : pc'[u] = pc[u] /\ level'[u] = level[u] /\ k'[u] = k[u]
      /\ pc' \in [Threads -> FilterLabels \cup {"cs", "unlock", "done"}]
      /\ level' \in [Threads -> 1 .. NrThreads] /\ k' \in [Threads -> 0 .. NrThreads]
  BY DEF Moves, MayGo, FilterTypes
<1>2. ASSUME NEW u \in Threads
      PROVE  /\ pc'[u] \in Climbing => level'[u] < NrThreads
             /\ pc'[u] \in {"cs", "unlock"} => level'[u] = NrThreads
             /\ pc'[u] \in {"resetVictim", "done"} => level'[u] = 1
             /\ pc'[u] = "scan" => k'[u] \in Threads \ {u}
  <2>1. CASE u = t
    BY <1>1, <2>1 DEF MayGo
  <2>2. CASE u # t
    BY <1>1, <2>2 DEF FilterTypes
  <2>3. QED
    BY <2>1, <2>2
<1>3. FilterTypes'
  BY <1>1, <1>2 DEF FilterTypes
<1>4. ASSUME NEW l \in Competed
      PROVE  /\ \A u \in Threads \ {t} : u \in EngagedAt(l)' <=> u \in EngagedAt(l)
             /\ t \in EngagedAt(l)' <=> lev > l \/ (lev = l /\ there \in {"scan", "check"})
  BY <1>1 DEF EngagedAt, Above
<1>5. QED
  BY <1>1, <1>3, <1>4

\* What thread u has stored as its level since is at least l.
StaysHigh(u, l) ==
  /\ Newest(Level(u)) <= Newest(Level(u))'
  /\ \A m \in 1 .. Newest(Level(u)) : Value(Level(u), m)' = Value(Level(u), m)
  /\ \A m \in Newest(Level(u)) + 1 .. Newest(Level(u))' : Value(Level(u), m)' >= l

LEMMA HighKept ==
  ASSUME MemOK(FilterLocs), MemOK(FilterLocs)', NEW u \in Threads, NEW l \in Competed, StaysHigh(u, l),
         NEW n \in Nat, NEW n2 \in Nat, n <= n2, High(u, l, n)
  PROVE  n2 >= 1 /\ \A m \in n2 .. Newest(Level(u))' : Value(Level(u), m)' >= l
<1>1. Newest(Level(u)) \in Nat /\ Newest(Level(u))' \in Nat
  BY FilterLocations DEF MemOK
<1>2. n2 >= 1 /\ n >= 1
  BY DEF High
<1>3. SUFFICES ASSUME NEW m \in n2 .. Newest(Level(u))' PROVE Value(Level(u), m)' >= l
  BY <1>2
<1>4. CASE m <= Newest(Level(u))
  <2>1. m \in 1 .. Newest(Level(u)) /\ m \in n .. Newest(Level(u))
    BY <1>1, <1>2, <1>4
  <2>2. QED
    BY <2>1 DEF High, StaysHigh
<1>5. CASE ~(m <= Newest(Level(u)))
  <2>1. m \in Newest(Level(u)) + 1 .. Newest(Level(u))'
    BY <1>1, <1>2, <1>5
  <2>2. QED
    BY <2>1 DEF StaysHigh
<1>6. QED
  BY <1>4, <1>5

\* A step that leaves the victim of level l alone.
LEMMA ChainKept ==
  ASSUME FilterTypes, NEW t \in Threads, NEW there, NEW lev, NEW next,
         Moves(t, there, lev, next), MayGo(t, there, lev, next), MemOK(FilterLocs)', NEW l \in Competed, Chain(l),
         written'[Victim(l)] = written[Victim(l)],
         \A u \in Threads : \A loc \in FilterLocs : seen[u][loc] <= seen'[u][loc],
         \A u \in Threads : u \in EngagedAt(l)' => StaysHigh(u, l),
         t \in EngagedAt(l)' =>
           /\ t \in EngagedAt(l) /\ (lev = l => level[t] = l)
           /\ t = LastVictim(l) =>
                \A u \in EngagedAt(l) \ {t} : lev = l /\ (there = "scan" => u >= next),
         t \notin EngagedAt(l)' /\ t \in EngagedAt(l) /\ t = LastVictim(l) => \A u \in EngagedAt(l) : u = t
  PROVE  Chain(l)'
<1>1. /\ pc'[t] = there /\ level'[t] = lev /\ k'[t] = next
      /\ \A u \in Threads \ {t} : pc'[u] = pc[u] /\ level'[u] = level[u] /\ k'[u] = k[u]
      /\ \A u \in Threads \ {t} : u \in EngagedAt(l)' <=> u \in EngagedAt(l)
  BY FilterMoves
<1>2. EngagedAt(l) \subseteq Threads /\ EngagedAt(l)' \subseteq Threads /\ EngagedAt(l)' \subseteq EngagedAt(l)
  BY <1>1 DEF EngagedAt, Above
<1>3. l \in Threads /\ Victim(l) \in FilterLocs /\ \A u \in Threads : Level(u) \in FilterLocs
  BY CompetedNumbers, FilterLocations
<1>4. Newest(Victim(l))' = Newest(Victim(l)) /\ LastVictim(l)' = LastVictim(l)
  BY DEF Newest, LastVictim, Last
<1>5. MemOK(FilterLocs)
  BY DEF FilterTypes
<1>6. ToldOfAll(l)'
  <2> SUFFICES ASSUME NEW u \in Threads, u \in EngagedAt(l)'
               PROVE  High(u, l, written[Victim(l)][Newest(Victim(l))].view[Level(u)])'
    BY <1>2 DEF ToldOfAll
  <2>1. PICK n \in Nat : n = written[Victim(l)][Newest(Victim(l))].view[Level(u)]
    BY <1>3, <1>5, FilterNumbers
  <2>2. High(u, l, n)
    BY <1>2, <2>1 DEF Chain, ToldOfAll
  <2>3. n >= 1 /\ \A m \in n .. Newest(Level(u))' : Value(Level(u), m)' >= l
    BY <1>5, <2>2, HighKept
  <2>4. n = written'[Victim(l)][Newest(Victim(l))'].view[Level(u)]
    BY <1>4, <2>1
  <2>5. QED
    BY <2>3, <2>4 DEF High
<1>7. VictimEngaged(l)'
  BY <1>1, <1>2, <1>4 DEF Chain, VictimEngaged
<1>8. VictimKnows(l)'
  <2> SUFFICES ASSUME NEW a \in Threads, a \in EngagedAt(l)', a = LastVictim(l)', level'[a] = l
               PROVE  /\ seen'[a][Victim(l)] >= Newest(Victim(l))'
                      /\ \A u \in EngagedAt(l)' \ {a} : High(u, l, seen[a][Level(u)])'
    BY <1>2 DEF VictimKnows
  <2>1. a \in EngagedAt(l) /\ a = LastVictim(l) /\ level[a] = l
    BY <1>1, <1>2, <1>4
  <2>2. /\ seen[a][Victim(l)] >= Newest(Victim(l))
        /\ \A u \in EngagedAt(l) \ {a} : High(u, l, seen[a][Level(u)])
    BY <2>1 DEF Chain, VictimKnows
  <2>3. \A loc \in FilterLocs : /\ seen[a][loc] \in Nat /\ seen[a][loc] <= seen'[a][loc] /\ seen'[a][loc] \in Nat
                              /\ Newest(loc) \in Nat
    BY <1>5 DEF MemOK
  <2>4. seen'[a][Victim(l)] >= Newest(Victim(l))'
    BY <1>3, <1>4, <2>2, <2>3
  <2>5. ASSUME NEW u \in Threads, u \in EngagedAt(l)', u # a PROVE High(u, l, seen[a][Level(u)])'
    <3>1. PICK n \in Nat, n2 \in Nat : n = seen[a][Level(u)] /\ n2 = seen'[a][Level(u)] /\ n <= n2
      BY <1>3, <2>3
    <3>2. High(u, l, n)
      BY <1>2, <2>2, <2>5, <3>1
    <3>3. n2 >= 1 /\ \A m \in n2 .. Newest(Level(u))' : Value(Level(u), m)' >= l
      BY <1>5, <2>5, <3>1, <3>2, HighKept
    <3>4. QED
      BY <3>1, <3>3 DEF High
  <2>6. QED
    BY <1>2, <2>4, <2>5
<1>9. VictimWaits(l)'
  <2> SUFFICES ASSUME NEW a \in Threads, a \in EngagedAt(l)', a = LastVictim(l)',
                      NEW u \in EngagedAt(l)', u # a
               PROVE  level'[a] = l /\ (pc'[a] = "scan" => u >= k'[a])
    BY <1>2 DEF VictimWaits
  <2>1. a \in EngagedAt(l) /\ a = LastVictim(l) /\ u \in EngagedAt(l)
    BY <1>2, <1>4
  <2>2. CASE a = t
    BY <1>1, <2>1, <2>2
  <2>3. CASE a # t
    BY <1>1, <2>1, <2>3 DEF Chain, VictimWaits
  <2>4. QED
    BY <2>2, <2>3
<1>10. QED
  BY <1>6, <1>7, <1>8, <1>9 DEF Chain

\* A location that is not written, and so a thread whose level is not.
LEMMA SameIsHigh ==
  ASSUME MemOK(FilterLocs), NEW u \in Threads, NEW l, written'[Level(u)] = written[Level(u)]
  PROVE  StaysHigh(u, l)
<1>1. Newest(Level(u))' = Newest(Level(u)) /\ Newest(Level(u)) \in Nat
  BY FilterLocations DEF MemOK, Newest
<1>2. QED
  BY <1>1 DEF StaysHigh, Value

\* What a step learns, all threads know no less.
LEMMA KnownGrows ==
  ASSUME MemOK(FilterLocs), NEW t \in Threads, Learns(FilterLocs, t)
  PROVE  \A u \in Threads : \A loc \in FilterLocs :
           seen[u][loc] <= seen'[u][loc] /\ seen[u][loc] \in Nat /\ seen'[u][loc] \in Nat
<1> SUFFICES ASSUME NEW u \in Threads, NEW loc \in FilterLocs
             PROVE  seen[u][loc] <= seen'[u][loc] /\ seen[u][loc] \in Nat /\ seen'[u][loc] \in Nat
  OBVIOUS
<1>1. seen[u][loc] \in Nat
  BY DEF MemOK
<1>2. CASE u = t
  BY <1>1, <1>2 DEF Learns
<1>3. CASE u # t
  BY <1>1, <1>3 DEF Learns
<1>4. QED
  BY <1>2, <1>3

\* A step that leaves the victim of level l alone and neither reaches nor leaves
\* the spin loop of that level.
LEMMA ChainPast ==
  ASSUME FilterTypes, NEW t \in Threads, NEW there, NEW lev, NEW next,
         Moves(t, there, lev, next), MayGo(t, there, lev, next), MemOK(FilterLocs)', NEW l \in Competed, Chain(l),
         written'[Victim(l)] = written[Victim(l)],
         \A u \in Threads : \A loc \in FilterLocs : seen[u][loc] <= seen'[u][loc],
         \A u \in Threads : u \in EngagedAt(l)' => StaysHigh(u, l),
         lev > l <=> level[t] > l,
         lev = l => there \notin {"scan", "check"}, level[t] = l => pc[t] \notin {"scan", "check"}
  PROVE  Chain(l)'
<1>1. (t \in EngagedAt(l)' <=> lev > l) /\ (t \in EngagedAt(l) <=> level[t] > l)
  <2>1. t \in EngagedAt(l)' <=> lev > l \/ (lev = l /\ there \in {"scan", "check"})
    BY FilterMoves
  <2>2. QED
    BY <2>1 DEF EngagedAt, Above
<1>2. l \in Nat /\ level[t] \in Nat /\ lev \in Nat
  BY CompetedNumbers DEF FilterTypes, MayGo
<1>3. t \in EngagedAt(l) /\ t = LastVictim(l) => \A u \in EngagedAt(l) \ {t} : FALSE
  BY <1>1, <1>2 DEF Chain, VictimWaits
<1>4. t \in EngagedAt(l)' =>
           /\ t \in EngagedAt(l) /\ (lev = l => level[t] = l)
           /\ t = LastVictim(l) =>
                \A u \in EngagedAt(l) \ {t} : lev = l /\ (there = "scan" => u >= next)
  BY <1>1, <1>2, <1>3
<1>5. t \notin EngagedAt(l)' /\ t \in EngagedAt(l) /\ t = LastVictim(l) => \A u \in EngagedAt(l) : u = t
  BY <1>1
<1>6. QED
  BY <1>4, <1>5, ChainKept

\* A thread that has reset its victim does not go on.
LEMMA IntactBefore ==
  ASSUME FilterTypes, NEW t \in Threads, NEW there, NEW lev, NEW next,
         Moves(t, there, lev, next), pc[t] # "done", NEW l, Intact(l)'
  PROVE  Intact(l)
BY DEF FilterTypes, Moves, Intact

\* A step that writes no level.
LEMMA OwnKept ==
  ASSUME FilterTypes, OwnLevels, NEW t \in Threads, NEW there, NEW lev, NEW next,
         Moves(t, there, lev, next), there # "victim", Learns(FilterLocs, t),
         \A u \in Threads : written'[Level(u)] = written[Level(u)]
  PROVE  OwnLevels'
<1> SUFFICES ASSUME NEW u \in Threads
             PROVE  /\ seen'[u][Level(u)] >= Newest(Level(u))'
                    /\ pc'[u] = "victim" => Value(Level(u), Newest(Level(u)))' = level'[u]
  BY DEF OwnLevels
<1>1. Level(u) \in FilterLocs /\ MemOK(FilterLocs)
  BY FilterLocations DEF FilterTypes
<1>2. /\ Newest(Level(u))' = Newest(Level(u)) /\ Newest(Level(u)) \in Nat
      /\ Value(Level(u), Newest(Level(u)))' = Value(Level(u), Newest(Level(u)))
  BY <1>1 DEF Newest, Value, MemOK
<1>3. seen[u][Level(u)] <= seen'[u][Level(u)] /\ seen[u][Level(u)] \in Nat /\ seen'[u][Level(u)] \in Nat
  BY <1>1, KnownGrows
<1>4. seen[u][Level(u)] >= Newest(Level(u)) /\ (pc[u] = "victim" => Value(Level(u), Newest(Level(u))) = level[u])
  BY DEF OwnLevels
<1>5. pc'[u] = "victim" => pc[u] = "victim" /\ level'[u] = level[u]
  BY DEF FilterTypes, Moves
<1>6. QED
  BY <1>2, <1>3, <1>4, <1>5

\* A step that stores a level.
LEMMA OwnStored ==
  ASSUME FilterTypes, OwnLevels, NEW t \in Threads, NEW there, NEW lev, NEW next, NEW value, NEW view,
         Moves(t, there, lev, next), there = "victim" => value = lev, Learns(FilterLocs, t),
         Added(FilterLocs, Level(t), value, view), seen'[t][Level(t)] = Newest(Level(t)) + 1
  PROVE  OwnLevels'
<1> SUFFICES ASSUME NEW u \in Threads
             PROVE  /\ seen'[u][Level(u)] >= Newest(Level(u))'
                    /\ pc'[u] = "victim" => Value(Level(u), Newest(Level(u)))' = level'[u]
  BY DEF OwnLevels
<1>1. pc'[t] = there /\ level'[t] = lev /\ \A d \in Threads \ {t} : pc'[d] = pc[d] /\ level'[d] = level[d]
  BY DEF FilterTypes, Moves
<1>2. CASE u = t
  <2>1. Newest(Level(t))' = Newest(Level(t)) + 1 /\ Newest(Level(t)) \in Nat
    BY FilterLocations DEF Added, FilterTypes, MemOK
  <2>2. seen'[t][Level(t)] >= Newest(Level(t))'
    BY <2>1
  <2>3. Value(Level(t), Newest(Level(t)))' = value
    BY <2>1 DEF Value, Added
  <2>4. QED
    BY <1>1, <1>2, <2>2, <2>3
<1>3. CASE u # t
  <2>1. Level(u) \in FilterLocs /\ Level(u) # Level(t)
    BY <1>3, FilterLocations
  <2>2. written'[Level(u)] = written[Level(u)] /\ Newest(Level(u))' = Newest(Level(u)) /\ seen'[u] = seen[u]
    BY <1>3, <2>1 DEF Added, Learns
  <2>3. QED
    BY <1>1, <1>3, <2>2 DEF OwnLevels, Value
<1>4. QED
  BY <1>2, <1>3

LEMMA SetLevelKeeps == ASSUME FilterIInv, NEW t \in Threads, SetLevel(t) PROVE FilterIInv'
<1>1. FilterTypes /\ OwnLevels /\ MemOK(FilterLocs)
  BY DEF FilterIInv, FilterTypes
<1>2. PICK lev \in Nat : lev = level[t] /\ lev \in 1 .. NrThreads
  BY <1>1, CompetedNumbers DEF FilterTypes
<1>3. PICK next \in 0 .. NrThreads : next = k[t]
  BY <1>1 DEF FilterTypes
<1>4. pc[t] = "level" /\ Moves(t, "victim", lev, next) /\ MayGo(t, "victim", lev, next)
  <2>1. pc[t] = "level" /\ pc' = [pc EXCEPT ![t] = "victim"] /\ level' = level /\ k' = k
    BY DEF SetLevel, Within, Goto, locals
  <2>2. lev < NrThreads
    BY <1>1, <1>2, <2>1 DEF FilterTypes, Climbing
  <2>3. level = [level EXCEPT ![t] = lev] /\ k = [k EXCEPT ![t] = next]
    BY <1>1, <1>2, <1>3 DEF FilterTypes
  <2>4. QED
    BY <1>2, <1>3, <2>1, <2>2, <2>3 DEF Moves, MayGo, FilterLabels
<1>5. PICK own \in FilterLocs : own = Level(t)
  BY FilterLocations
<1>6. PICK view : /\ MemOK(FilterLocs)' /\ Learns(FilterLocs, t) /\ seen'[t][own] = Newest(own) + 1
                  /\ Added(FilterLocs, own, lev, view)
  <2>1. Store(t, own, lev, "release") /\ lev \in Values
    BY <1>2, <1>5 DEF SetLevel, Values
  <2>2. QED
    BY <1>1, <2>1, StoreEffect
<1>7. FilterTypes'
  BY <1>1, <1>4, <1>6, FilterMoves
<1>8. OwnLevels'
  BY <1>1, <1>4, <1>5, <1>6, OwnStored
<1>9. ASSUME NEW l \in Competed, Intact(l)' PROVE Chain(l)'
  <2>1. l \in Threads /\ Chain(l)
    BY <1>1, <1>4, <1>9, CompetedNumbers, IntactBefore DEF FilterIInv
  <2>2. written'[Victim(l)] = written[Victim(l)]
    BY <1>5, <1>6, <2>1, FilterLocations DEF Added
  <2>3. ASSUME NEW u \in Threads, u \in EngagedAt(l)' PROVE StaysHigh(u, l)
    <3>1. CASE u = t
      <4>1. t \in EngagedAt(l)' <=> lev > l \/ (lev = l /\ "victim" \in {"scan", "check"})
        BY <1>1, <1>4, <1>6, FilterMoves
      <4>2. lev >= l /\ l \in Nat
        BY <1>2, <2>3, <3>1, <4>1, CompetedNumbers
      <4>3. Newest(own) \in Nat /\ Newest(own)' = Newest(own) + 1 /\ written'[own][Newest(own) + 1].value = lev
        BY <1>1, <1>6 DEF Added, MemOK
      <4>4. \A m \in Newest(own) + 1 .. Newest(own)' : Value(own, m)' >= l
        BY <4>2, <4>3 DEF Value
      <4>5. \A m \in 1 .. Newest(own) : Value(own, m)' = Value(own, m)
        BY <1>6 DEF Value, Added
      <4>6. QED
        BY <1>5, <3>1, <4>3, <4>4, <4>5 DEF StaysHigh
    <3>2. CASE u # t
      BY <1>1, <1>5, <1>6, <3>2, FilterLocations, SameIsHigh DEF Added
    <3>3. QED
      BY <3>1, <3>2
  <2>4. \A u \in Threads : \A loc \in FilterLocs : seen[u][loc] <= seen'[u][loc]
    BY <1>1, <1>6, KnownGrows
  <2>5. QED
    BY <1>1, <1>2, <1>4, <1>6, <2>1, <2>2, <2>3, <2>4, ChainPast
<1>10. QED
  BY <1>7, <1>8, <1>9 DEF FilterIInv

\* A step of thread t that writes nothing but the data.
LEMMA FilterSectionKeeps == ASSUME FilterIInv, NEW t \in Threads, Work(t) PROVE FilterIInv'
<1>1. FilterTypes /\ OwnLevels /\ MemOK(FilterLocs)
  BY DEF FilterIInv, FilterTypes
<1>2. PICK next \in 0 .. NrThreads : next = k[t]
  BY <1>1 DEF FilterTypes
<1>3. pc[t] = "cs" /\ level[t] = NrThreads /\ Moves(t, "unlock", NrThreads, next) /\ MayGo(t, "unlock", NrThreads, next)
  <2>1. pc[t] = "cs" /\ pc' = [pc EXCEPT ![t] = "unlock"] /\ level' = level /\ k' = k
    BY DEF Work, Section, Within, Goto, locals
  <2>2. level[t] = NrThreads
    BY <1>1, <2>1 DEF FilterTypes
  <2>3. level = [level EXCEPT ![t] = NrThreads] /\ k = [k EXCEPT ![t] = next]
    BY <1>1, <1>2, <2>2 DEF FilterTypes
  <2>4. QED
    BY <1>2, <2>1, <2>2, <2>3, CompetedNumbers DEF Moves, MayGo, Climbing
<1>4. PICK view : /\ MemOK(FilterLocs)' /\ Learns(FilterLocs, t) /\ Added(FilterLocs, Payload, 0, view)
  <2>1. Store(t, Payload, 0, "relaxed") /\ 0 \in Values /\ Payload \in FilterLocs
    BY FilterLocations DEF Work, Section, Values
  <2>2. QED
    BY <1>1, <2>1, StoreEffect
<1>5. \A u \in Threads : written'[Level(u)] = written[Level(u)] /\ written'[Victim(u)] = written[Victim(u)]
  BY <1>4, FilterLocations DEF Added
<1>6. FilterTypes'
  BY <1>1, <1>3, <1>4, FilterMoves
<1>7. OwnLevels'
  BY <1>1, <1>3, <1>4, <1>5, OwnKept
<1>8. ASSUME NEW l \in Competed, Intact(l)' PROVE Chain(l)'
  <2>1. l \in Threads /\ Chain(l) /\ l \in Nat /\ l < NrThreads
    BY <1>1, <1>3, <1>8, CompetedNumbers, IntactBefore DEF FilterIInv
  <2>2. \A u \in Threads : u \in EngagedAt(l)' => StaysHigh(u, l)
    BY <1>1, <1>5, SameIsHigh
  <2>3. \A u \in Threads : \A loc \in FilterLocs : seen[u][loc] <= seen'[u][loc]
    BY <1>1, <1>4, KnownGrows
  <2>4. QED
    BY <1>1, <1>3, <1>4, <1>5, <2>1, <2>2, <2>3, ChainPast
<1>9. QED
  BY <1>6, <1>7, <1>8 DEF FilterIInv

\* The level of a thread that resets its victim is no longer one where others wait.
LEMMA ResetFilterKeeps == ASSUME FilterIInv, NEW t \in Threads, ResetFilter(t) PROVE FilterIInv'
<1>1. FilterTypes /\ OwnLevels /\ MemOK(FilterLocs)
  BY DEF FilterIInv, FilterTypes
<1>2. PICK next \in 0 .. NrThreads : next = k[t]
  BY <1>1 DEF FilterTypes
<1>3. pc[t] = "resetVictim" /\ level[t] = 1 /\ Moves(t, "done", 1, next) /\ MayGo(t, "done", 1, next)
  <2>1. pc[t] = "resetVictim" /\ pc' = [pc EXCEPT ![t] = "done"] /\ level' = level /\ k' = k
    BY DEF ResetFilter, Within, Goto, locals
  <2>2. level[t] = 1
    BY <1>1, <2>1 DEF FilterTypes
  <2>3. level = [level EXCEPT ![t] = 1] /\ k = [k EXCEPT ![t] = next]
    BY <1>1, <1>2, <2>2 DEF FilterTypes
  <2>4. QED
    BY <1>2, <2>1, <2>2, <2>3, CompetedNumbers DEF Moves, MayGo, Climbing
<1>4. PICK view : /\ MemOK(FilterLocs)' /\ Learns(FilterLocs, t) /\ Added(FilterLocs, Victim(t), 0, view)
  <2>1. Store(t, Victim(t), 0, "release") /\ 0 \in Values /\ Victim(t) \in FilterLocs
    BY FilterLocations DEF ResetFilter, Values
  <2>2. QED
    BY <1>1, <2>1, StoreEffect
<1>5. \A u \in Threads : written'[Level(u)] = written[Level(u)] /\ (u # t => written'[Victim(u)] = written[Victim(u)])
  BY <1>4, FilterLocations DEF Added
<1>6. FilterTypes' /\ pc'[t] = "done"
  BY <1>1, <1>3, <1>4, FilterMoves
<1>7. OwnLevels'
  BY <1>1, <1>3, <1>4, <1>5, OwnKept
<1>8. ASSUME NEW l \in Competed, Intact(l)' PROVE Chain(l)'
  <2>1. l \in Threads /\ Chain(l) /\ l \in Nat \ {0} /\ l # t
    BY <1>1, <1>3, <1>6, <1>8, CompetedNumbers, IntactBefore DEF FilterIInv, Intact
  <2>2. \A u \in Threads : u \in EngagedAt(l)' => StaysHigh(u, l)
    BY <1>1, <1>5, SameIsHigh
  <2>3. \A u \in Threads : \A loc \in FilterLocs : seen[u][loc] <= seen'[u][loc]
    BY <1>1, <1>4, KnownGrows
  <2>4. QED
    BY <1>1, <1>3, <1>4, <1>5, <2>1, <2>2, <2>3, ChainPast
<1>9. QED
  BY <1>6, <1>7, <1>8 DEF FilterIInv

\* A thread that leaves and made the last exchange of a level's victim leaves
\* nobody there.
LEMMA LeaveLevelsKeeps == ASSUME FilterIInv, NEW t \in Threads, LeaveLevels(t) PROVE FilterIInv'
<1>1. FilterTypes /\ OwnLevels /\ MemOK(FilterLocs)
  BY DEF FilterIInv, FilterTypes
<1>2. PICK next \in 0 .. NrThreads : next = k[t]
  BY <1>1 DEF FilterTypes
<1>3. PICK there \in {"level", "cs", "resetVictim"} :
        /\ pc[t] = "unlock" /\ level[t] = NrThreads
        /\ Moves(t, there, 1, next) /\ MayGo(t, there, 1, next)
  <2>1. PICK there : there = IF left[t] > 1 THEN FilterEntry ELSE "resetVictim"
    OBVIOUS
  <2>2. pc[t] = "unlock" /\ pc' = [pc EXCEPT ![t] = there] /\ level' = [level EXCEPT ![t] = 1] /\ k' = k
    BY <2>1 DEF LeaveLevels, EndIteration, Goto
  <2>3. level[t] = NrThreads
    BY <1>1, <2>2 DEF FilterTypes
  <2>4. k = [k EXCEPT ![t] = next]
    BY <1>1, <1>2 DEF FilterTypes
  <2>5. /\ there \in {"level", "cs", "resetVictim"}
        /\ there = "level" => NrThreads > 1
        /\ there = "cs" => NrThreads = 1
    BY <2>1, CompetedNumbers DEF FilterEntry
  <2>6. MayGo(t, there, 1, next)
    BY <1>2, <2>5, CompetedNumbers DEF MayGo, FilterLabels, Climbing
  <2>7. QED
    BY <2>2, <2>3, <2>4, <2>5, <2>6 DEF Moves
<1>4. PICK own \in FilterLocs : own = Level(t)
  BY FilterLocations
<1>5. PICK view : /\ MemOK(FilterLocs)' /\ Learns(FilterLocs, t) /\ seen'[t][own] = Newest(own) + 1
                  /\ Added(FilterLocs, own, 0, view)
  <2>1. Store(t, own, 0, "release") /\ 0 \in Values
    BY <1>4 DEF LeaveLevels, Values
  <2>2. QED
    BY <1>1, <2>1, StoreEffect
<1>6. FilterTypes'
  BY <1>1, <1>3, <1>5, FilterMoves
<1>7. OwnLevels'
  BY <1>1, <1>3, <1>4, <1>5, OwnStored
<1>8. ASSUME NEW l \in Competed, Intact(l)' PROVE Chain(l)'
  <2>1. l \in Threads /\ Chain(l) /\ l \in Nat \ {0} /\ l < NrThreads /\ NrThreads \in Nat
    BY <1>1, <1>3, <1>8, CompetedNumbers, IntactBefore DEF FilterIInv
  <2>2. written'[Victim(l)] = written[Victim(l)]
    BY <1>4, <1>5, <2>1, FilterLocations DEF Added
  <2>3. t \notin EngagedAt(l)'
    <3>1. t \in EngagedAt(l)' <=> 1 > l \/ (1 = l /\ there \in {"scan", "check"})
      BY <1>1, <1>3, <1>5, FilterMoves
    <3>2. QED
      BY <2>1, <3>1
  <2>4. \A u \in Threads : u \in EngagedAt(l)' => StaysHigh(u, l)
    BY <1>1, <1>4, <1>5, <2>3, FilterLocations, SameIsHigh DEF Added
  <2>5. \A u \in Threads : \A loc \in FilterLocs : seen[u][loc] <= seen'[u][loc]
    BY <1>1, <1>5, KnownGrows
  <2>6. t \in EngagedAt(l) /\ t = LastVictim(l) => \A u \in EngagedAt(l) : u = t
    BY <1>3, <2>1 DEF Chain, VictimWaits
  <2>7. QED
    BY <1>1, <1>3, <1>5, <2>1, <2>2, <2>3, <2>4, <2>5, <2>6, ChainKept
<1>9. QED
  BY <1>6, <1>7, <1>8 DEF FilterIInv

\* A step of the spin loop: nothing is written, and who made the last exchange at
\* its level goes on waiting for those it has not yet passed by.
LEMMA SpinKeeps ==
  ASSUME FilterIInv, NEW t \in Threads, NEW there, NEW lev, NEW next,
         Moves(t, there, lev, next), MayGo(t, there, lev, next), there \in {"level", "cs", "scan", "check"},
         pc[t] \in {"scan", "check"},
         MemOK(FilterLocs)', written' = written, Learns(FilterLocs, t),
         there \in {"scan", "check"} => lev = level[t],
         there \in {"level", "cs"} => lev = level[t] + 1,
         level[t] \in Competed /\ Intact(level[t]) /\ t = LastVictim(level[t]) =>
           \A u \in EngagedAt(level[t]) \ {t} : lev = level[t] /\ (there = "scan" => u >= next)
  PROVE  FilterIInv'
<1>1. FilterTypes /\ OwnLevels /\ MemOK(FilterLocs)
  BY DEF FilterIInv, FilterTypes
<1>2. FilterTypes'
  BY <1>1, FilterMoves
<1>3. OwnLevels'
  BY <1>1, OwnKept
<1>4. ASSUME NEW l \in Competed, Intact(l)' PROVE Chain(l)'
  <2>1. l \in Threads /\ Chain(l) /\ l \in Nat \ {0} /\ Intact(l)
    BY <1>1, <1>4, CompetedNumbers, IntactBefore DEF FilterIInv
  <2>2. \A u \in Threads : u \in EngagedAt(l)' => StaysHigh(u, l)
    BY <1>1, SameIsHigh
  <2>3. \A u \in Threads : \A loc \in FilterLocs : seen[u][loc] <= seen'[u][loc]
    BY <1>1, KnownGrows
  <2>4. level[t] \in Nat /\ lev \in Nat
    BY <1>1, CompetedNumbers DEF FilterTypes, MayGo
  <2>5. CASE level[t] = l
    <3>1. t \in EngagedAt(l)
      BY <2>5 DEF EngagedAt
    <3>2. t \in EngagedAt(l)' <=> lev > l \/ (lev = l /\ there \in {"scan", "check"})
      BY <1>1, FilterMoves
    <3>3. t \in EngagedAt(l)'
      BY <2>4, <2>5, <3>2
    <3>4. t = LastVictim(l) => \A u \in EngagedAt(l) \ {t} : lev = l /\ (there = "scan" => u >= next)
      BY <2>1, <2>5
    <3>5. QED
      BY <1>1, <2>1, <2>2, <2>3, <2>5, <3>1, <3>3, <3>4, ChainKept
  <2>6. CASE level[t] # l
    <3>1. (lev > l <=> level[t] > l) /\ (lev = l => there \notin {"scan", "check"})
      BY <2>1, <2>4, <2>6
    <3>2. QED
      BY <1>1, <2>1, <2>2, <2>3, <2>6, <3>1, ChainPast
  <2>7. QED
    BY <2>5, <2>6
<1>5. QED
  BY <1>2, <1>3, <1>4 DEF FilterIInv

\* Where the spin loop of a level ends.
LEMMA ClimbMoves ==
  ASSUME FilterTypes, NEW t \in Threads, pc[t] \in {"scan", "check"}, NEW here, Climb(t, here),
         NEW next \in 0 .. NrThreads, k' = [k EXCEPT ![t] = next]
  PROVE  \E there \in {"level", "cs"} :
           Moves(t, there, level[t] + 1, next) /\ MayGo(t, there, level[t] + 1, next)
<1>1. level[t] \in Nat /\ level[t] < NrThreads /\ NrThreads \in Nat /\ level[t] >= 1
  BY CompetedNumbers DEF FilterTypes, Climbing
<1>2. PICK there : there = IF level[t] + 1 < NrThreads THEN "level" ELSE "cs"
  OBVIOUS
<1>3. pc' = [pc EXCEPT ![t] = there] /\ level' = [level EXCEPT ![t] = level[t] + 1]
  BY <1>2 DEF Climb, Within, Goto, FilterTypes
<1>4. there \in {"level", "cs"} /\ MayGo(t, there, level[t] + 1, next)
  BY <1>1, <1>2 DEF MayGo, FilterLabels, Climbing
<1>5. QED
  BY <1>3, <1>4 DEF Moves

\* The first other thread at or after one.
LEMMA NextOthers ==
  ASSUME NEW t \in Threads, NEW n \in Nat, n <= NrThreads
  PROVE  /\ NextOther(t, n) \in Nat /\ NextOther(t, n) <= NrThreads /\ NextOther(t, n) # t
         /\ NextOther(t, n) < NrThreads => NextOther(t, n) \in Threads \ {t}
         /\ \A u \in Threads \ {t} : u >= n => u >= NextOther(t, n)
<1>1. t \in Nat /\ t < NrThreads /\ NrThreads \in Nat /\ \A u : u \in Threads <=> u \in Nat /\ u < NrThreads
  BY CompetedNumbers DEF Threads
<1>2. QED
  BY <1>1 DEF NextOther

LEMMA ScanKeeps == ASSUME FilterIInv, NEW t \in Threads, Scan(t) PROVE FilterIInv'
<1>1. FilterTypes /\ MemOK(FilterLocs) /\ pc[t] = "scan"
  BY DEF FilterIInv, FilterTypes, Scan
<1>2. k[t] \in Threads /\ k[t] # t /\ k[t] \in Nat /\ k[t] < NrThreads /\ NrThreads \in Nat
  BY <1>1, CompetedNumbers DEF FilterTypes, Threads
<1>3. PICK l \in Competed : l = level[t] /\ l \in Nat \ {0} /\ l < NrThreads
  <2>1. level[t] \in 1 .. NrThreads /\ level[t] < NrThreads
    BY <1>1 DEF FilterTypes, Climbing
  <2>2. QED
    BY <2>1, CompetedNumbers DEF Competed
<1>4. PICK other \in FilterLocs : other = Level(k[t])
  BY <1>2, FilterLocations
<1>5. PICK n \in Visible(t, other) :
        /\ Load(t, other, n, "relaxed")
        /\ IF written[other][n].value >= l
           THEN Within(t, "scan", "check") /\ UNCHANGED locals
           ELSE /\ k' = [k EXCEPT ![t] = NextOther(t, k[t] + 1)]
                /\ IF k'[t] < NrThreads
                   THEN Within(t, "scan", "scan") /\ UNCHANGED level
                   ELSE Climb(t, "scan")
  BY <1>3, <1>4 DEF Scan
<1>6. MemOK(FilterLocs)' /\ written' = written /\ Learns(FilterLocs, t)
  BY <1>1, <1>5, LoadEffect
<1>7. Intact(l) /\ t = LastVictim(l) =>
        \A u \in EngagedAt(l) \ {t} : u >= k[t] /\ (u = k[t] => written[other][n].value >= l)
  <2> SUFFICES ASSUME Intact(l), t = LastVictim(l), NEW u \in EngagedAt(l) \ {t}
               PROVE  u >= k[t] /\ (u = k[t] => written[other][n].value >= l)
    OBVIOUS
  <2>1. Chain(l) /\ t \in EngagedAt(l)
    BY <1>1, <1>3 DEF FilterIInv, EngagedAt
  <2>2. u >= k[t]
    BY <1>1, <2>1 DEF Chain, VictimWaits
  <2>3. u = k[t] => High(u, l, seen[t][other])
    BY <1>3, <1>4, <2>1 DEF Chain, VictimKnows
  <2>4. n \in seen[t][other] .. Newest(other)
    BY <1>5 DEF Visible
  <2>5. QED
    BY <1>4, <2>2, <2>3, <2>4 DEF High, Value
<1>8. CASE written[other][n].value >= l
  <2>1. pc' = [pc EXCEPT ![t] = "check"] /\ level' = level /\ k' = k
    BY <1>5, <1>8 DEF Within, Goto, locals
  <2>2. Moves(t, "check", l, k[t]) /\ MayGo(t, "check", l, k[t])
    BY <1>1, <1>2, <1>3, <2>1 DEF Moves, MayGo, FilterTypes, FilterLabels
  <2>3. QED
    BY <1>1, <1>3, <1>6, <2>2, SpinKeeps
<1>9. CASE ~(written[other][n].value >= l)
  <2>1. PICK next \in Nat : next = NextOther(t, k[t] + 1)
    BY <1>2, NextOthers
  <2>2. /\ next <= NrThreads /\ (next < NrThreads => next \in Threads \ {t}) /\ next \in 0 .. NrThreads
        /\ \A u \in Threads \ {t} : u >= k[t] + 1 => u >= next
    BY <1>2, <2>1, NextOthers
  <2>3. k' = [k EXCEPT ![t] = next] /\ k'[t] = next
    BY <1>1, <1>5, <1>9, <2>1 DEF FilterTypes
  <2>4. Intact(l) /\ t = LastVictim(l) => \A u \in EngagedAt(l) \ {t} : u \in Threads /\ u >= next
    <3>1. EngagedAt(l) \subseteq Threads
      BY DEF EngagedAt, Above
    <3>2. \A u \in Threads : u \in Int
      BY CompetedNumbers
    <3>3. QED
      BY <1>2, <1>7, <1>9, <2>2, <3>1, <3>2
  <2>5. CASE next < NrThreads
    <3>1. pc' = [pc EXCEPT ![t] = "scan"] /\ level' = level
      BY <1>5, <1>9, <2>3, <2>5 DEF Within, Goto
    <3>2. Moves(t, "scan", l, next) /\ MayGo(t, "scan", l, next)
      BY <1>1, <1>3, <2>2, <2>3, <2>5, <3>1 DEF Moves, MayGo, FilterTypes, FilterLabels
    <3>3. QED
      BY <1>1, <1>3, <1>6, <2>4, <3>2, SpinKeeps
  <2>6. CASE ~(next < NrThreads)
    <3>1. Climb(t, "scan")
      BY <1>5, <1>9, <2>3, <2>6
    <3>2. PICK there \in {"level", "cs"} : Moves(t, there, l + 1, next) /\ MayGo(t, there, l + 1, next)
      BY <1>1, <1>3, <2>2, <2>3, <3>1, ClimbMoves
    <3>3. Intact(l) /\ t = LastVictim(l) => \A u \in EngagedAt(l) \ {t} : FALSE
      <4>1. \A u \in Threads : u \in Nat /\ u < NrThreads
        BY <1>2 DEF Threads
      <4>2. QED
        BY <1>2, <2>1, <2>4, <2>6, <4>1
    <3>4. QED
      BY <1>1, <1>3, <1>6, <3>2, <3>3, SpinKeeps
  <2>7. QED
    BY <2>5, <2>6
<1>10. QED
  BY <1>8, <1>9

LEMMA CheckKeeps == ASSUME FilterIInv, NEW t \in Threads, Check(t) PROVE FilterIInv'
<1>1. FilterTypes /\ MemOK(FilterLocs) /\ pc[t] = "check"
  BY DEF FilterIInv, FilterTypes, Check
<1>2. PICK l \in Competed : l = level[t] /\ l \in Nat \ {0} /\ l \in Threads /\ l < NrThreads
  <2>1. level[t] \in 1 .. NrThreads /\ level[t] < NrThreads
    BY <1>1 DEF FilterTypes, Climbing
  <2>2. QED
    BY <2>1, CompetedNumbers DEF Competed
<1>3. PICK v \in FilterLocs : v = Victim(l)
  BY <1>2, FilterLocations
<1>4. PICK n \in Visible(t, v) :
        /\ Load(t, v, n, "relaxed")
        /\ IF written[v][n].value = t
           THEN /\ Within(t, "check", "scan")
                /\ k' = [k EXCEPT ![t] = NextOther(t, 0)]
                /\ UNCHANGED level
           ELSE Climb(t, "check") /\ UNCHANGED k
  BY <1>2, <1>3 DEF Check
<1>5. MemOK(FilterLocs)' /\ written' = written /\ Learns(FilterLocs, t)
  BY <1>1, <1>4, LoadEffect
<1>6. Intact(l) /\ t = LastVictim(l) => written[v][n].value = t
  <2> SUFFICES ASSUME Intact(l), t = LastVictim(l) PROVE written[v][n].value = t
    OBVIOUS
  <2>1. Chain(l) /\ t \in EngagedAt(l)
    BY <1>1, <1>2 DEF FilterIInv, EngagedAt
  <2>2. seen[t][v] >= Newest(v)
    BY <1>2, <1>3, <2>1 DEF Chain, VictimKnows
  <2>3. n \in seen[t][v] .. Newest(v) /\ Newest(v) \in Nat /\ seen[t][v] \in Nat
    BY <1>1, <1>4 DEF Visible, MemOK
  <2>4. n = Newest(v)
    BY <2>2, <2>3
  <2>5. QED
    BY <1>3, <2>4 DEF LastVictim, Last
<1>7. NrThreads \in Nat /\ k[t] \in 0 .. NrThreads
  BY <1>1, CompetedNumbers DEF FilterTypes
<1>8. CASE written[v][n].value = t
  <2>1. PICK next \in Nat : next = NextOther(t, 0)
    BY <1>7, NextOthers
  <2>2. next \in Threads \ {t} /\ next \in 0 .. NrThreads /\ \A u \in Threads \ {t} : u >= next
    <3>1. \A u : u \in Threads <=> u \in Nat /\ u < NrThreads
      BY <1>7 DEF Threads
    <3>2. next < NrThreads
      BY <1>2, <1>7, <2>1, <3>1 DEF NextOther
    <3>3. QED
      BY <1>7, <2>1, <3>1, <3>2, NextOthers
  <2>3. pc' = [pc EXCEPT ![t] = "scan"] /\ level' = level /\ k' = [k EXCEPT ![t] = next]
    BY <1>4, <1>8, <2>1 DEF Within, Goto
  <2>4. Moves(t, "scan", l, next) /\ MayGo(t, "scan", l, next)
    BY <1>1, <1>2, <2>2, <2>3 DEF Moves, MayGo, FilterTypes, FilterLabels
  <2>5. EngagedAt(l) \subseteq Threads
    BY DEF EngagedAt, Above
  <2>6. QED
    BY <1>1, <1>2, <1>5, <2>2, <2>4, <2>5, SpinKeeps
<1>9. CASE written[v][n].value # t
  <2>1. Climb(t, "check") /\ k' = [k EXCEPT ![t] = k[t]]
    BY <1>1, <1>4, <1>9 DEF FilterTypes
  <2>2. PICK there \in {"level", "cs"} : Moves(t, there, l + 1, k[t]) /\ MayGo(t, there, l + 1, k[t])
    BY <1>1, <1>2, <1>7, <2>1, ClimbMoves
  <2>3. QED
    BY <1>1, <1>2, <1>5, <1>6, <1>9, <2>2, SpinKeeps
<1>10. QED
  BY <1>8, <1>9

\* Whoever exchanges a level's victim learns of all that are engaged there, and
\* tells of them and of itself.
LEMMA SetVictimKeeps == ASSUME FilterIInv, NEW t \in Threads, SetVictim(t) PROVE FilterIInv'
<1>1. FilterTypes /\ OwnLevels /\ MemOK(FilterLocs) /\ pc[t] = "victim"
  BY DEF FilterIInv, FilterTypes, SetVictim, Within, Goto
<1>2. PICK l \in Competed : l = level[t] /\ l \in Nat \ {0} /\ l \in Threads /\ l < NrThreads
  <2>1. level[t] \in 1 .. NrThreads /\ level[t] < NrThreads
    BY <1>1 DEF FilterTypes, Climbing
  <2>2. QED
    BY <2>1, CompetedNumbers DEF Competed
<1>3. PICK next \in 0 .. NrThreads :
        /\ next \in Threads \ {t} /\ \A u \in Threads \ {t} : u >= next
        /\ Moves(t, "scan", l, next) /\ MayGo(t, "scan", l, next)
  <2>1. NrThreads \in Nat /\ \A u : u \in Threads <=> u \in Nat /\ u < NrThreads
    BY CompetedNumbers DEF Threads
  <2>2. PICK next \in Nat : next = NextOther(t, 0)
    BY <2>1, NextOthers
  <2>3. next \in Threads \ {t} /\ next \in 0 .. NrThreads /\ \A u \in Threads \ {t} : u >= next
    <3>1. next < NrThreads
      BY <1>2, <2>1, <2>2 DEF NextOther
    <3>2. QED
      BY <2>1, <2>2, <3>1, NextOthers
  <2>4. pc' = [pc EXCEPT ![t] = "scan"] /\ level' = level /\ k' = [k EXCEPT ![t] = next]
    BY <2>2 DEF SetVictim, Within, Goto
  <2>5. Moves(t, "scan", l, next) /\ MayGo(t, "scan", l, next)
    BY <1>1, <1>2, <2>3, <2>4 DEF Moves, MayGo, FilterTypes, FilterLabels
  <2>6. QED
    BY <2>3, <2>5
<1>4. PICK v \in FilterLocs : v = Victim(l)
  BY <1>2, FilterLocations
<1>5. PICK view \in [FilterLocs -> Nat] :
        /\ MemOK(FilterLocs)' /\ Learns(FilterLocs, t) /\ seen'[t][v] = Newest(v) + 1
        /\ \A loc \in FilterLocs : written[v][Newest(v)].view[loc] <= seen'[t][loc]
        /\ Added(FilterLocs, v, t, view)
        /\ \A loc \in FilterLocs : written[v][Newest(v)].view[loc] <= view[loc]
        /\ \A loc \in FilterLocs : seen[t][loc] <= view[loc]
  <2>1. Exchange(t, v, t, "acq_rel") /\ t \in Values
    BY <1>2, <1>4 DEF SetVictim, Values, Threads
  <2>2. QED
    BY <1>1, <2>1, ExchangeEffect
<1>6. /\ \A u \in Threads : written'[Level(u)] = written[Level(u)]
      /\ \A d \in Threads : d # l => written'[Victim(d)] = written[Victim(d)]
  BY <1>2, <1>4, <1>5, FilterLocations DEF Added
<1>7. FilterTypes'
  BY <1>1, <1>3, <1>5, FilterMoves
<1>8. OwnLevels'
  BY <1>1, <1>3, <1>5, <1>6, OwnKept
<1>9. /\ Newest(v) \in Nat /\ Newest(v)' = Newest(v) + 1 /\ LastVictim(l)' = t
      /\ written'[v][Newest(v)'].view = view
  <2>1. Newest(v) \in Nat /\ Newest(v)' = Newest(v) + 1
    BY <1>1, <1>5 DEF Added, MemOK
  <2>2. written'[v][Newest(v)'].value = t /\ written'[v][Newest(v)'].view = view
    BY <1>5, <2>1 DEF Added
  <2>3. QED
    BY <1>4, <2>1, <2>2 DEF LastVictim, Last
<1>10. /\ pc'[t] = "scan" /\ level'[t] = l /\ k'[t] = next
       /\ \A u \in Threads \ {t} : u \in EngagedAt(l)' <=> u \in EngagedAt(l)
       /\ t \in EngagedAt(l)'
  BY <1>1, <1>3, <1>5, FilterMoves
<1>11. EngagedAt(l) \subseteq Threads /\ EngagedAt(l)' \subseteq Threads
  BY DEF EngagedAt, Above
<1>12. \A u \in Threads : StaysHigh(u, l)
  BY <1>1, <1>6, SameIsHigh
<1>13. ASSUME Intact(l)' PROVE Chain(l)'
  <2>1. Chain(l)
    BY <1>1, <1>2, <1>3, <1>13, IntactBefore DEF FilterIInv
  <2>2. ASSUME NEW u \in Threads, u # t, u \in EngagedAt(l), NEW n2 \in Nat,
               written[v][Newest(v)].view[Level(u)] <= n2
        PROVE  n2 >= 1 /\ \A m \in n2 .. Newest(Level(u))' : Value(Level(u), m)' >= l
    <3>1. PICK n \in Nat : n = written[v][Newest(v)].view[Level(u)]
      BY <1>1, FilterNumbers, FilterLocations
    <3>2. High(u, l, n) /\ n <= n2
      BY <1>4, <2>1, <2>2, <3>1 DEF Chain, ToldOfAll
    <3>3. QED
      BY <1>1, <1>5, <1>12, <3>2, HighKept
  <2>3. ToldOfAll(l)'
    <3> SUFFICES ASSUME NEW u \in Threads, u \in EngagedAt(l)'
                 PROVE  High(u, l, written[Victim(l)][Newest(Victim(l))].view[Level(u)])'
      BY <1>11 DEF ToldOfAll
    <3>1. PICK n2 \in Nat : n2 = view[Level(u)]
      BY FilterLocations
    <3>2. n2 >= 1 /\ \A m \in n2 .. Newest(Level(u))' : Value(Level(u), m)' >= l
      <4>1. CASE u = t
        <5>1. PICK own \in FilterLocs : own = Level(t) /\ own # v
          BY <1>2, <1>4, FilterLocations
        <5>2. seen[t][own] >= Newest(own) /\ Value(own, Newest(own)) = l /\ seen[t][own] >= 1
          BY <1>1, <1>2, <5>1 DEF OwnLevels, MemOK
        <5>3. Newest(own)' = Newest(own) /\ Value(own, Newest(own))' = Value(own, Newest(own)) /\ Newest(own) \in Nat
          BY <1>1, <1>5, <5>1 DEF Added, Value, MemOK
        <5>4. seen[t][own] <= n2 /\ seen[t][own] \in Nat
          BY <1>1, <1>5, <3>1, <4>1, <5>1 DEF MemOK
        <5>5. n2 >= Newest(own) /\ n2 >= 1
          BY <5>2, <5>3, <5>4
        <5>6. ASSUME NEW m \in n2 .. Newest(own)' PROVE Value(own, m)' >= l
          <6>1. m = Newest(own)
            BY <5>3, <5>5
          <6>2. written'[own][m].value = l
            BY <5>2, <5>3, <6>1 DEF Value
          <6>3. QED
            BY <1>2, <6>2 DEF Value
        <5>7. QED
          BY <4>1, <5>1, <5>5, <5>6
      <4>2. CASE u # t
        BY <1>5, <1>10, <2>2, <3>1, <4>2, FilterLocations
      <4>3. QED
        BY <4>1, <4>2
    <3>3. n2 = written'[Victim(l)][Newest(Victim(l))'].view[Level(u)]
      BY <1>4, <1>9, <3>1
    <3>4. QED
      BY <3>2, <3>3 DEF High
  <2>4. VictimEngaged(l)'
    BY <1>9, <1>10 DEF VictimEngaged
  <2>5. VictimKnows(l)'
    <3> SUFFICES ASSUME NEW a \in Threads, a \in EngagedAt(l)', a = LastVictim(l)', level'[a] = l
                 PROVE  /\ seen'[a][Victim(l)] >= Newest(Victim(l))'
                        /\ \A u \in EngagedAt(l)' \ {a} : High(u, l, seen[a][Level(u)])'
      BY <1>11 DEF VictimKnows
    <3>1. a = t
      BY <1>9
    <3>2. seen'[a][Victim(l)] >= Newest(Victim(l))'
      BY <1>4, <1>5, <1>9, <3>1
    <3>3. ASSUME NEW u \in Threads, u \in EngagedAt(l)', u # a PROVE High(u, l, seen[a][Level(u)])'
      <4>1. PICK n2 \in Nat : n2 = seen'[t][Level(u)]
        BY <1>5, FilterLocations DEF Learns
      <4>2. n2 >= 1 /\ \A m \in n2 .. Newest(Level(u))' : Value(Level(u), m)' >= l
        BY <1>5, <1>10, <2>2, <3>1, <3>3, <4>1, FilterLocations
      <4>3. QED
        BY <3>1, <4>1, <4>2 DEF High
    <3>4. QED
      BY <1>11, <3>2, <3>3
  <2>6. VictimWaits(l)'
    <3> SUFFICES ASSUME NEW u \in EngagedAt(l)' \ {t}
                 PROVE  level'[t] = l /\ (pc'[t] = "scan" => u >= k'[t])
      BY <1>9 DEF VictimWaits
    <3>1. QED
      BY <1>3, <1>10, <1>11
  <2>7. QED
    BY <2>3, <2>4, <2>5, <2>6 DEF Chain
<1>14. ASSUME NEW d \in Competed, Intact(d)', d # l PROVE Chain(d)'
  <2>1. d \in Threads /\ Chain(d)
    BY <1>1, <1>3, <1>14, CompetedNumbers, IntactBefore DEF FilterIInv
  <2>2. \A u \in Threads : u \in EngagedAt(d)' => StaysHigh(u, d)
    BY <1>1, <1>6, SameIsHigh
  <2>3. \A u \in Threads : \A loc \in FilterLocs : seen[u][loc] <= seen'[u][loc]
    BY <1>1, <1>5, KnownGrows
  <2>4. QED
    BY <1>1, <1>2, <1>3, <1>5, <1>6, <1>14, <2>1, <2>2, <2>3, ChainPast
<1>15. QED
  BY <1>7, <1>8, <1>13, <1>14 DEF FilterIInv

LEMMA FilterInitHolds == FilterInit => FilterIInv
<1> SUFFICES ASSUME FilterInit PROVE FilterIInv
  OBVIOUS
<1>1. NrThreads \in Nat \ {0} /\ \A t \in Threads : t \in Nat
  BY CompetedNumbers DEF Threads
<1>2. PICK first : first = [l \in FilterLocs |-> 0]
  OBVIOUS
<1>3. PICK none \in [FilterLocs -> Nat] : none = [l \in FilterLocs |-> 0]
  OBVIOUS
<1>4. /\ pc \in [Threads -> {FilterEntry, "resetVictim"}]
      /\ written = [l \in FilterLocs |-> <<[value |-> 0, view |-> none]>>]
      /\ seen = [t \in Threads |-> [l \in FilterLocs |-> 1]]
  <2>1. PICK initial : initial = [l \in {Level(t) : t \in Threads} \cup {Victim(t) : t \in Threads} |-> 0]
    OBVIOUS
  <2>2. BenchInit(FilterEntry, "resetVictim", initial)
    BY <2>1 DEF FilterInit
  <2>3. DOMAIN initial \cup {Payload} = FilterLocs /\ \A l \in DOMAIN initial : initial[l] = 0
    BY <2>1 DEF FilterLocs
  <2>4. [l \in DOMAIN initial \cup {Payload} |-> IF l = Payload THEN 0 ELSE initial[l]] = first
    BY <1>2, <2>3
  <2>5. pc \in [Threads -> {FilterEntry, "resetVictim"}] /\ MemoryInit(Threads, first)
    BY <2>2, <2>4 DEF BenchInit
  <2>6. DOMAIN first = FilterLocs /\ \A l \in FilterLocs : first[l] = 0
    BY <1>2
  <2>7. QED
    BY <1>3, <2>5, <2>6 DEF MemoryInit
<1>5. PICK m \in MessagesOf(FilterLocs) : m = [value |-> 0, view |-> none]
  BY DEF MessagesOf, Values
<1>6. \A l \in FilterLocs : written[l] = <<m>> /\ Newest(l) = 1 /\ written[l][1].view = none
  BY <1>4, <1>5 DEF Newest
<1>7. MemOK(FilterLocs)
  <2>1. written \in [FilterLocs -> Seq(MessagesOf(FilterLocs))]
    <3>1. <<m>> \in Seq(MessagesOf(FilterLocs))
      OBVIOUS
    <3>2. QED
      BY <1>4, <1>5, <3>1
  <2>2. \A l \in FilterLocs : \A n \in 1 .. Newest(l) : \A loc \in FilterLocs : written[l][n].view[loc] <= Newest(loc)
    BY <1>3, <1>6
  <2>3. seen \in [Threads -> [FilterLocs -> Nat]]
    BY <1>4
  <2>4. QED
    BY <1>4, <1>6, <2>1, <2>2, <2>3 DEF MemOK
<1>8. /\ level = [t \in Threads |-> 1] /\ k = [t \in Threads |-> 0]
      /\ \A t \in Threads : /\ pc[t] \in {"level", "cs", "resetVictim"}
                            /\ pc[t] = "level" => NrThreads > 1
                            /\ pc[t] = "cs" => NrThreads = 1
  BY <1>1, <1>4 DEF FilterInit, FilterEntry
<1>9. FilterTypes
  <2>1. pc \in [Threads -> FilterLabels \cup {"cs", "unlock", "done"}]
    BY <1>4, <1>8 DEF FilterLabels
  <2>2. level \in [Threads -> 1 .. NrThreads] /\ k \in [Threads -> 0 .. NrThreads]
    BY <1>1, <1>8
  <2>3. \A t \in Threads :
           /\ pc[t] \in Climbing => level[t] < NrThreads
           /\ pc[t] \in {"cs", "unlock"} => level[t] = NrThreads
           /\ pc[t] \in {"resetVictim", "done"} => level[t] = 1
           /\ pc[t] = "scan" => k[t] \in Threads \ {t}
    BY <1>1, <1>8 DEF Climbing
  <2>4. QED
    BY <1>7, <2>1, <2>2, <2>3 DEF FilterTypes
<1>10. OwnLevels
  <2> SUFFICES ASSUME NEW t \in Threads PROVE seen[t][Level(t)] >= Newest(Level(t)) /\ pc[t] # "victim"
    BY DEF OwnLevels
  <2>1. PICK own \in FilterLocs : own = Level(t)
    BY FilterLocations
  <2>2. QED
    BY <1>4, <1>6, <1>8, <2>1
<1>11. ASSUME NEW l \in Competed PROVE Chain(l)
  <2>1. l \in Nat \ {0}
    BY CompetedNumbers
  <2>2. EngagedAt(l) = {}
    BY <1>8, <2>1 DEF EngagedAt, Above
  <2>3. QED
    BY <2>2 DEF Chain, ToldOfAll, VictimEngaged, VictimKnows, VictimWaits
<1>12. QED
  BY <1>9, <1>10, <1>11 DEF FilterIInv

LEMMA FilterStepKeeps == FilterIInv /\ [FilterNext]_filterVars => FilterIInv'
<1> SUFFICES ASSUME FilterIInv, [FilterNext]_filterVars PROVE FilterIInv'
  OBVIOUS
<1>1. CASE UNCHANGED filterVars
  <2>1. written' = written /\ seen' = seen /\ pc' = pc /\ level' = level /\ k' = k
    BY <1>1 DEF filterVars, benchVars, memoryVars, locals
  <2>2. FilterTypes'
    BY <2>1 DEF FilterIInv, FilterTypes, MemOK, Newest
  <2>3. OwnLevels'
    BY <2>1 DEF FilterIInv, OwnLevels, Newest, Value
  <2>4. ASSUME NEW l \in Competed, Intact(l)' PROVE Chain(l)'
    <3>1. Chain(l) /\ EngagedAt(l)' = EngagedAt(l) /\ LastVictim(l)' = LastVictim(l)
      BY <2>1, <2>4 DEF FilterIInv, Intact, EngagedAt, Above, LastVictim, Last, Newest
    <3>2. ToldOfAll(l)'
      BY <2>1, <3>1 DEF Chain, ToldOfAll, High, Value, Newest
    <3>3. VictimEngaged(l)'
      BY <3>1 DEF Chain, VictimEngaged
    <3>4. VictimKnows(l)'
      BY <2>1, <3>1 DEF Chain, VictimKnows, High, Value, Newest
    <3>5. VictimWaits(l)'
      BY <2>1, <3>1 DEF Chain, VictimWaits
    <3>6. QED
      BY <3>2, <3>3, <3>4, <3>5 DEF Chain
  <2>5. QED
    BY <2>2, <2>3, <2>4 DEF FilterIInv
<1>2. CASE FilterNext
  BY <1>2, SetLevelKeeps, SetVictimKeeps, ScanKeeps, CheckKeeps, FilterSectionKeeps, LeaveLevelsKeeps,
     ResetFilterKeeps DEF FilterNext, FilterStep
<1>3. QED
  BY <1>1, <1>2

-----------------------------------------------------------------------------
(* Counting the threads above a level of the filter. *)

\* The threads above level l, and those that have dropped out and reset the
\* victim of a higher level.
Filterable(l) == Above(l) \cup {d \in Threads : d > l /\ ~Intact(d)}

\* At every level somebody is filtered out, if two get past it.
LEMMA LevelFilters ==
  ASSUME FilterIInv, NEW l \in Competed, NEW a \in Above(l), NEW b \in Above(l), a # b
  PROVE  /\ Filterable(l) \subseteq Filterable(l - 1)
         /\ \E v \in Filterable(l - 1) : v \notin Filterable(l)
         /\ Above(l) \subseteq Above(l - 1)
<1>1. l \in Nat \ {0} /\ l \in Threads /\ \A t \in Threads : t \in Int /\ level[t] \in Nat
  BY CompetedNumbers DEF FilterIInv, FilterTypes
<1>2. EngagedAt(l) \subseteq Threads /\ Above(l) \subseteq EngagedAt(l) /\ EngagedAt(l) \subseteq Above(l - 1)
  <2>1. \A t \in Threads : (level[t] > l => level[t] > l - 1) /\ (level[t] = l => level[t] > l - 1)
    BY <1>1
  <2>2. QED
    BY <2>1 DEF EngagedAt, Above
<1>3. Filterable(l) \subseteq Filterable(l - 1)
  <2>1. \A d \in Threads : d > l => d > l - 1
    BY <1>1
  <2>2. QED
    BY <1>2, <2>1 DEF Filterable
<1>4. CASE ~Intact(l)
  <2>1. l > l - 1 /\ ~(l > l)
    BY <1>1
  <2>2. level[l] = 1
    BY <1>1, <1>4 DEF FilterIInv, FilterTypes, Intact
  <2>3. l \in Filterable(l - 1) /\ l \notin Filterable(l)
    BY <1>1, <1>4, <2>1, <2>2 DEF Filterable, Above
  <2>4. QED
    BY <1>2, <1>3, <2>3
<1>5. CASE Intact(l)
  <2>1. Chain(l) /\ LastVictim(l) \in EngagedAt(l)
    BY <1>2, <1>5 DEF FilterIInv, Chain, VictimEngaged
  <2>2. PICK v \in EngagedAt(l) : v = LastVictim(l)
    BY <2>1
  <2>3. level[v] = l
    BY <1>2, <2>1, <2>2 DEF Chain, VictimWaits
  <2>4. v \in Threads /\ Intact(v)
    BY <1>1, <1>2, <2>2, <2>3 DEF EngagedAt, Above, Intact
  <2>5. v \notin Filterable(l) /\ v \in Filterable(l - 1)
    BY <1>1, <1>2, <2>2, <2>3, <2>4 DEF Filterable, Above
  <2>6. QED
    BY <1>2, <1>3, <2>5
<1>6. QED
  BY <1>4, <1>5

\* So no more than NrThreads - l get past level l.
Filtered(l) ==
  l < NrThreads /\ (\E a, b \in Above(l) : a # b) => Cardinality(Filterable(l)) <= NrThreads - l

\* Induction, for a set of numbers.
LEMMA Induction ==
  ASSUME NEW S, 0 \in S, \A n \in Nat : n \in S => n + 1 \in S
  PROVE  Nat \subseteq S
<1> DEFINE R == OpToRel(<, Nat)
           T == Nat \ S
<1>1. IsWellFoundedOn(R, Nat)
  BY NatLessThanWellFounded
<1>2. \A x, y \in Nat : x < y => <<x, y>> \in R
  BY DEF OpToRel
<1> HIDE DEF R
<1>3. SUFFICES ASSUME T # {} PROVE FALSE
  OBVIOUS
<1>4. PICK x \in T : \A y \in T : ~(<<y, x>> \in R)
  BY <1>1, <1>3, WFMin
<1>5. x \in Nat /\ x # 0
  BY <1>4
<1>6. x - 1 \in Nat /\ x - 1 \notin S
  BY <1>4, <1>5
<1>7. <<x - 1, x>> \in R
  BY <1>2, <1>5, <1>6
<1> QED
  BY <1>4, <1>6, <1>7

\* By induction on the level: nobody who has got past level l + 1 is missing from
\* level l, and one who is there is not past it.
LEMMA AllFiltered == FilterIInv => \A l \in Nat : Filtered(l)
<1> SUFFICES ASSUME FilterIInv
             PROVE  \A l \in Nat : Filtered(l)
  OBVIOUS
<1>1. IsFiniteSet(Threads) /\ Cardinality(Threads) = NrThreads /\ NrThreads \in Nat \ {0}
  BY FS_Interval, NrThreadsAssumption DEF Threads
<1>2. \A l : Filterable(l) \in SUBSET Threads
  BY DEF Filterable, Above
<1>3. \A l : IsFiniteSet(Filterable(l)) /\ Cardinality(Filterable(l)) \in Nat
  BY <1>1, <1>2, FS_Subset, FS_CardinalityType
<1>4. Filtered(0)
  <2>1. Cardinality(Filterable(0)) <= NrThreads
    BY <1>1, <1>2, FS_Subset
  <2>2. QED
    BY <1>1, <2>1 DEF Filtered
<1>5. ASSUME NEW n \in Nat, Filtered(n), n + 1 < NrThreads, NEW a \in Above(n + 1), NEW b \in Above(n + 1), a # b
      PROVE  Cardinality(Filterable(n + 1)) <= NrThreads - (n + 1)
  <2>1. n + 1 \in Competed /\ (n + 1) - 1 = n
    BY <1>1, <1>5 DEF Competed
  <2>2. PICK v \in Filterable(n) :
          v \notin Filterable(n + 1) /\ Filterable(n + 1) \subseteq Filterable(n) /\ Above(n + 1) \subseteq Above(n)
    BY <1>5, <2>1, LevelFilters
  <2>3. Cardinality(Filterable(n)) <= NrThreads - n
    BY <1>1, <1>5, <2>2 DEF Filtered
  <2>4. Cardinality(Filterable(n) \ {v}) = Cardinality(Filterable(n)) - 1 /\ IsFiniteSet(Filterable(n) \ {v})
    BY <1>3, FS_RemoveElement
  <2>5. Cardinality(Filterable(n + 1)) <= Cardinality(Filterable(n) \ {v})
    BY <2>2, <2>4, FS_Subset
  <2>6. QED
    BY <1>1, <1>3, <2>3, <2>4, <2>5
<1>6. \A n \in Nat : Filtered(n) => Filtered(n + 1)
  BY <1>5 DEF Filtered
<1> DEFINE S == {l \in Nat : Filtered(l)}
<1>7. 0 \in S /\ \A n \in Nat : n \in S => n + 1 \in S
  BY <1>4, <1>6
<1> HIDE DEF S
<1>8. Nat \subseteq S
  BY <1>7, Induction
<1>9. QED
  BY <1>8 DEF S

\* In the filter lock (filter_lock_ar.cpp) no two threads are inside, for any number
\* of them, although the spin loop loads levels and victims relaxed: at every level
\* the exchanges of its victim tell whoever makes the last one of all the others
\* there, so that it lets them go first.  Each thread that has left breaks the chain
\* of one level by its reset, and is one thread less.
THEOREM RelaxedFilterExcludes == FilterSpec => []MutualExclusion
<1>1. FilterIInv /\ [FilterNext]_filterVars => FilterIInv'
  BY FilterStepKeeps
<1>2. ASSUME FilterIInv, NEW a \in Threads, NEW b \in Threads, Inside(a), Inside(b), a # b
      PROVE  FALSE
  <2>1. NrThreads - 1 \in Nat /\ NrThreads >= 2 /\ NrThreads \in Nat /\ NrThreads - (NrThreads - 1) = 1
    BY <1>2, NrThreadsAssumption DEF Threads
  <2>2. level[a] = NrThreads /\ level[b] = NrThreads
    BY <1>2 DEF FilterIInv, FilterTypes, Inside
  <2>3. a \in Above(NrThreads - 1) /\ b \in Above(NrThreads - 1)
    BY <2>1, <2>2 DEF Above
  <2>4. {a, b} \in SUBSET Filterable(NrThreads - 1)
    BY <2>3 DEF Filterable
  <2>5. Cardinality(Filterable(NrThreads - 1)) <= 1
    <3>1. Filtered(NrThreads - 1)
      BY <1>2, <2>1, AllFiltered
    <3>2. QED
      BY <1>2, <2>1, <2>3, <3>1 DEF Filtered
  <2>6. IsFiniteSet(Filterable(NrThreads - 1))
    <3>1. Filterable(NrThreads - 1) \in SUBSET Threads /\ IsFiniteSet(Threads)
      BY FS_Interval, NrThreadsAssumption DEF Filterable, Above, Threads
    <3>2. QED
      BY <3>1, FS_Subset
  <2>7. Cardinality({a, b}) = 2
    <3>1. IsFiniteSet({a}) /\ Cardinality({a}) = 1
      BY FS_Singleton
    <3>2. Cardinality({a} \cup {b}) = Cardinality({a}) + 1
      BY <1>2, <3>1, FS_AddElement
    <3>3. {a} \cup {b} = {a, b}
      OBVIOUS
    <3>4. QED
      BY <3>1, <3>2, <3>3
  <2>8. Cardinality({a, b}) <= Cardinality(Filterable(NrThreads - 1)) /\ Cardinality(Filterable(NrThreads - 1)) \in Nat
    BY <2>4, <2>6, FS_Subset, FS_CardinalityType
  <2>9. QED
    BY <2>5, <2>7, <2>8
<1>3. FilterIInv => MutualExclusion
  BY <1>2 DEF FilterIInv, FilterTypes, MutualExclusion
<1>4. QED
  BY <1>1, <1>3, FilterInitHolds, PTL DEF FilterSpec

-----------------------------------------------------------------------------
(* The lock-free Ada queue *)

CONSTANTS Producers, Consumers, Share, DwAtomic
VARIABLES node, myFirst, myLast, myNext, item, got

\* Its threads are numbered as those of the locks are.
Ada == INSTANCE AcquireQueue

\* Threads are producers or consumers, and 16 bytes are exchanged at once.
QueueSetting ==
  /\ Producers \cup Consumers = Threads /\ Producers \cap Consumers = {}
  /\ Share \in [Threads -> Nat]
  /\ DwAtomic = TRUE

QueueLocs == {Ada!First, Ada!List_Last} \cup {Ada!Next(n) : n \in Ada!Heap} \cup {Ada!Element(n) : n \in Ada!Heap}

\* Where the link of a node begins, in the order of what is stored in it.
Base(n) == IF n = Ada!Initial THEN 1 ELSE 2

Pointers == [ptr : Ada!Heap \cup {Ada!Null}, count : Int]

\* A view that shows how a node was filled.
Shows(view, n) == n # Ada!Initial => view[Ada!Next(n)] >= 2 /\ view[Ada!Element(n)] >= 2

Filled(n) ==
  /\ Newest(Ada!Next(n)) >= Base(n) /\ Value(Ada!Next(n), Base(n)) = Ada!Nowhere
  /\ n # Ada!Initial => Newest(Ada!Element(n)) = 2 /\ Value(Ada!Element(n), 2) = n

\* The link of node m leads to node n, and shows it filled.
LinkedTo(m, n) ==
  /\ Newest(Ada!Next(m)) = Base(m) + 1
  /\ Value(Ada!Next(m), Base(m) + 1) = Ada!Tagged(n, 1)
  /\ Shows(written[Ada!Next(m)][Base(m) + 1].view, n)

OnList(last, list, n) == \E i \in 0 .. last : list[i] = n

\* All nodes that were ever on the list, in their order.
ListIs(last, list) ==
  /\ list[0] = Ada!Initial
  /\ \A i \in 0 .. last : list[i] \in Ada!Heap /\ Filled(list[i])
  /\ \A i, j \in 0 .. last : list[i] = list[j] => i = j
  /\ \A i \in 0 .. last : i # last => LinkedTo(list[i], list[i + 1])
  /\ Newest(Ada!Next(list[last])) = Base(list[last])

\* List.First moves from each to the next, List.Last to any of them.
EndsAre(last, list) ==
  /\ Newest(Ada!First) <= last + 1
  /\ \A m \in 1 .. Newest(Ada!First) :
       /\ Value(Ada!First, m) = Ada!Tagged(list[m - 1], m - 1)
       /\ Shows(written[Ada!First][m].view, list[m - 1])
  /\ \A m \in 1 .. Newest(Ada!List_Last) :
       /\ Value(Ada!List_Last, m) \in Pointers
       /\ OnList(last, list, Value(Ada!List_Last, m).ptr)
       /\ Shows(written[Ada!List_Last][m].view, Value(Ada!List_Last, m).ptr)

\* A producer's nodes are on the list up to the present one, in their order.
NodesAre(last, list) ==
  /\ \A n \in Ada!Heap \ {Ada!Initial} :
       /\ OnList(last, list, n) <=> n[2] > left[n[1]] \/ (n[2] = left[n[1]] /\ pc[n[1]] = "swing")
       /\ n[2] < left[n[1]] \/ (n[2] = left[n[1]] /\ pc[n[1]] = "new") =>
            Newest(Ada!Element(n)) = 1 /\ Newest(Ada!Next(n)) = 1
  /\ \A i, j \in 0 .. last : i < j /\ list[i][1] = list[j][1] => list[i][2] > list[j][2]

\* What was read from the link of node m.
ReadLink(last, list, t, m) ==
  \/ myNext[t] = Ada!Nowhere
  \/ \E i \in 0 .. last : /\ i # last /\ list[i] = m
                          /\ myNext[t] = Ada!Tagged(list[i + 1], 1)
                          /\ Shows(seen[t], list[i + 1])

ProducerIs(last, list, t) ==
  /\ pc[t] \notin {"new", "done"} => node[t] = <<t, left[t]>>
  /\ pc[t] = "fill" =>
       /\ Newest(Ada!Element(node[t])) = 2 /\ Value(Ada!Element(node[t]), 2) = node[t]
       /\ Newest(Ada!Next(node[t])) = 1 /\ seen[t][Ada!Element(node[t])] >= 2
  /\ pc[t] \in {"loadLast", "loadNext", "recheck", "link", "helpLink"} =>
       Filled(node[t]) /\ Newest(Ada!Next(node[t])) = 2
  /\ pc[t] \in {"loadLast", "loadNext", "recheck", "link", "helpLink", "swing"} =>
       Shows(seen[t], node[t])
  /\ pc[t] \in {"loadNext", "recheck", "link", "helpLink"} =>
       OnList(last, list, myLast[t].ptr) /\ Shows(seen[t], myLast[t].ptr)
  /\ pc[t] \in {"recheck", "link", "helpLink"} => ReadLink(last, list, t, myLast[t].ptr)
  /\ pc[t] = "link" => myNext[t] = Ada!Nowhere
  /\ pc[t] = "helpLink" => myNext[t] # Ada!Nowhere

ConsumerIs(last, list, t) ==
  /\ pc[t] \in {"last", "next", "refirst", "help", "read", "advance"} =>
       /\ myFirst[t].count \in 0 .. Newest(Ada!First) - 1
       /\ myFirst[t] = Ada!Tagged(list[myFirst[t].count], myFirst[t].count)
       /\ Shows(seen[t], myFirst[t].ptr)
  /\ pc[t] \in {"refirst", "help", "read", "advance"} => ReadLink(last, list, t, myFirst[t].ptr)
  /\ pc[t] \in {"help", "read", "advance"} => myNext[t] # Ada!Nowhere
  /\ pc[t] = "advance" => item[t] = myNext[t].ptr

\* What was dequeued are the items of the nodes that List.First has moved to, each
\* of them once and in their order.
Dequeued(list) ==
  /\ \A c \in Consumers : \A i \in DOMAIN got[c] :
       \E p \in 1 .. Newest(Ada!First) - 1 : got[c][i] = list[p]
  /\ \A c, d \in Consumers : \A i \in DOMAIN got[c], j \in DOMAIN got[d] :
       got[c][i] = got[d][j] => c = d /\ i = j
  /\ \A c \in Consumers : \A i, j \in DOMAIN got[c] : \A p, q \in 1 .. Newest(Ada!First) - 1 :
       i < j /\ got[c][i] = list[p] /\ got[c][j] = list[q] => p < q

QueueIs(last, list) ==
  /\ ListIs(last, list) /\ EndsAre(last, list) /\ NodesAre(last, list) /\ Dequeued(list)
  /\ \A t \in Producers : ProducerIs(last, list, t)
  /\ \A t \in Consumers : ConsumerIs(last, list, t)

ProducerLabels ==
  {"new", "fill", "loadLast", "loadNext", "recheck", "link", "helpLink", "swing", "done"}
ConsumerLabels == {"first", "last", "next", "refirst", "help", "read", "advance", "done"}

QueueTypes ==
  /\ MemOK(QueueLocs)
  /\ pc \in [Threads -> ProducerLabels \cup ConsumerLabels]
  /\ \A t \in Producers : pc[t] \in ProducerLabels
  /\ \A t \in Consumers : pc[t] \in ConsumerLabels
  /\ left \in [Threads -> Nat]
  /\ \A t \in Threads : left[t] <= Share[t] /\ (left[t] = 0 <=> pc[t] = "done")
  /\ node \in [Threads -> Ada!Heap \cup {Ada!Null}] /\ item \in [Threads -> Ada!Heap \cup {Ada!Null}]
  /\ myFirst \in [Threads -> Pointers] /\ myLast \in [Threads -> Pointers]
  /\ myNext \in [Threads -> Pointers]
  /\ got \in [Consumers -> Seq(Ada!Heap)]

QueueInv == QueueTypes /\ \E last \in Nat : \E list \in [Nat -> Ada!Heap] : QueueIs(last, list)

\* Addresses.
LEMMA Addresses ==
  ASSUME QueueSetting
  PROVE  /\ Ada!Initial \in Ada!Heap /\ Ada!Null \notin Ada!Heap
         /\ Ada!Heap \cup {Ada!Null} \subseteq Int \X Int
         /\ \A n \in Ada!Heap \ {Ada!Initial} :
              n[1] \in Producers /\ n[2] \in 1 .. Share[n[1]] /\ n = <<n[1], n[2]>>
         /\ Ada!Initial[1] \notin Threads
         /\ \A t \in Producers : \A i \in 1 .. Share[t] :
              <<t, i>> \in Ada!Heap \ {Ada!Initial} /\ <<t, i>>[1] = t /\ <<t, i>>[2] = i
<1>1. Threads \subseteq Nat /\ Producers \subseteq Threads
  BY NrThreadsAssumption DEF Threads, QueueSetting
<1>2. Ada!Initial \in Ada!Heap /\ Ada!Initial \in Int \X Int /\ Ada!Null \in Int \X Int
      /\ Ada!Initial[1] = -1 /\ Ada!Initial[1] \notin Threads /\ Ada!Null[1] \notin Threads
      /\ Ada!Initial # Ada!Null
  BY <1>1 DEF Ada!Heap, Ada!Initial, Ada!Null
<1>3. ASSUME NEW n \in Ada!Heap \ {Ada!Initial}
      PROVE  /\ n[1] \in Producers /\ n[2] \in 1 .. Share[n[1]] /\ n = <<n[1], n[2]>>
             /\ n \in Int \X Int /\ n # Ada!Null
  <2>1. PICK t \in Producers : n \in {t} \X (1 .. Share[t])
    BY <1>3 DEF Ada!Heap
  <2>2. n[1] = t /\ n[2] \in 1 .. Share[t] /\ n = <<n[1], n[2]>>
    BY <2>1
  <2>3. Share[t] \in Nat /\ t \in Int
    BY <1>1, <2>1 DEF QueueSetting
  <2> QED
    BY <1>1, <1>2, <2>1, <2>2, <2>3
<1>4. ASSUME NEW t \in Producers, NEW i \in 1 .. Share[t]
      PROVE  <<t, i>> \in Ada!Heap \ {Ada!Initial}
  <2>1. <<t, i>> \in {t} \X (1 .. Share[t])
    OBVIOUS
  <2>2. <<t, i>> \in Ada!Heap
    BY <2>1 DEF Ada!Heap
  <2> QED
    BY <1>1, <1>2, <2>2
<1> QED
  BY <1>2, <1>3, <1>4

\* Locations.
LEMMA QueueLocations ==
  /\ Ada!First \in QueueLocs /\ Ada!List_Last \in QueueLocs /\ Ada!First # Ada!List_Last
  /\ \A n \in Ada!Heap :
       /\ Ada!Next(n) \in QueueLocs /\ Ada!Next(n) \notin {Ada!First, Ada!List_Last}
       /\ Ada!Element(n) \in QueueLocs /\ Ada!Element(n) \notin {Ada!First, Ada!List_Last}
  /\ \A m, n \in Ada!Heap :
       /\ Ada!Next(m) # Ada!Element(n)
       /\ Ada!Next(m) = Ada!Next(n) => m = n
       /\ Ada!Element(m) = Ada!Element(n) => m = n
BY DEF QueueLocs, Ada!First, Ada!List_Last, Ada!Next, Ada!Element

\* What is stored.
LEMMA Stored ==
  ASSUME QueueSetting
  PROVE  /\ Ada!Heap \cup {Ada!Null} \subseteq Values /\ Pointers \subseteq Values
         /\ Ada!Nowhere \in Pointers /\ Ada!Nowhere.ptr = Ada!Null /\ Ada!Garbage \in Pointers
         /\ \A p \in Ada!Heap : \A c \in Int :
              /\ Ada!Tagged(p, c) \in Pointers /\ Ada!Tagged(p, c) # Ada!Nowhere
              /\ Ada!Tagged(p, c).ptr = p /\ Ada!Tagged(p, c).count = c
BY Addresses DEF Values, Pointers, Ada!Nowhere, Ada!Garbage, Ada!Tagged


\* The orders that the calls ask for, and the memory of the queue.
LEMMA AdaOrders ==
  /\ Ada!gcc_memorder(Ada!Memory_Order.ACQ) = "acquire"
  /\ Ada!Builtin[Ada!Memory_Order.SC + 1] = "seq_cst"
BY DEF Ada!gcc_memorder, Ada!Memory_Order, Ada!Builtin

LEMMA AdaMemory ==
  /\ \A l : Ada!Newest(l) = Newest(l) /\ Ada!Last(l) = Last(l)
  /\ \A t, l : Ada!Visible(t, l) = Visible(t, l)
  /\ \A t, l, m, order : Ada!Load(t, l, m, order) = Load(t, l, m, order)
  /\ \A t, l, value, order : Ada!Store(t, l, value, order) = Store(t, l, value, order)
  /\ \A t, l, value : Ada!Exchange(t, l, value, "seq_cst") = Exchange(t, l, value, "acq_rel")
<1> USE DEF Ada!Newest, Newest, Ada!Join, Join, Ada!Locations, Locations, Ada!Nothing, Nothing,
            Ada!Acquires, Acquires, Ada!Releases, Releases
<1>1. \A l : Ada!Newest(l) = Newest(l) /\ Ada!Last(l) = Last(l)
  BY DEF Ada!Last, Last
<1>2. \A t, l : Ada!Visible(t, l) = Visible(t, l)
  BY DEF Ada!Visible, Visible
<1>3. \A t, l, m, order : Ada!Load(t, l, m, order) = Load(t, l, m, order)
  BY DEF Ada!Load, Load, Ada!Visible, Visible, Ada!Learned, Learned
<1>4. \A t, l, value, order : Ada!Store(t, l, value, order) = Store(t, l, value, order)
  BY DEF Ada!Store, Store, Ada!StoreCarrying, StoreCarrying
<1>5. \A t, l, value : Ada!Exchange(t, l, value, "seq_cst") = Exchange(t, l, value, "acq_rel")
  BY DEF Ada!Exchange, Exchange, Ada!Learned, Learned
<1> QED
  BY <1>1, <1>2, <1>3, <1>4, <1>5

\* Atomic_Load with ACQ.
LEMMA AdaLoads ==
  ASSUME QueueSetting, MemOK(QueueLocs), NEW t \in Threads, NEW l \in QueueLocs, NEW p,
         Ada!gcc_atomic_load(t, l, p, Ada!Memory_Order.ACQ, 16)
  PROVE  /\ MemOK(QueueLocs)' /\ written' = written /\ Learns(QueueLocs, t)
         /\ p \in seen[t][l] .. Newest(l) /\ p \in 1 .. Newest(l)
         /\ \A loc \in QueueLocs : written[l][p].view[loc] <= seen'[t][loc]
<1>1. Load(t, l, p, "acquire")
  BY AdaOrders, AdaMemory DEF QueueSetting, Ada!gcc_atomic_load, Ada!Supported
<1>2. /\ MemOK(QueueLocs)' /\ written' = written /\ Learns(QueueLocs, t)
      /\ p \in seen[t][l] .. Newest(l)
      /\ Acquires("acquire") => \A loc \in QueueLocs : written[l][p].view[loc] <= seen'[t][loc]
  BY <1>1, LoadEffect
<1>3. seen[t][l] \in Nat /\ seen[t][l] >= 1 /\ Newest(l) \in Nat
  BY DEF MemOK
<1> QED
  BY <1>2, <1>3 DEF Acquires

\* Atomic_Compare_Exchange that succeeds ...
LEMMA AdaSucceeds ==
  ASSUME QueueSetting, MemOK(QueueLocs), NEW t \in Threads, NEW l \in QueueLocs, NEW expected,
         NEW desired \in Values, Ada!Succeeds(t, l, expected, desired)
  PROVE  /\ Value(l, Newest(l)) = expected
         /\ MemOK(QueueLocs)' /\ Learns(QueueLocs, t)
         /\ \E view \in [QueueLocs -> Nat] :
              /\ Added(QueueLocs, l, desired, view)
              /\ \A loc \in QueueLocs : seen[t][loc] <= view[loc]
<1>1. Last(l) = expected /\ Exchange(t, l, desired, "acq_rel")
  BY AdaOrders, AdaMemory DEF Ada!Succeeds, Ada!Exchanged
<1>2. MemOK(QueueLocs)' /\ Learns(QueueLocs, t)
  BY <1>1, ExchangeEffect
<1>3. \E view \in [QueueLocs -> Nat] :
              /\ Added(QueueLocs, l, desired, view)
              /\ \A loc \in QueueLocs : seen[t][loc] <= view[loc]
  BY <1>1, ExchangeEffect
<1> QED
  BY <1>1, <1>2, <1>3 DEF Last, Value

\* ... and one that fails.
LEMMA AdaFails ==
  ASSUME QueueSetting, MemOK(QueueLocs), NEW t \in Threads, NEW l \in QueueLocs, NEW expected,
         Ada!Fails(t, l, expected)
  PROVE  MemOK(QueueLocs)' /\ written' = written /\ Learns(QueueLocs, t)
<1>1. PICK p : Load(t, l, p, "seq_cst")
  BY AdaOrders, AdaMemory DEF QueueSetting, Ada!Fails, Ada!NotExchanged, Ada!Supported
<1> QED
  BY <1>1, LoadEffect

\* Who knows more is shown no less.
LEMMA ShowsMore ==
  ASSUME NEW n \in Ada!Heap, NEW v \in [QueueLocs -> Nat], NEW w \in [QueueLocs -> Nat],
         \A loc \in QueueLocs : v[loc] <= w[loc], Shows(v, n)
  PROVE  Shows(w, n)
<1>1. Ada!Next(n) \in QueueLocs /\ Ada!Element(n) \in QueueLocs
  BY QueueLocations
<1> QED
  BY <1>1 DEF Shows

\* What a thread was shown stays so.
LEMMA ShownStays ==
  ASSUME MemOK(QueueLocs), NEW t \in Threads, Learns(QueueLocs, t), MemOK(QueueLocs)',
         NEW n \in Ada!Heap, Shows(seen[t], n)
  PROVE  Shows(seen'[t], n)
<1>1. seen[t] \in [QueueLocs -> Nat] /\ seen'[t] \in [QueueLocs -> Nat]
  BY DEF MemOK
<1>2. \A loc \in QueueLocs : seen[t][loc] <= seen'[t][loc]
  BY DEF Learns
<1> QED
  BY <1>1, <1>2, ShowsMore

\* A step of thread t alone.
Alone(t) ==
  \A u \in Threads \ {t} :
    /\ pc'[u] = pc[u] /\ left'[u] = left[u] /\ node'[u] = node[u] /\ item'[u] = item[u]
    /\ myFirst'[u] = myFirst[u] /\ myLast'[u] = myLast[u] /\ myNext'[u] = myNext[u]

\* The list has become longer, or is as it was.
Longer(last, list, last2, list2) == last <= last2 /\ \A i \in 0 .. last : list2[i] = list[i]

\* Whose node is not linked yet.
Linking(t) == pc[t] \in {"fill", "loadLast", "loadNext", "recheck", "link", "helpLink"}

\* What a thread read from a link is there in a longer list.
LEMMA LinkReadStays ==
  ASSUME MemOK(QueueLocs), MemOK(QueueLocs)', NEW t \in Threads, Learns(QueueLocs, t),
         NEW last \in Nat, NEW list \in [Nat -> Ada!Heap],
         NEW last2 \in Nat, NEW list2 \in [Nat -> Ada!Heap], Longer(last, list, last2, list2),
         NEW u \in Threads, seen'[u] = seen[u] \/ u = t, myNext'[u] = myNext[u],
         NEW r, ReadLink(last, list, u, r)
  PROVE  ReadLink(last2, list2, u, r)'
<1>1. CASE myNext[u] = Ada!Nowhere
  BY <1>1 DEF ReadLink
<1>2. CASE myNext[u] # Ada!Nowhere
  <2>1. PICK i \in 0 .. last : /\ i # last /\ list[i] = r
                               /\ myNext[u] = Ada!Tagged(list[i + 1], 1)
                               /\ Shows(seen[u], list[i + 1])
    BY <1>2 DEF ReadLink
  <2>2. i \in 0 .. last2 /\ i # last2 /\ i + 1 \in 0 .. last /\ list2[i] = list[i] /\ list2[i + 1] = list[i + 1]
    BY <2>1 DEF Longer
  <2>3. Shows(seen'[u], list2[i + 1])
    <3>1. CASE u = t
      BY <2>1, <2>2, <3>1, ShownStays
    <3>2. CASE u # t
      BY <2>1, <2>2, <3>2
    <3> QED
      BY <3>1, <3>2
  <2>4. \E h \in 0 .. last2 : /\ h # last2 /\ list2[h] = r
                               /\ myNext'[u] = Ada!Tagged(list2[h + 1], 1)
                               /\ Shows(seen'[u], list2[h + 1])
    BY <2>1, <2>2, <2>3
  <2> QED
    BY <2>4 DEF ReadLink
<1> QED
  BY <1>1, <1>2

\* The other threads, when the links of their own nodes are left alone.
LEMMA OthersStay ==
  ASSUME QueueSetting, QueueTypes, MemOK(QueueLocs)', NEW t \in Threads, Learns(QueueLocs, t), Alone(t),
         NEW last \in Nat, NEW list \in [Nat -> Ada!Heap], QueueIs(last, list),
         NEW last2 \in Nat, NEW list2 \in [Nat -> Ada!Heap], Longer(last, list, last2, list2),
         Newest(Ada!First) <= Newest(Ada!First)',
         \A u \in Producers \ {t} : Linking(u) =>
            /\ written'[Ada!Next(<<u, left[u]>>)] = written[Ada!Next(<<u, left[u]>>)]
            /\ written'[Ada!Element(<<u, left[u]>>)] = written[Ada!Element(<<u, left[u]>>)]
  PROVE  /\ \A u \in Producers \ {t} : ProducerIs(last2, list2, u)'
         /\ \A u \in Consumers \ {t} : ConsumerIs(last2, list2, u)'
<1> USE DEF QueueTypes
<1>1. Producers \subseteq Threads /\ Consumers \subseteq Threads
  BY DEF QueueSetting
<1>2. \A u \in Threads \ {t} : seen'[u] = seen[u]
  BY DEF Learns
<1>3. ASSUME NEW u \in Producers \ {t}
      PROVE  ProducerIs(last2, list2, u)'
  <2>1. u \in Threads \ {t} /\ seen'[u] = seen[u]
    BY <1>1, <1>2
  <2>2. pc'[u] = pc[u] /\ left'[u] = left[u] /\ node'[u] = node[u]
        /\ myLast'[u] = myLast[u] /\ myNext'[u] = myNext[u]
    BY <2>1 DEF Alone
  <2>3. ProducerIs(last, list, u)
    BY DEF QueueIs
  <2>4. pc[u] \notin {"new", "done"} => node[u] = <<u, left[u]>>
    BY <2>3 DEF ProducerIs
  <2>5. Linking(u) => /\ written'[Ada!Next(node[u])] = written[Ada!Next(node[u])]
                      /\ written'[Ada!Element(node[u])] = written[Ada!Element(node[u])]
    BY <2>4 DEF Linking
  <2>6. pc[u] = "fill" =>
       /\ Newest(Ada!Element(node[u]))' = 2 /\ Value(Ada!Element(node[u]), 2)' = node[u]
       /\ Newest(Ada!Next(node[u]))' = 1 /\ seen'[u][Ada!Element(node[u])] >= 2
    BY <2>1, <2>2, <2>3, <2>5 DEF ProducerIs, Linking, Newest, Value
  <2>7. pc[u] \in {"loadLast", "loadNext", "recheck", "link", "helpLink"} =>
          Filled(node[u])' /\ Newest(Ada!Next(node[u]))' = 2
    BY <2>2, <2>3, <2>5 DEF ProducerIs, Linking, Filled, Base, Newest, Value
  <2>8. pc[u] \in {"loadNext", "recheck", "link", "helpLink"} => OnList(last2, list2, myLast[u].ptr)
    <3> SUFFICES ASSUME pc[u] \in {"loadNext", "recheck", "link", "helpLink"}
                 PROVE  OnList(last2, list2, myLast[u].ptr)
      OBVIOUS
    <3>1. PICK i \in 0 .. last : list[i] = myLast[u].ptr
      BY <2>3 DEF ProducerIs, OnList
    <3>2. i \in 0 .. last2 /\ list2[i] = myLast[u].ptr
      BY <3>1 DEF Longer
    <3> QED
      BY <3>2 DEF OnList
  <2>9. pc[u] \in {"recheck", "link", "helpLink"} => ReadLink(last2, list2, u, myLast[u].ptr)'
    <3> SUFFICES ASSUME pc[u] \in {"recheck", "link", "helpLink"}
                 PROVE  ReadLink(last2, list2, u, myLast[u].ptr)'
      OBVIOUS
    <3>1. PICK r : r = myLast[u].ptr
      OBVIOUS
    <3>2. ReadLink(last, list, u, r)
      BY <2>3, <3>1 DEF ProducerIs
    <3>3. ReadLink(last2, list2, u, r)'
      BY <2>1, <2>2, <3>2, LinkReadStays
    <3>4. myLast'[u].ptr = r
      BY <2>2, <3>1
    <3> QED
      BY <3>3, <3>4 DEF ReadLink
  <2> QED
    BY <2>1, <2>2, <2>3, <2>6, <2>7, <2>8, <2>9 DEF ProducerIs, OnList, Shows
<1>4. ASSUME NEW u \in Consumers \ {t}
      PROVE  ConsumerIs(last2, list2, u)'
  <2>1. u \in Threads \ {t} /\ seen'[u] = seen[u]
    BY <1>1, <1>2
  <2>2. pc'[u] = pc[u] /\ myFirst'[u] = myFirst[u] /\ myNext'[u] = myNext[u] /\ item'[u] = item[u]
    BY <2>1 DEF Alone
  <2>3. ConsumerIs(last, list, u)
    BY DEF QueueIs
  <2>4. Newest(Ada!First) \in Nat /\ Newest(Ada!First)' \in Nat
    BY QueueLocations DEF MemOK
  <2>5. pc[u] \in {"last", "next", "refirst", "help", "read", "advance"} =>
       /\ myFirst[u].count \in 0 .. Newest(Ada!First)' - 1
       /\ myFirst[u] = Ada!Tagged(list2[myFirst[u].count], myFirst[u].count)
       /\ Shows(seen[u], myFirst[u].ptr)
    <3> SUFFICES ASSUME pc[u] \in {"last", "next", "refirst", "help", "read", "advance"}
                 PROVE  /\ myFirst[u].count \in 0 .. Newest(Ada!First)' - 1
                        /\ list2[myFirst[u].count] = list[myFirst[u].count]
      BY <2>3 DEF ConsumerIs
    <3>1. myFirst[u].count \in 0 .. Newest(Ada!First) - 1
      BY <2>3 DEF ConsumerIs
    <3>2. Newest(Ada!First) <= last + 1
      BY DEF QueueIs, EndsAre
    <3>3. myFirst[u].count \in 0 .. last
      BY <2>4, <3>1, <3>2
    <3> QED
      BY <2>4, <3>1, <3>3 DEF Longer
  <2>6. pc[u] \in {"refirst", "help", "read", "advance"} => ReadLink(last2, list2, u, myFirst[u].ptr)'
    <3> SUFFICES ASSUME pc[u] \in {"refirst", "help", "read", "advance"}
                 PROVE  ReadLink(last2, list2, u, myFirst[u].ptr)'
      OBVIOUS
    <3>1. PICK r : r = myFirst[u].ptr
      OBVIOUS
    <3>2. ReadLink(last, list, u, r)
      BY <2>3, <3>1 DEF ConsumerIs
    <3>3. ReadLink(last2, list2, u, r)'
      BY <2>1, <2>2, <3>2, LinkReadStays
    <3>4. myFirst'[u].ptr = r
      BY <2>2, <3>1
    <3> QED
      BY <3>3, <3>4 DEF ReadLink
  <2> QED
    BY <2>1, <2>2, <2>3, <2>5, <2>6 DEF ConsumerIs, Shows
<1> QED
  BY <1>3, <1>4

\* What a load returns that reads the link of a node on the list, for a thread that
\* was shown the node: none, or the next node, which it is shown then.
LEMMA LinkRead ==
  ASSUME QueueSetting, MemOK(QueueLocs), MemOK(QueueLocs)', NEW t \in Threads,
         NEW last \in Nat, NEW list \in [Nat -> Ada!Heap], ListIs(last, list),
         NEW i \in 0 .. last, Shows(seen[t], list[i]), NEW r, r = list[i],
         NEW p \in seen[t][Ada!Next(r)] .. Newest(Ada!Next(r)),
         \A loc \in QueueLocs : written[Ada!Next(r)][p].view[loc] <= seen'[t][loc]
  PROVE  \/ Value(Ada!Next(r), p) = Ada!Nowhere
         \/ /\ i # last /\ Value(Ada!Next(r), p) = Ada!Tagged(list[i + 1], 1)
            /\ Shows(seen'[t], list[i + 1])
<1>1. r \in Ada!Heap /\ Ada!Next(r) \in QueueLocs
  BY QueueLocations
<1>2. seen[t][Ada!Next(r)] \in Nat /\ seen[t][Ada!Next(r)] >= 1 /\ Newest(Ada!Next(r)) \in Nat
  BY <1>1 DEF MemOK
<1>3. p \in 1 .. Newest(Ada!Next(r)) /\ p >= Base(r)
  BY <1>2 DEF Shows, Base
<1>4. Value(Ada!Next(r), Base(r)) = Ada!Nowhere /\ Base(r) \in Nat
  BY DEF ListIs, Filled, Base
<1>5. CASE p = Base(r)
  BY <1>4, <1>5
<1>6. CASE p # Base(r)
  <2>1. i # last
    BY <1>2, <1>3, <1>4, <1>6 DEF ListIs
  <2>2. LinkedTo(r, list[i + 1]) /\ i + 1 \in Nat /\ list[i + 1] \in Ada!Heap
    BY <2>1 DEF ListIs
  <2>3. p = Base(r) + 1
    BY <1>2, <1>3, <1>4, <1>6, <2>2 DEF LinkedTo
  <2>4. written[Ada!Next(r)][p].view \in [QueueLocs -> Nat]
    BY <1>1, <1>3, MessageTypes
  <2>5. seen'[t] \in [QueueLocs -> Nat]
    BY DEF MemOK
  <2>6. PICK view \in [QueueLocs -> Nat] : view = written[Ada!Next(r)][p].view
    BY <2>4
  <2>7. Shows(view, list[i + 1])
    BY <2>2, <2>3, <2>6 DEF LinkedTo
  <2>8. Shows(seen'[t], list[i + 1])
    BY <2>2, <2>5, <2>6, <2>7, ShowsMore
  <2> QED
    BY <2>1, <2>2, <2>3, <2>8 DEF LinkedTo
<1> QED
  BY <1>5, <1>6

\* Nodes and their links are left alone when only List.Last is written.
LEMMA ListStays ==
  ASSUME NEW last \in Nat, NEW list \in [Nat -> Ada!Heap], ListIs(last, list),
         \A l \in QueueLocs \ {Ada!List_Last} : written'[l] = written[l]
  PROVE  /\ ListIs(last, list)'
         /\ Newest(Ada!First)' = Newest(Ada!First)
         /\ \A n \in Ada!Heap : /\ Newest(Ada!Next(n))' = Newest(Ada!Next(n))
                                /\ Newest(Ada!Element(n))' = Newest(Ada!Element(n))
<1>1. \A n \in Ada!Heap : /\ written'[Ada!Next(n)] = written[Ada!Next(n)]
                          /\ written'[Ada!Element(n)] = written[Ada!Element(n)]
  BY QueueLocations
<1>2. written'[Ada!First] = written[Ada!First]
  BY QueueLocations
<1>3. \A n \in Ada!Heap : Filled(n) => Filled(n)'
  BY <1>1 DEF Filled, Newest, Value, Base
<1>4. \A m, n \in Ada!Heap : LinkedTo(m, n) => LinkedTo(m, n)'
  BY <1>1 DEF LinkedTo, Newest, Value, Base, Shows
<1>5. \A i \in 0 .. last : i \in Nat /\ i + 1 \in Nat /\ list[i] \in Ada!Heap /\ list[i + 1] \in Ada!Heap
  OBVIOUS
<1>6. \A i \in 0 .. last : i # last => LinkedTo(list[i], list[i + 1])'
  BY <1>4, <1>5 DEF ListIs
<1>7. \A i \in 0 .. last : list[i] \in Ada!Heap /\ Filled(list[i])'
  BY <1>3, <1>5 DEF ListIs
<1>8. (Newest(Ada!Next(list[last])) = Base(list[last]))'
  BY <1>1, <1>5 DEF ListIs, Newest, Base
<1>9. ListIs(last, list)'
  BY <1>6, <1>7, <1>8 DEF ListIs
<1> QED
  BY <1>1, <1>2, <1>9 DEF Newest

\* The exchange of List.Last.
LEMMA LastMoves ==
  ASSUME QueueSetting, QueueTypes, NEW t \in Threads,
         NEW last \in Nat, NEW list \in [Nat -> Ada!Heap], QueueIs(last, list),
         NEW ptr \in Ada!Heap, OnList(last, list, ptr), Shows(seen[t], ptr), Ada!MoveLast(t, ptr)
  PROVE  /\ MemOK(QueueLocs)' /\ Learns(QueueLocs, t)
         /\ EndsAre(last, list)'
         /\ \A l \in QueueLocs \ {Ada!List_Last} : written'[l] = written[l]
<1>1. MemOK(QueueLocs) /\ Ada!List_Last \in QueueLocs /\ Ada!First \in QueueLocs
      /\ Ada!First # Ada!List_Last /\ EndsAre(last, list)
  BY QueueLocations DEF QueueTypes, QueueIs
<1>2. CASE Ada!Fails(t, Ada!List_Last, myLast[t])
  <2>1. MemOK(QueueLocs)' /\ written' = written /\ Learns(QueueLocs, t)
    BY <1>1, <1>2, AdaFails
  <2> QED
    BY <1>1, <2>1 DEF EndsAre, Newest, Value, Shows
<1>3. CASE Ada!Succeeds(t, Ada!List_Last, myLast[t], Ada!Tagged(ptr, myLast[t].count + 1))
  <2>1. PICK desired : desired = Ada!Tagged(ptr, myLast[t].count + 1)
    OBVIOUS
  <2>2. myLast[t].count + 1 \in Int
    BY DEF QueueTypes, Pointers
  <2>3. desired \in Pointers /\ desired.ptr = ptr /\ desired \in Values
    BY <2>1, <2>2, Stored
  <2>4. /\ MemOK(QueueLocs)' /\ Learns(QueueLocs, t)
        /\ \E view \in [QueueLocs -> Nat] :
              /\ Added(QueueLocs, Ada!List_Last, desired, view)
              /\ \A loc \in QueueLocs : seen[t][loc] <= view[loc]
    BY <1>1, <1>3, <2>1, <2>3, AdaSucceeds
  <2>5. PICK view \in [QueueLocs -> Nat] :
              /\ Added(QueueLocs, Ada!List_Last, desired, view)
              /\ \A loc \in QueueLocs : seen[t][loc] <= view[loc]
    BY <2>4
  <2>6. Shows(view, ptr)
    <3>1. seen[t] \in [QueueLocs -> Nat]
      BY <1>1 DEF MemOK
    <3> QED
      BY <2>5, <3>1, ShowsMore
  <2>7. \A l \in QueueLocs \ {Ada!List_Last} : written'[l] = written[l]
    BY <2>5 DEF Added
  <2>8. written'[Ada!First] = written[Ada!First]
    BY <1>1, <2>7
  <2>9. /\ Newest(Ada!List_Last)' = Newest(Ada!List_Last) + 1
        /\ \A m \in 1 .. Newest(Ada!List_Last) : written'[Ada!List_Last][m] = written[Ada!List_Last][m]
        /\ written'[Ada!List_Last][Newest(Ada!List_Last) + 1].value = desired
        /\ written'[Ada!List_Last][Newest(Ada!List_Last) + 1].view = view
        /\ Newest(Ada!List_Last) \in Nat
    BY <1>1, <2>5 DEF Added, MemOK
  <2>10. ASSUME NEW m \in 1 .. Newest(Ada!List_Last) + 1
         PROVE  /\ Value(Ada!List_Last, m)' \in Pointers
                /\ OnList(last, list, Value(Ada!List_Last, m)'.ptr)
                /\ Shows(written'[Ada!List_Last][m].view, Value(Ada!List_Last, m)'.ptr)
    <3>1. CASE m = Newest(Ada!List_Last) + 1
      BY <2>3, <2>6, <2>9, <3>1 DEF Value
    <3>2. CASE m # Newest(Ada!List_Last) + 1
      <4>1. m \in 1 .. Newest(Ada!List_Last) /\ written'[Ada!List_Last][m] = written[Ada!List_Last][m]
        BY <2>9, <3>2
      <4> QED
        BY <1>1, <4>1 DEF EndsAre, Value
    <3> QED
      BY <3>1, <3>2
  <2>11. EndsAre(last, list)'
    BY <1>1, <2>8, <2>9, <2>10 DEF EndsAre, Newest, Value, Shows, OnList
  <2> QED
    BY <2>4, <2>7, <2>11
<1> QED
  BY <1>2, <1>3 DEF Ada!MoveLast

\* A step that neither begins an item nor links its node nor ends it.
LEMMA NodesStay ==
  ASSUME QueueSetting, QueueTypes, NEW t \in Threads, Alone(t),
         t \in Producers => left'[t] = left[t] /\ pc[t] \notin {"new", "swing"} /\ pc'[t] \notin {"new", "swing"},
         NEW last \in Nat, NEW list \in [Nat -> Ada!Heap], NodesAre(last, list),
         \A n \in Ada!Heap : /\ Newest(Ada!Next(n))' = Newest(Ada!Next(n))
                             /\ Newest(Ada!Element(n))' = Newest(Ada!Element(n))
  PROVE  NodesAre(last, list)'
<1>1. ASSUME NEW n \in Ada!Heap \ {Ada!Initial}
      PROVE  /\ OnList(last, list, n) <=> n[2] > left'[n[1]] \/ (n[2] = left'[n[1]] /\ pc'[n[1]] = "swing")
             /\ n[2] < left'[n[1]] \/ (n[2] = left'[n[1]] /\ pc'[n[1]] = "new") =>
                  Newest(Ada!Element(n))' = 1 /\ Newest(Ada!Next(n))' = 1
  <2>1. n[1] \in Producers /\ n[1] \in Threads
    BY Addresses DEF QueueSetting
  <2>3. /\ left'[n[1]] = left[n[1]] /\ (pc'[n[1]] = "swing" <=> pc[n[1]] = "swing")
        /\ (pc'[n[1]] = "new" <=> pc[n[1]] = "new")
    BY <2>1 DEF Alone
  <2> QED
    BY <2>3 DEF NodesAre
<1> QED
  BY <1>1 DEF NodesAre, OnList

\* Together: a step that writes no more than List.Last.
LEMMA QuietStep ==
  ASSUME QueueSetting, QueueTypes, MemOK(QueueLocs)', NEW t \in Threads, Learns(QueueLocs, t), Alone(t),
         t \in Producers => left'[t] = left[t] /\ pc[t] \notin {"new", "swing"} /\ pc'[t] \notin {"new", "swing"},
         got' = got,
         \A l \in QueueLocs \ {Ada!List_Last} : written'[l] = written[l],
         NEW last \in Nat, NEW list \in [Nat -> Ada!Heap], QueueIs(last, list),
         EndsAre(last, list)',
         t \in Producers => ProducerIs(last, list, t)',
         t \in Consumers => ConsumerIs(last, list, t)'
  PROVE  QueueIs(last, list)'
<1>1. /\ ListIs(last, list)'
      /\ Newest(Ada!First)' = Newest(Ada!First)
      /\ \A n \in Ada!Heap : /\ Newest(Ada!Next(n))' = Newest(Ada!Next(n))
                             /\ Newest(Ada!Element(n))' = Newest(Ada!Element(n))
  BY ListStays DEF QueueIs
<1>2. NodesAre(last, list)'
  BY <1>1, NodesStay DEF QueueIs
<1>3. Dequeued(list)'
  BY <1>1 DEF QueueIs, Dequeued
<1>4. /\ \A u \in Producers \ {t} : ProducerIs(last, list, u)'
      /\ \A u \in Consumers \ {t} : ConsumerIs(last, list, u)'
  <2>1. Longer(last, list, last, list)
    BY DEF Longer
  <2>2. Newest(Ada!First) <= Newest(Ada!First)'
    BY <1>1, QueueLocations DEF QueueTypes, MemOK
  <2>3. \A u \in Producers \ {t} : Linking(u) =>
            /\ written'[Ada!Next(<<u, left[u]>>)] = written[Ada!Next(<<u, left[u]>>)]
            /\ written'[Ada!Element(<<u, left[u]>>)] = written[Ada!Element(<<u, left[u]>>)]
    <3> SUFFICES ASSUME NEW u \in Producers, Linking(u)
                 PROVE  <<u, left[u]>> \in Ada!Heap
      BY QueueLocations
    <3>1. u \in Threads /\ left[u] # 0 /\ left[u] \in Nat /\ left[u] <= Share[u]
      BY DEF QueueSetting, QueueTypes, Linking
    <3>2. Share[u] \in Nat /\ left[u] \in 1 .. Share[u]
      BY <3>1 DEF QueueSetting
    <3> QED
      BY <3>2, Addresses
  <2> QED
    BY <2>1, <2>2, <2>3, OthersStay
<1> QED
  BY <1>1, <1>2, <1>3, <1>4 DEF QueueIs

\* The node of a producer.
LEMMA OwnNode ==
  ASSUME QueueSetting, QueueTypes, NEW t \in Producers, pc[t] # "done"
  PROVE  /\ <<t, left[t]>> \in Ada!Heap \ {Ada!Initial}
         /\ <<t, left[t]>>[1] = t /\ <<t, left[t]>>[2] = left[t]
<1>1. t \in Threads /\ left[t] # 0 /\ left[t] \in Nat /\ left[t] <= Share[t]
  BY DEF QueueSetting, QueueTypes
<1>2. Share[t] \in Nat /\ left[t] \in 1 .. Share[t]
  BY <1>1 DEF QueueSetting
<1> QED
  BY <1>2, Addresses

\* The step of a thread and its type.
LEMMA QueueTypesStay ==
  ASSUME QueueSetting, QueueTypes, MemOK(QueueLocs)', NEW t \in Threads,
         NEW there, pc' = [pc EXCEPT ![t] = there],
         t \in Producers => there \in ProducerLabels, t \in Consumers => there \in ConsumerLabels,
         NEW rest \in Nat, left' = [left EXCEPT ![t] = rest], rest <= Share[t], rest = 0 <=> there = "done",
         node' \in [Threads -> Ada!Heap \cup {Ada!Null}], item' \in [Threads -> Ada!Heap \cup {Ada!Null}],
         myFirst' \in [Threads -> Pointers], myLast' \in [Threads -> Pointers],
         myNext' \in [Threads -> Pointers], got' \in [Consumers -> Seq(Ada!Heap)]
  PROVE  QueueTypes'
<1> USE DEF QueueTypes
<1>1. there \in ProducerLabels \cup ConsumerLabels /\ pc'[t] = there /\ left'[t] = rest
  BY DEF QueueSetting
<1>2. /\ \A u \in Threads : u # t => pc'[u] = pc[u] /\ left'[u] = left[u]
      /\ pc' \in [Threads -> ProducerLabels \cup ConsumerLabels] /\ left' \in [Threads -> Nat]
  BY <1>1
<1>3. /\ \A u \in Producers : u \in Threads /\ pc'[u] \in ProducerLabels
      /\ \A u \in Consumers : u \in Threads /\ pc'[u] \in ConsumerLabels
  BY <1>1, <1>2 DEF QueueSetting
<1>4. \A u \in Threads : left'[u] <= Share[u] /\ (left'[u] = 0 <=> pc'[u] = "done")
  BY <1>1, <1>2
<1> QED
  BY <1>2, <1>3, <1>4

\* Quiet steps from their thread's point of view.
LEMMA QuietKeeps ==
  ASSUME QueueSetting, QueueTypes, MemOK(QueueLocs)', NEW t \in Threads, Learns(QueueLocs, t), Alone(t),
         NEW there, pc' = [pc EXCEPT ![t] = there], pc[t] # "done", there # "done",
         t \in Producers => pc[t] \notin {"new", "swing"} /\ there \in ProducerLabels \ {"new", "swing"},
         t \in Consumers => there \in ConsumerLabels,
         left' = left, got' = got, node' = node, item' \in [Threads -> Ada!Heap \cup {Ada!Null}],
         myFirst' \in [Threads -> Pointers], myLast' \in [Threads -> Pointers],
         myNext' \in [Threads -> Pointers],
         \A l \in QueueLocs \ {Ada!List_Last} : written'[l] = written[l],
         NEW last \in Nat, NEW list \in [Nat -> Ada!Heap], QueueIs(last, list),
         written' = written \/ EndsAre(last, list)',
         t \in Producers => ProducerIs(last, list, t)',
         t \in Consumers => ConsumerIs(last, list, t)'
  PROVE  QueueInv'
<1>1. PICK rest : rest = left[t]
  OBVIOUS
<1>2. rest \in Nat /\ rest <= Share[t] /\ rest # 0 /\ left' = [left EXCEPT ![t] = rest]
  BY <1>1 DEF QueueTypes
<1>3. node' \in [Threads -> Ada!Heap \cup {Ada!Null}] /\ got' \in [Consumers -> Seq(Ada!Heap)]
  BY DEF QueueTypes
<1>4. QueueTypes'
  BY <1>2, <1>3, QueueTypesStay
<1>5. EndsAre(last, list)'
  BY DEF QueueIs, EndsAre, Newest, Value, Shows, OnList
<1>6. t \in Producers => left'[t] = left[t] /\ pc[t] \notin {"new", "swing"} /\ pc'[t] \notin {"new", "swing"}
  BY DEF QueueTypes
<1>7. QueueIs(last, list)'
  BY <1>5, <1>6, QuietStep
<1> QED
  BY <1>4, <1>7 DEF QueueInv

\* What holds of a producer that still has to link its node.
OwnIs(t) ==
  /\ node[t] = <<t, left[t]>> /\ node[t] \in Ada!Heap
  /\ Filled(node[t]) /\ Newest(Ada!Next(node[t])) = 2
  /\ Shows(seen[t], node[t])

LEMMA OwnStays ==
  ASSUME QueueSetting, QueueTypes, MemOK(QueueLocs)', NEW t \in Producers, Learns(QueueLocs, t),
         node' = node, left' = left,
         \A l \in QueueLocs \ {Ada!List_Last} : written'[l] = written[l],
         NEW last \in Nat, NEW list \in [Nat -> Ada!Heap], ProducerIs(last, list, t),
         pc[t] \in {"loadLast", "loadNext", "recheck", "link", "helpLink"}
  PROVE  OwnIs(t) /\ OwnIs(t)'
<1>1. node[t] = <<t, left[t]>> /\ node[t] \in Ada!Heap
  BY OwnNode DEF ProducerIs
<1>2. OwnIs(t)
  BY <1>1 DEF ProducerIs, OwnIs
<1>3. /\ written'[Ada!Next(node[t])] = written[Ada!Next(node[t])]
      /\ written'[Ada!Element(node[t])] = written[Ada!Element(node[t])]
  BY <1>1, QueueLocations
<1>4. Filled(node[t])' /\ Newest(Ada!Next(node[t]))' = 2
  BY <1>2, <1>3 DEF OwnIs, Filled, Newest, Value, Base
<1>5. Shows(seen'[t], node[t])
  BY <1>1, <1>2, ShownStays DEF OwnIs, QueueTypes, QueueSetting
<1> QED
  BY <1>1, <1>2, <1>4, <1>5 DEF OwnIs

\* The actions, first those that write no more than List.Last.
LEMMA LoadLastKeeps == ASSUME QueueSetting, QueueInv, NEW t \in Threads, Ada!LoadLast(t) PROVE QueueInv'
<1>1. PICK p \in Ada!Visible(t, Ada!List_Last) :
        /\ Ada!gcc_atomic_load(t, Ada!List_Last, p, Ada!Memory_Order.ACQ, 16)
        /\ myLast' = [myLast EXCEPT ![t] = written[Ada!List_Last][p].value]
        /\ Ada!Goto(t, "loadLast", "loadNext")
  BY DEF Ada!LoadLast, Ada!LoadInto
<1>2. UNCHANGED <<left, node, myFirst, myNext, item, got>>
  BY DEF Ada!LoadLast
<1>3. pc[t] = "loadLast" /\ pc' = [pc EXCEPT ![t] = "loadNext"]
  BY <1>1 DEF Ada!Goto
<1>4. QueueTypes /\ MemOK(QueueLocs) /\ Ada!List_Last \in QueueLocs
  BY QueueLocations DEF QueueInv, QueueTypes
<1>5. PICK last \in Nat : \E list \in [Nat -> Ada!Heap] : QueueIs(last, list)
  BY DEF QueueInv
<1>6. PICK list \in [Nat -> Ada!Heap] : QueueIs(last, list)
  BY <1>5
<1>7. /\ MemOK(QueueLocs)' /\ written' = written /\ Learns(QueueLocs, t)
      /\ p \in 1 .. Newest(Ada!List_Last)
      /\ \A loc \in QueueLocs : written[Ada!List_Last][p].view[loc] <= seen'[t][loc]
  BY <1>1, <1>4, AdaLoads
<1>8. PICK r : r = Value(Ada!List_Last, p)
  OBVIOUS
<1>9. r \in Pointers /\ OnList(last, list, r.ptr) /\ Shows(written[Ada!List_Last][p].view, r.ptr)
  BY <1>6, <1>7, <1>8 DEF QueueIs, EndsAre
<1>10. /\ myLast' = [myLast EXCEPT ![t] = r] /\ myLast'[t] = r /\ pc'[t] = "loadNext"
       /\ myLast' \in [Threads -> Pointers]
  BY <1>1, <1>3, <1>4, <1>8, <1>9 DEF Value, QueueTypes
<1>11. t \in Producers /\ t \notin Consumers
  BY <1>3, <1>4 DEF QueueTypes, QueueSetting, ConsumerLabels
<1>12. Alone(t)
  BY <1>2, <1>3, <1>4, <1>10 DEF Alone, QueueTypes
<1>13. ProducerIs(last, list, t)'
  <2>1. PICK i \in 0 .. last : list[i] = r.ptr
    BY <1>9 DEF OnList
  <2>2. r.ptr \in Ada!Heap
    BY <2>1
  <2>3. written[Ada!List_Last][p].view \in [QueueLocs -> Nat]
    BY <1>4, <1>7, MessageTypes
  <2>4. seen'[t] \in [QueueLocs -> Nat]
    BY <1>7 DEF MemOK
  <2>5. Shows(seen'[t], r.ptr)
    BY <1>7, <1>9, <2>2, <2>3, <2>4, ShowsMore
  <2>6. ProducerIs(last, list, t)
    BY <1>6, <1>11 DEF QueueIs
  <2>7. OwnIs(t)'
    BY <1>2, <1>3, <1>4, <1>7, <1>11, <2>6, OwnStays
  <2> QED
    BY <1>9, <1>10, <2>5, <2>7 DEF ProducerIs, OwnIs, OnList
<1> QED
  BY <1>2, <1>3, <1>4, <1>6, <1>7, <1>10, <1>11, <1>12, <1>13, QuietKeeps DEF QueueTypes, ProducerLabels

\* A link is loaded.
LEMMA LinkLoaded ==
  ASSUME QueueSetting, QueueTypes, NEW t \in Threads,
         NEW last \in Nat, NEW list \in [Nat -> Ada!Heap], QueueIs(last, list),
         NEW m, OnList(last, list, m), Shows(seen[t], m), NEW p,
         Ada!gcc_atomic_load(t, Ada!Next(m), p, Ada!Memory_Order.ACQ, 16),
         myNext' = [myNext EXCEPT ![t] = written[Ada!Next(m)][p].value]
  PROVE  /\ MemOK(QueueLocs)' /\ written' = written /\ Learns(QueueLocs, t)
         /\ ReadLink(last, list, t, m)' /\ myNext' \in [Threads -> Pointers]
         /\ \A u \in Threads \ {t} : myNext'[u] = myNext[u]
<1>1. PICK i \in 0 .. last : list[i] = m
  BY DEF OnList
<1>2. m \in Ada!Heap /\ Ada!Next(m) \in QueueLocs /\ MemOK(QueueLocs)
  BY <1>1, QueueLocations DEF QueueTypes
<1>3. /\ MemOK(QueueLocs)' /\ written' = written /\ Learns(QueueLocs, t)
      /\ p \in seen[t][Ada!Next(m)] .. Newest(Ada!Next(m))
      /\ \A loc \in QueueLocs : written[Ada!Next(m)][p].view[loc] <= seen'[t][loc]
  BY <1>2, AdaLoads
<1>4. PICK r : r = Value(Ada!Next(m), p)
  OBVIOUS
<1>5. \/ r = Ada!Nowhere
      \/ /\ i # last /\ r = Ada!Tagged(list[i + 1], 1)
         /\ Shows(seen'[t], list[i + 1])
  BY <1>1, <1>2, <1>3, <1>4, LinkRead DEF QueueIs
<1>6. r \in Pointers
  BY <1>5, Stored
<1>7. myNext' = [myNext EXCEPT ![t] = r]
  BY <1>4 DEF Value
<1>8. /\ myNext'[t] = r /\ myNext' \in [Threads -> Pointers]
      /\ \A u \in Threads \ {t} : myNext'[u] = myNext[u]
  BY <1>6, <1>7 DEF QueueTypes
<1> QED
  BY <1>1, <1>3, <1>5, <1>8 DEF ReadLink

LEMMA LoadNextKeeps == ASSUME QueueSetting, QueueInv, NEW t \in Threads, Ada!LoadNext(t) PROVE QueueInv'
<1>1. PICK m : m = myLast[t].ptr
  OBVIOUS
<1>2. PICK p : /\ Ada!gcc_atomic_load(t, Ada!Next(m), p, Ada!Memory_Order.ACQ, 16)
               /\ myNext' = [myNext EXCEPT ![t] = written[Ada!Next(m)][p].value]
               /\ Ada!Goto(t, "loadNext", "recheck")
  BY <1>1 DEF Ada!LoadNext, Ada!LoadInto
<1>3. UNCHANGED <<left, node, myFirst, myLast, item, got>>
  BY DEF Ada!LoadNext
<1>4. pc[t] = "loadNext" /\ pc' = [pc EXCEPT ![t] = "recheck"]
  BY <1>2 DEF Ada!Goto
<1>5. QueueTypes
  BY DEF QueueInv
<1>6. PICK last \in Nat : \E list \in [Nat -> Ada!Heap] : QueueIs(last, list)
  BY DEF QueueInv
<1>7. PICK list \in [Nat -> Ada!Heap] : QueueIs(last, list)
  BY <1>6
<1>8. t \in Producers /\ t \notin Consumers /\ pc'[t] = "recheck"
  BY <1>4, <1>5 DEF QueueTypes, QueueSetting, ConsumerLabels
<1>9. ProducerIs(last, list, t)
  BY <1>7, <1>8 DEF QueueIs
<1>10. OnList(last, list, m) /\ Shows(seen[t], m)
  BY <1>1, <1>4, <1>9 DEF ProducerIs
<1>11. /\ MemOK(QueueLocs)' /\ written' = written /\ Learns(QueueLocs, t)
       /\ ReadLink(last, list, t, m)' /\ myNext' \in [Threads -> Pointers]
       /\ \A u \in Threads \ {t} : myNext'[u] = myNext[u]
  BY <1>2, <1>5, <1>7, <1>10, LinkLoaded
<1>12. Alone(t)
  BY <1>3, <1>4, <1>5, <1>11 DEF Alone, QueueTypes
<1>13. ProducerIs(last, list, t)'
  <2>1. OwnIs(t)'
    BY <1>3, <1>4, <1>5, <1>8, <1>9, <1>11, OwnStays
  <2>2. m \in Ada!Heap
    BY <1>10 DEF OnList
  <2>3. Shows(seen'[t], m)
    BY <1>5, <1>10, <1>11, <2>2, ShownStays DEF QueueTypes
  <2>4. myLast'[t].ptr = m /\ ReadLink(last, list, t, myLast[t].ptr)'
    BY <1>1, <1>3, <1>11 DEF ReadLink
  <2> QED
    BY <1>8, <1>10, <2>1, <2>3, <2>4 DEF ProducerIs, OwnIs, OnList
<1> QED
  BY <1>3, <1>4, <1>5, <1>7, <1>8, <1>11, <1>12, <1>13, QuietKeeps DEF QueueTypes, ProducerLabels

LEMMA RecheckKeeps == ASSUME QueueSetting, QueueInv, NEW t \in Threads, Ada!Recheck(t) PROVE QueueInv'
<1>1. PICK p : /\ Ada!gcc_atomic_load(t, Ada!List_Last, p, Ada!Memory_Order.ACQ, 16)
               /\ Ada!Goto(t, "recheck", IF written[Ada!List_Last][p].value # myLast[t] THEN "loadLast"
                                         ELSE IF myNext[t].ptr = Ada!Null THEN "link" ELSE "helpLink")
               /\ UNCHANGED <<left, Ada!localVars, got>>
  BY DEF Ada!Recheck
<1>2. UNCHANGED <<left, node, myFirst, myLast, myNext, item, got>>
  BY <1>1 DEF Ada!localVars
<1>3. PICK there \in {"loadLast", "link", "helpLink"} :
         /\ pc[t] = "recheck" /\ pc' = [pc EXCEPT ![t] = there]
         /\ there = "link" => myNext[t].ptr = Ada!Null
         /\ there = "helpLink" => myNext[t].ptr # Ada!Null
  BY <1>1 DEF Ada!Goto
<1>4. QueueTypes /\ MemOK(QueueLocs) /\ Ada!List_Last \in QueueLocs
  BY QueueLocations DEF QueueInv, QueueTypes
<1>5. PICK last \in Nat : \E list \in [Nat -> Ada!Heap] : QueueIs(last, list)
  BY DEF QueueInv
<1>6. PICK list \in [Nat -> Ada!Heap] : QueueIs(last, list)
  BY <1>5
<1>7. t \in Producers /\ t \notin Consumers /\ pc'[t] = there
  BY <1>3, <1>4 DEF QueueTypes, QueueSetting, ConsumerLabels
<1>8. ProducerIs(last, list, t)
  BY <1>6, <1>7 DEF QueueIs
<1>9. MemOK(QueueLocs)' /\ written' = written /\ Learns(QueueLocs, t)
  BY <1>1, <1>4, AdaLoads
<1>10. Alone(t)
  BY <1>2, <1>3, <1>4 DEF Alone, QueueTypes
<1>11. PICK m : m = myLast[t].ptr
  OBVIOUS
<1>12. OnList(last, list, m) /\ m \in Ada!Heap /\ Shows(seen[t], m) /\ ReadLink(last, list, t, m)
  BY <1>3, <1>8, <1>11 DEF ProducerIs, OnList
<1>13. there = "link" => myNext[t] = Ada!Nowhere
  <2>1. ASSUME NEW i \in 0 .. last, myNext[t] = Ada!Tagged(list[i + 1], 1)
        PROVE  myNext[t].ptr # Ada!Null
    <3>1. list[i + 1] \in Ada!Heap
      OBVIOUS
    <3>2. PICK n \in Ada!Heap : n = list[i + 1]
      BY <3>1
    <3>3. Ada!Tagged(n, 1).ptr = n
      BY Stored
    <3>4. Ada!Null \notin Ada!Heap
      BY Addresses
    <3> QED
      BY <2>1, <3>2, <3>3, <3>4
  <2> QED
    BY <1>3, <1>12, <2>1 DEF ReadLink
<1>14. there = "helpLink" => myNext[t] # Ada!Nowhere
  BY <1>3, Stored
<1>15. ProducerIs(last, list, t)'
  <2>1. OwnIs(t)'
    BY <1>2, <1>3, <1>4, <1>7, <1>8, <1>9, OwnStays
  <2>2. Shows(seen'[t], m)
    BY <1>4, <1>9, <1>12, ShownStays
  <2>3. ReadLink(last, list, t, m)'
    <3>1. Longer(last, list, last, list)
      BY DEF Longer
    <3> QED
      BY <1>2, <1>4, <1>9, <1>12, <3>1, LinkReadStays
  <2>4. myLast'[t].ptr = m /\ ReadLink(last, list, t, myLast[t].ptr)'
    BY <1>2, <1>11, <2>3 DEF ReadLink
  <2> QED
    BY <1>2, <1>7, <1>12, <1>13, <1>14, <2>1, <2>2, <2>4 DEF ProducerIs, OwnIs, OnList
<1> QED
  BY <1>2, <1>3, <1>4, <1>6, <1>7, <1>9, <1>10, <1>15, QuietKeeps DEF QueueTypes, ProducerLabels

LEMMA HelpLinkKeeps == ASSUME QueueSetting, QueueInv, NEW t \in Threads, Ada!HelpLink(t) PROVE QueueInv'
<1>1. /\ pc[t] = "helpLink" /\ pc' = [pc EXCEPT ![t] = "loadLast"] /\ Ada!MoveLast(t, myNext[t].ptr)
      /\ UNCHANGED <<left, node, myFirst, myLast, myNext, item, got>>
  BY DEF Ada!HelpLink, Ada!Goto, Ada!localVars
<1>2. QueueTypes
  BY DEF QueueInv
<1>3. PICK last \in Nat : \E list \in [Nat -> Ada!Heap] : QueueIs(last, list)
  BY DEF QueueInv
<1>4. PICK list \in [Nat -> Ada!Heap] : QueueIs(last, list)
  BY <1>3
<1>5. t \in Producers /\ t \notin Consumers /\ pc'[t] = "loadLast"
  BY <1>1, <1>2 DEF QueueTypes, QueueSetting, ConsumerLabels
<1>6. ProducerIs(last, list, t)
  BY <1>4, <1>5 DEF QueueIs
<1>7. PICK i \in 0 .. last : /\ i # last /\ myNext[t] = Ada!Tagged(list[i + 1], 1)
                             /\ Shows(seen[t], list[i + 1])
  BY <1>1, <1>6 DEF ProducerIs, ReadLink
<1>8. PICK n \in Ada!Heap : n = list[i + 1]
  OBVIOUS
<1>9. myNext[t].ptr = n /\ OnList(last, list, n)
  BY <1>7, <1>8, Stored DEF OnList
<1>10. /\ MemOK(QueueLocs)' /\ Learns(QueueLocs, t)
       /\ EndsAre(last, list)'
       /\ \A l \in QueueLocs \ {Ada!List_Last} : written'[l] = written[l]
  BY <1>1, <1>2, <1>4, <1>7, <1>8, <1>9, LastMoves
<1>11. Alone(t)
  BY <1>1, <1>2 DEF Alone, QueueTypes
<1>12. ProducerIs(last, list, t)'
  <2>1. OwnIs(t)'
    BY <1>1, <1>2, <1>5, <1>6, <1>10, OwnStays
  <2> QED
    BY <1>5, <2>1 DEF ProducerIs, OwnIs
<1> QED
  BY <1>1, <1>2, <1>4, <1>5, <1>10, <1>11, <1>12, QuietKeeps DEF QueueTypes, ProducerLabels

LEMMA LoadFirstKeeps == ASSUME QueueSetting, QueueInv, NEW t \in Threads, Ada!LoadFirst(t) PROVE QueueInv'
<1>1. PICK p : /\ Ada!gcc_atomic_load(t, Ada!First, p, Ada!Memory_Order.ACQ, 16)
               /\ myFirst' = [myFirst EXCEPT ![t] = written[Ada!First][p].value]
               /\ Ada!Goto(t, "first", "last")
  BY DEF Ada!LoadFirst, Ada!LoadInto
<1>2. UNCHANGED <<left, node, myLast, myNext, item, got>>
  BY DEF Ada!LoadFirst
<1>3. pc[t] = "first" /\ pc' = [pc EXCEPT ![t] = "last"]
  BY <1>1 DEF Ada!Goto
<1>4. QueueTypes /\ MemOK(QueueLocs) /\ Ada!First \in QueueLocs
  BY QueueLocations DEF QueueInv, QueueTypes
<1>5. PICK last \in Nat : \E list \in [Nat -> Ada!Heap] : QueueIs(last, list)
  BY DEF QueueInv
<1>6. PICK list \in [Nat -> Ada!Heap] : QueueIs(last, list)
  BY <1>5
<1>7. /\ MemOK(QueueLocs)' /\ written' = written /\ Learns(QueueLocs, t)
      /\ p \in 1 .. Newest(Ada!First)
      /\ \A loc \in QueueLocs : written[Ada!First][p].view[loc] <= seen'[t][loc]
  BY <1>1, <1>4, AdaLoads
<1>8. PICK r : r = Value(Ada!First, p)
  OBVIOUS
<1>9. PICK n \in Ada!Heap : n = list[p - 1]
  BY <1>7
<1>10. r = Ada!Tagged(n, p - 1) /\ Shows(written[Ada!First][p].view, n)
  BY <1>6, <1>7, <1>8, <1>9 DEF QueueIs, EndsAre
<1>11. p - 1 \in Int /\ r \in Pointers /\ r.ptr = n /\ r.count = p - 1
  BY <1>7, <1>10, Stored
<1>12. /\ myFirst' = [myFirst EXCEPT ![t] = r] /\ myFirst'[t] = r /\ pc'[t] = "last"
       /\ myFirst' \in [Threads -> Pointers]
  BY <1>1, <1>3, <1>4, <1>8, <1>11 DEF Value, QueueTypes
<1>13. t \in Consumers /\ t \notin Producers
  BY <1>3, <1>4 DEF QueueTypes, QueueSetting, ProducerLabels
<1>14. Alone(t)
  BY <1>2, <1>3, <1>4, <1>12 DEF Alone, QueueTypes
<1>15. ConsumerIs(last, list, t)'
  <2>1. written[Ada!First][p].view \in [QueueLocs -> Nat]
    BY <1>4, <1>7, MessageTypes
  <2>2. seen'[t] \in [QueueLocs -> Nat]
    BY <1>7 DEF MemOK
  <2>3. Shows(seen'[t], n)
    BY <1>7, <1>10, <2>1, <2>2, ShowsMore
  <2>4. Newest(Ada!First)' = Newest(Ada!First) /\ Newest(Ada!First) \in Nat
    BY <1>4, <1>7 DEF Newest, MemOK
  <2>5. p - 1 \in 0 .. Newest(Ada!First)' - 1
    BY <1>7, <2>4
  <2> QED
    BY <1>9, <1>10, <1>11, <1>12, <2>3, <2>5 DEF ConsumerIs
<1> QED
  BY <1>2, <1>3, <1>4, <1>6, <1>7, <1>12, <1>13, <1>14, <1>15, QuietKeeps DEF QueueTypes, ConsumerLabels

\* What holds of a consumer that has read List.First, ...
FirstIs(list, t) ==
  /\ myFirst[t].count \in 0 .. Newest(Ada!First) - 1
  /\ myFirst[t] = Ada!Tagged(list[myFirst[t].count], myFirst[t].count)
  /\ Shows(seen[t], myFirst[t].ptr)

\* ... and goes on to hold.
LEMMA FirstStays ==
  ASSUME QueueSetting, QueueTypes, MemOK(QueueLocs)', NEW t \in Consumers, Learns(QueueLocs, t),
         myFirst' = myFirst, \A l \in QueueLocs \ {Ada!List_Last} : written'[l] = written[l],
         NEW last \in Nat, NEW list \in [Nat -> Ada!Heap], QueueIs(last, list),
         pc[t] \in {"last", "next", "refirst", "help", "read", "advance"}
  PROVE  /\ FirstIs(list, t) /\ FirstIs(list, t)'
         /\ \E i \in 0 .. last : i = myFirst[t].count /\ myFirst[t].ptr = list[i]
<1>1. FirstIs(list, t)
  BY DEF QueueIs, ConsumerIs, FirstIs
<1>2. Newest(Ada!First)' = Newest(Ada!First) /\ Newest(Ada!First) <= last + 1 /\ Newest(Ada!First) \in Nat
  BY QueueLocations DEF Newest, QueueIs, EndsAre, QueueTypes, MemOK
<1>3. PICK i \in 0 .. last : i = myFirst[t].count
  BY <1>1, <1>2 DEF FirstIs
<1>4. PICK n \in Ada!Heap : n = list[i]
  OBVIOUS
<1>5. myFirst[t] = Ada!Tagged(n, i) /\ myFirst[t].ptr = n
  BY <1>1, <1>3, <1>4, Stored DEF FirstIs
<1>6. Shows(seen'[t], n)
  BY <1>1, <1>4, <1>5, ShownStays DEF FirstIs, QueueTypes, QueueSetting
<1>7. FirstIs(list, t)'
  BY <1>1, <1>2, <1>5, <1>6 DEF FirstIs
<1> QED
  BY <1>1, <1>3, <1>4, <1>5, <1>7

LEMMA LoadLastTooKeeps == ASSUME QueueSetting, QueueInv, NEW t \in Threads, Ada!LoadLastToo(t) PROVE QueueInv'
<1>1. PICK p : /\ Ada!gcc_atomic_load(t, Ada!List_Last, p, Ada!Memory_Order.ACQ, 16)
               /\ myLast' = [myLast EXCEPT ![t] = written[Ada!List_Last][p].value]
               /\ Ada!Goto(t, "last", "next")
  BY DEF Ada!LoadLastToo, Ada!LoadInto
<1>2. UNCHANGED <<left, node, myFirst, myNext, item, got>>
  BY DEF Ada!LoadLastToo
<1>3. pc[t] = "last" /\ pc' = [pc EXCEPT ![t] = "next"]
  BY <1>1 DEF Ada!Goto
<1>4. QueueTypes /\ MemOK(QueueLocs) /\ Ada!List_Last \in QueueLocs
  BY QueueLocations DEF QueueInv, QueueTypes
<1>5. PICK last \in Nat : \E list \in [Nat -> Ada!Heap] : QueueIs(last, list)
  BY DEF QueueInv
<1>6. PICK list \in [Nat -> Ada!Heap] : QueueIs(last, list)
  BY <1>5
<1>7. /\ MemOK(QueueLocs)' /\ written' = written /\ Learns(QueueLocs, t)
      /\ p \in 1 .. Newest(Ada!List_Last)
  BY <1>1, <1>4, AdaLoads
<1>8. PICK r : r = Value(Ada!List_Last, p)
  OBVIOUS
<1>9. r \in Pointers
  BY <1>6, <1>7, <1>8 DEF QueueIs, EndsAre
<1>10. /\ myLast' = [myLast EXCEPT ![t] = r] /\ pc'[t] = "next"
       /\ myLast' \in [Threads -> Pointers]
  BY <1>1, <1>3, <1>4, <1>8, <1>9 DEF Value, QueueTypes
<1>11. t \in Consumers /\ t \notin Producers
  BY <1>3, <1>4 DEF QueueTypes, QueueSetting, ProducerLabels
<1>12. Alone(t)
  BY <1>2, <1>3, <1>4, <1>10 DEF Alone, QueueTypes
<1>13. ConsumerIs(last, list, t)'
  <2>1. FirstIs(list, t)'
    BY <1>2, <1>3, <1>4, <1>6, <1>7, <1>11, FirstStays
  <2> QED
    BY <1>10, <2>1 DEF ConsumerIs, FirstIs
<1> QED
  BY <1>2, <1>3, <1>4, <1>6, <1>7, <1>10, <1>11, <1>12, <1>13, QuietKeeps DEF QueueTypes, ConsumerLabels

LEMMA LoadNextOfFirstKeeps ==
  ASSUME QueueSetting, QueueInv, NEW t \in Threads, Ada!LoadNextOfFirst(t) PROVE QueueInv'
<1>1. PICK m : m = myFirst[t].ptr
  OBVIOUS
<1>2. PICK p : /\ Ada!gcc_atomic_load(t, Ada!Next(m), p, Ada!Memory_Order.ACQ, 16)
               /\ myNext' = [myNext EXCEPT ![t] = written[Ada!Next(m)][p].value]
               /\ Ada!Goto(t, "next", "refirst")
  BY <1>1 DEF Ada!LoadNextOfFirst, Ada!LoadInto
<1>3. UNCHANGED <<left, node, myFirst, myLast, item, got>>
  BY DEF Ada!LoadNextOfFirst
<1>4. pc[t] = "next" /\ pc' = [pc EXCEPT ![t] = "refirst"]
  BY <1>2 DEF Ada!Goto
<1>5. QueueTypes
  BY DEF QueueInv
<1>6. PICK last \in Nat : \E list \in [Nat -> Ada!Heap] : QueueIs(last, list)
  BY DEF QueueInv
<1>7. PICK list \in [Nat -> Ada!Heap] : QueueIs(last, list)
  BY <1>6
<1>8. t \in Consumers /\ t \notin Producers /\ pc'[t] = "refirst"
  BY <1>4, <1>5 DEF QueueTypes, QueueSetting, ProducerLabels
<1>9. FirstIs(list, t) /\ OnList(last, list, m)
  <2>1. ConsumerIs(last, list, t)
    BY <1>7, <1>8 DEF QueueIs
  <2>2. Newest(Ada!First) <= last + 1 /\ Newest(Ada!First) \in Nat
    BY <1>5, <1>7, QueueLocations DEF QueueIs, EndsAre, QueueTypes, MemOK
  <2>3. FirstIs(list, t)
    BY <1>4, <2>1 DEF ConsumerIs, FirstIs
  <2>4. PICK i \in 0 .. last : i = myFirst[t].count
    BY <2>2, <2>3 DEF FirstIs
  <2>5. PICK n \in Ada!Heap : n = list[i]
    OBVIOUS
  <2>6. m = n
    BY <1>1, <2>3, <2>4, <2>5, Stored DEF FirstIs
  <2> QED
    BY <2>3, <2>5, <2>6 DEF OnList
<1>10. Shows(seen[t], m)
  BY <1>1, <1>9 DEF FirstIs
<1>11. /\ MemOK(QueueLocs)' /\ written' = written /\ Learns(QueueLocs, t)
       /\ ReadLink(last, list, t, m)' /\ myNext' \in [Threads -> Pointers]
       /\ \A u \in Threads \ {t} : myNext'[u] = myNext[u]
  BY <1>2, <1>5, <1>7, <1>9, <1>10, LinkLoaded
<1>12. Alone(t)
  BY <1>3, <1>4, <1>5, <1>11 DEF Alone, QueueTypes
<1>13. ConsumerIs(last, list, t)'
  <2>1. FirstIs(list, t)'
    BY <1>3, <1>4, <1>5, <1>7, <1>8, <1>11, FirstStays
  <2>2. ReadLink(last, list, t, myFirst[t].ptr)'
    BY <1>1, <1>3, <1>11 DEF ReadLink
  <2> QED
    BY <1>8, <2>1, <2>2 DEF ConsumerIs, FirstIs
<1> QED
  BY <1>3, <1>4, <1>5, <1>7, <1>8, <1>11, <1>12, <1>13, QuietKeeps DEF QueueTypes, ConsumerLabels

\* What a consumer has read from the link goes on to be there.
LEMMA NextStays ==
  ASSUME QueueSetting, QueueTypes, MemOK(QueueLocs)', NEW t \in Consumers, Learns(QueueLocs, t),
         myFirst' = myFirst, myNext' = myNext,
         NEW last \in Nat, NEW list \in [Nat -> Ada!Heap], ConsumerIs(last, list, t),
         pc[t] \in {"refirst", "help", "read", "advance"}
  PROVE  ReadLink(last, list, t, myFirst[t].ptr)'
<1>1. PICK m : m = myFirst[t].ptr
  OBVIOUS
<1>2. ReadLink(last, list, t, m) /\ t \in Threads /\ Longer(last, list, last, list)
  BY <1>1 DEF ConsumerIs, QueueSetting, Longer
<1>3. ReadLink(last, list, t, m)'
  BY <1>2, LinkReadStays DEF QueueTypes
<1> QED
  BY <1>1, <1>3 DEF ReadLink

LEMMA RefirstKeeps == ASSUME QueueSetting, QueueInv, NEW t \in Threads, Ada!Refirst(t) PROVE QueueInv'
<1>1. PICK p : /\ Ada!gcc_atomic_load(t, Ada!First, p, Ada!Memory_Order.ACQ, 16)
               /\ Ada!Goto(t, "refirst",
                    IF written[Ada!First][p].value # myFirst[t] \/ myNext[t].ptr = Ada!Null THEN "first"
                    ELSE IF myFirst[t].ptr = myLast[t].ptr THEN "help" ELSE "read")
               /\ UNCHANGED <<left, Ada!localVars, got>>
  BY DEF Ada!Refirst
<1>2. UNCHANGED <<left, node, myFirst, myLast, myNext, item, got>>
  BY <1>1 DEF Ada!localVars
<1>3. PICK there \in {"first", "help", "read"} :
         /\ pc[t] = "refirst" /\ pc' = [pc EXCEPT ![t] = there]
         /\ there # "first" => myNext[t].ptr # Ada!Null
  BY <1>1 DEF Ada!Goto
<1>4. QueueTypes /\ MemOK(QueueLocs) /\ Ada!First \in QueueLocs
  BY QueueLocations DEF QueueInv, QueueTypes
<1>5. PICK last \in Nat : \E list \in [Nat -> Ada!Heap] : QueueIs(last, list)
  BY DEF QueueInv
<1>6. PICK list \in [Nat -> Ada!Heap] : QueueIs(last, list)
  BY <1>5
<1>7. t \in Consumers /\ t \notin Producers /\ pc'[t] = there
  BY <1>3, <1>4 DEF QueueTypes, QueueSetting, ProducerLabels
<1>8. ConsumerIs(last, list, t)
  BY <1>6, <1>7 DEF QueueIs
<1>9. MemOK(QueueLocs)' /\ written' = written /\ Learns(QueueLocs, t)
  BY <1>1, <1>4, AdaLoads
<1>10. Alone(t)
  BY <1>2, <1>3, <1>4 DEF Alone, QueueTypes
<1>11. there # "first" => myNext'[t] # Ada!Nowhere
  BY <1>2, <1>3, Stored
<1>12. ConsumerIs(last, list, t)'
  <2>1. FirstIs(list, t)'
    BY <1>2, <1>3, <1>4, <1>6, <1>7, <1>9, FirstStays
  <2>2. ReadLink(last, list, t, myFirst[t].ptr)'
    BY <1>2, <1>3, <1>4, <1>7, <1>8, <1>9, NextStays
  <2> QED
    BY <1>7, <1>11, <2>1, <2>2 DEF ConsumerIs, FirstIs
<1> QED
  BY <1>2, <1>3, <1>4, <1>6, <1>7, <1>9, <1>10, <1>12, QuietKeeps DEF QueueTypes, ConsumerLabels

\* The node that a consumer is about to take.
LEMMA NextIs ==
  ASSUME QueueSetting, QueueTypes, NEW t \in Consumers,
         NEW last \in Nat, NEW list \in [Nat -> Ada!Heap], QueueIs(last, list),
         pc[t] \in {"help", "read", "advance"}
  PROVE  \E i \in 0 .. last : \E n \in Ada!Heap \ {Ada!Initial} :
           /\ i # last /\ n = list[i + 1] /\ myNext[t].ptr = n
           /\ i = myFirst[t].count /\ OnList(last, list, n) /\ Shows(seen[t], n)
<1>1. ConsumerIs(last, list, t)
  BY DEF QueueIs
<1>2. PICK m : m = myFirst[t].ptr
  OBVIOUS
<1>3. ReadLink(last, list, t, m) /\ myNext[t] # Ada!Nowhere
  BY <1>1, <1>2 DEF ConsumerIs
<1>4. PICK i \in 0 .. last : /\ i # last /\ list[i] = m
                             /\ myNext[t] = Ada!Tagged(list[i + 1], 1)
                             /\ Shows(seen[t], list[i + 1])
  BY <1>3 DEF ReadLink
<1>5. i + 1 \in 0 .. last /\ i + 1 # 0 /\ 0 \in 0 .. last
  BY <1>4
<1>6. PICK n \in Ada!Heap : n = list[i + 1]
  OBVIOUS
<1>7. n # Ada!Initial
  BY <1>5, <1>6 DEF QueueIs, ListIs
<1>8. myNext[t].ptr = n
  BY <1>4, <1>6, Stored
<1>9. Newest(Ada!First) <= last + 1 /\ Newest(Ada!First) \in Nat
  BY QueueLocations DEF QueueIs, EndsAre, QueueTypes, MemOK
<1>10. FirstIs(list, t)
  BY <1>1 DEF ConsumerIs, FirstIs
<1>11. PICK j \in 0 .. last : j = myFirst[t].count
  BY <1>9, <1>10 DEF FirstIs
<1>12. PICK h \in Ada!Heap : h = list[j]
  OBVIOUS
<1>13. m = h
  BY <1>2, <1>10, <1>11, <1>12, Stored DEF FirstIs
<1>14. i = j
  BY <1>4, <1>12, <1>13 DEF QueueIs, ListIs
<1> QED
  BY <1>4, <1>5, <1>6, <1>7, <1>8, <1>11, <1>14 DEF OnList

LEMMA HelpKeeps == ASSUME QueueSetting, QueueInv, NEW t \in Threads, Ada!Help(t) PROVE QueueInv'
<1>1. /\ pc[t] = "help" /\ pc' = [pc EXCEPT ![t] = "first"] /\ Ada!MoveLast(t, myNext[t].ptr)
      /\ UNCHANGED <<left, node, myFirst, myLast, myNext, item, got>>
  BY DEF Ada!Help, Ada!Goto, Ada!localVars
<1>2. QueueTypes
  BY DEF QueueInv
<1>3. PICK last \in Nat : \E list \in [Nat -> Ada!Heap] : QueueIs(last, list)
  BY DEF QueueInv
<1>4. PICK list \in [Nat -> Ada!Heap] : QueueIs(last, list)
  BY <1>3
<1>5. t \in Consumers /\ t \notin Producers /\ pc'[t] = "first"
  BY <1>1, <1>2 DEF QueueTypes, QueueSetting, ProducerLabels
<1>6. PICK n \in Ada!Heap : myNext[t].ptr = n /\ OnList(last, list, n) /\ Shows(seen[t], n)
  BY <1>1, <1>2, <1>4, <1>5, NextIs
<1>7. /\ MemOK(QueueLocs)' /\ Learns(QueueLocs, t)
      /\ EndsAre(last, list)'
      /\ \A l \in QueueLocs \ {Ada!List_Last} : written'[l] = written[l]
  BY <1>1, <1>2, <1>4, <1>6, LastMoves
<1>8. Alone(t)
  BY <1>1, <1>2 DEF Alone, QueueTypes
<1>9. ConsumerIs(last, list, t)'
  BY <1>5 DEF ConsumerIs
<1> QED
  BY <1>1, <1>2, <1>4, <1>5, <1>7, <1>8, <1>9, QuietKeeps DEF QueueTypes, ConsumerLabels

LEMMA ReadKeeps == ASSUME QueueSetting, QueueInv, NEW t \in Threads, Ada!Read(t) PROVE QueueInv'
<1>1. PICK n0 : n0 = myNext[t].ptr
  OBVIOUS
<1>2. PICK p : /\ Ada!Load(t, Ada!Element(n0), p, "relaxed")
               /\ item' = [item EXCEPT ![t] = written[Ada!Element(n0)][p].value]
  BY <1>1 DEF Ada!Read
<1>3. /\ pc[t] = "read" /\ pc' = [pc EXCEPT ![t] = "advance"]
      /\ UNCHANGED <<left, node, myFirst, myLast, myNext, got>>
  BY DEF Ada!Read, Ada!Goto
<1>4. QueueTypes /\ MemOK(QueueLocs)
  BY DEF QueueInv, QueueTypes
<1>5. PICK last \in Nat : \E list \in [Nat -> Ada!Heap] : QueueIs(last, list)
  BY DEF QueueInv
<1>6. PICK list \in [Nat -> Ada!Heap] : QueueIs(last, list)
  BY <1>5
<1>7. t \in Consumers /\ t \notin Producers /\ pc'[t] = "advance"
  BY <1>3, <1>4 DEF QueueTypes, QueueSetting, ProducerLabels
<1>8. n0 \in Ada!Heap \ {Ada!Initial} /\ OnList(last, list, n0) /\ Shows(seen[t], n0)
  <2>1. PICK n \in Ada!Heap \ {Ada!Initial} : myNext[t].ptr = n /\ OnList(last, list, n) /\ Shows(seen[t], n)
    BY <1>3, <1>4, <1>6, <1>7, NextIs
  <2> QED
    BY <1>1, <2>1
<1>9. Ada!Element(n0) \in QueueLocs
  BY <1>8, QueueLocations
<1>10. /\ MemOK(QueueLocs)' /\ written' = written /\ Learns(QueueLocs, t)
       /\ p \in seen[t][Ada!Element(n0)] .. Newest(Ada!Element(n0))
  <2>1. Load(t, Ada!Element(n0), p, "relaxed")
    BY <1>2, AdaMemory
  <2> QED
    BY <1>4, <1>9, <2>1, LoadEffect
<1>11. written[Ada!Element(n0)][p].value = n0
  <2>1. Filled(n0)
    BY <1>6, <1>8 DEF OnList, QueueIs, ListIs
  <2>2. seen[t][Ada!Element(n0)] \in Nat /\ seen[t][Ada!Element(n0)] >= 2
    BY <1>4, <1>8, <1>9 DEF Shows, MemOK
  <2>3. Newest(Ada!Element(n0)) = 2 /\ Value(Ada!Element(n0), 2) = n0
    BY <1>8, <2>1 DEF Filled
  <2>4. p = 2
    BY <1>10, <2>2, <2>3
  <2> QED
    BY <2>3, <2>4 DEF Value
<1>12. item' = [item EXCEPT ![t] = n0] /\ item'[t] = n0 /\ item' \in [Threads -> Ada!Heap \cup {Ada!Null}]
  BY <1>2, <1>4, <1>8, <1>11 DEF QueueTypes
<1>13. Alone(t)
  BY <1>3, <1>4, <1>12 DEF Alone, QueueTypes
<1>14. ConsumerIs(last, list, t)'
  <2>1. FirstIs(list, t)'
    BY <1>3, <1>4, <1>6, <1>7, <1>10, FirstStays
  <2>2. ConsumerIs(last, list, t)
    BY <1>6, <1>7 DEF QueueIs
  <2>3. ReadLink(last, list, t, myFirst[t].ptr)'
    BY <1>3, <1>4, <1>7, <1>10, <2>2, NextStays
  <2>4. myNext'[t] # Ada!Nowhere /\ item'[t] = myNext'[t].ptr
    BY <1>1, <1>3, <1>12, <2>2 DEF ConsumerIs
  <2> QED
    BY <1>7, <2>1, <2>3, <2>4 DEF ConsumerIs, FirstIs
<1> QED
  BY <1>3, <1>4, <1>6, <1>7, <1>10, <1>12, <1>13, <1>14, QuietKeeps DEF QueueTypes, ConsumerLabels

\* A node is written that is not on the list yet.
LEMMA NodeWritten ==
  ASSUME QueueSetting, QueueTypes, MemOK(QueueLocs)', NEW t \in Producers, Learns(QueueLocs, t), Alone(t),
         NEW n \in Ada!Heap \ {Ada!Initial}, n = <<t, left[t]>>, pc[t] \in {"new", "fill"},
         NEW there, pc' = [pc EXCEPT ![t] = there], there \notin {"new", "swing", "done"},
         left' = left, got' = got,
         \A l \in QueueLocs \ {Ada!Next(n), Ada!Element(n)} : written'[l] = written[l],
         NEW last \in Nat, NEW list \in [Nat -> Ada!Heap], QueueIs(last, list),
         ProducerIs(last, list, t)'
  PROVE  QueueIs(last, list)'
<1>1. t \in Threads /\ t \notin Consumers /\ n[1] = t /\ n[2] = left[t] /\ left[t] \in Nat /\ pc'[t] = there
  BY DEF QueueSetting, QueueTypes
<1>2. ~OnList(last, list, n)
  BY <1>1 DEF QueueIs, NodesAre
<1>3. \A m \in Ada!Heap : m # n => /\ written'[Ada!Next(m)] = written[Ada!Next(m)]
                                   /\ written'[Ada!Element(m)] = written[Ada!Element(m)]
  BY QueueLocations
<1>4. written'[Ada!First] = written[Ada!First] /\ written'[Ada!List_Last] = written[Ada!List_Last]
  BY QueueLocations
<1>5. ListIs(last, list)'
  <2>1. \A i \in 0 .. last : list[i] \in Ada!Heap /\ list[i] # n /\ (i # last => i + 1 \in 0 .. last)
    BY <1>2 DEF OnList
  <2>2. \A m \in Ada!Heap : m # n /\ Filled(m) => Filled(m)'
    BY <1>3 DEF Filled, Newest, Value, Base
  <2>3. \A m \in Ada!Heap, h \in Ada!Heap : m # n /\ LinkedTo(m, h) => LinkedTo(m, h)'
    BY <1>3 DEF LinkedTo, Newest, Value, Base, Shows
  <2>4. \A i \in 0 .. last : list[i] \in Ada!Heap /\ Filled(list[i])'
    BY <2>1, <2>2 DEF QueueIs, ListIs
  <2>5. \A i \in 0 .. last : i # last => LinkedTo(list[i], list[i + 1])'
    BY <2>1, <2>3 DEF QueueIs, ListIs
  <2>6. (Newest(Ada!Next(list[last])) = Base(list[last]))'
    BY <1>3, <2>1 DEF QueueIs, ListIs, Newest, Base
  <2> QED
    BY <2>4, <2>5, <2>6 DEF QueueIs, ListIs
<1>6. EndsAre(last, list)'
  BY <1>4 DEF QueueIs, EndsAre, Newest, Value, Shows, OnList
<1>7. NodesAre(last, list)'
  <2> SUFFICES ASSUME NEW m \in Ada!Heap \ {Ada!Initial}
               PROVE  /\ OnList(last, list, m) <=> m[2] > left'[m[1]] \/ (m[2] = left'[m[1]] /\ pc'[m[1]] = "swing")
                      /\ m[2] < left'[m[1]] \/ (m[2] = left'[m[1]] /\ pc'[m[1]] = "new") =>
                           Newest(Ada!Element(m))' = 1 /\ Newest(Ada!Next(m))' = 1
    BY DEF QueueIs, NodesAre, OnList
  <2>1. m[1] \in Threads /\ m = <<m[1], m[2]>>
    BY Addresses DEF QueueSetting
  <2>2. CASE m[1] # t
    <3>1. /\ left'[m[1]] = left[m[1]] /\ pc'[m[1]] = pc[m[1]]
          /\ Newest(Ada!Element(m))' = Newest(Ada!Element(m)) /\ Newest(Ada!Next(m))' = Newest(Ada!Next(m))
      BY <1>1, <1>3, <2>1, <2>2 DEF Alone, Newest
    <3> QED
      BY <3>1 DEF QueueIs, NodesAre
  <2>3. CASE m[1] = t
    <3>1. OnList(last, list, m) <=> m[2] > left[t]
      BY <2>3 DEF QueueIs, NodesAre
    <3>2. m[2] < left[t] => Newest(Ada!Element(m)) = 1 /\ Newest(Ada!Next(m)) = 1
      BY <2>3 DEF QueueIs, NodesAre
    <3>3. m[2] < left[t] => m # n
      BY <1>1
    <3>4. m[2] < left[t] => Newest(Ada!Element(m))' = 1 /\ Newest(Ada!Next(m))' = 1
      BY <1>3, <3>2, <3>3 DEF Newest
    <3> QED
      BY <1>1, <2>3, <3>1, <3>4
  <2> QED
    BY <2>2, <2>3
<1>8. Dequeued(list)'
  <2>1. Newest(Ada!First)' = Newest(Ada!First)
    BY <1>4 DEF Newest
  <2> QED
    BY <2>1 DEF QueueIs, Dequeued
<1>9. /\ \A u \in Producers \ {t} : ProducerIs(last, list, u)'
      /\ \A u \in Consumers \ {t} : ConsumerIs(last, list, u)'
  <2>1. Longer(last, list, last, list)
    BY DEF Longer
  <2>2. Newest(Ada!First) <= Newest(Ada!First)'
    BY <1>4, QueueLocations DEF QueueTypes, MemOK, Newest
  <2>3. \A u \in Producers \ {t} : Linking(u) =>
            /\ written'[Ada!Next(<<u, left[u]>>)] = written[Ada!Next(<<u, left[u]>>)]
            /\ written'[Ada!Element(<<u, left[u]>>)] = written[Ada!Element(<<u, left[u]>>)]
    <3> SUFFICES ASSUME NEW u \in Producers \ {t}, Linking(u)
                 PROVE  <<u, left[u]>> \in Ada!Heap /\ <<u, left[u]>> # n
      BY <1>3
    <3>1. pc[u] # "done" /\ u # t
      BY DEF Linking
    <3> QED
      BY <1>1, <3>1, OwnNode
  <2> QED
    BY <1>1, <2>1, <2>2, <2>3, OthersStay
<1> QED
  BY <1>1, <1>5, <1>6, <1>7, <1>8, <1>9 DEF QueueIs

LEMMA NewNodeKeeps == ASSUME QueueSetting, QueueInv, NEW t \in Threads, Ada!NewNode(t) PROVE QueueInv'
<1>1. PICK n : n = <<t, left[t]>>
  OBVIOUS
<1>2. /\ pc[t] = "new" /\ pc' = [pc EXCEPT ![t] = "fill"] /\ node' = [node EXCEPT ![t] = n]
      /\ Store(t, Ada!Element(n), n, "relaxed")
      /\ UNCHANGED <<left, myFirst, myLast, myNext, item, got>>
  BY <1>1, AdaMemory DEF Ada!NewNode, Ada!Goto
<1>3. QueueTypes
  BY DEF QueueInv
<1>4. PICK last \in Nat : \E list \in [Nat -> Ada!Heap] : QueueIs(last, list)
  BY DEF QueueInv
<1>5. PICK list \in [Nat -> Ada!Heap] : QueueIs(last, list)
  BY <1>4
<1>6. t \in Producers /\ t \notin Consumers /\ pc'[t] = "fill"
  BY <1>2, <1>3 DEF QueueTypes, QueueSetting, ConsumerLabels
<1>7. n \in Ada!Heap \ {Ada!Initial} /\ n[1] = t /\ n[2] = left[t] /\ n \in Values
  BY <1>1, <1>2, <1>3, <1>6, OwnNode, Stored
<1>8. /\ Ada!Element(n) \in QueueLocs /\ Ada!Next(n) \in QueueLocs /\ Ada!Next(n) # Ada!Element(n)
      /\ MemOK(QueueLocs)
  BY <1>3, <1>7, QueueLocations DEF QueueTypes
<1>9. Newest(Ada!Element(n)) = 1 /\ Newest(Ada!Next(n)) = 1
  BY <1>2, <1>5, <1>7 DEF QueueIs, NodesAre
<1>10. /\ MemOK(QueueLocs)' /\ Learns(QueueLocs, t)
       /\ seen'[t][Ada!Element(n)] = Newest(Ada!Element(n)) + 1
       /\ \E view \in [QueueLocs -> Nat] : Added(QueueLocs, Ada!Element(n), n, view)
  BY <1>2, <1>7, <1>8, StoreEffect
<1>11. PICK view \in [QueueLocs -> Nat] : Added(QueueLocs, Ada!Element(n), n, view)
  BY <1>10
<1>12. /\ Newest(Ada!Element(n))' = 2 /\ Value(Ada!Element(n), 2)' = n
       /\ Newest(Ada!Next(n))' = 1 /\ seen'[t][Ada!Element(n)] >= 2
       /\ \A l \in QueueLocs \ {Ada!Next(n), Ada!Element(n)} : written'[l] = written[l]
  BY <1>8, <1>9, <1>10, <1>11 DEF Added, Value
<1>13. node'[t] = n /\ node' \in [Threads -> Ada!Heap \cup {Ada!Null}]
  BY <1>2, <1>3, <1>7 DEF QueueTypes
<1>14. Alone(t)
  BY <1>2, <1>3 DEF Alone, QueueTypes
<1>15. QueueTypes'
  <2>1. PICK rest : rest = left[t]
    OBVIOUS
  <2>2. rest \in Nat /\ rest <= Share[t] /\ rest # 0 /\ left' = [left EXCEPT ![t] = rest]
    BY <1>2, <1>3, <2>1 DEF QueueTypes
  <2> QED
    BY <1>2, <1>3, <1>6, <1>10, <1>13, <2>2, QueueTypesStay DEF QueueTypes, ProducerLabels
<1>16. ProducerIs(last, list, t)'
  BY <1>1, <1>2, <1>6, <1>12, <1>13 DEF ProducerIs, Newest, Value
<1>17. QueueIs(last, list)'
  BY <1>1, <1>2, <1>3, <1>5, <1>6, <1>7, <1>10, <1>12, <1>14, <1>16, NodeWritten
<1> QED
  BY <1>15, <1>17 DEF QueueInv

LEMMA FillNodeKeeps == ASSUME QueueSetting, QueueInv, NEW t \in Threads, Ada!FillNode(t) PROVE QueueInv'
<1>1. PICK n : n = <<t, left[t]>>
  OBVIOUS
<1>2. /\ pc[t] = "fill" /\ pc' = [pc EXCEPT ![t] = "loadLast"]
      /\ Store(t, Ada!Next(node[t]), Ada!Nowhere, "relaxed")
      /\ UNCHANGED <<left, node, myFirst, myLast, myNext, item, got>>
  BY AdaMemory DEF Ada!FillNode, Ada!Goto, Ada!localVars
<1>3. QueueTypes
  BY DEF QueueInv
<1>4. PICK last \in Nat : \E list \in [Nat -> Ada!Heap] : QueueIs(last, list)
  BY DEF QueueInv
<1>5. PICK list \in [Nat -> Ada!Heap] : QueueIs(last, list)
  BY <1>4
<1>6. t \in Producers /\ t \notin Consumers /\ pc'[t] = "loadLast"
  BY <1>2, <1>3 DEF QueueTypes, QueueSetting, ConsumerLabels
<1>7. n \in Ada!Heap \ {Ada!Initial} /\ n[1] = t /\ n[2] = left[t] /\ Ada!Nowhere \in Values
  BY <1>1, <1>2, <1>3, <1>6, OwnNode, Stored
<1>8. ProducerIs(last, list, t)
  BY <1>5, <1>6 DEF QueueIs
<1>9. /\ node[t] = n /\ Newest(Ada!Element(n)) = 2 /\ Value(Ada!Element(n), 2) = n
      /\ Newest(Ada!Next(n)) = 1 /\ seen[t][Ada!Element(n)] >= 2
  BY <1>1, <1>2, <1>8 DEF ProducerIs
<1>10. /\ Ada!Element(n) \in QueueLocs /\ Ada!Next(n) \in QueueLocs /\ Ada!Next(n) # Ada!Element(n)
       /\ MemOK(QueueLocs)
  BY <1>3, <1>7, QueueLocations DEF QueueTypes
<1>11. /\ MemOK(QueueLocs)' /\ Learns(QueueLocs, t)
       /\ seen'[t][Ada!Next(n)] = Newest(Ada!Next(n)) + 1
       /\ \A loc \in QueueLocs \ {Ada!Next(n)} : seen'[t][loc] = seen[t][loc]
       /\ \E view \in [QueueLocs -> Nat] : Added(QueueLocs, Ada!Next(n), Ada!Nowhere, view)
  BY <1>2, <1>7, <1>9, <1>10, StoreEffect
<1>12. PICK view \in [QueueLocs -> Nat] : Added(QueueLocs, Ada!Next(n), Ada!Nowhere, view)
  BY <1>11
<1>13. /\ Newest(Ada!Next(n))' = 2 /\ Value(Ada!Next(n), 2)' = Ada!Nowhere
       /\ Newest(Ada!Element(n))' = 2 /\ Value(Ada!Element(n), 2)' = n
       /\ seen'[t][Ada!Next(n)] >= 2 /\ seen'[t][Ada!Element(n)] >= 2
       /\ \A l \in QueueLocs \ {Ada!Next(n), Ada!Element(n)} : written'[l] = written[l]
  BY <1>9, <1>10, <1>11, <1>12 DEF Added, Value
<1>14. Filled(n)' /\ Shows(seen'[t], n)
  BY <1>7, <1>13 DEF Filled, Shows, Base, Newest, Value
<1>15. Alone(t)
  BY <1>2, <1>3 DEF Alone, QueueTypes
<1>16. QueueTypes'
  <2>1. PICK rest : rest = left[t]
    OBVIOUS
  <2>2. rest \in Nat /\ rest <= Share[t] /\ rest # 0 /\ left' = [left EXCEPT ![t] = rest]
    BY <1>2, <1>3, <2>1 DEF QueueTypes
  <2> QED
    BY <1>2, <1>3, <1>6, <1>11, <2>2, QueueTypesStay DEF QueueTypes, ProducerLabels
<1>17. ProducerIs(last, list, t)'
  <2>1. node'[t] = n /\ n = <<t, left'[t]>>
    BY <1>1, <1>2, <1>9
  <2>2. Filled(node[t])' /\ (Newest(Ada!Next(node[t])) = 2)' /\ Shows(seen'[t], node'[t])
    BY <1>13, <1>14, <2>1 DEF Filled, Newest, Value, Base
  <2> QED
    BY <1>6, <2>1, <2>2 DEF ProducerIs
<1>18. QueueIs(last, list)'
  BY <1>1, <1>2, <1>3, <1>5, <1>6, <1>7, <1>11, <1>13, <1>15, <1>17, NodeWritten
<1> QED
  BY <1>16, <1>18 DEF QueueInv

\* The last node of the list is linked to another one.
LEMMA ListGrows ==
  ASSUME NEW last \in Nat, NEW list \in [Nat -> Ada!Heap], ListIs(last, list),
         NEW n \in Ada!Heap \ {Ada!Initial}, ~OnList(last, list, n), Filled(n), Newest(Ada!Next(n)) = 2,
         NEW m, m = list[last], NEW view \in [QueueLocs -> Nat], Shows(view, n),
         Added(QueueLocs, Ada!Next(m), Ada!Tagged(n, 1), view),
         NEW list2 \in [Nat -> Ada!Heap], list2 = [list EXCEPT ![last + 1] = n]
  PROVE  ListIs(last + 1, list2)'
<1>1. m \in Ada!Heap /\ Ada!Next(m) \in QueueLocs /\ m # n
  BY QueueLocations DEF OnList
<1>2. /\ list2[last + 1] = n /\ \A i \in 0 .. last : list2[i] = list[i] /\ list[i] \in Ada!Heap /\ list[i] # n
      /\ \A i \in 0 .. last + 1 : i = last + 1 \/ i \in 0 .. last
      /\ \A i \in 0 .. last : i = last \/ i + 1 \in 0 .. last
  BY DEF OnList
<1>3. \A h \in Ada!Heap : /\ written'[Ada!Element(h)] = written[Ada!Element(h)]
                          /\ h # m => written'[Ada!Next(h)] = written[Ada!Next(h)]
  BY <1>1, QueueLocations DEF Added
<1>4. Newest(Ada!Next(m)) = Base(m) /\ Base(m) \in {1, 2}
  BY DEF ListIs, Base
<1>5. /\ Newest(Ada!Next(m))' = Base(m) + 1
      /\ Value(Ada!Next(m), Base(m))' = Value(Ada!Next(m), Base(m))
      /\ Value(Ada!Next(m), Base(m) + 1)' = Ada!Tagged(n, 1)
      /\ written'[Ada!Next(m)][Base(m) + 1].view = view
  BY <1>4 DEF Added, Value
<1>6. \A h \in Ada!Heap : Filled(h) => Filled(h)'
  <2> SUFFICES ASSUME NEW h \in Ada!Heap, Filled(h) PROVE Filled(h)'
    OBVIOUS
  <2>1. CASE h # m
    BY <1>3, <2>1 DEF Filled, Newest, Value, Base
  <2>2. CASE h = m
    <3>1. Newest(Ada!Next(h))' >= Base(h) /\ Value(Ada!Next(h), Base(h))' = Ada!Nowhere
      BY <1>4, <1>5, <2>2 DEF Filled
    <3>2. h # Ada!Initial => Newest(Ada!Element(h))' = 2 /\ Value(Ada!Element(h), 2)' = h
      BY <1>3 DEF Filled, Newest, Value
    <3> QED
      BY <3>1, <3>2 DEF Filled, Newest, Value, Base
  <2> QED
    BY <2>1, <2>2
<1>7. \A i \in 0 .. last + 1 : list2[i] \in Ada!Heap /\ Filled(list2[i])'
  BY <1>2, <1>6 DEF ListIs
<1>8. \A i, j \in 0 .. last + 1 : list2[i] = list2[j] => i = j
  BY <1>2 DEF ListIs
<1>9. \A i \in 0 .. last + 1 : i # last + 1 => LinkedTo(list2[i], list2[i + 1])'
  <2> SUFFICES ASSUME NEW i \in 0 .. last PROVE LinkedTo(list2[i], list2[i + 1])'
    BY <1>2
  <2>1. CASE i = last
    <3>1. list2[i] = m /\ list2[i + 1] = n
      BY <1>2, <2>1
    <3>2. LinkedTo(m, n)'
      BY <1>5 DEF LinkedTo, Newest, Value, Base, Shows
    <3> QED
      BY <3>1, <3>2 DEF LinkedTo, Newest, Value, Base, Shows
  <2>2. CASE i # last
    <3>1. i + 1 \in 0 .. last /\ list2[i] = list[i] /\ list2[i + 1] = list[i + 1]
      BY <1>2, <2>2
    <3>2. LinkedTo(list[i], list[i + 1]) /\ list[i] # m /\ list[i] \in Ada!Heap
      BY <2>2 DEF ListIs
    <3>3. \A g, h : g \in Ada!Heap /\ g # m /\ LinkedTo(g, h) => LinkedTo(g, h)'
      BY <1>3 DEF LinkedTo, Newest, Value, Base, Shows
    <3>4. PICK g : g = list[i]
      OBVIOUS
    <3>5. PICK h : h = list[i + 1]
      OBVIOUS
    <3>6. LinkedTo(g, h)'
      BY <3>2, <3>3, <3>4, <3>5
    <3>7. list2[i] = g /\ list2[i + 1] = h
      BY <3>1, <3>4, <3>5
    <3> QED
      BY <3>6, <3>7 DEF LinkedTo, Newest, Value, Base, Shows
  <2> QED
    BY <2>1, <2>2
<1>10. (Newest(Ada!Next(list2[last + 1])) = Base(list2[last + 1]))'
  BY <1>1, <1>2, <1>3 DEF Newest, Base
<1>11. list2[0] = Ada!Initial
  BY <1>2 DEF ListIs
<1> QED
  BY <1>7, <1>8, <1>9, <1>10, <1>11 DEF ListIs

\* The exchange that links a node.
LEMMA LinkedKeeps ==
  ASSUME QueueSetting, QueueInv, NEW t \in Threads, pc[t] = "link", pc' = [pc EXCEPT ![t] = "swing"],
         UNCHANGED <<left, node, myFirst, myLast, myNext, item, got>>,
         Ada!Succeeds(t, Ada!Next(myLast[t].ptr), myNext[t], Ada!Tagged(node[t], myNext[t].count + 1))
  PROVE  QueueInv'
<1>1. QueueTypes /\ MemOK(QueueLocs)
  BY DEF QueueInv, QueueTypes
<1>2. PICK last \in Nat : \E list \in [Nat -> Ada!Heap] : QueueIs(last, list)
  BY DEF QueueInv
<1>3. PICK list \in [Nat -> Ada!Heap] : QueueIs(last, list)
  BY <1>2
<1>4. t \in Producers /\ t \notin Consumers /\ pc'[t] = "swing"
  BY <1>1 DEF QueueTypes, QueueSetting, ConsumerLabels
<1>5. ProducerIs(last, list, t)
  BY <1>3, <1>4 DEF QueueIs
<1>6. PICK n \in Ada!Heap \ {Ada!Initial} : n = <<t, left[t]>> /\ n = node[t] /\ n[1] = t /\ n[2] = left[t]
  BY <1>1, <1>4, <1>5, OwnNode DEF ProducerIs
<1>7. Filled(n) /\ Newest(Ada!Next(n)) = 2 /\ Shows(seen[t], n)
  BY <1>5, <1>6 DEF ProducerIs
<1>8. left[t] \in Nat
  BY <1>1 DEF QueueTypes
<1>9. ~OnList(last, list, n)
  BY <1>3, <1>6, <1>8 DEF QueueIs, NodesAre
<1>10. PICK m : m = myLast[t].ptr
  OBVIOUS
<1>11. OnList(last, list, m) /\ myNext[t] = Ada!Nowhere
  BY <1>5, <1>10 DEF ProducerIs
<1>12. PICK i \in 0 .. last : list[i] = m
  BY <1>11 DEF OnList
<1>13. m \in Ada!Heap /\ Ada!Next(m) \in QueueLocs /\ m # n
  BY <1>9, <1>11, <1>12, QueueLocations
<1>14. PICK desired : desired = Ada!Tagged(n, 1)
  OBVIOUS
<1>15. desired \in Values /\ desired = Ada!Tagged(node[t], myNext[t].count + 1)
  <2>1. myNext[t].count = 0
    BY <1>11 DEF Ada!Nowhere, Ada!Tagged
  <2> QED
    BY <1>6, <1>14, <2>1, Stored
<1>16. /\ Value(Ada!Next(m), Newest(Ada!Next(m))) = Ada!Nowhere
       /\ MemOK(QueueLocs)' /\ Learns(QueueLocs, t)
       /\ \E view \in [QueueLocs -> Nat] :
              /\ Added(QueueLocs, Ada!Next(m), desired, view)
              /\ \A loc \in QueueLocs : seen[t][loc] <= view[loc]
  BY <1>1, <1>10, <1>11, <1>13, <1>15, AdaSucceeds
<1>17. PICK view \in [QueueLocs -> Nat] :
              /\ Added(QueueLocs, Ada!Next(m), desired, view)
              /\ \A loc \in QueueLocs : seen[t][loc] <= view[loc]
  BY <1>16
<1>18. i = last
  <2> SUFFICES ASSUME i # last PROVE FALSE
    OBVIOUS
  <2>1. LinkedTo(m, list[i + 1]) /\ list[i + 1] \in Ada!Heap
    BY <1>3, <1>12 DEF QueueIs, ListIs
  <2>2. PICK h \in Ada!Heap : h = list[i + 1]
    BY <2>1
  <2>3. Value(Ada!Next(m), Newest(Ada!Next(m))) = Ada!Tagged(h, 1)
    BY <2>1, <2>2 DEF LinkedTo
  <2>4. Ada!Tagged(h, 1) # Ada!Nowhere
    BY Stored
  <2> QED
    BY <1>16, <2>3, <2>4
<1>19. Shows(view, n)
  <2>1. seen[t] \in [QueueLocs -> Nat]
    BY <1>1 DEF MemOK
  <2> QED
    BY <1>7, <1>17, <2>1, ShowsMore
<1>20. PICK list2 \in [Nat -> Ada!Heap] : list2 = [list EXCEPT ![last + 1] = n]
  OBVIOUS
<1>21. ListIs(last + 1, list2)'
  BY <1>3, <1>7, <1>9, <1>12, <1>14, <1>17, <1>18, <1>19, <1>20, ListGrows DEF QueueIs
<1>22. /\ Longer(last, list, last + 1, list2) /\ last + 1 \in Nat /\ list2[last + 1] = n
       /\ \A h : OnList(last + 1, list2, h) <=> OnList(last, list, h) \/ h = n
       /\ \A j \in 0 .. last + 1 : j = last + 1 \/ j \in 0 .. last
  BY <1>20 DEF Longer, OnList
<1>23. /\ written'[Ada!First] = written[Ada!First] /\ written'[Ada!List_Last] = written[Ada!List_Last]
       /\ Newest(Ada!First)' = Newest(Ada!First) /\ Newest(Ada!First) \in Nat
       /\ Newest(Ada!First) <= last + 1
       /\ \A h \in Ada!Heap : /\ written'[Ada!Element(h)] = written[Ada!Element(h)]
                              /\ h # m => written'[Ada!Next(h)] = written[Ada!Next(h)]
  BY <1>1, <1>3, <1>13, <1>17, QueueLocations DEF Added, Newest, MemOK, QueueIs, EndsAre
<1>24. EndsAre(last + 1, list2)'
  <2>1. \A j \in 1 .. Newest(Ada!First) : j - 1 \in 0 .. last /\ list2[j - 1] = list[j - 1]
    BY <1>22, <1>23 DEF Longer
  <2>2. ASSUME NEW j \in 1 .. Newest(Ada!First)
        PROVE  /\ written'[Ada!First][j].value = Ada!Tagged(list2[j - 1], j - 1)
               /\ Shows(written'[Ada!First][j].view, list2[j - 1])
    BY <1>3, <1>23, <2>1 DEF QueueIs, EndsAre, Value
  <2>3. ASSUME NEW j \in 1 .. Newest(Ada!List_Last)
        PROVE  /\ written'[Ada!List_Last][j].value \in Pointers
               /\ OnList(last + 1, list2, written'[Ada!List_Last][j].value.ptr)
               /\ Shows(written'[Ada!List_Last][j].view, written'[Ada!List_Last][j].value.ptr)
    BY <1>3, <1>22, <1>23 DEF QueueIs, EndsAre, Value
  <2>4. Newest(Ada!List_Last)' = Newest(Ada!List_Last) /\ Newest(Ada!First)' <= last + 1 + 1
    BY <1>22, <1>23 DEF Newest
  <2> QED
    BY <1>23, <2>2, <2>3, <2>4 DEF EndsAre, Value, Shows, OnList
<1>25. NodesAre(last + 1, list2)'
  <2>1. ASSUME NEW h \in Ada!Heap \ {Ada!Initial}
        PROVE  /\ OnList(last + 1, list2, h) <=> h[2] > left'[h[1]] \/ (h[2] = left'[h[1]] /\ pc'[h[1]] = "swing")
               /\ h[2] < left'[h[1]] \/ (h[2] = left'[h[1]] /\ pc'[h[1]] = "new") =>
                    Newest(Ada!Element(h))' = 1 /\ Newest(Ada!Next(h))' = 1
    <3>1. h[1] \in Threads /\ h = <<h[1], h[2]>> /\ left' = left
      BY Addresses DEF QueueSetting
    <3>2. OnList(last, list, h) <=> h[2] > left[h[1]] \/ (h[2] = left[h[1]] /\ pc[h[1]] = "swing")
      BY <1>3 DEF QueueIs, NodesAre
    <3>3. pc'[h[1]] = IF h[1] = t THEN "swing" ELSE pc[h[1]]
      BY <1>1, <3>1 DEF QueueTypes
    <3>4. h = n <=> h[1] = t /\ h[2] = left[t]
      BY <1>6, <3>1
    <3>5. OnList(last + 1, list2, h) <=> h[2] > left'[h[1]] \/ (h[2] = left'[h[1]] /\ pc'[h[1]] = "swing")
      BY <1>22, <3>1, <3>2, <3>3, <3>4
    <3>6. h = m => OnList(last, list, h)
      BY <1>11
    <3>7. ASSUME h[2] < left'[h[1]] \/ (h[2] = left'[h[1]] /\ pc'[h[1]] = "new")
          PROVE  Newest(Ada!Element(h))' = 1 /\ Newest(Ada!Next(h))' = 1
      <4>1. h[2] < left[h[1]] \/ (h[2] = left[h[1]] /\ pc[h[1]] = "new")
        BY <3>1, <3>3, <3>7
      <4>2. left[h[1]] \in Nat /\ h[2] \in Int
        BY <1>1, <3>1, Addresses DEF QueueTypes, QueueSetting
      <4>3. h # m
        BY <3>2, <3>6, <4>1, <4>2
      <4> QED
        BY <1>3, <1>23, <4>1, <4>3 DEF QueueIs, NodesAre, Newest
    <3> QED
      BY <3>5, <3>7
  <2>2. ASSUME NEW g \in 0 .. last + 1, NEW h \in 0 .. last + 1, g < h, list2[g][1] = list2[h][1]
        PROVE  list2[g][2] > list2[h][2]
    <3>1. g \in 0 .. last /\ list2[g] = list[g]
      BY <1>22, <2>2 DEF Longer
    <3>2. CASE h # last + 1
      <4>1. h \in 0 .. last /\ list2[h] = list[h]
        BY <1>22, <3>2 DEF Longer
      <4> QED
        BY <1>3, <2>2, <3>1, <4>1 DEF QueueIs, NodesAre
    <3>3. CASE h = last + 1
      <4>1. PICK a \in Ada!Heap : a = list[g]
        BY <3>1
      <4>2. a[1] = t /\ OnList(last, list, a)
        BY <1>6, <1>22, <2>2, <3>1, <3>3, <4>1 DEF OnList
      <4>3. a # Ada!Initial
        BY <4>2, Addresses
      <4>4. a[2] > left[t]
        BY <1>3, <4>2, <4>3 DEF QueueIs, NodesAre
      <4> QED
        BY <1>6, <1>22, <3>1, <3>3, <4>1, <4>4
    <3> QED
      BY <3>2, <3>3
  <2> QED
    BY <2>1, <2>2 DEF NodesAre, OnList, Newest
<1>26. Dequeued(list2)'
  <2>1. \A p \in 1 .. Newest(Ada!First) - 1 : p \in 0 .. last /\ list2[p] = list[p]
    BY <1>22, <1>23 DEF Longer
  <2>2. Newest(Ada!First)' = Newest(Ada!First) /\ got' = got
    BY <1>23
  <2> HIDE DEF Newest
  <2> QED
    BY <1>3, <2>1, <2>2 DEF QueueIs, Dequeued
<1>27. Alone(t)
  BY <1>1 DEF Alone, QueueTypes
<1>28. /\ \A u \in Producers \ {t} : ProducerIs(last + 1, list2, u)'
       /\ \A u \in Consumers \ {t} : ConsumerIs(last + 1, list2, u)'
  <2>1. \A u \in Producers \ {t} : Linking(u) =>
            /\ written'[Ada!Next(<<u, left[u]>>)] = written[Ada!Next(<<u, left[u]>>)]
            /\ written'[Ada!Element(<<u, left[u]>>)] = written[Ada!Element(<<u, left[u]>>)]
    <3> SUFFICES ASSUME NEW u \in Producers \ {t}, Linking(u)
                 PROVE  <<u, left[u]>> \in Ada!Heap /\ <<u, left[u]>> # m
      BY <1>23
    <3>1. pc[u] # "done" /\ pc[u] # "swing"
      BY DEF Linking
    <3>2. PICK h \in Ada!Heap \ {Ada!Initial} : h = <<u, left[u]>> /\ h[1] = u /\ h[2] = left[u]
      BY <1>1, <3>1, OwnNode
    <3>3. left[u] \in Nat
      BY <1>1 DEF QueueTypes, QueueSetting
    <3>4. ~OnList(last, list, h)
      BY <1>3, <3>1, <3>2, <3>3 DEF QueueIs, NodesAre
    <3> QED
      BY <1>11, <3>2, <3>4
  <2>2. Newest(Ada!First) <= Newest(Ada!First)'
    BY <1>23
  <2> QED
    BY <1>1, <1>3, <1>16, <1>22, <1>27, <2>1, <2>2, OthersStay
<1>29. ProducerIs(last + 1, list2, t)'
  <2>1. Shows(seen'[t], n)
    BY <1>1, <1>7, <1>16, ShownStays
  <2>2. node'[t] = n /\ n = <<t, left'[t]>>
    BY <1>6
  <2> QED
    BY <1>4, <2>1, <2>2 DEF ProducerIs
<1>30. QueueTypes'
  <2>1. PICK rest : rest = left[t]
    OBVIOUS
  <2>2. rest \in Nat /\ rest <= Share[t] /\ rest # 0 /\ left' = [left EXCEPT ![t] = rest]
    BY <1>1, <2>1 DEF QueueTypes
  <2> QED
    BY <1>1, <1>4, <1>16, <2>2, QueueTypesStay DEF QueueTypes, ProducerLabels
<1>31. QueueIs(last + 1, list2)'
  BY <1>4, <1>21, <1>24, <1>25, <1>26, <1>28, <1>29 DEF QueueIs
<1> QED
  BY <1>22, <1>30, <1>31 DEF QueueInv

LEMMA LinkKeeps == ASSUME QueueSetting, QueueInv, NEW t \in Threads, Ada!Link(t) PROVE QueueInv'
<1>1. /\ pc[t] = "link" /\ UNCHANGED <<left, node, myFirst, myLast, myNext, item, got>>
      /\ \/ /\ Ada!Succeeds(t, Ada!Next(myLast[t].ptr), myNext[t], Ada!Tagged(node[t], myNext[t].count + 1))
            /\ pc' = [pc EXCEPT ![t] = "swing"]
         \/ Ada!Fails(t, Ada!Next(myLast[t].ptr), myNext[t]) /\ pc' = [pc EXCEPT ![t] = "loadLast"]
  BY DEF Ada!Link, Ada!Goto, Ada!localVars
<1>2. CASE Ada!Succeeds(t, Ada!Next(myLast[t].ptr), myNext[t], Ada!Tagged(node[t], myNext[t].count + 1))
           /\ pc' = [pc EXCEPT ![t] = "swing"]
  BY <1>1, <1>2, LinkedKeeps
<1>3. CASE Ada!Fails(t, Ada!Next(myLast[t].ptr), myNext[t]) /\ pc' = [pc EXCEPT ![t] = "loadLast"]
  <2>1. QueueTypes
    BY DEF QueueInv
  <2>2. PICK last \in Nat : \E list \in [Nat -> Ada!Heap] : QueueIs(last, list)
    BY DEF QueueInv
  <2>3. PICK list \in [Nat -> Ada!Heap] : QueueIs(last, list)
    BY <2>2
  <2>4. t \in Producers /\ t \notin Consumers /\ pc'[t] = "loadLast"
    BY <1>1, <1>3, <2>1 DEF QueueTypes, QueueSetting, ConsumerLabels
  <2>5. ProducerIs(last, list, t)
    BY <2>3, <2>4 DEF QueueIs
  <2>6. PICK m : m = myLast[t].ptr
    OBVIOUS
  <2>7. m \in Ada!Heap
    BY <1>1, <2>5, <2>6 DEF ProducerIs, OnList
  <2>8. MemOK(QueueLocs)' /\ written' = written /\ Learns(QueueLocs, t)
    BY <1>3, <2>1, <2>6, <2>7, AdaFails, QueueLocations DEF QueueTypes
  <2>9. Alone(t)
    BY <1>1, <1>3, <2>1 DEF Alone, QueueTypes
  <2>10. ProducerIs(last, list, t)'
    <3>1. OwnIs(t)'
      BY <1>1, <2>1, <2>4, <2>5, <2>8, OwnStays
    <3> QED
      BY <2>4, <3>1 DEF ProducerIs, OwnIs
  <2> QED
    BY <1>1, <1>3, <2>1, <2>3, <2>4, <2>8, <2>9, <2>10, QuietKeeps DEF QueueTypes, ProducerLabels
<1> QED
  BY <1>1, <1>2, <1>3

LEMMA SwingKeeps == ASSUME QueueSetting, QueueInv, NEW t \in Threads, Ada!Swing(t) PROVE QueueInv'
<1>1. /\ pc[t] = "swing" /\ pc' = [pc EXCEPT ![t] = IF left[t] > 1 THEN "new" ELSE "done"]
      /\ left' = [left EXCEPT ![t] = @ - 1] /\ Ada!MoveLast(t, node[t]) /\ got' = got
      /\ node' = [node EXCEPT ![t] = Ada!Null] /\ item' = [item EXCEPT ![t] = Ada!Null]
      /\ myFirst' = [myFirst EXCEPT ![t] = Ada!Nowhere] /\ myLast' = [myLast EXCEPT ![t] = Ada!Nowhere]
      /\ myNext' = [myNext EXCEPT ![t] = Ada!Nowhere]
  BY DEF Ada!Swing, Ada!EndIteration, Ada!Goto, Ada!Forget, Ada!NoItem
<1>2. QueueTypes
  BY DEF QueueInv
<1>3. PICK last \in Nat : \E list \in [Nat -> Ada!Heap] : QueueIs(last, list)
  BY DEF QueueInv
<1>4. PICK list \in [Nat -> Ada!Heap] : QueueIs(last, list)
  BY <1>3
<1>5. t \in Producers /\ t \notin Consumers
  BY <1>1, <1>2 DEF QueueTypes, QueueSetting, ConsumerLabels
<1>6. PICK n \in Ada!Heap \ {Ada!Initial} : n = node[t] /\ n[1] = t /\ n[2] = left[t] /\ Shows(seen[t], n)
  <2>1. ProducerIs(last, list, t)
    BY <1>4, <1>5 DEF QueueIs
  <2> QED
    BY <1>1, <1>2, <1>5, <2>1, OwnNode DEF ProducerIs
<1>7. OnList(last, list, n)
  BY <1>1, <1>4, <1>6 DEF QueueIs, NodesAre
<1>8. /\ MemOK(QueueLocs)' /\ Learns(QueueLocs, t)
      /\ EndsAre(last, list)'
      /\ \A l \in QueueLocs \ {Ada!List_Last} : written'[l] = written[l]
  BY <1>1, <1>2, <1>4, <1>6, <1>7, LastMoves
<1>9. PICK rest \in Nat : /\ rest + 1 = left[t] /\ left' = [left EXCEPT ![t] = rest]
                          /\ rest <= Share[t]
  <2>1. left[t] \in Nat /\ left[t] # 0 /\ left[t] - 1 \in Nat /\ left[t] <= Share[t] /\ Share[t] \in Nat
    BY <1>1, <1>2 DEF QueueTypes, QueueSetting
  <2>2. PICK rest \in Nat : rest = left[t] - 1
    BY <2>1
  <2>3. rest + 1 = left[t] /\ rest <= Share[t] /\ left' = [left EXCEPT ![t] = rest]
    BY <1>1, <2>1, <2>2
  <2> QED
    BY <2>3
<1>10. PICK there \in {"new", "done"} : pc' = [pc EXCEPT ![t] = there] /\ (rest = 0 <=> there = "done")
  <2>1. (left[t] > 1) <=> rest # 0
    BY <1>9
  <2> QED
    BY <1>1, <2>1
<1>11. pc'[t] = there /\ left'[t] = rest
  BY <1>2, <1>9, <1>10 DEF QueueTypes
<1>12. Alone(t)
  BY <1>1, <1>2, <1>9, <1>10 DEF Alone, QueueTypes
<1>13. QueueTypes'
  <2>1. /\ node' \in [Threads -> Ada!Heap \cup {Ada!Null}] /\ item' \in [Threads -> Ada!Heap \cup {Ada!Null}]
        /\ myFirst' \in [Threads -> Pointers] /\ myLast' \in [Threads -> Pointers]
        /\ myNext' \in [Threads -> Pointers] /\ got' \in [Consumers -> Seq(Ada!Heap)]
    BY <1>1, <1>2, Stored DEF QueueTypes
  <2> QED
    BY <1>2, <1>5, <1>8, <1>9, <1>10, <2>1, QueueTypesStay DEF ProducerLabels
<1>14. /\ ListIs(last, list)'
       /\ Newest(Ada!First)' = Newest(Ada!First)
       /\ \A h \in Ada!Heap : /\ Newest(Ada!Next(h))' = Newest(Ada!Next(h))
                              /\ Newest(Ada!Element(h))' = Newest(Ada!Element(h))
  BY <1>4, <1>8, ListStays DEF QueueIs
<1>15. NodesAre(last, list)'
  <2> SUFFICES ASSUME NEW h \in Ada!Heap \ {Ada!Initial}
               PROVE  /\ OnList(last, list, h) <=> h[2] > left'[h[1]] \/ (h[2] = left'[h[1]] /\ pc'[h[1]] = "swing")
                      /\ h[2] < left'[h[1]] \/ (h[2] = left'[h[1]] /\ pc'[h[1]] = "new") =>
                           Newest(Ada!Element(h)) = 1 /\ Newest(Ada!Next(h)) = 1
    BY <1>4, <1>14 DEF QueueIs, NodesAre, OnList
  <2>1. h[1] \in Threads /\ h[2] \in Int
    BY Addresses DEF QueueSetting
  <2>2. CASE h[1] # t
    <3>1. left'[h[1]] = left[h[1]] /\ pc'[h[1]] = pc[h[1]]
      BY <1>12, <2>1, <2>2 DEF Alone
    <3> QED
      BY <1>4, <3>1 DEF QueueIs, NodesAre
  <2>3. CASE h[1] = t
    <3>1. OnList(last, list, h) <=> h[2] >= rest + 1
      BY <1>1, <1>4, <1>9, <2>1, <2>3 DEF QueueIs, NodesAre
    <3>2. h[2] < rest + 1 => Newest(Ada!Element(h)) = 1 /\ Newest(Ada!Next(h)) = 1
      BY <1>4, <1>9, <2>3 DEF QueueIs, NodesAre
    <3> QED
      BY <1>11, <2>1, <2>3, <3>1, <3>2
  <2> QED
    BY <2>2, <2>3
<1>16. Dequeued(list)'
  BY <1>1, <1>4, <1>14 DEF QueueIs, Dequeued
<1>17. /\ \A u \in Producers \ {t} : ProducerIs(last, list, u)'
       /\ \A u \in Consumers \ {t} : ConsumerIs(last, list, u)'
  <2>1. Longer(last, list, last, list)
    BY DEF Longer
  <2>2. Newest(Ada!First) <= Newest(Ada!First)'
    BY <1>2, <1>14, QueueLocations DEF QueueTypes, MemOK
  <2>3. \A u \in Producers \ {t} : Linking(u) =>
            /\ written'[Ada!Next(<<u, left[u]>>)] = written[Ada!Next(<<u, left[u]>>)]
            /\ written'[Ada!Element(<<u, left[u]>>)] = written[Ada!Element(<<u, left[u]>>)]
    <3> SUFFICES ASSUME NEW u \in Producers, Linking(u)
                 PROVE  <<u, left[u]>> \in Ada!Heap
      BY <1>8, QueueLocations
    <3>1. pc[u] # "done"
      BY DEF Linking
    <3> QED
      BY <1>2, <3>1, OwnNode
  <2> QED
    BY <1>2, <1>4, <1>8, <1>12, <2>1, <2>2, <2>3, OthersStay
<1>18. ProducerIs(last, list, t)'
  BY <1>11 DEF ProducerIs
<1>19. QueueIs(last, list)'
  BY <1>5, <1>8, <1>14, <1>15, <1>16, <1>17, <1>18 DEF QueueIs
<1> QED
  BY <1>13, <1>19 DEF QueueInv


\* An item is taken.
LEMMA TakenKeeps ==
  ASSUME NEW last \in Nat, NEW list \in [Nat -> Ada!Heap], Dequeued(list),
         got \in [Consumers -> Seq(Ada!Heap)], NEW t \in Consumers,
         Newest(Ada!First) \in Nat \ {0}, Newest(Ada!First) <= last,
         \A i, j \in 0 .. last : list[i] = list[j] => i = j,
         Newest(Ada!First)' = Newest(Ada!First) + 1,
         got' = [got EXCEPT ![t] = Append(@, list[Newest(Ada!First)])]
  PROVE  Dequeued(list)' /\ got' \in [Consumers -> Seq(Ada!Heap)]
<1>1. PICK first \in Nat \ {0} : first = Newest(Ada!First) /\ first <= last /\ Newest(Ada!First)' = first + 1
  OBVIOUS
<1>2. PICK s \in Seq(Ada!Heap) : s = got[t]
  OBVIOUS
<1>3. PICK n \in Ada!Heap : n = list[first]
  BY <1>1
<1>4. PICK s2 : s2 = Append(s, n)
  OBVIOUS
<1>5. /\ s2 \in Seq(Ada!Heap) /\ Len(s2) = Len(s) + 1 /\ Len(s) \in Nat
      /\ DOMAIN s = 1 .. Len(s) /\ DOMAIN s2 = 1 .. Len(s) + 1
      /\ \A i \in DOMAIN s : i \in DOMAIN s2 /\ s2[i] = s[i]
      /\ s2[Len(s) + 1] = n
      /\ \A i \in DOMAIN s2 : i \in DOMAIN s \/ i = Len(s) + 1
  BY <1>4
<1>6. /\ got' = [got EXCEPT ![t] = s2] /\ got'[t] = s2 /\ \A c \in Consumers : c # t => got'[c] = got[c]
      /\ got' \in [Consumers -> Seq(Ada!Heap)]
  BY <1>1, <1>2, <1>3, <1>4, <1>5
<1>7. \A p \in 1 .. first - 1 : p \in 1 .. first /\ p \in 0 .. last /\ p < first /\ p # first
  BY <1>1
<1>8. first \in 1 .. first /\ first \in 0 .. last /\ \A p \in 1 .. first : p = first \/ p \in 1 .. first - 1
  BY <1>1
<1>9. \A c \in Consumers : \A i \in DOMAIN got[c] : \E p \in 1 .. first - 1 : got[c][i] = list[p]
  BY <1>1 DEF Dequeued
<1>10. \A c \in Consumers : \A i, j \in DOMAIN got[c] : \A p, q \in 1 .. first - 1 :
         i < j /\ got[c][i] = list[p] /\ got[c][j] = list[q] => p < q
  <2>1. 1 .. Newest(Ada!First) - 1 = 1 .. first - 1
    BY <1>1
  <2> QED
    BY <2>1 DEF Dequeued
<1>11. \A c \in Consumers : \A i \in DOMAIN got[c] : got[c][i] # n
  BY <1>3, <1>7, <1>8, <1>9
<1>12. \A c \in Consumers : \A i \in DOMAIN got'[c] :
         \/ i \in DOMAIN got[c] /\ got'[c][i] = got[c][i]
         \/ c = t /\ i = Len(s) + 1 /\ got'[c][i] = n
  BY <1>2, <1>5, <1>6
<1>13. \A c \in Consumers : \A i \in DOMAIN got'[c] : \E p \in 1 .. first : got'[c][i] = list[p]
  <2> SUFFICES ASSUME NEW c \in Consumers, NEW i \in DOMAIN got'[c]
               PROVE  \E p \in 1 .. first : got'[c][i] = list[p]
    OBVIOUS
  <2>1. CASE i \in DOMAIN got[c] /\ got'[c][i] = got[c][i]
    BY <1>7, <1>9, <2>1
  <2>2. CASE c = t /\ i = Len(s) + 1 /\ got'[c][i] = n
    BY <1>3, <1>8, <2>2
  <2> QED
    BY <1>12, <2>1, <2>2
<1>14. \A c, d \in Consumers : \A i \in DOMAIN got'[c], j \in DOMAIN got'[d] :
         got'[c][i] = got'[d][j] => c = d /\ i = j
  <2> SUFFICES ASSUME NEW c \in Consumers, NEW d \in Consumers, NEW i \in DOMAIN got'[c],
                      NEW j \in DOMAIN got'[d], got'[c][i] = got'[d][j]
               PROVE  c = d /\ i = j
    OBVIOUS
  <2>1. CASE i \in DOMAIN got[c] /\ got'[c][i] = got[c][i]
    <3>1. CASE j \in DOMAIN got[d] /\ got'[d][j] = got[d][j]
      BY <2>1, <3>1 DEF Dequeued
    <3>2. CASE d = t /\ j = Len(s) + 1 /\ got'[d][j] = n
      BY <1>11, <2>1, <3>2
    <3> QED
      BY <1>12, <3>1, <3>2
  <2>2. CASE c = t /\ i = Len(s) + 1 /\ got'[c][i] = n
    <3>1. CASE j \in DOMAIN got[d] /\ got'[d][j] = got[d][j]
      BY <1>11, <2>2, <3>1
    <3>2. CASE d = t /\ j = Len(s) + 1 /\ got'[d][j] = n
      BY <2>2, <3>2
    <3> QED
      BY <1>12, <3>1, <3>2
  <2> QED
    BY <1>12, <2>1, <2>2
<1>15. \A c \in Consumers : \A i, j \in DOMAIN got'[c] : \A p, q \in 1 .. first :
         i < j /\ got'[c][i] = list[p] /\ got'[c][j] = list[q] => p < q
  <2> SUFFICES ASSUME NEW c \in Consumers, NEW i \in DOMAIN got'[c], NEW j \in DOMAIN got'[c],
                      NEW p \in 1 .. first, NEW q \in 1 .. first,
                      i < j, got'[c][i] = list[p], got'[c][j] = list[q]
               PROVE  p < q
    OBVIOUS
  <2>1. CASE i \in DOMAIN got[c] /\ got'[c][i] = got[c][i]
    <3>1. p # first
      BY <1>3, <1>11, <2>1
    <3>2. p \in 1 .. first - 1
      BY <1>8, <3>1
    <3>3. CASE j \in DOMAIN got[c] /\ got'[c][j] = got[c][j]
      <4>1. q # first
        BY <1>3, <1>11, <3>3
      <4>2. q \in 1 .. first - 1
        BY <1>8, <4>1
      <4> QED
        BY <1>10, <2>1, <3>2, <3>3, <4>2
    <3>4. CASE c = t /\ j = Len(s) + 1 /\ got'[c][j] = n
      <4>1. q \in 0 .. last
        BY <1>1
      <4>2. q = first
        BY <1>3, <1>8, <3>4, <4>1
      <4> QED
        BY <1>7, <3>2, <4>2
    <3> QED
      BY <1>12, <3>3, <3>4
  <2>2. CASE c = t /\ i = Len(s) + 1 /\ got'[c][i] = n
    <3>1. j \in 1 .. Len(s) + 1
      BY <1>5, <1>6, <2>2
    <3> QED
      BY <1>5, <2>2, <3>1
  <2> QED
    BY <1>12, <2>1, <2>2
<1>16. 1 .. (Newest(Ada!First)' - 1) = 1 .. first
  BY <1>1
<1>17. \A c \in Consumers : \A i \in DOMAIN got'[c] : \E p \in 1 .. Newest(Ada!First)' - 1 : got'[c][i] = list[p]
  BY <1>13, <1>16
<1>18. \A c \in Consumers : \A i, j \in DOMAIN got'[c] : \A p, q \in 1 .. Newest(Ada!First)' - 1 :
         i < j /\ got'[c][i] = list[p] /\ got'[c][j] = list[q] => p < q
  BY <1>15, <1>16
<1>19. Dequeued(list)'
  BY ONLY <1>14, <1>17, <1>18 DEF Dequeued
<1> QED
  BY <1>6, <1>19

\* The exchange of List.First that takes an item.
LEMMA AdvancedKeeps ==
  ASSUME QueueSetting, QueueInv, NEW t \in Threads,
         Ada!Succeeds(t, Ada!First, myFirst[t], Ada!Tagged(myNext[t].ptr, myFirst[t].count + 1)),
         Ada!EndIteration(t, "advance", "first"),
         got' = [got EXCEPT ![t] = Append(@, item[t])], Ada!Forget(t)
  PROVE  QueueInv'
<1>1. /\ pc[t] = "advance" /\ pc' = [pc EXCEPT ![t] = IF left[t] > 1 THEN "first" ELSE "done"]
      /\ left' = [left EXCEPT ![t] = @ - 1]
      /\ node' = [node EXCEPT ![t] = Ada!Null] /\ item' = [item EXCEPT ![t] = Ada!Null]
      /\ myFirst' = [myFirst EXCEPT ![t] = Ada!Nowhere] /\ myLast' = [myLast EXCEPT ![t] = Ada!Nowhere]
      /\ myNext' = [myNext EXCEPT ![t] = Ada!Nowhere]
  BY DEF Ada!EndIteration, Ada!Goto, Ada!Forget, Ada!NoItem
<1>2. QueueTypes /\ MemOK(QueueLocs) /\ Ada!First \in QueueLocs
  BY QueueLocations DEF QueueInv, QueueTypes
<1>3. PICK last \in Nat : \E list \in [Nat -> Ada!Heap] : QueueIs(last, list)
  BY DEF QueueInv
<1>4. PICK list \in [Nat -> Ada!Heap] : QueueIs(last, list)
  BY <1>3
<1>5. t \in Consumers /\ t \notin Producers
  BY <1>1, <1>2 DEF QueueTypes, QueueSetting, ProducerLabels
<1>6. PICK i \in 0 .. last : \E n \in Ada!Heap \ {Ada!Initial} :
           /\ i # last /\ n = list[i + 1] /\ myNext[t].ptr = n
           /\ i = myFirst[t].count /\ Shows(seen[t], n)
  <2>1. pc[t] \in {"help", "read", "advance"}
    BY <1>1
  <2>2. \E i \in 0 .. last : \E n \in Ada!Heap \ {Ada!Initial} :
           /\ i # last /\ n = list[i + 1] /\ myNext[t].ptr = n
           /\ i = myFirst[t].count /\ OnList(last, list, n) /\ Shows(seen[t], n)
    BY <1>2, <1>4, <1>5, <2>1, NextIs
  <2> QED
    BY <2>2
<1>7. PICK n \in Ada!Heap \ {Ada!Initial} :
           /\ i # last /\ n = list[i + 1] /\ myNext[t].ptr = n
           /\ i = myFirst[t].count /\ Shows(seen[t], n)
  BY <1>6
<1>8. item[t] = n
  BY <1>1, <1>4, <1>5, <1>7 DEF QueueIs, ConsumerIs
<1>9. PICK desired : desired = Ada!Tagged(n, i + 1)
  OBVIOUS
<1>10. desired \in Values
  BY <1>9, Stored
<1>11. /\ Value(Ada!First, Newest(Ada!First)) = myFirst[t]
       /\ MemOK(QueueLocs)' /\ Learns(QueueLocs, t)
       /\ \E view \in [QueueLocs -> Nat] :
              /\ Added(QueueLocs, Ada!First, desired, view)
              /\ \A loc \in QueueLocs : seen[t][loc] <= view[loc]
  <2>1. Ada!Succeeds(t, Ada!First, myFirst[t], desired)
    BY <1>7, <1>9
  <2> QED
    BY <1>2, <1>10, <2>1, AdaSucceeds
<1>12. PICK view \in [QueueLocs -> Nat] :
              /\ Added(QueueLocs, Ada!First, desired, view)
              /\ \A loc \in QueueLocs : seen[t][loc] <= view[loc]
  BY <1>11
<1>13. Newest(Ada!First) = i + 1 /\ i + 1 <= last /\ i + 1 \in Nat \ {0}
  <2>1. Newest(Ada!First) \in Nat \ {0}
    BY <1>2 DEF MemOK
  <2>2. PICK first \in Nat \ {0} : first = Newest(Ada!First)
    BY <2>1
  <2>3. first \in 1 .. first /\ first - 1 \in Nat
    BY <2>2
  <2>4. Value(Ada!First, first) = Ada!Tagged(list[first - 1], first - 1)
    BY <1>4, <2>2, <2>3 DEF QueueIs, EndsAre
  <2>5. PICK h \in Ada!Heap : h = list[first - 1]
    BY <2>3
  <2>6. myFirst[t].count = first - 1
    BY <1>11, <2>2, <2>3, <2>4, <2>5, Stored
  <2> QED
    BY <1>7, <2>2, <2>6
<1>14. Shows(view, n)
  <2>1. seen[t] \in [QueueLocs -> Nat]
    BY <1>2 DEF MemOK
  <2> QED
    BY <1>7, <1>12, <2>1, ShowsMore
<1>15. /\ Newest(Ada!First)' = i + 2
       /\ written'[Ada!First][i + 2].value = desired /\ written'[Ada!First][i + 2].view = view
       /\ \A j \in 1 .. i + 1 : written'[Ada!First][j] = written[Ada!First][j]
       /\ \A l \in QueueLocs \ {Ada!First} : written'[l] = written[l]
  BY <1>12, <1>13 DEF Added
<1>16. /\ written'[Ada!List_Last] = written[Ada!List_Last]
       /\ \A h \in Ada!Heap : /\ written'[Ada!Next(h)] = written[Ada!Next(h)]
                              /\ written'[Ada!Element(h)] = written[Ada!Element(h)]
  BY <1>15, QueueLocations
<1>17. ListIs(last, list)'
  <2>1. \A j \in 0 .. last : list[j] \in Ada!Heap /\ (j # last => j + 1 \in 0 .. last)
    OBVIOUS
  <2>2. \A h \in Ada!Heap : Filled(h) => Filled(h)'
    BY <1>16 DEF Filled, Newest, Value, Base
  <2>3. \A g, h \in Ada!Heap : LinkedTo(g, h) => LinkedTo(g, h)'
    BY <1>16 DEF LinkedTo, Newest, Value, Base, Shows
  <2>4. \A j \in 0 .. last : list[j] \in Ada!Heap /\ Filled(list[j])'
    BY <1>4, <2>1, <2>2 DEF QueueIs, ListIs
  <2>5. \A j \in 0 .. last : j # last => LinkedTo(list[j], list[j + 1])'
    BY <1>4, <2>1, <2>3 DEF QueueIs, ListIs
  <2>6. (Newest(Ada!Next(list[last])) = Base(list[last]))'
    BY <1>4, <1>16, <2>1 DEF QueueIs, ListIs, Newest, Base
  <2> QED
    BY <1>4, <2>4, <2>5, <2>6 DEF QueueIs, ListIs
<1>18. EndsAre(last, list)'
  <2>1. ASSUME NEW j \in 1 .. i + 2
        PROVE  /\ written'[Ada!First][j].value = Ada!Tagged(list[j - 1], j - 1)
               /\ Shows(written'[Ada!First][j].view, list[j - 1])
    <3>1. CASE j = i + 2
      <4>1. j - 1 = i + 1
        BY <3>1
      <4> QED
        BY <1>7, <1>9, <1>14, <1>15, <3>1, <4>1
    <3>2. CASE j # i + 2
      <4>1. j \in 1 .. i + 1 /\ written'[Ada!First][j] = written[Ada!First][j]
        BY <1>15, <3>2
      <4> QED
        BY <1>4, <1>13, <4>1 DEF QueueIs, EndsAre, Value
    <3> QED
      BY <3>1, <3>2
  <2>2. i + 2 <= last + 1
    BY <1>13
  <2>3. \A m \in 1 .. Newest(Ada!List_Last) :
           /\ written'[Ada!List_Last][m].value \in Pointers
           /\ OnList(last, list, written'[Ada!List_Last][m].value.ptr)
           /\ Shows(written'[Ada!List_Last][m].view, written'[Ada!List_Last][m].value.ptr)
    BY <1>4, <1>16 DEF QueueIs, EndsAre, Value
  <2>4. Newest(Ada!List_Last)' = Newest(Ada!List_Last)
    BY <1>16 DEF Newest
  <2> QED
    BY <1>15, <2>1, <2>2, <2>3, <2>4 DEF EndsAre, Value, Shows, OnList
<1>19. Dequeued(list)' /\ got' \in [Consumers -> Seq(Ada!Heap)]
  <2>1. got \in [Consumers -> Seq(Ada!Heap)]
    BY <1>2 DEF QueueTypes
  <2>2. got' = [got EXCEPT ![t] = Append(@, list[Newest(Ada!First)])]
    BY <1>7, <1>8, <1>13
  <2>3. \A a, b \in 0 .. last : list[a] = list[b] => a = b
    BY <1>4 DEF QueueIs, ListIs
  <2>4. Newest(Ada!First)' = Newest(Ada!First) + 1 /\ Newest(Ada!First) \in Nat \ {0} /\ Newest(Ada!First) <= last
    BY <1>13, <1>15
  <2> QED
    BY <1>4, <1>5, <2>1, <2>2, <2>3, <2>4, TakenKeeps DEF QueueIs
<1>20. PICK rest \in Nat : /\ rest + 1 = left[t] /\ left' = [left EXCEPT ![t] = rest]
                           /\ rest <= Share[t]
  <2>1. left[t] \in Nat /\ left[t] # 0 /\ left[t] - 1 \in Nat /\ left[t] <= Share[t] /\ Share[t] \in Nat
    BY <1>1, <1>2 DEF QueueTypes, QueueSetting
  <2>2. PICK rest \in Nat : rest = left[t] - 1
    BY <2>1
  <2>3. rest + 1 = left[t] /\ rest <= Share[t] /\ left' = [left EXCEPT ![t] = rest]
    BY <1>1, <2>1, <2>2
  <2> QED
    BY <2>3
<1>21. PICK there \in {"first", "done"} : pc' = [pc EXCEPT ![t] = there] /\ (rest = 0 <=> there = "done")
  <2>1. (left[t] > 1) <=> rest # 0
    BY <1>20
  <2> QED
    BY <1>1, <2>1
<1>22. pc'[t] = there
  BY <1>2, <1>21 DEF QueueTypes
<1>23. Alone(t)
  BY <1>1, <1>2, <1>20, <1>21 DEF Alone, QueueTypes
<1>24. QueueTypes'
  <2>1. /\ node' \in [Threads -> Ada!Heap \cup {Ada!Null}] /\ item' \in [Threads -> Ada!Heap \cup {Ada!Null}]
        /\ myFirst' \in [Threads -> Pointers] /\ myLast' \in [Threads -> Pointers]
        /\ myNext' \in [Threads -> Pointers]
    BY <1>1, <1>2, Stored DEF QueueTypes
  <2> QED
    BY <1>2, <1>5, <1>11, <1>19, <1>20, <1>21, <2>1, QueueTypesStay DEF ConsumerLabels
<1>25. NodesAre(last, list)'
  <2>1. \A h \in Ada!Heap : /\ Newest(Ada!Next(h))' = Newest(Ada!Next(h))
                            /\ Newest(Ada!Element(h))' = Newest(Ada!Element(h))
    BY <1>16 DEF Newest
  <2> QED
    BY <1>2, <1>4, <1>5, <1>23, <2>1, NodesStay DEF QueueIs
<1>26. /\ \A u \in Producers \ {t} : ProducerIs(last, list, u)'
       /\ \A u \in Consumers \ {t} : ConsumerIs(last, list, u)'
  <2>1. Longer(last, list, last, list)
    BY DEF Longer
  <2>2. Newest(Ada!First) <= Newest(Ada!First)'
    BY <1>13, <1>15
  <2>3. \A u \in Producers \ {t} : Linking(u) =>
            /\ written'[Ada!Next(<<u, left[u]>>)] = written[Ada!Next(<<u, left[u]>>)]
            /\ written'[Ada!Element(<<u, left[u]>>)] = written[Ada!Element(<<u, left[u]>>)]
    <3> SUFFICES ASSUME NEW u \in Producers, Linking(u)
                 PROVE  <<u, left[u]>> \in Ada!Heap
      BY <1>16
    <3>1. pc[u] # "done"
      BY DEF Linking
    <3> QED
      BY <1>2, <3>1, OwnNode
  <2> QED
    BY <1>2, <1>4, <1>11, <1>23, <2>1, <2>2, <2>3, OthersStay
<1>27. ConsumerIs(last, list, t)'
  BY <1>22 DEF ConsumerIs
<1>28. QueueIs(last, list)'
  BY <1>5, <1>17, <1>18, <1>19, <1>25, <1>26, <1>27 DEF QueueIs
<1> QED
  BY <1>24, <1>28 DEF QueueInv

LEMMA AdvanceKeeps == ASSUME QueueSetting, QueueInv, NEW t \in Threads, Ada!Advance(t) PROVE QueueInv'
<1>1. CASE /\ Ada!Succeeds(t, Ada!First, myFirst[t], Ada!Tagged(myNext[t].ptr, myFirst[t].count + 1))
           /\ Ada!EndIteration(t, "advance", "first")
           /\ got' = [got EXCEPT ![t] = Append(@, item[t])]
           /\ Ada!Forget(t)
  BY <1>1, AdvancedKeeps
<1>2. CASE /\ Ada!Fails(t, Ada!First, myFirst[t])
           /\ Ada!Goto(t, "advance", "first")
           /\ UNCHANGED <<left, Ada!localVars, got>>
  <2>1. /\ pc[t] = "advance" /\ pc' = [pc EXCEPT ![t] = "first"]
        /\ UNCHANGED <<left, node, myFirst, myLast, myNext, item, got>>
    BY <1>2 DEF Ada!Goto, Ada!localVars
  <2>2. QueueTypes
    BY DEF QueueInv
  <2>3. PICK last \in Nat : \E list \in [Nat -> Ada!Heap] : QueueIs(last, list)
    BY DEF QueueInv
  <2>4. PICK list \in [Nat -> Ada!Heap] : QueueIs(last, list)
    BY <2>3
  <2>5. t \in Consumers /\ t \notin Producers /\ pc'[t] = "first"
    BY <2>1, <2>2 DEF QueueTypes, QueueSetting, ProducerLabels
  <2>6. MemOK(QueueLocs)' /\ written' = written /\ Learns(QueueLocs, t)
    BY <1>2, <2>2, AdaFails, QueueLocations DEF QueueTypes
  <2>7. Alone(t)
    BY <2>1, <2>2 DEF Alone, QueueTypes
  <2>8. ConsumerIs(last, list, t)'
    BY <2>5 DEF ConsumerIs
  <2> QED
    BY <2>1, <2>2, <2>4, <2>5, <2>6, <2>7, <2>8, QuietKeeps DEF QueueTypes, ConsumerLabels
<1> QED
  BY <1>1, <1>2 DEF Ada!Advance

\* The beginning.
LEMMA QueueInitHolds == ASSUME QueueSetting, Ada!Init PROVE QueueInv
<1> DEFINE none == [loc \in QueueLocs |-> 0]
           initial(l) == CASE l \in {Ada!First, Ada!List_Last} -> Ada!Tagged(Ada!Initial, 0)
                           [] l[1] = "next" -> IF l[2] = Ada!Initial THEN Ada!Nowhere ELSE Ada!Garbage
                           [] l[1] = "element" -> Ada!NoItem
<1>1. /\ pc = [t \in Threads |-> IF Share[t] = 0 THEN "done" ELSE IF t \in Producers THEN "new" ELSE "first"]
      /\ left = Share
      /\ written = [l \in QueueLocs |-> <<[value |-> initial(l), view |-> none]>>]
      /\ seen = [t \in Threads |-> [l \in QueueLocs |-> 1]]
      /\ node = [t \in Threads |-> Ada!Null] /\ item = [t \in Threads |-> Ada!Null]
      /\ myFirst = [t \in Threads |-> Ada!Nowhere] /\ myLast = [t \in Threads |-> Ada!Nowhere]
      /\ myNext = [t \in Threads |-> Ada!Nowhere] /\ got = [t \in Consumers |-> <<>>]
  <2>1. Ada!Threads = Threads
    BY DEF Ada!Threads, QueueSetting
  <2>2. Ada!MemoryInit(Threads, [l \in QueueLocs |-> initial(l)])
    BY <2>1 DEF Ada!Init, QueueLocs
  <2> HIDE DEF initial
  <2>4. PICK f : f = [l \in QueueLocs |-> initial(l)]
    OBVIOUS
  <2>5. DOMAIN f = QueueLocs /\ \A l \in QueueLocs : f[l] = initial(l)
    BY <2>4
  <2>6. Ada!MemoryInit(Threads, f)
    BY <2>2, <2>4
  <2>7. /\ written = [l \in QueueLocs |-> <<[value |-> f[l], view |-> [loc \in QueueLocs |-> 0]]>>]
        /\ seen = [t \in Threads |-> [l \in QueueLocs |-> 1]]
    BY <2>5, <2>6 DEF Ada!MemoryInit
  <2>3. /\ written = [l \in QueueLocs |-> <<[value |-> initial(l), view |-> none]>>]
        /\ seen = [t \in Threads |-> [l \in QueueLocs |-> 1]]
    BY <2>5, <2>7
  <2> HIDE DEF none
  <2> QED
    BY <2>1, <2>3 DEF Ada!Init, Ada!NoItem
<1>2. /\ initial(Ada!First) = Ada!Tagged(Ada!Initial, 0) /\ initial(Ada!List_Last) = Ada!Tagged(Ada!Initial, 0)
      /\ \A n \in Ada!Heap :
           /\ initial(Ada!Next(n)) = (IF n = Ada!Initial THEN Ada!Nowhere ELSE Ada!Garbage)
           /\ initial(Ada!Element(n)) = Ada!Null
  <2>1. \A n \in Ada!Heap : /\ Ada!Next(n) \notin {Ada!First, Ada!List_Last}
                            /\ Ada!Element(n) \notin {Ada!First, Ada!List_Last}
                            /\ Ada!Next(n)[1] = "next" /\ Ada!Next(n)[2] = n
                            /\ Ada!Element(n)[1] = "element" /\ Ada!Element(n)[1] # "next"
    BY QueueLocations DEF Ada!Next, Ada!Element
  <2>2. /\ initial(Ada!First) = Ada!Tagged(Ada!Initial, 0)
        /\ initial(Ada!List_Last) = Ada!Tagged(Ada!Initial, 0)
    <3>1. Ada!First[1] \notin {"next", "element"} /\ Ada!List_Last[1] \notin {"next", "element"}
      BY DEF Ada!First, Ada!List_Last
    <3>2. ASSUME NEW l, l \in {Ada!First, Ada!List_Last}, l[1] \notin {"next", "element"}
          PROVE  initial(l) = Ada!Tagged(Ada!Initial, 0)
      BY <3>2
    <3> QED
      BY <3>1, <3>2
  <2>3. ASSUME NEW n \in Ada!Heap
        PROVE  initial(Ada!Next(n)) = (IF n = Ada!Initial THEN Ada!Nowhere ELSE Ada!Garbage)
    <3>1. PICK l : l = Ada!Next(n)
      OBVIOUS
    <3>2. ~(l \in {Ada!First, Ada!List_Last}) /\ l[1] = "next" /\ l[2] = n
      BY <2>1, <3>1
    <3>3. initial(l) = IF l[2] = Ada!Initial THEN Ada!Nowhere ELSE Ada!Garbage
      BY <3>2
    <3> QED
      BY <3>1, <3>2, <3>3
  <2>4. ASSUME NEW n \in Ada!Heap
        PROVE  initial(Ada!Element(n)) = Ada!Null
    <3>1. PICK l : l = Ada!Element(n)
      OBVIOUS
    <3>2. ~(l \in {Ada!First, Ada!List_Last}) /\ ~(l[1] = "next") /\ l[1] = "element"
      BY <2>1, <3>1
    <3>3. initial(l) = Ada!Null
      BY <3>2 DEF Ada!NoItem
    <3> QED
      BY <3>1, <3>3
  <2> QED
    BY <2>2, <2>3, <2>4
<1>3. \A l \in QueueLocs : initial(l) \in Values
  <2>1. /\ Ada!Tagged(Ada!Initial, 0) \in Values /\ Ada!Nowhere \in Values /\ Ada!Garbage \in Values
        /\ Ada!Null \in Values
    BY Stored, Addresses
  <2> SUFFICES ASSUME NEW l \in QueueLocs PROVE initial(l) \in Values
    OBVIOUS
  <2> HIDE DEF initial
  <2>2. CASE l \in {Ada!First, Ada!List_Last}
    BY <1>2, <2>1, <2>2
  <2>3. CASE \E n \in Ada!Heap : l = Ada!Next(n)
    BY <1>2, <2>1, <2>3
  <2>4. CASE \E n \in Ada!Heap : l = Ada!Element(n)
    BY <1>2, <2>1, <2>4
  <2> QED
    BY <2>2, <2>3, <2>4 DEF QueueLocs
<1>4. none \in [QueueLocs -> Nat] /\ \A l \in QueueLocs : none[l] = 0
  OBVIOUS
<1> HIDE DEF initial, none
<1>5. \A l \in QueueLocs : /\ written[l] = <<[value |-> initial(l), view |-> none]>>
                           /\ [value |-> initial(l), view |-> none] \in MessagesOf(QueueLocs)
  BY <1>1, <1>3, <1>4 DEF MessagesOf
<1>6. \A l \in QueueLocs : /\ Newest(l) = 1 /\ Value(l, 1) = initial(l) /\ written[l][1].view = none
                           /\ written[l] \in Seq(MessagesOf(QueueLocs))
  <2> SUFFICES ASSUME NEW l \in QueueLocs
               PROVE  /\ Newest(l) = 1 /\ Value(l, 1) = initial(l) /\ written[l][1].view = none
                      /\ written[l] \in Seq(MessagesOf(QueueLocs))
    OBVIOUS
  <2>1. PICK m \in MessagesOf(QueueLocs) : m = [value |-> initial(l), view |-> none]
    BY <1>5
  <2>2. written[l] = <<m>>
    BY <1>5, <2>1
  <2>3. Len(written[l]) = 1 /\ written[l][1] = m /\ written[l] \in Seq(MessagesOf(QueueLocs))
    BY <2>2
  <2> QED
    BY <2>1, <2>3 DEF Newest, Value
<1>7. written \in [QueueLocs -> Seq(MessagesOf(QueueLocs))]
  <2>1. \A l \in QueueLocs : <<[value |-> initial(l), view |-> none]>> \in Seq(MessagesOf(QueueLocs))
    BY <1>5, <1>6
  <2> QED
    BY <1>1, <2>1
<1>8. MemOK(QueueLocs)
  <2>1. seen \in [Threads -> [QueueLocs -> Nat]] /\ \A t \in Threads : \A l \in QueueLocs : seen[t][l] = 1
    BY <1>1
  <2>2. \A l \in QueueLocs : \A p \in 1 .. Newest(l) : \A loc \in QueueLocs : written[l][p].view[loc] <= Newest(loc)
    <3> SUFFICES ASSUME NEW l \in QueueLocs, NEW p \in 1 .. Newest(l), NEW loc \in QueueLocs
                 PROVE  written[l][p].view[loc] <= Newest(loc)
      OBVIOUS
    <3>1. p = 1
      BY <1>6
    <3> QED
      BY <1>4, <1>6, <3>1
  <2> QED
    BY <1>6, <1>7, <2>1, <2>2 DEF MemOK
<1>9. QueueTypes
  <2>1. Producers \subseteq Threads /\ Consumers \subseteq Threads /\ Producers \cap Consumers = {} /\ Share \in [Threads -> Nat]
        /\ Producers \cup Consumers = Threads
    BY DEF QueueSetting
  <2>2. /\ pc \in [Threads -> ProducerLabels \cup ConsumerLabels]
        /\ \A t \in Producers : pc[t] \in ProducerLabels
        /\ \A t \in Consumers : pc[t] \in ConsumerLabels
        /\ \A t \in Threads : left[t] = 0 <=> pc[t] = "done"
    BY <1>1, <2>1 DEF ProducerLabels, ConsumerLabels
  <2>3. left \in [Threads -> Nat] /\ \A t \in Threads : left[t] <= Share[t]
    BY <1>1, <2>1
  <2>4. Ada!Nowhere \in Pointers
    BY Stored
  <2> QED
    BY <1>1, <1>8, <2>2, <2>3, <2>4 DEF QueueTypes
<1>10. PICK list \in [Nat -> Ada!Heap] : list = [i \in Nat |-> Ada!Initial]
  BY Addresses
<1>11. list[0] = Ada!Initial /\ \A i \in 0 .. 0 : i = 0
  BY <1>10
<1>12. /\ Newest(Ada!Next(Ada!Initial)) = 1 /\ Value(Ada!Next(Ada!Initial), 1) = Ada!Nowhere
       /\ Newest(Ada!First) = 1 /\ Value(Ada!First, 1) = Ada!Tagged(Ada!Initial, 0)
       /\ Newest(Ada!List_Last) = 1 /\ Value(Ada!List_Last, 1) = Ada!Tagged(Ada!Initial, 0)
       /\ \A n \in Ada!Heap : Newest(Ada!Element(n)) = 1 /\ Newest(Ada!Next(n)) = 1
  BY <1>2, <1>6, Addresses, QueueLocations
<1>13. ListIs(0, list)
  <2>1. Filled(Ada!Initial) /\ Ada!Initial \in Ada!Heap /\ Base(Ada!Initial) = 1
    BY <1>12, Addresses DEF Filled, Base
  <2> QED
    BY <1>11, <1>12, <2>1 DEF ListIs
<1>14. EndsAre(0, list)
  <2>1. Ada!Tagged(Ada!Initial, 0) \in Pointers /\ Ada!Tagged(Ada!Initial, 0).ptr = Ada!Initial
    BY Addresses, Stored
  <2>2. OnList(0, list, Ada!Initial) /\ \A view : Shows(view, Ada!Initial)
    BY <1>11 DEF OnList, Shows
  <2> QED
    BY <1>11, <1>12, <2>1, <2>2 DEF EndsAre
<1>15. NodesAre(0, list)
  <2>1. ASSUME NEW n \in Ada!Heap \ {Ada!Initial}
        PROVE  ~OnList(0, list, n) /\ ~(n[2] > left[n[1]]) /\ pc[n[1]] # "swing"
    <3>1. ~OnList(0, list, n)
      BY <1>11 DEF OnList
    <3>2. n[1] \in Producers /\ n[2] \in 1 .. Share[n[1]] /\ n[1] \in Threads
      BY Addresses DEF QueueSetting
    <3>3. left[n[1]] = Share[n[1]] /\ Share[n[1]] \in Nat /\ pc[n[1]] # "swing"
      BY <1>1, <3>2 DEF QueueSetting
    <3> QED
      BY <3>1, <3>2, <3>3
  <2> QED
    BY <1>11, <1>12, <2>1 DEF NodesAre
<1>16. Dequeued(list)
  <2>1. \A c \in Consumers : DOMAIN got[c] = {}
    BY <1>1
  <2> QED
    BY <2>1 DEF Dequeued
<1>17. /\ \A t \in Producers : ProducerIs(0, list, t)
       /\ \A t \in Consumers : ConsumerIs(0, list, t)
  BY <1>1 DEF ProducerIs, ConsumerIs, QueueSetting
<1>18. QueueIs(0, list)
  BY <1>13, <1>14, <1>15, <1>16, <1>17 DEF QueueIs
<1> QED
  BY <1>9, <1>18 DEF QueueInv

LEMMA QueueStepKeeps == ASSUME QueueSetting, QueueInv, [Ada!AcquireNext]_(Ada!queueVars) PROVE QueueInv'
<1>1. ASSUME NEW t \in Threads, Ada!Step(t)
      PROVE  QueueInv'
  BY <1>1, NewNodeKeeps, FillNodeKeeps, LoadLastKeeps, LoadNextKeeps, RecheckKeeps, LinkKeeps,
     HelpLinkKeeps, SwingKeeps, LoadFirstKeeps, LoadLastTooKeeps, LoadNextOfFirstKeeps,
     RefirstKeeps, HelpKeeps, ReadKeeps, AdvanceKeeps DEF Ada!Step
<1>2. CASE Ada!AcquireNext
  <2>1. Ada!Threads = Threads
    BY DEF Ada!Threads, QueueSetting
  <2> QED
    BY <1>1, <1>2, <2>1 DEF Ada!AcquireNext
<1>3. CASE UNCHANGED Ada!queueVars
  <2>1. /\ written' = written /\ seen' = seen /\ pc' = pc /\ left' = left /\ node' = node
        /\ myFirst' = myFirst /\ myLast' = myLast /\ myNext' = myNext /\ item' = item /\ got' = got
    BY <1>3 DEF Ada!queueVars, Ada!memoryVars, Ada!localVars
  <2>2. QueueTypes'
    BY <2>1 DEF QueueInv, QueueTypes, MemOK, Newest
  <2>3. ASSUME NEW last \in Nat, NEW list \in [Nat -> Ada!Heap], QueueIs(last, list)
        PROVE  QueueIs(last, list)'
    <3>1. ListIs(last, list)'
      BY <2>1, <2>3 DEF QueueIs, ListIs, Filled, LinkedTo, Newest, Value, Shows, Base
    <3>2. EndsAre(last, list)'
      BY <2>1, <2>3 DEF QueueIs, EndsAre, Newest, Value, Shows, OnList
    <3>3. NodesAre(last, list)' /\ Dequeued(list)'
      BY <2>1, <2>3 DEF QueueIs, NodesAre, Dequeued, Newest, OnList
    <3>4. \A t \in Producers : ProducerIs(last, list, t)'
      BY <2>1, <2>3 DEF QueueIs, ProducerIs, Filled, Newest, Value, Shows, OnList, ReadLink, Base
    <3>5. \A t \in Consumers : ConsumerIs(last, list, t)'
      BY <2>1, <2>3 DEF QueueIs, ConsumerIs, Newest, Shows, ReadLink
    <3> QED
      BY <3>1, <3>2, <3>3, <3>4, <3>5 DEF QueueIs
  <2> QED
    BY <2>2, <2>3 DEF QueueInv
<1> QED
  BY <1>2, <1>3

\* The lock-free Ada queue on the C++11 memory, for any number of producers and
\* consumers and of their iterations: what a consumer takes out is an item that was
\* put in, read from a node that had been filled, although the element is written
\* and read by plain accesses and every load may be out of date; no item is taken
\* twice, and those of one producer come in their order.  Whoever follows a link, or
\* the end that List.First or List.Last leads to, is shown by the acquire load how
\* the node was filled.  Addresses of nodes are not used again.
THEOREM AdaQueueAcquires == QueueSetting => (Ada!AcquireSpec => []Ada!ItemsAsPut)
<1> SUFFICES ASSUME QueueSetting PROVE Ada!AcquireSpec => []Ada!ItemsAsPut
  OBVIOUS
<1>1. Ada!Init => QueueInv
  BY QueueInitHolds
<1>2. QueueInv /\ [Ada!AcquireNext]_(Ada!queueVars) => QueueInv'
  BY QueueStepKeeps
<1>3. ASSUME QueueInv
      PROVE  Ada!ItemsAsPut
  <2>1. PICK last \in Nat : \E list \in [Nat -> Ada!Heap] : QueueIs(last, list)
    BY <1>3 DEF QueueInv
  <2>2. PICK list \in [Nat -> Ada!Heap] : QueueIs(last, list)
    BY <2>1
  <2>3. Newest(Ada!First) \in Nat /\ Newest(Ada!First) <= last + 1
    BY <1>3, <2>2, QueueLocations DEF QueueInv, QueueTypes, MemOK, QueueIs, EndsAre
  <2>4. ASSUME NEW c \in Consumers, NEW d \in Consumers, NEW i \in DOMAIN got[c], NEW j \in DOMAIN got[d]
        PROVE  /\ got[c][i] # Ada!NoItem
               /\ got[c][i] = got[d][j] => c = d /\ i = j
               /\ c = d /\ i < j /\ got[c][i][1] = got[c][j][1] => got[c][i][2] > got[c][j][2]
    <3>1. PICK p \in 1 .. Newest(Ada!First) - 1 : got[c][i] = list[p]
      BY <2>2 DEF QueueIs, Dequeued
    <3>2. PICK q \in 1 .. Newest(Ada!First) - 1 : got[d][j] = list[q]
      BY <2>2 DEF QueueIs, Dequeued
    <3>3. p \in 0 .. last /\ q \in 0 .. last
      BY <2>3
    <3>4. got[c][i] # Ada!NoItem
      BY <1>3, <3>1, <3>3, Addresses DEF Ada!NoItem
    <3>5. got[c][i] = got[d][j] => c = d /\ i = j
      BY <2>2 DEF QueueIs, Dequeued
    <3>6. ASSUME c = d, i < j, got[c][i][1] = got[c][j][1]
          PROVE  got[c][i][2] > got[c][j][2]
      <4>1. p < q
        BY <2>2, <3>1, <3>2, <3>6 DEF QueueIs, Dequeued
      <4> QED
        BY <2>2, <3>1, <3>2, <3>3, <3>6, <4>1 DEF QueueIs, NodesAre
    <3> QED
      BY <3>4, <3>5, <3>6
  <2> QED
    BY <2>4 DEF Ada!ItemsAsPut
<1> QED
  BY <1>1, <1>2, <1>3, PTL DEF Ada!AcquireSpec
=============================================================================
