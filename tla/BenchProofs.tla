----------------------------- MODULE BenchProofs -----------------------------
(***************************************************************************)
(* What the statements of thread_f preserve, for every lock, number of     *)
(* threads, iterations and executions.  The proofs about a lock cite the   *)
(* lemma of each driver statement its actions are made of.                 *)
(*                                                                         *)
(* A lock has its own labels; work are those at which an iteration is      *)
(* under way, and waits those inside a call of barrier_wait.               *)
(***************************************************************************)
EXTENDS Bench, TLAPS, SequenceTheorems, FiniteSetTheorems, WellFoundedInduction

\* Calls of barrier_wait by t that have returned.
Returned(t, waits) == IF pc[t] \in waits THEN ctr[t] - 1 ELSE ctr[t]

\* The barrier separates the phases of the threads.
Separated(waits) == \A t, u \in Threads : Returned(t, waits) <= ctr[u]

\* An iteration is under way only while some are left, and run stays below its
\* bound until the thread is done.
Counted(work) ==
  \A t \in Threads : /\ pc[t] \in work => iter[t] > 0
                     /\ pc[t] # "done" => run[t] <= LastRun

DriverInv(labels, work, waits) ==
  DriverTypeOK(labels) /\ Counted(work) /\ Separated(waits)

USE NrThreadsAssumption, NrIterAssumption, NrExecAssumption, ScRunsAssumption

-----------------------------------------------------------------------------

\* Division as the split of the iterations uses it.
LEMMA DivMod ==
  ASSUME NEW n \in Nat, NEW m \in Nat \ {0}
  PROVE  /\ n = m * (n \div m) + (n % m)
         /\ n \div m \in Nat /\ n % m \in Nat /\ n % m < m
  OBVIOUS

\* The number of scaling runs.
LEMMA LastRunNat == LastRun \in Nat
  BY DEF LastRun

\* No thread is given more than --iterations in an execution.
LEMMA IterPerThreadRange ==
  ASSUME NEW t \in Threads, run[t] \in Nat
  PROVE  IterPerThread(t) \in 0 .. NrIter
<1> DEFINE nr == IF ScRuns THEN run[t] + 1 ELSE NrThreads
<1> DEFINE q == NrIter \div nr
<1> DEFINE r == NrIter % nr
<1>1. nr \in Nat \ {0}
  OBVIOUS
<1> HIDE DEF nr
<1>2. NrIter = nr * q + r /\ q \in Nat /\ r \in Nat /\ r < nr
  BY <1>1, DivMod
<1>3. IterPerThread(t) = q + (IF t < r THEN 1 ELSE 0)
  BY DEF IterPerThread, nr
<1>4. t \in Nat
  BY DEF Threads
<1> HIDE DEF q, r
<1>5. q <= nr * q
  BY <1>1, <1>2
<1>6. nr * q \in Nat
  BY <1>1, <1>2
<1>7. QED
  BY <1>2, <1>3, <1>4, <1>5, <1>6

\* enterSample computes an index from natural numbers.
LEMMA SampleIndexNat ==
  ASSUME NEW t \in Threads, run[t] \in Nat, exec[t] \in Nat
  PROVE  SampleIndex(t) \in Nat
<1>1. NrThreads * NrExec \in Nat /\ NrThreads * exec[t] \in Nat
  OBVIOUS
<1>2. NrThreads * NrExec * run[t] \in Nat
  BY <1>1
<1>3. t \in Nat
  BY DEF Threads
<1>4. QED
  BY <1>1, <1>2, <1>3 DEF SampleIndex

-----------------------------------------------------------------------------

\* Before the first statement of thread_f nobody has waited or worked.
LEMMA DriverInitInv ==
  ASSUME NEW labels, NEW work, NEW waits, NEW first \in labels,
         first \notin work, first \notin waits,
         DriverInit(first)
  PROVE  DriverInv(labels, work, waits)
  BY LastRunNat
     DEF DriverInit, DriverInv, DriverTypeOK, Counted, Separated, Returned

\* barrier_wait is called.
LEMMA ArriveInv ==
  ASSUME NEW labels, NEW work, NEW waits, DriverInv(labels, work, waits),
         NEW t \in Threads, NEW here, NEW there \in labels,
         here \notin waits, here # "done", there \in waits, there \notin work,
         Arrive(t, here, there)
  PROVE  DriverInv(labels, work, waits)'
<1> USE DEF DriverInv, DriverTypeOK
<1>1. /\ pc[t] = here /\ pc'[t] = there /\ ctr'[t] = ctr[t] + 1
      /\ UNCHANGED <<run, exec, iter, samples, worked>>
      /\ \A u \in Threads : u # t => pc'[u] = pc[u] /\ ctr'[u] = ctr[u]
  BY DEF Arrive, Goto
<1>2. DriverTypeOK(labels)'
  BY <1>1 DEF Arrive, Goto
<1>3. Counted(work)'
  BY <1>1 DEF Counted
<1>4. Separated(waits)'
  BY <1>1 DEF Separated, Returned
<1>5. QED
  BY <1>2, <1>3, <1>4

\* barrier_wait returns.
LEMMA PassInv ==
  ASSUME NEW labels, NEW work, NEW waits, DriverInv(labels, work, waits),
         NEW t \in Threads, NEW here, NEW there \in labels,
         here # "done", there \notin waits, there \notin work,
         Pass(t, here, there)
  PROVE  DriverInv(labels, work, waits)'
<1> USE DEF DriverInv, DriverTypeOK
<1>1. /\ pc[t] = here /\ pc'[t] = there
      /\ UNCHANGED <<ctr, run, exec, iter, samples, worked>>
      /\ \A u \in Threads : u # t => pc'[u] = pc[u]
      /\ \A u \in Threads : ctr[u] >= ctr[t]
  BY DEF Pass, Goto, Released
<1>2. DriverTypeOK(labels)'
  BY <1>1 DEF Pass, Goto
<1>3. Counted(work)'
  BY <1>1 DEF Counted
<1>4. Separated(waits)'
  BY <1>1 DEF Separated, Returned
<1>5. QED
  BY <1>2, <1>3, <1>4

\* barrier_wait returns and the work begins, of n iterations.
LEMMA SharesInv ==
  ASSUME NEW labels, NEW work, NEW waits, DriverInv(labels, work, waits),
         NEW t \in Threads, NEW here, NEW first \in labels, NEW idle \in labels,
         here # "done", first \notin waits, idle \notin waits, idle \notin work,
         NEW n \in 0 .. NrIter, Released(t), pc[t] = here,
         pc' = [pc EXCEPT ![t] = IF n > 0 THEN first ELSE idle],
         iter' = [iter EXCEPT ![t] = n], UNCHANGED <<ctr, run, exec, samples, worked>>
  PROVE  DriverInv(labels, work, waits)'
<1> USE DEF DriverInv, DriverTypeOK
<1>1. /\ pc'[t] = (IF n > 0 THEN first ELSE idle)
      /\ iter'[t] = n
      /\ \A u \in Threads : u # t => pc'[u] = pc[u] /\ iter'[u] = iter[u]
      /\ \A u \in Threads : ctr[u] >= ctr[t]
  BY DEF Released
<1>2. DriverTypeOK(labels)'
  OBVIOUS
<1>3. Counted(work)'
  BY <1>1 DEF Counted
<1>4. Separated(waits)'
  BY <1>1 DEF Separated, Returned
<1>5. QED
  BY <1>2, <1>3, <1>4

\* ... of the iterations that iter_per_thread says.
LEMMA StartInv ==
  ASSUME NEW labels, NEW work, NEW waits, DriverInv(labels, work, waits),
         NEW t \in Threads, NEW here, NEW first \in labels, NEW idle \in labels,
         here # "done", first \notin waits, idle \notin waits, idle \notin work,
         Start(t, here, first, idle)
  PROVE  DriverInv(labels, work, waits)'
<1> DEFINE n == IF Participates(t) THEN IterPerThread(t) ELSE 0
<1>1. n \in 0 .. NrIter
  BY IterPerThreadRange, LastRunNat DEF DriverInv, DriverTypeOK
<1> HIDE DEF n
<1>2. iter' = [iter EXCEPT ![t] = n] /\ iter'[t] = n
  BY DEF Start, n, DriverInv, DriverTypeOK
<1>3. pc[t] = here /\ pc' = [pc EXCEPT ![t] = IF n > 0 THEN first ELSE idle]
  BY <1>2 DEF Start, Goto
<1> QED
  BY <1>1, <1>2, <1>3, SharesInv DEF Start

\* A statement between the barriers, which enters an iteration only from one.
LEMMA WithinInv ==
  ASSUME NEW labels, NEW work, NEW waits, DriverInv(labels, work, waits),
         NEW t \in Threads, NEW here, NEW there \in labels,
         here \notin waits, here # "done",
         there \notin waits, there \in work => here \in work,
         Within(t, here, there)
  PROVE  DriverInv(labels, work, waits)'
<1> USE DEF DriverInv, DriverTypeOK
<1>1. /\ pc[t] = here /\ pc'[t] = there
      /\ UNCHANGED <<ctr, run, exec, iter, samples, worked>>
      /\ \A u \in Threads : u # t => pc'[u] = pc[u]
  BY DEF Within, Goto
<1>2. DriverTypeOK(labels)'
  BY <1>1 DEF Within, Goto
<1>3. Counted(work)'
  BY <1>1 DEF Counted
<1>4. Separated(waits)'
  BY <1>1 DEF Separated, Returned
<1>5. QED
  BY <1>2, <1>3, <1>4

\* An iteration ends.
LEMMA EndIterationInv ==
  ASSUME NEW labels, NEW work, NEW waits, DriverInv(labels, work, waits),
         NEW t \in Threads, NEW here, NEW again \in labels, NEW out \in labels,
         here \in work, here \notin waits, here # "done",
         again \notin waits, out \notin waits, out \notin work,
         EndIteration(t, here, again, out)
  PROVE  DriverInv(labels, work, waits)'
<1> USE DEF DriverInv, DriverTypeOK
<1>1. /\ pc[t] = here /\ pc'[t] = (IF iter[t] > 1 THEN again ELSE out)
      /\ iter'[t] = iter[t] - 1 /\ worked' = worked + 1
      /\ UNCHANGED <<ctr, run, exec, samples>>
      /\ \A u \in Threads : u # t => pc'[u] = pc[u] /\ iter'[u] = iter[u]
  BY DEF EndIteration, Goto
<1>2. iter[t] > 0
  BY <1>1 DEF Counted
<1>3. DriverTypeOK(labels)'
  <2>1. iter' \in [Threads -> 0 .. NrIter]
    BY <1>2 DEF EndIteration
  <2>2. pc' \in [Threads -> labels \cup {"done"}]
    BY DEF EndIteration, Goto
  <2>3. QED
    BY <1>1, <2>1, <2>2
<1>4. Counted(work)'
  BY <1>1 DEF Counted
<1>5. Separated(waits)'
  BY <1>1 DEF Separated, Returned
<1>6. QED
  BY <1>3, <1>4, <1>5

\* The sample is stored and the loops of thread_f go on.
LEMMA NextExecInv ==
  ASSUME NEW labels, NEW work, NEW waits, DriverInv(labels, work, waits),
         NEW t \in Threads, NEW here, NEW first \in labels,
         here \notin waits, here # "done", first \notin waits, first \notin work,
         "done" \notin work, "done" \notin waits,
         samples' \in SUBSET Nat, NextExec(t, here, first)
  PROVE  DriverInv(labels, work, waits)'
<1> USE DEF DriverInv, DriverTypeOK
<1>1. /\ pc[t] = here
      /\ pc'[t] = (IF exec[t] + 1 < NrExec \/ run[t] < LastRun THEN first ELSE "done")
      /\ exec'[t] = (IF exec[t] + 1 < NrExec THEN exec[t] + 1 ELSE 0)
      /\ run'[t] = (IF exec[t] + 1 < NrExec THEN run[t] ELSE run[t] + 1)
      /\ UNCHANGED <<ctr, iter, worked>>
      /\ \A u \in Threads : u # t => pc'[u] = pc[u] /\ run'[u] = run[u]
  BY DEF NextExec, Goto
<1>2. run[t] <= LastRun /\ LastRun \in Nat
  BY <1>1, LastRunNat DEF Counted
<1>3. DriverTypeOK(labels)'
  <2>1. pc' \in [Threads -> labels \cup {"done"}]
    BY DEF NextExec, Goto
  <2>2. exec' \in [Threads -> 0 .. NrExec - 1]
    BY DEF NextExec
  <2>3. run' \in [Threads -> 0 .. LastRun + 1]
    BY <1>2 DEF NextExec
  <2>4. QED
    BY <1>1, <2>1, <2>2, <2>3
<1>4. Counted(work)'
  BY <1>1, <1>2 DEF Counted, LastRun
<1>5. Separated(waits)'
  BY <1>1 DEF Separated, Returned
<1>6. QED
  BY <1>3, <1>4, <1>5

\* enterSample keeps the set of written indices one of natural numbers.
LEMMA RecordNat ==
  ASSUME NEW labels, DriverTypeOK(labels), NEW t \in Threads, Record(t)
  PROVE  samples' \in SUBSET Nat
<1>1. SampleIndex(t) \in Nat
  BY SampleIndexNat, LastRunNat DEF DriverTypeOK
<1>2. QED
  BY <1>1 DEF Record, DriverTypeOK

\* enterSample on its own.
LEMMA SampleInv ==
  ASSUME NEW labels, NEW work, NEW waits, DriverInv(labels, work, waits),
         NEW t \in Threads, NEW there \in labels,
         pc[t] \notin waits, pc[t] # "done", there \notin waits, there \notin work,
         pc' = [pc EXCEPT ![t] = there],
         samples' \in SUBSET Nat, UNCHANGED <<ctr, run, exec, iter, worked>>
  PROVE  DriverInv(labels, work, waits)'
<1> USE DEF DriverInv, DriverTypeOK
<1>1. \A u \in Threads : pc'[u] = IF u = t THEN there ELSE pc[u]
  OBVIOUS
<1>2. DriverTypeOK(labels)'
  OBVIOUS
<1>3. Counted(work)'
  BY <1>1 DEF Counted
<1>4. Separated(waits)'
  BY <1>1 DEF Separated, Returned
<1>5. QED
  BY <1>2, <1>3, <1>4

-----------------------------------------------------------------------------
(* Queues of threads *)

\* A thread joins at the end.
LEMMA Joined ==
  ASSUME NEW S, NEW s \in Seq(S), NEW r \in Seq(S), NEW e \in S,
         Len(r) = Len(s) + 1, r[Len(s) + 1] = e,
         \A i \in 1 .. Len(s) : r[i] = s[i]
  PROVE  r = Append(s, e)
<1>1. /\ Append(s, e) \in Seq(S) /\ Len(Append(s, e)) = Len(s) + 1
      /\ \A i \in 1 .. Len(s) : Append(s, e)[i] = s[i]
      /\ Append(s, e)[Len(s) + 1] = e
  BY AppendProperties
<1>2. Len(s) \in Nat
  BY LenProperties
<1>3. \A i \in 1 .. Len(s) + 1 : i \in 1 .. Len(s) \/ i = Len(s) + 1
  BY <1>2
<1>4. \A i \in 1 .. Len(r) : r[i] = Append(s, e)[i]
  BY <1>1, <1>3
<1> QED
  BY <1>1, <1>4, SeqEqual

\* The first thread leaves.
LEMMA Left ==
  ASSUME NEW S, NEW s \in Seq(S), NEW r \in Seq(S), s # <<>>,
         Len(r) + 1 = Len(s), \A i \in 1 .. Len(r) : r[i] = s[i + 1]
  PROVE  r = Tail(s)
<1>1. /\ Tail(s) \in Seq(S) /\ Len(Tail(s)) = Len(s) - 1
      /\ \A i \in 1 .. Len(Tail(s)) : Tail(s)[i] = s[i + 1]
  BY HeadTailProperties
<1>2. Len(s) \in Nat /\ Len(r) \in Nat
  BY LenProperties
<1> QED
  BY <1>1, <1>2, SeqEqual

\* Induction, for a set of numbers.
LEMMA Induction ==
  ASSUME NEW S, 0 \in S, \A n \in Nat : n \in S => n + 1 \in S
  PROVE  Nat \subseteq S
<1> DEFINE R == OpToRel(<, Nat)
           T == Nat \ S
<1>1. IsWellFoundedOn(R, Nat)
  BY NatLessThanWellFounded
<1>2. \A x, y \in Nat : x < y => <<x, y>> \in R
  BY DEF OpToRel
<1> HIDE DEF R
<1>3. SUFFICES ASSUME T # {} PROVE FALSE
  OBVIOUS
<1>4. PICK x \in T : \A y \in T : ~(<<y, x>> \in R)
  BY <1>1, <1>3, WFMin
<1>5. x \in Nat /\ x # 0
  BY <1>4
<1>6. x - 1 \in Nat /\ x - 1 \notin S
  BY <1>4, <1>5
<1>7. <<x - 1, x>> \in R
  BY <1>2, <1>5, <1>6
<1> QED
  BY <1>4, <1>6, <1>7

-----------------------------------------------------------------------------
(* The driver's account.  An iteration of execution e of run r is known by *)
(* its number below NrIter: of a run with n threads, thread i has those    *)
(* whose remainder modulo n is i.                                          *)

TakesPart(t, r) == ~ScRuns \/ t <= r
NrIn(r) == IF ScRuns THEN r + 1 ELSE NrThreads
Share(t, r) ==
  IF TakesPart(t, r)
  THEN NrIter \div NrIn(r) + (IF t < NrIter % NrIn(r) THEN 1 ELSE 0) ELSE 0

\* t is through with execution e of run r.
Over(t, r, e) == r < run[t] \/ (r = run[t] /\ e < exec[t])

\* How many iterations t has completed in it; before are the labels of thread_f
\* up to the barrier that the iterations follow.
Completed(t, r, e, before) ==
  IF Over(t, r, e) THEN Share(t, r)
  ELSE IF r = run[t] /\ e = exec[t] /\ pc[t] \notin before THEN Share(t, r) - iter[t] ELSE 0

Iterations == ((0 .. LastRun) \X (0 .. NrExec - 1)) \X (0 .. NrIter - 1)

IsCompleted(x, before) ==
  x[2] \div NrIn(x[1][1]) < Completed(x[2] % NrIn(x[1][1]), x[1][1], x[1][2], before)

AllCompleted(before) == {x \in Iterations : IsCompleted(x, before)}

\* saved are the labels between enterSample and the end of the execution.
SampleOf(s) == NrThreads * NrExec * s[1] + NrThreads * s[2] + s[3]
Sampled == {s \in (0 .. LastRun) \X (0 .. NrExec - 1) \X Threads : ~ScRuns \/ s[3] <= s[1]}
IsEntered(s, saved) ==
  \/ Over(s[3], s[1], s[2])
  \/ s[1] = run[s[3]] /\ s[2] = exec[s[3]] /\ pc[s[3]] \in saved
Entered(saved) == {s \in Sampled : IsEntered(s, saved)}

IterLeft(work) ==
  \A t \in Threads : /\ iter[t] <= IF pc[t] \in work THEN Share(t, run[t]) ELSE 0
                     /\ pc[t] = "done" <=> run[t] > LastRun

Account(before, work, saved) ==
  /\ IterLeft(work)
  /\ worked = Cardinality(AllCompleted(before))
  /\ samples = {SampleOf(s) : s \in Entered(saved)}

\* The labels of an execution come in three kinds.
Kinds(before, work, saved) ==
  /\ before \cap work = {} /\ before \cap saved = {} /\ work \cap saved = {}
  /\ "done" \notin before \cup work \cup saved

-----------------------------------------------------------------------------

\* The quotient and the remainder of a division are unique.
LEMMA DivModUnique ==
  ASSUME NEW n \in Nat \ {0}, NEW a \in Nat, NEW b \in 0 .. n - 1,
         NEW c \in Nat, NEW d \in 0 .. n - 1, n * a + b = n * c + d
  PROVE  a = c /\ b = d
<1>1. ASSUME NEW x \in Nat, NEW y \in Nat, x < y
      PROVE  n * x + n <= n * y
  <2>1. PICK z \in Nat : y = x + 1 + z
    <3>1. y - x - 1 \in Nat /\ y = x + 1 + (y - x - 1)
      BY <1>1
    <3> QED
      BY <3>1
  <2>2. n * y = n * x + n + n * z /\ n * z \in Nat /\ n * x \in Nat
    BY <2>1
  <2> QED
    BY <2>2
<1>2. n * a \in Nat /\ n * c \in Nat
  OBVIOUS
<1>3. ~(a < c)
  BY <1>1, <1>2
<1>4. ~(c < a)
  BY <1>1, <1>2
<1>5. a = c
  BY <1>3, <1>4
<1>6. n * a = n * c
  BY <1>5
<1> QED
  BY <1>2, <1>5, <1>6

\* Division of a number that is given by a quotient and a remainder.
LEMMA DivModOf ==
  ASSUME NEW n \in Nat \ {0}, NEW a \in Nat, NEW b \in 0 .. n - 1
  PROVE  (n * a + b) \div n = a /\ (n * a + b) % n = b
<1> DEFINE m == n * a + b
<1>1. m \in Nat
  OBVIOUS
<1> HIDE DEF m
<1>2. m = n * (m \div n) + (m % n) /\ m \div n \in Nat /\ m % n \in 0 .. n - 1
  BY <1>1, DivMod
<1>3. m = n * a + b
  BY DEF m
<1>4. m \div n = a /\ m % n = b
  BY <1>2, <1>3, DivModUnique
<1> QED
  BY <1>4 DEF m

\* A run has no more threads than there are.
LEMMA NrInRange ==
  ASSUME NEW r \in 0 .. LastRun
  PROVE  /\ NrIn(r) \in Nat \ {0} /\ NrIn(r) <= NrThreads
         /\ \A t \in Threads : TakesPart(t, r) <=> t < NrIn(r)
  BY DEF NrIn, LastRun, TakesPart, Threads

\* The share of a thread, which is at most --iterations.
LEMMA ShareNat ==
  ASSUME NEW r \in 0 .. LastRun, NEW t \in Threads
  PROVE  Share(t, r) \in Nat
<1>1. NrIter \div NrIn(r) \in Nat
  BY NrInRange, DivMod
<1> QED
  BY <1>1 DEF Share

\* The iterations with remainder t are as many as the share of t.
LEMMA SharesCover ==
  ASSUME NEW r \in 0 .. LastRun, NEW m \in 0 .. NrIter - 1
  PROVE  /\ m % NrIn(r) \in Threads
         /\ m \div NrIn(r) < Share(m % NrIn(r), r)
<1> DEFINE n == NrIn(r)
           q == NrIter \div n
           p == NrIter % n
           a == m \div n
           b == m % n
<1>1. n \in Nat \ {0} /\ n <= NrThreads /\ \A t \in Threads : TakesPart(t, r) <=> t < n
  BY NrInRange
<1>2. Share(b, r) = IF TakesPart(b, r) THEN q + (IF b < p THEN 1 ELSE 0) ELSE 0
  BY DEF Share
<1>3. m \in Nat /\ m < NrIter
  OBVIOUS
<1> HIDE DEF n
<1>4. m = n * a + b /\ a \in Nat /\ b \in Nat /\ b < n
  BY <1>1, <1>3, DivMod
<1>5. NrIter = n * q + p /\ q \in Nat /\ p \in Nat /\ p < n
  BY <1>1, DivMod
<1> HIDE DEF q, p, a, b
<1>6. b \in Threads
  BY <1>1, <1>4 DEF Threads
<1>7. Share(b, r) = q + (IF b < p THEN 1 ELSE 0)
  BY <1>1, <1>2, <1>4, <1>6
<1>8. ~(q < a)
  <2>1. SUFFICES ASSUME q < a PROVE FALSE
    OBVIOUS
  <2>2. PICK z \in Nat : a = q + 1 + z
    <3>1. a - q - 1 \in Nat /\ a = q + 1 + (a - q - 1)
      BY <1>4, <1>5, <2>1
    <3> QED
      BY <3>1
  <2>3. n * a = n * q + n + n * z /\ n * z \in Nat /\ n * q \in Nat
    BY <1>1, <1>5, <2>2
  <2> QED
    BY <1>1, <1>3, <1>4, <1>5, <2>3
<1>9. a = q => b < p
  <2>1. a = q => n * a = n * q
    OBVIOUS
  <2>2. n * q \in Nat
    BY <1>1, <1>5
  <2> QED
    BY <1>3, <1>4, <1>5, <2>1, <2>2
<1>10. a < Share(b, r)
  BY <1>4, <1>5, <1>7, <1>8, <1>9
<1> QED
  BY <1>6, <1>10 DEF a, b, n

\* Conversely, every iteration of a thread's share is one of them.
LEMMA SharesFit ==
  ASSUME NEW r \in 0 .. LastRun, NEW t \in Threads, NEW a \in Nat, a < Share(t, r)
  PROVE  /\ NrIn(r) * a + t \in 0 .. NrIter - 1
         /\ (NrIn(r) * a + t) \div NrIn(r) = a
         /\ (NrIn(r) * a + t) % NrIn(r) = t
<1> DEFINE n == NrIn(r)
           q == NrIter \div n
           p == NrIter % n
<1>1. n \in Nat \ {0} /\ n <= NrThreads /\ (TakesPart(t, r) <=> t < n)
  BY NrInRange
<1>2. Share(t, r) = IF TakesPart(t, r) THEN q + (IF t < p THEN 1 ELSE 0) ELSE 0
  BY DEF Share
<1> HIDE DEF n
<1>3. NrIter = n * q + p /\ q \in Nat /\ p \in Nat /\ p < n
  BY <1>1, DivMod
<1> HIDE DEF q, p
<1>4. t \in Nat
  BY DEF Threads
<1>5. t < n /\ (a < q \/ (a = q /\ t < p))
  BY <1>1, <1>2, <1>3
<1>6. n * a + t \in Nat /\ n * a + t < NrIter
  <2>1. ASSUME a < q PROVE n * a + n <= n * q
    <3>1. PICK z \in Nat : q = a + 1 + z
      <4>1. q - a - 1 \in Nat /\ q = a + 1 + (q - a - 1)
        BY <1>3, <2>1
      <4> QED
        BY <4>1
    <3>2. n * q = n * a + n + n * z /\ n * z \in Nat
      BY <1>1, <3>1
    <3>3. n * a \in Nat
      BY <1>1
    <3> QED
      BY <1>1, <3>2, <3>3
  <2>2. a = q => n * a = n * q
    OBVIOUS
  <2>3. n * a \in Nat /\ n * q \in Nat
    BY <1>1, <1>3
  <2> QED
    BY <1>1, <1>3, <1>4, <1>5, <2>1, <2>2, <2>3
<1>7. t \in 0 .. n - 1
  BY <1>1, <1>4, <1>5
<1>8. (n * a + t) \div n = a /\ (n * a + t) % n = t
  BY <1>1, <1>7, DivModOf
<1> QED
  BY <1>6, <1>8 DEF n

-----------------------------------------------------------------------------

\* There are --iterations of them in each execution of each run.
LEMMA IterationsCount ==
  /\ IsFiniteSet(Iterations)
  /\ Cardinality(Iterations) = NrIter * NrExec * (LastRun + 1)
<1> DEFINE R == 0 .. LastRun
           E == 0 .. NrExec - 1
           M == 0 .. NrIter - 1
<1>1. IsFiniteSet(R) /\ Cardinality(R) = LastRun + 1
  BY LastRunNat, FS_Interval
<1>2. IsFiniteSet(E) /\ Cardinality(E) = NrExec
  BY FS_Interval
<1>3. IsFiniteSet(M) /\ Cardinality(M) = NrIter
  BY FS_Interval
<1> HIDE DEF R, E, M
<1>4. IsFiniteSet(R \X E) /\ Cardinality(R \X E) = Cardinality(R) * Cardinality(E)
  BY <1>1, <1>2, FS_Product
<1>5. /\ IsFiniteSet((R \X E) \X M)
      /\ Cardinality((R \X E) \X M) = Cardinality(R \X E) * Cardinality(M)
  BY <1>3, <1>4, FS_Product
<1>6. Iterations = (R \X E) \X M
  BY DEF Iterations, R, E, M
<1>7. Cardinality(Iterations) = ((LastRun + 1) * NrExec) * NrIter
  BY <1>1, <1>2, <1>3, <1>4, <1>5, <1>6
<1>8. ((LastRun + 1) * NrExec) * NrIter = NrIter * NrExec * (LastRun + 1)
  BY LastRunNat
<1> QED
  BY <1>5, <1>6, <1>7, <1>8

\* Completed iterations are finitely many.
LEMMA CompletedFinite ==
  ASSUME NEW before
  PROVE  IsFiniteSet(AllCompleted(before))
<1>1. AllCompleted(before) \in SUBSET Iterations
  BY DEF AllCompleted
<1> QED
  BY <1>1, IterationsCount, FS_Subset

\* What an iteration is.
LEMMA IterationParts ==
  ASSUME NEW x \in Iterations
  PROVE  /\ x[1][1] \in 0 .. LastRun /\ x[1][2] \in 0 .. NrExec - 1 /\ x[2] \in 0 .. NrIter - 1
         /\ x = <<<<x[1][1], x[1][2]>>, x[2]>>
         /\ x[2] % NrIn(x[1][1]) \in Threads
<1>1. /\ x[1][1] \in 0 .. LastRun /\ x[1][2] \in 0 .. NrExec - 1 /\ x[2] \in 0 .. NrIter - 1
      /\ x = <<<<x[1][1], x[1][2]>>, x[2]>>
  BY DEF Iterations
<1>2. x[2] % NrIn(x[1][1]) \in Threads
  BY <1>1, SharesCover
<1> QED
  BY <1>1, <1>2

\* If nobody's account of completed iterations changes, nor does their set.
LEMMA SameCompleted ==
  ASSUME NEW before,
         \A t \in Threads : \A r \in 0 .. LastRun : \A e \in 0 .. NrExec - 1 :
           Completed(t, r, e, before)' = Completed(t, r, e, before)
  PROVE  AllCompleted(before)' = AllCompleted(before)
<1>1. ASSUME NEW x \in Iterations
      PROVE  IsCompleted(x, before)' <=> IsCompleted(x, before)
  BY IterationParts DEF IsCompleted
<1>2. AllCompleted(before)' = {x \in Iterations : IsCompleted(x, before)'}
  BY DEF AllCompleted
<1> QED
  BY <1>1, <1>2 DEF AllCompleted

-----------------------------------------------------------------------------

\* A statement that leaves the driver's account alone.
Quiet(t, before, work, saved) ==
  \E there :
    /\ pc[t] # "done" /\ there # "done" /\ pc' = [pc EXCEPT ![t] = there]
    /\ pc[t] \in before <=> there \in before
    /\ pc[t] \in work <=> there \in work
    /\ pc[t] \in saved <=> there \in saved
    /\ UNCHANGED <<run, exec, iter, samples, worked>>

\* The beginning of the iterations of an execution.
Begins(t, before, work, saved) ==
  \E there :
    /\ pc[t] \in before /\ there \notin before \cup saved \cup {"done"}
    /\ pc' = [pc EXCEPT ![t] = there]
    /\ iter' = [iter EXCEPT ![t] = IF Participates(t) THEN IterPerThread(t) ELSE 0]
    /\ there \in work <=> iter'[t] > 0
    /\ UNCHANGED <<run, exec, samples, worked>>

\* The end of an iteration.
Iterates(t, before, work, saved) ==
  \E there :
    /\ pc[t] \in work /\ there \notin before \cup saved \cup {"done"}
    /\ pc' = [pc EXCEPT ![t] = there]
    /\ there \in work <=> iter[t] > 1
    /\ iter' = [iter EXCEPT ![t] = @ - 1]
    /\ worked' = worked + 1
    /\ UNCHANGED <<run, exec, samples>>

\* enterSample on its own.
Enters(t, before, work, saved) ==
  \E there :
    /\ pc[t] \notin before \cup work \cup saved \cup {"done"} /\ there \in saved
    /\ pc' = [pc EXCEPT ![t] = there]
    /\ Record(t)
    /\ UNCHANGED <<run, exec, iter, worked>>

\* The end of an execution, with its sample if that has not been entered yet.
GoesOn(t, before, work, saved) ==
  \E there :
    /\ pc[t] \notin before \cup work \cup {"done"} /\ there \in before \cup {"done"}
    /\ pc' = [pc EXCEPT ![t] = there]
    /\ there = "done" <=> ~(exec[t] + 1 < NrExec \/ run[t] < LastRun)
    /\ exec' = [exec EXCEPT ![t] = IF @ + 1 < NrExec THEN @ + 1 ELSE 0]
    /\ run' = [run EXCEPT ![t] = IF exec[t] + 1 < NrExec THEN @ ELSE @ + 1]
    /\ IF pc[t] \in saved THEN UNCHANGED samples ELSE Record(t)
    /\ UNCHANGED <<iter, worked>>

DriverStep(t, before, work, saved) ==
  \/ Quiet(t, before, work, saved) \/ Begins(t, before, work, saved)
  \/ Iterates(t, before, work, saved) \/ Enters(t, before, work, saved)
  \/ GoesOn(t, before, work, saved)

\* What a thread that has not ended works on.
LEMMA DriverTypes ==
  ASSUME NEW labels, DriverTypeOK(labels), NEW t \in Threads
  PROVE  /\ pc \in [Threads -> labels \cup {"done"}]
         /\ run \in [Threads -> 0 .. LastRun + 1] /\ exec \in [Threads -> 0 .. NrExec - 1]
         /\ iter \in [Threads -> 0 .. NrIter] /\ worked \in Nat
         /\ run[t] \in Nat /\ exec[t] \in Nat /\ iter[t] \in Nat /\ LastRun \in Nat
  BY LastRunNat DEF DriverTypeOK

\* Nothing is accounted for at the beginning.
LEMMA AccountInit ==
  ASSUME NEW before, NEW work, NEW saved, NEW first \in before, Kinds(before, work, saved),
         DriverInit(first)
  PROVE  Account(before, work, saved)
<1>1. \A t \in Threads : pc[t] = first /\ run[t] = 0 /\ exec[t] = 0 /\ iter[t] = 0
  BY DEF DriverInit
<1>2. IterLeft(work)
  BY <1>1, LastRunNat DEF IterLeft, Kinds
<1>3. \A t \in Threads, r \in 0 .. LastRun, e \in 0 .. NrExec - 1 :
        ~Over(t, r, e) /\ Completed(t, r, e, before) = 0
  BY <1>1, LastRunNat DEF Completed, Over
<1>4. AllCompleted(before) = {}
  <2>1. ASSUME NEW x \in Iterations PROVE ~IsCompleted(x, before)
    <3>1. Completed(x[2] % NrIn(x[1][1]), x[1][1], x[1][2], before) = 0
      BY <1>3, IterationParts
    <3>2. x[2] \in Nat /\ NrIn(x[1][1]) \in Nat \ {0}
      BY IterationParts, NrInRange
    <3>3. x[2] \div NrIn(x[1][1]) \in Nat
      BY <3>2, DivMod
    <3> QED
      BY <3>1, <3>3 DEF IsCompleted
  <2> QED
    BY <2>1 DEF AllCompleted
<1>5. Cardinality(AllCompleted(before)) = 0
  BY <1>4, FS_EmptySet
<1>6. Entered(saved) = {}
  BY <1>1, <1>3 DEF Entered, Sampled, IsEntered, Kinds
<1>7. samples = {} /\ worked = 0
  BY DEF DriverInit
<1> QED
  BY <1>2, <1>5, <1>6, <1>7 DEF Account

\* Quiet statements are.
LEMMA QuietAccount ==
  ASSUME NEW labels, NEW before, NEW work, NEW saved, Kinds(before, work, saved),
         DriverTypeOK(labels), Account(before, work, saved),
         NEW t \in Threads, Quiet(t, before, work, saved)
  PROVE  Account(before, work, saved)'
<1>1. PICK there :
        /\ pc[t] # "done" /\ there # "done" /\ pc' = [pc EXCEPT ![t] = there]
        /\ pc[t] \in before <=> there \in before
        /\ pc[t] \in work <=> there \in work
        /\ pc[t] \in saved <=> there \in saved
        /\ UNCHANGED <<run, exec, iter, samples, worked>>
  BY DEF Quiet
<1>2. /\ UNCHANGED <<run, exec, iter, samples, worked>>
      /\ \A u \in Threads : /\ pc'[u] \in before <=> pc[u] \in before
                            /\ pc'[u] \in work <=> pc[u] \in work
                            /\ pc'[u] \in saved <=> pc[u] \in saved
                            /\ pc'[u] = "done" <=> pc[u] = "done"
  BY <1>1, DriverTypes
<1>3. IterLeft(work)'
  BY <1>2 DEF Account, IterLeft, Share, TakesPart, NrIn
<1>4. AllCompleted(before)' = AllCompleted(before)
  BY <1>2, SameCompleted DEF Completed, Over
<1>5. Entered(saved)' = Entered(saved)
  BY <1>2 DEF Entered, Sampled, IsEntered, Over
<1> QED
  BY <1>2, <1>3, <1>4, <1>5 DEF Account

\* A thread that has not ended is in one of the runs.
LEMMA InRun ==
  ASSUME NEW labels, NEW before, NEW work, NEW saved,
         DriverTypeOK(labels), Account(before, work, saved), NEW t \in Threads
  PROVE  pc[t] # "done" <=> run[t] \in 0 .. LastRun
  BY DriverTypes DEF Account, IterLeft

\* At the beginning of an execution a thread gets its share.
LEMMA BeginsAccount ==
  ASSUME NEW labels, NEW before, NEW work, NEW saved, Kinds(before, work, saved),
         DriverTypeOK(labels), Account(before, work, saved),
         NEW t \in Threads, Begins(t, before, work, saved)
  PROVE  Account(before, work, saved)'
<1>1. PICK there :
        /\ pc[t] \in before /\ there \notin before \cup saved \cup {"done"}
        /\ pc' = [pc EXCEPT ![t] = there]
        /\ iter' = [iter EXCEPT ![t] = IF Participates(t) THEN IterPerThread(t) ELSE 0]
        /\ there \in work <=> iter'[t] > 0
        /\ UNCHANGED <<run, exec, samples, worked>>
  BY DEF Begins
<1>2. pc[t] # "done" /\ pc[t] \notin saved /\ pc[t] \notin work
  BY <1>1 DEF Kinds
<1>3. /\ pc'[t] = there /\ UNCHANGED <<run, exec, samples, worked>>
      /\ \A u \in Threads : u # t => pc'[u] = pc[u] /\ iter'[u] = iter[u]
  BY <1>1, DriverTypes
<1>4. iter'[t] = Share(t, run[t])
  BY <1>1, DriverTypes DEF Share, TakesPart, NrIn, Participates, IterPerThread
<1>5. run[t] \in 0 .. LastRun
  BY <1>2, InRun
<1>6. Share(t, run[t]) \in Nat
  BY <1>5, ShareNat
<1>7. IterLeft(work)'
  <2>1. ASSUME NEW u \in Threads, u # t
        PROVE  /\ iter'[u] <= IF pc'[u] \in work THEN Share(u, run'[u]) ELSE 0
               /\ pc'[u] = "done" <=> run'[u] > LastRun
    BY <1>3, <2>1 DEF Account, IterLeft
  <2>2. /\ iter'[t] <= IF pc'[t] \in work THEN Share(t, run'[t]) ELSE 0
        /\ pc'[t] = "done" <=> run'[t] > LastRun
    BY <1>1, <1>3, <1>4, <1>5, <1>6, LastRunNat
  <2>3. \A u \in Threads :
          /\ iter'[u] <= IF pc'[u] \in work THEN Share(u, run'[u]) ELSE 0
          /\ pc'[u] = "done" <=> run'[u] > LastRun
    BY <2>1, <2>2
  <2>4. LastRun' = LastRun /\ \A u, r : Share(u, r)' = Share(u, r)
    BY DEF LastRun, Share, TakesPart, NrIn
  <2> QED
    BY <2>3, <2>4 DEF IterLeft
<1>8. AllCompleted(before)' = AllCompleted(before)
  <2>1. ASSUME NEW u \in Threads, NEW r \in 0 .. LastRun, NEW e \in 0 .. NrExec - 1
        PROVE  Completed(u, r, e, before)' = Completed(u, r, e, before)
    <3>1. CASE u # t
      BY <1>3, <3>1 DEF Completed, Over, Share, TakesPart, NrIn
    <3>2. CASE u = t /\ r = run[t] /\ e = exec[t]
      <4>1. ~Over(t, r, e) /\ ~Over(t, r, e)'
        BY <1>3, <1>5, <3>2, DriverTypes DEF Over
      <4>2. Completed(t, r, e, before) = 0
        BY <1>1, <4>1 DEF Completed
      <4>3. Completed(t, r, e, before)' = Share(t, r) - Share(t, r)
        BY <1>1, <1>3, <1>4, <3>2, <4>1 DEF Completed, Share, TakesPart, NrIn
      <4> QED
        BY <1>6, <3>2, <4>2, <4>3
    <3>3. CASE u = t /\ ~(r = run[t] /\ e = exec[t])
      BY <1>3, <3>3 DEF Completed, Over, Share, TakesPart, NrIn
    <3> QED
      BY <3>1, <3>2, <3>3
  <2> QED
    BY <2>1, SameCompleted
<1>9. Entered(saved)' = Entered(saved)
  <2>1. \A u \in Threads : pc'[u] \in saved <=> pc[u] \in saved
    BY <1>1, <1>2, <1>3
  <2> QED
    BY <1>3, <2>1 DEF Entered, Sampled, IsEntered, Over
<1> QED
  BY <1>3, <1>7, <1>8, <1>9 DEF Account

\* An iteration more is completed, and no other one.
LEMMA IteratesAccount ==
  ASSUME NEW labels, NEW before, NEW work, NEW saved, Kinds(before, work, saved),
         DriverTypeOK(labels), Account(before, work, saved),
         NEW t \in Threads, Iterates(t, before, work, saved), iter[t] > 0
  PROVE  Account(before, work, saved)'
<1>1. PICK there :
        /\ pc[t] \in work /\ there \notin before \cup saved \cup {"done"}
        /\ pc' = [pc EXCEPT ![t] = there]
        /\ there \in work <=> iter[t] > 1
        /\ iter' = [iter EXCEPT ![t] = @ - 1]
        /\ worked' = worked + 1
        /\ UNCHANGED <<run, exec, samples>>
  BY DEF Iterates
<1>2. pc[t] # "done" /\ pc[t] \notin saved /\ pc[t] \notin before
  BY <1>1 DEF Kinds
<1>3. /\ pc'[t] = there /\ UNCHANGED <<run, exec, samples>> /\ worked' = worked + 1
      /\ iter'[t] = iter[t] - 1
      /\ \A u \in Threads : u # t => pc'[u] = pc[u] /\ iter'[u] = iter[u]
  BY <1>1, DriverTypes
<1>4. run[t] \in 0 .. LastRun /\ exec[t] \in 0 .. NrExec - 1
  BY <1>2, InRun, DriverTypes
<1>5. Share(t, run[t]) \in Nat /\ iter[t] \in Nat /\ iter[t] <= Share(t, run[t])
  BY <1>1, <1>4, ShareNat, DriverTypes DEF Account, IterLeft
<1>6. LastRun' = LastRun /\ \A u, r : Share(u, r)' = Share(u, r) /\ NrIn(r)' = NrIn(r)
  BY DEF LastRun, Share, TakesPart, NrIn
<1>7. IterLeft(work)'
  <2>1. ASSUME NEW u \in Threads, u # t
        PROVE  /\ iter'[u] <= IF pc'[u] \in work THEN Share(u, run'[u]) ELSE 0
               /\ pc'[u] = "done" <=> run'[u] > LastRun
    BY <1>3, <2>1 DEF Account, IterLeft
  <2>2. /\ iter'[t] <= IF pc'[t] \in work THEN Share(t, run'[t]) ELSE 0
        /\ pc'[t] = "done" <=> run'[t] > LastRun
    BY <1>1, <1>3, <1>4, <1>5, LastRunNat
  <2>3. \A u \in Threads :
          /\ iter'[u] <= IF pc'[u] \in work THEN Share(u, run'[u]) ELSE 0
          /\ pc'[u] = "done" <=> run'[u] > LastRun
    BY <2>1, <2>2
  <2> QED
    BY <1>6, <2>3 DEF IterLeft
<1> DEFINE a == Share(t, run[t]) - iter[t]
           m == NrIn(run[t]) * a + t
           x0 == <<<<run[t], exec[t]>>, m>>
<1>8. a \in Nat /\ a < Share(t, run[t])
  BY <1>5
<1>9. m \in 0 .. NrIter - 1 /\ m \div NrIn(run[t]) = a /\ m % NrIn(run[t]) = t
  <2> HIDE DEF a
  <2> QED
    BY <1>4, <1>8, SharesFit
<1>10. ~Over(t, run[t], exec[t]) /\ ~Over(t, run[t], exec[t])'
  BY <1>3, <1>4, DriverTypes DEF Over
<1>11. /\ Completed(t, run[t], exec[t], before) = a
       /\ \A r, e : r = run[t] /\ e = exec[t] => Completed(t, r, e, before)' = a + 1
  <2>1. Completed(t, run[t], exec[t], before) = a
    BY <1>2, <1>10 DEF Completed
  <2>2. Completed(t, run[t], exec[t], before)' = Share(t, run[t]) - iter'[t]
    BY <1>1, <1>3, <1>6, <1>10 DEF Completed
  <2>3. Share(t, run[t]) - iter'[t] = a + 1
    BY <1>3, <1>5
  <2> QED
    BY <1>3, <2>1, <2>2, <2>3 DEF Completed, Over
<1>12. ASSUME NEW u \in Threads, NEW r \in 0 .. LastRun, NEW e \in 0 .. NrExec - 1,
              ~(u = t /\ r = run[t] /\ e = exec[t])
       PROVE  Completed(u, r, e, before)' = Completed(u, r, e, before)
  BY <1>1, <1>2, <1>3, <1>6, <1>12 DEF Completed, Over
<1> HIDE DEF a, m
<1>13. x0 \in Iterations /\ ~IsCompleted(x0, before)
  BY <1>4, <1>8, <1>9, <1>11 DEF Iterations, IsCompleted
<1>14. ASSUME NEW x \in Iterations
       PROVE  IsCompleted(x, before)' <=> IsCompleted(x, before) \/ x = x0
  <2> DEFINE r == x[1][1]
             e == x[1][2]
             n == NrIn(r)
             d == x[2] \div n
             u == x[2] % n
  <2>1. /\ r \in 0 .. LastRun /\ e \in 0 .. NrExec - 1 /\ x[2] \in 0 .. NrIter - 1
        /\ x = <<<<r, e>>, x[2]>> /\ u \in Threads
    BY IterationParts
  <2>2. n \in Nat \ {0} /\ d \in Nat /\ u \in Nat /\ x[2] = n * d + u
    BY <2>1, NrInRange, DivMod
  <2>3. /\ IsCompleted(x, before) <=> d < Completed(u, r, e, before)
        /\ IsCompleted(x, before)' <=> d < Completed(u, r, e, before)'
    BY <1>6 DEF IsCompleted
  <2>4. x = x0 => r = run[t] /\ e = exec[t] /\ x[2] = m /\ u = t /\ d = a
    BY <1>9
  <2> HIDE DEF d, u
  <2>5. CASE u = t /\ r = run[t] /\ e = exec[t]
    <3>1. /\ IsCompleted(x, before) <=> d < a
          /\ IsCompleted(x, before)' <=> d < a + 1
      BY <1>11, <2>3, <2>5
    <3>2. d = a => x[2] = m
      BY <2>2, <2>5 DEF m
    <3>3. d = a => x = x0
      BY <2>1, <2>5, <3>2
    <3> QED
      BY <1>8, <2>2, <2>4, <3>1, <3>3
  <2>6. CASE ~(u = t /\ r = run[t] /\ e = exec[t])
    <3>1. Completed(u, r, e, before)' = Completed(u, r, e, before)
      BY <1>12, <2>1, <2>6
    <3> QED
      BY <2>3, <2>4, <2>6, <3>1
  <2> QED
    BY <2>5, <2>6
<1>15. AllCompleted(before)' = AllCompleted(before) \cup {x0}
  <2>1. AllCompleted(before)' = {x \in Iterations : IsCompleted(x, before)'}
    BY <1>6 DEF AllCompleted, Iterations
  <2> HIDE DEF x0
  <2> QED
    BY <1>13, <1>14, <2>1 DEF AllCompleted
<1>16. x0 \notin AllCompleted(before)
  BY <1>13 DEF AllCompleted
<1>17. Cardinality(AllCompleted(before) \cup {x0}) = Cardinality(AllCompleted(before)) + 1
  BY <1>16, CompletedFinite, FS_AddElement
<1>18. Entered(saved)' = Entered(saved)
  <2>1. \A u \in Threads : pc'[u] \in saved <=> pc[u] \in saved
    BY <1>1, <1>2, <1>3
  <2> QED
    BY <1>3, <2>1 DEF Entered, Sampled, IsEntered, Over
<1>19. worked' = Cardinality(AllCompleted(before)')
  BY <1>3, <1>15, <1>17 DEF Account
<1>20. samples' = {SampleOf(s) : s \in Entered(saved)'}
  BY <1>3, <1>18 DEF Account
<1> QED
  BY <1>7, <1>19, <1>20 DEF Account

\* The sample of the execution that a thread is in.
LEMMA RecordAdds ==
  ASSUME NEW labels, NEW before, NEW work, NEW saved,
         DriverTypeOK(labels), Account(before, work, saved),
         NEW t \in Threads, pc[t] # "done", pc[t] \notin saved, Record(t),
         NEW Now, Now = {s \in Sampled :
                           s \in Entered(saved) \/ s = <<run[t], exec[t], t>>}
  PROVE  samples' = {SampleOf(s) : s \in Now}
<1> DEFINE s0 == <<run[t], exec[t], t>>
<1>1. SampleIndex(t) = SampleOf(s0)
  BY DEF SampleIndex, SampleOf
<1>2. run[t] \in 0 .. LastRun /\ exec[t] \in 0 .. NrExec - 1
  BY InRun, DriverTypes
<1>3. s0 \in Sampled <=> Participates(t)
  BY <1>2 DEF Sampled, Participates
<1>4. samples = {SampleOf(s) : s \in Entered(saved)} /\ Entered(saved) \subseteq Sampled
  BY DEF Account, Entered
<1> HIDE DEF s0
<1>5. CASE Participates(t)
  <2>1. Now = Entered(saved) \cup {s0}
    BY <1>3, <1>4, <1>5 DEF s0
  <2>2. samples' = samples \cup {SampleOf(s0)}
    BY <1>1, <1>5 DEF Record
  <2> HIDE DEF SampleOf
  <2> QED
    BY <1>4, <2>1, <2>2
<1>6. CASE ~Participates(t)
  <2>1. Now = Entered(saved)
    BY <1>3, <1>4, <1>6 DEF s0
  <2>2. samples' = samples
    BY <1>6 DEF Record
  <2> QED
    BY <1>4, <2>1, <2>2
<1> QED
  BY <1>5, <1>6

\* enterSample enters it.
LEMMA EntersAccount ==
  ASSUME NEW labels, NEW before, NEW work, NEW saved, Kinds(before, work, saved),
         DriverTypeOK(labels), Account(before, work, saved),
         NEW t \in Threads, Enters(t, before, work, saved)
  PROVE  Account(before, work, saved)'
<1>1. PICK there :
        /\ pc[t] \notin before \cup work \cup saved \cup {"done"} /\ there \in saved
        /\ pc' = [pc EXCEPT ![t] = there]
        /\ Record(t)
        /\ UNCHANGED <<run, exec, iter, worked>>
  BY DEF Enters
<1>2. there \notin before \cup work \cup {"done"}
  BY <1>1 DEF Kinds
<1>3. /\ pc'[t] = there /\ UNCHANGED <<run, exec, iter, worked>>
      /\ \A u \in Threads : u # t => pc'[u] = pc[u]
  BY <1>1, DriverTypes
<1>4. \A u \in Threads : /\ pc'[u] \in before <=> pc[u] \in before
                         /\ pc'[u] \in work <=> pc[u] \in work
                         /\ pc'[u] = "done" <=> pc[u] = "done"
  BY <1>1, <1>2, <1>3
<1>5. IterLeft(work)'
  BY <1>3, <1>4 DEF Account, IterLeft, Share, TakesPart, NrIn
<1>6. AllCompleted(before)' = AllCompleted(before)
  BY <1>3, <1>4, SameCompleted DEF Completed, Over
<1>7. ASSUME NEW s \in Sampled
      PROVE  IsEntered(s, saved)' <=> IsEntered(s, saved) \/ s = <<run[t], exec[t], t>>
  <2>1. s[3] \in Threads /\ s = <<s[1], s[2], s[3]>>
    BY DEF Sampled
  <2>2. Over(s[3], s[1], s[2])' <=> Over(s[3], s[1], s[2])
    BY <1>3 DEF Over
  <2>3. CASE s[3] # t
    BY <1>3, <2>1, <2>2, <2>3 DEF IsEntered
  <2>4. CASE s[3] = t
    BY <1>1, <1>3, <2>1, <2>2, <2>4 DEF IsEntered
  <2> QED
    BY <2>3, <2>4
<1>8. Entered(saved)' = {s \in Sampled : s \in Entered(saved) \/ s = <<run[t], exec[t], t>>}
  <2>1. Entered(saved)' = {s \in Sampled : IsEntered(s, saved)'}
    BY <1>3 DEF Entered, Sampled
  <2> QED
    BY <1>7, <2>1 DEF Entered
<1>9. samples' = {SampleOf(s) : s \in Entered(saved)'}
  BY <1>1, <1>8, RecordAdds
<1> QED
  BY <1>3, <1>5, <1>6, <1>9 DEF Account

\* An execution that a thread leaves is over for it, iterations and sample.
LEMMA GoesOnAccount ==
  ASSUME NEW labels, NEW before, NEW work, NEW saved, Kinds(before, work, saved),
         DriverTypeOK(labels), Account(before, work, saved),
         NEW t \in Threads, GoesOn(t, before, work, saved)
  PROVE  Account(before, work, saved)'
<1>1. PICK there :
        /\ pc[t] \notin before \cup work \cup {"done"} /\ there \in before \cup {"done"}
        /\ pc' = [pc EXCEPT ![t] = there]
        /\ there = "done" <=> ~(exec[t] + 1 < NrExec \/ run[t] < LastRun)
        /\ exec' = [exec EXCEPT ![t] = IF @ + 1 < NrExec THEN @ + 1 ELSE 0]
        /\ run' = [run EXCEPT ![t] = IF exec[t] + 1 < NrExec THEN @ ELSE @ + 1]
        /\ IF pc[t] \in saved THEN UNCHANGED samples ELSE Record(t)
        /\ UNCHANGED <<iter, worked>>
  BY DEF GoesOn
<1>2. there \notin work /\ there \notin saved
  BY <1>1 DEF Kinds
<1>3. /\ pc'[t] = there /\ UNCHANGED <<iter, worked>>
      /\ exec'[t] = (IF exec[t] + 1 < NrExec THEN exec[t] + 1 ELSE 0)
      /\ run'[t] = (IF exec[t] + 1 < NrExec THEN run[t] ELSE run[t] + 1)
      /\ \A u \in Threads : u # t => pc'[u] = pc[u] /\ run'[u] = run[u] /\ exec'[u] = exec[u]
  BY <1>1, DriverTypes
<1>4. run[t] \in 0 .. LastRun /\ exec[t] \in 0 .. NrExec - 1
  BY <1>1, InRun, DriverTypes
<1>5. iter[t] = 0
  BY <1>1, DriverTypes DEF Account, IterLeft
<1>6. LastRun' = LastRun /\ \A u, r : Share(u, r)' = Share(u, r)
  BY DEF LastRun, Share, TakesPart, NrIn
<1>7. IterLeft(work)'
  <2>1. ASSUME NEW u \in Threads, u # t
        PROVE  /\ iter'[u] <= IF pc'[u] \in work THEN Share(u, run'[u]) ELSE 0
               /\ pc'[u] = "done" <=> run'[u] > LastRun
    BY <1>3, <2>1 DEF Account, IterLeft
  <2>2. iter'[t] <= IF pc'[t] \in work THEN Share(t, run'[t]) ELSE 0
    BY <1>2, <1>3, <1>5
  <2>3. pc'[t] = "done" <=> run'[t] > LastRun
    BY <1>1, <1>3, <1>4, LastRunNat
  <2>4. \A u \in Threads :
          /\ iter'[u] <= IF pc'[u] \in work THEN Share(u, run'[u]) ELSE 0
          /\ pc'[u] = "done" <=> run'[u] > LastRun
    BY <2>1, <2>2, <2>3
  <2> QED
    BY <1>6, <2>4 DEF IterLeft
<1>8. ASSUME NEW r \in 0 .. LastRun, NEW e \in 0 .. NrExec - 1
      PROVE  Over(t, r, e)' <=> Over(t, r, e) \/ (r = run[t] /\ e = exec[t])
  BY <1>3, <1>4, LastRunNat DEF Over
<1>9. pc'[t] \notin saved
  BY <1>2, <1>3
<1>10. ASSUME NEW r \in 0 .. LastRun, NEW e \in 0 .. NrExec - 1,
              r = run'[t], e = exec'[t]
       PROVE  pc'[t] \in before
  BY <1>1, <1>3, <1>4, <1>10, LastRunNat
<1>11. AllCompleted(before)' = AllCompleted(before)
  <2>1. ASSUME NEW u \in Threads, NEW r \in 0 .. LastRun, NEW e \in 0 .. NrExec - 1
        PROVE  Completed(u, r, e, before)' = Completed(u, r, e, before)
    <3>1. CASE u # t
      BY <1>3, <1>6, <3>1 DEF Completed, Over
    <3>2. CASE u = t /\ Over(t, r, e)
      BY <1>6, <1>8, <3>2 DEF Completed
    <3>3. CASE u = t /\ ~Over(t, r, e) /\ r = run[t] /\ e = exec[t]
      <4>1. Completed(t, r, e, before) = Share(t, r) - iter[t]
        BY <1>1, <3>3 DEF Completed
      <4>2. Completed(t, r, e, before)' = Share(t, r)
        BY <1>6, <1>8, <3>3 DEF Completed
      <4> QED
        BY <1>5, <3>3, <4>1, <4>2, ShareNat
    <3>4. CASE u = t /\ ~Over(t, r, e) /\ ~(r = run[t] /\ e = exec[t])
      <4>1. ~Over(t, r, e)'
        BY <1>8, <3>4
      <4>2. ~(r = run'[t] /\ e = exec'[t] /\ pc'[t] \notin before)
        BY <1>10
      <4>3. Completed(t, r, e, before) = 0
        BY <3>4 DEF Completed
      <4>4. Completed(t, r, e, before)' = 0
        BY <4>1, <4>2 DEF Completed
      <4> QED
        BY <3>4, <4>3, <4>4
    <3> QED
      BY <3>1, <3>2, <3>3, <3>4
  <2> QED
    BY <2>1, SameCompleted
<1>12. ASSUME NEW s \in Sampled
       PROVE  IsEntered(s, saved)' <=> IsEntered(s, saved) \/ s = <<run[t], exec[t], t>>
  <2>1. /\ s[1] \in 0 .. LastRun /\ s[2] \in 0 .. NrExec - 1 /\ s[3] \in Threads
        /\ s = <<s[1], s[2], s[3]>>
    BY DEF Sampled
  <2>2. CASE s[3] # t
    BY <1>3, <2>1, <2>2 DEF IsEntered, Over
  <2>3. CASE s[3] = t
    <3>1. IsEntered(s, saved)' <=> Over(t, s[1], s[2])'
      BY <1>9, <2>3 DEF IsEntered
    <3>2. IsEntered(s, saved) =>
            Over(t, s[1], s[2]) \/ (s[1] = run[t] /\ s[2] = exec[t])
      BY <2>3 DEF IsEntered
    <3>3. Over(t, s[1], s[2]) => IsEntered(s, saved)
      BY <2>3 DEF IsEntered
    <3>4. s = <<run[t], exec[t], t>> <=> (s[1] = run[t] /\ s[2] = exec[t])
      BY <2>1, <2>3
    <3> QED
      BY <1>8, <2>1, <3>1, <3>2, <3>3, <3>4
  <2> QED
    BY <2>2, <2>3
<1>13. Entered(saved)' = {s \in Sampled : s \in Entered(saved) \/ s = <<run[t], exec[t], t>>}
  <2>1. Entered(saved)' = {s \in Sampled : IsEntered(s, saved)'}
    BY DEF Entered, Sampled, LastRun
  <2> QED
    BY <1>12, <2>1 DEF Entered
<1>14. samples' = {SampleOf(s) : s \in Entered(saved)'}
  <2>1. CASE pc[t] \notin saved
    BY <1>1, <1>13, <2>1, RecordAdds
  <2>2. CASE pc[t] \in saved
    <3>1. \A s \in Sampled : s = <<run[t], exec[t], t>> => IsEntered(s, saved)
      BY <2>2 DEF IsEntered
    <3>2. Entered(saved)' = Entered(saved)
      BY <1>13, <3>1 DEF Entered
    <3> QED
      BY <1>1, <2>2, <3>2 DEF Account
  <2> QED
    BY <2>1, <2>2
<1> QED
  BY <1>3, <1>7, <1>11, <1>14 DEF Account

\* So the account is true whatever a driver is made of.
LEMMA DriverStepAccount ==
  ASSUME NEW labels, NEW before, NEW work, NEW saved, Kinds(before, work, saved),
         DriverTypeOK(labels), Account(before, work, saved), Counted(work),
         NEW t \in Threads, DriverStep(t, before, work, saved)
  PROVE  Account(before, work, saved)'
<1>1. CASE Quiet(t, before, work, saved)
  BY <1>1, QuietAccount
<1>2. CASE Begins(t, before, work, saved)
  BY <1>2, BeginsAccount
<1>3. CASE Iterates(t, before, work, saved)
  <2>1. iter[t] > 0
    BY <1>3 DEF Iterates, Counted
  <2> QED
    BY <1>3, <2>1, IteratesAccount
<1>4. CASE Enters(t, before, work, saved)
  BY <1>4, EntersAccount
<1>5. CASE GoesOn(t, before, work, saved)
  BY <1>5, GoesOnAccount
<1> QED
  BY <1>1, <1>2, <1>3, <1>4, <1>5 DEF DriverStep

\* A step of which the driver does not know changes nothing in its account.
LEMMA AccountStutters ==
  ASSUME NEW before, NEW work, NEW saved,
         Account(before, work, saved), UNCHANGED driverVars
  PROVE  Account(before, work, saved)'
  BY DEF Account, IterLeft, AllCompleted, Iterations, IsCompleted, Completed, Over, Share,
         TakesPart, NrIn, Entered, Sampled, IsEntered, SampleOf, LastRun, driverVars

\* No two samples have one index.
LEMMA SampleOfUnique ==
  ASSUME NEW s \in Sampled, NEW u \in Sampled, SampleOf(s) = SampleOf(u)
  PROVE  s = u
<1> DEFINE a == NrExec * s[1] + s[2]
           b == NrExec * u[1] + u[2]
<1>1. /\ s[1] \in Nat /\ s[2] \in 0 .. NrExec - 1 /\ s[3] \in 0 .. NrThreads - 1
      /\ s = <<s[1], s[2], s[3]>>
  BY DEF Sampled, Threads
<1>2. /\ u[1] \in Nat /\ u[2] \in 0 .. NrExec - 1 /\ u[3] \in 0 .. NrThreads - 1
      /\ u = <<u[1], u[2], u[3]>>
  BY DEF Sampled, Threads
<1>3. ASSUME NEW x \in Nat, NEW y \in Nat
      PROVE  NrThreads * NrExec * x + NrThreads * y = NrThreads * (NrExec * x + y)
  OBVIOUS
<1>4. SampleOf(s) = NrThreads * a + s[3]
  BY <1>1, <1>3 DEF SampleOf
<1>5. SampleOf(u) = NrThreads * b + u[3]
  BY <1>2, <1>3 DEF SampleOf
<1>6. a \in Nat /\ b \in Nat
  BY <1>1, <1>2
<1> HIDE DEF a, b
<1>7. a = b /\ s[3] = u[3]
  <2>1. NrThreads * a + s[3] = NrThreads * b + u[3]
    BY <1>4, <1>5
  <2>2. s[3] \in 0 .. NrThreads - 1 /\ u[3] \in 0 .. NrThreads - 1
    BY <1>1, <1>2
  <2> QED
    BY <1>6, <2>1, <2>2, DivModUnique
<1>8. s[1] = u[1] /\ s[2] = u[2]
  BY <1>1, <1>2, <1>7, DivModUnique DEF a, b
<1> QED
  BY <1>1, <1>2, <1>7, <1>8

\* Samples are taken of finitely many executions.
LEMMA SampledFinite == IsFiniteSet(Sampled)
<1> DEFINE R == 0 .. LastRun
           E == 0 .. NrExec - 1
           P == (R \X E) \X Threads
           f == [s \in Sampled |-> <<<<s[1], s[2]>>, s[3]>>]
<1>1. IsFiniteSet(R) /\ IsFiniteSet(E) /\ IsFiniteSet(Threads)
  BY LastRunNat, FS_Interval DEF Threads
<1> HIDE DEF R, E
<1>2. IsFiniteSet(R \X E)
  BY <1>1, FS_Product
<1>3. IsFiniteSet(P)
  BY <1>1, <1>2, FS_Product
<1>4. \A s \in Sampled : s[1] \in R /\ s[2] \in E /\ s[3] \in Threads /\ s = <<s[1], s[2], s[3]>>
  BY DEF Sampled, R, E
<1>5. f \in [Sampled -> P]
  BY <1>4
<1>6. \A s, u \in Sampled : f[s] = f[u] => s = u
  BY <1>4
<1> HIDE DEF f, P
<1>7. f \in Injection(Sampled, P)
  BY <1>5, <1>6 DEF Injection, IsInjective
<1> QED
  BY <1>3, <1>7, FS_Injection

\* When all threads have ended, the account is complete: all iterations have
\* been done and all samples are there.
LEMMA AccountComplete ==
  ASSUME NEW labels, NEW before, NEW work, NEW saved,
         DriverTypeOK(labels), Account(before, work, saved)
  PROVE  AllWorkDone /\ NoSampleLost
<1> SUFFICES ASSUME AllDone
             PROVE  /\ worked = NrIter * NrExec * (LastRun + 1)
                    /\ Cardinality(samples) = Cardinality(Sampled)
  BY DEF AllWorkDone, NoSampleLost, Sampled
<1>1. \A t \in Threads : \A r \in 0 .. LastRun : \A e \in 0 .. NrExec - 1 : Over(t, r, e)
  BY DriverTypes DEF AllDone, Account, IterLeft, Over
<1>2. AllCompleted(before) = Iterations
  <2>1. ASSUME NEW x \in Iterations
        PROVE  IsCompleted(x, before)
    <3>1. /\ x[1][1] \in 0 .. LastRun /\ x[1][2] \in 0 .. NrExec - 1 /\ x[2] \in 0 .. NrIter - 1
          /\ x[2] % NrIn(x[1][1]) \in Threads
      BY IterationParts
    <3>2. Completed(x[2] % NrIn(x[1][1]), x[1][1], x[1][2], before)
            = Share(x[2] % NrIn(x[1][1]), x[1][1])
      BY <1>1, <3>1 DEF Completed
    <3>3. x[2] \div NrIn(x[1][1]) < Share(x[2] % NrIn(x[1][1]), x[1][1])
      BY <3>1, SharesCover
    <3> QED
      BY <3>2, <3>3 DEF IsCompleted
  <2> QED
    BY <2>1 DEF AllCompleted
<1>3. worked = NrIter * NrExec * (LastRun + 1)
  BY <1>2, IterationsCount DEF Account
<1>4. Entered(saved) = Sampled
  <2>1. \A s \in Sampled : s[1] \in 0 .. LastRun /\ s[2] \in 0 .. NrExec - 1 /\ s[3] \in Threads
    BY DEF Sampled
  <2> QED
    BY <1>1, <2>1 DEF Entered, IsEntered
<1> DEFINE f == [s \in Sampled |-> SampleOf(s)]
<1>5. samples = {SampleOf(s) : s \in Sampled}
  BY <1>4 DEF Account
<1>6. f \in [Sampled -> samples] /\ \A i \in samples : \E s \in Sampled : f[s] = i
  BY <1>5
<1>7. f \in Injection(Sampled, samples)
  <2>1. \A s, u \in Sampled : f[s] = f[u] => s = u
    BY SampleOfUnique
  <2> HIDE DEF f
  <2> QED
    BY <1>6, <2>1 DEF Injection, IsInjective
<1> HIDE DEF f
<1>8. f \in Surjection(Sampled, samples)
  BY <1>6 DEF Surjection
<1>9. Cardinality(samples) = Cardinality(Sampled)
  BY <1>7, <1>8, SampledFinite, FS_Surjection
<1> QED
  BY <1>3, <1>9

-----------------------------------------------------------------------------
(* The statements of thread_f, as steps of the account. *)

LEMMA QuietStep ==
  ASSUME NEW before, NEW work, NEW saved, NEW t \in Threads, NEW here, NEW there,
         Arrive(t, here, there) \/ Pass(t, here, there) \/ Within(t, here, there),
         here # "done", there # "done", here \in before <=> there \in before,
         here \in work <=> there \in work, here \in saved <=> there \in saved
  PROVE  DriverStep(t, before, work, saved)
  BY DEF Arrive, Pass, Within, Goto, DriverStep, Quiet

LEMMA StartStep ==
  ASSUME NEW labels, NEW before, NEW work, NEW saved, Kinds(before, work, saved),
         DriverTypeOK(labels), NEW t \in Threads,
         NEW here \in before, NEW first \in work, NEW idle,
         idle \notin before \cup work \cup saved \cup {"done"}, Start(t, here, first, idle)
  PROVE  DriverStep(t, before, work, saved)
<1> DEFINE there == IF iter'[t] > 0 THEN first ELSE idle
<1>1. /\ pc[t] = here /\ pc' = [pc EXCEPT ![t] = there]
      /\ iter' = [iter EXCEPT ![t] = IF Participates(t) THEN IterPerThread(t) ELSE 0]
      /\ UNCHANGED <<run, exec, samples, worked>>
  BY DEF Start, Goto
<1>2. there \notin before \cup saved \cup {"done"} /\ (there \in work <=> iter'[t] > 0)
  BY DEF Kinds
<1> QED
  BY <1>1, <1>2 DEF DriverStep, Begins

LEMMA EndIterationStep ==
  ASSUME NEW before, NEW work, NEW saved, Kinds(before, work, saved),
         NEW t \in Threads, NEW here \in work, NEW again \in work, NEW out,
         out \notin before \cup work \cup saved \cup {"done"},
         EndIteration(t, here, again, out)
  PROVE  DriverStep(t, before, work, saved)
<1> DEFINE there == IF iter[t] > 1 THEN again ELSE out
<1>1. there \notin before \cup saved \cup {"done"} /\ (there \in work <=> iter[t] > 1)
  BY DEF Kinds
<1>2. Goto(t, here, there)
  BY DEF EndIteration
<1> HIDE DEF there
<1> QED
  BY <1>1, <1>2 DEF EndIteration, Goto, DriverStep, Iterates

LEMMA NextExecStep ==
  ASSUME NEW before, NEW work, NEW saved, Kinds(before, work, saved),
         NEW t \in Threads, NEW here, NEW first \in before,
         here \notin before \cup work \cup {"done"}, NextExec(t, here, first),
         IF here \in saved THEN UNCHANGED samples ELSE Record(t)
  PROVE  DriverStep(t, before, work, saved)
<1> DEFINE there == IF exec[t] + 1 < NrExec \/ run[t] < LastRun THEN first ELSE "done"
<1>1. /\ there \in before \cup {"done"}
      /\ there = "done" <=> ~(exec[t] + 1 < NrExec \/ run[t] < LastRun)
  BY DEF Kinds
<1>2. Goto(t, here, there)
  BY DEF NextExec
<1> HIDE DEF there
<1> QED
  BY <1>1, <1>2 DEF NextExec, Goto, DriverStep, GoesOn
=============================================================================
