---------------------------- MODULE QueueProofs ----------------------------
(***************************************************************************)
(* B-Queue, the containers that are a list under a lock, and the lock-free *)
(* queue of Michael and Scott, for any number of pairs, iterations,        *)
(* executions and runs: what the driver's statements preserve, and then of *)
(* each container that it is a queue or a stack.                           *)
(***************************************************************************)
EXTENDS BQueue, ListUnderLock, MSQueue, FiniteSetTheorems, SequenceTheorems,
        NaturalsInduction, WellFoundedInduction, TLAPS

-----------------------------------------------------------------------------
(* The driver *)

\* Types of the driver's variables, where a thread that is not done has a run.
DriverOK(labels) ==
  /\ DriverTypeOK(labels)
  /\ \A t \in Threads : pc[t] # "done" => run[t] <= LastRun

\* A step of the driver's variables that is thread t's.
MovedTo(t, there) ==
  /\ pc'[t] = there
  /\ \A u \in Threads \ {t} : pc'[u] = pc[u]

\* The threads are producers and consumers, one of each to a lane.
LEMMA Lanes ==
  /\ NrPairs \in Nat /\ NrPairs > 0
  /\ Threads = Producers \cup Consumers /\ Producers \cap Consumers = {}
  /\ \A t \in Threads : Lane(t) \in Producers
  /\ \A t \in Producers : Lane(t) = t
  /\ \A t \in Consumers : t = NrPairs + Lane(t)
  /\ \A l \in Producers : NrPairs + l \in Consumers /\ Lane(NrPairs + l) = l
  BY NrPairsAssumption DEF Threads, Producers, Consumers, Lane

\* There is at least one run.
LEMMA RunsExist == LastRun \in Nat
  BY NrPairsAssumption, ScRunsAssumption DEF LastRun

\* Division as the split of the iterations uses it.
LEMMA Division ==
  ASSUME NEW n \in Nat, NEW m \in Nat \ {0}
  PROVE  n = m * (n \div m) + (n % m) /\ n \div m \in Nat /\ n % m \in Nat
         /\ n % m < m
  OBVIOUS

\* Nobody is given more than --iterations in an execution.
LEMMA ShareRange ==
  ASSUME NEW t, NEW number \in Nat, run[t] \in Nat
  PROVE  IterPerThread(t, number) \in 0 .. NrIter
<1> DEFINE nr == IF ScRuns THEN run[t] + 1 ELSE NrPairs
           q == NrIter \div nr
           r == NrIter % nr
<1>1. nr \in Nat \ {0} /\ NrIter \in Nat
  BY NrPairsAssumption, NrIterAssumption
<1> HIDE DEF nr
<1>2. NrIter = nr * q + r /\ q \in Nat /\ r \in Nat /\ r < nr
  BY <1>1, Division
<1>3. IterPerThread(t, number) = q + (IF number < r THEN 1 ELSE 0)
  BY DEF IterPerThread, nr
<1> HIDE DEF q, r
<1>4. q <= nr * q /\ nr * q \in Nat
  BY <1>1, <1>2
<1>5. QED
  BY <1>1, <1>2, <1>3, <1>4

\* At the beginning all threads are at the first label.
LEMMA DriverBegins ==
  ASSUME NEW labels, NEW first \in labels, DriverInit(first)
  PROVE  DriverOK(labels)
<1>1. LastRun \in Nat /\ NrExec \in Nat \ {0} /\ NrIter \in Nat
  BY RunsExist, NrExecAssumption, NrIterAssumption
<1>2. QED
  BY <1>1 DEF DriverInit, DriverOK, DriverTypeOK

\* A jump, ...
LEMMA GotoOK ==
  ASSUME NEW labels, DriverOK(labels), NEW t \in Threads, NEW here, NEW there,
         Goto(t, here, there), there \in labels \cup {"done"}
  PROVE  pc' \in [Threads -> labels \cup {"done"}] /\ MovedTo(t, there) /\ pc[t] = here
  BY DEF Goto, MovedTo, DriverOK, DriverTypeOK

\* ... a statement of the data structure, ...
LEMMA WithinOK ==
  ASSUME NEW labels, DriverOK(labels), NEW t \in Threads, NEW here, NEW there,
         Within(t, here, there), here # "done", there \in labels
  PROVE  DriverOK(labels)' /\ MovedTo(t, there) /\ pc[t] = here
<1>1. pc' \in [Threads -> labels \cup {"done"}] /\ MovedTo(t, there) /\ pc[t] = here
  BY GotoOK DEF Within
<1>2. QED
  BY <1>1 DEF Within, MovedTo, DriverOK, DriverTypeOK

\* ... the arrival at the barrier, ...
LEMMA ArriveOK ==
  ASSUME NEW labels, DriverOK(labels), NEW t \in Threads, NEW here, NEW there,
         Arrive(t, here, there), here # "done", there \in labels
  PROVE  DriverOK(labels)' /\ MovedTo(t, there) /\ pc[t] = here
<1>1. pc' \in [Threads -> labels \cup {"done"}] /\ MovedTo(t, there) /\ pc[t] = here
  BY GotoOK DEF Arrive
<1>2. ctr' \in [Threads -> Nat]
  BY DEF Arrive, DriverOK, DriverTypeOK
<1>3. UNCHANGED <<run, exec, iter>>
  BY DEF Arrive
<1>4. QED
  BY <1>1, <1>2, <1>3 DEF MovedTo, DriverOK, DriverTypeOK

\* ... the entry of sync_producer and sync_consumer, which brings a thread to its
\* work if it has any, ...
LEMMA StartOK ==
  ASSUME NEW labels, DriverOK(labels), NEW t \in Threads, NEW here, NEW iterations,
         NEW work, NEW none, Start(t, here, iterations, work, none, none),
         here # "done", iterations \in 0 .. NrIter,
         work \in labels, none \in labels, work # none
  PROVE  /\ DriverOK(labels)' /\ pc[t] = here
         /\ MovedTo(t, work) \/ MovedTo(t, none)
         /\ pc'[t] = work => iter'[t] = iterations /\ iterations > 0
         /\ \A u \in Threads \ {t} : iter'[u] = iter[u]
<1>1. PICK there : /\ there \in {work, none} /\ Goto(t, here, there)
                   /\ there = work => Participates(t) /\ iterations > 0
  BY DEF Start
<1>2. pc' \in [Threads -> labels \cup {"done"}] /\ MovedTo(t, there) /\ pc[t] = here
  BY <1>1, GotoOK
<1>3. /\ iter' \in [Threads -> 0 .. NrIter]
      /\ Participates(t) => iter'[t] = iterations
      /\ \A u \in Threads \ {t} : iter'[u] = iter[u]
  BY NrIterAssumption DEF Start, DriverOK, DriverTypeOK
<1>4. DriverOK(labels)'
  BY <1>2, <1>3 DEF Start, MovedTo, DriverOK, DriverTypeOK
<1>5. QED
  BY <1>1, <1>2, <1>3, <1>4 DEF MovedTo

\* ... the end of an iteration ...
LEMMA EndIterationOK ==
  ASSUME NEW labels, DriverOK(labels), NEW t \in Threads, NEW here, NEW again, NEW out,
         EndIteration(t, here, again, out), here # "done",
         again \in labels, out \in labels, again # out
  PROVE  /\ DriverOK(labels)' /\ pc[t] = here
         /\ MovedTo(t, again) \/ MovedTo(t, out)
         /\ pc'[t] = again => iter[t] > 1 /\ iter'[t] = iter[t] - 1
         /\ \A u \in Threads \ {t} : iter'[u] = iter[u]
<1>1. PICK there : /\ there = IF iter[t] > 1 THEN again ELSE out
                   /\ Goto(t, here, there)
  BY DEF EndIteration
<1>2. pc' \in [Threads -> labels \cup {"done"}] /\ MovedTo(t, there) /\ pc[t] = here
  BY <1>1, GotoOK
<1>3. /\ iter' \in [Threads -> 0 .. NrIter]
      /\ iter[t] > 1 => iter'[t] = iter[t] - 1
      /\ \A u \in Threads \ {t} : iter'[u] = iter[u]
  BY NrIterAssumption DEF EndIteration, DriverOK, DriverTypeOK
<1>4. DriverOK(labels)'
  BY <1>2, <1>3 DEF EndIteration, MovedTo, DriverOK, DriverTypeOK
<1>5. QED
  BY <1>1, <1>2, <1>3, <1>4 DEF MovedTo

\* ... and the loops over runs and executions keep these types.
LEMMA NextExecOK ==
  ASSUME NEW labels, DriverOK(labels), NEW t \in Threads, NEW here, NEW first,
         NextExec(t, here, first), here # "done", first \in labels
  PROVE  DriverOK(labels)' /\ pc[t] = here /\ (MovedTo(t, first) \/ MovedTo(t, "done"))
<1>1. PICK there : /\ there = IF exec[t] + 1 < NrExec \/ run[t] < LastRun THEN first ELSE "done"
                   /\ Goto(t, here, there)
  BY DEF NextExec
<1>2. pc' \in [Threads -> labels \cup {"done"}] /\ MovedTo(t, there) /\ pc[t] = here
  BY <1>1, GotoOK
<1>3. run[t] <= LastRun /\ run[t] \in Nat /\ exec[t] \in 0 .. NrExec - 1 /\ LastRun \in Nat
  BY <1>2, RunsExist DEF DriverOK, DriverTypeOK
<1>4. exec' \in [Threads -> 0 .. NrExec - 1]
  BY <1>3, NrExecAssumption DEF NextExec, DriverOK, DriverTypeOK
<1>5. /\ run' \in [Threads -> 0 .. LastRun + 1]
      /\ run'[t] = IF exec[t] + 1 < NrExec THEN run[t] ELSE run[t] + 1
      /\ \A u \in Threads \ {t} : run'[u] = run[u]
  BY <1>3 DEF NextExec, DriverOK, DriverTypeOK
<1>6. there # "done" => run'[t] <= LastRun
  BY <1>1, <1>3, <1>5
<1>7. \A u \in Threads : pc'[u] # "done" => run'[u] <= LastRun
  BY <1>2, <1>5, <1>6 DEF MovedTo, DriverOK
<1>8. ctr' \in [Threads -> Nat] /\ iter' \in [Threads -> 0 .. NrIter]
  BY DEF NextExec, DriverOK, DriverTypeOK
<1>9. QED
  BY <1>1, <1>2, <1>4, <1>5, <1>7, <1>8 DEF DriverOK, DriverTypeOK

-----------------------------------------------------------------------------
(* B-Queue *)

CONSTANT Observed   \* any of the pairs

\* A batch is shorter than the ring (fifo.h: QUEUE_SIZE / 16).
RingSetting ==
  /\ QueueSize \in Nat \ {0} /\ BatchIncrement \in Nat /\ Batched \in BOOLEAN
  /\ ProdBatch \in 1 .. QueueSize - 1 /\ ConsBatch \in 1 .. QueueSize - 1
  /\ Observed \in Pairs

\* The place i places after place b, around the ring.
After(b, i) == IF b + i >= QueueSize THEN b + i - QueueSize ELSE b + i

\* Of pair l, the n places from tail on are those with an item.
HasFromTail(l, n) == \A i \in Places : data[l][After(tail[l], i)] # 0 <=> i < n

\* The items of pair l are in n places from tail on, up to head; d places are
\* left of the producer's batch, and e of the consumer's.  What a batch has left
\* is free, and one place more, or filled.
RingHolds(l, n, d, e) ==
  /\ HasFromTail(l, n)
  /\ front[l] = After(tail[l], n)
  /\ pc[l] = "store" => n < QueueSize
  /\ pc[NrPairs + l] \in {"load", "clear"} => n >= 1
  /\ Batched =>
       /\ batchFront[l] = After(front[l], d)
       /\ d >= 1 => d + n < QueueSize
       /\ pc[l] = "store" => d >= 1
       /\ batchTail[l] = After(tail[l], e) /\ e <= n
       /\ pc[NrPairs + l] \in {"load", "clear"} => e >= 1

RingInOrder == \A l \in Pairs : \E n \in 0 .. QueueSize, d, e \in Places : RingHolds(l, n, d, e)

\* The number of an item, which is what is stored, is not zero.
Numbered == \A l \in Pairs : pc[l] \in {"enqueue", "store"} => iter[l] \in 1 .. RingShare(l)

RingTypes ==
  /\ data \in [Pairs -> [Places -> 0 .. NrIter]]
  /\ front \in [Pairs -> Places] /\ batchFront \in [Pairs -> Places]
  /\ tail \in [Pairs -> Places] /\ batchTail \in [Pairs -> Places]
  /\ history \in [Pairs -> 0 .. ConsBatch]
  /\ probe \in [Pairs -> Places]
  /\ size \in [Pairs -> 0 .. ConsBatch]
  /\ value \in [Pairs -> 0 .. NrIter]

RingIInv == DriverOK(RingLabels) /\ RingTypes /\ Numbered /\ RingInOrder

\* Going around the ring.
LEMMA Around ==
  ASSUME RingSetting, NEW b \in Places
  PROVE  /\ \A i \in 0 .. QueueSize : After(b, i) \in Places
         /\ \A i, j \in Places : After(b, i) = After(b, j) => i = j
         /\ \A p \in Places : \E i \in Places : p = After(b, i)
         /\ \A i \in 0 .. QueueSize - 1 : Wrap(After(b, i) + 1) = After(b, i + 1)
         /\ Wrap(b + 1) \in Places
         /\ \A i \in 0 .. QueueSize - 1 : After(Wrap(b + 1), i) = After(b, i + 1)
         /\ After(b, 0) = b /\ After(b, QueueSize) = b
<1>1. QueueSize \in Nat \ {0} /\ b \in 0 .. QueueSize - 1
  BY DEF RingSetting, Places
<1>2. ASSUME NEW p \in Places PROVE \E i \in Places : p = After(b, i)
  <2>1. p \in 0 .. QueueSize - 1
    BY DEF Places
  <2>2. CASE p >= b
    <3>1. p - b \in Places /\ p = After(b, p - b)
      BY <1>1, <2>1, <2>2 DEF Places, After
    <3>2. QED
      BY <3>1
  <2>3. CASE p < b
    <3>1. p + QueueSize - b \in Places /\ p = After(b, p + QueueSize - b)
      BY <1>1, <2>1, <2>3 DEF Places, After
    <3>2. QED
      BY <3>1
  <2>4. QED
    BY <1>1, <2>1, <2>2, <2>3
<1>3. \A i \in 0 .. QueueSize : After(b, i) \in Places
  BY <1>1 DEF After, Places
<1>4. \A i, j \in Places : After(b, i) = After(b, j) => i = j
  BY <1>1 DEF After, Places
<1>5. \A i \in 0 .. QueueSize - 1 : Wrap(After(b, i) + 1) = After(b, i + 1)
  BY <1>1 DEF After, Wrap
<1>6. Wrap(b + 1) \in Places /\ \A i \in 0 .. QueueSize - 1 : After(Wrap(b + 1), i) = After(b, i + 1)
  BY <1>1 DEF After, Wrap, Places
<1>7. After(b, 0) = b /\ After(b, QueueSize) = b
  BY <1>1 DEF After
<1>8. QED
  BY <1>2, <1>3, <1>4, <1>5, <1>6, <1>7

\* At the beginning everything is empty.
LEMMA RingBegins == ASSUME RingSetting PROVE RingInit => RingIInv
<1> SUFFICES ASSUME RingInit PROVE RingIInv
  OBVIOUS
<1>1. DriverOK(RingLabels)
  <2>1. "arrive" \in RingLabels /\ DriverInit("arrive")
    BY DEF RingLabels, RingInit
  <2>2. QED
    BY <2>1, DriverBegins
<1>2. QueueSize \in Nat \ {0} /\ 0 \in Places /\ ConsBatch \in Nat /\ NrIter \in Nat
  BY NrIterAssumption DEF RingSetting, Places
<1>3. RingTypes
  BY <1>2 DEF RingInit, RingTypes
<1>4. \A l \in Pairs : pc[l] = "arrive" /\ pc[NrPairs + l] = "arrive"
  BY Lanes DEF RingInit, DriverInit, Pairs, Producers
<1>5. ASSUME NEW l \in Pairs PROVE RingHolds(l, 0, 0, 0)
  <2>1. After(0, 0) = 0 /\ \A i \in Places : After(0, i) \in Places
    BY <1>2, Around DEF Places
  <2>2. \A i \in Places : data[l][After(tail[l], i)] = 0 /\ ~(i < 0)
    BY <1>2, <2>1 DEF RingInit, Places
  <2>3. /\ front[l] = 0 /\ tail[l] = 0 /\ batchFront[l] = 0 /\ batchTail[l] = 0
    BY DEF RingInit
  <2>4. QED
    BY <1>2, <1>4, <2>1, <2>2, <2>3 DEF RingHolds, HasFromTail
<1>6. QED
  BY <1>1, <1>2, <1>3, <1>4, <1>5 DEF RingIInv, RingInOrder, Numbered

\* A step leaves alone what RingHolds says of pair l.
SamePair(l) ==
  /\ data'[l] = data[l] /\ front'[l] = front[l] /\ tail'[l] = tail[l]
  /\ batchFront'[l] = batchFront[l] /\ batchTail'[l] = batchTail[l]
  /\ pc'[l] = "store" => pc[l] = "store"
  /\ pc'[NrPairs + l] \in {"load", "clear"} => pc[NrPairs + l] \in {"load", "clear"}

LEMMA SamePairHolds ==
  ASSUME RingInOrder, NEW l \in Pairs, SamePair(l)
  PROVE  (\E n \in 0 .. QueueSize, d, e \in Places : RingHolds(l, n, d, e))'
<1>1. PICK n \in 0 .. QueueSize, d \in Places, e \in Places : RingHolds(l, n, d, e)
  BY DEF RingInOrder
<1>2. RingHolds(l, n, d, e)'
  BY <1>1 DEF RingHolds, HasFromTail, SamePair, After
<1>3. QED
  BY <1>2 DEF Places

\* The other pairs do not notice a step of thread t.
LEMMA OtherPairs ==
  ASSUME RingInOrder, NEW t \in Threads, NEW l \in Pairs, l # Lane(t),
         \A u \in Threads \ {t} : pc'[u] = pc[u],
         data'[l] = data[l] /\ front'[l] = front[l] /\ tail'[l] = tail[l],
         batchFront'[l] = batchFront[l] /\ batchTail'[l] = batchTail[l]
  PROVE  (\E n \in 0 .. QueueSize, d, e \in Places : RingHolds(l, n, d, e))'
<1>1. l \in Threads \ {t} /\ NrPairs + l \in Threads \ {t}
  BY Lanes DEF Pairs, Producers
<1>2. SamePair(l)
  BY <1>1 DEF SamePair
<1>3. QED
  BY <1>2, SamePairHolds

\* A share depends on the run alone.
LEMMA SameShare ==
  ASSUME NEW l, run'[l] = run[l]
  PROVE  RingShare(l)' = RingShare(l)
  BY DEF RingShare, IterPerThread

\* A share is at most what is asked for.
LEMMA RingShareRange ==
  ASSUME NEW t \in Threads, DriverOK(RingLabels)
  PROVE  RingShare(t) \in 0 .. NrIter
<1>1. Lane(t) \in Nat /\ t \in Nat
  BY Lanes DEF Producers, Threads
<1>2. run[t] \in Nat
  BY RunsExist DEF DriverOK, DriverTypeOK
<1>3. QED
  BY <1>1, <1>2, ShareRange DEF RingShare

\* A step within an operation does not change the number of its item.
LEMMA WithinNumbered ==
  ASSUME Numbered, DriverOK(RingLabels), NEW t \in Threads, NEW here, NEW there,
         MovedTo(t, there), pc[t] = here,
         UNCHANGED <<run, iter>>,
         there \in {"enqueue", "store"} => here \in {"enqueue", "store"}
  PROVE  Numbered'
<1> SUFFICES ASSUME NEW l \in Pairs, pc'[l] \in {"enqueue", "store"}
             PROVE  (iter[l] \in 1 .. RingShare(l))'
  BY DEF Numbered
<1>1. l \in Threads
  BY Lanes DEF Pairs, Producers
<1>2. pc[l] \in {"enqueue", "store"}
  BY <1>1 DEF MovedTo
<1>3. RingShare(l)' = RingShare(l)
  BY SameShare
<1>4. QED
  BY <1>2, <1>3 DEF Numbered

\* The barrier and the loops of the driver.
LEMMA RingDriverStep ==
  ASSUME RingIInv, RingSetting, NEW t \in Threads,
         RingArrive(t) \/ RingStart(t) \/ RingEndExec(t)
  PROVE  RingIInv'
<1>1. DriverOK(RingLabels) /\ RingTypes /\ Numbered /\ RingInOrder
  BY DEF RingIInv
<1>2. UNCHANGED <<data, producerVars, consumerVars>>
  BY DEF RingArrive, RingStart, RingEndExec
<1>3. RingTypes'
  BY <1>1, <1>2 DEF RingTypes, producerVars, consumerVars
<1>4. /\ DriverOK(RingLabels)'
      /\ \A u \in Threads \ {t} : pc'[u] = pc[u]
      /\ pc'[t] \notin {"store", "load", "clear"}
      /\ Numbered'
  <2>1. CASE RingArrive(t)
    <3>1. Arrive(t, "arrive", "wait") /\ "wait" \in RingLabels
      BY <2>1 DEF RingArrive, RingLabels
    <3>2. DriverOK(RingLabels)' /\ MovedTo(t, "wait") /\ pc[t] = "arrive"
      BY <1>1, <3>1, ArriveOK
    <3>3. Numbered'
      BY <1>1, <3>1, <3>2, WithinNumbered DEF Arrive
    <3>4. QED
      BY <3>2, <3>3 DEF MovedTo
  <2>2. CASE RingStart(t)
    <3> DEFINE work == IF t \in Producers THEN "enqueue" ELSE "dequeue"
    <3>1. Start(t, "wait", RingShare(t), work, "end", "end")
          /\ work \in RingLabels /\ "end" \in RingLabels /\ work # "end"
      BY <2>2 DEF RingStart, RingLabels
    <3>2. RingShare(t) \in 0 .. NrIter /\ NrIter \in Nat
      BY <1>1, RingShareRange, NrIterAssumption
    <3>3. /\ DriverOK(RingLabels)' /\ pc[t] = "wait"
          /\ MovedTo(t, work) \/ MovedTo(t, "end")
          /\ pc'[t] = work => iter'[t] = RingShare(t) /\ RingShare(t) > 0
          /\ \A u \in Threads \ {t} : iter'[u] = iter[u]
      <4> HIDE DEF work
      <4>1. QED
        BY <1>1, <3>1, <3>2, StartOK
    <3>4. run' = run
      BY <3>1 DEF Start
    <3>5. ASSUME NEW l \in Pairs, pc'[l] \in {"enqueue", "store"}
          PROVE  (iter[l] \in 1 .. RingShare(l))'
      <4>1. l \in Threads /\ RingShare(l)' = RingShare(l)
        BY <3>4, Lanes, SameShare DEF Pairs, Producers
      <4>2. CASE l = t
        <5>1. pc'[t] = work
          BY <3>3, <3>5, <4>2 DEF MovedTo
        <5>2. iter'[l] = RingShare(l) /\ RingShare(l) > 0
          BY <3>3, <4>2, <5>1
        <5>3. QED
          BY <3>2, <4>1, <4>2, <5>2
      <4>3. CASE l # t
        <5>1. pc[l] \in {"enqueue", "store"} /\ iter'[l] = iter[l]
          BY <3>3, <3>5, <4>1, <4>3 DEF MovedTo
        <5>2. QED
          BY <1>1, <4>1, <5>1 DEF Numbered
      <4>4. QED
        BY <4>2, <4>3
    <3>6. QED
      BY <3>3, <3>5 DEF MovedTo, Numbered
  <2>3. CASE RingEndExec(t)
    <3>1. NextExec(t, "end", "arrive") /\ "arrive" \in RingLabels
      BY <2>3 DEF RingEndExec, RingLabels
    <3>2. DriverOK(RingLabels)' /\ pc[t] = "end" /\ (MovedTo(t, "arrive") \/ MovedTo(t, "done"))
      BY <1>1, <3>1, NextExecOK
    <3>3. iter' = iter /\ \A u \in Threads \ {t} : run'[u] = run[u]
      BY <1>1, <3>1 DEF NextExec, DriverOK, DriverTypeOK
    <3>4. ASSUME NEW l \in Pairs, pc'[l] \in {"enqueue", "store"}
          PROVE  (iter[l] \in 1 .. RingShare(l))'
      <4>1. l \in Threads
        BY Lanes DEF Pairs, Producers
      <4>2. l # t
        BY <3>2, <3>4 DEF MovedTo
      <4>3. pc[l] \in {"enqueue", "store"} /\ RingShare(l)' = RingShare(l)
        BY <3>2, <3>3, <3>4, <4>1, <4>2, SameShare DEF MovedTo
      <4>4. QED
        BY <1>1, <3>3, <4>3 DEF Numbered
    <3>5. QED
      BY <3>2, <3>4 DEF MovedTo, Numbered
  <2>4. QED
    BY <2>1, <2>2, <2>3
<1>5. ASSUME NEW l \in Pairs PROVE SamePair(l)
  <2>1. l \in Threads /\ NrPairs + l \in Threads
    BY Lanes DEF Pairs, Producers
  <2>2. QED
    BY <1>2, <1>4, <2>1 DEF SamePair, producerVars, consumerVars
<1>6. RingInOrder'
  BY <1>1, <1>5, SamePairHolds DEF RingInOrder
<1>7. QED
  BY <1>3, <1>4, <1>6 DEF RingIInv

\* Going on after a place that is itself some way on.
LEMMA AfterAfter ==
  ASSUME RingSetting, NEW b \in Places, NEW n \in 0 .. QueueSize, NEW d \in Places
  PROVE  After(After(b, n), d)
           = IF n + d >= QueueSize THEN After(b, n + d - QueueSize) ELSE After(b, n + d)
<1>1. QueueSize \in Nat \ {0} /\ b \in 0 .. QueueSize - 1 /\ d \in 0 .. QueueSize - 1
  BY DEF RingSetting, Places
<1>2. QED
  BY <1>1 DEF After

\* A step of thread t within an operation that touches its own pair alone.
LEMMA RingStepOf ==
  ASSUME RingIInv, NEW t \in Threads, NEW here, NEW there,
         MovedTo(t, there), pc[t] = here, DriverOK(RingLabels)', RingTypes', Numbered',
         \A l \in Pairs \ {Lane(t)} :
           /\ data'[l] = data[l] /\ front'[l] = front[l] /\ tail'[l] = tail[l]
           /\ batchFront'[l] = batchFront[l] /\ batchTail'[l] = batchTail[l],
         (\E n \in 0 .. QueueSize, d, e \in Places : RingHolds(Lane(t), n, d, e))'
  PROVE  RingIInv'
<1>1. ASSUME NEW l \in Pairs
      PROVE  (\E n \in 0 .. QueueSize, d, e \in Places : RingHolds(l, n, d, e))'
  <2>1. CASE l = Lane(t)
    BY <2>1
  <2>2. CASE l # Lane(t)
    BY <2>2, OtherPairs DEF MovedTo, RingIInv
  <2>3. QED
    BY <2>1, <2>2
<1>2. QED
  BY <1>1 DEF RingIInv, RingInOrder

\* A producer that goes on to the store has a free place there: its batch has
\* one left, or the place it has looked at is free, and so are those before.
LEMMA ProbeFreeStep ==
  ASSUME RingIInv, RingSetting, NEW l \in Threads, ProbeFree(l)
  PROVE  RingIInv'
<1>1. DriverOK(RingLabels) /\ RingTypes /\ Numbered /\ RingInOrder
  BY DEF RingIInv
<1>2. l \in Pairs /\ Lane(l) = l /\ NrPairs + l \in Threads \ {l}
  BY Lanes DEF ProbeFree, Pairs, Producers
<1>3. /\ Within(l, "enqueue", "store") /\ "store" \in RingLabels
      /\ UNCHANGED <<data, front, tail, batchTail, history, probe, size, value>>
  BY DEF ProbeFree, RingLabels, consumerVars
<1>4. DriverOK(RingLabels)' /\ MovedTo(l, "store") /\ pc[l] = "enqueue"
  BY <1>1, <1>3, WithinOK
<1>5. Numbered'
  BY <1>1, <1>3, <1>4, WithinNumbered DEF Within
<1>6. QueueSize \in Nat \ {0} /\ ProdBatch \in 1 .. QueueSize - 1 /\ front[l] \in 0 .. QueueSize - 1
      /\ batchFront[l] \in Places /\ tail[l] \in Places /\ front[l] \in Places
  BY <1>1, <1>2 DEF RingSetting, RingTypes, Places
<1>7. ProbePlace(l) \in Places /\ (Batched => ProbePlace(l) # front[l])
  BY <1>6 DEF ProbePlace, Wrap, Places
<1>8. /\ batchFront' \in [Pairs -> Places]
      /\ \A m \in Pairs \ {l} : batchFront'[m] = batchFront[m]
      /\ \/ /\ Batched /\ front[l] # batchFront[l]
            /\ batchFront'[l] = batchFront[l]
         \/ /\ Batched => front[l] = batchFront[l]
            /\ data[l][ProbePlace(l)] = 0
            /\ batchFront'[l] = IF Batched THEN ProbePlace(l) ELSE batchFront[l]
  BY <1>1, <1>2, <1>7 DEF ProbeFree, RingTypes
<1>9. RingTypes'
  BY <1>1, <1>3, <1>8 DEF RingTypes
<1>10. PICK n \in 0 .. QueueSize, d \in Places, e \in Places : RingHolds(l, n, d, e)
  BY <1>1, <1>2 DEF RingInOrder
<1>11. /\ \A i \in Places : data[l][After(tail[l], i)] # 0 <=> i < n
       /\ front[l] = After(tail[l], n)
       /\ pc[NrPairs + l] \in {"load", "clear"} => n >= 1
       /\ Batched =>
            /\ batchFront[l] = After(front[l], d)
            /\ d >= 1 => d + n < QueueSize
            /\ batchTail[l] = After(tail[l], e) /\ e <= n
            /\ pc[NrPairs + l] \in {"load", "clear"} => e >= 1
  BY <1>10 DEF RingHolds, HasFromTail
<1>12. \E d2 \in Places : /\ n < QueueSize
                          /\ Batched => /\ batchFront'[l] = After(front[l], d2)
                                        /\ d2 + n < QueueSize /\ d2 >= 1
  <2>1. After(front[l], 0) = front[l] /\ 0 \in Places
    <3>1. 0 \in Places
      BY <1>6 DEF Places
    <3>2. \A b \in Places : After(b, 0) = b
      BY Around
    <3>3. QED
      BY <1>6, <3>1, <3>2
  <2>2. CASE Batched /\ front[l] # batchFront[l]
    <3>1. d >= 1
      BY <1>11, <2>1, <2>2 DEF Places
    <3>2. QED
      BY <1>6, <1>8, <1>11, <2>2, <3>1 DEF Places
  <2>3. CASE Batched /\ front[l] = batchFront[l]
    <3>1. PICK d2 \in Places : ProbePlace(l) = After(front[l], d2)
      <4>1. PICK b \in Places : b = front[l]
        BY <1>6
      <4>2. \A p \in Places : \E i \in Places : p = After(b, i)
        BY Around
      <4>3. QED
        BY <1>7, <4>1, <4>2
    <3>2. d2 \in 0 .. QueueSize - 1 /\ d2 # 0
      BY <1>7, <2>1, <2>3, <3>1 DEF Places
    <3>3. d2 + n < QueueSize
      <4>1. SUFFICES ASSUME n + d2 >= QueueSize PROVE FALSE
        BY <1>6, <3>2
      <4>2. ProbePlace(l) = After(tail[l], n + d2 - QueueSize)
        BY <1>6, <1>11, <3>1, <4>1, AfterAfter
      <4>3. n + d2 - QueueSize \in Places /\ n + d2 - QueueSize < n
        BY <1>6, <3>2, <4>1 DEF Places
      <4>4. data[l][ProbePlace(l)] # 0
        BY <1>11, <4>2, <4>3
      <4>5. QED
        BY <1>8, <2>3, <4>4
    <3>4. n < QueueSize /\ d2 >= 1
      BY <1>6, <3>2, <3>3
    <3>5. QED
      BY <1>8, <2>3, <3>1, <3>3, <3>4
  <2>4. CASE ~Batched
    <3>1. data[l][front[l]] = 0
      BY <1>8, <2>4 DEF ProbePlace
    <3>2. n # QueueSize
      <4>1. SUFFICES ASSUME n = QueueSize PROVE FALSE
        OBVIOUS
      <4>2. front[l] = After(tail[l], 0)
        BY <1>6, <1>11, <4>1, Around
      <4>3. QED
        BY <1>6, <1>11, <2>1, <3>1, <4>1, <4>2
    <3>3. QED
      BY <1>6, <2>1, <2>4, <3>2
  <2>5. QED
    BY <2>2, <2>3, <2>4
<1>13. PICK d2 \in Places : /\ n < QueueSize
                            /\ Batched => /\ batchFront'[l] = After(front[l], d2)
                                          /\ d2 + n < QueueSize /\ d2 >= 1
  BY <1>12
<1>14. pc'[l] = "store" /\ pc'[NrPairs + l] = pc[NrPairs + l]
  BY <1>2, <1>4 DEF MovedTo
<1>15. RingHolds(l, n, d2, e)'
  BY <1>3, <1>11, <1>13, <1>14 DEF RingHolds, HasFromTail, After
<1>16. (\E n2 \in 0 .. QueueSize, d3, e2 \in Places : RingHolds(Lane(l), n2, d3, e2))'
  BY <1>2, <1>15 DEF Places
<1>17. QED
  BY <1>2, <1>3, <1>4, <1>5, <1>8, <1>9, <1>16, RingStepOf

\* The item goes to the first free place, which then belongs to the contents.
LEMMA StoreStep ==
  ASSUME RingIInv, RingSetting, NEW l \in Producers, Store(l)
  PROVE  RingIInv' /\ tail' = tail /\ \E n \in 0 .. QueueSize - 1 :
           /\ HasFromTail(l, n) /\ HasFromTail(l, n + 1)'
           /\ \E v \in 1 .. NrIter : data' = [data EXCEPT ![l][After(tail[l], n)] = v]
<1>1. DriverOK(RingLabels) /\ RingTypes /\ Numbered /\ RingInOrder
  BY DEF RingIInv
<1>2. l \in Pairs /\ l \in Threads /\ Lane(l) = l /\ NrPairs + l \in Threads \ {l}
  BY Lanes DEF Pairs, Producers
<1>3. /\ EndIteration(l, "store", "enqueue", "end")
      /\ "enqueue" \in RingLabels /\ "end" \in RingLabels
      /\ UNCHANGED <<batchFront, tail, batchTail, history, probe, size, value>>
  BY DEF Store, RingLabels, consumerVars
<1>4. /\ DriverOK(RingLabels)' /\ pc[l] = "store"
      /\ MovedTo(l, "enqueue") \/ MovedTo(l, "end")
      /\ pc'[l] = "enqueue" => iter[l] > 1 /\ iter'[l] = iter[l] - 1
      /\ \A u \in Threads \ {l} : iter'[u] = iter[u]
  BY <1>1, <1>2, <1>3, EndIterationOK
<1>5. run' = run
  BY <1>3 DEF EndIteration
<1>6. Numbered'
  <2> SUFFICES ASSUME NEW m \in Pairs, pc'[m] \in {"enqueue", "store"}
               PROVE  (iter[m] \in 1 .. RingShare(m))'
    BY DEF Numbered
  <2>1. m \in Threads /\ RingShare(m)' = RingShare(m) /\ RingShare(m) \in 0 .. NrIter
        /\ NrIter \in Nat
    BY <1>1, <1>5, Lanes, SameShare, RingShareRange, NrIterAssumption DEF Pairs, Producers
  <2>2. pc[m] \in {"enqueue", "store"}
    BY <1>4, <2>1 DEF MovedTo
  <2>3. iter[m] \in 1 .. RingShare(m)
    BY <1>1, <2>2 DEF Numbered
  <2>4. iter'[m] = iter[m] \/ (iter[m] > 1 /\ iter'[m] = iter[m] - 1)
    BY <1>4, <2>1 DEF MovedTo
  <2>5. QED
    BY <2>1, <2>3, <2>4
<1>7. PICK v : v = RingShare(l) - iter[l] + 1
  OBVIOUS
<1>8. v \in 1 .. NrIter
  <2>1. iter[l] \in 1 .. RingShare(l) /\ RingShare(l) \in 0 .. NrIter /\ NrIter \in Nat
    BY <1>1, <1>2, <1>4, RingShareRange, NrIterAssumption DEF Numbered
  <2>2. QED
    BY <1>7, <2>1
<1>9. QueueSize \in Nat \ {0} /\ front[l] \in Places /\ batchFront[l] \in Places
      /\ tail[l] \in Places
  BY <1>1, <1>2 DEF RingSetting, RingTypes
<1>10. data' = [data EXCEPT ![l][front[l]] = v] /\ front' = [front EXCEPT ![l] = Wrap(front[l] + 1)]
  BY <1>7 DEF Store
<1>11. Wrap(front[l] + 1) \in Places
  BY <1>9, Around
<1>12. RingTypes'
  <2>1. data[l] \in [Places -> 0 .. NrIter] /\ v \in 0 .. NrIter
    BY <1>1, <1>2, <1>8 DEF RingTypes
  <2>2. data' \in [Pairs -> [Places -> 0 .. NrIter]]
    BY <1>1, <1>2, <1>9, <1>10, <2>1 DEF RingTypes
  <2>3. front' \in [Pairs -> Places]
    BY <1>1, <1>2, <1>10, <1>11 DEF RingTypes
  <2>4. QED
    BY <1>1, <1>3, <2>2, <2>3 DEF RingTypes
<1>13. /\ front'[l] = Wrap(front[l] + 1)
       /\ \A p \in Places : data'[l][p] = IF p = front[l] THEN v ELSE data[l][p]
       /\ \A m \in Pairs \ {l} : data'[m] = data[m] /\ front'[m] = front[m]
  BY <1>1, <1>2, <1>9, <1>10 DEF RingTypes
<1>14. PICK n \in 0 .. QueueSize, d \in Places, e \in Places : RingHolds(l, n, d, e)
  BY <1>1, <1>2 DEF RingInOrder
<1>15. /\ \A i \in Places : data[l][After(tail[l], i)] # 0 <=> i < n
       /\ front[l] = After(tail[l], n)
       /\ n < QueueSize
       /\ pc[NrPairs + l] \in {"load", "clear"} => n >= 1
       /\ Batched =>
            /\ batchFront[l] = After(front[l], d)
            /\ d + n < QueueSize /\ d >= 1
            /\ batchTail[l] = After(tail[l], e) /\ e <= n
            /\ pc[NrPairs + l] \in {"load", "clear"} => e >= 1
  BY <1>4, <1>14 DEF RingHolds, HasFromTail
<1>16. n \in Nat /\ d \in 0 .. QueueSize - 1 /\ e \in 0 .. QueueSize - 1 /\ n \in Places
       /\ n + 1 \in 0 .. QueueSize
  BY <1>9, <1>15 DEF Places
<1>17. PICK b \in Places, h \in Places : b = tail[l] /\ h = front[l]
  BY <1>9
<1>18. front'[l] = After(b, n + 1)
  <2>1. \A i \in 0 .. QueueSize - 1 : Wrap(After(b, i) + 1) = After(b, i + 1)
    BY Around
  <2>2. n \in 0 .. QueueSize - 1
    BY <1>16 DEF Places
  <2>3. Wrap(After(b, n) + 1) = After(b, n + 1)
    BY <2>1, <2>2
  <2>4. QED
    BY <1>13, <1>15, <1>17, <2>3
<1>19. ASSUME NEW i \in Places PROVE data'[l][After(b, i)] # 0 <=> i < n + 1
  <2>1. i \in 0 .. QueueSize - 1 /\ i \in 0 .. QueueSize
    BY <1>9 DEF Places
  <2>2. After(b, i) \in Places
    BY <2>1, Around
  <2>3. After(b, i) = front[l] <=> i = n
    <3>1. \A x, y \in Places : After(b, x) = After(b, y) => x = y
      BY Around
    <3>2. After(b, n) = front[l]
      BY <1>15, <1>17
    <3>3. QED
      BY <1>16, <3>1, <3>2
  <2>4. data'[l][After(b, i)] = IF i = n THEN v ELSE data[l][After(b, i)]
    BY <1>13, <2>2, <2>3
  <2>5. data[l][After(b, i)] # 0 <=> i < n
    BY <1>15, <1>17
  <2>6. v # 0 /\ i \in Int /\ n \in Int
    BY <1>8, <1>16, <2>1
  <2>7. QED
    BY <2>4, <2>5, <2>6
<1>20. PICK d2 : d2 = IF Batched THEN d - 1 ELSE 0
  OBVIOUS
<1>21. d2 \in Places /\ (Batched => After(Wrap(h + 1), d2) = batchFront[l]
                                   /\ d2 + (n + 1) < QueueSize)
  <2>1. CASE Batched
    <3>1. d2 \in 0 .. QueueSize - 1 /\ d2 + 1 = d /\ d2 + (n + 1) < QueueSize
      <4>1. d >= 1 /\ d + n < QueueSize
        BY <1>15, <2>1
      <4>2. d2 = d - 1
        BY <1>20, <2>1
      <4>3. QED
        BY <1>9, <1>16, <4>1, <4>2
    <3>2. After(Wrap(h + 1), d2) = After(h, d2 + 1)
      <4>1. \A i \in 0 .. QueueSize - 1 : After(Wrap(h + 1), i) = After(h, i + 1)
        BY Around
      <4>2. QED
        BY <3>1, <4>1
    <3>3. QED
      BY <1>15, <1>17, <2>1, <3>1, <3>2 DEF Places
  <2>2. CASE ~Batched
    BY <1>9, <1>20, <2>2 DEF Places
  <2>3. QED
    BY <2>1, <2>2
<1>22. pc'[l] # "store" /\ pc'[NrPairs + l] = pc[NrPairs + l]
  BY <1>2, <1>4 DEF MovedTo
<1>23. RingHolds(l, n + 1, d2, e)'
  <2>1. /\ batchFront' = batchFront /\ tail' = tail /\ batchTail' = batchTail
    BY <1>3
  <2>2. \A i \in Places : (data[l][After(tail[l], i)])' # 0 <=> i < n + 1
    BY <1>17, <1>19, <2>1 DEF After
  <2>3. (front[l] = After(tail[l], n + 1))'
    BY <1>17, <1>18, <2>1 DEF After
  <2>4. Batched => /\ (batchFront[l] = After(front[l], d2))'
                   /\ d2 + (n + 1) < QueueSize
    BY <1>13, <1>17, <1>21, <2>1 DEF After
  <2>5. Batched => /\ (batchTail[l] = After(tail[l], e))' /\ e <= n + 1
                   /\ (pc[NrPairs + l] \in {"load", "clear"} => e >= 1)'
    BY <1>15, <1>16, <1>22, <2>1 DEF After
  <2>6. QED
    BY <1>15, <1>16, <1>22, <2>2, <2>3, <2>4, <2>5 DEF RingHolds, HasFromTail
<1>24. (\E n2 \in 0 .. QueueSize, d3, e2 \in Places : RingHolds(Lane(l), n2, d3, e2))'
  BY <1>2, <1>16, <1>21, <1>23 DEF Places
<1>25. RingIInv'
  <2>1. \A m \in Pairs \ {Lane(l)} :
           /\ data'[m] = data[m] /\ front'[m] = front[m] /\ tail'[m] = tail[m]
           /\ batchFront'[m] = batchFront[m] /\ batchTail'[m] = batchTail[m]
    BY <1>2, <1>3, <1>13
  <2>2. CASE MovedTo(l, "enqueue")
    BY <1>2, <1>4, <1>6, <1>12, <1>24, <2>1, <2>2, RingStepOf
  <2>3. CASE MovedTo(l, "end")
    BY <1>2, <1>4, <1>6, <1>12, <1>24, <2>1, <2>3, RingStepOf
  <2>4. QED
    BY <1>4, <2>2, <2>3
<1>26. QED
  <2>1. n \in 0 .. QueueSize - 1
    BY <1>16 DEF Places
  <2>2. HasFromTail(l, n) /\ HasFromTail(l, n + 1)'
    BY <1>14, <1>23 DEF RingHolds, HasFromTail
  <2>3. data' = [data EXCEPT ![l][After(tail[l], n)] = v]
    BY <1>10, <1>15
  <2>4. QED
    BY <1>3, <1>8, <1>25, <2>1, <2>2, <2>3

\* Where a consumer is: lane and number.
LEMMA Consuming ==
  ASSUME NEW t \in Consumers
  PROVE  /\ t \in Threads /\ Lane(t) \in Pairs /\ Lane(t) \in Threads \ {t}
         /\ NrPairs + Lane(t) = t
         /\ \A m \in Pairs : m # t /\ (NrPairs + m = t => m = Lane(t))
<1>1. NrPairs \in Nat \ {0} /\ t \in NrPairs .. 2 * NrPairs - 1
  BY NrPairsAssumption DEF Consumers
<1>2. t \notin Producers /\ Lane(t) = t - NrPairs
  BY <1>1 DEF Producers, Lane
<1>3. QED
  BY <1>1, <1>2 DEF Threads, Pairs

\* A consumer that reads leaves the contents alone; what remains of its batch may
\* be found anew.
LEMMA ReadStep ==
  ASSUME RingIInv, RingSetting, NEW t \in Consumers, NEW l, l = Lane(t), NEW here, NEW there,
         Within(t, here, there), here \in RingLabels, there \in {"probe", "load", "clear"},
         UNCHANGED <<data, producerVars, tail>>, RingTypes',
         \A m \in Pairs \ {l} : batchTail'[m] = batchTail[m],
         NEW n \in 0 .. QueueSize, NEW d \in Places, NEW e \in Places, RingHolds(l, n, d, e),
         NEW e2 \in Places, Batched => batchTail'[l] = After(tail[l], e2) /\ e2 <= n,
         there \in {"load", "clear"} => n >= 1 /\ (Batched => e2 >= 1)
  PROVE  RingIInv'
<1>1. DriverOK(RingLabels) /\ Numbered
  BY DEF RingIInv
<1>2. t \in Threads /\ l \in Pairs /\ l \in Threads \ {t} /\ NrPairs + l = t
  BY Consuming
<1>3. there \in RingLabels /\ here # "done"
  BY DEF RingLabels
<1>4. DriverOK(RingLabels)' /\ MovedTo(t, there) /\ pc[t] = here
  BY <1>1, <1>2, <1>3, WithinOK
<1>5. Numbered'
  BY <1>1, <1>2, <1>4, WithinNumbered DEF Within
<1>6. pc'[l] = pc[l] /\ pc'[NrPairs + l] = there
  BY <1>2, <1>4 DEF MovedTo
<1>7. RingHolds(l, n, d, e2)'
  BY <1>6 DEF RingHolds, HasFromTail, After, producerVars
<1>8. (\E n2 \in 0 .. QueueSize, d2, e3 \in Places : RingHolds(Lane(t), n2, d2, e3))'
  BY <1>7 DEF Places
<1>9. \A m \in Pairs \ {Lane(t)} :
        /\ data'[m] = data[m] /\ front'[m] = front[m] /\ tail'[m] = tail[m]
        /\ batchFront'[m] = batchFront[m] /\ batchTail'[m] = batchTail[m]
  BY DEF producerVars
<1>10. QED
  BY <1>2, <1>4, <1>5, <1>8, <1>9, RingStepOf

\* What a consumer sees at the place i places on is an item if there are more.
LEMMA Filled ==
  ASSUME NEW l \in Pairs, NEW n, NEW d, NEW e, RingHolds(l, n, d, e), NEW i \in Places
  PROVE  data[l][After(tail[l], i)] # 0 <=> i < n
  BY DEF RingHolds, HasFromTail

\* A consumer goes on to the load if there is an item: it has seen it, or its
\* batch has one left, ...
LEMMA ProbeFilledStep ==
  ASSUME RingIInv, RingSetting, NEW t \in Consumers, NEW l, l = Lane(t), ProbeFilled(t, l)
  PROVE  RingIInv'
<1>1. l \in Pairs /\ tail[l] \in Places
  BY Consuming DEF RingIInv, RingTypes
<1>2. PICK n \in 0 .. QueueSize, d \in Places, e \in Places : RingHolds(l, n, d, e)
  BY <1>1 DEF RingIInv, RingInOrder
<1>3. ~Batched /\ data[l][tail[l]] # 0 /\ Within(t, "dequeue", "load")
      /\ UNCHANGED <<data, producerVars, consumerVars>>
  BY DEF ProbeFilled
<1>4. 0 \in Places /\ After(tail[l], 0) = tail[l]
  <2>1. 0 \in Places
    BY DEF RingSetting, Places
  <2>2. QED
    BY <1>1, <2>1, Around
<1>5. 0 < n
  BY <1>1, <1>2, <1>3, <1>4, Filled
<1>6. n \in Int
  BY DEF RingSetting
<1>7. RingTypes'
  BY <1>3 DEF RingIInv, RingTypes, producerVars, consumerVars
<1>8. n >= 1
  BY <1>5, <1>6
<1>9. QED
  BY <1>2, <1>3, <1>7, <1>8, ReadStep DEF consumerVars, RingLabels

LEMMA WithinBatchStep ==
  ASSUME RingIInv, RingSetting, NEW t \in Consumers, NEW l, l = Lane(t), WithinBatch(t, l)
  PROVE  RingIInv'
<1>1. l \in Pairs /\ tail[l] \in Places
  BY Consuming DEF RingIInv, RingTypes
<1>2. PICK n \in 0 .. QueueSize, d \in Places, e \in Places : RingHolds(l, n, d, e)
  BY <1>1 DEF RingIInv, RingInOrder
<1>3. Batched /\ tail[l] # batchTail[l] /\ Within(t, "dequeue", "load")
      /\ UNCHANGED <<data, producerVars, consumerVars>>
  BY DEF WithinBatch
<1>4. After(tail[l], 0) = tail[l] /\ n \in Int /\ e \in Nat
  <2>1. n \in Int /\ e \in Nat
    BY DEF RingSetting, Places
  <2>2. QED
    BY <1>1, <2>1, Around
<1>5. batchTail[l] = After(tail[l], e) /\ e <= n
  BY <1>2, <1>3 DEF RingHolds, HasFromTail
<1>6. e # 0
  BY <1>3, <1>4, <1>5
<1>7. e >= 1 /\ n >= 1
  BY <1>4, <1>5, <1>6
<1>8. RingTypes'
  BY <1>3 DEF RingIInv, RingTypes, producerVars, consumerVars
<1>9. QED
  BY <1>2, <1>3, <1>5, <1>7, <1>8, ReadStep DEF consumerVars, RingLabels

\* ... but not while it looks for a batch, ...
LEMMA ProbingTypes ==
  ASSUME RingSetting, RingTypes, NEW l \in Pairs
  PROVE  /\ Wrap(tail[l] + ConsBatch) \in Places
         /\ Smaller(ConsBatch, history[l] + BatchIncrement) \in 0 .. ConsBatch
         /\ size[l] \div 2 \in 0 .. ConsBatch
         /\ Wrap(tail[l] + size[l] \div 2) \in Places
         /\ Wrap(probe[l] + 1) \in Places
<1>1. QueueSize \in Nat \ {0} /\ ConsBatch \in 1 .. QueueSize - 1 /\ BatchIncrement \in Nat
      /\ tail[l] \in 0 .. QueueSize - 1 /\ history[l] \in 0 .. ConsBatch
      /\ size[l] \in 0 .. ConsBatch /\ probe[l] \in 0 .. QueueSize - 1
  BY DEF RingSetting, RingTypes, Places
<1>2. size[l] \div 2 \in 0 .. ConsBatch
  BY <1>1
<1>3. ASSUME NEW i \in Nat PROVE Wrap(i) \in Places
  BY <1>1, <1>3 DEF Wrap, Places
<1>4. Smaller(ConsBatch, history[l] + BatchIncrement) \in 0 .. ConsBatch
  BY <1>1 DEF Smaller
<1>5. tail[l] + ConsBatch \in Nat /\ tail[l] + size[l] \div 2 \in Nat /\ probe[l] + 1 \in Nat
  BY <1>1, <1>2
<1>6. QED
  BY <1>2, <1>3, <1>4, <1>5

LEMMA BacktrackStep ==
  ASSUME RingIInv, RingSetting, NEW t \in Consumers, NEW l, l = Lane(t), Backtrack(t, l)
  PROVE  RingIInv'
<1>1. l \in Pairs /\ RingTypes
  BY Consuming DEF RingIInv
<1>2. PICK n \in 0 .. QueueSize, d \in Places, e \in Places : RingHolds(l, n, d, e)
  BY <1>1 DEF RingIInv, RingInOrder
<1>3. Batched /\ Within(t, "dequeue", "probe")
      /\ UNCHANGED <<data, producerVars, tail, batchTail, value>>
  BY DEF Backtrack
<1>4. PICK recovered : /\ recovered \in {Smaller(ConsBatch, history[l] + BatchIncrement), history[l]}
                       /\ probe' = [probe EXCEPT ![l] = Wrap(tail[l] + ConsBatch)]
                       /\ history' = [history EXCEPT ![l] = recovered]
                       /\ size' = [size EXCEPT ![l] = recovered]
  BY DEF Backtrack
<1>5. recovered \in 0 .. ConsBatch /\ Wrap(tail[l] + ConsBatch) \in Places
  BY <1>1, <1>4, ProbingTypes DEF RingTypes
<1>6. RingTypes'
  BY <1>1, <1>3, <1>4, <1>5 DEF RingTypes, producerVars
<1>7. batchTail'[l] = After(tail[l], e) /\ e <= n
  BY <1>2, <1>3 DEF RingHolds, HasFromTail
<1>8. QED
  BY <1>2, <1>3, <1>6, <1>7, ReadStep DEF RingLabels

LEMMA HalveStep ==
  ASSUME RingIInv, RingSetting, NEW t \in Consumers, NEW l, l = Lane(t), Halve(t, l)
  PROVE  RingIInv'
<1>1. l \in Pairs /\ RingTypes
  BY Consuming DEF RingIInv
<1>2. PICK n \in 0 .. QueueSize, d \in Places, e \in Places : RingHolds(l, n, d, e)
  BY <1>1 DEF RingIInv, RingInOrder
<1>3. Within(t, "probe", "probe")
      /\ UNCHANGED <<data, producerVars, tail, batchTail, history, value>>
      /\ size' = [size EXCEPT ![l] = size[l] \div 2]
      /\ probe' = [probe EXCEPT ![l] = Wrap(tail[l] + size[l] \div 2)]
  BY DEF Halve
<1>4. RingTypes'
  BY <1>1, <1>3, ProbingTypes DEF RingTypes, producerVars
<1>5. Batched => batchTail'[l] = After(tail[l], e) /\ e <= n
  BY <1>2, <1>3 DEF RingHolds, HasFromTail
<1>6. QED
  BY <1>2, <1>3, <1>4, <1>5, ReadStep DEF RingLabels

\* ... which is one once an item is found: all places before it are filled, ...
LEMMA EndBacktrackStep ==
  ASSUME RingIInv, RingSetting, NEW t \in Consumers, NEW l, l = Lane(t), EndBacktrack(t, l)
  PROVE  RingIInv'
<1>1. l \in Pairs /\ RingTypes
  BY Consuming DEF RingIInv
<1>2. PICK n \in 0 .. QueueSize, d \in Places, e \in Places : RingHolds(l, n, d, e)
  BY <1>1 DEF RingIInv, RingInOrder
<1>3. /\ data[l][probe[l]] # 0 /\ Within(t, "probe", "load")
      /\ UNCHANGED <<data, producerVars, tail, value>>
      /\ history' = [history EXCEPT ![l] = size[l]]
      /\ batchTail' = [batchTail EXCEPT ![l] =
                        IF probe[l] = tail[l] THEN Wrap(probe[l] + 1) ELSE probe[l]]
      /\ probe' = [probe EXCEPT ![l] = 0]
      /\ size' = [size EXCEPT ![l] = 0]
  BY DEF EndBacktrack
<1>4. PICK b \in Places, p \in Places : b = tail[l] /\ p = probe[l]
  BY <1>1 DEF RingTypes
<1>5. QueueSize \in Nat \ {0} /\ 0 \in Places /\ ConsBatch \in 1 .. QueueSize - 1 /\ n \in Int
  BY DEF RingSetting, Places
<1>6. RingTypes'
  BY <1>1, <1>3, <1>4, <1>5, ProbingTypes DEF RingTypes, producerVars
<1>7. PICK s \in Places : p = After(b, s)
  <2>1. \A q \in Places : \E i \in Places : q = After(b, i)
    BY Around
  <2>2. QED
    BY <2>1
<1>8. s < n /\ s \in Nat
  <2>1. data[l][After(tail[l], s)] # 0
    BY <1>3, <1>4, <1>7
  <2>2. s < n
    BY <1>1, <1>2, <2>1, Filled
  <2>3. QED
    BY <2>2 DEF Places
<1>9. After(b, 0) = b /\ Wrap(After(b, 0) + 1) = After(b, 1)
  <2>1. \A i \in 0 .. QueueSize - 1 : Wrap(After(b, i) + 1) = After(b, i + 1)
    BY Around
  <2>2. 0 \in 0 .. QueueSize - 1
    BY <1>5
  <2>3. Wrap(After(b, 0) + 1) = After(b, 1)
    BY <2>1, <2>2
  <2>4. QED
    BY <2>3, Around
<1>10. PICK e2 : e2 = IF s = 0 THEN 1 ELSE s
  OBVIOUS
<1>11. e2 \in Places /\ e2 <= n /\ e2 >= 1 /\ n >= 1
  BY <1>5, <1>8, <1>10 DEF Places
<1>12. batchTail'[l] = After(tail[l], e2)
  <2>1. batchTail'[l] = IF p = b THEN Wrap(p + 1) ELSE p
    BY <1>1, <1>3, <1>4 DEF RingTypes
  <2>2. p = b <=> s = 0
    <3>1. \A i, j \in Places : After(b, i) = After(b, j) => i = j
      BY Around
    <3>2. QED
      BY <1>5, <1>7, <1>9, <3>1
  <2>3. QED
    BY <1>4, <1>7, <1>9, <1>10, <2>1, <2>2
<1>13. \A m \in Pairs \ {l} : batchTail'[m] = batchTail[m]
  BY <1>1, <1>3 DEF RingTypes
<1>14. "probe" \in RingLabels
  BY DEF RingLabels
<1>15. QED
  BY <1>2, <1>3, <1>6, <1>11, <1>12, <1>13, <1>14, ReadStep

\* ... and loads it.
LEMMA LoadStep ==
  ASSUME RingIInv, RingSetting, NEW t \in Consumers, NEW l, l = Lane(t), Load(t, l)
  PROVE  RingIInv'
<1>1. l \in Pairs /\ RingTypes /\ t \in Threads /\ NrPairs + l = t
  BY Consuming DEF RingIInv
<1>2. PICK n \in 0 .. QueueSize, d \in Places, e \in Places : RingHolds(l, n, d, e)
  BY <1>1 DEF RingIInv, RingInOrder
<1>3. Within(t, "load", "clear")
      /\ value' = [value EXCEPT ![l] = data[l][tail[l]]]
      /\ UNCHANGED <<data, producerVars, tail, batchTail, history, probe, size>>
  BY DEF Load
<1>4. RingTypes'
  BY <1>1, <1>3 DEF RingTypes, producerVars
<1>5. pc[NrPairs + l] = "load"
  BY <1>1, <1>3 DEF Within, Goto
<1>6. n >= 1 /\ (Batched => batchTail[l] = After(tail[l], e) /\ e <= n /\ e >= 1)
  BY <1>2, <1>5 DEF RingHolds, HasFromTail
<1>7. QED
  BY <1>2, <1>3, <1>4, <1>6, ReadStep DEF RingLabels

\* The item is taken: its place is free, and the contents begin at the next.
LEMMA ClearStep ==
  ASSUME RingIInv, RingSetting, NEW t \in Consumers, NEW l, l = Lane(t), Clear(t, l)
  PROVE  /\ RingIInv'
         /\ data' = [data EXCEPT ![l][tail[l]] = 0]
         /\ tail' = [tail EXCEPT ![l] = Wrap(tail[l] + 1)]
         /\ \E n \in 1 .. QueueSize : HasFromTail(l, n) /\ HasFromTail(l, n - 1)'
<1>1. l \in Pairs /\ RingTypes /\ t \in Threads /\ NrPairs + l = t /\ l \in Threads \ {t}
      /\ DriverOK(RingLabels) /\ Numbered
  BY Consuming DEF RingIInv
<1>2. PICK n \in 0 .. QueueSize, d \in Places, e \in Places : RingHolds(l, n, d, e)
  BY <1>1 DEF RingIInv, RingInOrder
<1>3. /\ EndIteration(t, "clear", "dequeue", "end")
      /\ "dequeue" \in RingLabels /\ "end" \in RingLabels
      /\ data' = [data EXCEPT ![l][tail[l]] = 0]
      /\ tail' = [tail EXCEPT ![l] = Wrap(tail[l] + 1)]
      /\ value' = [value EXCEPT ![l] = 0]
      /\ UNCHANGED <<producerVars, batchTail, history, probe, size>>
  BY DEF Clear, RingLabels
<1>4. /\ DriverOK(RingLabels)' /\ pc[t] = "clear"
      /\ MovedTo(t, "dequeue") \/ MovedTo(t, "end")
      /\ \A u \in Threads \ {t} : iter'[u] = iter[u]
  BY <1>1, <1>3, EndIterationOK
<1>5. Numbered'
  <2> SUFFICES ASSUME NEW m \in Pairs, pc'[m] \in {"enqueue", "store"}
               PROVE  (iter[m] \in 1 .. RingShare(m))'
    BY DEF Numbered
  <2>1. m \in Threads \ {t}
    BY Lanes, Consuming DEF Pairs, Producers
  <2>2. pc[m] \in {"enqueue", "store"} /\ iter'[m] = iter[m]
    BY <1>4, <2>1 DEF MovedTo
  <2>3. RingShare(m)' = RingShare(m)
    BY <1>3, SameShare DEF EndIteration
  <2>4. QED
    BY <1>1, <2>2, <2>3 DEF Numbered
<1>6. QueueSize \in Nat \ {0} /\ NrIter \in Nat /\ n \in Int /\ e \in Int /\ d \in Int
  BY NrIterAssumption DEF RingSetting, Places
<1>7. PICK b \in Places : b = tail[l]
  BY <1>1 DEF RingTypes
<1>8. /\ Wrap(b + 1) \in Places /\ After(b, 0) = b /\ After(b, QueueSize) = b
      /\ \A i \in 0 .. QueueSize - 1 : After(Wrap(b + 1), i) = After(b, i + 1)
      /\ \A i \in 0 .. QueueSize : After(b, i) \in Places
      /\ \A i, j \in Places : After(b, i) = After(b, j) => i = j
  BY Around
<1>9. RingTypes'
  <2>1. data[l] \in [Places -> 0 .. NrIter] /\ 0 \in 0 .. NrIter
    BY <1>1, <1>6 DEF RingTypes
  <2>2. data' \in [Pairs -> [Places -> 0 .. NrIter]]
    BY <1>1, <1>3, <1>7, <2>1 DEF RingTypes
  <2>3. tail' \in [Pairs -> Places] /\ value' \in [Pairs -> 0 .. NrIter]
    BY <1>1, <1>3, <1>7, <1>8, <2>1 DEF RingTypes
  <2>4. QED
    BY <1>1, <1>3, <2>2, <2>3 DEF RingTypes, producerVars
<1>10. /\ tail'[l] = Wrap(b + 1)
       /\ \A p \in Places : data'[l][p] = IF p = b THEN 0 ELSE data[l][p]
       /\ \A m \in Pairs \ {l} : data'[m] = data[m] /\ tail'[m] = tail[m]
       /\ front' = front /\ batchFront' = batchFront /\ batchTail' = batchTail
  BY <1>1, <1>3, <1>7 DEF RingTypes, producerVars
<1>11. /\ \A i \in Places : data[l][After(b, i)] # 0 <=> i < n
       /\ front[l] = After(b, n)
       /\ pc[l] = "store" => n < QueueSize
       /\ n >= 1
       /\ Batched =>
            /\ batchFront[l] = After(front[l], d)
            /\ d >= 1 => d + n < QueueSize
            /\ pc[l] = "store" => d >= 1
            /\ batchTail[l] = After(b, e) /\ e <= n /\ e >= 1
  BY <1>1, <1>2, <1>4, <1>7 DEF RingHolds, HasFromTail
<1>12. n - 1 \in 0 .. QueueSize /\ n - 1 \in 0 .. QueueSize - 1 /\ n - 1 + 1 = n
  BY <1>6, <1>11
<1>13. After(Wrap(b + 1), n - 1) = After(b, n)
  <2>1. After(Wrap(b + 1), n - 1) = After(b, n - 1 + 1)
    BY <1>8, <1>12
  <2>2. QED
    BY <1>12, <2>1
<1>14. ASSUME NEW i \in Places
       PROVE  data'[l][After(Wrap(b + 1), i)] # 0 <=> i < n - 1
  <2>1. i \in 0 .. QueueSize - 1 /\ i + 1 \in 0 .. QueueSize
    BY <1>6 DEF Places
  <2>2. After(Wrap(b + 1), i) = After(b, i + 1) /\ After(b, i + 1) \in Places
    BY <1>8, <2>1
  <2>3. CASE i + 1 = QueueSize
    <3>1. data'[l][After(Wrap(b + 1), i)] = 0
      BY <1>8, <1>10, <2>2, <2>3
    <3>2. ~(i < n - 1)
      BY <1>6, <2>1, <2>3
    <3>3. QED
      BY <3>1, <3>2
  <2>4. CASE i + 1 # QueueSize
    <3>1. i + 1 \in Places /\ 0 \in Places /\ i + 1 # 0
      BY <1>6, <2>1, <2>4 DEF Places
    <3>2. After(b, i + 1) # b
      BY <1>8, <3>1
    <3>3. data'[l][After(Wrap(b + 1), i)] = data[l][After(b, i + 1)]
      BY <1>10, <2>2, <3>2
    <3>4. data[l][After(b, i + 1)] # 0 <=> i + 1 < n
      BY <1>11, <3>1
    <3>5. i + 1 < n <=> i < n - 1
      BY <1>6, <2>1
    <3>6. QED
      BY <3>3, <3>4, <3>5
  <2>5. QED
    BY <2>3, <2>4
<1>15. PICK e2 : e2 = IF Batched THEN e - 1 ELSE 0
  OBVIOUS
<1>16. e2 \in Places /\ (Batched => batchTail[l] = After(Wrap(b + 1), e2) /\ e2 <= n - 1)
  <2>1. CASE Batched
    <3>1. e2 = e - 1 /\ e >= 1 /\ e <= n /\ batchTail[l] = After(b, e)
      BY <1>11, <1>15, <2>1
    <3>2. e2 \in 0 .. QueueSize - 1 /\ e2 + 1 = e /\ e2 <= n - 1
      BY <1>6, <3>1 DEF Places
    <3>3. After(Wrap(b + 1), e2) = After(b, e2 + 1)
      BY <1>8, <3>2
    <3>4. QED
      BY <3>1, <3>2, <3>3 DEF Places
  <2>2. CASE ~Batched
    BY <1>6, <1>15, <2>2 DEF Places
  <2>3. QED
    BY <2>1, <2>2
<1>17. pc'[l] = pc[l] /\ pc'[NrPairs + l] \notin {"load", "clear"}
  BY <1>1, <1>4 DEF MovedTo
<1>18. RingHolds(l, n - 1, d, e2)'
  <2>1. \A i \in Places : (data[l][After(tail[l], i)])' # 0 <=> i < n - 1
    BY <1>10, <1>14 DEF After
  <2>2. (front[l] = After(tail[l], n - 1))'
    BY <1>10, <1>11, <1>13 DEF After
  <2>3. n - 1 < QueueSize
    BY <1>6, <1>12
  <2>4. Batched => /\ (batchFront[l] = After(front[l], d))'
                   /\ d >= 1 => d + (n - 1) < QueueSize
                   /\ pc'[l] = "store" => d >= 1
    <3>1. d + n < QueueSize => d + (n - 1) < QueueSize
      BY <1>6
    <3>2. QED
      BY <1>10, <1>11, <1>17, <3>1 DEF After
  <2>5. Batched => (batchTail[l] = After(tail[l], e2))' /\ e2 <= n - 1
    BY <1>10, <1>16 DEF After
  <2>6. QED
    BY <1>17, <2>1, <2>2, <2>3, <2>4, <2>5 DEF RingHolds, HasFromTail
<1>19. (\E n2 \in 0 .. QueueSize, d2, e3 \in Places : RingHolds(Lane(t), n2, d2, e3))'
  BY <1>12, <1>16, <1>18 DEF Places
<1>20. RingIInv'
  <2>1. \A m \in Pairs \ {Lane(t)} :
           /\ data'[m] = data[m] /\ front'[m] = front[m] /\ tail'[m] = tail[m]
           /\ batchFront'[m] = batchFront[m] /\ batchTail'[m] = batchTail[m]
    BY <1>10
  <2>2. CASE MovedTo(t, "dequeue")
    BY <1>1, <1>4, <1>5, <1>9, <1>19, <2>1, <2>2, RingStepOf
  <2>3. CASE MovedTo(t, "end")
    BY <1>1, <1>4, <1>5, <1>9, <1>19, <2>1, <2>3, RingStepOf
  <2>4. QED
    BY <1>4, <2>2, <2>3
<1>21. n \in 1 .. QueueSize /\ HasFromTail(l, n) /\ HasFromTail(l, n - 1)'
  <2>1. n \in 1 .. QueueSize
    BY <1>6, <1>11
  <2>2. QED
    BY <1>2, <1>18, <2>1 DEF RingHolds
<1>22. QED
  BY <1>3, <1>20, <1>21

\* The invariant is inductive, ...
LEMMA RingNextIInv == ASSUME RingSetting, RingIInv, [RingNext]_ringVars PROVE RingIInv'
<1>1. CASE UNCHANGED ringVars
  <2>1. RingTypes' /\ DriverOK(RingLabels)'
    BY <1>1 DEF ringVars, producerVars, consumerVars, driverVars, RingIInv, RingTypes, DriverOK,
                DriverTypeOK
  <2>2. Numbered'
    BY <1>1 DEF ringVars, driverVars, RingIInv, Numbered, RingShare, IterPerThread
  <2>3. ASSUME NEW l \in Pairs PROVE SamePair(l)
    BY <1>1 DEF ringVars, producerVars, consumerVars, driverVars, SamePair
  <2>4. RingInOrder'
    BY <2>3, SamePairHolds DEF RingInOrder, RingIInv
  <2>5. QED
    BY <2>1, <2>2, <2>4 DEF RingIInv
<1>2. CASE RingNext
  <2>1. PICK t \in Threads : RingStep(t)
    BY <1>2 DEF RingNext
  <2>2. CASE RingArrive(t) \/ RingStart(t) \/ RingEndExec(t)
    BY <2>2, RingDriverStep
  <2>3. CASE ProbeFree(t)
    BY <2>3, ProbeFreeStep
  <2>4. CASE t \in Producers /\ Store(t)
    BY <2>4, StoreStep
  <2>5. CASE t \in Consumers /\ Dequeue(t, Lane(t))
    BY <2>5, ProbeFilledStep, WithinBatchStep, BacktrackStep, HalveStep, EndBacktrackStep,
       LoadStep, ClearStep DEF Dequeue
  <2>6. QED
    BY <2>1, <2>2, <2>3, <2>4, <2>5 DEF RingStep
<1>3. QED
  BY <1>1, <1>2

\* ... and holds throughout.
THEOREM RingInvariance == ASSUME RingSetting PROVE RingSpec => []RingIInv
  BY RingBegins, RingNextIInv, PTL DEF RingSpec

\* Type correctness.
THEOREM RingTypeCorrect == ASSUME RingSetting PROVE RingSpec => []RingTypeOK
<1>1. RingIInv => RingTypeOK
  BY DEF RingIInv, RingTypes, DriverOK, RingTypeOK
<1>2. QED
  BY <1>1, RingInvariance, PTL

\* The remainder of an index that has gone around at most once.
LEMMA Remainder ==
  ASSUME RingSetting, NEW b \in Places, NEW i \in 0 .. QueueSize - 1
  PROVE  (b + i) % QueueSize = After(b, i)
<1>1. QueueSize \in Nat \ {0} /\ b \in 0 .. QueueSize - 1
  BY DEF RingSetting, Places
<1>2. PICK q, r : q = (b + i) \div QueueSize /\ r = (b + i) % QueueSize
  OBVIOUS
<1>3. b + i = QueueSize * q + r /\ q \in Nat /\ r \in Nat /\ r < QueueSize
  <2>1. b + i \in Nat
    BY <1>1
  <2>2. QED
    BY <1>1, <1>2, <2>1, Division
<1>4. q = 0 \/ q = 1
  <2>1. SUFFICES ASSUME q >= 2 PROVE FALSE
    BY <1>3
  <2>2. QueueSize * q >= QueueSize * 2
    BY <1>1, <1>3, <2>1
  <2>3. QED
    BY <1>1, <1>3, <2>2
<1>5. r = After(b, i)
  <2>1. CASE q = 0
    BY <1>1, <1>3, <2>1 DEF After
  <2>2. CASE q = 1
    BY <1>1, <1>3, <2>2 DEF After
  <2>3. QED
    BY <1>4, <2>1, <2>2
<1>6. QED
  BY <1>2, <1>5

\* What is in the n places from place b on.
FromPlace(d, b, n) == [k \in 1 .. n |-> d[After(b, k - 1)]]

\* The contents are what is in the places from tail up to head.
LEMMA ContentsAre ==
  ASSUME RingSetting, RingTypes, NEW l \in Pairs, NEW n \in 0 .. QueueSize, HasFromTail(l, n)
  PROVE  RingContents(l) = FromPlace(data[l], tail[l], n)
<1>1. QueueSize \in Nat \ {0} /\ n \in Nat
  BY DEF RingSetting
<1>2. PICK b \in Places : b = tail[l]
  BY DEF RingTypes
<1>3. ASSUME NEW k \in 1 .. n
      PROVE  /\ k - 1 \in Places /\ k - 1 \in 0 .. QueueSize - 1 /\ k - 1 < n
             /\ b + k - 1 = b + (k - 1)
  BY <1>1 DEF Places
<1> DEFINE filled == {i \in Places : data[l][i] # 0}
           at == [k \in 1 .. n |-> After(b, k - 1)]
<1>4. at \in Bijection(1 .. n, filled)
  <2>1. ASSUME NEW k \in 1 .. n PROVE at[k] \in filled
    <3>1. k - 1 \in Places /\ k - 1 < n /\ k - 1 \in 0 .. QueueSize
      BY <1>1, <1>3
    <3>2. After(b, k - 1) \in Places
      BY <3>1, Around
    <3>3. QED
      BY <1>2, <3>1, <3>2 DEF HasFromTail
  <2>2. ASSUME NEW j \in 1 .. n, NEW k \in 1 .. n, at[j] = at[k] PROVE j = k
    <3>1. \A x, y \in Places : After(b, x) = After(b, y) => x = y
      BY Around
    <3>2. j - 1 \in Places /\ k - 1 \in Places
      BY <1>3
    <3>3. j - 1 = k - 1
      BY <2>2, <3>1, <3>2
    <3>4. QED
      BY <1>1, <3>3
  <2>3. ASSUME NEW p \in filled PROVE \E k \in 1 .. n : at[k] = p
    <3>1. \A x \in Places : \E i \in Places : x = After(b, i)
      BY Around
    <3>2. PICK i \in Places : p = After(b, i)
      BY <3>1
    <3>3. i < n /\ i \in Nat
      BY <1>2, <3>2 DEF Places, HasFromTail
    <3>4. i + 1 \in 1 .. n /\ (i + 1) - 1 = i
      BY <1>1, <3>3
    <3>5. at[i + 1] = p
      BY <3>2, <3>4
    <3>6. QED
      BY <3>4, <3>5
  <2> HIDE DEF filled
  <2>4. at \in [1 .. n -> filled]
    BY <2>1
  <2> HIDE DEF at
  <2>5. QED
    BY <2>2, <2>3, <2>4 DEF Bijection, Injection, Surjection, IsInjective
<1>5. Cardinality(filled) = n
  <2>1. ExistsBijection(1 .. n, filled)
    BY <1>4 DEF ExistsBijection
  <2> HIDE DEF filled
  <2>2. QED
    BY <1>1, <2>1, FS_CountingElements
<1>6. ASSUME NEW k \in 1 .. n PROVE (tail[l] + k - 1) % QueueSize = After(tail[l], k - 1)
  BY <1>2, <1>3, Remainder
<1>7. QED
  BY <1>5, <1>6 DEF RingContents, FromPlace

\* What a producer is about to store at is free, what a consumer is about to take
\* is an item, and there is no gap between the items.
THEOREM RingBatchesHold == ASSUME RingSetting PROVE RingSpec => []BatchesHold
<1>1. ASSUME RingIInv PROVE BatchesHold
  <2> SUFFICES ASSUME NEW l \in Pairs
               PROVE  /\ pc[l] = "store" => data[l][front[l]] = 0
                      /\ pc[NrPairs + l] = "load" => data[l][tail[l]] # 0
                      /\ \A m \in DOMAIN RingContents(l) : RingContents(l)[m] # 0
    BY DEF BatchesHold
  <2>1. RingTypes /\ tail[l] \in Places
    BY <1>1 DEF RingIInv, RingTypes
  <2>2. PICK n \in 0 .. QueueSize, d \in Places, e \in Places : RingHolds(l, n, d, e)
    BY <1>1 DEF RingIInv, RingInOrder
  <2>3. /\ \A i \in Places : data[l][After(tail[l], i)] # 0 <=> i < n
        /\ front[l] = After(tail[l], n)
        /\ pc[l] = "store" => n < QueueSize
        /\ pc[NrPairs + l] \in {"load", "clear"} => n >= 1
    BY <2>2 DEF RingHolds, HasFromTail
  <2>4. QueueSize \in Nat \ {0} /\ n \in Int /\ 0 \in Places
    BY DEF RingSetting, Places
  <2>5. ASSUME pc[l] = "store" PROVE data[l][front[l]] = 0
    <3>1. n \in Places /\ ~(n < n)
      BY <2>3, <2>4, <2>5 DEF Places
    <3>2. QED
      BY <2>3, <3>1
  <2>6. ASSUME pc[NrPairs + l] = "load" PROVE data[l][tail[l]] # 0
    <3>1. 0 < n
      BY <2>3, <2>4, <2>6
    <3>2. After(tail[l], 0) = tail[l]
      BY <2>1, Around
    <3>3. QED
      BY <2>3, <2>4, <3>1, <3>2
  <2>7. RingContents(l) = [k \in 1 .. n |-> data[l][After(tail[l], k - 1)]]
    BY <2>1, <2>2, ContentsAre DEF RingHolds, FromPlace
  <2>8. ASSUME NEW m \in 1 .. n PROVE data[l][After(tail[l], m - 1)] # 0
    <3>1. m - 1 \in Places /\ m - 1 < n
      BY <2>4 DEF Places
    <3>2. QED
      BY <2>3, <3>1
  <2>9. QED
    BY <2>5, <2>6, <2>7, <2>8
<1>2. QED
  BY <1>1, RingInvariance, PTL

-----------------------------------------------------------------------------
(* B-Queue implements a queue *)

LEMMA FromPlaceType ==
  ASSUME RingSetting, NEW d \in [Places -> Nat], NEW b \in Places, NEW n \in 0 .. QueueSize
  PROVE  /\ FromPlace(d, b, n) \in Seq(Nat) /\ Len(FromPlace(d, b, n)) = n
         /\ \A k \in 1 .. n : FromPlace(d, b, n)[k] = d[After(b, k - 1)]
<1>1. n \in Nat /\ QueueSize \in Nat
  BY DEF RingSetting
<1>2. ASSUME NEW k \in 1 .. n PROVE d[After(b, k - 1)] \in Nat
  <2>1. k - 1 \in 0 .. QueueSize
    BY <1>1
  <2>2. After(b, k - 1) \in Places
    BY <2>1, Around
  <2>3. QED
    BY <2>2
<1>3. FromPlace(d, b, n) \in [1 .. n -> Nat]
  BY <1>2 DEF FromPlace
<1>4. \A k \in 1 .. n : FromPlace(d, b, n)[k] = d[After(b, k - 1)]
  BY DEF FromPlace
<1>5. QED
  BY <1>1, <1>3, <1>4, SeqDef

\* What is stored in the place after them comes last ...
LEMMA FromPlaceLonger ==
  ASSUME RingSetting, NEW d \in [Places -> Nat], NEW b \in Places,
         NEW n \in 0 .. QueueSize - 1, NEW v \in Nat
  PROVE  FromPlace([d EXCEPT ![After(b, n)] = v], b, n + 1) = Append(FromPlace(d, b, n), v)
<1>1. QueueSize \in Nat /\ n \in Nat /\ n \in 0 .. QueueSize /\ n + 1 \in 0 .. QueueSize
      /\ n \in Places
  BY DEF RingSetting, Places
<1>2. PICK d2 \in [Places -> Nat] : d2 = [d EXCEPT ![After(b, n)] = v]
  OBVIOUS
<1>3. PICK s, s2 : s = FromPlace(d, b, n) /\ s2 = FromPlace(d2, b, n + 1)
  OBVIOUS
<1>4. /\ s \in Seq(Nat) /\ Len(s) = n /\ \A k \in 1 .. n : s[k] = d[After(b, k - 1)]
      /\ s2 \in Seq(Nat) /\ Len(s2) = n + 1
      /\ \A k \in 1 .. n + 1 : s2[k] = d2[After(b, k - 1)]
  BY <1>1, <1>3, FromPlaceType
<1>5. /\ Append(s, v) \in Seq(Nat) /\ Len(Append(s, v)) = n + 1
      /\ \A k \in 1 .. n : Append(s, v)[k] = s[k]
      /\ Append(s, v)[n + 1] = v
  BY <1>4, AppendProperties
<1>6. ASSUME NEW k \in 1 .. n + 1 PROVE s2[k] = Append(s, v)[k]
  <2>1. k - 1 \in Places /\ k - 1 \in 0 .. QueueSize
    BY <1>1 DEF Places
  <2>2. /\ \A i, j \in Places : After(b, i) = After(b, j) => i = j
        /\ \A i \in 0 .. QueueSize : After(b, i) \in Places
    BY Around
  <2>3. CASE k = n + 1
    <3>1. k - 1 = n
      BY <1>1, <2>3
    <3>2. s2[k] = v
      BY <1>1, <1>2, <1>4, <2>2, <3>1
    <3>3. QED
      BY <1>5, <2>3, <3>2
  <2>4. CASE k # n + 1
    <3>1. k \in 1 .. n /\ k - 1 # n
      BY <1>1, <2>4
    <3>2. d2[After(b, k - 1)] = d[After(b, k - 1)]
      BY <1>1, <1>2, <2>1, <2>2, <3>1
    <3>3. QED
      BY <1>4, <1>5, <3>1, <3>2
  <2>5. QED
    BY <2>3, <2>4
<1>7. s2 = Append(s, v)
  BY <1>4, <1>5, <1>6, SeqEqual
<1>8. QED
  BY <1>2, <1>3, <1>7

\* ... and without the first place the oldest is gone.
LEMMA FromPlaceShorter ==
  ASSUME RingSetting, NEW d \in [Places -> Nat], NEW b \in Places, NEW n \in 1 .. QueueSize
  PROVE  /\ FromPlace(d, b, n) # <<>>
         /\ FromPlace([d EXCEPT ![b] = 0], Wrap(b + 1), n - 1) = Tail(FromPlace(d, b, n))
<1>1. QueueSize \in Nat /\ n \in Nat /\ n \in 0 .. QueueSize /\ n - 1 \in 0 .. QueueSize
      /\ 0 \in Places
  BY DEF RingSetting, Places
<1>2. PICK d2 \in [Places -> Nat] : d2 = [d EXCEPT ![b] = 0]
  OBVIOUS
<1>3. PICK s, s2 : s = FromPlace(d, b, n) /\ s2 = FromPlace(d2, Wrap(b + 1), n - 1)
  OBVIOUS
<1>4. Wrap(b + 1) \in Places
  BY Around
<1>5. /\ s \in Seq(Nat) /\ Len(s) = n /\ \A k \in 1 .. n : s[k] = d[After(b, k - 1)]
      /\ s2 \in Seq(Nat) /\ Len(s2) = n - 1
      /\ \A k \in 1 .. n - 1 : s2[k] = d2[After(Wrap(b + 1), k - 1)]
  BY <1>1, <1>3, <1>4, FromPlaceType
<1>6. s # <<>>
  BY <1>1, <1>5, EmptySeq
<1>7. /\ Tail(s) \in Seq(Nat) /\ Len(Tail(s)) = n - 1
      /\ \A k \in 1 .. n - 1 : Tail(s)[k] = s[k + 1]
  BY <1>5, <1>6, HeadTailProperties
<1>8. ASSUME NEW k \in 1 .. n - 1 PROVE s2[k] = Tail(s)[k]
  <2>1. k - 1 \in 0 .. QueueSize - 1 /\ k \in Places /\ k # 0 /\ (k - 1) + 1 = k
        /\ k + 1 \in 1 .. n /\ (k + 1) - 1 = k
    BY <1>1 DEF Places
  <2>2. /\ \A i, j \in Places : After(b, i) = After(b, j) => i = j
        /\ \A i \in 0 .. QueueSize : After(b, i) \in Places
        /\ \A i \in 0 .. QueueSize - 1 : After(Wrap(b + 1), i) = After(b, i + 1)
        /\ After(b, 0) = b
    BY Around
  <2>3. After(Wrap(b + 1), k - 1) = After(b, k)
    BY <2>1, <2>2
  <2>4. After(b, k) # b
    BY <1>1, <2>1, <2>2
  <2>5. After(b, k) \in Places
    <3>1. k \in 0 .. QueueSize
      BY <1>1
    <3>2. QED
      BY <2>2, <3>1
  <2>6. d2[After(b, k)] = d[After(b, k)]
    BY <1>2, <2>4, <2>5
  <2>7. QED
    BY <1>5, <1>7, <2>1, <2>3, <2>6
<1>9. s2 = Tail(s)
  BY <1>5, <1>7, <1>8, SeqEqual
<1>10. QED
  BY <1>2, <1>3, <1>6, <1>9

\* The same of the state, now and after a step.
ContentsFromTail ==
  RingSetting /\ RingTypes =>
    \A l \in Pairs, n \in 0 .. QueueSize :
      HasFromTail(l, n) => RingContents(l) = FromPlace(data[l], tail[l], n)

LEMMA ContentsNow == ContentsFromTail
  BY ContentsAre DEF ContentsFromTail

LEMMA ContentsNext == ContentsFromTail'
  BY ContentsNow, PTL

\* The queue of a pair promises what a queue does.
QueueOfPair == INSTANCE Container WITH Items <- 1 .. NrIter, Lifo <- FALSE,
                                       items <- RingContents(Observed)

\* A step of the program is one of the queue, or does not change it.
LEMMA RingStepImplements ==
  ASSUME RingSetting, RingIInv, RingIInv', NEW t \in Threads, RingStep(t)
  PROVE  QueueOfPair!Next \/ RingContents(Observed)' = RingContents(Observed)
<1> DEFINE o == Observed
<1>1. o \in Pairs /\ RingTypes /\ RingTypes' /\ (Observed = o)' /\ QueueSize \in Nat \ {0}
  BY DEF RingSetting, RingIInv
<1>2. /\ data[o] \in [Places -> Nat] /\ tail[o] \in Places
      /\ \A n \in 0 .. QueueSize : HasFromTail(o, n) => RingContents(o) = FromPlace(data[o], tail[o], n)
      /\ \A n \in 0 .. QueueSize : HasFromTail(o, n)' => RingContents(o)' = FromPlace(data'[o], tail'[o], n)
  <2>1. data[o] \in [Places -> 0 .. NrIter] /\ NrIter \in Nat
    BY <1>1, NrIterAssumption DEF RingTypes
  <2>2. data[o] \in [Places -> Nat] /\ tail[o] \in Places
    BY <1>1, <2>1 DEF RingTypes
  <2>3. \A n \in 0 .. QueueSize : HasFromTail(o, n) => RingContents(o) = FromPlace(data[o], tail[o], n)
    BY <1>1, ContentsNow DEF ContentsFromTail
  <2>4. \A n \in 0 .. QueueSize : HasFromTail(o, n)' => RingContents(o)' = FromPlace(data'[o], tail'[o], n)
    BY <1>1, ContentsNext DEF ContentsFromTail, Pairs, FromPlace, After, RingSetting
  <2>5. QED
    BY <2>2, <2>3, <2>4
<1>3. CASE data'[o] = data[o] /\ tail'[o] = tail[o]
  BY <1>3 DEF RingContents, Places
<1>4. ASSUME t \in Producers, Store(t), t = o PROVE QueueOfPair!Next
  <2>1. PICK n \in 0 .. QueueSize - 1, v \in 1 .. NrIter :
          /\ tail' = tail /\ HasFromTail(o, n) /\ HasFromTail(o, n + 1)'
          /\ data' = [data EXCEPT ![o][After(tail[o], n)] = v]
    BY <1>4, StoreStep
  <2>2. n \in 0 .. QueueSize /\ n + 1 \in 0 .. QueueSize /\ v \in Nat
    BY <1>1
  <2>3. PICK c, c2 : c = RingContents(o) /\ c2 = RingContents(o)'
    OBVIOUS
  <2>4. data'[o] = [data[o] EXCEPT ![After(tail[o], n)] = v]
    BY <1>1, <2>1 DEF RingTypes
  <2>5. c = FromPlace(data[o], tail[o], n) /\ c2 = FromPlace(data'[o], tail[o], n + 1)
    BY <1>2, <2>1, <2>2, <2>3
  <2>6. c2 = Append(c, v)
    <3>1. PICK d \in [Places -> Nat], b \in Places : d = data[o] /\ b = tail[o]
      BY <1>2
    <3>2. FromPlace([d EXCEPT ![After(b, n)] = v], b, n + 1) = Append(FromPlace(d, b, n), v)
      BY <2>2, FromPlaceLonger
    <3>3. QED
      BY <2>4, <2>5, <3>1, <3>2
  <2>7. c \in Seq(Nat)
    BY <1>2, <2>2, <2>5, FromPlaceType
  <2>8. c2 # <<>> /\ c2[Len(c2)] = v
    BY <2>2, <2>6, <2>7, AppendProperties
  <2>9. QueueOfPair!Put
    BY <2>3, <2>6, <2>8 DEF QueueOfPair!Put, QueueOfPair!Last
  <2>10. QED
    BY <2>9 DEF QueueOfPair!Next
<1>5. ASSUME t \in Consumers, Lane(t) = o, Clear(t, o) PROVE QueueOfPair!Next
  <2>1. PICK n \in 1 .. QueueSize :
          /\ HasFromTail(o, n) /\ HasFromTail(o, n - 1)'
          /\ data' = [data EXCEPT ![o][tail[o]] = 0]
          /\ tail' = [tail EXCEPT ![o] = Wrap(tail[o] + 1)]
    BY <1>5, ClearStep
  <2>2. n \in 0 .. QueueSize /\ n - 1 \in 0 .. QueueSize
    BY <1>1
  <2>3. PICK c, c2 : c = RingContents(o) /\ c2 = RingContents(o)'
    OBVIOUS
  <2>4. data'[o] = [data[o] EXCEPT ![tail[o]] = 0] /\ tail'[o] = Wrap(tail[o] + 1)
    BY <1>1, <2>1 DEF RingTypes
  <2>5. c = FromPlace(data[o], tail[o], n) /\ c2 = FromPlace(data'[o], tail'[o], n - 1)
    BY <1>2, <2>1, <2>2, <2>3
  <2>6. c # <<>> /\ c2 = Tail(c)
    <3>1. PICK d \in [Places -> Nat], b \in Places : d = data[o] /\ b = tail[o]
      BY <1>2
    <3>2. /\ FromPlace(d, b, n) # <<>>
          /\ FromPlace([d EXCEPT ![b] = 0], Wrap(b + 1), n - 1) = Tail(FromPlace(d, b, n))
      BY FromPlaceShorter
    <3>3. QED
      BY <2>4, <2>5, <3>1, <3>2
  <2>7. QueueOfPair!Take
    BY <2>3, <2>6 DEF QueueOfPair!Take
  <2>8. QED
    BY <2>7 DEF QueueOfPair!Next
<1>6. CASE RingArrive(t) \/ RingStart(t) \/ RingEndExec(t) \/ ProbeFree(t)
  <2>1. data' = data /\ tail' = tail
    BY <1>6 DEF RingArrive, RingStart, RingEndExec, ProbeFree, consumerVars
  <2>2. QED
    BY <1>3, <2>1
<1>7. CASE t \in Producers /\ Store(t)
  <2>1. CASE t = o
    BY <1>4, <1>7, <2>1
  <2>2. CASE t # o
    <3>1. tail' = tail /\ data'[o] = data[o]
      BY <1>1, <1>7, <2>2 DEF Store, consumerVars, RingTypes
    <3>2. QED
      BY <1>3, <3>1
  <2>3. QED
    BY <2>1, <2>2
<1>8. CASE t \in Consumers /\ Dequeue(t, Lane(t))
  <2>1. CASE Clear(t, Lane(t)) /\ Lane(t) = o
    BY <1>5, <1>8, <2>1
  <2>2. CASE Clear(t, Lane(t)) /\ Lane(t) # o
    <3>1. tail'[o] = tail[o] /\ data'[o] = data[o]
      BY <1>1, <1>8, <2>2 DEF Clear, RingTypes
    <3>2. QED
      BY <1>3, <3>1
  <2>3. CASE ~Clear(t, Lane(t))
    <3>1. data' = data /\ tail' = tail
      BY <1>8, <2>3 DEF Dequeue, ProbeFilled, WithinBatch, Backtrack, Halve, EndBacktrack, Load,
                        consumerVars
    <3>2. QED
      BY <1>3, <3>1
  <2>4. QED
    BY <2>1, <2>2, <2>3
<1>9. QED
  BY <1>6, <1>7, <1>8 DEF RingStep

\* B-Queue is a queue: in a single step an item is added at the end or the oldest
\* one is taken, whatever each side concludes on a batch from one of its places.
THEOREM RingImplements == ASSUME RingSetting PROVE RingSpec => QueueOfPair!Spec
<1>1. ASSUME RingInit PROVE QueueOfPair!Init
  <2>1. RingIInv
    BY <1>1, RingBegins
  <2>2. Observed \in Pairs /\ QueueSize \in Nat \ {0} /\ RingTypes
    BY <2>1 DEF RingSetting, RingIInv
  <2>3. HasFromTail(Observed, 0)
    <3>1. \A i \in Places : After(0, i) \in Places
      <4>1. 0 \in Places /\ \A i \in Places : i \in 0 .. QueueSize
        BY <2>2 DEF Places
      <4>2. \A i \in 0 .. QueueSize : After(0, i) \in Places
        BY <4>1, Around
      <4>3. QED
        BY <4>1, <4>2
    <3>2. \A i \in Places : ~(i < 0)
      BY <2>2 DEF Places
    <3>3. QED
      BY <1>1, <2>2, <3>1, <3>2 DEF HasFromTail, RingInit
  <2>4. RingContents(Observed) = FromPlace(data[Observed], tail[Observed], 0)
    <3>1. 0 \in 0 .. QueueSize
      BY <2>2
    <3>2. QED
      BY <2>2, <2>3, <3>1, ContentsAre
  <2>5. RingContents(Observed) = <<>>
    BY <2>4 DEF FromPlace
  <2>6. QED
    BY <2>5 DEF QueueOfPair!Init
<1>2. ASSUME RingIInv, RingIInv', [RingNext]_ringVars
      PROVE  [QueueOfPair!Next]_(RingContents(Observed))
  <2>1. CASE UNCHANGED ringVars
    BY <2>1 DEF ringVars, consumerVars, RingContents, Places
  <2>2. CASE RingNext
    BY <1>2, <2>2, RingStepImplements DEF RingNext
  <2>3. QED
    BY <1>2, <2>1, <2>2
<1>3. QED
  BY <1>1, <1>2, RingInvariance, PTL DEF RingSpec, QueueOfPair!Spec

-----------------------------------------------------------------------------
(* The lists under a lock *)

ListTypes ==
  /\ Locked \in BOOLEAN
  /\ list \in Seq(0 .. NrIter)
  /\ length \in Int

\* Who is in the critical section has the lock, and nobody else is there.
HeldByOne ==
  /\ \A t \in Threads : pc[t] \in Critical => Locked
  /\ \A t, u \in Threads : pc[t] \in Critical /\ pc[u] \in Critical => t = u

\* What a producer inserts has a number.
ItemsNumbered ==
  \A t \in Producers :
    pc[t] \in Critical \cup {"acquire"} => iter[t] \in 1 .. IterPerThread(t, t)

OnlyProducersInsert == \A t \in Threads : pc[t] = "insert" => t \in Producers

\* The counter lags behind the list by the item that is being put or taken.
Counted ==
  /\ \A t \in Threads : pc[t] = "count" => length = Len(list) - 1
  /\ \A t \in Threads : pc[t] = "uncount" => length = Len(list) + 1
  /\ (\A t \in Threads : pc[t] \notin {"count", "uncount"}) => length = Len(list)

ListIInv ==
  /\ DriverOK(ListLabels) /\ ListTypes /\ HeldByOne
  /\ ItemsNumbered /\ OnlyProducersInsert
  /\ NoneFromEmpty /\ (Ada => Counted)

LEMMA ListBegins == ListInit => ListIInv
<1> SUFFICES ASSUME ListInit PROVE ListIInv
  OBVIOUS
<1>1. DriverOK(ListLabels)
  <2>1. "arrive" \in ListLabels /\ DriverInit("arrive")
    BY DEF ListLabels, ListInit
  <2>2. QED
    BY <2>1, DriverBegins
<1>2. \A t \in Threads : pc[t] = "arrive"
  BY DEF ListInit, DriverInit
<1>3. ListTypes /\ (Ada => length = Len(list))
  <2>1. 0 \in 0 .. NrIter
    BY NrIterAssumption
  <2>2. <<>> \in Seq(0 .. NrIter) /\ Len(<<>>) = 0
    OBVIOUS
  <2>3. <<0>> \in Seq(0 .. NrIter)
    BY <2>1
  <2>4. QED
    <3>1. list \in Seq(0 .. NrIter) /\ (Ada => Len(list) = 0)
      BY <2>2, <2>3 DEF ListInit
    <3>2. Locked \in BOOLEAN
      BY Zenon DEF ListInit
    <3>3. length = 0 /\ 0 \in Int
      BY DEF ListInit
    <3>4. QED
      BY <3>1, <3>2, <3>3 DEF ListTypes
<1>4. QED
  BY <1>1, <1>2, <1>3, Lanes DEF ListIInv, HeldByOne, Critical, ItemsNumbered, OnlyProducersInsert,
                         NoneFromEmpty, Counted

\* The number of an item is in range.
LEMMA ItemRange ==
  ASSUME ListIInv, NEW t \in Threads, pc[t] = "insert"
  PROVE  Item(t) \in 1 .. NrIter /\ t \in Producers
<1>1. t \in Producers /\ iter[t] \in 1 .. IterPerThread(t, t)
  BY DEF ListIInv, OnlyProducersInsert, ItemsNumbered, Critical
<1>2. run[t] \in Nat /\ t \in Nat /\ NrIter \in Nat
  BY RunsExist, NrIterAssumption DEF ListIInv, DriverOK, DriverTypeOK, Threads
<1>3. IterPerThread(t, t) \in 0 .. NrIter
  BY <1>2, ShareRange
<1>4. QED
  BY <1>1, <1>2, <1>3 DEF Item

\* Steps of the driver outside the lock.
LEMMA ListOutside ==
  ASSUME ListIInv, NEW t \in Threads, NEW here, NEW there,
         DriverOK(ListLabels)', MovedTo(t, there), pc[t] = here,
         here \notin Critical, there \notin Critical,
         UNCHANGED lockedListVars,
         ItemsNumbered'
  PROVE  ListIInv'
<1>1. ListTypes'
  BY DEF ListIInv, ListTypes, lockedListVars
<1>2. \A u \in Threads : pc'[u] \in Critical => u # t /\ pc'[u] = pc[u]
  BY DEF MovedTo
<1>3. HeldByOne' /\ OnlyProducersInsert' /\ NoneFromEmpty'
  BY <1>2 DEF ListIInv, HeldByOne, OnlyProducersInsert, NoneFromEmpty, Critical, lockedListVars
<1>4. \A u \in Threads : pc[u] \in {"count", "uncount"} <=> pc'[u] \in {"count", "uncount"}
  BY DEF MovedTo, Critical
<1>5. Ada => Counted'
  BY <1>2, <1>4 DEF ListIInv, Counted, Critical, lockedListVars
<1>6. QED
  BY <1>1, <1>3, <1>5 DEF ListIInv

LEMMA ListDriverStep ==
  ASSUME ListIInv, NEW t \in Threads, ListArrive(t) \/ ListStart(t) \/ ListEndExec(t)
  PROVE  ListIInv' /\ UNCHANGED lockedListVars
<1>1. DriverOK(ListLabels) /\ UNCHANGED lockedListVars
  BY DEF ListIInv, ListArrive, ListStart, ListEndExec
<1>2. CASE ListArrive(t)
  <2>1. Arrive(t, "arrive", "wait") /\ "wait" \in ListLabels
    BY <1>2 DEF ListArrive, ListLabels
  <2>2. DriverOK(ListLabels)' /\ MovedTo(t, "wait") /\ pc[t] = "arrive"
    BY <1>1, <2>1, ArriveOK
  <2>3. UNCHANGED <<run, iter>>
    BY <2>1 DEF Arrive
  <2>4. ItemsNumbered'
    BY <2>2, <2>3, Lanes DEF ListIInv, ItemsNumbered, MovedTo, IterPerThread, Critical
  <2>5. QED
    BY <1>1, <2>2, <2>4, ListOutside DEF Critical
<1>3. CASE ListStart(t)
  <2>1. PICK share :
          /\ share = IterPerThread(t, IF Ada /\ ~ScRuns THEN t ELSE Lane(t))
          /\ Start(t, "wait", share, "acquire", "end", "end")
    BY <1>3 DEF ListStart
  <2>2. run[t] \in Nat /\ t \in Nat /\ Lane(t) \in Nat
    <3>1. Lane(t) \in Nat /\ t \in Nat
      BY Lanes DEF Producers, Threads
    <3>2. run[t] \in Nat
      BY <1>1, RunsExist DEF DriverOK, DriverTypeOK
    <3>3. QED
      BY <3>1, <3>2
  <2>3. share \in 0 .. NrIter /\ NrIter \in Nat /\ (t \in Producers => share = IterPerThread(t, t))
    BY <2>1, <2>2, ShareRange, NrIterAssumption, Lanes
  <2>4. /\ DriverOK(ListLabels)' /\ pc[t] = "wait"
        /\ MovedTo(t, "acquire") \/ MovedTo(t, "end")
        /\ pc'[t] = "acquire" => iter'[t] = share /\ share > 0
        /\ \A u \in Threads \ {t} : iter'[u] = iter[u]
    <3>1. "acquire" \in ListLabels /\ "end" \in ListLabels
      BY DEF ListLabels
    <3>2. QED
      BY <1>1, <2>1, <2>3, <3>1, StartOK
  <2>5. run' = run
    BY <2>1 DEF Start
  <2>6. ASSUME NEW u \in Producers, pc'[u] \in Critical \cup {"acquire"}
        PROVE  (iter[u] \in 1 .. IterPerThread(u, u))'
    <3>1. IterPerThread(u, u)' = IterPerThread(u, u) /\ u \in Threads
      BY <2>5, Lanes DEF IterPerThread
    <3>2. CASE u = t
      <4>1. iter'[u] = share /\ share > 0 /\ share = IterPerThread(u, u)
        BY <2>3, <2>4, <2>6, <3>1, <3>2 DEF MovedTo, Critical
      <4>2. QED
        BY <2>3, <3>1, <4>1
    <3>3. CASE u # t
      BY <2>4, <2>6, <3>1, <3>3 DEF ListIInv, ItemsNumbered, MovedTo
    <3>4. QED
      BY <3>2, <3>3
  <2>7. ItemsNumbered'
    BY <2>6 DEF ItemsNumbered, Producers, Threads
  <2>8. QED
    BY <1>1, <2>4, <2>7, ListOutside DEF Critical
<1>4. CASE ListEndExec(t)
  <2>1. NextExec(t, "end", "arrive") /\ "arrive" \in ListLabels
    BY <1>4 DEF ListEndExec, ListLabels
  <2>2. DriverOK(ListLabels)' /\ pc[t] = "end" /\ (MovedTo(t, "arrive") \/ MovedTo(t, "done"))
    BY <1>1, <2>1, NextExecOK
  <2>3. iter' = iter /\ \A u \in Threads \ {t} : run'[u] = run[u]
    BY <1>1, <2>1 DEF NextExec, DriverOK, DriverTypeOK
  <2>4. ItemsNumbered'
    BY <2>2, <2>3, Lanes DEF ListIInv, ItemsNumbered, MovedTo, IterPerThread, Critical
  <2>5. QED
    BY <1>1, <2>2, <2>4, ListOutside DEF Critical
<1>5. QED
  BY <1>1, <1>2, <1>3, <1>4

\* Steps within an operation do not change the number of its item.
LEMMA WithinListNumbered ==
  ASSUME ListIInv, NEW t \in Threads, NEW there,
         MovedTo(t, there), UNCHANGED <<run, iter>>,
         pc[t] \in Critical \cup {"acquire"}
  PROVE  ItemsNumbered'
<1>1. \A u \in Producers : IterPerThread(u, u)' = IterPerThread(u, u)
  BY DEF IterPerThread, Producers
<1>2. \A u \in Producers : u \in Threads
  BY Lanes
<1>3. QED
  BY <1>1, <1>2 DEF ListIInv, ItemsNumbered, MovedTo

\* The lock is taken by a thread that finds it free.
LEMMA AcquireStep ==
  ASSUME ListIInv, NEW t \in Threads, Acquire(t)
  PROVE  ListIInv' /\ list' = list
<1> DEFINE there == IF t \in Producers THEN "insert" ELSE "check"
<1>1. /\ Within(t, "acquire", there) /\ there \in ListLabels /\ there \in {"insert", "check"}
      /\ ~Locked /\ Locked' = TRUE /\ UNCHANGED <<list, length>>
  BY DEF Acquire, ListLabels, Critical
<1>2. there = "insert" => t \in Producers
  OBVIOUS
<1> HIDE DEF there
<1>3. DriverOK(ListLabels)' /\ MovedTo(t, there) /\ pc[t] = "acquire"
  BY <1>1, WithinOK DEF ListIInv
<1>4. ItemsNumbered'
  BY <1>1, <1>3, WithinListNumbered DEF Within
<1>5. ListTypes'
  BY <1>1 DEF ListIInv, ListTypes
<1>6. \A u \in Threads : pc[u] \notin Critical
  BY <1>1 DEF ListIInv, HeldByOne
<1>7. \A u \in Threads : pc'[u] \in Critical => u = t
  BY <1>3, <1>6 DEF MovedTo
<1>8. HeldByOne' /\ OnlyProducersInsert' /\ NoneFromEmpty'
  BY <1>1, <1>2, <1>3, <1>7 DEF HeldByOne, OnlyProducersInsert, NoneFromEmpty, Critical, MovedTo
<1>9. Ada => Counted'
  <2>1. \A u \in Threads : pc[u] \notin {"count", "uncount"} /\ pc'[u] \notin {"count", "uncount"}
    BY <1>1, <1>3, <1>6, <1>7 DEF Critical, MovedTo
  <2>2. QED
    BY <1>1, <2>1 DEF ListIInv, Counted
<1>10. QED
  BY <1>1, <1>3, <1>4, <1>5, <1>8, <1>9 DEF ListIInv

\* In the critical section.
LEMMA InsideStep ==
  ASSUME ListIInv, NEW t \in Threads, NEW here, NEW there,
         Within(t, here, there), here \in Critical, there \in Critical \ {"insert"},
         Locked' = Locked, ListTypes', there = "remove" => list' # <<>>,
         Ada => /\ there = "count" => length' = Len(list') - 1
                /\ there = "uncount" => length' = Len(list') + 1
                /\ there \notin {"count", "uncount"} => length' = Len(list')
  PROVE  ListIInv'
<1>1. there \in ListLabels /\ here # "done"
  BY DEF ListLabels, Critical
<1>2. DriverOK(ListLabels)' /\ MovedTo(t, there) /\ pc[t] = here
  BY <1>1, WithinOK DEF ListIInv
<1>3. ItemsNumbered'
  BY <1>2, WithinListNumbered DEF Within, Critical
<1>4. \A u \in Threads \ {t} : pc[u] \notin Critical /\ pc'[u] \notin Critical
  BY <1>2 DEF ListIInv, HeldByOne, MovedTo
<1>5. Locked
  BY <1>2 DEF ListIInv, HeldByOne
<1>6. HeldByOne' /\ OnlyProducersInsert' /\ NoneFromEmpty'
  BY <1>2, <1>4, <1>5 DEF HeldByOne, OnlyProducersInsert, NoneFromEmpty, Critical, MovedTo
<1>7. Ada => Counted'
  BY <1>2, <1>4 DEF Counted, Critical, MovedTo
<1>8. QED
  BY <1>2, <1>3, <1>6, <1>7 DEF ListIInv

\* What the counter says before a statement in the critical section.
LEMMA CountedInside ==
  ASSUME ListIInv, Ada, NEW t \in Threads, pc[t] \in Critical
  PROVE  length = IF pc[t] = "count" THEN Len(list) - 1
                  ELSE IF pc[t] = "uncount" THEN Len(list) + 1 ELSE Len(list)
<1>1. \A u \in Threads \ {t} : pc[u] \notin Critical
  BY DEF ListIInv, HeldByOne
<1>2. QED
  BY <1>1 DEF ListIInv, Counted, Critical

\* An item is added at its end of the list ...
LEMMA InsertStep ==
  ASSUME ListIInv, NEW t \in Threads, Insert(t)
  PROVE  /\ ListIInv'
         /\ \E v \in 1 .. NrIter : list' = IF Ada THEN Append(list, v) ELSE <<v>> \o list
<1>1. /\ Within(t, "insert", IF Ada THEN "count" ELSE "release")
      /\ list' = IF Ada THEN Append(list, Item(t)) ELSE <<Item(t)>> \o list
      /\ UNCHANGED <<Locked, length>> /\ pc[t] = "insert"
  BY DEF Insert, Within, Goto
<1>2. PICK v \in 1 .. NrIter : v = Item(t)
  BY <1>1, ItemRange
<1>3. PICK s \in Seq(0 .. NrIter) : s = list
  BY DEF ListIInv, ListTypes
<1>4. v \in 0 .. NrIter
  BY NrIterAssumption
<1>5. /\ Append(s, v) \in Seq(0 .. NrIter) /\ Len(Append(s, v)) = Len(s) + 1
      /\ <<v>> \o s \in Seq(0 .. NrIter)
  <2>1. <<v>> \in Seq(0 .. NrIter)
    BY <1>4
  <2>2. QED
    BY <1>4, <2>1, AppendProperties, ConcatProperties
<1>6. ListTypes'
  BY <1>1, <1>2, <1>3, <1>5 DEF ListIInv, ListTypes
<1>7. Ada => length' = Len(list') - 1
  <2>1. Ada => length = Len(list)
    BY <1>1, CountedInside DEF Critical
  <2>2. Len(s) \in Nat
    BY <1>3, LenProperties
  <2>3. QED
    BY <1>1, <1>2, <1>3, <1>5, <2>1, <2>2
<1>8. ListIInv'
  <2>1. CASE Ada
    BY <1>1, <1>6, <1>7, <2>1, InsideStep DEF Critical
  <2>2. CASE ~Ada
    BY <1>1, <1>6, <2>2, InsideStep DEF Critical
  <2>3. QED
    BY <2>1, <2>2
<1>9. QED
  BY <1>1, <1>2, <1>8

\* ... and the one at its head is taken, where there is one.
LEMMA RemoveStep ==
  ASSUME ListIInv, NEW t \in Threads, Remove(t)
  PROVE  ListIInv' /\ list # <<>> /\ list' = Tail(list)
<1>1. /\ Within(t, "remove", IF Ada THEN "uncount" ELSE "release")
      /\ list # <<>> /\ list' = Tail(list)
      /\ UNCHANGED <<Locked, length>> /\ pc[t] = "remove"
  BY DEF Remove, Within, Goto
<1>2. PICK s \in Seq(0 .. NrIter) : s = list
  BY DEF ListIInv, ListTypes
<1>3. Tail(s) \in Seq(0 .. NrIter) /\ Len(Tail(s)) = Len(s) - 1
  BY <1>1, <1>2, HeadTailProperties
<1>4. ListTypes'
  BY <1>1, <1>2, <1>3 DEF ListIInv, ListTypes
<1>5. Ada => length' = Len(list') + 1
  <2>1. Ada => length = Len(list)
    BY <1>1, CountedInside DEF Critical
  <2>2. Len(s) \in Nat
    BY <1>2, LenProperties
  <2>3. QED
    BY <1>1, <1>2, <1>3, <2>1, <2>2
<1>6. ListIInv'
  <2>1. CASE Ada
    BY <1>1, <1>4, <1>5, <2>1, InsideStep DEF Critical
  <2>2. CASE ~Ada
    BY <1>1, <1>4, <2>2, InsideStep DEF Critical
  <2>3. QED
    BY <2>1, <2>2
<1>7. QED
  BY <1>1, <1>6

\* The other statements in the critical section.
LEMMA CountingSteps ==
  ASSUME ListIInv, NEW t \in Threads, CountUp(t) \/ Uncount(t) \/ Check(t)
  PROVE  ListIInv' /\ list' = list
<1>1. PICK s \in Seq(0 .. NrIter) : s = list
  BY DEF ListIInv, ListTypes
<1>2. Len(s) \in Nat /\ (s # <<>> <=> Len(s) > 0)
  BY EmptySeq, LenProperties
<1>3. ListTypes
  BY DEF ListIInv
<1>4. CASE CountUp(t)
  <2>1. Within(t, "count", "release") /\ length' = length + 1 /\ UNCHANGED <<Locked, list>>
        /\ pc[t] = "count"
    BY <1>4 DEF CountUp, Within, Goto
  <2>2. Ada => length = Len(list) - 1
    BY <2>1, CountedInside DEF Critical
  <2>3. Ada => length' = Len(list')
    BY <1>1, <1>2, <2>1, <2>2
  <2>4. ListTypes'
    BY <1>3, <2>1 DEF ListTypes
  <2>5. QED
    BY <2>1, <2>3, <2>4, InsideStep DEF Critical
<1>5. CASE Uncount(t)
  <2>1. Within(t, "uncount", "release") /\ length' = length - 1 /\ UNCHANGED <<Locked, list>>
        /\ pc[t] = "uncount"
    BY <1>5 DEF Uncount, Within, Goto
  <2>2. Ada => length = Len(list) + 1
    BY <2>1, CountedInside DEF Critical
  <2>3. Ada => length' = Len(list')
    BY <1>1, <1>2, <2>1, <2>2
  <2>4. ListTypes'
    BY <1>3, <2>1 DEF ListTypes
  <2>5. QED
    BY <2>1, <2>3, <2>4, InsideStep DEF Critical
<1>6. CASE Check(t)
  <2>1. Within(t, "check", IF Empty THEN "handler" ELSE "remove") /\ UNCHANGED lockedListVars
        /\ pc[t] = "check"
    BY <1>6 DEF Check, Within, Goto
  <2>2. Ada => length = Len(list)
    BY <2>1, CountedInside DEF Critical
  <2>3. ~Empty => list # <<>>
    BY <1>1, <1>2, <2>2 DEF Empty
  <2>4. ListTypes' /\ UNCHANGED <<Locked, list, length>>
    BY <1>3, <2>1 DEF ListTypes, lockedListVars
  <2>5. PICK there \in {"handler", "remove"} :
          Within(t, "check", there) /\ (there = "remove" => ~Empty)
    BY <2>1
  <2>6. QED
    BY <2>1, <2>2, <2>3, <2>4, <2>5, InsideStep DEF Critical
<1>7. QED
  BY <1>4, <1>5, <1>6

\* The lock is released.
LEMMA LeaveStep ==
  ASSUME ListIInv, NEW t \in Threads, Handler(t) \/ Release(t)
  PROVE  ListIInv' /\ list' = list
<1>1. /\ Locked' = FALSE /\ UNCHANGED <<list, length>>
      /\ pc[t] \in {"handler", "release"}
  BY DEF Handler, Release, Within, EndIteration, Goto
<1>2. /\ DriverOK(ListLabels)' /\ (MovedTo(t, "acquire") \/ MovedTo(t, "end"))
      /\ ItemsNumbered'
  <2>1. "acquire" \in ListLabels /\ "end" \in ListLabels /\ DriverOK(ListLabels)
        /\ {"handler", "release"} \subseteq Critical
    BY DEF ListLabels, ListIInv, Critical
  <2>2. CASE Handler(t)
    <3>1. Within(t, "handler", "acquire")
      BY <2>2 DEF Handler
    <3>2. DriverOK(ListLabels)' /\ MovedTo(t, "acquire") /\ pc[t] = "handler"
      BY <2>1, <3>1, WithinOK
    <3>3. UNCHANGED <<run, iter>>
      BY <3>1 DEF Within
    <3>4. QED
      BY <2>1, <3>2, <3>3, WithinListNumbered
  <2>3. CASE Release(t)
    <3>1. EndIteration(t, "release", "acquire", "end")
      BY <2>3 DEF Release
    <3>2. /\ DriverOK(ListLabels)' /\ pc[t] = "release"
          /\ MovedTo(t, "acquire") \/ MovedTo(t, "end")
          /\ pc'[t] = "acquire" => iter[t] > 1 /\ iter'[t] = iter[t] - 1
          /\ \A u \in Threads \ {t} : iter'[u] = iter[u]
      BY <2>1, <3>1, EndIterationOK
    <3>3. ASSUME NEW u \in Producers, pc'[u] \in Critical \cup {"acquire"}
          PROVE  (iter[u] \in 1 .. IterPerThread(u, u))'
      <4>1. IterPerThread(u, u)' = IterPerThread(u, u) /\ u \in Threads
        BY <3>1, Lanes DEF EndIteration, IterPerThread
      <4>2. pc[u] \in Critical \cup {"acquire"}
        BY <2>1, <3>2, <3>3, <4>1 DEF MovedTo
      <4>3. iter[u] \in 1 .. IterPerThread(u, u)
        BY <4>2 DEF ListIInv, ItemsNumbered
      <4>4. iter'[u] = iter[u] \/ (iter[u] > 1 /\ iter'[u] = iter[u] - 1)
        BY <3>2, <3>3, <4>1 DEF MovedTo, Critical
      <4>5. IterPerThread(u, u) \in 0 .. NrIter /\ NrIter \in Nat
        <5>1. run[u] \in Nat /\ u \in Nat
          BY <2>1, <4>1, RunsExist DEF DriverOK, DriverTypeOK, Threads
        <5>2. QED
          BY <5>1, ShareRange, NrIterAssumption
      <4>6. PICK i, s : i = iter[u] /\ s = IterPerThread(u, u)
        OBVIOUS
      <4>7. i \in 1 .. s /\ s \in Nat /\ (iter'[u] = i \/ (i > 1 /\ iter'[u] = i - 1))
        BY <4>3, <4>4, <4>5, <4>6
      <4>8. iter'[u] \in 1 .. s
        BY <4>7
      <4>9. QED
        BY <4>1, <4>6, <4>8
    <3>4. QED
      BY <3>2, <3>3 DEF ItemsNumbered, Producers
  <2>4. QED
    BY <2>2, <2>3
<1>3. ListTypes'
  BY <1>1 DEF ListIInv, ListTypes
<1>4. \A u \in Threads : pc'[u] \notin Critical
  <2>1. \A u \in Threads \ {t} : pc[u] \notin Critical
    BY <1>1 DEF ListIInv, HeldByOne, Critical
  <2>2. QED
    BY <1>2, <2>1 DEF MovedTo, Critical
<1>5. HeldByOne' /\ OnlyProducersInsert' /\ NoneFromEmpty'
  BY <1>4 DEF HeldByOne, OnlyProducersInsert, NoneFromEmpty, Critical
<1>6. Ada => Counted'
  <2>1. Ada => length = Len(list)
    BY <1>1, CountedInside DEF Critical
  <2>2. QED
    BY <1>1, <1>4, <2>1 DEF Counted, Critical
<1>7. QED
  BY <1>1, <1>2, <1>3, <1>5, <1>6 DEF ListIInv

LEMMA ListNextIInv == ListIInv /\ [ListNext]_allListVars => ListIInv'
<1> SUFFICES ASSUME ListIInv, [ListNext]_allListVars PROVE ListIInv'
  OBVIOUS
<1>1. CASE UNCHANGED allListVars
  BY <1>1 DEF allListVars, lockedListVars, driverVars, ListIInv, DriverOK, DriverTypeOK, ListTypes,
              HeldByOne, ItemsNumbered, IterPerThread, OnlyProducersInsert, NoneFromEmpty, Counted
<1>2. CASE ListNext
  <2>1. PICK t \in Threads : ListStep(t)
    BY <1>2 DEF ListNext
  <2>2. CASE ListArrive(t) \/ ListStart(t) \/ ListEndExec(t)
    BY <2>2, ListDriverStep
  <2>3. CASE Acquire(t)
    BY <2>3, AcquireStep
  <2>4. CASE Insert(t)
    BY <2>4, InsertStep
  <2>5. CASE Remove(t)
    BY <2>5, RemoveStep
  <2>6. CASE CountUp(t) \/ Uncount(t) \/ Check(t)
    BY <2>6, CountingSteps
  <2>7. CASE Handler(t) \/ Release(t)
    BY <2>7, LeaveStep
  <2>8. QED
    BY <2>1, <2>2, <2>3, <2>4, <2>5, <2>6, <2>7 DEF ListStep
<1>3. QED
  BY <1>1, <1>2

\* The invariant holds throughout.
THEOREM ListInvariance == ListSpec => []ListIInv
  BY ListBegins, ListNextIInv, PTL DEF ListSpec

\* Type correctness.
THEOREM ListTypeCorrect == ListSpec => []ListTypeOK
<1>1. ListIInv => ListTypeOK
  BY DEF ListIInv, ListTypes, DriverOK, ListTypeOK
<1>2. QED
  BY <1>1, ListInvariance, PTL

\* Between acquiring the lock and releasing it a thread is alone.
THEOREM ListExcludes ==
  ListSpec => [](\A t, u \in Threads : pc[t] \in Critical /\ pc[u] \in Critical => t = u)
<1>1. ListIInv => \A t, u \in Threads : pc[t] \in Critical /\ pc[u] \in Critical => t = u
  BY DEF ListIInv, HeldByOne
<1>2. QED
  BY <1>1, ListInvariance, PTL

\* Nobody takes an item from an empty list, and the counter of the Ada queue,
\* by which it decides that, is the length of its list outside the lock.
THEOREM ListCounts == ListSpec => [](NoneFromEmpty /\ (Ada => LengthCounts))
<1>1. ListIInv => NoneFromEmpty /\ (Ada => LengthCounts)
  BY DEF ListIInv, LengthCounts, Counted, Critical
<1>2. QED
  BY <1>1, ListInvariance, PTL

\* What a queue promises, of the list of the Ada program, ...
QueueOfAda == INSTANCE Container WITH Items <- 1 .. NrIter, Lifo <- FALSE, items <- list

\* ... and a stack, of the list of the C++ program from its end to its head.
NewestLast == [i \in 1 .. Len(list) |-> list[Len(list) + 1 - i]]

StackOfMutex == INSTANCE Container WITH Items <- 1 .. NrIter, Lifo <- TRUE, items <- NewestLast

\* Turning a list around.
LEMMA TurnedAround ==
  ASSUME NEW s \in Seq(0 .. NrIter), NEW r, r = [i \in 1 .. Len(s) |-> s[Len(s) + 1 - i]]
  PROVE  r \in Seq(0 .. NrIter) /\ Len(r) = Len(s) /\ \A i \in 1 .. Len(s) : r[i] = s[Len(s) + 1 - i]
<1>1. PICK n \in Nat : n = Len(s)
  BY LenProperties
<1>2. \A i \in 1 .. n : n + 1 - i \in 1 .. n
  BY <1>1
<1>3. \A i \in 1 .. n : s[n + 1 - i] \in 0 .. NrIter
  BY <1>1, <1>2, ElementOfSeq
<1>4. r \in [1 .. n -> 0 .. NrIter]
  BY <1>1, <1>3
<1>5. QED
  BY <1>1, <1>4, SeqDef

\* A push at the head is one at the end of the list turned around, ...
LEMMA TurnedLonger ==
  ASSUME NEW s \in Seq(0 .. NrIter), NEW v \in 0 .. NrIter, NEW s2, s2 = <<v>> \o s,
         NEW r, r = [i \in 1 .. Len(s) |-> s[Len(s) + 1 - i]],
         NEW r2, r2 = [i \in 1 .. Len(s2) |-> s2[Len(s2) + 1 - i]]
  PROVE  r2 = Append(r, v)
<1>1. PICK n \in Nat : n = Len(s)
  BY LenProperties
<1>2. r \in Seq(0 .. NrIter) /\ Len(r) = n /\ \A i \in 1 .. n : r[i] = s[n + 1 - i]
  BY <1>1, TurnedAround
<1>3. <<v>> \in Seq(0 .. NrIter) /\ Len(<<v>>) = 1 /\ <<v>>[1] = v
  OBVIOUS
<1>4. /\ s2 \in Seq(0 .. NrIter) /\ Len(s2) = n + 1
      /\ s2[1] = v /\ \A i \in 2 .. n + 1 : s2[i] = s[i - 1]
  <2>1. /\ s2 \in Seq(0 .. NrIter) /\ Len(s2) = 1 + n
        /\ \A i \in 1 .. 1 + n : s2[i] = IF i <= 1 THEN <<v>>[i] ELSE s[i - 1]
    BY <1>1, <1>3, ConcatProperties
  <2>2. QED
    BY <1>3, <2>1
<1>5. r2 \in Seq(0 .. NrIter) /\ Len(r2) = n + 1 /\ \A i \in 1 .. n + 1 : r2[i] = s2[n + 1 + 1 - i]
  BY <1>4, TurnedAround
<1>6. /\ Append(r, v) \in Seq(0 .. NrIter) /\ Len(Append(r, v)) = n + 1
      /\ \A i \in 1 .. n : Append(r, v)[i] = r[i]
      /\ Append(r, v)[n + 1] = v
  BY <1>2, AppendProperties
<1>7. ASSUME NEW i \in 1 .. n + 1 PROVE r2[i] = Append(r, v)[i]
  <2>1. CASE i = n + 1
    <3>1. n + 1 + 1 - i = 1
      BY <2>1
    <3>2. QED
      BY <1>4, <1>5, <1>6, <2>1, <3>1
  <2>2. CASE i # n + 1
    <3>1. i \in 1 .. n /\ n + 1 + 1 - i \in 2 .. n + 1 /\ (n + 1 + 1 - i) - 1 = n + 1 - i
      BY <2>2
    <3>2. QED
      BY <1>2, <1>4, <1>5, <1>6, <3>1
  <2>3. QED
    BY <2>1, <2>2
<1>8. QED
  BY <1>5, <1>6, <1>7, SeqEqual

\* ... and a pop from the head takes the last item of it.
LEMMA TurnedShorter ==
  ASSUME NEW s \in Seq(0 .. NrIter), s # <<>>, NEW s2, s2 = Tail(s),
         NEW r, r = [i \in 1 .. Len(s) |-> s[Len(s) + 1 - i]],
         NEW r2, r2 = [i \in 1 .. Len(s2) |-> s2[Len(s2) + 1 - i]]
  PROVE  r # <<>> /\ r2 = SubSeq(r, 1, Len(r) - 1)
<1>1. PICK n \in Nat : n = Len(s) /\ n > 0
  BY EmptySeq
<1>2. r \in Seq(0 .. NrIter) /\ Len(r) = n /\ \A i \in 1 .. n : r[i] = s[n + 1 - i]
  BY <1>1, TurnedAround
<1>3. s2 \in Seq(0 .. NrIter) /\ Len(s2) = n - 1 /\ \A i \in 1 .. n - 1 : s2[i] = s[i + 1]
  BY <1>1, HeadTailProperties
<1>4. r2 \in Seq(0 .. NrIter) /\ Len(r2) = n - 1 /\ \A i \in 1 .. n - 1 : r2[i] = s2[n - 1 + 1 - i]
  BY <1>3, TurnedAround
<1>5. r # <<>>
  BY <1>1, <1>2, EmptySeq
<1>6. PICK u : u = SubSeq(r, 1, n - 1)
  OBVIOUS
<1>7. u \in Seq(0 .. NrIter) /\ Len(u) = n - 1 /\ \A i \in 1 .. n - 1 : u[i] = r[i]
  <2>1. \A i \in 1 .. n - 1 : r[i] \in 0 .. NrIter
    BY <1>2, ElementOfSeq
  <2>2. n - 1 \in Nat
    BY <1>1
  <2>3. QED
    BY <1>6, <2>1, <2>2, SubSeqProperties
<1>8. ASSUME NEW i \in 1 .. n - 1 PROVE r2[i] = u[i]
  <2>1. PICK j : j = n - 1 + 1 - i
    OBVIOUS
  <2>2. i \in 1 .. n /\ j \in 1 .. n - 1 /\ j + 1 = n + 1 - i
    BY <1>1, <2>1
  <2>3. r2[i] = s2[j] /\ s2[j] = s[j + 1]
    BY <1>3, <1>4, <2>1, <2>2
  <2>4. u[i] = r[i] /\ r[i] = s[n + 1 - i]
    BY <1>2, <1>7, <2>2
  <2>5. QED
    BY <2>2, <2>3, <2>4
<1>9. r2 = u
  BY <1>4, <1>7, <1>8, SeqEqual
<1>10. QED
  BY <1>2, <1>5, <1>6, <1>9

\* What a step does to the list.
LEMMA ListChanges ==
  ASSUME ListIInv, [ListNext]_allListVars
  PROVE  \/ list' = list
         \/ \E v \in 1 .. NrIter : list' = IF Ada THEN Append(list, v) ELSE <<v>> \o list
         \/ list # <<>> /\ list' = Tail(list)
<1>1. CASE UNCHANGED allListVars
  BY <1>1 DEF allListVars, lockedListVars
<1>2. CASE ListNext
  <2>1. PICK t \in Threads : ListStep(t)
    BY <1>2 DEF ListNext
  <2>2. CASE ListArrive(t) \/ ListStart(t) \/ ListEndExec(t)
    BY <2>2, ListDriverStep DEF lockedListVars
  <2>3. CASE Acquire(t) \/ CountUp(t) \/ Uncount(t) \/ Check(t) \/ Handler(t) \/ Release(t)
    BY <2>3, AcquireStep, CountingSteps, LeaveStep
  <2>4. CASE Insert(t)
    BY <2>4, InsertStep
  <2>5. CASE Remove(t)
    BY <2>5, RemoveStep
  <2>6. QED
    BY <2>1, <2>2, <2>3, <2>4, <2>5 DEF ListStep
<1>3. QED
  BY <1>1, <1>2

\* The Ada program is a queue: in a single step an item is added at the end, or
\* the oldest one is taken.
THEOREM AdaQueueImplements == ASSUME Ada PROVE ListSpec => QueueOfAda!Spec
<1>1. ASSUME ListInit PROVE QueueOfAda!Init
  BY <1>1 DEF ListInit, QueueOfAda!Init
<1>2. ASSUME ListIInv, [ListNext]_allListVars PROVE [QueueOfAda!Next]_list
  <2>1. PICK s \in Seq(0 .. NrIter) : s = list
    BY <1>2 DEF ListIInv, ListTypes
  <2>2. CASE list' = list
    BY <2>2
  <2>3. CASE \E v \in 1 .. NrIter : list' = Append(list, v)
    <3>1. PICK v \in 1 .. NrIter : list' = Append(s, v)
      BY <2>1, <2>3
    <3>2. v \in 0 .. NrIter
      BY NrIterAssumption
    <3>3. PICK s2 : s2 = Append(s, v)
      OBVIOUS
    <3>4. s2 # <<>> /\ s2[Len(s2)] = v
      BY <3>2, <3>3, AppendProperties
    <3>5. QueueOfAda!Put
      BY <2>1, <3>1, <3>3, <3>4 DEF QueueOfAda!Put, QueueOfAda!Last
    <3>6. QED
      BY <3>5 DEF QueueOfAda!Next
  <2>4. CASE list # <<>> /\ list' = Tail(list)
    BY <2>4 DEF QueueOfAda!Take, QueueOfAda!Next
  <2>5. QED
    BY <1>2, <2>2, <2>3, <2>4, ListChanges
<1>3. QED
  BY <1>1, <1>2, ListInvariance, PTL DEF ListSpec, QueueOfAda!Spec

\* The C++ program is a stack: an item is added at the top or taken from there.
\* (It is not empty at first.)
THEOREM MutexStackImplements ==
  ASSUME ~Ada PROVE ListSpec => [][StackOfMutex!Next]_NewestLast
<1>1. ASSUME ListIInv, [ListNext]_allListVars PROVE [StackOfMutex!Next]_NewestLast
  <2>1. PICK s \in Seq(0 .. NrIter) : s = list
    BY <1>1 DEF ListIInv, ListTypes
  <2>2. PICK s2 : s2 = list'
    OBVIOUS
  <2>3. PICK r, r2 : /\ r = [i \in 1 .. Len(s) |-> s[Len(s) + 1 - i]]
                     /\ r2 = [i \in 1 .. Len(s2) |-> s2[Len(s2) + 1 - i]]
    OBVIOUS
  <2>4. NewestLast = r /\ NewestLast' = r2
    BY <2>1, <2>2, <2>3 DEF NewestLast
  <2>5. CASE list' = list
    BY <2>1, <2>2, <2>3, <2>4, <2>5
  <2>6. CASE \E v \in 1 .. NrIter : list' = <<v>> \o list
    <3>1. PICK v \in 1 .. NrIter : s2 = <<v>> \o s
      BY <2>1, <2>2, <2>6
    <3>2. v \in 0 .. NrIter
      BY NrIterAssumption
    <3>3. r2 = Append(r, v)
      BY <2>3, <3>1, <3>2, TurnedLonger
    <3>4. r \in Seq(0 .. NrIter)
      BY <2>3, TurnedAround
    <3>5. r2 # <<>> /\ r2[Len(r2)] = v
      BY <3>2, <3>3, <3>4, AppendProperties
    <3>6. StackOfMutex!Put
      BY <2>4, <3>3, <3>5 DEF StackOfMutex!Put, StackOfMutex!Last
    <3>7. QED
      BY <3>6 DEF StackOfMutex!Next
  <2>7. CASE list # <<>> /\ list' = Tail(list)
    <3>1. r # <<>> /\ r2 = SubSeq(r, 1, Len(r) - 1)
      BY <2>1, <2>2, <2>3, <2>7, TurnedShorter
    <3>2. StackOfMutex!Take
      BY <2>4, <3>1 DEF StackOfMutex!Take, StackOfMutex!Front
    <3>3. QED
      BY <3>2 DEF StackOfMutex!Next
  <2>8. QED
    BY <1>1, <2>5, <2>6, <2>7, ListChanges
<1>2. QED
  BY <1>1, ListInvariance, PTL DEF ListSpec

-----------------------------------------------------------------------------
(* The lock-free queue *)

\* Addresses do not come back.  (What happens if they do is what run ms_queue_reuse
\* shows.)
MSSetting ==
  /\ ~Reuse
  /\ IsFiniteSet(Heap) /\ Heap # {} /\ Null \notin Heap
  /\ CountTag \in Nat \ {0}

EnqueueLabels == {"new", "loadLast", "loadNext", "recheck", "link", "helpLink", "swing"}
DequeueLabels == {"empty", "emptyLast", "first", "last", "next", "refirst", "help", "read",
                  "advance", "free"}

\* Labels at which a producer has a node that is not on the list yet.
Building == {"loadLast", "loadNext", "recheck", "link", "helpLink"}

MSTypes ==
  /\ First \in TaggedPointers /\ Last \in TaggedPointers
  /\ element \in [Heap -> Nat]
  /\ next \in [Heap -> TaggedPointers]
  /\ alive \subseteq used /\ used \subseteq Heap
  /\ node \in [Producers -> Heap \cup {Null}]
  /\ myFirst \in [Consumers -> TaggedPointers]
  /\ myLast \in [Threads -> TaggedPointers]
  /\ myNext \in [Threads -> TaggedPointers]
  /\ item \in [Consumers -> Nat]
  /\ made \in Nat /\ got \subseteq Nat

Roles ==
  \A t \in Threads : /\ pc[t] \in EnqueueLabels => t \in Producers
                     /\ pc[t] \in DequeueLabels => t \in Consumers

MSCore == DriverOK(MSLabels) /\ MSTypes /\ Roles

\* The nodes that have ever been on the list are c[1], ..., c[m], in this order.
Chained(c, m) ==
  /\ \A i, j \in 1 .. m : c[i] = c[j] => i = j
  /\ \A i \in 1 .. m : /\ c[i] \in used /\ next[c[i]] # Garbage
                        /\ next[c[i]].ptr = IF i < m THEN c[i + 1] ELSE Null

\* List.First and List.Last point to the nodes f and l.
EndsAt(c, m, f, l) ==
  /\ f <= l /\ m <= l + 1
  /\ First.ptr = c[f] /\ Last.ptr = c[l]

\* A node that is not on the list yet is one producer's.
NodesApart(c, m) ==
  \A t \in Producers :
    /\ pc[t] \in Building =>
         /\ node[t] \in alive /\ next[node[t]].ptr = Null /\ next[node[t]] # Garbage
         /\ \A i \in 1 .. m : c[i] # node[t]
         /\ \A u \in Producers \ {t} : pc[u] \in Building => node[u] # node[t]
    /\ pc[t] \notin Building \cup {"swing"} => node[t] = Null

\* The nodes from First on are allocated, and those before it, that a consumer is
\* about to free.
Living(c, m, f) ==
  /\ \A i \in f .. m : c[i] \in alive
  /\ \A i \in 1 .. f - 1 :
       c[i] \in alive => \E t \in Consumers : pc[t] = "free" /\ myFirst[t].ptr = c[i]
  /\ \A t, u \in Consumers :
       pc[t] = "free" /\ pc[u] = "free" /\ myFirst[t].ptr = myFirst[u].ptr => t = u

\* The items made are in these nodes but the first one and in the producers'
\* nodes, each in one; those of nodes that were freed have been delivered.
ItemsPlaced(c, m, f) ==
  /\ \A i \in 2 .. m : element[c[i]] \in 1 .. made
  /\ \A i, j \in 2 .. m : element[c[i]] = element[c[j]] => i = j
  /\ \A t \in Producers : pc[t] \in Building =>
       /\ element[node[t]] \in 1 .. made
       /\ \A i \in 2 .. m : element[c[i]] # element[node[t]]
       /\ \A u \in Producers \ {t} : pc[u] \in Building => element[node[u]] # element[node[t]]
  /\ \A x \in 1 .. made : \/ \E i \in 2 .. m : element[c[i]] = x
                          \/ \E t \in Producers : pc[t] \in Building /\ element[node[t]] = x
  /\ \A x : x \in got <=> \E i \in 1 .. f - 1 : c[i] \notin alive /\ element[c[i + 1]] = x

\* What was loaded from the node number k: nothing, or its successor.
NextRead(t, c, m, k) == myNext[t].ptr = Null \/ (k < m /\ myNext[t].ptr = c[k + 1])

\* What producer t knows of the end of the list, ...
ProducerAt(t, c, m, l) ==
  pc[t] \in {"loadNext", "recheck", "link", "helpLink", "swing"} =>
    \E k \in 1 .. l :
      /\ myLast[t].ptr = c[k]
      /\ pc[t] = "recheck" => NextRead(t, c, m, k) /\ (myNext[t] = Garbage => k < l)
      /\ pc[t] = "link" => myNext[t].ptr = Null /\ myNext[t] # Garbage
      /\ pc[t] = "helpLink" => k < m /\ myNext[t].ptr = c[k + 1]
      /\ pc[t] = "swing" => k < m /\ node[t] = c[k + 1]

\* ... and consumer t of both ends.
ConsumerAt(t, c, m, f, l) ==
  /\ pc[t] = "last" => \E i \in 1 .. f : myFirst[t].ptr = c[i]
  /\ pc[t] \in {"next", "refirst", "help", "read", "advance"} =>
       \E i \in 1 .. f : \E j \in i .. l :
         /\ myFirst[t].ptr = c[i] /\ myLast[t].ptr = c[j]
         /\ pc[t] = "refirst" => NextRead(t, c, m, i) /\ (myNext[t] = Garbage => i < f)
         /\ pc[t] \in {"help", "read", "advance"} => i < m /\ myNext[t].ptr = c[i + 1]
         /\ pc[t] = "help" => i = j
         /\ pc[t] \in {"read", "advance"} => i < j
         /\ pc[t] = "advance" => item[t] = element[c[i + 1]] \/ i < f
  /\ pc[t] = "free" =>
       \E i \in 1 .. f - 1 :
         myFirst[t].ptr = c[i] /\ c[i] \in alive /\ item[t] = element[c[i + 1]]

Listed(c, m, f, l) ==
  /\ Chained(c, m) /\ EndsAt(c, m, f, l)
  /\ NodesApart(c, m) /\ Living(c, m, f) /\ ItemsPlaced(c, m, f)
  /\ \A t \in Producers : ProducerAt(t, c, m, l)
  /\ \A t \in Consumers : ConsumerAt(t, c, m, f, l)

Spot(c, m, f, l) == m \in Nat \ {0} /\ c \in [1 .. m -> Heap] /\ f \in 1 .. m /\ l \in 1 .. m

MSIInv == MSCore /\ \E c, m, f, l : Spot(c, m, f, l) /\ Listed(c, m, f, l)

\* A statement is one of the thread's role, ...
LEMMA RolesMove ==
  ASSUME Roles, NEW t \in Threads, NEW there, MovedTo(t, there),
         there \in EnqueueLabels => pc[t] \in EnqueueLabels \/ t \in Producers,
         there \in DequeueLabels => pc[t] \in DequeueLabels \/ t \in Consumers
  PROVE  Roles'
  BY DEF Roles, MovedTo

\* ... and keeps the driver in order.
LEMMA WithinCore ==
  ASSUME MSCore, NEW t \in Threads, NEW here, NEW there, Within(t, here, there),
         \/ here \in EnqueueLabels /\ there \in EnqueueLabels
         \/ here \in DequeueLabels /\ there \in DequeueLabels
  PROVE  DriverOK(MSLabels)' /\ Roles' /\ MovedTo(t, there) /\ pc[t] = here
<1>1. here # "done" /\ there \in MSLabels
  BY DEF EnqueueLabels, DequeueLabels, MSLabels
<1>2. DriverOK(MSLabels)' /\ MovedTo(t, there) /\ pc[t] = here
  BY <1>1, WithinOK DEF MSCore
<1>3. \/ there \in EnqueueLabels /\ there \notin DequeueLabels /\ t \in Producers
      \/ there \in DequeueLabels /\ there \notin EnqueueLabels /\ t \in Consumers
  BY <1>2 DEF MSCore, Roles, EnqueueLabels, DequeueLabels
<1>4. Roles'
  BY <1>2, <1>3, RolesMove DEF MSCore
<1>5. QED
  BY <1>2, <1>4

LEMMA EndIterationCore ==
  ASSUME MSCore, NEW t \in Threads, NEW here, NEW again,
         EndIteration(t, here, again, "end"),
         \/ here \in EnqueueLabels /\ again \in EnqueueLabels
         \/ here \in DequeueLabels /\ again \in DequeueLabels
  PROVE  /\ DriverOK(MSLabels)' /\ Roles' /\ pc[t] = here
         /\ MovedTo(t, again) \/ MovedTo(t, "end")
<1>1. here # "done" /\ again \in MSLabels /\ "end" \in MSLabels /\ again # "end"
      /\ "end" \notin EnqueueLabels \cup DequeueLabels
  BY DEF EnqueueLabels, DequeueLabels, MSLabels
<1>2. /\ DriverOK(MSLabels)' /\ pc[t] = here
      /\ MovedTo(t, again) \/ MovedTo(t, "end")
  BY <1>1, EndIterationOK DEF MSCore
<1>3. \/ again \in EnqueueLabels /\ again \notin DequeueLabels /\ t \in Producers
      \/ again \in DequeueLabels /\ again \notin EnqueueLabels /\ t \in Consumers
  BY <1>2 DEF MSCore, Roles, EnqueueLabels, DequeueLabels
<1>4. Roles'
  BY <1>1, <1>2, <1>3, RolesMove DEF MSCore
<1>5. QED
  BY <1>2, <1>4

\* The statements of the driver that belong to no operation.
LEMMA DriverCore ==
  ASSUME MSCore, NEW t \in Threads,
         MSArrive(t) \/ MSStartProducer(t) \/ MSStartConsumer(t) \/ MSEndExec(t)
  PROVE  /\ MSCore' /\ pc[t] \in {"arrive", "wait", "end"}
         /\ \E there \in {"wait", "new", "empty", "end", "arrive", "done"} : MovedTo(t, there)
         /\ UNCHANGED <<endVars, nodeVars, localVars, made, got>>
<1>1. UNCHANGED <<endVars, nodeVars, localVars, made, got>>
  BY DEF MSArrive, MSStartProducer, MSStartConsumer, MSEndExec
<1>2. MSTypes'
  BY <1>1 DEF MSCore, MSTypes, endVars, nodeVars, localVars, TaggedPointers
<1>3. run[t] \in Nat /\ t \in Nat /\ Lane(t) \in Nat
  <2>1. Lane(t) \in Nat /\ t \in Nat
    BY Lanes DEF Producers, Threads
  <2>2. run[t] \in Nat
    BY RunsExist DEF MSCore, DriverOK, DriverTypeOK
  <2>3. QED
    BY <2>1, <2>2
<1>4. CASE MSArrive(t)
  <2>1. Arrive(t, "arrive", "wait") /\ "wait" \in MSLabels
    BY <1>4 DEF MSArrive, MSLabels
  <2>2. DriverOK(MSLabels)' /\ MovedTo(t, "wait") /\ pc[t] = "arrive"
    BY <2>1, ArriveOK DEF MSCore
  <2>3. Roles'
    BY <2>2, RolesMove DEF MSCore, EnqueueLabels, DequeueLabels
  <2>4. QED
    BY <1>1, <1>2, <2>2, <2>3 DEF MSCore
<1>5. CASE MSStartProducer(t)
  <2>1. PICK share : /\ share = IterPerThread(t, t)
                     /\ Start(t, "wait", share, "new", "end", "end") /\ t \in Producers
    BY <1>5 DEF MSStartProducer
  <2>2. share \in 0 .. NrIter
    BY <1>3, <2>1, ShareRange
  <2>3. "new" \in MSLabels /\ "end" \in MSLabels
    BY DEF MSLabels
  <2>4. /\ DriverOK(MSLabels)' /\ pc[t] = "wait"
        /\ MovedTo(t, "new") \/ MovedTo(t, "end")
    BY <2>1, <2>2, <2>3, StartOK DEF MSCore
  <2>5. Roles'
    BY <2>1, <2>4, RolesMove DEF MSCore, EnqueueLabels, DequeueLabels
  <2>6. QED
    BY <1>1, <1>2, <2>4, <2>5 DEF MSCore
<1>6. CASE MSStartConsumer(t)
  <2>1. PICK share : /\ share = IterPerThread(t, IF ScRuns THEN Lane(t) ELSE t)
                     /\ Start(t, "wait", share, "empty", "end", "end") /\ t \in Consumers
    BY <1>6 DEF MSStartConsumer
  <2>2. share \in 0 .. NrIter
    BY <1>3, <2>1, ShareRange
  <2>3. "empty" \in MSLabels /\ "end" \in MSLabels
    BY DEF MSLabels
  <2>4. /\ DriverOK(MSLabels)' /\ pc[t] = "wait"
        /\ MovedTo(t, "empty") \/ MovedTo(t, "end")
    BY <2>1, <2>2, <2>3, StartOK DEF MSCore
  <2>5. Roles'
    BY <2>1, <2>4, RolesMove DEF MSCore, EnqueueLabels, DequeueLabels
  <2>6. QED
    BY <1>1, <1>2, <2>4, <2>5 DEF MSCore
<1>7. CASE MSEndExec(t)
  <2>1. NextExec(t, "end", "arrive") /\ "arrive" \in MSLabels
    BY <1>7 DEF MSEndExec, MSLabels
  <2>2. DriverOK(MSLabels)' /\ pc[t] = "end" /\ (MovedTo(t, "arrive") \/ MovedTo(t, "done"))
    BY <2>1, NextExecOK DEF MSCore
  <2>3. Roles'
    BY <2>2, RolesMove DEF MSCore, EnqueueLabels, DequeueLabels
  <2>4. QED
    BY <1>1, <1>2, <2>2, <2>3 DEF MSCore
<1>8. QED
  BY <1>4, <1>5, <1>6, <1>7

\* A tagged pointer of the model.
LEMMA TaggedTypes ==
  ASSUME MSSetting
  PROVE  /\ Garbage \in TaggedPointers /\ NoNode \in TaggedPointers
         /\ NoNode.ptr = Null /\ Garbage.ptr = Null /\ NoNode # Garbage
         /\ \A n \in Heap \cup {Null}, i \in Int :
              Tagged(n, i) \in TaggedPointers /\ Tagged(n, i).ptr = n
<1>1. CountTag \in Nat \ {0}
  BY DEF MSSetting
<1>2. ASSUME NEW n \in Heap \cup {Null}, NEW i \in Int
      PROVE  /\ Tagged(n, i) \in TaggedPointers /\ Tagged(n, i).ptr = n
             /\ Tagged(n, i).count \in 0 .. CountTag - 1
  <2>1. PICK j : j = i % CountTag
    OBVIOUS
  <2>2. j \in 0 .. CountTag - 1 /\ j \in -1 .. CountTag - 1
    BY <1>1, <2>1
  <2>3. Tagged(n, i) = [ptr |-> n, count |-> j]
    BY <2>1 DEF Tagged
  <2>4. QED
    BY <2>2, <2>3 DEF TaggedPointers
<1>3. NoNode \in TaggedPointers /\ NoNode.ptr = Null /\ NoNode.count \in 0 .. CountTag - 1
  BY <1>2 DEF NoNode
<1>4. Garbage \in TaggedPointers /\ Garbage.ptr = Null /\ Garbage.count = -1
  <2>1. -1 \in -1 .. CountTag - 1
    BY <1>1
  <2>2. QED
    BY <2>1 DEF Garbage, TaggedPointers
<1>5. NoNode # Garbage
  BY <1>1, <1>3, <1>4
<1>6. QED
  BY <1>2, <1>3, <1>4, <1>5

\* The address in a tagged pointer.
LEMMA TaggedPtr ==
  ASSUME NEW x \in TaggedPointers
  PROVE  x.ptr \in Heap \cup {Null} /\ x.count \in Int
  BY DEF TaggedPointers

\* Memory that is loaded from holds a tagged pointer.
LEMMA NextOfTypes ==
  ASSUME MSSetting, MSTypes, NEW n
  PROVE  NextOf(n) \in TaggedPointers
  BY TaggedTypes DEF MSTypes, NextOf

\* Enqueue keeps the types, ...
LEMMA EnqueueCore ==
  ASSUME MSSetting, MSCore, NEW t \in Threads, Enqueuing(t)
  PROVE  MSCore'
<1> USE DEF endVars, nodeVars, localVars
<1>1. MSTypes /\ Null \notin Heap
  BY DEF MSCore, MSSetting
<1>2. /\ Garbage \in TaggedPointers /\ NoNode \in TaggedPointers
      /\ \A n \in Heap \cup {Null}, i \in Int : Tagged(n, i) \in TaggedPointers
  BY TaggedTypes
<1>3. First.count \in Int /\ Last.count \in Int
      /\ myLast[t].ptr \in Heap \cup {Null}
      /\ myNext[t].ptr \in Heap \cup {Null} /\ myNext[t].count \in Int
  BY <1>1, TaggedPtr DEF MSTypes
<1>4. pc[t] \in EnqueueLabels => t \in Producers
  BY DEF MSCore, Roles
<1>5. \A n \in Heap \cup {Null} : MoveLast(t, n) => Last' \in TaggedPointers
  <2>1. Last.count + 1 \in Int /\ Last \in TaggedPointers
    BY <1>1, <1>3 DEF MSTypes
  <2>2. \A n \in Heap \cup {Null} : Tagged(n, Last.count + 1) \in TaggedPointers
    BY <1>2, <2>1
  <2>3. QED
    BY <2>1, <2>2 DEF MoveLast
<1>6. CASE NewNode(t)
  <2>1. Within(t, "new", "loadLast")
    BY <1>6 DEF NewNode
  <2>2. DriverOK(MSLabels)' /\ Roles' /\ pc[t] = "new"
    BY <2>1, WithinCore DEF EnqueueLabels
  <2>3. PICK n \in Heap : /\ alive' = alive \cup {n} /\ used' = used \cup {n}
                          /\ element' = [element EXCEPT ![n] = made + 1]
                          /\ next' = [next EXCEPT ![n] = NoNode]
                          /\ node' = [node EXCEPT ![t] = n]
    BY <1>6 DEF NewNode
  <2>4. /\ element' \in [Heap -> Nat] /\ next' \in [Heap -> TaggedPointers]
        /\ alive' \subseteq used' /\ used' \subseteq Heap
        /\ node' \in [Producers -> Heap \cup {Null}] /\ made' \in Nat
    <3>1. made' = made + 1 /\ made + 1 \in Nat
      BY <1>1, <1>6 DEF MSTypes, NewNode
    <3>2. element' \in [Heap -> Nat] /\ next' \in [Heap -> TaggedPointers]
      BY <1>1, <1>2, <2>3, <3>1 DEF MSTypes
    <3>3. QED
      BY <1>1, <2>3, <3>1, <3>2 DEF MSTypes
  <2>5. UNCHANGED <<endVars, myFirst, myLast, myNext, item, got>>
    BY <1>6 DEF NewNode
  <2>6. MSTypes'
    BY <1>1, <2>4, <2>5 DEF MSTypes, TaggedPointers
  <2>7. QED
    BY <2>2, <2>6 DEF MSCore
<1>7. CASE LoadLast(t)
  <2>1. Within(t, "loadLast", "loadNext")
    BY <1>7 DEF LoadLast
  <2>2. DriverOK(MSLabels)' /\ Roles'
    BY <2>1, WithinCore DEF EnqueueLabels
  <2>3. MSTypes'
    BY <1>1, <1>7 DEF MSTypes, LoadLast, TaggedPointers
  <2>4. QED
    BY <2>2, <2>3 DEF MSCore
<1>8. CASE LoadNext(t)
  <2>1. Within(t, "loadNext", "recheck")
    BY <1>8 DEF LoadNext
  <2>2. DriverOK(MSLabels)' /\ Roles'
    BY <2>1, WithinCore DEF EnqueueLabels
  <2>3. PICK x \in TaggedPointers : x = NextOf(myLast[t].ptr)
    BY <1>1, NextOfTypes
  <2>4. myNext' = [myNext EXCEPT ![t] = x]
        /\ UNCHANGED <<endVars, nodeVars, node, myFirst, myLast, item, made, got>>
    BY <1>8, <2>3 DEF LoadNext
  <2>5. MSTypes'
    BY <1>1, <2>4 DEF MSTypes, TaggedPointers
  <2>6. QED
    BY <2>2, <2>5 DEF MSCore
<1>9. CASE Recheck(t)
  <2>1. PICK there \in {"loadLast", "link", "helpLink"} : Within(t, "recheck", there)
    BY <1>9 DEF Recheck
  <2>2. DriverOK(MSLabels)' /\ Roles'
    BY <2>1, WithinCore DEF EnqueueLabels
  <2>3. MSTypes'
    BY <1>1, <1>9 DEF MSTypes, Recheck, TaggedPointers
  <2>4. QED
    BY <2>2, <2>3 DEF MSCore
<1>10. CASE Link(t)
  <2>1. PICK there \in {"swing", "loadLast"} : Within(t, "link", there)
    BY <1>10 DEF Link
  <2>2. DriverOK(MSLabels)' /\ Roles' /\ pc[t] = "link"
    BY <2>1, WithinCore DEF EnqueueLabels
  <2>3. node[t] \in Heap \cup {Null}
    BY <1>1, <1>4, <2>2 DEF MSTypes, EnqueueLabels
  <2>4. Tagged(node[t], myNext[t].count + 1) \in TaggedPointers
    BY <1>2, <1>3, <2>3
  <2>5. next' \in [Heap -> TaggedPointers] /\ myNext' \in [Threads -> TaggedPointers]
    BY <1>1, <1>2, <1>10, <2>4 DEF MSTypes, Link
  <2>6. UNCHANGED <<endVars, element, alive, used, node, myFirst, myLast, item, made, got>>
    BY <1>10 DEF Link
  <2>7. MSTypes'
    BY <1>1, <2>5, <2>6 DEF MSTypes, TaggedPointers
  <2>8. QED
    BY <2>2, <2>7 DEF MSCore
<1>11. CASE HelpLink(t)
  <2>1. Within(t, "helpLink", "loadLast")
    BY <1>11 DEF HelpLink
  <2>2. DriverOK(MSLabels)' /\ Roles'
    BY <2>1, WithinCore DEF EnqueueLabels
  <2>3. Last' \in TaggedPointers
    BY <1>3, <1>5, <1>11 DEF HelpLink
  <2>4. MSTypes'
    BY <1>1, <1>2, <1>11, <2>3 DEF MSTypes, HelpLink, TaggedPointers
  <2>5. QED
    BY <2>2, <2>4 DEF MSCore
<1>12. CASE Swing(t)
  <2>1. EndIteration(t, "swing", "new", "end")
    BY <1>12 DEF Swing
  <2>2. DriverOK(MSLabels)' /\ Roles' /\ pc[t] = "swing"
    BY <2>1, EndIterationCore DEF EnqueueLabels
  <2>3. node[t] \in Heap \cup {Null}
    BY <1>1, <1>4, <2>2 DEF MSTypes, EnqueueLabels
  <2>4. Last' \in TaggedPointers
    BY <1>5, <1>12, <2>3 DEF Swing
  <2>5. MSTypes'
    BY <1>1, <1>2, <1>12, <2>4 DEF MSTypes, Swing, TaggedPointers
  <2>6. QED
    BY <2>2, <2>5 DEF MSCore
<1>13. QED
  BY <1>6, <1>7, <1>8, <1>9, <1>10, <1>11, <1>12 DEF Enqueuing

\* ... and so does Dequeue.
LEMMA DequeueCore ==
  ASSUME MSSetting, MSCore, NEW t \in Threads, Dequeuing(t)
  PROVE  MSCore'
<1> USE DEF endVars, nodeVars, localVars
<1>1. MSTypes /\ Null \notin Heap
  BY DEF MSCore, MSSetting
<1>2. /\ Garbage \in TaggedPointers /\ NoNode \in TaggedPointers
      /\ \A n \in Heap \cup {Null}, i \in Int : Tagged(n, i) \in TaggedPointers
  BY TaggedTypes
<1>3. First.count \in Int /\ Last.count \in Int /\ myNext[t].ptr \in Heap \cup {Null}
  BY <1>1, TaggedPtr DEF MSTypes
<1>4. pc[t] \in DequeueLabels => t \in Consumers
  BY DEF MSCore, Roles
<1>5. ForgetLocals(t) => /\ myFirst' \in [Consumers -> TaggedPointers]
                         /\ myLast' \in [Threads -> TaggedPointers]
                         /\ myNext' \in [Threads -> TaggedPointers]
  <2>1. /\ myFirst \in [Consumers -> TaggedPointers] /\ myLast \in [Threads -> TaggedPointers]
        /\ myNext \in [Threads -> TaggedPointers] /\ NoNode \in TaggedPointers
    BY <1>1, <1>2 DEF MSTypes
  <2>2. QED
    BY <2>1 DEF ForgetLocals
<1>6. ASSUME NEW here \in DequeueLabels, NEW there \in DequeueLabels, Within(t, here, there)
      PROVE  DriverOK(MSLabels)' /\ Roles' /\ pc[t] = here
  BY <1>6, WithinCore
<1>7. CASE EmptyFirst(t)
  <2>1. Within(t, "empty", "emptyLast")
    BY <1>7 DEF EmptyFirst
  <2>2. DriverOK(MSLabels)' /\ Roles'
    BY <1>6, <2>1 DEF DequeueLabels
  <2>3. MSTypes'
    BY <1>1, <1>7 DEF MSTypes, EmptyFirst, TaggedPointers
  <2>4. QED
    BY <2>2, <2>3 DEF MSCore
<1>8. CASE EmptyLast(t)
  <2>1. PICK there \in {"empty", "first"} : Within(t, "emptyLast", there)
    BY <1>8 DEF EmptyLast
  <2>2. DriverOK(MSLabels)' /\ Roles'
    BY <1>6, <2>1 DEF DequeueLabels
  <2>3. MSTypes'
    BY <1>1, <1>5, <1>8 DEF MSTypes, EmptyLast, TaggedPointers
  <2>4. QED
    BY <2>2, <2>3 DEF MSCore
<1>9. CASE LoadFirst(t)
  <2>1. Within(t, "first", "last")
    BY <1>9 DEF LoadFirst
  <2>2. DriverOK(MSLabels)' /\ Roles'
    BY <1>6, <2>1 DEF DequeueLabels
  <2>3. MSTypes'
    BY <1>1, <1>9 DEF MSTypes, LoadFirst, TaggedPointers
  <2>4. QED
    BY <2>2, <2>3 DEF MSCore
<1>10. CASE LoadLastToo(t)
  <2>1. Within(t, "last", "next")
    BY <1>10 DEF LoadLastToo
  <2>2. DriverOK(MSLabels)' /\ Roles'
    BY <1>6, <2>1 DEF DequeueLabels
  <2>3. MSTypes'
    BY <1>1, <1>10 DEF MSTypes, LoadLastToo, TaggedPointers
  <2>4. QED
    BY <2>2, <2>3 DEF MSCore
<1>11. CASE LoadNextOfFirst(t)
  <2>1. Within(t, "next", "refirst")
    BY <1>11 DEF LoadNextOfFirst
  <2>2. DriverOK(MSLabels)' /\ Roles'
    BY <1>6, <2>1 DEF DequeueLabels
  <2>3. PICK x \in TaggedPointers : x = NextOf(myFirst[t].ptr)
    BY <1>1, NextOfTypes
  <2>4. myNext' = [myNext EXCEPT ![t] = x]
        /\ UNCHANGED <<endVars, nodeVars, node, myFirst, myLast, item, made, got>>
    BY <1>11, <2>3 DEF LoadNextOfFirst
  <2>5. MSTypes'
    BY <1>1, <2>4 DEF MSTypes, TaggedPointers
  <2>6. QED
    BY <2>2, <2>5 DEF MSCore
<1>12. CASE Refirst(t)
  <2>1. PICK there \in {"first", "read", "empty", "help"} : Within(t, "refirst", there)
    BY <1>12 DEF Refirst
  <2>2. DriverOK(MSLabels)' /\ Roles'
    BY <1>6, <2>1 DEF DequeueLabels
  <2>3. /\ UNCHANGED <<endVars, nodeVars, node, item, made, got>>
        /\ ForgetLocals(t) \/ UNCHANGED <<myFirst, myLast, myNext>>
    BY <1>12 DEF Refirst
  <2>4. MSTypes'
    BY <1>1, <1>5, <2>3 DEF MSTypes, TaggedPointers
  <2>5. QED
    BY <2>2, <2>4 DEF MSCore
<1>13. CASE Help(t)
  <2>1. Within(t, "help", "first")
    BY <1>13 DEF Help
  <2>2. DriverOK(MSLabels)' /\ Roles'
    BY <1>6, <2>1 DEF DequeueLabels
  <2>3. PICK n \in Heap \cup {Null} : n = myNext[t].ptr
    BY <1>3
  <2>4. Last' = (IF Last = myLast[t] THEN Tagged(n, Last.count + 1) ELSE Last)
    BY <1>13, <2>3 DEF Help, MoveLast
  <2>5. Last' \in TaggedPointers
    BY <1>1, <1>2, <1>3, <2>4 DEF MSTypes
  <2>6. MSTypes'
    BY <1>1, <1>5, <1>13, <2>5 DEF MSTypes, Help, TaggedPointers
  <2>7. QED
    BY <2>2, <2>6 DEF MSCore
<1>14. CASE ReadElement(t)
  <2>1. Within(t, "read", "advance")
    BY <1>14 DEF ReadElement
  <2>2. DriverOK(MSLabels)' /\ Roles' /\ pc[t] = "read"
    BY <1>6, <2>1 DEF DequeueLabels
  <2>3. PICK x \in Nat : x = IF myNext[t].ptr \in alive THEN element[myNext[t].ptr] ELSE 0
    BY <1>1 DEF MSTypes
  <2>4. item' = [item EXCEPT ![t] = x]
        /\ UNCHANGED <<endVars, nodeVars, node, myFirst, myLast, myNext, made, got>>
    BY <1>14, <2>3 DEF ReadElement
  <2>5. MSTypes'
    BY <1>1, <2>4 DEF MSTypes, TaggedPointers
  <2>6. QED
    BY <2>2, <2>5 DEF MSCore
<1>15. CASE Advance(t)
  <2>1. PICK there \in {"free", "first"} : Within(t, "advance", there)
    BY <1>15 DEF Advance
  <2>2. DriverOK(MSLabels)' /\ Roles'
    BY <1>6, <2>1 DEF DequeueLabels
  <2>3. Tagged(myNext[t].ptr, First.count + 1) \in TaggedPointers
    <3>1. PICK i \in Int : i = First.count + 1
      BY <1>3
    <3>2. PICK n \in Heap \cup {Null} : n = myNext[t].ptr
      BY <1>3
    <3>3. QED
      BY <1>2, <3>1, <3>2
  <2>4. /\ UNCHANGED <<Last, nodeVars, node, made, got>>
        /\ \/ /\ First' = Tagged(myNext[t].ptr, First.count + 1)
              /\ UNCHANGED <<myFirst, myLast, myNext, item>>
           \/ /\ ForgetLocals(t) /\ item' = [item EXCEPT ![t] = 0]
              /\ UNCHANGED First
    BY <1>15 DEF Advance
  <2>5. MSTypes'
    BY <1>1, <1>5, <2>3, <2>4 DEF MSTypes, TaggedPointers
  <2>6. QED
    BY <2>2, <2>5 DEF MSCore
<1>16. CASE Free(t)
  <2>1. EndIteration(t, "free", "empty", "end")
    BY <1>16 DEF Free
  <2>2. DriverOK(MSLabels)' /\ Roles' /\ pc[t] = "free"
    BY <2>1, EndIterationCore DEF DequeueLabels
  <2>3. PICK x \in Nat : x = item[t]
    BY <1>1, <1>4, <2>2 DEF MSTypes, DequeueLabels
  <2>4. got' \subseteq Nat /\ item' \in [Consumers -> Nat] /\ alive' \subseteq used
    BY <1>1, <1>16, <2>3 DEF Free, MSTypes
  <2>5. ForgetLocals(t) /\ UNCHANGED <<endVars, element, next, used, node, made>>
    BY <1>16 DEF Free
  <2>6. MSTypes'
    BY <1>1, <1>5, <2>4, <2>5 DEF MSTypes, TaggedPointers
  <2>7. QED
    BY <2>2, <2>6 DEF MSCore
<1>17. QED
  BY <1>7, <1>8, <1>9, <1>10, <1>11, <1>12, <1>13, <1>14, <1>15, <1>16 DEF Dequeuing

-----------------------------------------------------------------------------

\* What the other threads know stays true while the list grows at its end, its
\* ends move on, and no node is freed that is another's to free.
LEMMA OthersStay ==
  ASSUME NEW c, NEW m, NEW f, NEW l, Spot(c, m, f, l),
         NEW c2, NEW m2, NEW f2, NEW l2, Spot(c2, m2, f2, l2),
         f <= f2, l <= l2, m <= m2, \A i \in 1 .. m : c2[i] = c[i],
         NEW t \in Threads, NEW there, MovedTo(t, there),
         \A u \in Threads \ {t} : myLast'[u] = myLast[u] /\ myNext'[u] = myNext[u],
         \A u \in Producers \ {t} : node'[u] = node[u],
         \A u \in Consumers \ {t} : myFirst'[u] = myFirst[u] /\ item'[u] = item[u],
         \A i \in 1 .. m : element'[c[i]] = element[c[i]],
         \A u \in Consumers \ {t} :
           pc[u] = "free" /\ myFirst[u].ptr \in alive => myFirst[u].ptr \in alive'
  PROVE  /\ \A u \in Producers \ {t} : ProducerAt(u, c, m, l) => ProducerAt(u, c2, m2, l2)'
         /\ \A u \in Consumers \ {t} : ConsumerAt(u, c, m, f, l) => ConsumerAt(u, c2, m2, f2, l2)'
<1>1. /\ m \in Nat /\ f \in 1 .. m /\ l \in 1 .. m
      /\ m2 \in Nat /\ f2 \in 1 .. m2 /\ l2 \in 1 .. m2
  BY DEF Spot
<1>2. ASSUME NEW u \in Producers \ {t}, ProducerAt(u, c, m, l) PROVE ProducerAt(u, c2, m2, l2)'
  <2>1. /\ pc'[u] = pc[u] /\ myLast'[u] = myLast[u] /\ myNext'[u] = myNext[u]
        /\ node'[u] = node[u]
    BY <1>2, Lanes DEF MovedTo
  <2>2. SUFFICES ASSUME pc[u] \in {"loadNext", "recheck", "link", "helpLink", "swing"}
                 PROVE  ProducerAt(u, c2, m2, l2)'
    BY <2>1 DEF ProducerAt
  <2>3. PICK k \in 1 .. l :
          /\ myLast[u].ptr = c[k]
          /\ pc[u] = "recheck" => NextRead(u, c, m, k) /\ (myNext[u] = Garbage => k < l)
          /\ pc[u] = "link" => myNext[u].ptr = Null /\ myNext[u] # Garbage
          /\ pc[u] = "helpLink" => k < m /\ myNext[u].ptr = c[k + 1]
          /\ pc[u] = "swing" => k < m /\ node[u] = c[k + 1]
    BY <1>2, <2>2 DEF ProducerAt
  <2>4. k \in 1 .. l2 /\ c2[k] = c[k] /\ (k < m => k < m2 /\ c2[k + 1] = c[k + 1])
        /\ (k < l => k < l2)
    BY <1>1
  <2>5. pc[u] = "recheck" => NextRead(u, c2, m2, k)'
    BY <2>1, <2>3, <2>4 DEF NextRead
  <2>6. QED
    BY <2>1, <2>3, <2>4, <2>5 DEF ProducerAt, Garbage
<1>3. ASSUME NEW u \in Consumers \ {t}, ConsumerAt(u, c, m, f, l)
      PROVE  ConsumerAt(u, c2, m2, f2, l2)'
  <2>1. /\ pc'[u] = pc[u] /\ myFirst'[u] = myFirst[u] /\ myLast'[u] = myLast[u]
        /\ myNext'[u] = myNext[u] /\ item'[u] = item[u]
    BY <1>3, Lanes DEF MovedTo
  <2>2. (pc[u] = "last" => \E i \in 1 .. f2 : myFirst[u].ptr = c2[i])'
    BY <1>1, <1>3, <2>1 DEF ConsumerAt
  <2>3. ASSUME pc[u] \in {"next", "refirst", "help", "read", "advance"}
        PROVE  \E i \in 1 .. f2 : \E j \in i .. l2 :
                 /\ myFirst'[u].ptr = c2[i] /\ myLast'[u].ptr = c2[j]
                 /\ pc'[u] = "refirst" => NextRead(u, c2, m2, i)' /\ (myNext'[u] = Garbage => i < f2)
                 /\ pc'[u] \in {"help", "read", "advance"} => i < m2 /\ myNext'[u].ptr = c2[i + 1]
                 /\ pc'[u] = "help" => i = j
                 /\ pc'[u] \in {"read", "advance"} => i < j
                 /\ pc'[u] = "advance" => item'[u] = element'[c2[i + 1]] \/ i < f2
    <3> DEFINE Knows(i, j) ==
            /\ myFirst[u].ptr = c[i] /\ myLast[u].ptr = c[j]
            /\ pc[u] = "refirst" => NextRead(u, c, m, i) /\ (myNext[u] = Garbage => i < f)
            /\ pc[u] \in {"help", "read", "advance"} => i < m /\ myNext[u].ptr = c[i + 1]
            /\ pc[u] = "help" => i = j
            /\ pc[u] \in {"read", "advance"} => i < j
            /\ pc[u] = "advance" => item[u] = element[c[i + 1]] \/ i < f
    <3>a. PICK i \in 1 .. f : \E j \in i .. l : Knows(i, j)
      BY <1>3, <2>3 DEF ConsumerAt
    <3>b. PICK j \in i .. l : Knows(i, j)
      BY <3>a
    <3>1. Knows(i, j)
      BY <3>b
    <3>2. /\ i \in 1 .. f2 /\ j \in i .. l2 /\ c2[i] = c[i] /\ c2[j] = c[j]
          /\ i < m => i < m2 /\ c2[i + 1] = c[i + 1] /\ element'[c[i + 1]] = element[c[i + 1]]
          /\ i < f => i < f2
      BY <1>1
    <3>3. pc[u] = "refirst" => NextRead(u, c2, m2, i)'
      BY <2>1, <3>1, <3>2 DEF NextRead
    <3>4. pc[u] = "advance" => item'[u] = element'[c2[i + 1]] \/ i < f2
      BY <2>1, <3>1, <3>2
    <3>5. QED
      BY <2>1, <3>1, <3>2, <3>3, <3>4
  <2>4. ASSUME pc[u] = "free"
        PROVE  \E i \in 1 .. f2 - 1 :
                 myFirst'[u].ptr = c2[i] /\ c2[i] \in alive' /\ item'[u] = element'[c2[i + 1]]
    <3>1. PICK i \in 1 .. f - 1 :
            myFirst[u].ptr = c[i] /\ c[i] \in alive /\ item[u] = element[c[i + 1]]
      BY <1>3, <2>4 DEF ConsumerAt
    <3>2. i \in 1 .. f2 - 1 /\ c2[i] = c[i] /\ c2[i + 1] = c[i + 1]
          /\ element'[c[i + 1]] = element[c[i + 1]]
      BY <1>1
    <3>3. c[i] \in alive'
      BY <2>4, <3>1
    <3>4. QED
      BY <2>1, <3>1, <3>2, <3>3
  <2>5. QED
    BY <2>1, <2>2, <2>3, <2>4 DEF ConsumerAt, Garbage
<1>4. QED
  BY <1>2, <1>3

\* A step of t that leaves the nodes alone, and moves List.Last on at most.
LEMMA QuietStep ==
  ASSUME MSCore, NEW c, NEW m, NEW f, NEW l, Spot(c, m, f, l), Listed(c, m, f, l),
         NEW t \in Threads, NEW there, MovedTo(t, there),
         NEW l2 \in l .. m, Last'.ptr = c[l2],
         UNCHANGED <<First, element, next, alive, used, made, got>>,
         \A u \in Threads \ {t} : myLast'[u] = myLast[u] /\ myNext'[u] = myNext[u],
         \A u \in Producers \ {t} : node'[u] = node[u],
         \A u \in Consumers \ {t} : myFirst'[u] = myFirst[u] /\ item'[u] = item[u],
         pc[t] # "free", there # "free", pc[t] \in Building <=> there \in Building,
         t \in Producers /\ there \in Building => node'[t] = node[t],
         t \in Producers /\ there \notin Building \cup {"swing"} => node'[t] = Null,
         t \in Producers => ProducerAt(t, c, m, l2)',
         t \in Consumers => ConsumerAt(t, c, m, f, l2)'
  PROVE  \E a : /\ Spot(c, m, f, a) /\ Listed(c, m, f, a)'
                /\ \A i \in 1 .. m : element'[c[i]] = element[c[i]]
<1>1. /\ m \in Nat \ {0} /\ f \in 1 .. m /\ l \in 1 .. m /\ l2 \in 1 .. m
      /\ Spot(c, m, f, l2) /\ l <= l2
  BY DEF Spot
<1>2. /\ Chained(c, m) /\ EndsAt(c, m, f, l)
      /\ NodesApart(c, m) /\ Living(c, m, f) /\ ItemsPlaced(c, m, f)
      /\ \A u \in Producers : ProducerAt(u, c, m, l)
      /\ \A u \in Consumers : ConsumerAt(u, c, m, f, l)
  BY DEF Listed
<1>3. Chained(c, m)'
  BY <1>2 DEF Chained
<1>4. EndsAt(c, m, f, l2)'
  BY <1>1, <1>2 DEF EndsAt
<1>5. \A u \in Producers : /\ pc'[u] \in Building <=> pc[u] \in Building
                           /\ pc[u] \in Building => node'[u] = node[u]
  BY Lanes DEF MovedTo
<1>6. NodesApart(c, m)'
  <2>1. ASSUME NEW u \in Producers, pc'[u] \notin Building \cup {"swing"} PROVE node'[u] = Null
    BY <1>2, <2>1, Lanes DEF MovedTo, NodesApart
  <2>2. QED
    BY <1>2, <1>5, <2>1 DEF NodesApart
<1>7. Living(c, m, f)'
  <2>1. \A u \in Consumers : /\ pc'[u] = "free" <=> pc[u] = "free"
                             /\ pc[u] = "free" => myFirst'[u] = myFirst[u]
    BY Lanes DEF MovedTo
  <2>2. QED
    BY <1>2, <2>1 DEF Living
<1>8. ItemsPlaced(c, m, f)'
  BY <1>2, <1>5 DEF ItemsPlaced
<1>9. /\ \A u \in Producers \ {t} : ProducerAt(u, c, m, l2)'
      /\ \A u \in Consumers \ {t} : ConsumerAt(u, c, m, f, l2)'
  BY <1>1, <1>2, OthersStay
<1>10. Listed(c, m, f, l2)'
  BY <1>3, <1>4, <1>6, <1>7, <1>8, <1>9 DEF Listed
<1>11. QED
  BY <1>1, <1>10

\* List.Last is exchanged for the successor of the node it was found at.
LEMMA LastMoves ==
  ASSUME MSSetting, MSCore, NEW c, NEW m, NEW f, NEW l, Spot(c, m, f, l),
         Listed(c, m, f, l), NEW t \in Threads, NEW k \in 1 .. m - 1,
         myLast[t].ptr = c[k], MoveLast(t, c[k + 1])
  PROVE  \E l2 \in l .. m : Last'.ptr = c[l2]
<1>1. m \in Nat \ {0} /\ l \in 1 .. m /\ c \in [1 .. m -> Heap]
  BY DEF Spot
<1>2. Last.ptr = c[l] /\ \A i, j \in 1 .. m : c[i] = c[j] => i = j
  BY DEF Listed, EndsAt, Chained
<1>3. CASE Last = myLast[t]
  <2>1. k = l /\ k \in 1 .. m /\ k + 1 \in l .. m
    BY <1>1, <1>2, <1>3
  <2>2. PICK i \in Int : i = Last.count + 1
    BY TaggedPtr DEF MSCore, MSTypes
  <2>3. PICK n \in Heap : n = c[k + 1]
    BY <1>1, <2>1
  <2>4. Last' = Tagged(n, i)
    BY <1>3, <2>2, <2>3 DEF MoveLast
  <2>5. Last'.ptr = n
    BY <2>4, TaggedTypes
  <2>6. QED
    BY <2>1, <2>3, <2>5
<1>4. CASE Last # myLast[t]
  <2>1. Last' = Last /\ l \in l .. m
    BY <1>1, <1>4 DEF MoveLast
  <2>2. QED
    BY <1>2, <2>1
<1>5. QED
  BY <1>3, <1>4

\* The driver's statements, ...
LEMMA DriverQuiet ==
  ASSUME MSCore, NEW c, NEW m, NEW f, NEW l, Spot(c, m, f, l), Listed(c, m, f, l),
         NEW t \in Threads,
         MSArrive(t) \/ MSStartProducer(t) \/ MSStartConsumer(t) \/ MSEndExec(t)
  PROVE  \E a : /\ Spot(c, m, f, a) /\ Listed(c, m, f, a)'
                /\ \A i \in 1 .. m : element'[c[i]] = element[c[i]]
<1>1. PICK there \in {"wait", "new", "empty", "end", "arrive", "done"} : MovedTo(t, there)
  BY DriverCore
<1>2. pc[t] \in {"arrive", "wait", "end"} /\ UNCHANGED <<endVars, nodeVars, localVars, made, got>>
  BY DriverCore
<1>3. l \in l .. m /\ Last'.ptr = c[l]
  BY <1>2 DEF Spot, Listed, EndsAt, endVars
<1>4. ProducerAt(t, c, m, l)' /\ ConsumerAt(t, c, m, f, l)'
  BY <1>1 DEF ProducerAt, ConsumerAt, MovedTo
<1>5. t \in Producers => node'[t] = Null
  BY <1>2 DEF Listed, NodesApart, Building, localVars
<1>6. pc[t] \notin Building /\ there \notin Building \cup {"swing"}
      /\ pc[t] # "free" /\ there # "free"
  BY <1>1, <1>2 DEF Building
<1>7. UNCHANGED <<First, element, next, alive, used, made, got, myLast, myNext, node, myFirst, item>>
  BY <1>2 DEF endVars, nodeVars, localVars
<1>8. QED
  BY <1>1, <1>3, <1>4, <1>5, <1>6, <1>7, QuietStep

\* ... those of Enqueue that leave the nodes alone ...
LEMMA EnqueueQuiet ==
  ASSUME MSSetting, MSCore, NEW c, NEW m, NEW f, NEW l, Spot(c, m, f, l), Listed(c, m, f, l),
         NEW t \in Threads,
         \/ LoadLast(t) \/ LoadNext(t) \/ Recheck(t) \/ HelpLink(t) \/ Swing(t)
         \/ Link(t) /\ next[myLast[t].ptr] # myNext[t]
  PROVE  \E a : /\ Spot(c, m, f, a) /\ Listed(c, m, f, a)'
                /\ \A i \in 1 .. m : element'[c[i]] = element[c[i]]
<1> USE DEF endVars, nodeVars, localVars
<1>1. /\ m \in Nat \ {0} /\ f \in 1 .. m /\ l \in 1 .. m /\ c \in [1 .. m -> Heap]
      /\ l \in l .. m /\ Null \notin Heap
  BY DEF Spot, MSSetting
<1>2. MSTypes /\ (pc[t] \in EnqueueLabels => t \in Producers /\ t \notin Consumers)
  BY Lanes DEF MSCore, Roles
<1>3. /\ Chained(c, m) /\ EndsAt(c, m, f, l) /\ NodesApart(c, m) /\ Living(c, m, f)
      /\ \A u \in Producers : ProducerAt(u, c, m, l)
  BY DEF Listed
<1>4. /\ First.ptr = c[f] /\ Last.ptr = c[l] /\ f <= l /\ m <= l + 1
      /\ \A i, j \in 1 .. m : c[i] = c[j] => i = j
  BY <1>3 DEF EndsAt, Chained
<1>5. /\ NoNode \in TaggedPointers /\ Garbage \in TaggedPointers /\ Garbage.ptr = Null
  BY TaggedTypes
<1>6. CASE LoadLast(t)
  <2>1. Within(t, "loadLast", "loadNext")
    BY <1>6 DEF LoadLast
  <2>2. MovedTo(t, "loadNext") /\ pc[t] = "loadLast"
    BY <2>1, WithinCore DEF EnqueueLabels
  <2>3. t \in Producers /\ t \notin Consumers
    BY <1>2, <2>2 DEF EnqueueLabels
  <2>4. /\ myLast'[t] = Last /\ \A u \in Threads \ {t} : myLast'[u] = myLast[u]
        /\ UNCHANGED <<endVars, nodeVars, node, myFirst, myNext, item, made, got>>
    BY <1>2, <1>6 DEF LoadLast, MSTypes
  <2>5. ProducerAt(t, c, m, l)'
    BY <1>1, <1>4, <2>2, <2>4 DEF ProducerAt, MovedTo
  <2>6. QED
    BY <1>1, <1>4, <2>2, <2>3, <2>4, <2>5, QuietStep DEF Building
<1>7. CASE LoadNext(t)
  <2>1. Within(t, "loadNext", "recheck")
    BY <1>7 DEF LoadNext
  <2>2. MovedTo(t, "recheck") /\ pc[t] = "loadNext"
    BY <2>1, WithinCore DEF EnqueueLabels
  <2>3. t \in Producers /\ t \notin Consumers
    BY <1>2, <2>2 DEF EnqueueLabels
  <2>4. /\ myNext'[t] = NextOf(myLast[t].ptr)
        /\ \A u \in Threads \ {t} : myNext'[u] = myNext[u]
        /\ UNCHANGED <<endVars, nodeVars, node, myFirst, myLast, item, made, got>>
    BY <1>2, <1>7 DEF LoadNext, MSTypes
  <2>5. PICK k \in 1 .. l : myLast[t].ptr = c[k]
    BY <1>3, <2>2, <2>3 DEF ProducerAt
  <2>6. /\ c[k] \in alive => NextOf(c[k]) # Garbage
                             /\ NextOf(c[k]).ptr = IF k < m THEN c[k + 1] ELSE Null
        /\ c[k] \notin alive => NextOf(c[k]) = Garbage
    BY <1>1, <1>3 DEF Chained, NextOf
  <2>7. c[k] \notin alive => k < l
    BY <1>1, <1>3, <1>4 DEF Living
  <2>8. (NextRead(t, c, m, k) /\ (myNext[t] = Garbage => k < l))'
    BY <1>5, <2>4, <2>5, <2>6, <2>7 DEF NextRead, Garbage
  <2>9. ProducerAt(t, c, m, l)'
    BY <2>2, <2>4, <2>5, <2>8 DEF ProducerAt, MovedTo
  <2>10. QED
    BY <1>1, <1>4, <2>2, <2>3, <2>4, <2>9, QuietStep DEF Building
<1>8. CASE Recheck(t)
  <2>1. PICK there \in {"loadLast", "link", "helpLink"} :
          /\ Within(t, "recheck", there)
          /\ there # "loadLast" => Last = myLast[t]
          /\ there = "link" => myNext[t].ptr = Null
          /\ there = "helpLink" => myNext[t].ptr # Null
    BY <1>8 DEF Recheck
  <2>2. MovedTo(t, there) /\ pc[t] = "recheck"
    BY <2>1, WithinCore DEF EnqueueLabels
  <2>3. t \in Producers /\ t \notin Consumers
    BY <1>2, <2>2 DEF EnqueueLabels
  <2>4. UNCHANGED <<endVars, nodeVars, node, myFirst, myLast, myNext, item, made, got>>
    BY <1>8 DEF Recheck
  <2>5. PICK k \in 1 .. l : /\ myLast[t].ptr = c[k] /\ NextRead(t, c, m, k)
                            /\ myNext[t] = Garbage => k < l
    BY <1>3, <2>2, <2>3 DEF ProducerAt
  <2>6. there # "loadLast" => k = l
    BY <1>1, <1>4, <2>1, <2>5
  <2>7. ProducerAt(t, c, m, l)'
    BY <1>1, <2>1, <2>2, <2>4, <2>5, <2>6 DEF ProducerAt, MovedTo, NextRead, Garbage
  <2>8. QED
    BY <1>1, <1>4, <2>1, <2>2, <2>3, <2>4, <2>7, QuietStep DEF Building
<1>9. CASE HelpLink(t)
  <2>1. Within(t, "helpLink", "loadLast")
    BY <1>9 DEF HelpLink
  <2>2. MovedTo(t, "loadLast") /\ pc[t] = "helpLink"
    BY <2>1, WithinCore DEF EnqueueLabels
  <2>3. t \in Producers /\ t \notin Consumers
    BY <1>2, <2>2 DEF EnqueueLabels
  <2>4. PICK k \in 1 .. l : myLast[t].ptr = c[k] /\ k < m /\ myNext[t].ptr = c[k + 1]
    BY <1>3, <2>2, <2>3 DEF ProducerAt
  <2>5. MoveLast(t, c[k + 1]) /\ k \in 1 .. m - 1
    BY <1>1, <1>9, <2>4 DEF HelpLink
  <2>6. PICK l2 \in l .. m : Last'.ptr = c[l2]
    BY <2>4, <2>5, LastMoves
  <2>7. /\ \A u \in Threads \ {t} : myLast'[u] = myLast[u] /\ myNext'[u] = myNext[u]
        /\ UNCHANGED <<First, nodeVars, node, myFirst, item, made, got>>
    BY <1>2, <1>9 DEF HelpLink, MSTypes
  <2>8. ProducerAt(t, c, m, l2)'
    BY <2>2 DEF ProducerAt, MovedTo
  <2>9. QED
    BY <2>2, <2>3, <2>6, <2>7, <2>8, QuietStep DEF Building
<1>10. CASE Swing(t)
  <2>1. EndIteration(t, "swing", "new", "end")
    BY <1>10 DEF Swing
  <2>2. PICK there \in {"new", "end"} : MovedTo(t, there) /\ pc[t] = "swing"
    BY <2>1, EndIterationCore DEF EnqueueLabels
  <2>3. t \in Producers /\ t \notin Consumers
    BY <1>2, <2>2 DEF EnqueueLabels
  <2>4. PICK k \in 1 .. l : myLast[t].ptr = c[k] /\ k < m /\ node[t] = c[k + 1]
    BY <1>3, <2>2, <2>3 DEF ProducerAt
  <2>5. MoveLast(t, c[k + 1]) /\ k \in 1 .. m - 1
    BY <1>1, <1>10, <2>4 DEF Swing
  <2>6. PICK l2 \in l .. m : Last'.ptr = c[l2]
    BY <2>4, <2>5, LastMoves
  <2>7. /\ \A u \in Threads \ {t} : myLast'[u] = myLast[u]
        /\ \A u \in Producers \ {t} : node'[u] = node[u]
        /\ node'[t] = Null
        /\ UNCHANGED <<First, nodeVars, myNext, myFirst, item, made, got>>
    BY <1>2, <1>10, <2>3 DEF Swing, MSTypes
  <2>8. ProducerAt(t, c, m, l2)'
    BY <2>2 DEF ProducerAt, MovedTo
  <2>9. QED
    BY <2>2, <2>3, <2>6, <2>7, <2>8, QuietStep DEF Building
<1>11. CASE Link(t) /\ next[myLast[t].ptr] # myNext[t]
  <2>1. Within(t, "link", "loadLast")
    BY <1>11 DEF Link
  <2>2. MovedTo(t, "loadLast") /\ pc[t] = "link"
    BY <2>1, WithinCore DEF EnqueueLabels
  <2>3. t \in Producers /\ t \notin Consumers
    BY <1>2, <2>2 DEF EnqueueLabels
  <2>4. /\ \A u \in Threads \ {t} : myNext'[u] = myNext[u]
        /\ UNCHANGED <<endVars, nodeVars, node, myFirst, myLast, item, made, got>>
    BY <1>2, <1>11 DEF Link, MSTypes
  <2>5. ProducerAt(t, c, m, l)'
    BY <2>2 DEF ProducerAt, MovedTo
  <2>6. QED
    BY <1>1, <1>4, <2>2, <2>3, <2>4, <2>5, QuietStep DEF Building
<1>12. QED
  BY <1>6, <1>7, <1>8, <1>9, <1>10, <1>11

\* ... and those of Dequeue.
LEMMA DequeueQuiet ==
  ASSUME MSSetting, MSCore, NEW c, NEW m, NEW f, NEW l, Spot(c, m, f, l), Listed(c, m, f, l),
         NEW t \in Threads,
         \/ EmptyFirst(t) \/ EmptyLast(t) \/ LoadFirst(t) \/ LoadLastToo(t)
         \/ LoadNextOfFirst(t) \/ Refirst(t) \/ Help(t) \/ ReadElement(t)
         \/ Advance(t) /\ First # myFirst[t]
  PROVE  \E a : /\ Spot(c, m, f, a) /\ Listed(c, m, f, a)'
                /\ \A i \in 1 .. m : element'[c[i]] = element[c[i]]
<1> USE DEF endVars, nodeVars, localVars
<1>1. /\ m \in Nat \ {0} /\ f \in 1 .. m /\ l \in 1 .. m /\ c \in [1 .. m -> Heap]
      /\ l \in l .. m /\ Null \notin Heap /\ \A i \in 1 .. m : c[i] # Null
  BY DEF Spot, MSSetting
<1>2. MSTypes /\ (pc[t] \in DequeueLabels => t \in Consumers /\ t \notin Producers)
  BY Lanes DEF MSCore, Roles
<1>3. /\ Chained(c, m) /\ EndsAt(c, m, f, l) /\ Living(c, m, f)
      /\ \A u \in Consumers : ConsumerAt(u, c, m, f, l)
  BY DEF Listed
<1>4. /\ First.ptr = c[f] /\ Last.ptr = c[l] /\ f <= l /\ m <= l + 1
      /\ \A i, j \in 1 .. m : c[i] = c[j] => i = j
  BY <1>3 DEF EndsAt, Chained
<1>5. /\ NoNode \in TaggedPointers /\ Garbage \in TaggedPointers /\ Garbage.ptr = Null
  BY TaggedTypes
<1>6. ASSUME NEW here \in DequeueLabels, NEW there \in DequeueLabels, Within(t, here, there)
      PROVE  MovedTo(t, there) /\ pc[t] = here /\ t \in Consumers /\ t \notin Producers
  BY <1>2, <1>6, WithinCore
<1>7. ASSUME ForgetLocals(t)
      PROVE  /\ \A u \in Threads \ {t} : myLast'[u] = myLast[u] /\ myNext'[u] = myNext[u]
             /\ \A u \in Consumers \ {t} : myFirst'[u] = myFirst[u]
  BY <1>2, <1>7 DEF ForgetLocals, MSTypes
<1> DEFINE Knows(i, j) ==
             /\ myFirst[t].ptr = c[i] /\ myLast[t].ptr = c[j]
             /\ pc[t] = "refirst" => NextRead(t, c, m, i) /\ (myNext[t] = Garbage => i < f)
             /\ pc[t] \in {"help", "read", "advance"} => i < m /\ myNext[t].ptr = c[i + 1]
             /\ pc[t] = "help" => i = j
             /\ pc[t] \in {"read", "advance"} => i < j
<1>8. pc[t] \in {"next", "refirst", "help", "read", "advance"} /\ t \in Consumers =>
        \E i \in 1 .. f : \E j \in i .. l : Knows(i, j)
  BY <1>3 DEF ConsumerAt
<1> HIDE DEF Knows
<1>9. ASSUME NEW there \in {"empty", "emptyLast", "first"}, MovedTo(t, there)
      PROVE  ConsumerAt(t, c, m, f, l)' /\ ProducerAt(t, c, m, l)'
  BY <1>9 DEF ConsumerAt, ProducerAt, MovedTo
<1>10. CASE EmptyFirst(t)
  <2>1. MovedTo(t, "emptyLast") /\ pc[t] = "empty" /\ t \in Consumers /\ t \notin Producers
    BY <1>6, <1>10 DEF EmptyFirst, DequeueLabels
  <2>2. ConsumerAt(t, c, m, f, l)'
    BY <1>9, <2>1
  <2>3. /\ \A u \in Consumers \ {t} : myFirst'[u] = myFirst[u]
        /\ UNCHANGED <<endVars, nodeVars, node, myLast, myNext, item, made, got>>
    BY <1>2, <1>10 DEF EmptyFirst, MSTypes
  <2>4. QED
    BY <1>1, <1>4, <2>1, <2>2, <2>3, QuietStep DEF Building
<1>11. CASE EmptyLast(t)
  <2>1. PICK there \in {"empty", "first"} :
          MovedTo(t, there) /\ pc[t] = "emptyLast" /\ t \in Consumers /\ t \notin Producers
    BY <1>6, <1>11 DEF EmptyLast, DequeueLabels
  <2>2. ConsumerAt(t, c, m, f, l)'
    BY <1>9, <2>1
  <2>3. ForgetLocals(t) /\ UNCHANGED <<endVars, nodeVars, node, item, made, got>>
    BY <1>11 DEF EmptyLast
  <2>4. QED
    BY <1>1, <1>4, <1>7, <2>1, <2>2, <2>3, QuietStep DEF Building
<1>12. CASE LoadFirst(t)
  <2>1. MovedTo(t, "last") /\ pc[t] = "first" /\ t \in Consumers /\ t \notin Producers
    BY <1>6, <1>12 DEF LoadFirst, DequeueLabels
  <2>2. /\ myFirst'[t] = First /\ \A u \in Consumers \ {t} : myFirst'[u] = myFirst[u]
        /\ UNCHANGED <<endVars, nodeVars, node, myLast, myNext, item, made, got>>
    BY <1>2, <1>12, <2>1 DEF LoadFirst, MSTypes
  <2>3. ConsumerAt(t, c, m, f, l)'
    BY <1>1, <1>4, <2>1, <2>2 DEF ConsumerAt, MovedTo
  <2>4. QED
    BY <1>1, <1>4, <2>1, <2>2, <2>3, QuietStep DEF Building
<1>13. CASE LoadLastToo(t)
  <2>1. MovedTo(t, "next") /\ pc[t] = "last" /\ t \in Consumers /\ t \notin Producers
    BY <1>6, <1>13 DEF LoadLastToo, DequeueLabels
  <2>2. /\ myLast'[t] = Last /\ \A u \in Threads \ {t} : myLast'[u] = myLast[u]
        /\ UNCHANGED <<endVars, nodeVars, node, myFirst, myNext, item, made, got>>
    BY <1>2, <1>13 DEF LoadLastToo, MSTypes
  <2>3. PICK i \in 1 .. f : myFirst[t].ptr = c[i]
    BY <1>3, <2>1 DEF ConsumerAt
  <2>4. l \in i .. l
    BY <1>1, <1>4
  <2>5. ConsumerAt(t, c, m, f, l)'
    BY <1>4, <2>1, <2>2, <2>3, <2>4 DEF ConsumerAt, MovedTo
  <2>6. QED
    BY <1>1, <1>4, <2>1, <2>2, <2>5, QuietStep DEF Building
<1>14. CASE LoadNextOfFirst(t)
  <2>1. MovedTo(t, "refirst") /\ pc[t] = "next" /\ t \in Consumers /\ t \notin Producers
    BY <1>6, <1>14 DEF LoadNextOfFirst, DequeueLabels
  <2>2. /\ myNext'[t] = NextOf(myFirst[t].ptr)
        /\ \A u \in Threads \ {t} : myNext'[u] = myNext[u]
        /\ UNCHANGED <<endVars, nodeVars, node, myFirst, myLast, item, made, got>>
    BY <1>2, <1>14 DEF LoadNextOfFirst, MSTypes
  <2>3. PICK i \in 1 .. f : \E j \in i .. l : Knows(i, j)
    BY <1>8, <2>1
  <2>4. PICK j \in i .. l : Knows(i, j)
    BY <2>3
  <2>5. myFirst[t].ptr = c[i] /\ myLast[t].ptr = c[j]
    BY <2>4 DEF Knows
  <2>6. /\ c[i] \in alive => NextOf(c[i]) # Garbage
                             /\ NextOf(c[i]).ptr = IF i < m THEN c[i + 1] ELSE Null
        /\ c[i] \notin alive => NextOf(c[i]) = Garbage
    BY <1>1, <1>3 DEF Chained, NextOf
  <2>7. c[i] \notin alive => i < f
    BY <1>1, <1>3, <1>4 DEF Living
  <2>8. (NextRead(t, c, m, i) /\ (myNext[t] = Garbage => i < f))'
    BY <1>5, <2>2, <2>5, <2>6, <2>7 DEF NextRead, Garbage
  <2>9. ConsumerAt(t, c, m, f, l)'
    BY <2>1, <2>2, <2>4, <2>5, <2>8 DEF ConsumerAt, MovedTo
  <2>10. QED
    BY <1>1, <1>4, <2>1, <2>2, <2>9, QuietStep DEF Building
<1>15. CASE Refirst(t)
  <2>1. PICK there \in {"first", "read", "empty", "help"} :
          /\ Within(t, "refirst", there)
          /\ there \in {"read", "help"} =>
               First = myFirst[t] /\ myNext[t].ptr # Null /\ UNCHANGED <<myFirst, myLast, myNext>>
          /\ there = "read" => myFirst[t].ptr # myLast[t].ptr
          /\ there = "help" => myFirst[t].ptr = myLast[t].ptr
          /\ there \in {"first", "empty"} => ForgetLocals(t)
    BY <1>15 DEF Refirst
  <2>2. MovedTo(t, there) /\ pc[t] = "refirst" /\ t \in Consumers /\ t \notin Producers
    BY <1>6, <2>1 DEF DequeueLabels
  <2>3. UNCHANGED <<endVars, nodeVars, node, item, made, got>>
    BY <1>15 DEF Refirst
  <2>4. CASE there \in {"first", "empty"}
    <3>1. ConsumerAt(t, c, m, f, l)'
      BY <1>9, <2>2, <2>4
    <3>2. QED
      BY <1>1, <1>4, <1>7, <2>1, <2>2, <2>3, <2>4, <3>1, QuietStep DEF Building
  <2>5. CASE there \in {"read", "help"}
    <3>1. PICK i \in 1 .. f : \E j \in i .. l : Knows(i, j)
      BY <1>8, <2>2
    <3>2. PICK j \in i .. l : Knows(i, j)
      BY <3>1
    <3>3. /\ myFirst[t].ptr = c[i] /\ myLast[t].ptr = c[j] /\ NextRead(t, c, m, i)
      BY <2>2, <3>2 DEF Knows
    <3>4. i \in 1 .. m /\ j \in 1 .. m /\ i <= j
      BY <1>1
    <3>5. i < m /\ myNext[t].ptr = c[i + 1]
      BY <2>1, <2>5, <3>3 DEF NextRead
    <3>6. (there = "help" => i = j) /\ (there = "read" => i < j)
      BY <1>4, <2>1, <3>3, <3>4
    <3>7. ConsumerAt(t, c, m, f, l)'
      BY <2>1, <2>2, <2>5, <3>1, <3>3, <3>5, <3>6 DEF ConsumerAt, MovedTo
    <3>8. QED
      BY <1>1, <1>4, <2>1, <2>2, <2>3, <2>5, <3>7, QuietStep DEF Building
  <2>6. QED
    BY <2>4, <2>5
<1>16. CASE Help(t)
  <2>1. MovedTo(t, "first") /\ pc[t] = "help" /\ t \in Consumers /\ t \notin Producers
    BY <1>6, <1>16 DEF Help, DequeueLabels
  <2>2. PICK i \in 1 .. f : \E j \in i .. l : Knows(i, j)
    BY <1>8, <2>1
  <2>3. PICK j \in i .. l : Knows(i, j)
    BY <2>2
  <2>4. myLast[t].ptr = c[i] /\ myNext[t].ptr = c[i + 1] /\ i \in 1 .. m - 1
    BY <1>1, <2>1, <2>3 DEF Knows
  <2>5. MoveLast(t, c[i + 1])
    BY <1>16, <2>4 DEF Help
  <2>6. PICK l2 \in l .. m : Last'.ptr = c[l2]
    BY <2>4, <2>5, LastMoves
  <2>7. ForgetLocals(t) /\ UNCHANGED <<First, nodeVars, node, item, made, got>>
    BY <1>16 DEF Help
  <2>8. ConsumerAt(t, c, m, f, l2)'
    BY <2>1 DEF ConsumerAt, MovedTo
  <2>9. QED
    BY <1>7, <2>1, <2>6, <2>7, <2>8, QuietStep DEF Building
<1>17. CASE ReadElement(t)
  <2>1. MovedTo(t, "advance") /\ pc[t] = "read" /\ t \in Consumers /\ t \notin Producers
    BY <1>6, <1>17 DEF ReadElement, DequeueLabels
  <2>2. PICK i \in 1 .. f : \E j \in i .. l : Knows(i, j)
    BY <1>8, <2>1
  <2>3. PICK j \in i .. l : Knows(i, j)
    BY <2>2
  <2>4. /\ myFirst[t].ptr = c[i] /\ myLast[t].ptr = c[j] /\ i < j /\ i < m
        /\ myNext[t].ptr = c[i + 1]
    BY <2>1, <2>3 DEF Knows
  <2>5. /\ item'[t] = IF c[i + 1] \in alive THEN element[c[i + 1]] ELSE 0
        /\ \A u \in Consumers \ {t} : item'[u] = item[u]
        /\ UNCHANGED <<endVars, nodeVars, node, myFirst, myLast, myNext, made, got>>
    BY <1>2, <1>17, <2>1, <2>4 DEF ReadElement, MSTypes
  <2>6. c[i + 1] \notin alive => i < f
    BY <1>1, <1>3, <1>4, <2>4 DEF Living
  <2>7. ConsumerAt(t, c, m, f, l)'
    BY <2>1, <2>2, <2>4, <2>5, <2>6 DEF ConsumerAt, MovedTo
  <2>8. QED
    BY <1>1, <1>4, <2>1, <2>5, <2>7, QuietStep DEF Building
<1>18. CASE Advance(t) /\ First # myFirst[t]
  <2>1. Within(t, "advance", "first") /\ ForgetLocals(t)
        /\ item' = [item EXCEPT ![t] = 0] /\ UNCHANGED <<First, Last, nodeVars, node, made, got>>
    BY <1>18 DEF Advance
  <2>2. MovedTo(t, "first") /\ pc[t] = "advance" /\ t \in Consumers /\ t \notin Producers
    BY <1>6, <2>1 DEF DequeueLabels
  <2>3. \A u \in Consumers \ {t} : item'[u] = item[u]
    BY <1>2, <2>1 DEF MSTypes
  <2>4. ConsumerAt(t, c, m, f, l)'
    BY <1>9, <2>2
  <2>5. QED
    BY <1>1, <1>4, <1>7, <2>1, <2>2, <2>3, <2>4, QuietStep DEF Building
<1>19. QED
  BY <1>10, <1>11, <1>12, <1>13, <1>14, <1>15, <1>16, <1>17, <1>18

\* A new node is nobody else's.
LEMMA NewNodeStep ==
  ASSUME MSSetting, MSCore, NEW c, NEW m, NEW f, NEW l, Spot(c, m, f, l), Listed(c, m, f, l),
         NEW t \in Threads, NewNode(t)
  PROVE  \E a : /\ Spot(c, m, f, a) /\ Listed(c, m, f, a)'
                /\ \A i \in 1 .. m : element'[c[i]] = element[c[i]]
<1> USE DEF endVars, nodeVars, localVars
<1>1. m \in Nat \ {0} /\ f \in 1 .. m /\ l \in 1 .. m /\ c \in [1 .. m -> Heap]
  BY DEF Spot
<1>2. MSTypes /\ ~Reuse /\ Null \notin Heap
  BY DEF MSCore, MSSetting
<1>3. MovedTo(t, "loadLast") /\ pc[t] = "new" /\ t \in Producers /\ t \notin Consumers
  <2>1. Within(t, "new", "loadLast")
    BY DEF NewNode
  <2>2. MovedTo(t, "loadLast") /\ pc[t] = "new"
    BY <2>1, WithinCore DEF EnqueueLabels
  <2>3. QED
    BY <2>2, Lanes DEF MSCore, Roles, EnqueueLabels
<1>4. PICK n \in Heap \ used : /\ alive' = alive \cup {n} /\ used' = used \cup {n}
                               /\ element' = [element EXCEPT ![n] = made + 1]
                               /\ next' = [next EXCEPT ![n] = NoNode]
                               /\ node' = [node EXCEPT ![t] = n]
  BY <1>2 DEF NewNode
<1>5. /\ made' = made + 1 /\ made \in Nat
      /\ UNCHANGED <<endVars, myFirst, myLast, myNext, item, got>>
  BY <1>2 DEF NewNode, MSTypes
<1>6. /\ Chained(c, m) /\ EndsAt(c, m, f, l) /\ NodesApart(c, m) /\ Living(c, m, f)
      /\ ItemsPlaced(c, m, f)
      /\ \A u \in Producers : ProducerAt(u, c, m, l)
      /\ \A u \in Consumers : ConsumerAt(u, c, m, f, l)
  BY DEF Listed
<1>7. /\ element'[n] = made + 1 /\ next'[n] = NoNode /\ node'[t] = n
      /\ NoNode.ptr = Null /\ NoNode # Garbage
      /\ \A a \in Heap \ {n} : element'[a] = element[a] /\ next'[a] = next[a]
      /\ \A u \in Producers \ {t} : node'[u] = node[u]
  BY <1>2, <1>3, <1>4, TaggedTypes DEF MSTypes
<1>8. /\ \A i \in 1 .. m : c[i] \in Heap \ {n} /\ c[i] \in used
      /\ \A u \in Producers : pc[u] \in Building => node[u] \in Heap \ {n}
      /\ \A a \in Heap \ {n} : a \in alive' <=> a \in alive
      /\ n \in alive' /\ alive \subseteq alive'
  BY <1>1, <1>2, <1>4, <1>6 DEF MSTypes, Chained, NodesApart
<1>9. \A u \in Threads : u # t => pc'[u] = pc[u]
  BY <1>3 DEF MovedTo
<1>10. pc'[t] = "loadLast" /\ pc[t] \notin Building /\ pc'[t] \in Building
  BY <1>3 DEF MovedTo, Building
<1>11. Chained(c, m)'
  BY <1>4, <1>6, <1>7, <1>8 DEF Chained
<1>12. EndsAt(c, m, f, l)'
  BY <1>5, <1>6 DEF EndsAt
<1>13. NodesApart(c, m)'
  <2>1. ASSUME NEW u \in Producers \ {t}
        PROVE  /\ pc'[u] = pc[u] /\ node'[u] = node[u]
               /\ pc[u] \in Building => node[u] # n
    BY <1>7, <1>8, <1>9, <2>1, Lanes
  <2>2. \A i \in 1 .. m : c[i] # node'[t]
    BY <1>7, <1>8
  <2>3. ASSUME NEW u \in Producers \ {t}, pc[u] \in Building
        PROVE  /\ node[u] \in alive' /\ next'[node[u]].ptr = Null /\ next'[node[u]] # Garbage
               /\ \A i \in 1 .. m : c[i] # node[u]
    BY <1>6, <1>7, <1>8, <2>3 DEF NodesApart
  <2>4. ASSUME NEW u \in Producers, NEW v \in Producers \ {u},
               pc'[u] \in Building, pc'[v] \in Building
        PROVE  node'[v] # node'[u]
    BY <1>6, <1>7, <2>1, <2>4 DEF NodesApart
  <2>5. ASSUME NEW u \in Producers, pc'[u] \notin Building \cup {"swing"} PROVE node'[u] = Null
    BY <1>6, <1>10, <2>1, <2>5 DEF NodesApart
  <2>6. ASSUME NEW u \in Producers, pc'[u] \in Building
        PROVE  /\ node'[u] \in alive' /\ next'[node'[u]].ptr = Null /\ next'[node'[u]] # Garbage
               /\ \A i \in 1 .. m : c[i] # node'[u]
    BY <1>7, <1>8, <2>1, <2>2, <2>3, <2>6
  <2>7. QED
    BY <2>4, <2>5, <2>6 DEF NodesApart, Garbage
<1>14. Living(c, m, f)'
  <2>1. \A u \in Consumers : pc'[u] = pc[u] /\ myFirst'[u] = myFirst[u]
    BY <1>3, <1>5, <1>9, Lanes
  <2>2. \A i \in 1 .. m : c[i] \in alive' <=> c[i] \in alive
    BY <1>8
  <2>3. QED
    BY <1>1, <1>6, <2>1, <2>2 DEF Living
<1>15. ItemsPlaced(c, m, f)'
  <2>1. \A i \in 1 .. m : /\ element'[c[i]] = element[c[i]]
                          /\ c[i] \in alive' <=> c[i] \in alive
    BY <1>7, <1>8
  <2>2. \A u \in Producers \ {t} :
          /\ pc'[u] = pc[u]
          /\ pc[u] \in Building => element'[node'[u]] = element[node[u]]
    BY <1>7, <1>8, <1>9, Lanes
  <2>3. element'[node'[t]] = made + 1
    BY <1>7
  <2>4. \A i \in 2 .. m : element'[c[i]] \in 1 .. made
    BY <1>1, <1>6, <2>1 DEF ItemsPlaced
  <2>5. \A i, j \in 2 .. m : element'[c[i]] = element'[c[j]] => i = j
    BY <1>1, <1>6, <2>1 DEF ItemsPlaced
  <2>6. \A u \in Producers \ {t} : pc[u] \in Building =>
          /\ element'[node'[u]] \in 1 .. made
          /\ \A i \in 2 .. m : element'[c[i]] # element'[node'[u]]
    BY <1>1, <1>6, <2>1, <2>2 DEF ItemsPlaced
  <2>7. \A u \in Producers \ {t} : \A v \in Producers \ {t, u} :
          pc[u] \in Building /\ pc[v] \in Building => element'[node'[v]] # element'[node'[u]]
    BY <1>6, <2>2 DEF ItemsPlaced
  <2>8. ASSUME NEW u \in Producers, pc'[u] \in Building
        PROVE  /\ element'[node'[u]] \in 1 .. made'
               /\ \A i \in 2 .. m : element'[c[i]] # element'[node'[u]]
               /\ \A v \in Producers \ {u} :
                    pc'[v] \in Building => element'[node'[v]] # element'[node'[u]]
    <3>1. \A v \in Producers \ {t} : pc'[v] \in Building => element'[node'[v]] \in 1 .. made
      BY <2>2, <2>6
    <3>2. CASE u = t
      BY <1>5, <2>3, <2>4, <3>1, <3>2
    <3>3. CASE u # t
      BY <1>5, <2>2, <2>3, <2>6, <2>7, <2>8, <3>3
    <3>4. QED
      BY <3>2, <3>3
  <2>9. ASSUME NEW x \in 1 .. made'
        PROVE  \/ \E i \in 2 .. m : element'[c[i]] = x
               \/ \E u \in Producers : pc'[u] \in Building /\ element'[node'[u]] = x
    <3>1. CASE x = made + 1
      BY <1>3, <1>10, <2>3, <3>1
    <3>2. CASE x # made + 1
      <4>1. x \in 1 .. made
        BY <1>5, <3>2
      <4>2. \/ \E i \in 2 .. m : element[c[i]] = x
            \/ \E u \in Producers : pc[u] \in Building /\ element[node[u]] = x
        BY <1>6, <4>1 DEF ItemsPlaced
      <4>3. QED
        BY <1>1, <1>10, <2>1, <2>2, <4>2
    <3>3. QED
      BY <3>1, <3>2
  <2>10. \A x : x \in got' <=> \E i \in 1 .. f - 1 : c[i] \notin alive' /\ element'[c[i + 1]] = x
    <3>1. \A i \in 1 .. f - 1 : i \in 1 .. m /\ i + 1 \in 1 .. m
      BY <1>1
    <3>2. QED
      BY <1>5, <1>6, <2>1, <3>1 DEF ItemsPlaced
  <2>11. \A i \in 2 .. m : element'[c[i]] \in 1 .. made'
    BY <1>5, <2>4
  <2>12. QED
    BY <2>5, <2>8, <2>9, <2>10, <2>11 DEF ItemsPlaced
<1>16. /\ \A u \in Producers \ {t} : ProducerAt(u, c, m, l)'
       /\ \A u \in Consumers \ {t} : ConsumerAt(u, c, m, f, l)'
  <2>1. \A i \in 1 .. m : element'[c[i]] = element[c[i]]
    BY <1>7, <1>8
  <2>2. QED
    BY <1>1, <1>3, <1>5, <1>6, <1>7, <1>8, <2>1, OthersStay
<1>17. ProducerAt(t, c, m, l)'
  BY <1>10 DEF ProducerAt
<1>18. Listed(c, m, f, l)'
  BY <1>3, <1>11, <1>12, <1>13, <1>14, <1>15, <1>16, <1>17 DEF Listed
<1>19. \A i \in 1 .. m : element'[c[i]] = element[c[i]]
  BY <1>7, <1>8
<1>20. QED
  BY <1>18, <1>19

\* The exchange of the last node's link appends the producer's node: there was no
\* node after it, so that it was the last one and List.Last pointed to it.
LEMMA LinkStep ==
  ASSUME MSSetting, MSCore, NEW c, NEW m, NEW f, NEW l, Spot(c, m, f, l), Listed(c, m, f, l),
         NEW t \in Threads, Link(t), next[myLast[t].ptr] = myNext[t]
  PROVE  /\ t \in Producers /\ pc[t] = "link" /\ l = m /\ node[t] \in Heap
         /\ \E d : /\ d = [i \in 1 .. m + 1 |-> IF i <= m THEN c[i] ELSE node[t]]
                   /\ Spot(d, m + 1, f, l) /\ Listed(d, m + 1, f, l)'
<1> USE DEF endVars, nodeVars, localVars
<1>1. m \in Nat \ {0} /\ f \in 1 .. m /\ l \in 1 .. m /\ c \in [1 .. m -> Heap]
  BY DEF Spot
<1>2. MSTypes /\ Null \notin Heap
  BY DEF MSCore, MSSetting
<1>3. MovedTo(t, "swing") /\ pc[t] = "link" /\ t \in Producers /\ t \notin Consumers
  <2>1. Within(t, "link", "swing")
    BY DEF Link
  <2>2. MovedTo(t, "swing") /\ pc[t] = "link"
    BY <2>1, WithinCore DEF EnqueueLabels
  <2>3. QED
    BY <2>2, Lanes DEF MSCore, Roles, EnqueueLabels
<1>4. /\ Chained(c, m) /\ EndsAt(c, m, f, l) /\ NodesApart(c, m) /\ Living(c, m, f)
      /\ ItemsPlaced(c, m, f)
      /\ \A u \in Producers : ProducerAt(u, c, m, l)
      /\ \A u \in Consumers : ConsumerAt(u, c, m, f, l)
  BY DEF Listed
<1>5. PICK k \in 1 .. l : myLast[t].ptr = c[k] /\ myNext[t].ptr = Null
  BY <1>3, <1>4 DEF ProducerAt
<1>6. k = m /\ l = m
  <2>1. next[c[k]].ptr = Null
    BY <1>5
  <2>2. k \in 1 .. m
    BY <1>1
  <2>3. k < m => c[k + 1] # Null
    BY <1>1, <1>2, <2>2
  <2>4. ~(k < m)
    BY <1>4, <2>1, <2>2, <2>3 DEF Chained
  <2>5. QED
    BY <1>1, <2>2, <2>4
<1>7. PICK n \in Heap : n = node[t]
  BY <1>2, <1>3, <1>4 DEF NodesApart, Building, MSTypes
<1>8. /\ n \in alive /\ n \in used /\ next[n].ptr = Null /\ next[n] # Garbage
      /\ \A i \in 1 .. m : c[i] # n
      /\ \A u \in Producers \ {t} : pc[u] \in Building => node[u] # n
  BY <1>2, <1>3, <1>4, <1>7 DEF NodesApart, Building, MSTypes
<1>9. PICK e \in TaggedPointers :
        next' = [next EXCEPT ![c[m]] = e] /\ e.ptr = n /\ e # Garbage
  <2>1. PICK i \in Int : i = myNext[t].count + 1
    BY <1>2, TaggedPtr DEF MSTypes
  <2>2. next' = [next EXCEPT ![c[m]] = Tagged(n, i)]
    BY <1>5, <1>6, <1>7, <2>1 DEF Link
  <2>3. Tagged(n, i) \in TaggedPointers /\ Tagged(n, i).ptr = n
    BY TaggedTypes
  <2>4. Tagged(n, i) # Garbage
    BY <1>2, <2>3 DEF Garbage
  <2>5. QED
    BY <2>2, <2>3, <2>4
<1>10. /\ c[m] \in Heap /\ next'[c[m]] = e
       /\ \A a \in Heap \ {c[m]} : next'[a] = next[a]
  BY <1>1, <1>2, <1>9 DEF MSTypes
<1>11. UNCHANGED <<endVars, element, alive, used, node, myFirst, myLast, item, made, got>>
  BY DEF Link
<1>12. \A u \in Threads \ {t} : myNext'[u] = myNext[u]
  BY <1>2 DEF Link, MSTypes
<1>13. pc'[t] = "swing" /\ \A u \in Threads \ {t} : pc'[u] = pc[u]
  BY <1>3 DEF MovedTo
<1>14. PICK c2 : c2 = [i \in 1 .. m + 1 |-> IF i <= m THEN c[i] ELSE node[t]]
  OBVIOUS
<1>15. c2 \in [1 .. m + 1 -> Heap] /\ c2[m + 1] = n /\ \A i \in 1 .. m : c2[i] = c[i]
  BY <1>1, <1>7, <1>14
<1>16. Spot(c2, m + 1, f, l)
  BY <1>1, <1>15 DEF Spot
<1>17. Chained(c2, m + 1)'
  <2>1. \A i, j \in 1 .. m + 1 : c2[i] = c2[j] => i = j
    BY <1>1, <1>4, <1>8, <1>15 DEF Chained
  <2>2. ASSUME NEW i \in 1 .. m + 1
        PROVE  /\ c2[i] \in used' /\ next'[c2[i]] # Garbage
               /\ next'[c2[i]].ptr = IF i < m + 1 THEN c2[i + 1] ELSE Null
    <3>1. CASE i = m + 1
      BY <1>1, <1>8, <1>10, <1>11, <1>15, <3>1
    <3>2. CASE i = m
      BY <1>1, <1>4, <1>9, <1>10, <1>11, <1>15, <3>2 DEF Chained
    <3>3. CASE i < m
      <4>1. i \in 1 .. m /\ i + 1 \in 1 .. m /\ c2[i] = c[i] /\ c2[i + 1] = c[i + 1]
        BY <1>1, <1>15, <3>3
      <4>2. c[i] # c[m] /\ c[i] \in Heap /\ m \in 1 .. m
        BY <1>1, <1>4, <3>3, <4>1 DEF Chained
      <4>3. next'[c[i]] = next[c[i]]
        BY <1>10, <4>2
      <4>4. c[i] \in used /\ next[c[i]] # Garbage /\ next[c[i]].ptr = c[i + 1]
        BY <1>4, <3>3, <4>1 DEF Chained
      <4>5. QED
        BY <1>1, <1>11, <3>3, <4>1, <4>3, <4>4
    <3>4. QED
      BY <1>1, <3>1, <3>2, <3>3
  <2>3. QED
    BY <2>1, <2>2 DEF Chained, Garbage
<1>18. EndsAt(c2, m + 1, f, l)'
  BY <1>1, <1>4, <1>6, <1>11, <1>15 DEF EndsAt
<1>19. NodesApart(c2, m + 1)'
  <2>1. \A u \in Producers \ {t} : pc'[u] = pc[u]
    BY <1>13, Lanes
  <2>2. ASSUME NEW u \in Producers, pc'[u] \in Building
        PROVE  /\ u # t /\ pc[u] \in Building
               /\ node[u] \in alive /\ next'[node[u]].ptr = Null /\ next'[node[u]] # Garbage
               /\ \A i \in 1 .. m + 1 : c2[i] # node[u]
    <3>1. u # t /\ pc[u] \in Building
      BY <1>13, <2>1, <2>2 DEF Building
    <3>2. /\ node[u] \in alive /\ next[node[u]].ptr = Null /\ next[node[u]] # Garbage
          /\ node[u] # n /\ \A i \in 1 .. m : c[i] # node[u]
      BY <1>4, <1>8, <3>1 DEF NodesApart
    <3>3. node[u] \in Heap \ {c[m]}
      BY <1>1, <1>2, <3>2 DEF MSTypes
    <3>4. \A i \in 1 .. m + 1 : c2[i] # node[u]
      BY <1>1, <1>15, <3>2
    <3>5. QED
      BY <1>10, <3>1, <3>2, <3>3, <3>4
  <2>3. ASSUME NEW u \in Producers, pc'[u] \notin Building \cup {"swing"} PROVE node[u] = Null
    BY <1>4, <1>13, <2>1, <2>3 DEF NodesApart
  <2>4. ASSUME NEW u \in Producers, NEW v \in Producers \ {u},
               pc'[u] \in Building, pc'[v] \in Building
        PROVE  node[v] # node[u]
    BY <1>4, <2>2, <2>4 DEF NodesApart
  <2>5. QED
    BY <1>11, <2>2, <2>3, <2>4 DEF NodesApart, Garbage
<1>20. Living(c2, m + 1, f)'
  <2>1. \A u \in Consumers : pc'[u] = pc[u]
    BY <1>3, <1>13, Lanes
  <2>2. \A i \in f .. m + 1 : c2[i] \in alive
    BY <1>1, <1>4, <1>8, <1>15 DEF Living
  <2>3. \A i \in 1 .. f - 1 : c2[i] = c[i]
    BY <1>1, <1>15
  <2>4. QED
    BY <1>4, <1>11, <2>1, <2>2, <2>3 DEF Living
<1>21. ItemsPlaced(c2, m + 1, f)'
  <2>1. \A u \in Producers : pc'[u] \in Building <=> pc[u] \in Building /\ u # t
    BY <1>13, Lanes DEF Building
  <2>2. pc[t] \in Building /\ m + 1 \in 2 .. m + 1
    BY <1>1, <1>3 DEF Building
  <2>3. \A i \in 2 .. m + 1 : c2[i] = (IF i = m + 1 THEN n ELSE c[i]) /\ (i # m + 1 => i \in 2 .. m)
    BY <1>1, <1>15
  <2>4. /\ element[n] \in 1 .. made
        /\ \A i \in 2 .. m : element[c[i]] # element[n]
        /\ \A u \in Producers \ {t} : pc[u] \in Building => element[node[u]] # element[n]
    BY <1>3, <1>4, <1>7, <2>2 DEF ItemsPlaced
  <2>5. \A i \in 2 .. m + 1 : element[c2[i]] \in 1 .. made
    BY <1>4, <2>3, <2>4 DEF ItemsPlaced
  <2>6. \A i, j \in 2 .. m + 1 : element[c2[i]] = element[c2[j]] => i = j
    BY <1>4, <2>3, <2>4 DEF ItemsPlaced
  <2>7. ASSUME NEW u \in Producers, pc'[u] \in Building
        PROVE  /\ element[node[u]] \in 1 .. made
               /\ \A i \in 2 .. m + 1 : element[c2[i]] # element[node[u]]
               /\ \A v \in Producers \ {u} : pc'[v] \in Building => element[node[v]] # element[node[u]]
    BY <1>4, <2>1, <2>3, <2>4, <2>7 DEF ItemsPlaced
  <2>8. ASSUME NEW x \in 1 .. made
        PROVE  \/ \E i \in 2 .. m + 1 : element[c2[i]] = x
               \/ \E u \in Producers : pc'[u] \in Building /\ element[node[u]] = x
    <3>1. \/ \E i \in 2 .. m : element[c[i]] = x
          \/ \E u \in Producers : pc[u] \in Building /\ element[node[u]] = x
      BY <1>4 DEF ItemsPlaced
    <3>2. CASE \E i \in 2 .. m : element[c[i]] = x
      <4>1. PICK i \in 2 .. m : element[c[i]] = x
        BY <3>2
      <4>2. i \in 2 .. m + 1 /\ c2[i] = c[i]
        BY <1>1, <1>15
      <4>3. QED
        BY <4>1, <4>2
    <3>3. CASE \E u \in Producers : pc[u] \in Building /\ element[node[u]] = x
      BY <1>7, <1>15, <2>1, <2>2, <3>3
    <3>4. QED
      BY <3>1, <3>2, <3>3
  <2>9. \A x : x \in got <=> \E i \in 1 .. f - 1 : c2[i] \notin alive /\ element[c2[i + 1]] = x
    <3>1. \A i \in 1 .. f - 1 : c2[i] = c[i] /\ c2[i + 1] = c[i + 1]
      BY <1>1, <1>15
    <3>2. QED
      BY <1>4, <3>1 DEF ItemsPlaced
  <2>10. QED
    BY <1>11, <2>5, <2>6, <2>7, <2>8, <2>9 DEF ItemsPlaced
<1>22. /\ \A u \in Producers \ {t} : ProducerAt(u, c2, m + 1, l)'
       /\ \A u \in Consumers \ {t} : ConsumerAt(u, c2, m + 1, f, l)'
  <2>1. /\ f <= f /\ l <= l /\ m <= m + 1 /\ Spot(c, m, f, l)
        /\ \A u \in Threads \ {t} : myLast'[u] = myLast[u] /\ myNext'[u] = myNext[u]
    BY <1>1, <1>11, <1>12
  <2>2. QED
    BY <1>3, <1>4, <1>11, <1>15, <1>16, <2>1, OthersStay
<1>23. ProducerAt(t, c2, m + 1, l)'
  BY <1>1, <1>5, <1>6, <1>7, <1>11, <1>13, <1>15 DEF ProducerAt
<1>24. Listed(c2, m + 1, f, l)'
  BY <1>3, <1>17, <1>18, <1>19, <1>20, <1>21, <1>22, <1>23 DEF Listed
<1>25. QED
  BY <1>3, <1>6, <1>7, <1>14, <1>16, <1>24

\* The exchange of List.First takes the node after the first one off the list,
\* whose item the consumer has read.
LEMMA AdvanceStep ==
  ASSUME MSSetting, MSCore, NEW c, NEW m, NEW f, NEW l, Spot(c, m, f, l), Listed(c, m, f, l),
         NEW t \in Threads, Advance(t), First = myFirst[t]
  PROVE  /\ t \in Consumers /\ pc[t] = "advance" /\ f < m /\ item[t] = element[c[f + 1]]
         /\ Spot(c, m, f + 1, l) /\ Listed(c, m, f + 1, l)'
<1> USE DEF endVars, nodeVars, localVars
<1>1. m \in Nat \ {0} /\ f \in 1 .. m /\ l \in 1 .. m /\ c \in [1 .. m -> Heap]
  BY DEF Spot
<1>2. MSTypes
  BY DEF MSCore
<1>3. MovedTo(t, "free") /\ pc[t] = "advance" /\ t \in Consumers /\ t \notin Producers
  <2>1. Within(t, "advance", "free")
    BY DEF Advance
  <2>2. MovedTo(t, "free") /\ pc[t] = "advance"
    BY <2>1, WithinCore DEF DequeueLabels
  <2>3. QED
    BY <2>2, Lanes DEF MSCore, Roles, DequeueLabels
<1>4. /\ Chained(c, m) /\ EndsAt(c, m, f, l) /\ NodesApart(c, m) /\ Living(c, m, f)
      /\ ItemsPlaced(c, m, f)
      /\ \A u \in Producers : ProducerAt(u, c, m, l)
      /\ \A u \in Consumers : ConsumerAt(u, c, m, f, l)
  BY DEF Listed
<1>5. PICK i \in 1 .. f : \E j \in i .. l :
        /\ myFirst[t].ptr = c[i] /\ i < m /\ myNext[t].ptr = c[i + 1] /\ i < j
        /\ item[t] = element[c[i + 1]] \/ i < f
  BY <1>3, <1>4 DEF ConsumerAt
<1>6. i = f /\ f < l /\ f < m /\ myNext[t].ptr = c[f + 1] /\ item[t] = element[c[f + 1]]
      /\ myFirst[t].ptr = c[f]
  <2>1. First.ptr = c[f] /\ \A a, b \in 1 .. m : c[a] = c[b] => a = b
    BY <1>4 DEF EndsAt, Chained
  <2>2. i \in 1 .. m /\ c[i] = c[f]
    BY <1>1, <1>5, <2>1
  <2>3. i = f
    BY <1>1, <2>1, <2>2
  <2>4. QED
    BY <1>1, <1>5, <2>3
<1>7. First'.ptr = c[f + 1]
  <2>1. PICK a \in Int : a = First.count + 1
    BY <1>2, TaggedPtr DEF MSTypes
  <2>2. PICK n \in Heap : n = c[f + 1]
    BY <1>1, <1>6
  <2>3. First' = Tagged(n, a)
    BY <1>6, <2>1, <2>2 DEF Advance
  <2>4. QED
    BY <2>2, <2>3, TaggedTypes
<1>8. UNCHANGED <<Last, nodeVars, node, made, got, myFirst, myLast, myNext, item>>
  BY DEF Advance
<1>9. pc'[t] = "free" /\ \A u \in Threads \ {t} : pc'[u] = pc[u]
  BY <1>3 DEF MovedTo
<1>10. \A u \in Producers : pc'[u] = pc[u]
  BY <1>3, <1>9, Lanes
<1>11. Spot(c, m, f + 1, l)
  BY <1>1, <1>6 DEF Spot
<1>12. Chained(c, m)'
  BY <1>4, <1>8 DEF Chained, Garbage
<1>13. EndsAt(c, m, f + 1, l)'
  BY <1>1, <1>4, <1>6, <1>7, <1>8 DEF EndsAt
<1>14. NodesApart(c, m)'
  BY <1>4, <1>8, <1>10 DEF NodesApart, Garbage
<1>15. Living(c, m, f + 1)'
  <2>1. \A a \in f + 1 .. m : c[a] \in alive
    BY <1>1, <1>4 DEF Living
  <2>2. ASSUME NEW a \in 1 .. (f + 1) - 1, c[a] \in alive
        PROVE  \E u \in Consumers : pc'[u] = "free" /\ myFirst[u].ptr = c[a]
    <3>1. CASE a = f
      BY <1>3, <1>6, <1>9, <3>1
    <3>2. CASE a # f
      <4>1. a \in 1 .. f - 1
        BY <1>1, <3>2
      <4>2. PICK u \in Consumers : pc[u] = "free" /\ myFirst[u].ptr = c[a]
        BY <1>4, <2>2, <4>1 DEF Living
      <4>3. pc'[u] = "free"
        BY <1>9, <4>2, Lanes
      <4>4. QED
        BY <4>2, <4>3
    <3>3. QED
      BY <3>1, <3>2
  <2>3. ASSUME NEW u \in Consumers \ {t}, pc'[u] = "free" PROVE pc[u] = "free" /\ myFirst[u].ptr # c[f]
    <3>1. pc[u] = "free"
      BY <1>9, <2>3, Lanes
    <3>2. PICK a \in 1 .. f - 1 : myFirst[u].ptr = c[a]
      BY <1>4, <3>1 DEF ConsumerAt
    <3>3. c[a] # c[f]
      BY <1>1, <1>4 DEF Chained
    <3>4. QED
      BY <3>1, <3>2, <3>3
  <2>4. ASSUME NEW u \in Consumers, NEW v \in Consumers, pc'[u] = "free", pc'[v] = "free",
               myFirst[u].ptr = myFirst[v].ptr
        PROVE  u = v
    BY <1>4, <1>6, <2>3, <2>4 DEF Living
  <2>5. QED
    BY <1>8, <2>1, <2>2, <2>4 DEF Living
<1>16. ItemsPlaced(c, m, f + 1)'
  <2>1. \A x : x \in got <=> \E a \in 1 .. (f + 1) - 1 : c[a] \notin alive /\ element[c[a + 1]] = x
    <3>1. c[f] \in alive
      BY <1>1, <1>4 DEF Living
    <3>2. \A a \in 1 .. (f + 1) - 1 : a # f => a \in 1 .. f - 1
      BY <1>1
    <3>3. \A a \in 1 .. f - 1 : a \in 1 .. (f + 1) - 1
      BY <1>1
    <3>4. QED
      BY <1>4, <3>1, <3>2, <3>3 DEF ItemsPlaced
  <2>2. QED
    BY <1>4, <1>8, <1>10, <2>1 DEF ItemsPlaced
<1>17. /\ \A u \in Producers \ {t} : ProducerAt(u, c, m, l)'
       /\ \A u \in Consumers \ {t} : ConsumerAt(u, c, m, f + 1, l)'
  <2>1. f <= f + 1 /\ l <= l /\ m <= m
    BY <1>1
  <2>2. QED
    BY <1>3, <1>4, <1>8, <1>11, <2>1, OthersStay
<1>18. ConsumerAt(t, c, m, f + 1, l)'
  <2>1. f \in 1 .. (f + 1) - 1 /\ c[f] \in alive
    BY <1>1, <1>4 DEF Living
  <2>2. QED
    BY <1>6, <1>8, <1>9, <2>1 DEF ConsumerAt
<1>19. Listed(c, m, f + 1, l)'
  BY <1>3, <1>12, <1>13, <1>14, <1>15, <1>16, <1>17, <1>18 DEF Listed
<1>20. QED
  BY <1>3, <1>6, <1>11, <1>19

\* A node is freed by the one consumer that took it off the list.
LEMMA FreeStep ==
  ASSUME MSSetting, MSCore, NEW c, NEW m, NEW f, NEW l, Spot(c, m, f, l), Listed(c, m, f, l),
         NEW t \in Threads, Free(t)
  PROVE  \E a : /\ Spot(c, m, f, a) /\ Listed(c, m, f, a)'
                /\ \A i \in 1 .. m : element'[c[i]] = element[c[i]]
<1> USE DEF endVars, nodeVars, localVars
<1>1. m \in Nat \ {0} /\ f \in 1 .. m /\ l \in 1 .. m /\ c \in [1 .. m -> Heap]
  BY DEF Spot
<1>2. MSTypes
  BY DEF MSCore
<1>3. PICK there \in {"empty", "end"} : MovedTo(t, there)
  BY EndIterationCore DEF Free, DequeueLabels
<1>4. pc[t] = "free" /\ t \in Consumers /\ t \notin Producers
  <2>1. pc[t] = "free"
    BY EndIterationCore DEF Free, DequeueLabels
  <2>2. QED
    BY <2>1, Lanes DEF MSCore, Roles, DequeueLabels
<1>5. /\ Chained(c, m) /\ EndsAt(c, m, f, l) /\ NodesApart(c, m) /\ Living(c, m, f)
      /\ ItemsPlaced(c, m, f)
      /\ \A u \in Producers : ProducerAt(u, c, m, l)
      /\ \A u \in Consumers : ConsumerAt(u, c, m, f, l)
  BY DEF Listed
<1>6. PICK i \in 1 .. f - 1 :
        myFirst[t].ptr = c[i] /\ c[i] \in alive /\ item[t] = element[c[i + 1]]
  BY <1>4, <1>5 DEF ConsumerAt
<1>7. /\ alive' = alive \ {c[i]} /\ got' = got \cup {element[c[i + 1]]}
      /\ UNCHANGED <<endVars, element, next, used, node, made>>
  BY <1>6 DEF Free
<1>8. /\ \A u \in Threads \ {t} : myLast'[u] = myLast[u] /\ myNext'[u] = myNext[u]
      /\ \A u \in Consumers \ {t} : myFirst'[u] = myFirst[u] /\ item'[u] = item[u]
  BY <1>2 DEF Free, ForgetLocals, MSTypes
<1>9. pc'[t] = there /\ \A u \in Threads \ {t} : pc'[u] = pc[u]
  BY <1>3 DEF MovedTo
<1>10. \A u \in Producers : pc'[u] = pc[u]
  BY <1>4, <1>9, Lanes
<1>11. i \in 1 .. m /\ \A j \in 1 .. m : c[j] \in alive' <=> c[j] \in alive /\ j # i
  BY <1>1, <1>5, <1>7 DEF Chained
<1>12. \A u \in Consumers \ {t} : pc[u] = "free" => myFirst[u].ptr # c[i]
  BY <1>4, <1>5, <1>6 DEF Living
<1>13. Chained(c, m)'
  BY <1>5, <1>7 DEF Chained, Garbage
<1>14. EndsAt(c, m, f, l)'
  BY <1>5, <1>7 DEF EndsAt
<1>15. NodesApart(c, m)'
  BY <1>5, <1>7, <1>10, <1>11 DEF NodesApart, Garbage
<1>16. Living(c, m, f)'
  <2>1. \A u \in Consumers \ {t} : pc'[u] = pc[u] /\ myFirst'[u] = myFirst[u]
    BY <1>8, <1>9, Lanes
  <2>2. \A j \in f .. m : c[j] \in alive'
    BY <1>1, <1>5, <1>11 DEF Living
  <2>3. ASSUME NEW j \in 1 .. f - 1, c[j] \in alive'
        PROVE  \E u \in Consumers : pc'[u] = "free" /\ myFirst'[u].ptr = c[j]
    <3>1. j \in 1 .. m /\ c[j] \in alive /\ j # i
      BY <1>1, <1>11, <2>3
    <3>2. PICK u \in Consumers : pc[u] = "free" /\ myFirst[u].ptr = c[j]
      BY <1>5, <3>1 DEF Living
    <3>3. c[j] # c[i]
      BY <1>5, <1>11, <3>1 DEF Chained
    <3>4. u # t
      BY <1>6, <3>2, <3>3
    <3>5. QED
      BY <2>1, <3>2, <3>4
  <2>4. pc'[t] # "free"
    BY <1>3, <1>9
  <2>5. \A u, v \in Consumers :
          pc'[u] = "free" /\ pc'[v] = "free" /\ myFirst'[u].ptr = myFirst'[v].ptr => u = v
    BY <1>5, <2>1, <2>4 DEF Living
  <2>6. QED
    BY <2>2, <2>3, <2>5 DEF Living
<1>17. ItemsPlaced(c, m, f)'
  <2>1. ASSUME NEW x
        PROVE  x \in got' <=> \E j \in 1 .. f - 1 : c[j] \notin alive' /\ element[c[j + 1]] = x
    <3>1. x \in got <=> \E j \in 1 .. f - 1 : c[j] \notin alive /\ element[c[j + 1]] = x
      BY <1>5 DEF ItemsPlaced
    <3>2. \A j \in 1 .. f - 1 : c[j] \notin alive' <=> c[j] \notin alive \/ j = i
      BY <1>1, <1>11
    <3>3. x \in got' <=> x \in got \/ x = element[c[i + 1]]
      BY <1>7
    <3>4. QED
      BY <3>1, <3>2, <3>3
  <2>2. QED
    BY <1>5, <1>7, <1>10, <2>1 DEF ItemsPlaced
<1>18. /\ \A u \in Producers \ {t} : ProducerAt(u, c, m, l)'
       /\ \A u \in Consumers \ {t} : ConsumerAt(u, c, m, f, l)'
  <2>1. f <= f /\ l <= l /\ m <= m
    BY <1>1
  <2>2. \A u \in Consumers \ {t} :
          pc[u] = "free" /\ myFirst[u].ptr \in alive => myFirst[u].ptr \in alive'
    BY <1>7, <1>12
  <2>3. QED
    BY <1>3, <1>5, <1>7, <1>8, <2>1, <2>2, OthersStay
<1>19. ConsumerAt(t, c, m, f, l)'
  BY <1>3, <1>9 DEF ConsumerAt
<1>20. Listed(c, m, f, l)'
  BY <1>4, <1>13, <1>14, <1>15, <1>16, <1>17, <1>18, <1>19 DEF Listed
<1>21. QED
  BY <1>7, <1>20

\* A step of any thread keeps the list, ...
LEMMA MSNextIInv ==
  ASSUME MSSetting, MSIInv, [MSNext]_msVars
  PROVE  MSIInv'
<1>1. MSCore
  BY DEF MSIInv
<1>2. PICK c, m, f, l : Spot(c, m, f, l) /\ Listed(c, m, f, l)
  BY DEF MSIInv
<1>3. CASE UNCHANGED msVars
  <2>1. /\ UNCHANGED <<pc, ctr, run, exec, iter, First, Last, element, next, alive, used,
                       node, myFirst, myLast, myNext, item, made, got>>
    BY <1>3 DEF msVars, driverVars, endVars, nodeVars, localVars
  <2>2. MSCore'
    BY <1>1, <2>1 DEF MSCore, DriverOK, DriverTypeOK, MSTypes, Roles, TaggedPointers
  <2>3. /\ Chained(c, m)' /\ EndsAt(c, m, f, l)' /\ NodesApart(c, m)' /\ Living(c, m, f)'
        /\ ItemsPlaced(c, m, f)'
    BY <1>2, <2>1 DEF Listed, Chained, EndsAt, NodesApart, Living, ItemsPlaced, Garbage
  <2>4. \A u \in Producers : ProducerAt(u, c, m, l)'
    BY <1>2, <2>1 DEF Listed, ProducerAt, NextRead, Garbage
  <2>5. \A u \in Consumers : ConsumerAt(u, c, m, f, l)'
    BY <1>2, <2>1 DEF Listed, ConsumerAt, NextRead, Garbage
  <2>6. Listed(c, m, f, l)'
    BY <2>3, <2>4, <2>5 DEF Listed
  <2>7. QED
    BY <1>2, <2>2, <2>6 DEF MSIInv, Spot
<1>4. CASE MSNext
  <2>1. PICK t \in Threads : MSStep(t)
    BY <1>4 DEF MSNext
  <2>2. MSCore'
    BY <1>1, <2>1, DriverCore, EnqueueCore, DequeueCore DEF MSStep
  <2>3. \E d, n, a, b : Spot(d, n, a, b) /\ Listed(d, n, a, b)'
    <3>1. CASE MSArrive(t) \/ MSStartProducer(t) \/ MSStartConsumer(t) \/ MSEndExec(t)
      BY <1>1, <1>2, <3>1, DriverQuiet
    <3>2. CASE NewNode(t)
      BY <1>1, <1>2, <3>2, NewNodeStep
    <3>3. CASE Link(t) /\ next[myLast[t].ptr] = myNext[t]
      BY <1>1, <1>2, <3>3, LinkStep
    <3>4. CASE \/ LoadLast(t) \/ LoadNext(t) \/ Recheck(t) \/ HelpLink(t) \/ Swing(t)
               \/ Link(t) /\ next[myLast[t].ptr] # myNext[t]
      BY <1>1, <1>2, <3>4, EnqueueQuiet
    <3>5. CASE Advance(t) /\ First = myFirst[t]
      BY <1>1, <1>2, <3>5, AdvanceStep
    <3>6. CASE Free(t)
      BY <1>1, <1>2, <3>6, FreeStep
    <3>7. CASE \/ EmptyFirst(t) \/ EmptyLast(t) \/ LoadFirst(t) \/ LoadLastToo(t)
               \/ LoadNextOfFirst(t) \/ Refirst(t) \/ Help(t) \/ ReadElement(t)
               \/ Advance(t) /\ First # myFirst[t]
      BY <1>1, <1>2, <3>7, DequeueQuiet
    <3>8. QED
      BY <2>1, <3>1, <3>2, <3>3, <3>4, <3>5, <3>6, <3>7 DEF MSStep, Enqueuing, Dequeuing
  <2>4. PICK d, n, a, b : Spot(d, n, a, b) /\ Listed(d, n, a, b)'
    BY <2>3
  <2>5. QED
    BY <2>2, <2>4 DEF MSIInv, Spot
<1>5. QED
  BY <1>3, <1>4

\* ... and at first it has one node, without an item.
LEMMA MSBegins ==
  ASSUME MSSetting, MSInit
  PROVE  MSIInv
<1>1. PICK a \in Heap : a = CHOOSE x \in Heap : TRUE
  BY DEF MSSetting
<1>2. /\ First = Tagged(a, 0) /\ Last = Tagged(a, 0) /\ alive = {a} /\ used = {a}
      /\ \A t \in Threads : pc[t] = "arrive"
  BY <1>1 DEF MSInit, DriverInit
<1>3. Tagged(a, 0) \in TaggedPointers /\ Tagged(a, 0).ptr = a /\ NoNode \in TaggedPointers
      /\ NoNode.ptr = Null /\ NoNode # Garbage
  BY TaggedTypes
<1>4. DriverOK(MSLabels)
  <2>1. "arrive" \in MSLabels /\ DriverInit("arrive")
    BY DEF MSLabels, MSInit
  <2>2. QED
    BY <2>1, DriverBegins
<1>5. MSTypes
  BY <1>2, <1>3 DEF MSInit, MSTypes
<1>6. Roles
  BY <1>2 DEF Roles, EnqueueLabels, DequeueLabels
<1>7. PICK c : c = [i \in 1 .. 1 |-> a]
  OBVIOUS
<1>8. c \in [1 .. 1 -> Heap] /\ c[1] = a
  BY <1>7
<1>9. Spot(c, 1, 1, 1)
  BY <1>8 DEF Spot
<1>10. Chained(c, 1) /\ EndsAt(c, 1, 1, 1)
  BY <1>2, <1>3, <1>8 DEF MSInit, Chained, EndsAt
<1>11. NodesApart(c, 1)
  BY <1>2, Lanes DEF MSInit, NodesApart, Building
<1>12. Living(c, 1, 1)
  BY <1>2, <1>8, Lanes DEF Living
<1>13. ItemsPlaced(c, 1, 1)
  BY <1>2, Lanes DEF MSInit, ItemsPlaced, Building
<1>14. \A t \in Producers : ProducerAt(t, c, 1, 1)
  BY <1>2, Lanes DEF ProducerAt
<1>15. \A t \in Consumers : ConsumerAt(t, c, 1, 1, 1)
  BY <1>2, Lanes DEF ConsumerAt
<1>16. Listed(c, 1, 1, 1)
  BY <1>10, <1>11, <1>12, <1>13, <1>14, <1>15 DEF Listed
<1>17. QED
  BY <1>4, <1>5, <1>6, <1>9, <1>16 DEF MSIInv, MSCore

\* Invariance.
THEOREM MSInvariance == ASSUME MSSetting PROVE MSSpec => []MSIInv
  BY MSBegins, MSNextIInv, PTL DEF MSSpec

\* Type correctness.
THEOREM MSTypeCorrect == ASSUME MSSetting PROVE MSSpec => []MSTypeOK
<1>1. MSIInv => MSTypeOK
  BY DEF MSIInv, MSCore, MSTypes, DriverOK, MSTypeOK
<1>2. QED
  BY <1>1, MSInvariance, PTL

\* What is loaded from freed memory is never acted on: a thread whose second load
\* of List.Last or List.First finds what the first one found has loaded the link
\* of a node that was not freed then, and a consumer that takes a node off the list
\* has read the item of a node that was on it.  No node is freed twice.
THEOREM FreedNeverUsed == ASSUME MSSetting PROVE MSSpec => []FreedUnused
<1>1. ASSUME MSIInv PROVE FreedUnused
  <2>1. PICK c, m, f, l : Spot(c, m, f, l) /\ Listed(c, m, f, l)
    BY <1>1 DEF MSIInv
  <2>2. m \in Nat \ {0} /\ f \in 1 .. m /\ l \in 1 .. m /\ c \in [1 .. m -> Heap] /\ Null \notin Heap
    BY <2>1 DEF Spot, MSSetting
  <2>3. Roles /\ Garbage.ptr = Null
    BY <1>1 DEF MSIInv, MSCore, Garbage
  <2>4. /\ ItemsPlaced(c, m, f)
        /\ \A u \in Producers : ProducerAt(u, c, m, l)
        /\ \A u \in Consumers : ConsumerAt(u, c, m, f, l)
    BY <2>1 DEF Listed
  <2>5. \A i \in 1 .. m : i < m => c[i + 1] # Null
    BY <2>2
  <2>6. ASSUME NEW t \in Threads, pc[t] \in {"link", "helpLink"} PROVE myNext[t] # Garbage
    <3>1. t \in Producers
      BY <2>3, <2>6 DEF Roles, EnqueueLabels
    <3>2. PICK k \in 1 .. l : /\ pc[t] = "link" => myNext[t] # Garbage
                              /\ pc[t] = "helpLink" => k < m /\ myNext[t].ptr = c[k + 1]
      BY <2>4, <2>6, <3>1 DEF ProducerAt
    <3>3. k \in 1 .. m
      BY <2>2
    <3>4. QED
      BY <2>3, <2>5, <2>6, <3>2, <3>3
  <2>7. ASSUME NEW t \in Threads, pc[t] \in {"help", "read", "advance"} PROVE myNext[t] # Garbage
    <3>1. t \in Consumers
      BY <2>3, <2>7 DEF Roles, DequeueLabels
    <3>2. PICK i \in 1 .. f : i < m /\ myNext[t].ptr = c[i + 1]
      BY <2>4, <2>7, <3>1 DEF ConsumerAt
    <3>3. i \in 1 .. m
      BY <2>2
    <3>4. QED
      BY <2>3, <2>5, <3>2, <3>3
  <2>8. ASSUME NEW t \in Consumers, pc[t] = "free"
        PROVE  item[t] \notin got \cup {0} /\ myFirst[t].ptr \in alive
    <3>1. PICK i \in 1 .. f - 1 :
            myFirst[t].ptr = c[i] /\ c[i] \in alive /\ item[t] = element[c[i + 1]]
      BY <2>4, <2>8 DEF ConsumerAt
    <3>2. \A j \in 1 .. f - 1 : j + 1 \in 2 .. m
      BY <2>2
    <3>3. item[t] \in 1 .. made
      BY <2>4, <3>1, <3>2 DEF ItemsPlaced
    <3>4. ASSUME item[t] \in got PROVE FALSE
      <4>1. PICK j \in 1 .. f - 1 : c[j] \notin alive /\ element[c[j + 1]] = element[c[i + 1]]
        BY <2>4, <3>1, <3>4 DEF ItemsPlaced
      <4>2. j + 1 = i + 1
        BY <2>4, <3>2, <4>1 DEF ItemsPlaced
      <4>3. QED
        BY <3>1, <4>1, <4>2
    <3>5. QED
      BY <3>1, <3>3, <3>4
  <2>9. QED
    BY <2>6, <2>7, <2>8 DEF FreedUnused, Garbage
<1>2. QED
  BY <1>1, MSInvariance, PTL

\* List.Last points to an allocated node, the last one or the one before it.
THEOREM LastIsBehind == ASSUME MSSetting PROVE MSSpec => []LastLags
<1>1. ASSUME MSIInv PROVE LastLags
  <2>1. PICK c, m, f, l : Spot(c, m, f, l) /\ Listed(c, m, f, l)
    BY <1>1 DEF MSIInv
  <2>2. m \in Nat \ {0} /\ f \in 1 .. m /\ l \in 1 .. m /\ c \in [1 .. m -> Heap] /\ Null \notin Heap
    BY <2>1 DEF Spot, MSSetting
  <2>3. Chained(c, m) /\ EndsAt(c, m, f, l) /\ Living(c, m, f)
    BY <2>1 DEF Listed
  <2>4. Last.ptr = c[l] /\ f <= l /\ m <= l + 1
    BY <2>3 DEF EndsAt
  <2>5. c[l] \in alive
    BY <2>2, <2>3, <2>4 DEF Living
  <2>6. next[c[m]].ptr = Null /\ c[m] # Null
    BY <2>2, <2>3 DEF Chained
  <2>7. l = m \/ next[c[l]].ptr = c[m]
    BY <2>2, <2>3, <2>4 DEF Chained
  <2>8. QED
    BY <2>4, <2>5, <2>6, <2>7 DEF LastLags
<1>2. QED
  BY <1>1, MSInvariance, PTL

-----------------------------------------------------------------------------
(* The items from List.First on *)

\* Induction, for a set of numbers.
LEMMA NumbersInduction ==
  ASSUME NEW S, 0 \in S, \A n \in Nat : n \in S => n + 1 \in S
  PROVE  Nat \subseteq S
<1> DEFINE R == OpToRel(<, Nat)
           T == Nat \ S
<1>1. IsWellFoundedOn(R, Nat)
  BY NatLessThanWellFounded
<1>2. \A x, y \in Nat : x < y => <<x, y>> \in R
  BY DEF OpToRel
<1> HIDE DEF R
<1>3. SUFFICES ASSUME T # {} PROVE FALSE
  OBVIOUS
<1>4. PICK x \in T : \A y \in T : ~(<<y, x>> \in R)
  BY <1>1, <1>3, WFMin
<1>5. x \in Nat /\ x # 0
  BY <1>4
<1>6. x - 1 \in Nat /\ x - 1 \notin S
  BY <1>4, <1>5
<1>7. <<x - 1, x>> \in R
  BY <1>2, <1>5, <1>6
<1>8. QED
  BY <1>4, <1>6, <1>7

Far == Cardinality(Heap)

\* The function that follows the links exists: by induction there is one that
\* makes n steps.
LEMMA ReachedExists ==
  ASSUME MSSetting, MSTypes
  PROVE  /\ Far \in Nat /\ Reached[0] = First.ptr
         /\ \A i \in Nat : i < Far => Reached[i + 1] = Follow(Reached[i])
<1>1. Far \in Nat
  BY FS_CardinalityType DEF Far, MSSetting
<1>2. PICK begin \in Heap \cup {Null} : begin = First.ptr
  BY TaggedPtr DEF MSTypes
<1>3. \A n \in Heap \cup {Null} : Follow(n) \in Heap \cup {Null}
  <2>1. ASSUME NEW n \in Heap PROVE next[n].ptr \in Heap \cup {Null}
    BY TaggedPtr DEF MSTypes
  <2>2. QED
    BY <2>1 DEF Follow
<1> DEFINE StepOf(g, i) == IF i = 0 THEN begin ELSE Follow(g[i - 1])
           S == {n \in Nat : \E g \in [0 .. n -> Heap \cup {Null}] :
                                \A i \in 0 .. n : g[i] = StepOf(g, i)}
<1>4. 0 \in S
  <2>1. [i \in 0 .. 0 |-> begin] \in [0 .. 0 -> Heap \cup {Null}]
    OBVIOUS
  <2>2. \A i \in 0 .. 0 : [j \in 0 .. 0 |-> begin][i] = StepOf([j \in 0 .. 0 |-> begin], i)
    OBVIOUS
  <2>3. QED
    BY <2>1, <2>2
<1>5. ASSUME NEW n \in Nat, n \in S PROVE n + 1 \in S
  <2>1. PICK g \in [0 .. n -> Heap \cup {Null}] : \A i \in 0 .. n : g[i] = StepOf(g, i)
    BY <1>5
  <2> DEFINE h == [i \in 0 .. n + 1 |-> IF i = n + 1 THEN Follow(g[n]) ELSE g[i]]
  <2>2. h \in [0 .. n + 1 -> Heap \cup {Null}]
    BY <1>3
  <2>3. ASSUME NEW i \in 0 .. n + 1 PROVE h[i] = StepOf(h, i)
    <3>1. CASE i = 0
      BY <2>1, <3>1
    <3>2. CASE i = n + 1
      <4>1. h[i] = Follow(g[n]) /\ h[i - 1] = g[n]
        BY <3>2
      <4>2. QED
        BY <4>1, <3>2
    <3>3. CASE i \in 1 .. n
      <4>1. h[i] = g[i] /\ h[i - 1] = g[i - 1]
        BY <3>3
      <4>2. g[i] = StepOf(g, i)
        BY <2>1, <3>3
      <4>3. QED
        BY <4>1, <4>2, <3>3
    <3>4. QED
      BY <3>1, <3>2, <3>3
  <2>4. \A i \in 0 .. n + 1 : h[i] = StepOf(h, i)
    BY <2>3
  <2> HIDE DEF h
  <2>5. QED
    BY <2>2, <2>4
<1>6. Far \in S
  <2> HIDE DEF S
  <2>1. QED
    BY <1>1, <1>4, <1>5, NumbersInduction
<1>7. PICK g \in [0 .. Far -> Heap \cup {Null}] : \A i \in 0 .. Far : g[i] = StepOf(g, i)
  BY <1>6
<1>8. g = [i \in 0 .. Far |-> IF i = 0 THEN begin ELSE Follow(g[i - 1])]
  BY <1>7
<1>9. \A j \in 0 .. Far : Reached[j] = IF j = 0 THEN begin ELSE Follow(Reached[j - 1])
  <2> DEFINE P(F) == F = [i \in 0 .. Far |-> IF i = 0 THEN begin ELSE Follow(F[i - 1])]
  <2>1. P(g)
    BY <1>8
  <2>2. Reached = CHOOSE F : P(F)
    BY <1>2 DEF Reached, Far
  <2> HIDE DEF P
  <2>3. P(Reached)
    BY <2>1, <2>2
  <2>4. \A F : P(F) => \A j \in 0 .. Far : F[j] = IF j = 0 THEN begin ELSE Follow(F[j - 1])
    BY DEF P
  <2>5. QED
    BY <2>3, <2>4
<1>10. ASSUME NEW i \in Nat, i < Far PROVE Reached[i + 1] = Follow(Reached[i])
  <2>1. i + 1 \in 0 .. Far /\ i + 1 # 0 /\ i + 1 - 1 = i
    BY <1>1, <1>10
  <2>2. QED
    BY <1>9, <2>1
<1>11. QED
  BY <1>1, <1>2, <1>9, <1>10

\* Contents are the items of the nodes after the first one.
ContentsKnown ==
  \A c, m, f, l :
    MSSetting /\ MSTypes /\ Spot(c, m, f, l) /\ Chained(c, m) /\ EndsAt(c, m, f, l) =>
      Contents = [i \in 1 .. m - f |-> element[c[f + i]]]

LEMMA LinkedItems == ContentsKnown
<1> SUFFICES ASSUME NEW c, NEW m, NEW f, NEW l, MSSetting, MSTypes, Spot(c, m, f, l),
                    Chained(c, m), EndsAt(c, m, f, l)
             PROVE  Contents = [i \in 1 .. m - f |-> element[c[f + i]]]
  BY DEF ContentsKnown
<1>1. m \in Nat \ {0} /\ f \in 1 .. m /\ c \in [1 .. m -> Heap] /\ Null \notin Heap
  BY DEF Spot, MSSetting
<1>2. /\ Far \in Nat /\ Reached[0] = First.ptr
      /\ \A i \in Nat : i < Far => Reached[i + 1] = Follow(Reached[i])
  BY ReachedExists
<1>3. m <= Far
  <2>1. c \in Injection(1 .. m, Heap)
    BY <1>1 DEF Chained, Injection, IsInjective
  <2>2. IsFiniteSet(Heap) /\ Cardinality(1 .. m) = m
    BY <1>1, FS_Interval DEF MSSetting
  <2>3. Cardinality(1 .. m) <= Far
    BY <2>1, <2>2, FS_Injection DEF Far
  <2>4. QED
    BY <2>2, <2>3
<1> DEFINE At(i) == IF f + i <= m THEN c[f + i] ELSE Null
           S == {n \in Nat : n <= Far => Reached[n] = At(n)}
<1>4. 0 \in S
  <2>1. First.ptr = c[f]
    BY DEF EndsAt
  <2>2. QED
    BY <1>1, <1>2, <2>1
<1>5. ASSUME NEW n \in Nat, n \in S PROVE n + 1 \in S
  <2>1. SUFFICES ASSUME n + 1 <= Far PROVE Reached[n + 1] = At(n + 1)
    OBVIOUS
  <2>2. n < Far /\ Reached[n] = At(n)
    BY <1>2, <1>5, <2>1
  <2>3. Reached[n + 1] = Follow(Reached[n])
    BY <1>2, <2>2
  <2>4. CASE f + n <= m
    <3>1. f + n \in 1 .. m /\ c[f + n] \in Heap /\ f + (n + 1) = (f + n) + 1
      BY <1>1, <2>4
    <3>2. next[c[f + n]].ptr = IF f + n < m THEN c[(f + n) + 1] ELSE Null
      BY <3>1 DEF Chained
    <3>3. Follow(c[f + n]) = next[c[f + n]].ptr
      BY <1>1, <3>1 DEF Follow
    <3>4. Reached[n + 1] = next[c[f + n]].ptr
      BY <2>2, <2>3, <2>4, <3>3
    <3>5. QED
      BY <1>1, <3>1, <3>2, <3>4
  <2>5. CASE ~(f + n <= m)
    <3>1. ~(f + (n + 1) <= m)
      BY <1>1, <2>5
    <3>2. QED
      BY <2>2, <2>3, <2>5, <3>1 DEF Follow
  <2>6. QED
    BY <2>4, <2>5
<1>6. \A i \in 0 .. Far : Reached[i] = At(i)
  <2> HIDE DEF S
  <2>1. Nat \subseteq S
    BY <1>4, <1>5, NumbersInduction
  <2>2. QED
    BY <1>2, <2>1 DEF S
<1>7. {i \in 1 .. Far : Reached[i] # Null} = 1 .. m - f
  <2>1. ASSUME NEW i \in 1 .. Far PROVE Reached[i] # Null <=> i \in 1 .. m - f
    <3>1. Reached[i] = At(i)
      BY <1>2, <1>6
    <3>2. f + i <= m => f + i \in 1 .. m /\ c[f + i] # Null
      BY <1>1
    <3>3. QED
      BY <1>1, <3>1, <3>2
  <2>2. \A i \in 1 .. m - f : i \in 1 .. Far
    BY <1>1, <1>2, <1>3
  <2>3. QED
    BY <2>1, <2>2
<1>8. NrItems = m - f
  <2>1. Cardinality(1 .. m - f) = m - f
    <3>1. m - f \in Nat
      BY <1>1
    <3>2. QED
      BY <3>1, FS_Interval
  <2>2. QED
    BY <1>7, <2>1 DEF NrItems, Far
<1>9. \A i \in 1 .. m - f : Reached[i] = c[f + i]
  BY <1>1, <1>2, <1>3, <1>6
<1>10. QED
  BY <1>8, <1>9 DEF Contents

\* So they are after every step.
LEMMA LinkedItemsNext == ContentsKnown'
  BY LinkedItems, PTL

\* An item that was made is in the queue, in the node a producer is about to link,
\* in a consumer's hands, or was delivered.
THEOREM MSNoItemLost == ASSUME MSSetting PROVE MSSpec => []NoItemLost
<1>1. ASSUME MSIInv PROVE NoItemLost
  <2>1. PICK c, m, f, l : Spot(c, m, f, l) /\ Listed(c, m, f, l)
    BY <1>1 DEF MSIInv
  <2>2. m \in Nat \ {0} /\ f \in 1 .. m /\ l \in 1 .. m /\ c \in [1 .. m -> Heap] /\ Null \notin Heap
    BY <2>1 DEF Spot, MSSetting
  <2>3. MSTypes /\ Roles
    BY <1>1 DEF MSIInv, MSCore
  <2>4. /\ Chained(c, m) /\ EndsAt(c, m, f, l) /\ NodesApart(c, m) /\ Living(c, m, f)
        /\ ItemsPlaced(c, m, f)
        /\ \A u \in Producers : ProducerAt(u, c, m, l)
        /\ \A u \in Consumers : ConsumerAt(u, c, m, f, l)
    BY <2>1 DEF Listed
  <2>5. Contents = [i \in 1 .. m - f |-> element[c[f + i]]]
    BY <2>1, <2>3, <2>4, LinkedItems DEF ContentsKnown
  <2>6. PICK listed : listed = {Contents[i] : i \in DOMAIN Contents}
    OBVIOUS
  <2>7. \A x : x \in listed <=> \E i \in f + 1 .. m : element[c[i]] = x
    <3>1. \A i \in 1 .. m - f : f + i \in f + 1 .. m
      BY <2>2
    <3>2. \A i \in f + 1 .. m : i - f \in 1 .. m - f /\ f + (i - f) = i
      BY <2>2
    <3>3. listed = {element[c[f + i]] : i \in 1 .. m - f}
      BY <2>5, <2>6
    <3>4. QED
      BY <3>1, <3>2, <3>3
  <2>8. \A i \in 2 .. m : element[c[i]] \in 1 .. made
    BY <2>4 DEF ItemsPlaced
  <2>9. \A i \in 1 .. f - 1 : i + 1 \in 2 .. m
    BY <2>2
  <2>10. listed \subseteq 1 .. made
    <3>1. \A i \in f + 1 .. m : i \in 2 .. m
      BY <2>2
    <3>2. QED
      BY <2>7, <2>8, <3>1
  <2>11. got \subseteq 1 .. made
    BY <2>4, <2>8, <2>9 DEF ItemsPlaced
  <2>12. ASSUME NEW t \in Producers, node[t] # Null PROVE element[node[t]] \in 1 .. made
    <3>1. CASE pc[t] \in Building
      BY <2>4, <3>1 DEF ItemsPlaced
    <3>2. CASE pc[t] \notin Building
      <4>1. pc[t] = "swing"
        BY <2>4, <2>12, <3>2 DEF NodesApart
      <4>2. PICK k \in 1 .. l : k < m /\ node[t] = c[k + 1]
        BY <2>4, <4>1 DEF ProducerAt
      <4>3. k + 1 \in 2 .. m
        BY <2>2, <4>2
      <4>4. QED
        BY <2>8, <4>2, <4>3
    <3>3. QED
      BY <3>1, <3>2
  <2>13. ASSUME NEW t \in Consumers, pc[t] = "free" PROVE item[t] \in 1 .. made
    <3>1. PICK i \in 1 .. f - 1 : item[t] = element[c[i + 1]]
      BY <2>4, <2>13 DEF ConsumerAt
    <3>2. QED
      BY <2>8, <2>9, <3>1
  <2>14. ASSUME NEW x \in 1 .. made
         PROVE  \/ x \in listed \/ x \in got
                \/ \E t \in {u \in Producers : node[u] # Null} : x = element[node[t]]
                \/ \E t \in {u \in Consumers : pc[u] = "free"} : x = item[t]
    <3>1. CASE \E t \in Producers : pc[t] \in Building /\ element[node[t]] = x
      <4>1. PICK t \in Producers : pc[t] \in Building /\ element[node[t]] = x
        BY <3>1
      <4>2. node[t] \in Heap
        BY <2>3, <2>4, <4>1 DEF NodesApart, MSTypes
      <4>3. QED
        BY <2>2, <4>1, <4>2
    <3>2. CASE \E i \in 2 .. m : element[c[i]] = x
      <4>1. PICK i \in 2 .. m : element[c[i]] = x
        BY <3>2
      <4>2. CASE i > f
        <5>1. i \in f + 1 .. m
          BY <2>2, <4>1, <4>2
        <5>2. QED
          BY <2>7, <4>1, <5>1
      <4>3. CASE ~(i > f)
        <5>1. PICK j \in 1 .. f - 1 : i = j + 1
          <6>1. i - 1 \in 1 .. f - 1 /\ i = (i - 1) + 1
            BY <2>2, <4>3
          <6>2. QED
            BY <6>1
        <5>2. CASE c[j] \notin alive
          BY <2>4, <4>1, <5>1, <5>2 DEF ItemsPlaced
        <5>3. CASE c[j] \in alive
          <6>1. PICK t \in Consumers : pc[t] = "free" /\ myFirst[t].ptr = c[j]
            BY <2>4, <5>1, <5>3 DEF Living
          <6>2. PICK a \in 1 .. f - 1 : c[j] = c[a] /\ item[t] = element[c[a + 1]]
            BY <2>4, <6>1 DEF ConsumerAt
          <6>3. a \in 1 .. m /\ j \in 1 .. m
            BY <2>2
          <6>4. a = j
            BY <2>4, <6>2, <6>3 DEF Chained
          <6>5. QED
            BY <4>1, <5>1, <6>1, <6>2, <6>4
        <5>4. QED
          BY <5>2, <5>3
      <4>4. QED
        BY <4>2, <4>3
    <3>3. QED
      BY <2>4, <3>1, <3>2 DEF ItemsPlaced
  <2>15. 1 .. made = listed \cup got
                     \cup {element[node[t]] : t \in {u \in Producers : node[u] # Null}}
                     \cup {item[t] : t \in {u \in Consumers : pc[u] = "free"}}
    BY <2>10, <2>11, <2>12, <2>13, <2>14
  <2>16. QED
    BY <2>6, <2>15 DEF NoItemLost
<1>2. QED
  BY <1>1, MSInvariance, PTL

\* The queue changes in two steps: the exchange of the last node's link puts an item
\* at its end, and the exchange of List.First takes the oldest one, which is the item
\* that the consumer has read before.
QueueChange(t) ==
  \/ Contents' = Contents
  \/ Link(t) /\ Contents' = Append(Contents, element[node[t]]) /\ element[node[t]] \in Nat
  \/ /\ Advance(t) /\ Contents # <<>> /\ Contents' = Tail(Contents)
     /\ item[t] = Head(Contents)

LEMMA MSChanges ==
  ASSUME MSSetting, MSIInv, NEW t \in Threads, MSStep(t)
  PROVE  QueueChange(t)
<1>1. PICK c, m, f, l : Spot(c, m, f, l) /\ Listed(c, m, f, l)
  BY DEF MSIInv
<1>2. m \in Nat \ {0} /\ f \in 1 .. m /\ l \in 1 .. m /\ c \in [1 .. m -> Heap]
  BY <1>1 DEF Spot
<1>3. MSCore /\ MSTypes
  BY DEF MSIInv, MSCore
<1>4. MSTypes' /\ MSSetting'
  <2>1. [MSNext]_msVars
    BY DEF MSNext
  <2>2. QED
    BY <2>1, MSNextIInv DEF MSIInv, MSCore, MSSetting
<1>5. Contents = [i \in 1 .. m - f |-> element[c[f + i]]]
  <2>1. Chained(c, m) /\ EndsAt(c, m, f, l)
    BY <1>1 DEF Listed
  <2>2. MSSetting /\ MSTypes /\ Spot(c, m, f, l)
    BY <1>1, <1>3
  <2>3. MSSetting /\ MSTypes /\ Spot(c, m, f, l) /\ Chained(c, m) /\ EndsAt(c, m, f, l) =>
          Contents = [i \in 1 .. m - f |-> element[c[f + i]]]
    BY LinkedItems DEF ContentsKnown
  <2>4. QED
    BY <2>1, <2>2, <2>3
<1>6. ASSUME NEW d, NEW n, NEW a, NEW b, Spot(d, n, a, b), Listed(d, n, a, b)'
      PROVE  Contents' = [i \in 1 .. n - a |-> element'[d[a + i]]]
  <2>1. Spot(d, n, a, b)' /\ Chained(d, n)' /\ EndsAt(d, n, a, b)'
    BY <1>6 DEF Listed, Spot
  <2>2. QED
    BY <1>4, <2>1, LinkedItemsNext DEF ContentsKnown
<1>7. CASE Link(t) /\ next[myLast[t].ptr] = myNext[t]
  <2>1. t \in Producers /\ node[t] \in Heap
    BY <1>1, <1>3, <1>7, LinkStep
  <2>2. PICK d : /\ d = [i \in 1 .. m + 1 |-> IF i <= m THEN c[i] ELSE node[t]]
                 /\ Spot(d, m + 1, f, l) /\ Listed(d, m + 1, f, l)'
    BY <1>1, <1>3, <1>7, LinkStep
  <2>3. Contents' = [i \in 1 .. (m + 1) - f |-> element'[d[f + i]]]
    <3>1. PICK n : n = m + 1
      OBVIOUS
    <3>2. Spot(d, n, f, l) /\ Listed(d, n, f, l)'
      BY <2>2, <3>1
    <3>3. Contents' = [i \in 1 .. n - f |-> element'[d[f + i]]]
      BY <1>6, <3>2
    <3>4. QED
      BY <3>1, <3>3
  <2>4. element' = element
    BY <1>7 DEF Link
  <2>5. PICK v \in Nat : v = element[node[t]]
    BY <1>3, <2>1 DEF MSTypes
  <2>6. PICK w \in Nat : w = m - f
    BY <1>2
  <2>7. Contents = [i \in 1 .. w |-> element[c[f + i]]]
    BY <1>5, <2>6
  <2>8. Contents' = [i \in 1 .. w + 1 |-> IF i = w + 1 THEN v ELSE element[c[f + i]]]
    <3>1. (m + 1) - f = w + 1
      BY <1>2, <2>6
    <3>2. \A i \in 1 .. w + 1 : d[f + i] = (IF i = w + 1 THEN node[t] ELSE c[f + i])
      BY <1>2, <2>2, <2>6
    <3>3. \A i \in 1 .. w + 1 : element'[d[f + i]] = IF i = w + 1 THEN v ELSE element[c[f + i]]
      BY <2>4, <2>5, <3>2
    <3>4. QED
      BY <2>3, <3>1, <3>3
  <2>9. PICK s \in Seq(Nat) : s = Contents /\ Len(s) = w
    <3>1. \A i \in 1 .. w : element[c[f + i]] \in Nat
      <4>1. \A i \in 1 .. w : f + i \in 1 .. m
        BY <1>2, <2>6
      <4>2. QED
        BY <1>2, <1>3, <4>1 DEF MSTypes
    <3>2. Contents \in [1 .. w -> Nat]
      BY <2>7, <3>1
    <3>3. QED
      BY <3>2
  <2>10. Contents' = Append(s, v)
    <3>1. \A i \in 1 .. w : s[i] = element[c[f + i]]
      BY <2>7, <2>9
    <3>2. Append(s, v) = [i \in 1 .. w + 1 |-> IF i = w + 1 THEN v ELSE s[i]]
      BY <2>5, <2>9
    <3>3. QED
      BY <2>6, <2>8, <3>1, <3>2
  <2>11. QED
    BY <1>7, <2>5, <2>9, <2>10 DEF QueueChange
<1>8. CASE Advance(t) /\ First = myFirst[t]
  <2>1. /\ t \in Consumers /\ f < m /\ item[t] = element[c[f + 1]]
        /\ Spot(c, m, f + 1, l) /\ Listed(c, m, f + 1, l)'
    BY <1>1, <1>3, <1>8, AdvanceStep
  <2>2. Contents' = [i \in 1 .. m - (f + 1) |-> element'[c[(f + 1) + i]]]
    BY <1>6, <2>1
  <2>3. element' = element
    BY <1>8 DEF Advance, nodeVars
  <2>4. PICK w \in Nat \ {0} : w = m - f
    BY <1>2, <2>1
  <2>5. PICK s \in Seq(Nat) : s = Contents /\ Len(s) = w
    <3>1. \A i \in 1 .. w : element[c[f + i]] \in Nat
      <4>1. \A i \in 1 .. w : f + i \in 1 .. m
        BY <1>2, <2>4
      <4>2. QED
        BY <1>2, <1>3, <4>1 DEF MSTypes
    <3>2. Contents \in [1 .. w -> Nat]
      BY <1>5, <2>4, <3>1
    <3>3. QED
      BY <3>2
  <2>6. \A i \in 1 .. w : s[i] = element[c[f + i]]
    BY <1>5, <2>4, <2>5
  <2>7. s # <<>> /\ Head(s) = item[t]
    BY <2>1, <2>4, <2>5, <2>6
  <2>8. Contents' = Tail(s)
    <3>1. m - (f + 1) = w - 1 /\ \A i \in 1 .. w - 1 : (f + 1) + i = f + (i + 1)
      BY <1>2, <2>4
    <3>2. Contents' = [i \in 1 .. w - 1 |-> element[c[f + (i + 1)]]]
      BY <2>2, <2>3, <3>1
    <3>3. \A i \in 1 .. w - 1 : s[i + 1] = element[c[f + (i + 1)]]
      <4>1. \A i \in 1 .. w - 1 : i + 1 \in 1 .. w
        BY <2>4
      <4>2. QED
        BY <2>6, <4>1
    <3>4. Contents' = [i \in 1 .. w - 1 |-> s[i + 1]]
      BY <3>2, <3>3
    <3>5. PICK r : r = Tail(s)
      OBVIOUS
    <3>6. r \in Seq(Nat) /\ Len(r) = w - 1 /\ \A i \in 1 .. w - 1 : r[i] = s[i + 1]
      BY <2>4, <2>5, <2>7, <3>5, HeadTailProperties
    <3>7. r = [i \in 1 .. w - 1 |-> s[i + 1]]
      BY <3>6
    <3>8. QED
      BY <3>4, <3>5, <3>7
  <2>9. QED
    BY <1>8, <2>5, <2>7, <2>8 DEF QueueChange
<1>9. ASSUME \E a : /\ Spot(c, m, f, a) /\ Listed(c, m, f, a)'
                    /\ \A i \in 1 .. m : element'[c[i]] = element[c[i]]
      PROVE  QueueChange(t)
  <2>1. PICK a : /\ Spot(c, m, f, a) /\ Listed(c, m, f, a)'
                 /\ \A i \in 1 .. m : element'[c[i]] = element[c[i]]
    BY <1>9
  <2>2. Contents' = [i \in 1 .. m - f |-> element'[c[f + i]]]
    BY <1>6, <2>1
  <2>3. \A i \in 1 .. m - f : f + i \in 1 .. m
    BY <1>2
  <2>4. Contents' = Contents
    BY <1>5, <2>1, <2>2, <2>3
  <2>5. QED
    BY <2>4 DEF QueueChange
<1>10. CASE MSArrive(t) \/ MSStartProducer(t) \/ MSStartConsumer(t) \/ MSEndExec(t)
  BY <1>1, <1>3, <1>9, <1>10, DriverQuiet
<1>11. CASE NewNode(t)
  BY <1>1, <1>3, <1>9, <1>11, NewNodeStep
<1>12. CASE \/ LoadLast(t) \/ LoadNext(t) \/ Recheck(t) \/ HelpLink(t) \/ Swing(t)
            \/ Link(t) /\ next[myLast[t].ptr] # myNext[t]
  BY <1>1, <1>3, <1>9, <1>12, EnqueueQuiet
<1>13. CASE Free(t)
  BY <1>1, <1>3, <1>9, <1>13, FreeStep
<1>14. CASE \/ EmptyFirst(t) \/ EmptyLast(t) \/ LoadFirst(t) \/ LoadLastToo(t)
            \/ LoadNextOfFirst(t) \/ Refirst(t) \/ Help(t) \/ ReadElement(t)
            \/ Advance(t) /\ First # myFirst[t]
  BY <1>1, <1>3, <1>9, <1>14, DequeueQuiet
<1>15. QED
  BY <1>7, <1>8, <1>10, <1>11, <1>12, <1>13, <1>14 DEF MSStep, Enqueuing, Dequeuing

\* Every step is one of these.
THEOREM OldestIsTaken ==
  ASSUME MSSetting PROVE MSSpec => [][\E t \in Threads : QueueChange(t)]_msVars
<1>1. ASSUME MSIInv, [MSNext]_msVars PROVE [\E t \in Threads : QueueChange(t)]_msVars
  BY <1>1, MSChanges DEF MSNext
<1>2. QED
  BY <1>1, MSInvariance, PTL DEF MSSpec

\* Items are numbers.
LEMMA ContentsTyped ==
  ASSUME MSSetting, MSIInv
  PROVE  Contents \in Seq(Nat)
<1>1. PICK c, m, f, l : Spot(c, m, f, l) /\ Listed(c, m, f, l)
  BY DEF MSIInv
<1>2. MSTypes /\ m \in Nat \ {0} /\ f \in 1 .. m /\ c \in [1 .. m -> Heap]
  BY <1>1 DEF MSIInv, MSCore, Spot
<1>3. Contents = [i \in 1 .. m - f |-> element[c[f + i]]]
  <2>1. Chained(c, m) /\ EndsAt(c, m, f, l)
    BY <1>1 DEF Listed
  <2>2. MSSetting /\ MSTypes /\ Spot(c, m, f, l)
    BY <1>1, <1>2
  <2>3. MSSetting /\ MSTypes /\ Spot(c, m, f, l) /\ Chained(c, m) /\ EndsAt(c, m, f, l) =>
          Contents = [i \in 1 .. m - f |-> element[c[f + i]]]
    BY LinkedItems DEF ContentsKnown
  <2>4. QED
    BY <2>1, <2>2, <2>3
<1>4. PICK w \in Nat : w = m - f
  BY <1>2
<1>5. \A i \in 1 .. w : f + i \in 1 .. m
  BY <1>2, <1>4
<1>6. \A i \in 1 .. w : element[c[f + i]] \in Nat
  BY <1>2, <1>5 DEF MSTypes
<1>7. Contents \in [1 .. w -> Nat]
  BY <1>3, <1>4, <1>6
<1>8. QED
  BY <1>7

\* What a queue promises, of the lock-free one.
QueueOfAdaLockfree == INSTANCE Container WITH Items <- Nat, Lifo <- FALSE, items <- Contents

\* The lock-free queue is a queue, as long as freed addresses do not come back.
THEOREM AdaLockfreeImplements == ASSUME MSSetting PROVE MSSpec => QueueOfAdaLockfree!Spec
<1>1. ASSUME MSInit PROVE QueueOfAdaLockfree!Init
  <2>1. PICK a \in Heap : a = CHOOSE x \in Heap : TRUE
    BY DEF MSSetting
  <2>2. First = Tagged(a, 0) /\ Last = Tagged(a, 0) /\ used = {a} /\ next[a] = NoNode
    BY <1>1, <2>1 DEF MSInit
  <2>3. /\ Tagged(a, 0).ptr = a /\ NoNode.ptr = Null /\ NoNode # Garbage
    BY TaggedTypes
  <2>4. PICK c : c = [i \in 1 .. 1 |-> a]
    OBVIOUS
  <2>5. c \in [1 .. 1 -> Heap] /\ c[1] = a
    BY <2>4
  <2>6. Spot(c, 1, 1, 1)
    BY <2>5 DEF Spot
  <2>7. Chained(c, 1) /\ EndsAt(c, 1, 1, 1)
    BY <2>2, <2>3, <2>5 DEF Chained, EndsAt
  <2>8. MSTypes
    BY <1>1, MSBegins DEF MSIInv, MSCore
  <2>9. Contents = [i \in 1 .. 1 - 1 |-> element[c[1 + i]]]
    BY <2>6, <2>7, <2>8, LinkedItems DEF ContentsKnown
  <2>10. Contents = <<>>
    BY <2>9
  <2>11. QED
    BY <2>10 DEF QueueOfAdaLockfree!Init
<1>2. ASSUME MSIInv, [MSNext]_msVars PROVE [QueueOfAdaLockfree!Next]_Contents
  <2>1. CASE UNCHANGED msVars
    <3>1. UNCHANGED <<First, next, element>>
      BY <2>1 DEF msVars, endVars, nodeVars
    <3>2. Contents' = Contents
      BY <3>1 DEF Contents, NrItems, Reached, Follow
    <3>3. QED
      BY <3>2
  <2>2. CASE MSNext
    <3>1. PICK t \in Threads : MSStep(t)
      BY <2>2 DEF MSNext
    <3>2. QueueChange(t)
      BY <1>2, <3>1, MSChanges
    <3>3. CASE \E v \in Nat : Contents' = Append(Contents, v)
      <4>1. PICK s \in Seq(Nat) : s = Contents
        BY <1>2, ContentsTyped
      <4>2. PICK v \in Nat : Contents' = Append(s, v)
        BY <3>3, <4>1
      <4>3. PICK s2 : s2 = Append(s, v)
        OBVIOUS
      <4>4. s2 # <<>> /\ s2[Len(s2)] = v
        BY <4>3, AppendProperties
      <4>5. QueueOfAdaLockfree!Put
        BY <4>1, <4>2, <4>3, <4>4 DEF QueueOfAdaLockfree!Put, QueueOfAdaLockfree!Last
      <4>6. QED
        BY <4>5 DEF QueueOfAdaLockfree!Next
    <3>4. CASE Contents # <<>> /\ Contents' = Tail(Contents)
      BY <3>4 DEF QueueOfAdaLockfree!Take, QueueOfAdaLockfree!Next
    <3>5. QED
      BY <3>2, <3>3, <3>4 DEF QueueChange
  <2>3. QED
    BY <1>2, <2>1, <2>2
<1>3. QED
  BY <1>1, <1>2, MSInvariance, PTL DEF MSSpec, QueueOfAdaLockfree!Spec
=============================================================================
