------------------------------- MODULE BQueue -------------------------------
(***************************************************************************)
(* B-Queue (benchmark/nonblocking/BQueue), a ring of integers for one      *)
(* producer and one consumer, with its driver: every pair of threads has a *)
(* queue.  A place that holds zero is free.  Each side has an index of its *)
(* own and learns of the other only from the places of the ring; with the  *)
(* macros PROD_BATCH, CONS_BATCH, BACKTRACKING and ADAPTIVE (Batched) each *)
(* looks at one place and concludes on a batch of them.  Loads and stores  *)
(* of the ring are steps of their own.                                     *)
(***************************************************************************)
EXTENDS PairBench

CONSTANTS
  Batched,         \* whether fifo.c is compiled with these macros
  QueueSize,       \* QUEUE_SIZE
  ProdBatch,       \* PROD_BATCH_SIZE
  ConsBatch,       \* CONS_BATCH_SIZE
  BatchIncrement   \* BATCH_INCREAMENT

VARIABLES
  data,                 \* data[l]: the ring of pair l
  front,                \* head, where producer l stores next
  batchFront,           \* batch_head
  tail,                 \* where consumer l takes next
  batchTail,            \* batch_tail
  history,              \* batch_history
  probe,                \* tmp_tail of backtracking
  size,                 \* batch_size of backtracking
  value                 \* local of sync_consumer

producerVars == <<front, batchFront>>
consumerVars == <<tail, batchTail, history, probe, size, value>>
ringVars == <<driverVars, data, producerVars, consumerVars>>

RingLabels == {"arrive", "wait", "enqueue", "store", "dequeue", "probe", "load", "clear", "end"}

Pairs == 0 .. NrPairs - 1
Places == 0 .. QueueSize - 1

\* queue_init
RingInit ==
  /\ DriverInit("arrive")
  /\ data = [l \in Pairs |-> [i \in Places |-> 0]]
  /\ front = [l \in Pairs |-> 0]
  /\ batchFront = [l \in Pairs |-> 0]
  /\ tail = [l \in Pairs |-> 0]
  /\ batchTail = [l \in Pairs |-> 0]
  /\ history = [l \in Pairs |-> ConsBatch]
  /\ probe = [l \in Pairs |-> 0]
  /\ size = [l \in Pairs |-> 0]
  /\ value = [l \in Pairs |-> 0]

\* An index that has reached the end of the ring goes back to its beginning.
Wrap(i) == IF i >= QueueSize THEN 0 ELSE i

RingArrive(t) ==
  /\ Arrive(t, "arrive", "wait")
  /\ UNCHANGED <<data, producerVars, consumerVars>>

\* As in the drivers of the other queues, consumers do not get a share of the
\* remainder but in scaling runs.
RingShare(t) == IterPerThread(t, IF ScRuns THEN Lane(t) ELSE t)

RingStart(t) ==
  /\ Start(t, "wait", RingShare(t), IF t \in Producers THEN "enqueue" ELSE "dequeue", "end", "end")
  /\ UNCHANGED <<data, producerVars, consumerVars>>

-----------------------------------------------------------------------------
(* enqueue *)

\* Wrong variant of ProbePlace: the end of a batch is looked at without
\* regard to the end of the ring.
ProbePlaceLast(l) ==
  IF Batched THEN (IF front[l] + ProdBatch >= QueueSize THEN QueueSize - 1 ELSE front[l] + ProdBatch)
             ELSE front[l]

\* The place a producer looks at.
ProbePlace(l) == IF Batched THEN Wrap(front[l] + ProdBatch) ELSE front[l]

\* The call that does not return BUFFER_FULL goes on to the store.
ProbeFree(l) ==
  /\ l \in Producers
  /\ \/ /\ Batched /\ front[l] # batchFront[l]
        /\ UNCHANGED batchFront
     \/ /\ Batched => front[l] = batchFront[l]
        /\ data[l][ProbePlace(l)] = 0
        /\ batchFront' = [batchFront EXCEPT ![l] = IF Batched THEN ProbePlace(l) ELSE @]
  /\ Within(l, "enqueue", "store")
  /\ UNCHANGED <<data, front, consumerVars>>

\* q->data[q->head] = value, where value is i + 1; q->head++
Store(l) ==
  /\ EndIteration(l, "store", "enqueue", "end")
  /\ data' = [data EXCEPT ![l][front[l]] = RingShare(l) - iter[l] + 1]
  /\ front' = [front EXCEPT ![l] = Wrap(@ + 1)]
  /\ UNCHANGED <<batchFront, consumerVars>>

-----------------------------------------------------------------------------
(* dequeue *)

\* Not batched: BUFFER_EMPTY is not returned.
ProbeFilled(t, l) ==
  /\ ~Batched
  /\ data[l][tail[l]] # 0
  /\ Within(t, "dequeue", "load")
  /\ UNCHANGED <<data, producerVars, consumerVars>>

WithinBatch(t, l) ==
  /\ Batched /\ tail[l] # batchTail[l]
  /\ Within(t, "dequeue", "load")
  /\ UNCHANGED <<data, producerVars, consumerVars>>

Smaller(a, b) == IF a < b THEN a ELSE b

\* The beginning of backtracking: a batch that is not to go beyond the end of
\* the ring, and the history recovers.
Backtrack(t, l) ==
  /\ Batched /\ tail[l] = batchTail[l]
  /\ Within(t, "dequeue", "probe")
  /\ LET beyond == tail[l] + ConsBatch >= QueueSize
         recovered == IF beyond THEN Smaller(ConsBatch, history[l] + BatchIncrement)
                                ELSE history[l]
     IN  /\ probe' = [probe EXCEPT ![l] = Wrap(tail[l] + ConsBatch)]
         /\ history' = [history EXCEPT ![l] = recovered]
         /\ size' = [size EXCEPT ![l] = recovered]
  /\ UNCHANGED <<data, producerVars, tail, batchTail, value>>

\* Wrong variant of Halve: the batch is not made smaller.
HalveNot(t, l) ==
  /\ data[l][probe[l]] = 0
  /\ Within(t, "probe", "probe")
  /\ probe' = [probe EXCEPT ![l] = Wrap(tail[l] + size[l])]
  /\ UNCHANGED <<data, producerVars, tail, batchTail, history, size, value>>

\* The place probed is empty: half the batch is tried.
Halve(t, l) ==
  /\ data[l][probe[l]] = 0
  /\ Within(t, "probe", "probe")
  /\ size' = [size EXCEPT ![l] = @ \div 2]
  /\ probe' = [probe EXCEPT ![l] = Wrap(tail[l] + size[l] \div 2)]
  /\ UNCHANGED <<data, producerVars, tail, batchTail, history, value>>

\* Wrong variant of EndBacktrack: the place probed counts as part of the batch.
EndBacktrackBeyond(t, l) ==
  /\ data[l][probe[l]] # 0
  /\ Within(t, "probe", "load")
  /\ history' = [history EXCEPT ![l] = size[l]]
  /\ batchTail' = [batchTail EXCEPT ![l] = Wrap(probe[l] + 2)]
  /\ probe' = [probe EXCEPT ![l] = 0]
  /\ size' = [size EXCEPT ![l] = 0]
  /\ UNCHANGED <<data, producerVars, tail, value>>

\* It is filled: so are all places from tail up to it.
EndBacktrack(t, l) ==
  /\ data[l][probe[l]] # 0
  /\ Within(t, "probe", "load")
  /\ history' = [history EXCEPT ![l] = size[l]]
  /\ batchTail' = [batchTail EXCEPT ![l] =
                     IF probe[l] = tail[l] THEN Wrap(probe[l] + 1) ELSE probe[l]]
  /\ probe' = [probe EXCEPT ![l] = 0]
  /\ size' = [size EXCEPT ![l] = 0]
  /\ UNCHANGED <<data, producerVars, tail, value>>

\* *value = q->data[q->tail]
Load(t, l) ==
  /\ Within(t, "load", "clear")
  /\ value' = [value EXCEPT ![l] = data[l][tail[l]]]
  /\ UNCHANGED <<data, producerVars, tail, batchTail, history, probe, size>>

\* q->data[q->tail] = ELEMENT_ZERO; q->tail++
Clear(t, l) ==
  /\ EndIteration(t, "clear", "dequeue", "end")
  /\ data' = [data EXCEPT ![l][tail[l]] = 0]
  /\ tail' = [tail EXCEPT ![l] = Wrap(@ + 1)]
  /\ value' = [value EXCEPT ![l] = 0]
  /\ UNCHANGED <<producerVars, batchTail, history, probe, size>>

Dequeue(t, l) ==
  \/ ProbeFilled(t, l) \/ WithinBatch(t, l) \/ Backtrack(t, l) \/ Halve(t, l)
  \/ EndBacktrack(t, l) \/ Load(t, l) \/ Clear(t, l)

RingEndExec(t) ==
  /\ NextExec(t, "end", "arrive")
  /\ UNCHANGED <<data, producerVars, consumerVars>>

-----------------------------------------------------------------------------

RingStep(t) ==
  \/ RingArrive(t) \/ RingStart(t) \/ RingEndExec(t)
  \/ ProbeFree(t) \/ (t \in Producers /\ Store(t))
  \/ (t \in Consumers /\ Dequeue(t, Lane(t)))

RingNext == \E t \in Threads : RingStep(t)

RingSpec == RingInit /\ [][RingNext]_ringVars

\* The operating system schedules every thread again and again.
RingFairness == \A t \in Threads : WF_ringVars(RingStep(t))

FairRingSpec == RingSpec /\ RingFairness

-----------------------------------------------------------------------------

RingTypeOK ==
  /\ DriverTypeOK(RingLabels)
  /\ data \in [Pairs -> [Places -> 0 .. NrIter]]
  /\ front \in [Pairs -> Places] /\ batchFront \in [Pairs -> Places]
  /\ tail \in [Pairs -> Places] /\ batchTail \in [Pairs -> Places]
  /\ history \in [Pairs -> 0 .. ConsBatch]
  /\ probe \in [Pairs -> Places]
  /\ size \in [Pairs -> 0 .. ConsBatch]
  /\ value \in [Pairs -> 0 .. NrIter]

\* The values in the ring of pair l, in the order in which they are taken.
RingContents(l) ==
  LET filled == Cardinality({i \in Places : data[l][i] # 0})
  IN  [n \in 1 .. filled |-> data[l][(tail[l] + n - 1) % QueueSize]]

\* Each side acts on a batch of places after a look at one of them: the place
\* a producer stores at is free, the one a consumer takes is filled, and there
\* is no gap in the ring.
BatchesHold ==
  \A l \in Pairs :
    /\ pc[l] = "store" => data[l][front[l]] = 0
    /\ pc[NrPairs + l] = "load" => data[l][tail[l]] # 0
    /\ \A n \in DOMAIN RingContents(l) : RingContents(l)[n] # 0
=============================================================================
