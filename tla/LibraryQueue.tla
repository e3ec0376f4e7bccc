---------------------------- MODULE LibraryQueue ----------------------------
(***************************************************************************)
(* The benchmarks whose queue is a library's: BoostSPSC, with a bounded    *)
(* queue for each pair, BoostMPMC, with one for all, and monitors/Ada,     *)
(* with a protected queue whose Dequeue waits for an item.  The library's  *)
(* operations are single steps; the drivers differ in how they share the   *)
(* iterations among the threads.                                           *)
(***************************************************************************)
EXTENDS PairBench, SequencesExt

CONSTANTS
  Kind,       \* "BoostSPSC", "BoostMPMC" or "AdaPO"
  Capacity    \* of a queue; only that of BoostSPSC is bounded

VARIABLE queue

vars == <<driverVars, queue>>

Labels == {"arrive", "wait", "push", "pop", "end"}

\* The pairs have a queue each, or share that of the first one.
Queue(t) == IF Kind = "BoostSPSC" THEN Lane(t) ELSE 0

Init ==
  /\ DriverInit("arrive")
  /\ queue = [l \in Producers |-> <<>>]

ArriveBarrier(t) == Arrive(t, "arrive", "wait") /\ UNCHANGED queue

\* Wrong variant of Share: a consumer's share goes by its number as a thread.
ShareByTid(t) == IterPerThread(t, t)

\* In monitors/Ada the main program computes the shares, once for all runs.  In
\* the drivers for Boost consumers get a share of the remainder only in the
\* scaling runs of BoostSPSC: elsewhere it goes by a number too large for it.
Share(t) ==
  CASE Kind = "AdaPO" -> NrIter \div NrPairs + (IF Lane(t) < NrIter % NrPairs THEN 1 ELSE 0)
    [] Kind = "BoostSPSC" -> IterPerThread(t, IF ScRuns THEN Lane(t) ELSE t)
    [] Kind = "BoostMPMC" -> IterPerThread(t, t)

StartSync(t) ==
  /\ Start(t, "wait", Share(t), IF t \in Producers THEN "push" ELSE "pop", "end", "end")
  /\ UNCHANGED queue

\* The push that succeeds, of the value i
Push(t) ==
  /\ Kind = "BoostSPSC" => Len(queue[Queue(t)]) < Capacity
  /\ EndIteration(t, "push", "push", "end")
  /\ queue' = [queue EXCEPT ![Queue(t)] = Append(@, Share(t) - iter[t])]

\* The pop that succeeds, or the end of the wait in the protected queue
Pop(t) ==
  /\ queue[Queue(t)] # <<>>
  /\ EndIteration(t, "pop", "pop", "end")
  /\ queue' = [queue EXCEPT ![Queue(t)] = Tail(@)]

EndExec(t) == NextExec(t, "end", "arrive") /\ UNCHANGED queue

Step(t) ==
  ArriveBarrier(t) \/ StartSync(t) \/ Push(t) \/ Pop(t) \/ EndExec(t)

Next == \E t \in Threads : Step(t)

Spec == Init /\ [][Next]_vars

\* The operating system schedules every thread again and again.
FairSpec == Spec /\ \A t \in Threads : WF_vars(Step(t))

-----------------------------------------------------------------------------

TypeOK ==
  /\ DriverTypeOK(Labels)
  /\ queue \in [Producers -> Seq(0 .. NrIter)]

\* The remainders that consumers did not get a share of, in all executions.
Unshared ==
  IF Kind = "AdaPO" \/ (Kind = "BoostSPSC" /\ ScRuns) THEN 0
  ELSE NrExec * FoldFunction(+, 0, [r \in 0 .. LastRun |->
                               NrIter % (IF ScRuns THEN r + 1 ELSE NrPairs)])

\* The items that are left in the queues at the end are the remainders of the
\* divisions, no more: they accumulate over the executions.
LeftBehind ==
  AllDone => FoldFunction(LAMBDA q, n : Len(q) + n, 0, queue) = Unshared
=============================================================================
