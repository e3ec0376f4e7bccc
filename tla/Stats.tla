-------------------------------- MODULE Stats --------------------------------
(***************************************************************************)
(* Samples and statistics (common/stats): the threads of a benchmark enter *)
(* one sample per execution they take part in, in one array for all runs,  *)
(* executions and threads; at the end the main thread picks the samples of *)
(* the threads in a range, computes the maximum, the mean, the deviation   *)
(* and the median, and prints them, in columns wide enough for all.        *)
(***************************************************************************)
EXTENDS Integers, Sequences, FiniteSets, FiniteSetsExt, Functions, SequencesExt

CONSTANTS
  NrThreads, NrExecutions, Scaling,  \* threads, executions, scaling runs
  Grouped,    \* whether threads come as pairs, producers before consumers
  OvwOnly,    \* --ovw: overview statistics only
  Durations,  \* what a sample may be
  Width       \* bits of uint32_t

VARIABLES
  sample,   \* the array, of 0 where nothing was entered yet
  entered,  \* history: what was entered, as a set of records
  at,       \* run and execution of each thread
  res_exec, \* results of each execution, run by run
  res_run,  \* results of each run
  printed   \* what dumpData has printed, call by call

results == <<res_exec, res_run, printed>>
vars == <<sample, entered, at, results>>

Threads == 0 .. NrThreads - 1

\* Threads in one group of the driver, and the number of runs.
GroupSize == IF Grouped THEN NrThreads \div 2 ELSE NrThreads
NrRuns == IF Scaling THEN GroupSize ELSE 1
Runs == 0 .. NrRuns - 1
Executions == 0 .. NrExecutions - 1

UInt32(n) == n % 2 ^ Width

\* initStats: the product is computed in 32 bits.
Size == UInt32(UInt32(NrThreads * NrExecutions) * NrRuns)

Init ==
  /\ sample = [n \in 0 .. Size - 1 |-> 0]
  /\ entered = {}
  /\ at = [t \in Threads |-> <<0, 0>>]
  /\ res_exec = <<>> /\ res_run = <<>> /\ printed = <<>>

Participates(t, run) == ~Scaling \/ t % GroupSize <= run

\* Wrong variant of Index: samples per run by the number of threads of the run.
IndexPacked(t, exec, run) ==
  UInt32((run + 1) * NrExecutions) * run + UInt32((run + 1) * exec) + t

\* Where enterSample stores.
Index(t, exec, run) ==
  UInt32(NrThreads * NrExecutions) * run + UInt32(NrThreads * exec) + t

\* A thread enters its sample, if it takes part, and goes on.
EnterSample(t) ==
  LET run == at[t][1]
      exec == at[t][2]
  IN  /\ run < NrRuns
      /\ at' = [at EXCEPT ![t] = IF exec + 1 < NrExecutions THEN <<run, exec + 1>> ELSE <<run + 1, 0>>]
      /\ IF Participates(t, run)
         THEN \E s \in Durations :
                /\ sample' = [sample EXCEPT ![Index(t, exec, run)] = s]
                /\ entered' = entered \cup {[t |-> t, exec |-> exec, run |-> run, s |-> s]}
         ELSE UNCHANGED <<sample, entered>>
      /\ UNCHANGED results

-----------------------------------------------------------------------------
(* range_smpl_collector *)

\* Collectors are records with the fields start_index and stop_index.
Collectors ==
  IF Grouped THEN <<[start |-> 0, stop |-> GroupSize], [start |-> GroupSize, stop |-> NrThreads]>>
             ELSE <<[start |-> 0, stop |-> NrThreads]>>

\* get_nr_samples
NrSamples(c, run) == IF Scaling THEN run + 1 ELSE c.stop - c.start

\* includes
Includes(c, run, t) ==
  /\ c.start <= t /\ t < c.stop
  /\ Scaling => t <= c.start + run

\* get_samples, of the row that begins at this offset
Samples(c, run, offset) == [n \in 1 .. NrSamples(c, run) |-> sample[offset + c.start + n - 1]]

-----------------------------------------------------------------------------
(* aggregateStatistics *)

\* doStats; the median of the samples of an execution is not computed.
Sum(seq) == FoldFunction(+, 0, seq)
Mean(seq) == Sum(seq) \div Len(seq)
Maximum(seq) == Max(Range(seq))
Root(n) == CHOOSE r \in 0 .. n : r * r <= n /\ n < (r + 1) * (r + 1)
Stdev(seq) ==
  Root(Sum([n \in DOMAIN seq |-> (seq[n] - Mean(seq)) * (seq[n] - Mean(seq))]) \div Len(seq))
DoStats(seq) == [max |-> Maximum(seq), mean |-> Mean(seq), stdev |-> Stdev(seq), median |-> 0]

Offset(exec, run) == UInt32(UInt32(NrExecutions * NrThreads) * run) + UInt32(exec * NrThreads)

\* The middle of the sorted maxima, or half the sum of the two in the middle.
Median(seq) ==
  LET sorted == SortSeq(seq, LAMBDA a, b : a < b)
      half == Len(seq) \div 2
  IN  IF Len(seq) % 2 = 0 THEN (sorted[half] + sorted[half + 1]) \div 2 ELSE sorted[half + 1]

\* What is appended to res_exec and to res_run for a run.
OfExecutions(c, run) ==
  [e \in 1 .. NrExecutions |-> DoStats(Samples(c, run, Offset(e - 1, run)))]
OfRun(c, run) ==
  LET maxima == [e \in 1 .. NrExecutions |-> OfExecutions(c, run)[e].max]
  IN  [DoStats(maxima) EXCEPT !.median = Median(maxima)]

-----------------------------------------------------------------------------
(* dumpData *)

\* Wrong variant of numWidth: 10 is taken for a number of one digit.
numWidthLess(n) == CHOOSE w \in 1 .. 10 : n <= 10 ^ w /\ (w = 1 \/ 10 ^ (w - 1) < n)

\* Decimal digits.
numWidth(n) == CHOOSE w \in 1 .. 10 : n < 10 ^ w /\ (w = 1 \/ 10 ^ (w - 1) <= n)

Row(exec, run) == [t \in Threads |-> sample[Offset(exec, run) + t]]

computeSampleWidths(run) ==
  [t \in Threads |-> Max({numWidth(Row(e, run)[t]) : e \in Executions})]

\* dump_details_of_run: of each execution what was computed and the samples of
\* all threads, those of the collector in colour.
Details(c, exec, ofRun, run) ==
  [executions |-> exec,
   samples |-> [e \in Executions |-> Row(e, run)],
   width |-> computeSampleWidths(run),
   coloured |-> {t \in Threads : Includes(c, run, t)},
   overall |-> ofRun]

\* deleteDump
DeleteDump(res) == <<>>

\* dumpData of the next collector, after the threads have joined; a file gets a
\* copy of what is printed.
DumpData ==
  /\ \A t \in Threads : at[t][1] = NrRuns
  /\ Len(printed) < Len(Collectors)
  /\ LET c == Collectors[Len(printed) + 1]
         exec == res_exec \o [r \in 1 .. NrRuns |-> OfExecutions(c, r - 1)]
         ofRun == res_run \o [r \in 1 .. NrRuns |-> OfRun(c, r - 1)]
     IN  /\ printed' = Append(printed,
              [details |-> [r \in 1 .. (IF OvwOnly THEN 0 ELSE NrRuns) |->
                              Details(c, exec[r], ofRun[r], r - 1)],
               overview |-> IF OvwOnly \/ NrRuns > 1 THEN SubSeq(ofRun, 1, NrRuns) ELSE <<>>])
         /\ res_exec' = DeleteDump(exec)
         /\ res_run' = DeleteDump(ofRun)
  /\ UNCHANGED <<sample, entered, at>>

\* deleteSamples, which the drivers with two collectors call at the end
DeleteSamples ==
  /\ Grouped
  /\ Len(printed) = Len(Collectors)
  /\ sample # <<>> /\ sample' = <<>>
  /\ UNCHANGED <<entered, at, results>>

Main == DumpData \/ DeleteSamples

Next == Main \/ \E t \in Threads : EnterSample(t)

Spec == Init /\ [][Next]_vars

\* Threads run to their end, and the main thread then collects.
FairSpec == Spec /\ WF_vars(Next)

-----------------------------------------------------------------------------

TypeOK ==
  /\ sample = <<>> \/ sample \in [0 .. Size - 1 -> Durations \cup {0}]
  /\ at \in [Threads -> (0 .. NrRuns) \X Executions]
  /\ Len(res_exec) = Len(res_run)
  /\ Len(printed) <= Len(Collectors)

\* What was entered for an execution of a run by the threads of a collector.
Entered(c, exec, run) ==
  {r \in entered : r.exec = exec /\ r.run = run /\ c.start <= r.t /\ r.t < c.stop}

\* What is printed of an execution is about the samples entered for it.
OfSamples(result, samples) ==
  LET shortest == Min({r.s : r \in samples})
  IN  /\ result.max = Max({r.s : r \in samples})
      /\ shortest <= result.mean /\ result.mean <= result.max
      /\ result.stdev <= result.max - shortest

\* What is printed of a run is about the longest samples of its executions, and
\* half of them are not longer and half of them not shorter than the median.
OfExecutionsOf(result, c, run) ==
  LET longest(e) == Max({r.s : r \in Entered(c, e, run)})
  IN  /\ result.max = Max({longest(e) : e \in Executions})
      /\ 2 * Cardinality({e \in Executions : longest(e) >= result.median}) >= NrExecutions
      /\ 2 * Cardinality({e \in Executions : longest(e) <= result.median}) >= NrExecutions

\* What is printed for a collector are the statistics of the samples that its
\* threads entered, for each execution of each run, all of them and no others:
\* not those of another thread, run or collector.
SamplesCollected ==
  \A k \in DOMAIN printed :
    LET c == Collectors[k]
    IN  /\ \A r \in DOMAIN printed[k].details :
             LET details == printed[k].details[r]
             IN  /\ \A e \in Executions :
                      /\ Entered(c, e, r - 1) =
                           {[t |-> t, exec |-> e, run |-> r - 1, s |-> details.samples[e][t]] :
                              t \in details.coloured}
                      /\ OfSamples(details.executions[e + 1], Entered(c, e, r - 1))
                 /\ OfExecutionsOf(details.overall, c, r - 1)
        /\ \A r \in DOMAIN printed[k].overview :
             OfExecutionsOf(printed[k].overview[r], c, r - 1)

\* Samples stay apart in what is printed: none has more digits than its column.
ColumnsFit ==
  \A k \in DOMAIN printed : \A r \in DOMAIN printed[k].details :
    LET details == printed[k].details[r]
    IN  \A e \in Executions, t \in details.coloured :
          details.samples[e][t] < 10 ^ details.width[t]
=============================================================================
