--------------------------------- MODULE Papi ---------------------------------
(***************************************************************************)
(* The time and the cycles of a measurement: common/ada_binding/papi, as   *)
(* the drivers of benchmark/tsx use it.  For one number of tasks after the *)
(* other they start a measurement, run the tasks, end it and report it.    *)
(* The library PAPI is external: each of its calls may fail, a failure is  *)
(* reported on the terminal, and the program goes on.                      *)
(***************************************************************************)
EXTENDS Integers, Sequences

CONSTANTS
  NrRounds,     \* Max_Task - Min_Task + 1
  MaxNrThreads, \* MAX_NR_THREADS, the size of thread_time
  Durations,    \* how long the tasks of a round may run
  MaxFailures   \* calls of PAPI that fail (bounds the model)

ASSUME NrRoundsAssumption == NrRounds \in Nat \ {0}
ASSUME MaxNrThreadsAssumption == MaxNrThreads \in Nat \ {0}
ASSUME DurationsAssumption == Durations \subseteq Nat
ASSUME MaxFailuresAssumption == MaxFailures \in Nat

VARIABLES
  next,        \* the main task's next statement
  round,       \* N_Task
  clock,       \* PAPI_get_real_nsec
  thread_time, \* start, end and elapsed of each thread
  eventSet,    \* *Event: the set of the last PAPI_create_eventset, or 0
  setup,       \* calls of PAPI_start_tsx that its set has got through
  running,     \* the set that counts, or 0: PAPI runs one at a time
  counted,     \* cycles in each set, one per unit of time
  failures,    \* calls that failed
  took,        \* history: the time that the tasks of the last round took ...
  reports      \* ... and what was printed, with that time

measured == <<clock, thread_time>>
papiVars == <<next, round, measured, eventSet, setup, running, counted, failures, took, reports>>

Entries == 0 .. MaxNrThreads - 1
Zero == [start |-> 0, end |-> 0, elapsed |-> 0]

\* The set of a round is known by the number of the round.
PapiInit ==
  /\ next = "start"
  /\ round = 1
  /\ clock = 1
  /\ thread_time = [tid \in Entries |-> Zero]
  /\ eventSet = 0 /\ setup = 0 /\ running = 0
  /\ counted = [r \in 1 .. NrRounds |-> 0]
  /\ failures = 0
  /\ took = 0
  /\ reports = <<>>

Proceed(here, there) == next = here /\ next' = there

\* A call of PAPI that may fail does so now.
Fail == failures < MaxFailures /\ failures' = failures + 1
Succeed == UNCHANGED failures

\* PAPI_start_nsec(0)
StartTime ==
  /\ Proceed("start", "startTsx")
  /\ thread_time' = [thread_time EXCEPT ![0].start = clock]
  /\ UNCHANGED <<round, clock, eventSet, setup, running, counted, failures, took, reports>>

\* What PAPI_start_tsx does before PAPI_start: the set is created, assigned to
\* the processor, inherits, and gets its three events by name.
SetupCalls == 7

\* PAPI_create_eventset: a new set, or PAPI_NULL
CreateSet ==
  /\ next = "startTsx"
  /\ \/ Succeed /\ eventSet' = round /\ setup' = 1 /\ next' = "setup"
     \/ Fail /\ eventSet' = 0 /\ setup' = 0 /\ next' = "tasks"
  /\ UNCHANGED <<round, measured, running, counted, took, reports>>

\* The calls between, any of which may be the last.
SetupSet ==
  /\ next = "setup"
  /\ setup < SetupCalls
  /\ \/ Succeed /\ setup' = setup + 1 /\ next' = "setup"
     \/ Fail /\ setup' = setup /\ next' = "tasks"
  /\ UNCHANGED <<round, measured, eventSet, running, counted, took, reports>>

\* PAPI_start, which fails while another set counts.
StartSet ==
  /\ Proceed("setup", "tasks")
  /\ setup = SetupCalls
  /\ \/ Succeed /\ running = 0 /\ running' = eventSet
     \/ Fail /\ UNCHANGED running
     \/ Succeed /\ running # 0 /\ UNCHANGED running
  /\ UNCHANGED <<round, measured, eventSet, setup, counted, took, reports>>

\* The tasks do their work; the set that is running counts their cycles.
RunTasks ==
  /\ Proceed("tasks", "end")
  /\ \E time \in Durations :
       /\ took' = time
       /\ clock' = clock + time
       /\ counted' = [r \in DOMAIN counted |-> counted[r] + (IF r = running THEN time ELSE 0)]
  /\ UNCHANGED <<round, thread_time, eventSet, setup, running, failures, reports>>

\* PAPI_end_nsec(0)
EndTime ==
  /\ Proceed("end", "endTsx")
  /\ thread_time' = [thread_time EXCEPT ![0].end = clock]
  /\ UNCHANGED <<round, clock, eventSet, setup, running, counted, failures, took, reports>>

\* PAPI_read: without a set it fails, of a set that is not running it returns
\* what was counted before.
ReadSet ==
  /\ next = "endTsx"
  /\ \/ Succeed /\ eventSet # 0 /\ next' = "stop"
     \/ Fail /\ next' = "finish"
     \/ Succeed /\ eventSet = 0 /\ next' = "finish"
  /\ UNCHANGED <<round, measured, eventSet, setup, running, counted, took, reports>>

\* PAPI_stop and, if it succeeds, the output of what was read
StopSet ==
  /\ Proceed("stop", "finish")
  /\ \/ /\ Succeed /\ running = eventSet
        /\ running' = 0
        /\ reports' = Append(reports, [cycles |-> counted[eventSet], took |-> took])
     \/ Fail /\ UNCHANGED <<running, reports>>
     \/ Succeed /\ running # eventSet /\ UNCHANGED <<running, reports>>
  /\ UNCHANGED <<round, measured, eventSet, setup, counted, took>>

Elapsed(tid) == thread_time[tid].end - thread_time[tid].start

\* Wrong variant of Measure: only a longer time replaces that of entry 0.
MeasureLongest ==
  IF Elapsed(0) >= thread_time[0].elapsed THEN Elapsed(0) ELSE thread_time[0].elapsed

\* PAPI_measure: the longest time of all entries, used or not.
Measure ==
  CHOOSE time \in {Elapsed(tid) : tid \in Entries} :
    \A tid \in Entries : Elapsed(tid) <= time

\* Wrong variant of More: one round too many.
MoreOnce == round <= NrRounds

\* for N_Task in Min_Task .. Max_Task: whether there is another round
More == round < NrRounds

\* PAPI_Finish, and the end of the round
Finish ==
  /\ Proceed("finish", IF More THEN "start" ELSE "over")
  /\ thread_time' = [tid \in Entries |-> [thread_time[tid] EXCEPT !.elapsed = Elapsed(tid)]]
  /\ reports' = Append(reports, [elapsed |-> Measure, took |-> took])
  /\ round' = round + 1
  /\ UNCHANGED <<clock, eventSet, setup, running, counted, failures, took>>

PapiNext ==
  \/ StartTime \/ CreateSet \/ SetupSet \/ StartSet \/ RunTasks
  \/ EndTime \/ ReadSet \/ StopSet \/ Finish

PapiSpec == PapiInit /\ [][PapiNext]_papiVars

-----------------------------------------------------------------------------

PapiTypeOK ==
  /\ next \in {"start", "startTsx", "setup", "tasks", "end", "endTsx", "stop", "finish", "over"}
  /\ round \in 1 .. NrRounds + 1
  /\ {eventSet, running} \subseteq 0 .. NrRounds
  /\ setup \in 0 .. SetupCalls
  /\ failures \in 0 .. MaxFailures

\* What a round prints is of that round: the time it took and, if cycles are
\* printed, as many as were spent in it -- although a set that could not be
\* stopped goes on counting, keeps later ones from starting and is forgotten,
\* and thread_time keeps what was measured before.
ReportsOfRound ==
  \A n \in DOMAIN reports :
    LET report == reports[n]
    IN  report.took = (IF "cycles" \in DOMAIN report THEN report.cycles ELSE report.elapsed)
=============================================================================
