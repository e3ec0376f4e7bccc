------------------------------- MODULE MCCommon -------------------------------
(***************************************************************************)
(* What the benchmarks have in common (src/common), for TLC: the barrier,  *)
(* and after it one of the calibration of delays, the samples and          *)
(* statistics, and the measurements of PAPI in each behaviour.             *)
(***************************************************************************)
EXTENDS Barrier, Timer, Papi

VARIABLES
  part,                                             \* which one follows
  sample, entered, place, res_exec, res_run, printed   \* Stats, place is its at

\* Two producers and two consumers in scaling runs, and two threads that all
\* take part in everything, of which only the overview is printed.
Samples == INSTANCE Stats WITH
             NrThreads <- 4, NrExecutions <- 2, Scaling <- TRUE, Grouped <- TRUE,
             OvwOnly <- FALSE, Durations <- {4, 10}, Width <- 5, at <- place
Flat == INSTANCE Stats WITH
          NrThreads <- 2, NrExecutions <- 3, Scaling <- FALSE, Grouped <- FALSE,
          OvwOnly <- TRUE, Durations <- {4, 10}, Width <- 5, at <- place

statsVars == <<sample, entered, place, res_exec, res_run, printed>>
timerOnlyVars == <<jiffy, timerVars>>
otherVars == <<part, timerOnlyVars, statsVars, papiVars>>
allVars == <<barrierVars, otherVars>>

None == 0

NoStats ==
  /\ sample = None /\ entered = None /\ place = None
  /\ res_exec = None /\ res_run = None /\ printed = None

InitAll ==
  /\ BarrierInit
  /\ part \in {"Timer", "Samples", "Flat", "Papi"}
  /\ TimerInit
  /\ part = "Timer" \/ \A m \in Jiffies : jiffy <= m
  /\ \/ part = "Samples" /\ Samples!Init
     \/ part = "Flat" /\ Flat!Init
     \/ part \notin {"Samples", "Flat"} /\ NoStats
  /\ PapiInit

InBarrier(t) == Step(t) /\ UNCHANGED otherVars

Delays(A) ==
  AllDone /\ part = "Timer" /\ A /\ UNCHANGED <<barrierVars, part, statsVars, papiVars>>

Sampling ==
  /\ AllDone
  /\ \/ part = "Samples" /\ Samples!Next
     \/ part = "Flat" /\ Flat!Next
  /\ UNCHANGED <<barrierVars, part, timerOnlyVars, papiVars>>

Measuring ==
  /\ AllDone /\ part = "Papi" /\ PapiNext
  /\ UNCHANGED <<barrierVars, part, timerOnlyVars, statsVars>>

\* The program may end after the barrier, and nowhere before.
Ended == Terminated /\ UNCHANGED otherVars

NextAll ==
  \/ \E t \in Threads : InBarrier(t)
  \/ Delays(Statement) \/ Delays(Interrupt)
  \/ Sampling \/ Measuring
  \/ Ended

\* The operating system schedules every thread again and again.
FairSpecAll ==
  /\ InitAll /\ [][NextAll]_allVars
  /\ \A t \in Threads : WF_allVars(InBarrier(t))
  /\ WF_allVars(Delays(Statement))

-----------------------------------------------------------------------------

\* The state of the parts after the barrier has its types.
PartsTypeOK ==
  /\ TimerTypeOK
  /\ part = "Samples" => Samples!TypeOK
  /\ part = "Flat" => Flat!TypeOK
  /\ PapiTypeOK

\* See the module of each.
SamplesCollected ==
  CASE part = "Samples" -> Samples!SamplesCollected
    [] part = "Flat" -> Flat!SamplesCollected
    [] OTHER -> TRUE
ColumnsFit == part = "Samples" => Samples!ColumnsFit
DelaysCalibrated == part = "Timer" => Calibrated
=============================================================================
