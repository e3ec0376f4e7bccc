--------------------------- MODULE ComponentProofs ---------------------------
(***************************************************************************)
(* The components that are neither locks nor containers.                   *)
(*                                                                         *)
(* Barrier for every number of threads and of calls: it separates the      *)
(* rounds and implements AbstractBarrier.  A thread in the middle of its   *)
(* scan knows that the counters it has already read were high enough when  *)
(* it read them.  They only grow, so they still are (ScannedAhead), and    *)
(* when the scan ends this holds of all of them.                           *)
(*                                                                         *)
(* Timer for every machine: calibrate_delay never overestimates, however   *)
(* often and long it is interrupted.  With constants as the program has    *)
(* them (CalibrationSetting) it comes close: as long as the search is not  *)
(* disturbed, what it has accepted and two more steps reach beyond the     *)
(* tick, unless all candidates were accepted, which makes it start again   *)
(* (Bracketed); and each step can be halved until it is small enough.      *)
(*                                                                         *)
(* The dining philosophers for all numbers of tasks and of meals: the      *)
(* forks are in the hands of those who took them, and they are taken in    *)
(* the order of their numbers.                                             *)
(*                                                                         *)
(* Measurements with PAPI, whichever of its calls fail: what is reported   *)
(* of a thread is of this round.                                           *)
(***************************************************************************)
EXTENDS Barrier, Timer, DiningPhilosophers, Papi, TLAPS, SequenceTheorems

-----------------------------------------------------------------------------
(* The barrier *)

\* The counters count, as long as they do not overflow.
CtrIsCalls == \A t \in Threads : ctr[t] = calls[t]

ScanLocals ==
  \A t \in Threads : pc[t] = "scan" => level[t] = calls[t] /\ thr[t] < NrThreads

ScannedAhead ==
  \A t, u \in Threads : pc[t] = "scan" /\ u < thr[t] => calls[t] <= calls[u]

BarrierInv == BarrierTypeOK /\ CtrIsCalls /\ ScanLocals /\ ScannedAhead /\ Separation

\* Thread numbers are the integers below NrThreads.
LEMMA ThreadsRange == \A u : u \in Threads <=> u \in Int /\ 0 <= u /\ u < NrThreads
  BY NrThreadsAssumption DEF Threads

\* The invariant holds when main has initialised the barrier.
LEMMA BarrierInitInv == BarrierInit => BarrierInv
  BY NrThreadsAssumption, NrWaitsAssumption, CtrMaxAssumption
     DEF BarrierInit, BarrierInv, BarrierTypeOK, CtrIsCalls, ScanLocals, ScannedAhead, Separation, Returned

\* Every statement of barrier_wait preserves the invariant.
LEMMA BarrierNextInv == BarrierInv /\ [BarrierNext]_barrierVars => BarrierInv'
<1> SUFFICES ASSUME BarrierInv, [BarrierNext]_barrierVars
             PROVE  BarrierInv'
  OBVIOUS
<1> USE NrThreadsAssumption, NrWaitsAssumption, CtrMaxAssumption
    DEF BarrierInv, BarrierTypeOK
<1>1. ASSUME NEW t \in Threads, Count(t)
      PROVE  BarrierInv'
  <2>1. calls'[t] = calls[t] + 1 /\ ctr'[t] = ctr[t] + 1 /\ pc'[t] = "load"
    BY <1>1 DEF Count, Inc, CtrIsCalls
  <2>2. \A u \in Threads : u # t =>
          calls'[u] = calls[u] /\ ctr'[u] = ctr[u] /\ pc'[u] = pc[u]
    BY <1>1 DEF Count
  <2>3. BarrierTypeOK' /\ CtrIsCalls'
    BY <1>1, <2>1, <2>2 DEF Count, CtrIsCalls
  <2>4. ScanLocals' /\ ScannedAhead'
    <3>1. level' = level /\ thr' = thr
      BY <1>1 DEF Count
    <3>2. \A u \in Threads : calls[u] <= calls'[u]
      BY <2>1, <2>2
    <3>3. ScanLocals'
      BY <2>1, <2>2, <3>1 DEF ScanLocals
    <3>4. ScannedAhead'
      BY <2>1, <2>2, <3>1, <3>2 DEF ScannedAhead
    <3>5. QED
      BY <3>3, <3>4
  <2>5. Separation'
    <3>1. \A u \in Threads :
            Returned(u)' = Returned(u) /\ Returned(u) \in Int /\ calls[u] <= calls'[u]
      BY <1>1, <2>1, <2>2 DEF Count, Returned
    <3>2. QED
      BY <2>3, <3>1 DEF Separation
  <2>6. QED
    BY <2>3, <2>4, <2>5
<1>2. ASSUME NEW t \in Threads, Load(t)
      PROVE  BarrierInv'
  <2>1. BarrierTypeOK' /\ CtrIsCalls'
    BY <1>2 DEF Load, CtrIsCalls
  <2>2. ScanLocals' /\ ScannedAhead'
    BY <1>2, SMTT(30) DEF Load, CtrIsCalls, ScanLocals, ScannedAhead, Threads
  <2>3. Separation'
    <3>1. calls' = calls /\ \A u \in Threads : Returned(u)' = Returned(u)
      BY <1>2 DEF Load, Returned
    <3>2. QED
      BY <3>1 DEF Separation
  <2>4. QED
    BY <2>1, <2>2, <2>3
<1>3. ASSUME NEW t \in Threads, Scan(t)
      PROVE  BarrierInv'
  <2>1. /\ pc[t] = "scan" /\ ~(ctr[thr[t]] < level[t])
        /\ thr'[t] = thr[t] + 1
        /\ pc'[t] = IF thr[t] + 1 < NrThreads THEN "scan" ELSE "out"
        /\ ctr' = ctr /\ level' = level /\ calls' = calls
    BY <1>3 DEF Scan
  <2>2. \A u \in Threads : u # t => thr'[u] = thr[u] /\ pc'[u] = pc[u]
    BY <1>3 DEF Scan
  <2>3. /\ thr[t] \in Int /\ 0 <= thr[t] /\ thr[t] < NrThreads
        /\ thr[t] \in Threads /\ level[t] = calls[t]
    BY <2>1, ThreadsRange DEF ScanLocals
  <2>4. calls[t] <= calls[thr[t]]
    BY <2>1, <2>3 DEF CtrIsCalls
  <2>5. \A u \in Threads : u < thr[t] + 1 => calls[t] <= calls[u]
    <3>1. \A u \in Threads : u < thr[t] + 1 => u < thr[t] \/ u = thr[t]
      BY <2>3, ThreadsRange
    <3>2. QED
      BY <2>1, <2>4, <3>1 DEF ScannedAhead
  <2>6. BarrierTypeOK' /\ CtrIsCalls'
    <3>1. thr[t] + 1 \in 0 .. NrThreads
      BY <2>3
    <3>2. thr' \in [Threads -> 0 .. NrThreads]
      BY <1>3, <3>1 DEF Scan
    <3>3. pc' \in [Threads -> {"out", "load", "scan"}]
      BY <1>3 DEF Scan
    <3>4. QED
      BY <2>1, <3>2, <3>3 DEF CtrIsCalls
  <2>7. ScanLocals'
    BY <2>1, <2>2, <2>3 DEF ScanLocals
  <2>8. ScannedAhead'
    BY <2>1, <2>2, <2>5 DEF ScannedAhead
  <2>9. Separation'
    <3>1. pc'[t] = "out" => \A u \in Threads : calls[t] <= calls[u]
      <4>1. ~(thr[t] + 1 < NrThreads) => \A u \in Threads : u < thr[t] + 1
        BY <2>3, ThreadsRange
      <4>2. QED
        BY <2>1, <2>5, <4>1
    <3>2. Returned(t)' = IF pc'[t] = "out" THEN calls[t] ELSE Returned(t)
      BY <2>1 DEF Returned
    <3>3. \A u \in Threads : u # t => Returned(u)' = Returned(u)
      BY <2>1, <2>2 DEF Returned
    <3>4. QED
      BY <2>1, <3>1, <3>2, <3>3 DEF Separation
  <2>10. QED
    BY <2>6, <2>7, <2>8, <2>9
<1>4. CASE UNCHANGED barrierVars
  BY <1>4 DEF barrierVars, CtrIsCalls, ScanLocals, ScannedAhead, Separation, Returned
<1>5. QED
  BY <1>1, <1>2, <1>3, <1>4 DEF BarrierNext, Step, Terminated

\* The inductive invariant holds of every behaviour.
THEOREM BarrierInvariance == BarrierSpec => []BarrierInv
  BY BarrierInitInv, BarrierNextInv, PTL DEF BarrierSpec

\* The counters, the locals of barrier_wait and the call counts keep their
\* types; in particular no counter overflows.
THEOREM BarrierTypeCorrect == BarrierSpec => []BarrierTypeOK
<1>1. BarrierInv => BarrierTypeOK
  BY DEF BarrierInv
<1>2. QED
  BY <1>1, BarrierInvariance, PTL

\* Busy-wait until all participating threads arrived: no call returns before
\* every thread has made its call of that number.
THEOREM BarrierSeparates == BarrierSpec => []Separation
<1>1. BarrierInv => Separation
  BY DEF BarrierInv
<1>2. QED
  BY <1>1, BarrierInvariance, PTL

-----------------------------------------------------------------------------

\* The initial state is one of the abstract barrier.
LEMMA InitImplements == BarrierInit => Abstract!Init
<1> SUFFICES ASSUME BarrierInit
             PROVE  Abstract!Init
  OBVIOUS
<1>1. \A t \in Threads : Returned(t) = 0
  BY DEF BarrierInit, Returned
<1>2. QED
  BY <1>1 DEF BarrierInit, Abstract!Init, Abstract!Threads, Threads

\* Each step of the polling barrier is an abstract Arrive, an abstract Release
\* (the last load of a scan) or changes nothing the abstract barrier shows.
LEMMA StepImplements == BarrierInv /\ [BarrierNext]_barrierVars => [Abstract!Next]_(Abstract!vars)
<1> SUFFICES ASSUME BarrierInv, [BarrierNext]_barrierVars
             PROVE  [Abstract!Next]_(Abstract!vars)
  OBVIOUS
<1> DEFINE released == [u \in Threads |-> Returned(u)]
<1> USE DEF BarrierInv, BarrierTypeOK
<1>1. ASSUME NEW t \in Threads, Count(t)
      PROVE  Abstract!Arrive(t)
  <2>1. released[t] = calls[t] /\ released' = released
    BY <1>1 DEF Count, Returned
  <2>2. QED
    BY <1>1, <2>1 DEF Count, Abstract!Arrive
<1>2. ASSUME NEW t \in Threads, Load(t)
      PROVE  UNCHANGED Abstract!vars
  <2>1. released' = released
    BY <1>2 DEF Load, Returned
  <2>2. QED
    BY <1>2, <2>1 DEF Load, Abstract!vars
<1>3. ASSUME NEW t \in Threads, Scan(t)
      PROVE  Abstract!Release(t) \/ UNCHANGED Abstract!vars
  <2>1. CASE thr[t] + 1 < NrThreads
    <3>1. released' = released
      BY <1>3, <2>1 DEF Scan, Returned
    <3>2. QED
      BY <1>3, <3>1 DEF Scan, Abstract!vars
  <2>2. CASE ~(thr[t] + 1 < NrThreads)
    <3>1. BarrierInv'
      BY BarrierNextInv
    <3>2. \A u \in Threads : calls[u] >= calls[t]
      <4>1. calls' = calls /\ Returned(t)' = calls[t]
        BY <1>3, <2>2 DEF Scan, Returned
      <4>2. QED
        BY <3>1, <4>1 DEF Separation
    <3>3. /\ released[t] = calls[t] - 1 /\ calls' = calls
          /\ \A u \in Threads : Returned(u)' = IF u = t THEN calls[t] ELSE Returned(u)
      BY <1>3, <2>2 DEF Scan, Returned
    <3>4. released' = [released EXCEPT ![t] = calls[t]]
      BY <3>3
    <3>5. QED
      BY <3>2, <3>3, <3>4 DEF Abstract!Release, Abstract!Threads, Threads
  <2>3. QED
    BY <2>1, <2>2
<1>4. CASE UNCHANGED barrierVars
  BY <1>4 DEF barrierVars, Abstract!vars, Returned
<1>5. QED
  BY <1>1, <1>2, <1>3, <1>4
     DEF BarrierNext, Step, Terminated, Abstract!Next, Abstract!Threads, Threads

\* The polling barrier implements the abstract barrier.
THEOREM BarrierImplements == BarrierSpec => ImplementsBarrier
  BY InitImplements, StepImplements, BarrierInvariance, PTL
     DEF BarrierSpec, ImplementsBarrier, Abstract!Spec

-----------------------------------------------------------------------------
(* The calibration of delays *)

\* The trials and candidates accepted so far fit into a tick: the trials since
\* they began, together, and lpj, but for the step that is being tried.
Fits ==
  /\ at \in {"align", "ticks", "trial"} => lpj * trial < jiffy
  /\ at \in {"align", "ticks"} => trial = 0
  /\ at = "trial" => lpj * trial <= elapsed
  /\ at = "search" => lpj < jiffy
  /\ at \in {"edge", "read", "test"} => loopadd <= lpj /\ lpj - loopadd < jiffy
  /\ at \in {"use", "end"} => loops_per_jiffy < jiffy

Types ==
  /\ jiffy \in Nat \ {0}
  /\ at \in {"align", "ticks", "trial", "search", "edge", "read", "test", "use", "end"}
  /\ lpj \in Nat /\ lpj_base \in Nat /\ loopadd \in Nat /\ loopadd_base \in Nat
  /\ chop_limit \in Nat
  /\ trial \in Nat /\ band \in Nat /\ trial_in_band \in Nat
  /\ loops_per_jiffy \in Nat /\ elapsed \in Nat /\ interrupts \in Nat
  /\ asked \in Nat /\ loops \in Nat
  /\ disturbed \in BOOLEAN

InTick == Types /\ jiffy \in Jiffies /\ Fits

\* A round of trials that ends within the tick fits together with those before.
LEMMA TrialsFit ==
  ASSUME NEW a \in Nat, NEW t \in Nat, NEW w \in Nat, NEW e \in Nat, a * t <= e
  PROVE  a * w \in Nat /\ a * (t + w) <= e + a * w
<1>1. a * w \in Nat /\ a * t \in Nat
  OBVIOUS
<1>2. a * (t + w) = a * t + a * w
  OBVIOUS
<1> QED BY <1>1, <1>2

LEMMA Products == ASSUME NEW a \in Nat, NEW b \in Nat PROVE a * b \in Nat
OBVIOUS

\* Quotients of natural numbers are natural numbers.
LEMMA Halves ==
  ASSUME NEW c \in Nat, NEW d \in Nat \ {0}
  PROVE  c \div d \in Nat /\ c % d \in Nat /\ c % d < d
OBVIOUS

LEMMA InitFits == TimerInit => InTick
<1> SUFFICES ASSUME TimerInit PROVE InTick
  OBVIOUS
<1> USE JiffiesAssumption, FirstGuessAssumption, CalibratesAssumption DEF TimerInit
<1>1. Types
  BY DEF Types
<1>2. FirstGuess * 0 = 0
  OBVIOUS
<1>3. Fits
  BY <1>2 DEF Fits
<1> QED BY <1>1, <1>3 DEF InTick

LEMMA StepFits == InTick /\ [TimerNext]_timerVars => InTick'
<1> SUFFICES ASSUME InTick, [TimerNext]_timerVars PROVE InTick'
  OBVIOUS
<1> USE DEF InTick, Types
<1>1. CASE Interrupt
  <2>1. PICK time \in Nat : elapsed' = elapsed + time
    BY <1>1, InterruptionsAssumption DEF Interrupt
  <2>2. Types'
    BY <1>1, <2>1 DEF Interrupt, search, guess, use
  <2>3. Fits'
    BY <1>1, <2>1 DEF Interrupt, search, guess, use, Fits
  <2> QED BY <1>1, <2>2, <2>3 DEF Interrupt, use
<1>2. CASE AwaitFirst \/ AwaitTick
  BY <1>2 DEF AwaitFirst, AwaitTick, Await, Goto, search, guess, use, nature, Fits
<1>3. CASE ReadFirst \/ ReadTick
  <2>1. elapsed' \in Nat
    BY <1>3, Halves DEF ReadFirst, ReadTick, Read
  <2>2. lpj * 0 = 0
    OBVIOUS
  <2> QED BY <1>3, <2>1, <2>2 DEF ReadFirst, ReadTick, Read, Goto, search, guess, use, nature, Fits
<1>4. CASE Trial
  <2> DEFINE wide == IF trial_in_band + 1 = 2 ^ band THEN band + 1 ELSE band
  <2>1. wide \in Nat /\ band' = wide /\ trial_in_band' \in Nat /\ at = "trial"
    BY <1>4 DEF Trial
  <2>2. lpj * trial < jiffy /\ lpj * trial <= elapsed
    BY <2>1 DEF Fits
  <2> HIDE DEF wide
  <2>3. lpj * wide \in Nat /\ lpj * (trial + wide) <= elapsed + lpj * wide
    BY <2>1, <2>2, TrialsFit
  <2>4. lpj * trial \in Nat
    OBVIOUS
  <2>5. elapsed' = elapsed + lpj * wide /\ jiffy' = jiffy /\ loops_per_jiffy' = loops_per_jiffy
        /\ asked' = asked /\ loops' = loops /\ interrupts' = interrupts
    BY <1>4 DEF Trial, wide, use
  <2>6. CASE SameTick(elapsed + lpj * wide)
    <3>1. trial' = trial + wide /\ at' = "trial" /\ UNCHANGED <<search, disturbed>>
      BY <1>4, <2>1, <2>6 DEF Trial, wide
    <3>2. Types'
      BY <2>1, <2>3, <2>5, <3>1 DEF search
    <3>3. lpj' * trial' <= elapsed' /\ elapsed' < jiffy'
      BY <2>3, <2>5, <2>6, <3>1 DEF search, SameTick
    <3>4. lpj' \in Nat /\ trial' \in Nat /\ jiffy' \in Nat /\ elapsed' \in Nat
      BY <3>2
    <3>5. lpj' * trial' \in Nat
      BY ONLY <3>4, Products
    <3>6. lpj' * trial' < jiffy'
      <4> DEFINE total == lpj' * trial'
      <4>1. total \in Nat /\ total <= elapsed' /\ elapsed' < jiffy'
        BY <3>3, <3>5
      <4> HIDE DEF total
      <4>2. total < jiffy'
        BY ONLY <4>1, <3>4
      <4> QED BY <4>2 DEF total
    <3> QED BY <2>5, <3>1, <3>2, <3>3, <3>6 DEF Fits
  <2>7. CASE ~SameTick(elapsed + lpj * wide)
    <3>1. trial' = trial /\ Recalibrate(lpj * trial, lpj * wide)
      BY <1>4, <2>7 DEF Trial, wide
    <3>2. (lpj * trial) \div Precision \in Nat
      BY <2>4, Halves, PrecisionAssumption
    <3>3. /\ at' = "search"
          /\ lpj' = lpj * trial /\ lpj_base' = lpj * trial
          /\ loopadd' = lpj * wide /\ loopadd_base' = lpj * wide
          /\ chop_limit' \in Nat /\ disturbed' \in BOOLEAN
      BY <3>1, <3>2 DEF Recalibrate
    <3>4. /\ lpj' \in Nat /\ lpj_base' \in Nat /\ loopadd' \in Nat
          /\ loopadd_base' \in Nat /\ lpj' < jiffy'
      BY <2>2, <2>3, <2>4, <2>5, <3>3
    <3>5. elapsed' \in Nat
      BY <2>3, <2>5
    <3>6. Types'
      BY <2>1, <2>5, <3>1, <3>3, <3>4, <3>5
    <3> QED BY <2>5, <3>3, <3>4, <3>6 DEF Fits
  <2> QED BY <2>6, <2>7
<1>5. CASE Search
  BY <1>5 DEF Search, Goto, guess, use, nature, Fits
<1>6. CASE Test
  <2>1. loopadd <= lpj /\ lpj - loopadd < jiffy
    BY <1>6 DEF Test, Goto, Fits
  <2>2. loopadd \div 2 \in Nat
    BY Halves
  <2>3. elapsed' = elapsed + lpj
    BY <1>6 DEF Test
  <2>4. lpj' \in Nat /\ lpj' < jiffy
    BY <1>6, <2>1, <2>3 DEF Test, SameTick
  <2> QED BY <1>6, <2>2, <2>3, <2>4 DEF Test, Goto, guess, use, nature, Fits
<1>7. CASE Found
  <2>1. lpj < jiffy
    BY <1>7 DEF Found, Fits
  <2>2. lpj \div Precision \in Nat
    BY Halves, PrecisionAssumption
  <2>3. CASE lpj + loopadd * 2 = lpj_base + loopadd_base * 2
    <3>1. Recalibrate(lpj, loopadd_base * 4) /\ UNCHANGED <<loops_per_jiffy, guess, jiffy, asked, loops, interrupts, elapsed>>
      BY <1>7, <2>3 DEF Found
    <3>2. /\ at' = "search" /\ lpj' = lpj /\ lpj_base' = lpj
          /\ loopadd' = loopadd_base * 4 /\ loopadd_base' = loopadd_base * 4
          /\ chop_limit' = lpj \div Precision /\ disturbed' = FALSE
      BY <3>1 DEF Recalibrate
    <3>3. loopadd_base * 4 \in Nat
      BY Products
    <3>4. loopadd' \in Nat /\ loopadd_base' \in Nat /\ chop_limit' \in Nat
      BY <2>2, <3>2, <3>3
    <3> QED BY <2>1, <3>1, <3>2, <3>4 DEF guess, Fits
  <2>4. CASE lpj + loopadd * 2 # lpj_base + loopadd_base * 2
    BY <1>7, <2>1, <2>4 DEF Found, search, guess, Fits
  <2> QED BY <2>3, <2>4
<1>8. CASE UsefulWork
  <2>1. asked' \in Nat
    BY <1>8 DEF UsefulWork
  <2>2. Factor \in Nat
    BY Halves, WordSizeAssumption, PerSecondAssumption DEF Factor
  <2>3. loops' \in Nat
    <3>5. asked' * Factor \in Nat
      BY ONLY <2>1, <2>2, Products
    <3>6. asked' * Factor * 4 \in Nat
      BY ONLY <3>5, Products
    <3>7. HZ \div 4 \in Nat
      BY Halves, HZAssumption
    <3>8. loops_per_jiffy * (HZ \div 4) \in Nat
      BY <3>7, Products
    <3>1. asked' * Factor * 4 \in Nat /\ loops_per_jiffy * (HZ \div 4) \in Nat
      BY ONLY <3>6, <3>8
    <3>2. Word(asked' * Factor * 4) \in Nat /\ Word(loops_per_jiffy * (HZ \div 4)) \in Nat
      BY <3>1, Halves, WordSizeAssumption DEF Word
    <3>3. Word(asked' * Factor * 4) * Word(loops_per_jiffy * (HZ \div 4)) \in Nat
      BY <3>2, Products
    <3>4. loops' = (Word(asked' * Factor * 4) * Word(loops_per_jiffy * (HZ \div 4))) \div WordSize + 1
      BY <1>8 DEF UsefulWork, Rounds
    <3> QED BY <3>3, <3>4, Halves, WordSizeAssumption
  <2> QED BY <1>8, <2>1, <2>3 DEF UsefulWork, Goto, search, guess, nature, Fits
<1>9. CASE UNCHANGED timerVars
  BY <1>9 DEF timerVars, search, guess, use, nature, Fits
<1> QED BY <1>1, <1>2, <1>3, <1>4, <1>5, <1>6, <1>7, <1>8, <1>9 DEF TimerNext, Statement

\* The variables of calibrate_delay and of the delays keep their types.
THEOREM TimerTypeCorrect == TimerSpec => []TimerTypeOK
<1>1. InTick => TimerTypeOK
  BY DEF InTick, Types, TimerTypeOK
<1> QED BY <1>1, InitFits, StepFits, PTL DEF TimerSpec

\* However long and often the thread is interrupted, and whatever the machine:
\* what calibrate_delay finds fits into less than a tick.
THEOREM CalibrationNeverTooLong == TimerSpec => []NeverTooLong
<1>1. InTick => NeverTooLong
  BY DEF InTick, Fits, NeverTooLong
<1> QED BY <1>1, InitFits, StepFits, PTL DEF TimerSpec

-----------------------------------------------------------------------------
(* The search comes close enough *)

\* Can be halved down to 1.
PowerOfTwo(num) ==
  \E S \in SUBSET (Nat \ {0}) : num \in S /\ \A p \in S : p = 1 \/ (p % 2 = 0 /\ p \div 2 \in S)

\* The constants as the program has them: it calibrates, the first guess is a power
\* of two no smaller than the precision, and no product of words wraps around.
CalibrationSetting ==
  /\ Calibrates
  /\ PowerOfTwo(FirstGuess) /\ Precision <= FirstGuess
  /\ HZ % 4 = 0
  /\ \A j \in Jiffies : j * (HZ \div 4) < WordSize

\* What has been accepted of the candidate, and the steps of the search: rounds of
\* the last band of trials, times a power of two.
Searching == at \in {"search", "edge", "read", "test"}
Accepted == IF at = "search" THEN lpj ELSE lpj - loopadd
Doubled(num) == \E p : PowerOfTwo(p) /\ num = p * band

\* A band of trials is no longer than all those before it, from the second on.
BandsGrow ==
  at \in {"align", "ticks", "trial"} =>
    /\ lpj = FirstGuess
    /\ \/ band = 0 /\ trial = 0 /\ trial_in_band = 0
       \/ band = 1 /\ trial = 1 /\ trial_in_band = 0
       \/ band >= 1 /\ trial >= band + 1

\* So the steps get small enough before they cannot be halved, unless the first
\* trial did not fit.
StepsHalve ==
  Searching =>
    /\ band # 0 /\ (band <= trial \/ (trial = 0 /\ band = 1))
    /\ lpj_base >= FirstGuess * trial /\ Accepted >= lpj_base
    /\ chop_limit = lpj_base \div Precision
    /\ Doubled(loopadd_base) /\ (Doubled(loopadd) \/ (trial = 0 /\ loopadd = 0))
    /\ at # "search" => loopadd > chop_limit
    /\ trial = 0 => /\ lpj_base = 0 /\ loopadd_base = FirstGuess
                    /\ Accepted + 2 * loopadd <= 2 * FirstGuess
                    /\ loopadd = 0 => Accepted < 2 * FirstGuess

\* Either all candidates were accepted so far, or what is still to be added is no
\* more than two steps.
Bracketed ==
  ~disturbed /\ Searching =>
    /\ at \in {"read", "test"} => elapsed = 0
    /\ \/ Accepted + 2 * loopadd = lpj_base + 2 * loopadd_base
       \/ trial = 0 /\ loopadd = 0 /\ Accepted = 2 * FirstGuess - 1
       \/ jiffy <= Accepted + 2 * loopadd + (IF loopadd = 0 THEN 1 ELSE 0)

Accurate == at \in {"use", "end"} /\ Sound => jiffy <= loops_per_jiffy + Tolerance

Close == BandsGrow /\ StepsHalve /\ Bracketed /\ Accurate /\ DelayAsAsked

LEMMA PowerHalved ==
  ASSUME NEW num, PowerOfTwo(num), num # 1
  PROVE  num \in Nat \ {0} /\ PowerOfTwo(num \div 2) /\ num = 2 * (num \div 2)
<1>1. PICK S \in SUBSET (Nat \ {0}) : num \in S /\ \A p \in S : p = 1 \/ (p % 2 = 0 /\ p \div 2 \in S)
  BY DEF PowerOfTwo
<1>2. num \in Nat \ {0} /\ num % 2 = 0 /\ num \div 2 \in S
  BY <1>1
<1>3. num = 2 * (num \div 2)
  BY <1>2
<1>4. QED
  BY <1>1, <1>2, <1>3 DEF PowerOfTwo

LEMMA PowerDoubled ==
  ASSUME NEW num, PowerOfTwo(num)
  PROVE  num \in Nat \ {0} /\ PowerOfTwo(2 * num)
<1>1. PICK S \in SUBSET (Nat \ {0}) : num \in S /\ \A p \in S : p = 1 \/ (p % 2 = 0 /\ p \div 2 \in S)
  BY DEF PowerOfTwo
<1>2. num \in Nat \ {0} /\ (2 * num) % 2 = 0 /\ (2 * num) \div 2 = num /\ 2 * num \in Nat \ {0}
  <2>1. num \in Nat \ {0}
    BY <1>1
  <2>2. PICK m \in Nat : m = num /\ m # 0
    BY <2>1
  <2>3. (2 * m) % 2 = 0 /\ (2 * m) \div 2 = m /\ 2 * m \in Nat \ {0}
    BY ONLY <2>2
  <2>4. QED
    BY <2>2, <2>3
<1>3. PICK T \in SUBSET (Nat \ {0}) : T = S \cup {2 * num}
  BY <1>2
<1>4. 2 * num \in T /\ \A p \in T : p = 1 \/ (p % 2 = 0 /\ p \div 2 \in T)
  BY <1>1, <1>2, <1>3
<1>5. QED
  BY <1>2, <1>4 DEF PowerOfTwo

LEMMA PowerOne == PowerOfTwo(1)
<1>1. {1} \in SUBSET (Nat \ {0})
  OBVIOUS
<1>2. QED
  BY <1>1 DEF PowerOfTwo

LEMMA Swapped ==
  ASSUME NEW q \in Nat, NEW b \in Nat
  PROVE  (2 * q) * b = 2 * (q * b) /\ q * b \in Nat
OBVIOUS

\* A step longer than the band can be halved.
LEMMA StepHalved ==
  ASSUME band \in Nat \ {0}, NEW num, Doubled(num), num # band
  PROVE  num \in Nat \ {0} /\ Doubled(num \div 2) /\ num = 2 * (num \div 2)
<1>1. PICK p : PowerOfTwo(p) /\ num = p * band
  BY DEF Doubled
<1>2. p # 1
  BY <1>1
<1>3. PICK q : q = p \div 2 /\ PowerOfTwo(q) /\ p = 2 * q
  BY <1>1, <1>2, PowerHalved
<1>4. q \in Nat \ {0}
  BY <1>3, PowerDoubled
<1>5. PICK m \in Nat : m = q * band
  BY <1>4
<1>6. m # 0
  BY <1>4, <1>5
<1>7. num = 2 * m
  BY <1>1, <1>3, <1>4, <1>5, Swapped
<1>8. num \div 2 = m
  BY <1>7
<1>9. QED
  BY <1>3, <1>5, <1>6, <1>7, <1>8 DEF Doubled

LEMMA StepDoubled ==
  ASSUME band \in Nat \ {0}, NEW num, Doubled(num)
  PROVE  num \in Nat \ {0} /\ Doubled(2 * num)
<1>1. PICK p : PowerOfTwo(p) /\ num = p * band
  BY DEF Doubled
<1>2. p \in Nat \ {0} /\ PowerOfTwo(2 * p)
  BY <1>1, PowerDoubled
<1>3. 2 * num = (2 * p) * band /\ num \in Nat
  BY <1>1, <1>2, Swapped
<1>4. num # 0
  BY <1>1, <1>2
<1>5. QED
  BY <1>2, <1>3, <1>4 DEF Doubled

LEMMA QuotientsOrdered ==
  ASSUME NEW b \in Nat, NEW c \in Nat, NEW d \in Nat \ {0}, b <= c
  PROVE  b \div d <= c \div d /\ b \div d \in Nat /\ c \div d \in Nat
OBVIOUS

\* The steps are halved until they are within the precision: a band of a search
\* with trials is.
LEMMA BandWithin ==
  ASSUME FirstGuess \in Nat, Precision \in Nat \ {0}, Precision <= FirstGuess,
         NEW b \in Nat, NEW t \in Nat, NEW base \in Nat, b <= t, base >= FirstGuess * t
  PROVE  b <= base \div Precision
<1>1. Precision * b <= FirstGuess * t
  <2>1. Precision * b <= Precision * t
    OBVIOUS
  <2>2. Precision * t <= FirstGuess * t
    OBVIOUS
  <2>3. Precision * b \in Nat /\ Precision * t \in Nat /\ FirstGuess * t \in Nat
    OBVIOUS
  <2>4. QED
    BY <2>1, <2>2, <2>3
<1>2. Precision * b <= base /\ Precision * b \in Nat
  <2>1. Precision * b \in Nat /\ FirstGuess * t \in Nat
    OBVIOUS
  <2>2. QED
    BY <1>1, <2>1
<1>3. (Precision * b) \div Precision = b
  OBVIOUS
<1>4. QED
  BY <1>2, <1>3, QuotientsOrdered

LEMMA InitClose == CalibrationSetting /\ TimerInit => Close
<1> SUFFICES ASSUME CalibrationSetting, TimerInit PROVE Close
  OBVIOUS
<1>1. at = "align" /\ lpj = FirstGuess /\ trial = 0 /\ band = 0 /\ trial_in_band = 0
  BY DEF CalibrationSetting, TimerInit
<1>2. BandsGrow
  BY <1>1 DEF BandsGrow
<1>3. StepsHalve /\ Bracketed /\ Accurate /\ DelayAsAsked
  BY <1>1 DEF StepsHalve, Bracketed, Searching, Accurate, DelayAsAsked
<1> QED BY <1>2, <1>3 DEF Close

\* Nothing but the clock moves.
LEMMA WaitingClose ==
  ASSUME InTick, Close,
         UNCHANGED <<jiffy, lpj, lpj_base, loopadd, loopadd_base, chop_limit, trial, band, trial_in_band>>,
         \/ at' = at /\ at \notin {"use", "end"} /\ disturbed'
         \/ /\ disturbed' = disturbed
            /\ \/ at = "align" /\ at' = "ticks"
               \/ at = "ticks" /\ at' = "trial"
               \/ at = "edge" /\ at' = "read" /\ elapsed' = 0
               \/ at = "read" /\ at' = "test" /\ (elapsed = 0 => elapsed' = 0)
  PROVE  Close'
<1>1. at' \notin {"use", "end"} /\ (Searching' <=> Searching) /\ (at' = "search" <=> at = "search")
  BY DEF Searching
<1>2. Accepted' = Accepted
  BY <1>1 DEF Accepted
<1>3. BandsGrow'
  <2>1. at' \in {"align", "ticks", "trial"} => at \in {"align", "ticks", "trial"}
    OBVIOUS
  <2> QED BY <2>1 DEF BandsGrow, Close
<1>4. StepsHalve'
  <2>1. Doubled(loopadd_base)' <=> Doubled(loopadd_base)
    BY DEF Doubled
  <2>2. Doubled(loopadd)' <=> Doubled(loopadd)
    BY DEF Doubled
  <2> QED BY <1>1, <1>2, <2>1, <2>2 DEF StepsHalve, Close
<1>5. Bracketed'
  BY <1>1, <1>2 DEF Bracketed, Close, Searching
<1>6. Accurate' /\ DelayAsAsked'
  BY <1>1 DEF Accurate, DelayAsAsked
<1> QED BY <1>3, <1>4, <1>5, <1>6 DEF Close

LEMMA SearchClose == InTick /\ Close /\ Search => Close'
<1> SUFFICES ASSUME InTick, Close, Search PROVE Close'
  OBVIOUS
<1>1. /\ at = "search" /\ at' = "edge" /\ loopadd > chop_limit /\ lpj' = lpj + loopadd
      /\ UNCHANGED <<lpj_base, loopadd, loopadd_base, chop_limit, trial, band, trial_in_band, jiffy, disturbed>>
  BY DEF Search, Goto, guess, use, nature
<1>2. Accepted = lpj /\ Accepted' = lpj' - loopadd' /\ lpj \in Nat /\ loopadd \in Nat
  BY <1>1 DEF Accepted, InTick, Types
<1>3. Accepted' = Accepted
  BY <1>1, <1>2
<1>4. Doubled(loopadd_base)' <=> Doubled(loopadd_base)
  BY <1>1 DEF Doubled
<1>5. Doubled(loopadd)' <=> Doubled(loopadd)
  BY <1>1 DEF Doubled
<1>6. StepsHalve'
  BY <1>1, <1>3, <1>4, <1>5 DEF StepsHalve, Close, Searching
<1>7. Bracketed'
  BY <1>1, <1>3 DEF Bracketed, Close, Searching
<1>8. BandsGrow' /\ Accurate' /\ DelayAsAsked'
  BY <1>1 DEF BandsGrow, Accurate, DelayAsAsked
<1> QED BY <1>6, <1>7, <1>8 DEF Close

\* The trials are over and the search begins: with the trials as its base.
LEMMA TrialClose == CalibrationSetting /\ InTick /\ Close /\ Trial => Close'
<1> SUFFICES ASSUME CalibrationSetting, InTick, Close, Trial PROVE Close'
  OBVIOUS
<1> DEFINE full == trial_in_band + 1 = 2 ^ band
           wide == IF full THEN band + 1 ELSE band
           time == elapsed + lpj * wide
<1>1. /\ at = "trial" /\ band' = wide /\ jiffy' = jiffy /\ loops_per_jiffy' = loops_per_jiffy
      /\ trial_in_band' = (IF full THEN 0 ELSE trial_in_band + 1)
  BY DEF Trial, use
<1>2. \/ SameTick(time) /\ trial' = trial + wide /\ UNCHANGED <<at, lpj>>
      \/ trial' = trial /\ Recalibrate(lpj * trial, lpj * wide)
  BY DEF Trial, search
<1>3. /\ lpj = FirstGuess
      /\ \/ band = 0 /\ trial = 0 /\ trial_in_band = 0
         \/ band = 1 /\ trial = 1 /\ trial_in_band = 0
         \/ band >= 1 /\ trial >= band + 1
  BY <1>1 DEF Close, BandsGrow
<1>4. band \in Nat /\ trial \in Nat /\ trial_in_band \in Nat
  BY DEF InTick, Types
<1>5. 2 ^ 0 = 1 /\ 2 ^ 1 = 2
  OBVIOUS
<1>6. wide \in Nat /\ (wide = band \/ wide = band + 1)
  BY <1>4
<1>7. \/ band = 0 /\ trial = 0 /\ wide = 1 /\ trial_in_band' = 0
      \/ band = 1 /\ trial = 1 /\ wide = 1
      \/ band >= 1 /\ trial >= band + 1
  <2>1. CASE band = 0 /\ trial = 0 /\ trial_in_band = 0
    <3>1. full
      BY <1>5, <2>1
    <3> QED BY <1>1, <2>1, <3>1
  <2>2. CASE band = 1 /\ trial = 1 /\ trial_in_band = 0
    <3>1. ~full
      BY <1>5, <2>2
    <3> QED BY <2>2, <3>1
  <2> QED BY <1>3, <2>1, <2>2
<1> HIDE DEF wide, full, time
<1>8. CASE SameTick(time) /\ trial' = trial + wide /\ UNCHANGED <<at, lpj>>
  <2>1. \/ band' = 1 /\ trial' = 1 /\ trial_in_band' = 0
        \/ band' >= 1 /\ trial' >= band' + 1
    <3>1. trial' = trial + wide /\ band' = wide
      BY <1>1, <1>8
    <3>2. CASE band = 0 /\ trial = 0 /\ wide = 1 /\ trial_in_band' = 0
      BY <3>1, <3>2
    <3>3. CASE band = 1 /\ trial = 1 /\ wide = 1
      BY <3>1, <3>3
    <3>4. CASE band >= 1 /\ trial >= band + 1
      <4>1. wide >= 1 /\ trial >= 1
        BY <1>4, <1>6, <3>4
      <4>2. trial + wide >= wide + 1
        BY <1>4, <1>6, <4>1
      <4> QED BY <3>1, <4>1, <4>2
    <3> QED BY <1>7, <3>2, <3>3, <3>4
  <2>2. BandsGrow'
    BY <1>1, <1>3, <1>8, <2>1, FirstGuessAssumption DEF BandsGrow
  <2>3. at' = "trial"
    BY <1>1, <1>8
  <2>4. StepsHalve' /\ Bracketed' /\ Accurate' /\ DelayAsAsked'
    BY <2>3 DEF StepsHalve, Bracketed, Searching, Accurate, DelayAsAsked
  <2> QED BY <2>2, <2>4 DEF Close
<1>9. CASE trial' = trial /\ Recalibrate(lpj * trial, lpj * wide)
  <2>1. /\ at' = "search" /\ disturbed' = FALSE
        /\ lpj' = FirstGuess * trial /\ lpj_base' = FirstGuess * trial
        /\ loopadd' = FirstGuess * wide /\ loopadd_base' = FirstGuess * wide
        /\ chop_limit' = lpj_base' \div Precision
    BY <1>3, <1>9 DEF Recalibrate
  <2>2. Accepted' = FirstGuess * trial
    BY <2>1 DEF Accepted
  <2>3. band' # 0 /\ (band' <= trial' \/ (trial' = 0 /\ band' = 1))
    <3>1. trial' = trial /\ band' = wide
      BY <1>1, <1>9
    <3> QED BY <1>4, <1>6, <1>7, <3>1
  <2>4. Doubled(loopadd_base)' /\ Doubled(loopadd)'
    <3>1. loopadd_base' = FirstGuess * band' /\ loopadd' = FirstGuess * band'
      BY <1>1, <2>1
    <3>2. PowerOfTwo(FirstGuess)
      BY DEF CalibrationSetting
    <3> QED BY <3>1, <3>2 DEF Doubled
  <2>5. FirstGuess * trial \in Nat /\ FirstGuess * wide \in Nat
    BY <1>4, <1>6, FirstGuessAssumption, Products
  <2>6. lpj_base' >= FirstGuess * trial' /\ Accepted' >= lpj_base'
    BY <1>9, <2>1, <2>2, <2>5
  <2>7. trial' = 0 => /\ lpj_base' = 0 /\ loopadd_base' = FirstGuess
                      /\ Accepted' + 2 * loopadd' <= 2 * FirstGuess
                      /\ loopadd' # 0
    <3> SUFFICES ASSUME trial' = 0
                 PROVE  /\ lpj_base' = 0 /\ loopadd_base' = FirstGuess
                        /\ Accepted' + 2 * loopadd' <= 2 * FirstGuess
                        /\ loopadd' # 0
      OBVIOUS
    <3>1. trial = 0 /\ wide = 1
      BY <1>1, <1>9, <2>3, <1>4, <1>6, <1>7
    <3>2. FirstGuess * trial = 0 /\ FirstGuess * wide = FirstGuess
      BY <3>1, FirstGuessAssumption
    <3> QED BY <2>1, <2>2, <3>2, FirstGuessAssumption
  <2>8. StepsHalve'
    BY <2>1, <2>3, <2>4, <2>6, <2>7 DEF StepsHalve
  <2>9. Bracketed'
    <3>1. Accepted' + 2 * loopadd' = lpj_base' + 2 * loopadd_base'
      BY <2>1, <2>2
    <3> QED BY <2>1, <3>1 DEF Bracketed
  <2>10. BandsGrow' /\ Accurate' /\ DelayAsAsked'
    BY <2>1 DEF BandsGrow, Accurate, DelayAsAsked
  <2> QED BY <2>8, <2>9, <2>10 DEF Close
<1> QED BY <1>2, <1>8, <1>9

\* A candidate is kept if it fits, and taken back if not; either way half of the
\* step remains to be decided, or all of it but one.
LEMMA TestClose == CalibrationSetting /\ InTick /\ Close /\ Test => Close'
<1> SUFFICES ASSUME CalibrationSetting, InTick, Close, Test PROVE Close'
  OBVIOUS
<1>1. /\ at = "test" /\ at' = "search" /\ elapsed' = elapsed + lpj
      /\ lpj' = (IF SameTick(elapsed + lpj) THEN lpj ELSE lpj - loopadd)
      /\ loopadd' = loopadd \div 2
      /\ UNCHANGED <<lpj_base, loopadd_base, chop_limit, trial, band, trial_in_band, jiffy, disturbed>>
  BY DEF Test, Goto, guess, use, nature
<1>2. /\ lpj \in Nat /\ loopadd \in Nat /\ loopadd <= lpj /\ jiffy \in Nat /\ elapsed \in Nat
      /\ band \in Nat /\ trial \in Nat /\ lpj_base \in Nat /\ loopadd_base \in Nat
  BY <1>1 DEF InTick, Types, Fits
<1>3. PICK a \in Nat : a = lpj - loopadd
  BY <1>2
<1>4. Accepted = a /\ Accepted' = lpj' /\ lpj = a + loopadd
  BY <1>1, <1>2, <1>3 DEF Accepted
<1>5. /\ band # 0 /\ (band <= trial \/ (trial = 0 /\ band = 1))
      /\ lpj_base >= FirstGuess * trial /\ a >= lpj_base
      /\ chop_limit = lpj_base \div Precision
      /\ Doubled(loopadd_base) /\ (Doubled(loopadd) \/ (trial = 0 /\ loopadd = 0))
      /\ loopadd > chop_limit
      /\ trial = 0 => /\ lpj_base = 0 /\ loopadd_base = FirstGuess
                      /\ a + 2 * loopadd <= 2 * FirstGuess
  BY <1>1, <1>4 DEF Close, StepsHalve, Searching
<1>6. chop_limit \in Nat /\ loopadd # 0 /\ Doubled(loopadd)
  BY <1>2, <1>5 DEF InTick, Types
<1>7. PICK h \in Nat : h = loopadd \div 2
  BY <1>2
<1>8. Doubled(loopadd_base)' <=> Doubled(loopadd_base)
  BY <1>1 DEF Doubled
<1>9. \/ loopadd = 2 * h /\ h # 0 /\ Doubled(h)
      \/ loopadd = 1 /\ h = 0 /\ trial = 0
  <2>1. CASE loopadd # band
    <3>1. Doubled(h) /\ loopadd = 2 * h
      BY <1>2, <1>5, <1>6, <1>7, <2>1, StepHalved
    <3> QED BY <1>6, <3>1
  <2>2. CASE loopadd = band
    <3>1. ~ (band <= trial)
      <4> SUFFICES ASSUME band <= trial PROVE FALSE
        OBVIOUS
      <4>1. band <= lpj_base \div Precision
        BY <1>2, <1>5, BandWithin, FirstGuessAssumption, PrecisionAssumption DEF CalibrationSetting
      <4> QED BY <1>2, <1>5, <1>6, <2>2, <4>1
    <3>2. trial = 0 /\ band = 1
      BY <1>5, <3>1
    <3> QED BY <1>7, <2>2, <3>2
  <2> QED BY <2>1, <2>2
<1>10. loopadd' = h /\ trial' = trial /\ (Doubled(h)' <=> Doubled(h))
  BY <1>1, <1>7 DEF Doubled
<1>11. Accepted' = a + loopadd \/ Accepted' = a
  BY <1>1, <1>3, <1>4
<1>12. StepsHalve'
  <2>1. Accepted' >= lpj_base'
    BY <1>1, <1>2, <1>5, <1>11
  <2>2. Doubled(loopadd)' \/ (trial' = 0 /\ loopadd' = 0)
    <3>1. CASE Doubled(h)
      <4>1. Doubled(h)'
        BY <1>1, <3>1 DEF Doubled
      <4> QED BY <1>10, <4>1 DEF Doubled
    <3>2. CASE h = 0 /\ trial = 0
      BY <1>10, <3>2
    <3> QED BY <1>9, <3>1, <3>2
  <2>3. trial' = 0 => /\ lpj_base' = 0 /\ loopadd_base' = FirstGuess
                      /\ Accepted' + 2 * loopadd' <= 2 * FirstGuess
                      /\ loopadd' = 0 => Accepted' < 2 * FirstGuess
    <3> SUFFICES ASSUME trial = 0
                 PROVE  /\ Accepted' + 2 * h <= 2 * FirstGuess
                        /\ h = 0 => Accepted' < 2 * FirstGuess
      BY <1>1, <1>5, <1>10
    <3>1. a + 2 * loopadd <= 2 * FirstGuess
      BY <1>5
    <3> QED BY <1>2, <1>9, <1>11, <3>1, FirstGuessAssumption
  <2>4. /\ band' # 0 /\ (band' <= trial' \/ (trial' = 0 /\ band' = 1))
        /\ lpj_base' >= FirstGuess * trial'
        /\ chop_limit' = lpj_base' \div Precision
        /\ Doubled(loopadd_base)'
    BY <1>1, <1>5, <1>8
  <2> QED BY <1>1, <2>1, <2>2, <2>3, <2>4 DEF StepsHalve
<1>13. Bracketed'
  <2> SUFFICES ASSUME ~disturbed
               PROVE  \/ Accepted' + 2 * loopadd' = lpj_base' + 2 * loopadd_base'
                      \/ trial' = 0 /\ loopadd' = 0 /\ Accepted' = 2 * FirstGuess - 1
                      \/ jiffy' <= Accepted' + 2 * loopadd' + (IF loopadd' = 0 THEN 1 ELSE 0)
    BY <1>1 DEF Bracketed
  <2>1. /\ elapsed = 0
        /\ \/ a + 2 * loopadd = lpj_base + 2 * loopadd_base
           \/ jiffy <= a + 2 * loopadd
    BY <1>1, <1>2, <1>4, <1>6 DEF Close, Bracketed, Searching
  <2>2. lpj' = (IF a + loopadd < jiffy THEN a + loopadd ELSE a)
    BY <1>1, <1>2, <1>3, <1>4, <2>1 DEF SameTick
  <2>3. CASE ~ (a + loopadd < jiffy)
    BY <1>1, <1>2, <1>4, <1>9, <1>10, <2>2, <2>3
  <2>4. CASE a + loopadd < jiffy /\ loopadd = 2 * h /\ h # 0
    BY <1>1, <1>2, <1>4, <1>10, <2>1, <2>2, <2>4
  <2>5. CASE a + loopadd < jiffy /\ loopadd = 1 /\ h = 0 /\ trial = 0
    <3>1. lpj_base = 0 /\ loopadd_base = FirstGuess
      BY <1>5, <2>5
    <3> QED BY <1>1, <1>2, <1>4, <1>10, <2>1, <2>2, <2>5, <3>1, FirstGuessAssumption
  <2> QED BY <1>9, <2>3, <2>4, <2>5
<1>14. BandsGrow' /\ Accurate' /\ DelayAsAsked'
  BY <1>1 DEF BandsGrow, Accurate, DelayAsAsked
<1> QED BY <1>12, <1>13, <1>14 DEF Close

\* The search ends, no more than two steps below the tick, or goes on from where
\* it is if all candidates fitted.
LEMMA FoundClose == InTick /\ Close /\ Found => Close'
<1> SUFFICES ASSUME InTick, Close, Found PROVE Close'
  OBVIOUS
<1>1. /\ at = "search" /\ loopadd <= chop_limit
      /\ UNCHANGED <<trial, band, trial_in_band, jiffy>>
  BY DEF Found, guess
<1>2. /\ lpj \in Nat /\ loopadd \in Nat /\ lpj < jiffy /\ jiffy \in Nat
      /\ band \in Nat /\ trial \in Nat /\ lpj_base \in Nat /\ loopadd_base \in Nat
      /\ chop_limit \in Nat
  BY <1>1 DEF InTick, Types, Fits
<1>3. Accepted = lpj
  BY <1>1 DEF Accepted
<1>4. /\ band # 0 /\ (band <= trial \/ (trial = 0 /\ band = 1))
      /\ lpj_base >= FirstGuess * trial /\ lpj >= lpj_base
      /\ chop_limit = lpj_base \div Precision
      /\ Doubled(loopadd_base)
      /\ trial = 0 => /\ lpj_base = 0 /\ loopadd_base = FirstGuess
                      /\ loopadd = 0 => lpj < 2 * FirstGuess
  BY <1>1, <1>3 DEF Close, StepsHalve, Searching
<1>5. CASE lpj + loopadd * 2 = lpj_base + loopadd_base * 2
  <2>1. /\ at' = "search" /\ lpj' = lpj /\ lpj_base' = lpj
        /\ loopadd' = loopadd_base * 4 /\ loopadd_base' = loopadd_base * 4
        /\ chop_limit' = lpj \div Precision /\ disturbed' = FALSE
    BY <1>5 DEF Found, Recalibrate
  <2>2. trial # 0
    <3> SUFFICES ASSUME trial = 0 PROVE FALSE
      OBVIOUS
    <3>1. lpj_base = 0 /\ loopadd_base = FirstGuess /\ (loopadd = 0 => lpj < 2 * FirstGuess)
      BY <1>4
    <3>2. 0 \div Precision = 0
      BY PrecisionAssumption
    <3>3. loopadd = 0
      BY <1>1, <1>2, <1>4, <3>1, <3>2
    <3> QED BY <1>2, <1>5, <3>1, <3>3, FirstGuessAssumption
  <2>3. Accepted' = lpj
    BY <2>1 DEF Accepted
  <2>4. Doubled(loopadd_base * 4)
    <3>1. loopadd_base \in Nat \ {0} /\ Doubled(2 * loopadd_base)
      BY <1>2, <1>4, StepDoubled
    <3>2. Doubled(2 * (2 * loopadd_base))
      BY <1>2, <1>4, <3>1, StepDoubled
    <3>3. 2 * (2 * loopadd_base) = loopadd_base * 4
      BY <3>1
    <3> QED BY <3>2, <3>3
  <2>5. Doubled(loopadd_base)' /\ Doubled(loopadd)'
    BY <1>1, <2>1, <2>4 DEF Doubled
  <2>6. lpj_base' >= FirstGuess * trial'
    <3>1. FirstGuess * trial \in Nat
      BY <1>2, FirstGuessAssumption, Products
    <3> QED BY <1>1, <1>2, <1>4, <2>1, <3>1
  <2>7. StepsHalve'
    BY <1>1, <1>2, <1>4, <2>1, <2>2, <2>3, <2>5, <2>6 DEF StepsHalve
  <2>8. Bracketed'
    <3>1. Accepted' + 2 * loopadd' = lpj_base' + 2 * loopadd_base'
      BY <2>1, <2>3
    <3> QED BY <2>1, <3>1 DEF Bracketed
  <2>9. BandsGrow' /\ Accurate' /\ DelayAsAsked'
    BY <2>1 DEF BandsGrow, Accurate, DelayAsAsked
  <2> QED BY <2>7, <2>8, <2>9 DEF Close
<1>6. CASE lpj + loopadd * 2 # lpj_base + loopadd_base * 2
  <2>1. at' = "use" /\ loops_per_jiffy' = lpj /\ disturbed' = disturbed
    BY <1>6 DEF Found
  <2>2. Tolerance' = Tolerance
    BY <1>1 DEF Tolerance
  <2>3. PICK q \in Nat : q = jiffy \div Precision /\ chop_limit <= q
    <3>1. lpj_base <= jiffy
      BY <1>2, <1>4
    <3> QED BY <1>2, <1>4, <3>1, QuotientsOrdered, PrecisionAssumption
  <2>4. Tolerance \in Nat /\ Tolerance >= 1 /\ Tolerance >= 2 * chop_limit
    BY <1>2, <2>3 DEF Tolerance
  <2>5. ASSUME Sound
        PROVE  jiffy <= lpj + Tolerance
    <3>1. ~disturbed /\ (trial = 0 => jiffy <= 2 * FirstGuess)
      BY <2>5 DEF Sound
    <3>2. \/ trial = 0 /\ loopadd = 0 /\ lpj = 2 * FirstGuess - 1
          \/ jiffy <= lpj + 2 * loopadd + (IF loopadd = 0 THEN 1 ELSE 0)
      BY <1>1, <1>2, <1>3, <1>6, <3>1 DEF Close, Bracketed, Searching
    <3>3. CASE trial = 0 /\ loopadd = 0 /\ lpj = 2 * FirstGuess - 1
      BY <1>2, <2>4, <3>1, <3>3, FirstGuessAssumption
    <3>4. CASE jiffy <= lpj + 2 * loopadd + (IF loopadd = 0 THEN 1 ELSE 0)
      BY <1>1, <1>2, <2>4, <3>4
    <3> QED BY <3>2, <3>3, <3>4
  <2>6. Sound' => Sound
    BY <1>1, <2>1 DEF Sound
  <2>7. Accurate'
    BY <1>1, <2>1, <2>2, <2>5, <2>6 DEF Accurate
  <2>8. BandsGrow' /\ StepsHalve' /\ Bracketed' /\ DelayAsAsked'
    BY <2>1 DEF BandsGrow, StepsHalve, Bracketed, Searching, DelayAsAsked
  <2> QED BY <2>7, <2>8 DEF Close
<1> QED BY <1>5, <1>6

LEMMA ProductsOrdered ==
  ASSUME NEW b \in Nat, NEW c \in Nat, NEW d \in Nat, b <= c
  PROVE  b * d <= c * d /\ b * d \in Nat /\ c * d \in Nat
OBVIOUS

LEMMA ProductsStrict ==
  ASSUME NEW b \in Nat, NEW c \in Nat, NEW d \in Nat \ {0}, b < c
  PROVE  b * d < c * d
OBVIOUS

LEMMA Regrouped ==
  ASSUME NEW b \in Nat, NEW c \in Nat, NEW d \in Nat
  PROVE  (b * c) * d = (b * d) * c /\ b * (c * d) = (b * c) * d
OBVIOUS

LEMMA QuotientBounds ==
  ASSUME NEW m \in Nat, NEW w \in Nat \ {0}
  PROVE  m \div w \in Nat /\ (m \div w) * w <= m /\ m < (m \div w + 1) * w
OBVIOUS

\* A factor rounded up makes up for the division by the word size.
LEMMA FactorSuffices ==
  ASSUME NEW num \in Nat, NEW p \in Nat, NEW w \in Nat \ {0}, NEW f \in Nat, NEW y \in Nat,
         y * f <= num * w, w <= f * p
  PROVE  y <= num * p
<1>1. num * p \in Nat /\ y * f \in Nat /\ num * w \in Nat /\ f * p \in Nat
  BY Products
<1>2. (y * f) * p <= (num * w) * p
  BY <1>1, ProductsOrdered
<1>3. w * y <= (f * p) * y
  BY <1>1, ProductsOrdered
<1>4. (y * f) * p = (f * p) * y
  <2>1. (y * f) * p = y * (f * p)
    BY Regrouped
  <2> QED BY <2>1
<1>5. (num * w) * p = (num * p) * w
  BY Regrouped
<1>6. w * y \in Nat /\ (f * p) * y \in Nat /\ (num * p) * w \in Nat
  BY <1>1, Products
<1>7. y * w <= (num * p) * w
  <2>1. y * w = w * y
    OBVIOUS
  <2> QED BY <1>2, <1>3, <1>4, <1>5, <1>6, <2>1
<1> SUFFICES ASSUME num * p < y PROVE FALSE
  BY <1>1
<1>8. (num * p) * w < y * w
  BY <1>1, ProductsStrict
<1> QED BY <1>6, <1>7, <1>8

\* The product is that of the delay, the factor and the rounds of a second.
LEMMA SameProduct ==
  ASSUME NEW x \in Nat, NEW f \in Nat, NEW l \in Nat, NEW h \in Nat
  PROVE  ((x * f) * 4) * (l * h) = ((x * f) * (4 * h)) * l
<1>1. PICK z \in Nat : z = x * f
  BY Products
<1>2. (z * 4) * (l * h) = (z * (4 * h)) * l
  <2>1. PICK k \in Nat : k = l * h
    BY Products
  <2>2. (z * 4) * k = 4 * (z * k)
    BY SMTT(30)
  <2>3. z * (4 * h) = 4 * (z * h)
    BY SMTT(30)
  <2>4. z * k = (z * h) * l
    <3>1. z * k = (z * l) * h
      BY <2>1, Regrouped
    <3> QED BY <3>1, Regrouped
  <2>5. (4 * (z * h)) * l = 4 * ((z * h) * l)
    <3>1. PICK g \in Nat : g = z * h
      BY Products
    <3>2. (4 * g) * l = 4 * (g * l)
      OBVIOUS
    <3> QED BY <3>1, <3>2
  <2> QED BY <2>1, <2>2, <2>3, <2>4, <2>5
<1> QED BY <1>1, <1>2

LEMMA FactorRoundedUp ==
  Factor \in Nat \ {0} /\ WordSize <= Factor * PerSecond
<1>1. PICK d \in Nat : d = WordSize \div PerSecond
  BY WordSizeAssumption, PerSecondAssumption, QuotientBounds
<1>2. WordSize < (d + 1) * PerSecond
  BY <1>1, WordSizeAssumption, PerSecondAssumption, QuotientBounds
<1>3. (d + 1) * PerSecond \in Nat
  BY PerSecondAssumption, Products
<1> QED BY <1>1, <1>2, <1>3, WordSizeAssumption DEF Factor

\* A delay that can be asked for fits into a word, in units of the product.
LEMMA AskedFits ==
  ASSUME NEW x \in Nat, x <= Longest
  PROVE  (x * Factor) * 4 \in Nat /\ (x * Factor) * 4 < WordSize
<1>1. PICK f \in Nat \ {0} : f = 4 * Factor
  BY FactorRoundedUp
<1>2. PICK g \in Nat : g = Longest
  BY <1>1, WordSizeAssumption, QuotientBounds DEF Longest
<1>3. g * f <= WordSize - 1
  BY <1>1, <1>2, WordSizeAssumption, QuotientBounds DEF Longest
<1>4. x * f <= g * f /\ x * f \in Nat /\ g * f \in Nat
  BY <1>2, ProductsOrdered
<1>5. (x * Factor) * 4 = x * f
  <2>1. x * f = x * (4 * Factor)
    BY <1>1
  <2>2. x * (4 * Factor) = (x * 4) * Factor /\ (x * Factor) * 4 = (x * 4) * Factor
    BY FactorRoundedUp, Regrouped
  <2> QED BY <2>1, <2>2
<1> QED BY <1>3, <1>4, <1>5, WordSizeAssumption

LEMMA UsefulClose == CalibrationSetting /\ InTick /\ Close /\ UsefulWork => Close'
<1> SUFFICES ASSUME CalibrationSetting, InTick, Close, UsefulWork PROVE Close'
  OBVIOUS
<1>1. /\ at = "use" /\ at' = "end" /\ asked' \in 1 .. Longest
      /\ loops' = Rounds(asked' * Factor)
      /\ UNCHANGED <<trial, jiffy, loops_per_jiffy, disturbed>>
  BY DEF UsefulWork, Goto, guess, nature
<1>2. /\ jiffy \in Jiffies /\ jiffy \in Nat \ {0} /\ loops_per_jiffy \in Nat
      /\ loops_per_jiffy < jiffy /\ (Sound => jiffy <= loops_per_jiffy + Tolerance)
  BY <1>1 DEF InTick, Types, Fits, Close, Accurate
<1>3. Tolerance \in Nat /\ Tolerance' = Tolerance /\ (Sound' <=> Sound)
  <2>1. jiffy \div Precision \in Nat
    BY <1>2, PrecisionAssumption, QuotientBounds
  <2> QED BY <1>1, <2>1 DEF Tolerance, Sound
<1>4. PICK x \in Nat : x = asked' /\ x <= Longest
  <2>1. Longest \in Nat
    <3>1. 4 * Factor \in Nat \ {0} /\ WordSize - 1 \in Nat
      BY FactorRoundedUp, WordSizeAssumption
    <3> QED BY <3>1, QuotientBounds DEF Longest
  <2> QED BY <1>1, <2>1
<1>5. PICK f \in Nat \ {0} : f = Factor /\ WordSize <= f * PerSecond
  BY FactorRoundedUp
<1>6. PICK l \in Nat : l = loops_per_jiffy /\ l < jiffy
  BY <1>2
<1>7. PICK h \in Nat : h = HZ \div 4 /\ HZ = 4 * h
  <2>1. HZ % 4 = 0
    BY DEF CalibrationSetting
  <2> QED BY <2>1, HZAssumption
<1>8. l * h \in Nat /\ l * h < WordSize
  <2>1. jiffy * h < WordSize
    BY <1>2, <1>7 DEF CalibrationSetting
  <2>2. l * h <= jiffy * h /\ l * h \in Nat /\ jiffy * h \in Nat
    BY <1>2, <1>6, <1>7, ProductsOrdered
  <2> QED BY <2>1, <2>2, WordSizeAssumption
<1>9. (x * f) * 4 \in Nat /\ (x * f) * 4 < WordSize
  BY <1>4, <1>5, AskedFits
\* Neither operand wraps around.
<1>10. Word((x * f) * 4) = (x * f) * 4 /\ Word(l * h) = l * h
  <2>1. \A num \in Nat : num < WordSize => num % WordSize = num
    BY WordSizeAssumption
  <2> QED BY <1>8, <1>9, <2>1 DEF Word
<1>11. PICK m \in Nat : m = ((x * f) * HZ) * l
  <2>1. x * f \in Nat
    BY Products
  <2>2. (x * f) * HZ \in Nat
    BY ONLY <2>1, HZAssumption, Products
  <2>3. ((x * f) * HZ) * l \in Nat
    BY ONLY <1>6, <2>2, Products
  <2> QED BY <2>3
<1>12. loops' = m \div WordSize + 1
  <2>1. ((x * f) * 4) * (l * h) = m
    BY <1>7, <1>11, SameProduct
  <2>2. loops' = (Word((x * f) * 4) * Word(l * h)) \div WordSize + 1
    BY <1>1, <1>4, <1>5, <1>6, <1>7 DEF Rounds
  <2> QED BY <1>10, <2>1, <2>2
<1>13. PICK q \in Nat : q = m \div WordSize /\ q * WordSize <= m /\ m < (q + 1) * WordSize
  BY <1>11, WordSizeAssumption, QuotientBounds
<1>14. PICK y \in Nat : y = (x * HZ) * l
  <2>1. x * HZ \in Nat
    BY HZAssumption, Products
  <2> QED BY <2>1, Products
<1>15. m = y * f
  <2>1. (x * f) * HZ = (x * HZ) * f
    BY HZAssumption, Regrouped
  <2>2. PICK g \in Nat : g = x * HZ
    BY HZAssumption, Products
  <2>3. (g * f) * l = (g * l) * f
    BY Regrouped
  <2> QED BY <1>11, <1>14, <2>1, <2>2, <2>3
<1>16. y <= (q + 1) * PerSecond
  <2>1. y * f <= (q + 1) * WordSize
    <3>1. (q + 1) * WordSize \in Nat
      BY WordSizeAssumption, Products
    <3> QED BY <1>11, <1>13, <1>15, <3>1
  <2> QED BY <1>5, <2>1, WordSizeAssumption, PerSecondAssumption, FactorSuffices
<1>17. ASSUME Sound'
       PROVE  loops' * PerSecond >= asked' * HZ * (jiffy' - Tolerance')
  <2>1. jiffy - Tolerance <= l
    BY <1>2, <1>3, <1>6, <1>17
  <2>2. PICK g \in Nat : g = x * HZ
    BY HZAssumption, Products
  <2>3. PICK d \in Int : d = jiffy - Tolerance /\ d <= l
    BY <1>2, <1>3, <2>1
  <2>4. g * d <= g * l
    BY <2>2, <2>3
  <2>5. PICK r \in Nat : r = (q + 1) * PerSecond
    BY PerSecondAssumption, Products
  <2>6. PICK e \in Int : e = g * d
    OBVIOUS
  <2>7. e <= y /\ y <= r
    BY <1>14, <1>16, <2>2, <2>4, <2>5, <2>6
  <2>8. e <= r
    BY <2>5, <2>6, <2>7
  <2>9. loops' * PerSecond = r /\ asked' * HZ * (jiffy' - Tolerance') = e
    BY <1>1, <1>3, <1>4, <1>12, <1>13, <2>2, <2>3, <2>5, <2>6
  <2> QED BY <2>5, <2>6, <2>8, <2>9
<1>18. (loops' - 1) * WordSize <= asked' * Factor * HZ * jiffy'
  <2>1. PICK g \in Nat : g = (x * f) * HZ
    <3>1. x * f \in Nat
      BY Products
    <3> QED BY <3>1, HZAssumption, Products
  <2>2. PICK r \in Nat : r = g * jiffy /\ m <= r
    <3>1. l * g <= jiffy * g /\ l * g \in Nat /\ jiffy * g \in Nat
      BY <1>2, <1>6, ProductsOrdered
    <3>2. l * g = m /\ jiffy * g = g * jiffy
      BY <1>2, <1>11, <2>1
    <3> QED BY <3>1, <3>2
  <2>3. loops' - 1 = q
    BY <1>12, <1>13
  <2>4. asked' * Factor * HZ * jiffy' = r
    BY <1>1, <1>4, <1>5, <2>1, <2>2
  <2>5. PICK s \in Nat : s = q * WordSize
    BY WordSizeAssumption, Products
  <2>6. s <= r
    BY <1>13, <2>2, <2>5
  <2> QED BY <2>3, <2>4, <2>5, <2>6
<1>19. DelayAsAsked'
  BY <1>17, <1>18 DEF DelayAsAsked
<1>20. Accurate'
  BY <1>1, <1>2, <1>3 DEF Accurate
<1>21. BandsGrow' /\ StepsHalve' /\ Bracketed'
  BY <1>1 DEF BandsGrow, StepsHalve, Bracketed, Searching
<1> QED BY <1>19, <1>20, <1>21 DEF Close

LEMMA StepClose == CalibrationSetting /\ InTick /\ Close /\ [TimerNext]_timerVars => Close'
<1> SUFFICES ASSUME CalibrationSetting, InTick, Close, [TimerNext]_timerVars PROVE Close'
  OBVIOUS
<1>1. CASE Interrupt
  BY <1>1, WaitingClose DEF Interrupt, search, guess, use
<1>2. CASE AwaitFirst \/ AwaitTick
  BY <1>2, WaitingClose DEF AwaitFirst, AwaitTick, Await, Goto, search, guess, use, nature
<1>3. CASE ReadFirst \/ ReadTick
  <2>1. 0 % jiffy = 0
    BY DEF InTick, Types
  <2> QED BY <1>3, <2>1, WaitingClose DEF ReadFirst, ReadTick, Read, Goto, search, guess, use, nature
<1>4. CASE UNCHANGED timerVars
  <2>1. Doubled(loopadd_base)' <=> Doubled(loopadd_base)
    BY <1>4 DEF Doubled, timerVars, search, guess
  <2>2. Doubled(loopadd)' <=> Doubled(loopadd)
    BY <1>4 DEF Doubled, timerVars, search, guess
  <2>3. BandsGrow' /\ StepsHalve' /\ Bracketed'
    BY <1>4, <2>1, <2>2
       DEF Close, BandsGrow, StepsHalve, Bracketed, Searching, Accepted, timerVars, search, guess, use, nature
  <2>4. Accurate' /\ DelayAsAsked'
    BY <1>4 DEF Close, Accurate, DelayAsAsked, Sound, Tolerance, timerVars, search, guess, use, nature
  <2> QED BY <2>3, <2>4 DEF Close
<1> QED BY <1>1, <1>2, <1>3, <1>4, TrialClose, SearchClose, TestClose, FoundClose, UsefulClose
        DEF TimerNext, Statement

\* A delay lasts as long as was asked for, up to the precision of the search and
\* the rounding, on every machine whose rounds of a quarter of a second fit into a
\* word, and however the trials before the search were interrupted.
THEOREM DelaysAreAsAsked == CalibrationSetting => (TimerSpec => []DelayAsAsked)
<1> SUFFICES ASSUME CalibrationSetting PROVE TimerSpec => []DelayAsAsked
  OBVIOUS
<1>1. TimerInit => InTick /\ Close
  BY InitFits, InitClose
<1>2. InTick /\ Close /\ [TimerNext]_timerVars => (InTick /\ Close)'
  BY StepFits, StepClose
<1>3. Close => DelayAsAsked
  BY DEF Close
<1> QED BY <1>1, <1>2, <1>3, PTL DEF TimerSpec

-----------------------------------------------------------------------------
(* The dining philosophers *)

USE TasksAssumption, NumOpAssumption

\* The condition by which the program finds the last philosopher.
LEMMA LastOne ==
  ASSUME NEW k \in Nat, k >= 2, NEW p \in 1 .. k
  PROVE  (p + 1) % k = 1 <=> p = k
<1>1. CASE p = k
  <2>1. (k + 1) % k = 1
    OBVIOUS
  <2> QED BY <1>1, <2>1
<1>2. CASE p = k - 1
  <2>1. k % k = 0
    OBVIOUS
  <2> QED BY <1>2, <2>1
<1>3. CASE p < k - 1
  <2>1. (p + 1) % k = p + 1
    BY <1>3
  <2> QED BY <1>3, <2>1
<1> QED BY <1>1, <1>2, <1>3

\* The last philosopher takes fork 1 before its own, so that everyone takes the
\* fork of the lower number first: the else branch of Set_PID.
LEMMA ForksInOrder ==
  ASSUME n \in Nat, n >= 2, NEW p \in 1 .. n
  PROVE  /\ ForksOf(p)[1] \in Forks /\ ForksOf(p)[2] \in Forks
         /\ ForksOf(p)[1] < ForksOf(p)[2]
<1>1. CASE p = n
  <2>1. ForksOf(p) = <<1, p>>
    BY <1>1, LastOne DEF ForksOf
  <2> QED BY <1>1, <2>1 DEF Forks
<1>2. CASE p # n
  <2>1. ForksOf(p) = <<p, p + 1>>
    BY <1>2, LastOne DEF ForksOf
  <2> QED BY <1>2, <2>1 DEF Forks
<1> QED BY <1>1, <1>2

-----------------------------------------------------------------------------

\* What a philosopher holds follows from its label: the forks taken so far.
\* Philosophers that were not let go yet, or that the main task has waited for,
\* hold nothing, so that the table can be laid anew.
HeldBy(p) ==
  CASE phil[p] = "second" -> {first[p]}
    [] phil[p] = "releaseFirst" -> {first[p], second[p]}
    [] phil[p] = "releaseSecond" -> {second[p]}
    [] OTHER -> {}

Busy == {"first", "second", "releaseFirst", "releaseSecond"}

SeatsInv ==
  \A p \in Seats :
    /\ held[p] = HeldBy(p)
    /\ phil[p] \in Busy =>
         first[p] \in Forks /\ second[p] \in Forks /\ first[p] < second[p] /\ quota[p] > 0
    /\ main = "seat" => (phil[p] = "setPID" <=> p \in id .. n)
    /\ main = "clear" => phil[p] # "setPID" /\ (p < id => phil[p] = "absent")
    /\ main = "done" => phil[p] = "absent"
    /\ p > n => phil[p] = "absent"

ForksInv ==
  /\ \A p, q \in Seats : p # q => held[p] \cap held[q] = {}
  /\ \A f \in Forks : available[f] <=> \A p \in Seats : f \notin held[p]

TableInv == TypeOK /\ SeatsInv /\ ForksInv

\* The main task has called the philosophers of the first meal, none has a fork.
LEMMA InvInit == Init => TableInv
<1> SUFFICES ASSUME Init PROVE TableInv
  OBVIOUS
<1>1. TypeOK
  BY DEF Init, TypeOK, Seated, Laid, Forks, Seats
<1>2. SeatsInv
  BY DEF Init, SeatsInv, HeldBy, Busy, Seated, Seats
<1>3. ForksInv
  BY DEF Init, ForksInv, Laid, Forks
<1> QED BY <1>1, <1>2, <1>3 DEF TableInv

\* The rendezvous of the main task with philosopher id.
LEMMA SetPIDKeeps == TableInv /\ SetPID => TableInv'
<1> SUFFICES ASSUME TableInv, SetPID PROVE TableInv'
  OBVIOUS
<1> USE DEF TableInv
<1>1. id \in 1 .. n /\ id \in Seats /\ n \in Nat /\ n >= 2 /\ n <= MaxTask
  BY DEF TypeOK, Forks, Seats
<1>2. /\ ForksOf(id)[1] \in Forks /\ ForksOf(id)[2] \in Forks
      /\ ForksOf(id)[1] < ForksOf(id)[2]
  BY <1>1, ForksInOrder
<1>3. TypeOK'
  <2>1. n' = n /\ main' \in {"seat", "clear", "done"} /\ id' \in 1 .. n
    BY <1>1 DEF SetPID, TypeOK
  <2>2. phil' \in [Seats -> {"absent", "setPID", "first", "second", "releaseFirst",
                             "releaseSecond", "finish"}]
    BY DEF SetPID, TypeOK
  <2>3. ForksOf(id)[1] \in 0 .. MaxTask /\ ForksOf(id)[2] \in 0 .. MaxTask
    BY <1>1, <1>2 DEF Forks
  <2>4. first' \in [Seats -> 0 .. MaxTask] /\ second' \in [Seats -> 0 .. MaxTask]
    <3> DEFINE a == ForksOf(id)[1]
               b == ForksOf(id)[2]
    <3>1. a \in 0 .. MaxTask /\ b \in 0 .. MaxTask
      BY <2>3
    <3>2. first' = [first EXCEPT ![id] = a] /\ second' = [second EXCEPT ![id] = b]
      BY DEF SetPID
    <3> HIDE DEF a, b
    <3> QED BY <3>1, <3>2 DEF TypeOK
  <2>5. quota' \in [Seats -> 0 .. NumOp]
    <3>1. quota' = [quota EXCEPT ![id] = NumOp] /\ NumOp \in 0 .. NumOp
      BY DEF SetPID
    <3> QED BY <3>1 DEF TypeOK
  <2>6. available' \in [Forks' -> BOOLEAN] /\ held' \in [Seats -> SUBSET (Forks')]
    BY <2>1 DEF SetPID, TypeOK, Forks
  <2>7. n' \in MinTask .. MaxTask /\ id' \in Forks'
    BY <2>1 DEF TypeOK, Forks
  <2>8. main' \in {"seat", "clear", "done"}
    BY <2>1
  <2> HIDE DEF TableInv
  <2> QED BY ONLY <2>2, <2>4, <2>5, <2>6, <2>7, <2>8 DEF TypeOK
<1>4. SeatsInv'
  <2> SUFFICES ASSUME NEW p \in Seats
               PROVE  /\ held'[p] = HeldBy(p)'
                      /\ (phil[p] \in Busy =>
                            first[p] \in Forks /\ second[p] \in Forks /\ first[p] < second[p]
                            /\ quota[p] > 0)'
                      /\ (main = "seat" => (phil[p] = "setPID" <=> p \in id .. n))'
                      /\ (main = "clear" => phil[p] # "setPID" /\ (p < id => phil[p] = "absent"))'
                      /\ (main = "done" => phil[p] = "absent")'
                      /\ (p > n => phil[p] = "absent")'
    BY DEF SeatsInv
  <2>1. CASE p = id
    <3>1. held[p] = {} /\ held' = held
      BY <2>1 DEF SetPID, SeatsInv, HeldBy
    <3>2. phil'[p] = IF NumOp > 0 THEN "first" ELSE "finish"
      BY <2>1 DEF SetPID, TypeOK
    <3>3. first'[p] = ForksOf(id)[1] /\ second'[p] = ForksOf(id)[2] /\ quota'[p] = NumOp
      BY <2>1 DEF SetPID, TypeOK
    <3>4. held'[p] = HeldBy(p)'
      BY <3>1, <3>2 DEF HeldBy
    <3> QED BY <2>1, <3>2, <3>3, <3>4, <1>1, <1>2 DEF SetPID, Busy, Forks, Seats
  <2>2. CASE p # id
    <3>1. phil'[p] = phil[p] /\ first'[p] = first[p] /\ second'[p] = second[p]
          /\ quota'[p] = quota[p] /\ held' = held /\ n' = n
      BY <2>2 DEF SetPID, TypeOK
    <3>2. held'[p] = HeldBy(p)'
      BY <3>1 DEF SeatsInv, HeldBy
    <3>3. (main = "seat" => (phil[p] = "setPID" <=> p \in id .. n))'
      BY <1>1, <2>2, <3>1 DEF SetPID, SeatsInv, Seats
    <3>4. (main = "clear" => phil[p] # "setPID" /\ (p < id => phil[p] = "absent"))'
      BY <1>1, <2>2, <3>1 DEF SetPID, SeatsInv, Seats
    <3> QED BY <3>1, <3>2, <3>3, <3>4 DEF SetPID, SeatsInv, Forks
  <2> QED BY <2>1, <2>2
<1>5. ForksInv'
  BY DEF SetPID, ForksInv, Forks
<1> QED BY <1>3, <1>4, <1>5

\* Between meals: nobody holds a fork when the table is laid for the next ones.
LEMMA FinishMealKeeps == TableInv /\ FinishMeal => TableInv'
<1> SUFFICES ASSUME TableInv, FinishMeal PROVE TableInv'
  OBVIOUS
<1> USE DEF TableInv
<1>1. id \in 1 .. n /\ id \in Seats /\ n \in Nat /\ n >= 2 /\ n <= MaxTask
  BY DEF TypeOK, Forks, Seats
<1>2. held' = held
  BY DEF FinishMeal
<1>3. CASE id < n
  <2>1. /\ id' = id + 1 /\ phil' = [phil EXCEPT ![id] = "absent"]
        /\ UNCHANGED <<n, main, available, first, second, quota, held>> /\ main = "clear"
        /\ phil[id] = "finish"
    BY <1>3 DEF FinishMeal
  <2>2. TypeOK'
    BY <1>1, <1>3, <2>1 DEF TypeOK, Forks, Seats
  <2>3. SeatsInv'
    <3> SUFFICES ASSUME NEW p \in Seats
                 PROVE  /\ held'[p] = HeldBy(p)'
                        /\ (phil[p] \in Busy =>
                              first[p] \in Forks /\ second[p] \in Forks /\ first[p] < second[p]
                              /\ quota[p] > 0)'
                        /\ (main = "seat" => (phil[p] = "setPID" <=> p \in id .. n))'
                        /\ (main = "clear" =>
                              phil[p] # "setPID" /\ (p < id => phil[p] = "absent"))'
                        /\ (main = "done" => phil[p] = "absent")'
                        /\ (p > n => phil[p] = "absent")'
      BY DEF SeatsInv
    <3>1. phil'[p] = IF p = id THEN "absent" ELSE phil[p]
      BY <1>1, <2>1 DEF TypeOK
    <3>2. held'[p] = held[p] /\ first'[p] = first[p] /\ second'[p] = second[p]
      BY <2>1
    <3>3. held[p] = HeldBy(p)
      BY DEF SeatsInv
    <3>4. ASSUME p = id PROVE held'[p] = HeldBy(p)'
      BY <2>1, <3>1, <3>2, <3>3, <3>4 DEF HeldBy
    <3>5. ASSUME p # id PROVE held'[p] = HeldBy(p)'
      BY <3>1, <3>2, <3>3, <3>5 DEF HeldBy
    <3>6. held'[p] = HeldBy(p)'
      BY <3>4, <3>5
    <3> QED BY <1>1, <2>1, <3>1, <3>6 DEF SeatsInv, Busy, Forks, Seats
  <2>4. ForksInv'
    BY <2>1 DEF ForksInv, Forks
  <2> QED BY <2>2, <2>3, <2>4
<1>4. CASE ~(id < n)
  <2>1. id = n /\ id' = 1 /\ main = "clear" /\ phil[id] = "finish"
    BY <1>1, <1>4 DEF FinishMeal
  <2>2. ASSUME NEW p \in Seats PROVE p # n => phil[p] = "absent"
    BY <1>1, <2>1 DEF SeatsInv, Seats
  <2>3. ASSUME NEW p \in Seats PROVE held[p] = {}
    BY <2>1, <2>2 DEF SeatsInv, HeldBy
  <2>4. CASE n < MaxTask
    <3>1. /\ n' = n + 1 /\ main' = "seat" /\ phil' = Seated(n + 1) /\ available' = Laid(n + 1)
          /\ UNCHANGED <<first, second, quota, held>>
      BY <1>4, <2>4 DEF FinishMeal
    <3>2. TypeOK'
      <4>1. n' \in MinTask .. MaxTask /\ main' = "seat" /\ id' \in Forks'
        BY <1>1, <2>1, <2>4, <3>1 DEF TypeOK, Forks
      <4>2. phil' \in [Seats -> {"absent", "setPID", "first", "second", "releaseFirst",
                                 "releaseSecond", "finish"}]
        BY <3>1 DEF Seated
      <4>3. available' \in [Forks' -> BOOLEAN]
        BY <3>1 DEF Laid, Forks
      <4>4. held' \in [Seats -> SUBSET (Forks')]
        BY <3>1, <2>3 DEF TypeOK
      <4> QED BY <4>1, <4>2, <4>3, <4>4, <3>1 DEF TypeOK
    <3>3. SeatsInv'
      <4> SUFFICES ASSUME NEW p \in Seats
                   PROVE  /\ held'[p] = HeldBy(p)'
                          /\ phil'[p] \notin Busy
                          /\ phil'[p] = "setPID" <=> p \in id' .. n'
                          /\ main' = "seat"
                          /\ p > n' => phil'[p] = "absent"
        BY DEF SeatsInv
      <4>1. phil'[p] = IF p <= n + 1 THEN "setPID" ELSE "absent"
        BY <3>1 DEF Seated
      <4>2. held'[p] = HeldBy(p)'
        BY <2>3, <3>1, <4>1 DEF HeldBy
      <4> QED BY <1>1, <2>1, <3>1, <4>1, <4>2 DEF Busy, Seats
    <3>4. ForksInv'
      BY <2>3, <3>1 DEF ForksInv, Forks, Laid
    <3> QED BY <3>2, <3>3, <3>4
  <2>5. CASE ~(n < MaxTask)
    <3>1. /\ main' = "done" /\ phil' = [phil EXCEPT ![id] = "absent"]
          /\ UNCHANGED <<n, available, first, second, quota, held>>
      BY <1>4, <2>5 DEF FinishMeal
    <3>2. TypeOK'
      BY <1>1, <2>1, <3>1 DEF TypeOK, Forks
    <3>3. ASSUME NEW p \in Seats PROVE phil'[p] = "absent"
      BY <2>1, <2>2, <3>1 DEF TypeOK
    <3>4. SeatsInv'
      BY <2>3, <3>1, <3>3 DEF SeatsInv, HeldBy, Busy
    <3>5. ForksInv'
      BY <3>1 DEF ForksInv, Forks
    <3> QED BY <3>2, <3>4, <3>5
  <2> QED BY <2>4, <2>5
<1> QED BY <1>3, <1>4

-----------------------------------------------------------------------------
(* The philosophers *)

\* A fork on the table is taken: the case of AcquireFirst and AcquireSecond.
LEMMA AcquireKeeps ==
  ASSUME TableInv, NEW p \in Seats, NEW f \in Forks, NEW there, Acquire(p, f, there)
  PROVE  ForksInv' /\ held'[p] = held[p] \cup {f}
         /\ \A q \in Seats : q # p => held'[q] = held[q]
<1> USE DEF TableInv
<1>1. \A q \in Seats : held'[q] = IF q = p THEN held[p] \cup {f} ELSE held[q]
  BY DEF Acquire, TypeOK
<1>2. \A g \in Forks : available'[g] = IF g = f THEN FALSE ELSE available[g]
  BY DEF Acquire, TypeOK
<1>3. n' = n /\ \A q \in Seats : f \notin held[q]
  BY DEF Acquire, ForksInv
<1>4. ForksInv'
  <2>1. \A q, r \in Seats : q # r => held'[q] \cap held'[r] = {}
    BY <1>1, <1>3 DEF ForksInv
  <2>2. ASSUME NEW g \in Forks
        PROVE  available'[g] <=> \A q \in Seats : g \notin held'[q]
    BY <1>1, <1>2 DEF ForksInv
  <2> QED BY <2>1, <2>2, <1>3 DEF ForksInv, Forks
<1> QED BY <1>1, <1>4

\* A fork is put back: the case of ReleaseFirst and ReleaseSecond.
LEMMA ReleaseKeeps ==
  ASSUME TableInv, NEW p \in Seats, NEW f \in Forks, f \in held[p], Release(p, f)
  PROVE  ForksInv' /\ held'[p] = held[p] \ {f}
         /\ \A q \in Seats : q # p => held'[q] = held[q]
<1> USE DEF TableInv
<1>1. \A q \in Seats : held'[q] = IF q = p THEN held[p] \ {f} ELSE held[q]
  BY DEF Release, TypeOK
<1>2. \A g \in Forks : available'[g] = IF g = f THEN TRUE ELSE available[g]
  BY DEF Release, TypeOK
<1>3. n' = n /\ \A q \in Seats : q # p => f \notin held[q]
  BY DEF Release, ForksInv
<1>4. ForksInv'
  <2>1. \A q, r \in Seats : q # r => held'[q] \cap held'[r] = {}
    BY <1>1 DEF ForksInv
  <2>2. ASSUME NEW g \in Forks
        PROVE  available'[g] <=> \A q \in Seats : g \notin held'[q]
    <3>1. CASE g = f
      BY <1>1, <1>2, <1>3, <3>1
    <3>2. CASE g # f
      BY <1>1, <1>2, <3>2 DEF ForksInv
    <3> QED BY <3>1, <3>2
  <2> QED BY <2>1, <2>2, <1>3 DEF ForksInv, Forks
<1> QED BY <1>1, <1>4

\* What the others hold and know stays when p takes a step of its own.
LEMMA OthersKeep ==
  ASSUME SeatsInv, NEW p \in Seats, NEW q \in Seats, phil'[q] = phil[q], held'[q] = held[q],
         quota'[q] = quota[q], UNCHANGED <<n, main, id, first, second>>
  PROVE  /\ held'[q] = HeldBy(q)'
         /\ (phil[q] \in Busy =>
               first[q] \in Forks /\ second[q] \in Forks /\ first[q] < second[q] /\ quota[q] > 0)'
         /\ (main = "seat" => (phil[q] = "setPID" <=> q \in id .. n))'
         /\ (main = "clear" => phil[q] # "setPID" /\ (q < id => phil[q] = "absent"))'
         /\ (main = "done" => phil[q] = "absent")'
         /\ (q > n => phil[q] = "absent")'
<1>1. held'[q] = HeldBy(q)'
  BY DEF SeatsInv, HeldBy
<1> QED BY <1>1 DEF SeatsInv, Forks

\* A step of philosopher p: one fork taken or put back.
LEMMA EatKeeps == ASSUME NEW p \in Seats, TableInv, Eat(p) PROVE TableInv'
<1> USE DEF TableInv
<1>1. /\ first[p] \in Forks /\ second[p] \in Forks /\ first[p] < second[p] /\ quota[p] > 0
      /\ phil[p] \in Busy /\ held[p] = HeldBy(p)
  BY DEF Eat, AcquireFirst, AcquireSecond, ReleaseFirst, ReleaseSecond, SeatsInv, Busy
<1>2. UNCHANGED <<n, main, id, first, second>>
  BY DEF Eat, AcquireFirst, AcquireSecond, ReleaseFirst, ReleaseSecond, Acquire, Release
<1>3. n \in Nat /\ n <= MaxTask /\ Forks \subseteq Int
  BY DEF TypeOK, Forks
<1>4. /\ ForksInv' /\ held' \in [Seats -> SUBSET Forks] /\ available' \in [Forks -> BOOLEAN]
      /\ \A q \in Seats : q # p => held'[q] = held[q]
      /\ held'[p] = CASE phil[p] = "first" -> {first[p]}
                      [] phil[p] = "second" -> {first[p], second[p]}
                      [] phil[p] = "releaseFirst" -> {second[p]}
                      [] phil[p] = "releaseSecond" -> {}
  <2>1. CASE AcquireFirst(p)
    <3>1. ForksInv' /\ held'[p] = held[p] \cup {first[p]}
          /\ \A q \in Seats : q # p => held'[q] = held[q]
      BY <1>1, <2>1, AcquireKeeps DEF AcquireFirst
    <3>2. held' \in [Seats -> SUBSET Forks] /\ available' \in [Forks -> BOOLEAN]
      BY <1>1, <2>1 DEF AcquireFirst, Acquire, TypeOK
    <3>3. phil[p] = "first" /\ held[p] = {}
      BY <1>1, <2>1 DEF AcquireFirst, HeldBy
    <3> QED BY <3>1, <3>2, <3>3
  <2>2. CASE AcquireSecond(p)
    <3>1. ForksInv' /\ held'[p] = held[p] \cup {second[p]}
          /\ \A q \in Seats : q # p => held'[q] = held[q]
      BY <1>1, <2>2, AcquireKeeps DEF AcquireSecond
    <3>2. held' \in [Seats -> SUBSET Forks] /\ available' \in [Forks -> BOOLEAN]
      BY <1>1, <2>2 DEF AcquireSecond, Acquire, TypeOK
    <3>3. phil[p] = "second" /\ held[p] = {first[p]}
      BY <1>1, <2>2 DEF AcquireSecond, HeldBy
    <3> QED BY <3>1, <3>2, <3>3
  <2>3. CASE ReleaseFirst(p)
    <3>1. phil[p] = "releaseFirst" /\ held[p] = {first[p], second[p]}
      BY <1>1, <2>3 DEF ReleaseFirst, HeldBy
    <3>2. ForksInv' /\ held'[p] = held[p] \ {first[p]}
          /\ \A q \in Seats : q # p => held'[q] = held[q]
      BY <1>1, <2>3, <3>1, ReleaseKeeps DEF ReleaseFirst
    <3>3. held' \in [Seats -> SUBSET Forks] /\ available' \in [Forks -> BOOLEAN]
      BY <1>1, <2>3 DEF ReleaseFirst, Release, TypeOK
    <3>4. held'[p] = {second[p]}
      <4>1. first[p] # second[p]
        <5>1. first[p] \in Int /\ second[p] \in Int /\ first[p] < second[p]
          BY <1>1, <1>3
        <5> HIDE DEF TableInv
        <5> QED BY ONLY <5>1
      <4>2. {first[p], second[p]} \ {first[p]} = {second[p]}
        BY <4>1
      <4> QED BY <3>1, <3>2, <4>2
    <3> QED BY <3>1, <3>2, <3>3, <3>4
  <2>4. CASE ReleaseSecond(p)
    <3>1. phil[p] = "releaseSecond" /\ held[p] = {second[p]}
      BY <1>1, <2>4 DEF ReleaseSecond, HeldBy
    <3>2. ForksInv' /\ held'[p] = held[p] \ {second[p]}
          /\ \A q \in Seats : q # p => held'[q] = held[q]
      BY <1>1, <2>4, <3>1, ReleaseKeeps DEF ReleaseSecond
    <3>3. held' \in [Seats -> SUBSET Forks] /\ available' \in [Forks -> BOOLEAN]
      BY <1>1, <2>4 DEF ReleaseSecond, Release, TypeOK
    <3> QED BY <3>1, <3>2, <3>3
  <2> QED BY <2>1, <2>2, <2>3, <2>4 DEF Eat
<1>5. /\ phil' \in [Seats -> {"absent", "setPID", "first", "second", "releaseFirst",
                              "releaseSecond", "finish"}]
      /\ quota' \in [Seats -> 0 .. NumOp]
      /\ \A q \in Seats : q # p => phil'[q] = phil[q] /\ quota'[q] = quota[q]
      /\ \/ phil[p] = "first" /\ phil'[p] = "second" /\ quota' = quota
         \/ phil[p] = "second" /\ phil'[p] = "releaseFirst" /\ quota' = quota
         \/ phil[p] = "releaseFirst" /\ phil'[p] = "releaseSecond" /\ quota' = quota
         \/ phil[p] = "releaseSecond" /\ phil'[p] = "first" /\ quota'[p] > 0
         \/ phil[p] = "releaseSecond" /\ phil'[p] = "finish"
  <2>1. CASE AcquireFirst(p) \/ AcquireSecond(p) \/ ReleaseFirst(p)
    BY <2>1 DEF AcquireFirst, AcquireSecond, ReleaseFirst, Acquire, TypeOK
  <2>2. CASE ReleaseSecond(p)
    BY <1>1, <2>2 DEF ReleaseSecond, TypeOK
  <2> QED BY <2>1, <2>2 DEF Eat
<1>6. TypeOK'
  BY <1>2, <1>4, <1>5 DEF TypeOK, Forks
<1>7. SeatsInv'
  <2>1. ASSUME NEW q \in Seats
        PROVE  /\ held'[q] = HeldBy(q)'
               /\ (phil[q] \in Busy =>
                     first[q] \in Forks /\ second[q] \in Forks /\ first[q] < second[q]
                     /\ quota[q] > 0)'
               /\ (main = "seat" => (phil[q] = "setPID" <=> q \in id .. n))'
               /\ (main = "clear" => phil[q] # "setPID" /\ (q < id => phil[q] = "absent"))'
               /\ (main = "done" => phil[q] = "absent")'
               /\ (q > n => phil[q] = "absent")'
    <3>1. CASE q # p
      BY <1>2, <1>4, <1>5, <3>1, OthersKeep
    <3>2. CASE q = p
      <4>1. held'[p] = HeldBy(p)'
        BY <1>2, <1>4, <1>5 DEF HeldBy
      <4>2. phil[p] \notin {"absent", "setPID"} /\ phil'[p] \notin {"absent", "setPID"}
        BY <1>1, <1>5 DEF Busy
      <4>3. (phil[p] \in Busy => first[p] \in Forks /\ second[p] \in Forks
                                 /\ first[p] < second[p] /\ quota[p] > 0)'
        BY <1>1, <1>2, <1>5 DEF Busy, Forks
      <4> QED BY <1>2, <3>2, <4>1, <4>2, <4>3 DEF SeatsInv
    <3> QED BY <3>1, <3>2
  <2> QED BY <2>1 DEF SeatsInv
<1> QED BY <1>4, <1>6, <1>7

-----------------------------------------------------------------------------

\* The invariant is inductive: one case per task of the program.
LEMMA InvNext == TableInv /\ [Next]_vars => TableInv'
<1> SUFFICES ASSUME TableInv, [Next]_vars PROVE TableInv'
  OBVIOUS
<1>1. CASE Main
  BY <1>1, SetPIDKeeps, FinishMealKeeps DEF Main
<1>2. ASSUME NEW p \in Seats, Eat(p) PROVE TableInv'
  BY <1>2, EatKeeps
<1>3. CASE UNCHANGED vars
  BY <1>3 DEF vars, philVars, TableInv, TypeOK, SeatsInv, ForksInv, HeldBy, Forks
<1> QED BY <1>1, <1>2, <1>3 DEF Next

\* So it holds in every reachable state, for all numbers of tasks and of meals.
LEMMA InvAlways == Spec => []TableInv
BY InvInit, InvNext, PTL DEF Spec

\* The labels, forks and counters of the philosophers stay in their ranges, for
\* all numbers of tasks and meals.
THEOREM TableTypeCorrect == Spec => []TypeOK
<1>1. TableInv => TypeOK
  BY DEF TableInv
<1> QED BY <1>1, InvAlways, PTL

\* Acquire and Release keep a fork in the hands of one philosopher, from one
\* table to the next.
THEOREM ForksAreHeld == Spec => []ForksHeld
<1>1. TableInv => ForksHeld
  BY DEF TableInv, SeatsInv, ForksInv, HeldBy, ForksHeld
<1> QED BY <1>1, InvAlways, PTL

\* Set_PID makes everyone, the last philosopher included, take the fork of the
\* lower number first.
THEOREM ForksAreOrdered == Spec => []OrderedForks
<1>1. TableInv => OrderedForks
  BY DEF TableInv, SeatsInv, HeldBy, Busy, OrderedForks
<1> QED BY <1>1, InvAlways, PTL

-----------------------------------------------------------------------------
(* Measurements: a set that counts cycles belongs to the round that started *)
(* it, and the set of a round counts nothing before and nothing but the     *)
(* tasks of this round while it can still be printed.                       *)

Times == [start : Nat, end : Nat, elapsed : Int]
Reports == [cycles : Nat, took : Nat] \cup [elapsed : Nat, took : Nat]

PapiTypes ==
  /\ PapiTypeOK
  /\ clock \in Nat
  /\ thread_time \in [Entries -> Times]
  /\ counted \in [1 .. NrRounds -> Nat]
  /\ took \in Nat
  /\ reports \in Seq(Reports)

\* The rounds that sets are of.
SetsOfRounds ==
  /\ next # "over" => round <= NrRounds
  /\ running <= round
  /\ next \in {"start", "startTsx"} => running < round
  /\ next \in {"setup", "stop"} => eventSet = round
  /\ next \in {"tasks", "end", "endTsx"} => eventSet \in {0, round}

\* What has been counted.
CountedOfRound ==
  /\ \A r \in 1 .. NrRounds : r > round => counted[r] = 0
  /\ next \in {"start", "startTsx", "setup", "tasks"} /\ round <= NrRounds =>
       counted[round] = 0
  /\ next \in {"end", "endTsx", "stop"} /\ running = round => counted[round] = took

\* What has been measured: nothing for the entries other than 0.
TimeOfRound ==
  /\ \A tid \in Entries : tid # 0 => thread_time[tid].start = 0 /\ thread_time[tid].end = 0
  /\ next \in {"startTsx", "setup", "tasks"} => clock = thread_time[0].start
  /\ next = "end" => clock = thread_time[0].start + took
  /\ next \in {"endTsx", "stop", "finish"} =>
       thread_time[0].end = thread_time[0].start + took

PapiInv == PapiTypes /\ SetsOfRounds /\ CountedOfRound /\ TimeOfRound /\ ReportsOfRound

USE NrRoundsAssumption, MaxNrThreadsAssumption, DurationsAssumption, MaxFailuresAssumption

\* Entry 0 is one of them.
LEMMA EntriesRange == Entries \subseteq Nat /\ 0 \in Entries
  BY DEF Entries

\* Before the first round nothing has been measured.
LEMMA PapiInitInv == PapiInit => PapiInv
  BY EntriesRange
     DEF PapiInit, PapiInv, PapiTypes, PapiTypeOK, SetupCalls, Times, Zero, SetsOfRounds,
         CountedOfRound, TimeOfRound, ReportsOfRound

\* PAPI_measure finds the time of the only entry that is used.
LEMMA MeasureIsTook ==
  ASSUME PapiInv, next = "finish"
  PROVE  Measure = took
<1>1. took \in Nat /\ thread_time \in [Entries -> Times]
  BY DEF PapiInv, PapiTypes
<1>2. Elapsed(0) = took
  BY <1>1, EntriesRange DEF PapiInv, TimeOfRound, Elapsed, Times
<1>3. \A tid \in Entries : tid # 0 => Elapsed(tid) = 0
  BY DEF PapiInv, TimeOfRound, Elapsed
<1> DEFINE T == {Elapsed(tid) : tid \in Entries}
           Largest(time) == \A tid \in Entries : Elapsed(tid) <= time
<1>4. took \in T /\ Largest(took)
  BY <1>1, <1>2, <1>3, EntriesRange
<1>5. \A time \in T : Largest(time) => time = took
  <2>1. \A time \in T : time = took \/ time = 0
    BY <1>2, <1>3
  <2>2. \A time : Largest(time) => took <= time
    BY <1>2, EntriesRange
  <2> QED
    BY <1>1, <2>1, <2>2
<1>6. Measure = CHOOSE time \in T : Largest(time)
  BY DEF Measure
<1> HIDE DEF T, Largest
<1> QED
  BY <1>4, <1>5, <1>6

\* What is printed joins what has been printed.
LEMMA PrintedToo ==
  ASSUME PapiTypes, ReportsOfRound, NEW report \in Reports,
         report.took = (IF "cycles" \in DOMAIN report THEN report.cycles ELSE report.elapsed),
         reports' = Append(reports, report)
  PROVE  reports' \in Seq(Reports) /\ ReportsOfRound'
<1>1. reports \in Seq(Reports)
  BY DEF PapiTypes
<1>2. /\ reports' \in Seq(Reports) /\ Len(reports') = Len(reports) + 1
      /\ \A i \in 1 .. Len(reports) : reports'[i] = reports[i]
      /\ reports'[Len(reports) + 1] = report
  BY <1>1, AppendProperties
<1>3. DOMAIN reports = 1 .. Len(reports) /\ DOMAIN reports' = 1 .. Len(reports')
      /\ Len(reports) \in Nat
  BY <1>1, <1>2, LenProperties
<1>4. ASSUME NEW i \in DOMAIN reports'
      PROVE  reports'[i].took = (IF "cycles" \in DOMAIN reports'[i]
                                 THEN reports'[i].cycles ELSE reports'[i].elapsed)
  <2>1. CASE i = Len(reports) + 1
    BY <1>2, <2>1
  <2>2. CASE i # Len(reports) + 1
    <3>1. i \in 1 .. Len(reports)
      BY <1>2, <1>3, <2>2
    <3>2. reports'[i] = reports[i]
      BY <1>2, <3>1
    <3> QED
      BY <1>3, <3>1, <3>2 DEF ReportsOfRound
  <2> QED
    BY <2>1, <2>2
<1> QED
  BY <1>2, <1>4 DEF ReportsOfRound

\* Every call keeps the account of the round.
LEMMA PapiNextInv == PapiInv /\ [PapiNext]_papiVars => PapiInv'
<1> SUFFICES ASSUME PapiInv, [PapiNext]_papiVars
             PROVE  PapiInv'
  OBVIOUS
<1>1. /\ PapiTypes /\ SetsOfRounds /\ CountedOfRound /\ TimeOfRound /\ ReportsOfRound
      /\ 0 \in Entries /\ SetupCalls = 7
  BY EntriesRange DEF PapiInv, SetupCalls
<1> USE DEF PapiTypes, PapiTypeOK
<1>2. ASSUME UNCHANGED reports PROVE ReportsOfRound'
  BY <1>1, <1>2 DEF ReportsOfRound
<1>3. CASE StartTime
  <2>1. /\ next = "start" /\ next' = "startTsx"
        /\ thread_time' \in [Entries -> Times] /\ thread_time'[0].start = clock
        /\ \A tid \in Entries : tid # 0 => thread_time'[tid] = thread_time[tid]
        /\ UNCHANGED <<round, clock, eventSet, setup, running, counted, failures, took, reports>>
    BY <1>1, <1>3 DEF StartTime, Proceed, Times
  <2>2. PapiTypes'
    BY <1>1, <2>1
  <2>3. SetsOfRounds' /\ CountedOfRound' /\ TimeOfRound'
    BY <1>1, <2>1 DEF SetsOfRounds, CountedOfRound, TimeOfRound
  <2> QED
    BY <1>2, <2>1, <2>2, <2>3 DEF PapiInv
<1>4. CASE CreateSet
  <2>1. /\ next = "startTsx" /\ UNCHANGED <<round, measured, running, counted, took, reports>>
        /\ \/ eventSet' = round /\ setup' = 1 /\ next' = "setup"
           \/ eventSet' = 0 /\ setup' = 0 /\ next' = "tasks"
        /\ failures' \in 0 .. MaxFailures
    BY <1>1, <1>4 DEF CreateSet, Succeed, Fail
  <2>2. PapiTypes'
    BY <1>1, <2>1 DEF SetsOfRounds, measured
  <2>3. SetsOfRounds' /\ CountedOfRound' /\ TimeOfRound'
    BY <1>1, <2>1 DEF SetsOfRounds, CountedOfRound, TimeOfRound, measured
  <2> QED
    BY <1>2, <2>1, <2>2, <2>3 DEF PapiInv
<1>5. CASE SetupSet
  <2>1. /\ next = "setup" /\ setup < SetupCalls
        /\ UNCHANGED <<round, measured, eventSet, running, counted, took, reports>>
        /\ \/ setup' = setup + 1 /\ next' = "setup"
           \/ setup' = setup /\ next' = "tasks"
        /\ failures' \in 0 .. MaxFailures
    BY <1>1, <1>5 DEF SetupSet, Succeed, Fail
  <2>2. PapiTypes'
    BY <1>1, <2>1 DEF measured, SetupCalls
  <2>3. SetsOfRounds' /\ CountedOfRound' /\ TimeOfRound'
    BY <1>1, <2>1 DEF SetsOfRounds, CountedOfRound, TimeOfRound, measured
  <2> QED
    BY <1>2, <2>1, <2>2, <2>3 DEF PapiInv
<1>6. CASE StartSet
  <2>1. /\ next = "setup" /\ next' = "tasks"
        /\ UNCHANGED <<round, measured, eventSet, setup, counted, took, reports>>
        /\ running' \in {running, eventSet}
        /\ failures' \in 0 .. MaxFailures
    BY <1>1, <1>6 DEF StartSet, Proceed, Succeed, Fail
  <2>2. PapiTypes'
    BY <1>1, <2>1 DEF measured
  <2>3. SetsOfRounds' /\ CountedOfRound' /\ TimeOfRound'
    BY <1>1, <2>1 DEF SetsOfRounds, CountedOfRound, TimeOfRound, measured
  <2> QED
    BY <1>2, <2>1, <2>2, <2>3 DEF PapiInv
<1>7. CASE RunTasks
  <2>1. PICK time \in Durations :
          /\ took' = time /\ clock' = clock + time
          /\ counted' = [r \in DOMAIN counted |-> counted[r] + (IF r = running THEN time ELSE 0)]
    BY <1>7 DEF RunTasks
  <2>2. /\ next = "tasks" /\ next' = "end"
        /\ UNCHANGED <<round, thread_time, eventSet, setup, running, failures, reports>>
    BY <1>7 DEF RunTasks, Proceed
  <2>3. time \in Nat
    OBVIOUS
  <2>4. /\ counted' \in [1 .. NrRounds -> Nat]
        /\ \A r \in 1 .. NrRounds :
             counted'[r] = counted[r] + (IF r = running THEN time ELSE 0)
    BY <1>1, <2>1, <2>3
  <2>5. PapiTypes'
    BY <1>1, <2>1, <2>2, <2>3, <2>4
  <2>6. SetsOfRounds'
    BY <1>1, <2>2 DEF SetsOfRounds
  <2>7. CountedOfRound'
    BY <1>1, <2>1, <2>2, <2>3, <2>4 DEF SetsOfRounds, CountedOfRound
  <2>8. TimeOfRound'
    BY <1>1, <2>1, <2>2, <2>3 DEF TimeOfRound
  <2> QED
    BY <1>2, <2>2, <2>5, <2>6, <2>7, <2>8 DEF PapiInv
<1>8. CASE EndTime
  <2>1. /\ next = "end" /\ next' = "endTsx"
        /\ thread_time' = [thread_time EXCEPT ![0].end = clock]
        /\ UNCHANGED <<round, clock, eventSet, setup, running, counted, failures, took, reports>>
    BY <1>8 DEF EndTime, Proceed
  <2>2. /\ thread_time' \in [Entries -> Times]
        /\ thread_time'[0].end = clock /\ thread_time'[0].start = thread_time[0].start
        /\ \A tid \in Entries : tid # 0 => thread_time'[tid] = thread_time[tid]
    BY <1>1, <2>1 DEF Times
  <2>3. PapiTypes'
    BY <1>1, <2>1, <2>2
  <2>4. SetsOfRounds' /\ CountedOfRound' /\ TimeOfRound'
    BY <1>1, <2>1, <2>2 DEF SetsOfRounds, CountedOfRound, TimeOfRound
  <2> QED
    BY <1>2, <2>1, <2>3, <2>4 DEF PapiInv
<1>9. CASE ReadSet
  <2>1. /\ next = "endTsx"
        /\ UNCHANGED <<round, measured, eventSet, setup, running, counted, took, reports>>
        /\ \/ eventSet # 0 /\ next' = "stop"
           \/ next' = "finish"
        /\ failures' \in 0 .. MaxFailures
    BY <1>1, <1>9 DEF ReadSet, Succeed, Fail
  <2>2. PapiTypes'
    BY <1>1, <2>1 DEF measured
  <2>3. SetsOfRounds' /\ CountedOfRound' /\ TimeOfRound'
    BY <1>1, <2>1 DEF SetsOfRounds, CountedOfRound, TimeOfRound, measured
  <2> QED
    BY <1>2, <2>1, <2>2, <2>3 DEF PapiInv
<1>10. CASE StopSet
  <2>1. /\ next = "stop" /\ next' = "finish"
        /\ UNCHANGED <<round, measured, eventSet, setup, counted, took>>
        /\ \/ /\ running = eventSet /\ running' = 0
              /\ reports' = Append(reports, [cycles |-> counted[eventSet], took |-> took])
           \/ UNCHANGED <<running, reports>>
        /\ failures' \in 0 .. MaxFailures
    BY <1>1, <1>10 DEF StopSet, Proceed, Succeed, Fail
  <2>2. eventSet = round /\ round \in 1 .. NrRounds
    BY <1>1, <2>1 DEF SetsOfRounds
  <2>3. reports' \in Seq(Reports) /\ ReportsOfRound'
    <3>1. CASE UNCHANGED reports
      BY <1>1, <1>2, <3>1
    <3>2. CASE /\ running = eventSet
               /\ reports' = Append(reports, [cycles |-> counted[eventSet], took |-> took])
      <4> DEFINE report == [cycles |-> counted[eventSet], took |-> took]
      <4>1. counted[eventSet] = took
        BY <1>1, <2>1, <2>2, <3>2 DEF CountedOfRound
      <4>2. report \in Reports
        BY <1>1, <4>1 DEF Reports
      <4>3. report.took = (IF "cycles" \in DOMAIN report THEN report.cycles ELSE report.elapsed)
        BY <4>1
      <4> HIDE DEF report
      <4>4. reports' = Append(reports, report)
        BY <3>2 DEF report
      <4> QED
        BY <1>1, <4>2, <4>3, <4>4, PrintedToo
    <3> QED
      BY <2>1, <3>1, <3>2
  <2>4. PapiTypes'
    BY <1>1, <2>1, <2>3 DEF measured
  <2>5. SetsOfRounds' /\ CountedOfRound' /\ TimeOfRound'
    BY <1>1, <2>1, <2>2 DEF SetsOfRounds, CountedOfRound, TimeOfRound, measured
  <2> QED
    BY <2>3, <2>4, <2>5 DEF PapiInv
<1>11. CASE Finish
  <2>1. /\ next = "finish" /\ next' = (IF round < NrRounds THEN "start" ELSE "over")
        /\ thread_time' = [tid \in Entries |-> [thread_time[tid] EXCEPT !.elapsed = Elapsed(tid)]]
        /\ reports' = Append(reports, [elapsed |-> Measure, took |-> took])
        /\ round' = round + 1
        /\ UNCHANGED <<clock, eventSet, setup, running, counted, failures, took>>
    BY <1>11 DEF Finish, Proceed, More
  <2>2. Measure = took
    BY <2>1, MeasureIsTook DEF PapiInv
  <2>3. reports' \in Seq(Reports) /\ ReportsOfRound'
    <3> DEFINE report == [elapsed |-> took, took |-> took]
    <3>1. report \in Reports
      BY <1>1 DEF Reports
    <3>2. report.took = (IF "cycles" \in DOMAIN report THEN report.cycles ELSE report.elapsed)
      OBVIOUS
    <3>3. reports' = Append(reports, report)
      BY <2>1, <2>2
    <3> HIDE DEF report
    <3> QED
      BY <1>1, <3>1, <3>2, <3>3, PrintedToo
  <2>4. /\ thread_time' \in [Entries -> Times]
        /\ \A tid \in Entries : /\ thread_time'[tid].start = thread_time[tid].start
                                /\ thread_time'[tid].end = thread_time[tid].end
    <3>1. thread_time \in [Entries -> Times]
      BY <1>1
    <3>2. \A tid \in Entries : Elapsed(tid) \in Int
      BY <3>1 DEF Times, Elapsed
    <3>3. \A tid \in Entries :
            [thread_time[tid] EXCEPT !.elapsed = Elapsed(tid)] \in Times
      BY <3>1, <3>2 DEF Times
    <3>4. \A tid \in Entries :
            /\ thread_time'[tid] = [thread_time[tid] EXCEPT !.elapsed = Elapsed(tid)]
            /\ thread_time[tid] \in Times
      BY <2>1, <3>1
    <3> QED
      BY <2>1, <3>3, <3>4 DEF Times
  <2>5. /\ round \in 1 .. NrRounds /\ round' \in 1 .. NrRounds + 1
        /\ next' = "start" \/ next' = "over"
        /\ next' # "over" => round < NrRounds
    BY <1>1, <2>1 DEF SetsOfRounds
  <2>6. PapiTypes'
    BY <1>1, <2>1, <2>3, <2>4, <2>5
  <2>7. /\ round' = round + 1 /\ running' = running /\ running <= round /\ running \in Int
        /\ UNCHANGED counted /\ \A r \in 1 .. NrRounds : r > round => counted[r] = 0
    BY <1>1, <2>1 DEF SetsOfRounds, CountedOfRound
  <2>8. SetsOfRounds'
    BY <2>5, <2>7 DEF SetsOfRounds
  <2>9. CountedOfRound'
    BY <2>5, <2>7 DEF CountedOfRound
  <2>10. TimeOfRound'
    BY <1>1, <2>4, <2>5 DEF TimeOfRound
  <2> QED
    BY <2>3, <2>6, <2>8, <2>9, <2>10 DEF PapiInv
<1>12. CASE UNCHANGED papiVars
  BY <1>1, <1>12 DEF papiVars, measured, PapiInv, SetsOfRounds, CountedOfRound, TimeOfRound,
                     ReportsOfRound
<1> QED
  BY <1>3, <1>4, <1>5, <1>6, <1>7, <1>8, <1>9, <1>10, <1>11, <1>12 DEF PapiNext

THEOREM PapiInvariance == PapiSpec => []PapiInv
  BY PapiInitInv, PapiNextInv, PTL DEF PapiSpec

\* The state of the measurements keeps its types: no more calls fail than may,
\* and a set is one of a round.
THEOREM PapiTypeCorrect == PapiSpec => []PapiTypeOK
<1>1. PapiInv => PapiTypeOK
  BY DEF PapiInv, PapiTypes
<1> QED
  BY <1>1, PapiInvariance, PTL

\* For any number of rounds and of calls of PAPI that fail, whatever is printed
\* in a round is of this round.
THEOREM ReportsAreOfTheirRound == PapiSpec => []ReportsOfRound
<1>1. PapiInv => ReportsOfRound
  BY DEF PapiInv
<1> QED
  BY <1>1, PapiInvariance, PTL
=============================================================================
