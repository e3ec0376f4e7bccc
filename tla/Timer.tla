-------------------------------- MODULE Timer --------------------------------
(***************************************************************************)
(* common/timer/timer_x86.cpp: calibrate_delay counts how many rounds of a *)
(* busy loop fit into one tick of times(), and useful_work_us/ns use that  *)
(* number to spend time inside and outside critical sections.              *)
(*                                                                         *)
(* Time is counted in rounds of the busy loop: a tick lasts jiffy rounds,  *)
(* `elapsed' is the time since the beginning of the tick in which `ticks'  *)
(* was last read, and calls of times() take no time.  The operating system *)
(* may take the processor away at any moment, a bounded number of times.   *)
(***************************************************************************)
EXTENDS Integers

CONSTANTS
  Jiffies,        \* rounds of delay_loop in a tick, on different machines
  FirstGuess,     \* 1 << 12, of lpj
  Precision,      \* 1 << LPS_PREC, that is 1 << 8
  MaxInterrupts,  \* how often the thread is interrupted (bounds the model)
  Interruptions,  \* how long an interruption may last
  Calibrates,     \* whether the driver calls calibrate_delay
  HZ,             \* ticks per second, a multiple of 4
  WordSize,       \* 2^32, the operands of mull
  PerSecond       \* units of useful_work_* in one second

ASSUME JiffiesAssumption == Jiffies \subseteq Nat \ {0}
ASSUME FirstGuessAssumption == FirstGuess \in Nat \ {0}
ASSUME PrecisionAssumption == Precision \in Nat \ {0}
ASSUME InterruptionsAssumption == Interruptions \subseteq Nat
ASSUME MaxInterruptsAssumption == MaxInterrupts \in Nat
ASSUME CalibratesAssumption == Calibrates \in BOOLEAN
ASSUME HZAssumption == HZ \in Nat
ASSUME WordSizeAssumption == WordSize \in Nat \ {0}
ASSUME PerSecondAssumption == PerSecond \in Nat \ {0}

VARIABLES
  jiffy,           \* what calibrate_delay is to find out
  at,              \* the next statement
  lpj, lpj_base, loopadd, loopadd_base, chop_limit,
  trial, band, trial_in_band,
  loops_per_jiffy, \* the result, a global variable
  elapsed,
  interrupts,      \* how often the thread was interrupted
  disturbed,       \* history: also since the label recalibrate
  asked, loops     \* the argument of useful_work_*, and the rounds it makes

search == <<lpj, lpj_base, loopadd, loopadd_base, chop_limit>>
guess == <<trial, band, trial_in_band>>
use == <<jiffy, loops_per_jiffy, asked, loops>>
nature == <<interrupts, disturbed>>
timerVars == <<at, search, guess, use, nature, elapsed>>

Goto(here, there) == at = here /\ at' = there

TimerInit ==
  /\ jiffy \in Jiffies
  /\ at = IF Calibrates THEN "align" ELSE "use"
  /\ lpj = FirstGuess
  /\ lpj_base = 0 /\ loopadd = 0 /\ loopadd_base = 0 /\ chop_limit = 0
  /\ trial = 0 /\ band = 0 /\ trial_in_band = 0
  /\ loops_per_jiffy = 0
  /\ elapsed = 0
  /\ interrupts = 0 /\ disturbed = FALSE
  /\ asked = 0 /\ loops = 0

\* The thread loses the processor, wherever it is in calibrate_delay.
Interrupt ==
  /\ at \notin {"use", "end"}
  /\ interrupts < MaxInterrupts
  /\ \E time \in Interruptions : elapsed' = elapsed + time
  /\ interrupts' = interrupts + 1
  /\ disturbed' = TRUE
  /\ UNCHANGED <<at, search, guess, use>>

-----------------------------------------------------------------------------
(* calibrate_delay *)

\* ticks == JIFFIES, so long after the beginning of the tick
SameTick(time) == time < jiffy

\* while (ticks == JIFFIES) ; ends as a new tick begins
Await(here, there) ==
  /\ Goto(here, there)
  /\ elapsed' = 0
  /\ UNCHANGED <<search, guess, use, nature>>

\* ticks = JIFFIES; after an interruption it is no longer the tick awaited
Read(here, there) ==
  /\ Goto(here, there)
  /\ elapsed' = elapsed % jiffy
  /\ UNCHANGED <<search, guess, use, nature>>

AwaitFirst == Await("align", "ticks")
ReadFirst == Read("ticks", "trial")

\* The label recalibrate, reached with this lpj_base and this loopadd_base.
Recalibrate(base, step) ==
  /\ at' = "search"
  /\ lpj_base' = base /\ lpj' = base
  /\ loopadd_base' = step /\ loopadd' = step
  /\ chop_limit' = base \div Precision
  /\ disturbed' = FALSE

\* One round of do { .. } while (ticks == JIFFIES).  Bands consist of 1, 2, 4,
\* .. rounds, each of them one first guess longer than those of the band before;
\* the round that did not fit is taken off again.
Trial ==
  LET full == trial_in_band + 1 = 2 ^ band
      wide == IF full THEN band + 1 ELSE band
      time == elapsed + lpj * wide
  IN  /\ at = "trial"
      /\ band' = wide
      /\ trial_in_band' = IF full THEN 0 ELSE trial_in_band + 1
      /\ elapsed' = time
      /\ IF SameTick(time)
         THEN /\ trial' = trial + wide
              /\ UNCHANGED <<at, search, disturbed>>
         ELSE /\ UNCHANGED trial
              /\ Recalibrate(lpj * trial, lpj * wide)
      /\ UNCHANGED <<use, interrupts>>

\* while (loopadd > chop_limit): the next candidate
Search ==
  /\ Goto("search", "edge")
  /\ loopadd > chop_limit
  /\ lpj' = lpj + loopadd
  /\ UNCHANGED <<lpj_base, loopadd, loopadd_base, chop_limit, guess, use, nature, elapsed>>

AwaitTick == Await("edge", "read")
ReadTick == Read("read", "test")

\* Wrong variant of Test: the candidate is kept though it did not fit.
TestKept ==
  /\ Goto("test", "search")
  /\ elapsed' = elapsed + lpj
  /\ loopadd' = loopadd \div 2
  /\ UNCHANGED <<lpj, lpj_base, loopadd_base, chop_limit, guess, use, nature>>

\* Wrong variant of Test: the step is halved only if the candidate fits.
TestUnhalved ==
  /\ Goto("test", "search")
  /\ elapsed' = elapsed + lpj
  /\ lpj' = IF SameTick(elapsed') THEN lpj ELSE lpj - loopadd
  /\ loopadd' = IF SameTick(elapsed') THEN loopadd \div 2 ELSE loopadd
  /\ UNCHANGED <<lpj_base, loopadd_base, chop_limit, guess, use, nature>>

\* delay_loop(lpj), and if (JIFFIES != ticks) lpj -= loopadd
Test ==
  /\ Goto("test", "search")
  /\ elapsed' = elapsed + lpj
  /\ lpj' = IF SameTick(elapsed') THEN lpj ELSE lpj - loopadd
  /\ loopadd' = loopadd \div 2
  /\ UNCHANGED <<lpj_base, loopadd_base, chop_limit, guess, use, nature>>

\* Wrong variant of Found: the search is not repeated.
FoundAtOnce ==
  /\ at = "search"
  /\ loopadd <= chop_limit
  /\ at' = "use" /\ loops_per_jiffy' = lpj
  /\ UNCHANGED <<search, guess, jiffy, asked, loops, nature, elapsed>>

\* Once the steps are small enough: had all candidates fitted, the trials had
\* been disturbed, and the search goes on from here with larger steps.
Found ==
  /\ at = "search"
  /\ loopadd <= chop_limit
  /\ IF lpj + loopadd * 2 = lpj_base + loopadd_base * 2
     THEN Recalibrate(lpj, loopadd_base * 4) /\ UNCHANGED loops_per_jiffy
     ELSE at' = "use" /\ loops_per_jiffy' = lpj /\ UNCHANGED <<search, disturbed>>
  /\ UNCHANGED <<guess, jiffy, asked, loops, interrupts, elapsed>>

-----------------------------------------------------------------------------
(* useful_work_us, useful_work_ns and __const_udelay *)

Word(n) == n % WordSize

\* 0x10c7 and 0x5: 2^32 / 10^6 and 2^32 / 10^9, rounded up
Factor == WordSize \div PerSecond + 1

\* The rounds of delay_loop: the upper half of a product of two words.
Rounds(xloops) ==
  (Word(xloops * 4) * Word(loops_per_jiffy * (HZ \div 4))) \div WordSize + 1

\* The longest delay that can be asked for; beyond it the product wraps around.
Longest == (WordSize - 1) \div (4 * Factor)

UsefulWork ==
  /\ Goto("use", "end")
  /\ asked' \in 1 .. Longest
  /\ loops' = Rounds(asked' * Factor)
  /\ UNCHANGED <<search, guess, jiffy, loops_per_jiffy, nature, elapsed>>

-----------------------------------------------------------------------------

Statement ==
  \/ AwaitFirst \/ ReadFirst \/ Trial
  \/ Search \/ AwaitTick \/ ReadTick \/ Test \/ Found
  \/ UsefulWork

TimerNext == Statement \/ Interrupt

TimerSpec == TimerInit /\ [][TimerNext]_timerVars

\* The thread goes on whenever it has the processor.
FairTimerSpec == TimerSpec /\ WF_timerVars(Statement)

-----------------------------------------------------------------------------

TimerTypeOK ==
  /\ jiffy \in Jiffies
  /\ at \in {"align", "ticks", "trial", "search", "edge", "read", "test", "use", "end"}
  /\ {lpj, lpj_base, loopadd, loopadd_base, chop_limit} \subseteq Nat
  /\ {trial, band, trial_in_band} \subseteq Nat
  /\ {loops_per_jiffy, elapsed, interrupts, asked, loops} \subseteq Nat
  /\ disturbed \in BOOLEAN

\* calibrate_delay never overestimates: whenever the thread was interrupted, as
\* many rounds as it finds fit into less than a tick.
NeverTooLong == at \in {"use", "end"} => loops_per_jiffy < jiffy

\* What the result of an undisturbed search may be short of jiffy.
Tolerance == IF 2 * (jiffy \div Precision) > 1 THEN 2 * (jiffy \div Precision) ELSE 1

\* Whether the last search can be relied upon: no candidate was disturbed, and a
\* guess was made before.  (If the very first trial is disturbed, trial and then
\* chop_limit are 0, the steps become 0 too, the sum that should tell that all
\* candidates fitted is missed by one, and lpj stays below two first guesses.)
Sound == ~disturbed /\ (trial = 0 => jiffy <= 2 * FirstGuess)

\* A delay lasts as long as was asked for ("amount of nsec to perform useful
\* work", drivers), and longer only by what rounding up the factor and the last
\* round add; both up to little more than the precision asked for, if no
\* candidate after the last recalibration was disturbed, whatever happened during
\* the trials before: too small a base is found out and the search is repeated.
DelayAsAsked ==
  at = "end" /\ Sound =>
    /\ loops * PerSecond >= asked * HZ * (jiffy - Tolerance)
    /\ (loops - 1) * WordSize <= asked * Factor * HZ * jiffy

\* calibrate_delay returns: it is repeated with larger steps only as long as the
\* tick is longer than all of them.
Calibrated == <>(at = "end")
=============================================================================
