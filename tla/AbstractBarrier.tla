--------------------------- MODULE AbstractBarrier ---------------------------
(***************************************************************************)
(* What common/barrier promises its callers: every thread makes the same   *)
(* number of barrier_wait() calls, and no call returns before every        *)
(* participating thread has made its call of the same number.              *)
(***************************************************************************)
EXTENDS Integers

CONSTANTS
  NrThreads,  \* nr_threads given to barrier_init
  NrWaits     \* barrier_wait() calls each thread makes (bounds the model)

VARIABLES
  arrived,    \* arrived[t]: calls thread t has made
  released    \* released[t]: calls of t that have returned

vars == <<arrived, released>>

Threads == 0 .. NrThreads - 1

Init ==
  /\ arrived = [t \in Threads |-> 0]
  /\ released = [t \in Threads |-> 0]

Arrive(t) ==
  /\ released[t] = arrived[t]
  /\ arrived[t] < NrWaits
  /\ arrived' = [arrived EXCEPT ![t] = @ + 1]
  /\ UNCHANGED released

Release(t) ==
  /\ released[t] < arrived[t]
  /\ \A u \in Threads : arrived[u] >= arrived[t]
  /\ released' = [released EXCEPT ![t] = arrived[t]]
  /\ UNCHANGED arrived

Next == \E t \in Threads : Arrive(t) \/ Release(t)

Spec == Init /\ [][Next]_vars

\* A released thread stays released until it calls again, and once everyone
\* has arrived everyone is eventually let go.
Fairness == \A t \in Threads : WF_vars(Arrive(t)) /\ WF_vars(Release(t))

FairSpec == Spec /\ Fairness
=============================================================================
