------------------------------ MODULE FifoMutex ------------------------------
(***************************************************************************)
(* What the locks with a queue promise (ArrayLock, CLHQueueLock and        *)
(* PO_FIFO_Lock): threads get the lock in the order in which they took     *)
(* their place in the queue, by a single read-modify-write of tail or by   *)
(* the call of the entry.                                                  *)
(***************************************************************************)
EXTENDS Sequences

CONSTANT Threads

VARIABLES
  queue,   \* threads in the order of their places; the holder is first
  held     \* whether the first thread has entered

vars == <<queue, held>>

Init == queue = <<>> /\ held = FALSE

Join(t) ==
  /\ \A i \in DOMAIN queue : queue[i] # t
  /\ queue' = Append(queue, t)
  /\ UNCHANGED held

Grant ==
  /\ queue # <<>> /\ ~held
  /\ held' = TRUE
  /\ UNCHANGED queue

Leave ==
  /\ held
  /\ queue' = Tail(queue)
  /\ held' = FALSE

Next == (\E t \in Threads : Join(t)) \/ Grant \/ Leave

Spec == Init /\ [][Next]_vars

\* The first in the queue enters, and a holder leaves.
Fairness == WF_vars(Grant) /\ WF_vars(Leave)

FairSpec == Spec /\ Fairness
=============================================================================
