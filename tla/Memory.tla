-------------------------------- MODULE Memory --------------------------------
(***************************************************************************)
(* The shared memory of the acquire-release builds (the *_ar.cpp files)    *)
(* and of the lock-free Ada queue, as the C++11 memory model gives it to   *)
(* their atomic operations.                                                *)
(*                                                                         *)
(* A location keeps every value that was stored in it, in its modification *)
(* order.  A thread knows of some of them: a load returns any value not    *)
(* older than the newest one it knows of.  A message carries a view, which *)
(* an acquire operation that reads it adds to what its thread knows.       *)
(*                                                                         *)
(* Stores take their place in the modification order as they are executed, *)
(* and no store is executed before a load that precedes it in the program. *)
(***************************************************************************)
EXTENDS Integers, Sequences

VARIABLES
  written,  \* written[l]: what was stored in location l, first to last
  seen      \* seen[t][l]: the newest message of l that thread t knows of

memoryVars == <<written, seen>>

Locations == DOMAIN written

Newest(l) == Len(written[l])

\* Views: a message of every location, by its position; 0 of none.
Nothing == [l \in Locations |-> 0]
Join(v, w) == [l \in Locations |-> IF v[l] >= w[l] THEN v[l] ELSE w[l]]

\* The memory before the threads start, whom thread creation and the barrier
\* let know all of it.
MemoryInit(threads, initial) ==
  /\ written = [l \in DOMAIN initial |->
                  <<[value |-> initial[l], view |-> [k \in DOMAIN initial |-> 0]]>>]
  /\ seen = [t \in threads |-> [l \in DOMAIN initial |-> 1]]

\* Sequential consistency is taken for no more than this, and a consume operation
\* for the acquire operation that compilers make of it.
Acquires(order) == order \in {"consume", "acquire", "acq_rel", "seq_cst"}
Releases(order) == order \in {"release", "acq_rel", "seq_cst"}

\* The positions of the messages of l that a load of thread t may return.
Visible(t, l) == seen[t][l] .. Newest(l)

\* What thread t knows after it has read the n-th message of l.
Learned(t, l, n, order) ==
  LET known == [seen[t] EXCEPT ![l] = n]
  IN  IF Acquires(order) THEN Join(known, written[l][n].view) ELSE known

\* l.load(order), returning the n-th message
Load(t, l, n, order) ==
  /\ n \in Visible(t, l)
  /\ seen' = [seen EXCEPT ![t] = Learned(t, l, n, order)]
  /\ UNCHANGED written

\* l.store(value), letting those who acquire it know of carried as well
StoreCarrying(t, l, value, carried) ==
  LET n == Newest(l) + 1
  IN  /\ written' = [written EXCEPT ![l] =
                       Append(@, [value |-> value, view |-> [carried EXCEPT ![l] = n]])]
      /\ seen' = [seen EXCEPT ![t][l] = n]

\* l.store(value, order)
Store(t, l, value, order) ==
  StoreCarrying(t, l, value, IF Releases(order) THEN seen[t] ELSE Nothing)

\* l.exchange(value, order) and l.fetch_add(): reads the last message, and what
\* that one carried is carried on (a release sequence).
Exchange(t, l, value, order) ==
  LET n == Newest(l)
      known == Learned(t, l, n, order)
      carried == IF Releases(order) THEN known ELSE Nothing
  IN  /\ written' = [written EXCEPT ![l] =
                       Append(@, [value |-> value,
                                  view |-> [Join(written[l][n].view, carried) EXCEPT ![l] = n + 1]])]
      /\ seen' = [seen EXCEPT ![t] = [known EXCEPT ![l] = n + 1]]

\* The value the exchange returns.
Last(l) == written[l][Newest(l)].value
=============================================================================
