------------------------------- MODULE Elision -------------------------------
(***************************************************************************)
(* Lock elision for protected objects in the Ada run-time system           *)
(* (benchmark/tsx/GNARL_patch): a task runs a protected operation as a     *)
(* hardware transaction that has looked at the shadow lock TSX_Lock, or,   *)
(* after failed attempts, under the shadow lock and the mutex.             *)
(*                                                                         *)
(* The transactional memory is the processor's: a transaction's stores are *)
(* kept from the others until it ends, and it is rolled back as soon as    *)
(* another task accesses what it has stored or stores what it has loaded.  *)
(* A protected procedure increments two words, a protected function loads  *)
(* them.                                                                   *)
(***************************************************************************)
EXTENDS Integers, FiniteSets, Functions

CONSTANTS
  Writers, Readers,  \* tasks that call the procedure, or the function
  NrCalls,           \* calls of each task
  RetryMaxCount      \* Retry_Max_Count

VARIABLES
  pc,         \* label of the next statement of each task
  TSX_Lock,   \* the shadow lock
  mutex,      \* the task that holds L.WO
  mem,        \* the two words of the object
  active,     \* tasks inside a transaction
  loads,      \* what each transaction has loaded
  stores,     \* what each transaction has stored: a partial function
  status,     \* State, the flags of the last abort
  tries,      \* loop variable i
  calls,      \* calls left
  seen        \* what a function has loaded

memoryVars == <<TSX_Lock, mutex, mem>>
txVars == <<active, loads, stores, status>>
vars == <<pc, memoryVars, txVars, tries, calls, seen>>

Tasks == Writers \cup Readers
NoTask == "none"
Words == {"x", "y"}
Shadow == "TSX_Lock"
Nothing == [w \in {} |-> 0]

\* What a conflict, or the processor for reasons of its own, reports.  RETRY is
\* never set together with EXPLICIT.
ConflictFlags == {{"conflict"}, {"conflict", "retry"}}
OtherFlags == {{}, {"capacity"}}

Init ==
  /\ pc = [t \in Tasks |-> "begin"]
  /\ TSX_Lock = 0 /\ mutex = NoTask
  /\ mem = [w \in Words |-> 0]
  /\ active = {}
  /\ loads = [t \in Tasks |-> {}]
  /\ stores = [t \in Tasks |-> Nothing]
  /\ status = [t \in Tasks |-> {}]
  /\ tries = [t \in Tasks |-> 0]
  /\ calls = [t \in Tasks |-> NrCalls]
  /\ seen = [t \in Tasks |-> Nothing]

-----------------------------------------------------------------------------
(* Transactions *)

\* Those that an access of t to word w rolls back.
Victims(t, w, store) ==
  {u \in active \ {t} : w \in DOMAIN stores[u] \/ (store /\ w \in loads[u])}

\* Tasks in set are rolled back, the others of the transactions stay; pcAfter is
\* pc after the step for the rest of the tasks.
RollBack(set, pcAfter, more) ==
  /\ pc' = [u \in Tasks |-> IF u \in set THEN "aborted" ELSE pcAfter[u]]
  /\ active' = (active \cup more) \ set
  /\ \E flags \in ConflictFlags :
       status' = [u \in Tasks |-> IF u \in set THEN flags ELSE status[u]]

Goto(t, there) == [pc EXCEPT ![t] = there]

\* A load or store of t.  In a transaction it is remembered.
Loaded(t, w, set) ==
  loads' = [u \in Tasks |-> IF u \in set THEN {}
                            ELSE IF u = t /\ t \in active THEN loads[u] \cup {w}
                            ELSE loads[u]]

Load(t, w, there) ==
  LET set == Victims(t, w, FALSE)
  IN  /\ RollBack(set, Goto(t, there), {})
      /\ Loaded(t, w, set)
      /\ stores' = [u \in Tasks |-> IF u \in set THEN Nothing ELSE stores[u]]

\* The store itself: visible at once, or at the end of the transaction.
Store(t, w, v, there) ==
  LET set == Victims(t, w, TRUE)
  IN  /\ RollBack(set, Goto(t, there), {})
      /\ loads' = [u \in Tasks |-> IF u \in set THEN {} ELSE loads[u]]
      /\ stores' = [u \in Tasks |->
                      IF u \in set THEN Nothing
                      ELSE IF u = t /\ t \in active
                           THEN [a \in DOMAIN stores[t] \cup {w} |->
                                   IF a = w THEN v ELSE stores[t][a]]
                      ELSE stores[u]]
      /\ mem' = IF t \in active THEN mem ELSE [mem EXCEPT ![w] = v]

\* The value t loads from word w.
Value(t, w) == IF w \in DOMAIN stores[t] THEN stores[t][w] ELSE mem[w]

\* A store to the shadow lock, which no transaction stores to.
StoreShadow(t, v, there) ==
  LET set == Victims(t, Shadow, TRUE)
  IN  /\ RollBack(set, Goto(t, there), {})
      /\ loads' = [u \in Tasks |-> IF u \in set THEN {} ELSE loads[u]]
      /\ stores' = [u \in Tasks |-> IF u \in set THEN Nothing ELSE stores[u]]
      /\ TSX_Lock' = v

\* Interrupts and full caches end a transaction as well.
Interrupt(t) ==
  /\ t \in active
  /\ pc' = Goto(t, "aborted")
  /\ active' = active \ {t}
  /\ loads' = [loads EXCEPT ![t] = {}]
  /\ stores' = [stores EXCEPT ![t] = Nothing]
  /\ \E flags \in OtherFlags : status' = [status EXCEPT ![t] = flags]
  /\ seen' = [seen EXCEPT ![t] = Nothing]
  /\ UNCHANGED <<memoryVars, tries, calls>>

-----------------------------------------------------------------------------
(* Write_Lock and Read_Lock *)

\* XBegin = XBegin_Started
XBegin(t) ==
  /\ pc[t] = "begin"
  /\ pc' = Goto(t, "check")
  /\ active' = active \cup {t}
  /\ tries' = [tries EXCEPT ![t] = @ + 1]
  /\ seen' = [seen EXCEPT ![t] = Nothing]
  /\ UNCHANGED <<memoryVars, loads, stores, status, calls>>

\* Wrong variant of CheckFree: the shadow lock is not looked at.
CheckFreeNot(t) ==
  /\ pc[t] = "check"
  /\ pc' = Goto(t, "first")
  /\ UNCHANGED <<memoryVars, txVars, tries, calls, seen>>

\* if L.TSX_Lock = 0 then ... return
CheckFree(t) ==
  /\ pc[t] = "check" /\ TSX_Lock = 0
  /\ Load(t, Shadow, "first")
  /\ UNCHANGED <<memoryVars, tries, calls, seen>>

\* else XAbort, with the code 16#ff#
XAbort(t) ==
  /\ pc[t] = "check" /\ TSX_Lock # 0
  /\ pc' = Goto(t, "aborted")
  /\ active' = active \ {t}
  /\ status' = [status EXCEPT ![t] = {"explicit"}]
  /\ UNCHANGED <<memoryVars, loads, stores, tries, calls, seen>>

\* Whether the attempts are given up: the two exit statements of Write_Lock and
\* the one of Read_Lock.
GivesUp(t) ==
  IF t \in Writers THEN "capacity" \in status[t] \/ "retry" \notin status[t]
  ELSE "retry" \notin status[t] /\ "capacity" \notin status[t]

Aborted(t) ==
  /\ pc[t] = "aborted"
  /\ pc' = Goto(t, IF GivesUp(t) THEN "acquire" ELSE "untilFree")
  /\ seen' = [seen EXCEPT ![t] = Nothing]
  /\ UNCHANGED <<memoryVars, txVars, tries, calls>>

\* Until_Free, and the control of the loop 0 .. Retry_Max_Count
UntilFree(t) ==
  /\ pc[t] = "untilFree" /\ TSX_Lock = 0
  /\ pc' = Goto(t, IF tries[t] <= RetryMaxCount THEN "begin" ELSE "acquire")
  /\ UNCHANGED <<memoryVars, txVars, tries, calls, seen>>

\* Until_Acquire: Lock_Test_And_Set (L.TSX_Lock'Address, 1)
Acquire(t) ==
  /\ pc[t] = "acquire"
  /\ StoreShadow(t, 1, IF TSX_Lock = 0 THEN "mutex" ELSE "wait")
  /\ UNCHANGED <<mutex, mem, tries, calls, seen>>

\* Wait
Wait(t) ==
  /\ pc[t] = "wait" /\ TSX_Lock = 0
  /\ pc' = Goto(t, "acquire")
  /\ UNCHANGED <<memoryVars, txVars, tries, calls, seen>>

\* pthread_mutex_lock
LockMutex(t) ==
  /\ pc[t] = "mutex" /\ mutex = NoTask
  /\ pc' = Goto(t, "first")
  /\ mutex' = t
  /\ UNCHANGED <<TSX_Lock, mem, txVars, tries, calls, seen>>

-----------------------------------------------------------------------------
(* The protected operation: two words, one after the other *)

Touch(t, here, w, there) ==
  /\ pc[t] = here
  /\ IF t \in Writers
     THEN /\ Store(t, w, Value(t, w) + 1, there)
          /\ UNCHANGED seen
     ELSE /\ Load(t, w, there)
          /\ seen' = [seen EXCEPT ![t] = [a \in DOMAIN seen[t] \cup {w} |->
                                           IF a = w THEN Value(t, w) ELSE seen[t][a]]]
          /\ UNCHANGED mem
  /\ UNCHANGED <<TSX_Lock, mutex, tries, calls>>

First(t) == Touch(t, "first", "x", "second")
Second(t) == Touch(t, "second", "y", "unlock")

-----------------------------------------------------------------------------
(* Unlock *)

\* The next call of the task
NextCall(t) ==
  /\ calls' = [calls EXCEPT ![t] = @ - 1]
  /\ tries' = [tries EXCEPT ![t] = 0]
AfterCall(t) == IF calls[t] > 1 THEN "begin" ELSE "done"

\* TSX_Lock = 0 and then XTest = 1: XEnd, the stores become visible at once.
XEnd(t) ==
  /\ pc[t] = "unlock" /\ TSX_Lock = 0 /\ t \in active
  /\ pc' = Goto(t, AfterCall(t))
  /\ active' = active \ {t}
  /\ mem' = [w \in Words |-> Value(t, w)]
  /\ loads' = [loads EXCEPT ![t] = {}]
  /\ stores' = [stores EXCEPT ![t] = Nothing]
  /\ NextCall(t)
  /\ UNCHANGED <<TSX_Lock, mutex, status, seen>>

\* pthread_mutex_unlock; in a transaction it would end that
UnlockMutex(t) ==
  /\ pc[t] = "unlock" /\ ~(TSX_Lock = 0 /\ t \in active)
  /\ pc' = Goto(t, "release")
  /\ mutex' = NoTask
  /\ UNCHANGED <<TSX_Lock, mem, txVars, tries, calls, seen>>

\* Lock_Release
Release(t) ==
  /\ pc[t] = "release"
  /\ StoreShadow(t, 0, AfterCall(t))
  /\ NextCall(t)
  /\ UNCHANGED <<mutex, mem, seen>>

Step(t) ==
  \/ XBegin(t) \/ CheckFree(t) \/ XAbort(t) \/ Aborted(t) \/ UntilFree(t)
  \/ Acquire(t) \/ Wait(t) \/ LockMutex(t)
  \/ First(t) \/ Second(t)
  \/ XEnd(t) \/ UnlockMutex(t) \/ Release(t)

Next == \E t \in Tasks : Step(t) \/ Interrupt(t)

Spec == Init /\ [][Next]_vars

\* The operating system schedules every task again and again.
FairSpec == Spec /\ \A t \in Tasks : WF_vars(Step(t))

-----------------------------------------------------------------------------

Labels == {"begin", "check", "aborted", "untilFree", "acquire", "wait", "mutex",
           "first", "second", "unlock", "release", "done"}
Flags == ConflictFlags \cup OtherFlags \cup {{"explicit"}}

TypeOK ==
  /\ pc \in [Tasks -> Labels]
  /\ TSX_Lock \in {0, 1} /\ mutex \in Tasks \cup {NoTask}
  /\ mem \in [Words -> Nat]
  /\ active \subseteq Tasks
  /\ loads \in [Tasks -> SUBSET (Words \cup {Shadow})]
  /\ \A t \in Tasks : DOMAIN stores[t] \subseteq Words /\ Range(stores[t]) \subseteq Nat
  /\ status \in [Tasks -> Flags]
  /\ tries \in [Tasks -> 0 .. RetryMaxCount + 1]
  /\ calls \in [Tasks -> 0 .. NrCalls]
  /\ \A t \in Tasks : DOMAIN seen[t] \subseteq Words /\ Range(seen[t]) \subseteq Nat

Inside(t) == pc[t] \in {"first", "second", "unlock"}
Holds(t) == Inside(t) /\ t \notin active

\* Elided and locked operations exclude each other: while a task is inside under
\* the lock, nobody else is, be it in a transaction or not; and the mutex below
\* the shadow lock is always free for the one that comes to it.
ElisionExcludes ==
  /\ \A t, u \in Tasks : t # u /\ Holds(t) => ~Inside(u)
  /\ \A t \in Tasks : pc[t] = "mutex" => mutex = NoTask

\* The calls of t whose operation is complete.
Done(t) == NrCalls - calls[t] + (IF pc[t] = "release" THEN 1 ELSE 0)

\* The calls of the procedure whose operation is complete.
Completed == {c \in Writers \X (1 .. NrCalls) : c[2] <= Done(c[1])}

\* No call is lost or done twice, and functions see the object whole: never one
\* word before and the other after a procedure.
CallsAtomic ==
  /\ (\A t \in Tasks : ~Holds(t)) => \A w \in Words : mem[w] = Cardinality(Completed)
  /\ \A t \in Readers : Words = DOMAIN seen[t] => seen[t]["x"] = seen[t]["y"]
=============================================================================
