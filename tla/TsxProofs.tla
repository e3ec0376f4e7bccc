------------------------------- MODULE TsxProofs -------------------------------
(***************************************************************************)
(* Elision for any number of tasks and calls, KMeans for any number of     *)
(* tasks, points and clusters and chunks of any size, and HashTable for    *)
(* tables of any size, any keys and any hash function.                     *)
(*                                                                         *)
(* For Elision everything follows from where the tasks are: what a         *)
(* transaction has loaded and stored (Transactions), what the words of the *)
(* object hold (MemoryIs) and what a function has seen (Views).  One task  *)
(* at a time is critical, no transaction is inside then because its load   *)
(* of the shadow lock is in conflict with the acquisition (Locked), and of *)
(* two transactions that have touched the object neither is a writer's     *)
(* (Apart).                                                                *)
(***************************************************************************)
EXTENDS Elision, KMeans, HashTable, TLAPS, FiniteSetTheorems, WellFoundedInduction

\* The tasks that call the procedure are not infinitely many, and call it.
Setting == IsFiniteSet(Writers) /\ NrCalls \in Nat \ {0} /\ RetryMaxCount \in Nat

\* A task is outside as long as it has touched no word of the object.
Touched(t) ==
  IF pc[t] = "second" THEN {"x"} ELSE IF pc[t] = "unlock" THEN Words ELSE {}

\* From the acquisition of the shadow lock to its release.
Critical(t) == Holds(t) \/ pc[t] \in {"mutex", "release"}

TxTypes ==
  /\ pc \in [Tasks -> Labels]
  /\ TSX_Lock \in {0, 1}
  /\ mem \in [Words -> Nat]
  /\ active \subseteq Tasks
  /\ loads \in [Tasks -> SUBSET (Words \cup {Shadow})]
  /\ DOMAIN stores = Tasks /\ DOMAIN seen = Tasks
  /\ status \in [Tasks -> Flags]
  /\ tries \in [Tasks -> 0 .. RetryMaxCount + 1]
  /\ calls \in [Tasks -> 0 .. NrCalls]

\* No attempt beyond the last, no operation beyond the last call.
Counted ==
  \A t \in Tasks : /\ pc[t] = "begin" => tries[t] <= RetryMaxCount
                   /\ pc[t] # "done" => calls[t] > 0

\* What a transaction has loaded and stored follows from where it is.
Transactions ==
  \A t \in Tasks :
    /\ t \in active => pc[t] = "check" \/ Inside(t)
    /\ pc[t] = "check" => t \in active
    /\ loads[t] = IF t \in active /\ Inside(t)
                  THEN {Shadow} \cup (IF t \in Writers THEN {} ELSE Touched(t)) ELSE {}
    /\ stores[t] = [w \in IF t \in active /\ t \in Writers THEN Touched(t) ELSE {} |-> mem[w] + 1]

\* One task is critical, and then no transaction is inside.
Locked ==
  /\ \A t, u \in Tasks : Critical(t) /\ Critical(u) => t = u
  /\ \A t \in Tasks : Critical(t) => TSX_Lock = 1
  /\ \A t \in active : Inside(t) => TSX_Lock = 0
  /\ mutex # NoTask => mutex \in Tasks /\ Holds(mutex)

\* Two transactions that have touched the object are both of readers.
Apart ==
  \A t, u \in active : t # u /\ Touched(t) # {} /\ Touched(u) # {} => t \notin Writers

\* The words are ahead of the completed calls where the writer under the lock
\* has touched them.
MemoryIs ==
  \A w \in Words :
    mem[w] = Cardinality(Completed)
               + (IF \E t \in Writers : Holds(t) /\ w \in Touched(t) THEN 1 ELSE 0)

\* What a function has seen: nothing before it begins, then what is there.
ViewOf(t) ==
  /\ DOMAIN seen[t] \subseteq Words /\ \A w \in DOMAIN seen[t] : seen[t][w] \in Nat
  /\ t \in Writers \/ pc[t] \in {"check", "untilFree", "acquire", "wait", "mutex", "first"} =>
       DOMAIN seen[t] = {}
  /\ t \notin Writers /\ pc[t] = "second" =>
       DOMAIN seen[t] = {"x"} /\ seen[t]["x"] = mem["x"]
  /\ Words = DOMAIN seen[t] => seen[t]["x"] = seen[t]["y"]

Views == \A t \in Tasks : ViewOf(t)

IInv == TxTypes /\ Counted /\ Transactions /\ Locked /\ Apart /\ MemoryIs /\ Views

-----------------------------------------------------------------------------
(* What a step of t does to the others. *)

Stays(u) ==
  /\ pc'[u] = pc[u] /\ (u \in active' <=> u \in active)
  /\ loads'[u] = loads[u] /\ stores'[u] = stores[u]

RolledBack(u) ==
  /\ u \in active /\ u \notin active' /\ pc'[u] = "aborted"
  /\ loads'[u] = {} /\ stores'[u] = Nothing

Others(t) ==
  \A u \in Tasks \ {t} :
    /\ seen'[u] = seen[u] /\ calls'[u] = calls[u] /\ tries'[u] = tries[u]
    /\ Stays(u) \/ RolledBack(u)

\* The words change only when nobody else has touched one.
Undisturbed(t) == mem' = mem \/ \A u \in Tasks \ {t} : Touched(u) = {}

TransactionOf(t) ==
  /\ t \in active => pc[t] = "check" \/ Inside(t)
  /\ pc[t] = "check" => t \in active
  /\ loads[t] = IF t \in active /\ Inside(t)
                THEN {Shadow} \cup (IF t \in Writers THEN {} ELSE Touched(t)) ELSE {}
  /\ stores[t] = [w \in IF t \in active /\ t \in Writers THEN Touched(t) ELSE {} |-> mem[w] + 1]

CountedOf(t) == /\ pc[t] = "begin" => tries[t] <= RetryMaxCount
                /\ pc[t] # "done" => calls[t] > 0

\* The two words and the shadow lock are three.
LEMMA ThreeWords == Words = {"x", "y"} /\ "x" # "y" /\ Shadow \notin Words
  BY DEF Words, Shadow

\* A task that has touched a word is inside.
LEMMA TouchedInside ==
  ASSUME NEW t
  PROVE  /\ Touched(t) \subseteq Words
         /\ Touched(t) # {} => Inside(t)
         /\ pc[t] \notin {"second", "unlock"} => Touched(t) = {}
  BY DEF Touched, Inside, Words

\* What a task loads: its own store, which is one more than the word.
LEMMA ValueIs ==
  ASSUME TxTypes, Transactions, NEW t \in Tasks, NEW w \in Words
  PROVE  /\ mem[w] \in Nat
         /\ Value(t, w) \in Nat
         /\ Value(t, w) = IF t \in active /\ t \in Writers /\ w \in Touched(t)
                          THEN mem[w] + 1 ELSE mem[w]
<1>1. mem[w] \in Nat
  BY DEF TxTypes
<1>2. stores[t] = [a \in IF t \in active /\ t \in Writers THEN Touched(t) ELSE {} |-> mem[a] + 1]
  BY DEF Transactions
<1> QED
  BY <1>1, <1>2 DEF Value

\* What a roll back leaves.
LEMMA RollBackTypes ==
  ASSUME TxTypes, NEW set, NEW t \in Tasks, NEW there \in Labels, RollBack(set, Goto(t, there), {})
  PROVE  pc' \in [Tasks -> Labels] /\ active' \subseteq Tasks /\ status' \in [Tasks -> Flags]
<1>1. Goto(t, there) \in [Tasks -> Labels] /\ "aborted" \in Labels
  BY DEF TxTypes, Goto, Labels
<1>2. pc' \in [Tasks -> Labels] /\ active' \subseteq Tasks
  BY <1>1 DEF RollBack, TxTypes
<1>3. ConflictFlags \subseteq Flags
  BY DEF Flags
<1>4. status' \in [Tasks -> Flags]
  BY <1>3 DEF RollBack, TxTypes
<1> QED
  BY <1>2, <1>4

\* The types of the next state, one action after the other.
LEMMA TypesNext == Setting /\ IInv /\ [Next]_vars => TxTypes'
<1> SUFFICES ASSUME Setting, IInv, [Next]_vars PROVE TxTypes'
  OBVIOUS
<1>0. TxTypes /\ Transactions /\ Counted
  BY DEF IInv
<1>1. CASE UNCHANGED vars
  BY <1>0, <1>1 DEF TxTypes, vars, memoryVars, txVars
<1>2. ASSUME NEW t \in Tasks, Step(t) \/ Interrupt(t) PROVE TxTypes'
  <2> USE DEF TxTypes, Labels, Flags, ConflictFlags, OtherFlags, memoryVars, txVars, Goto
  <2>0. calls[t] \in 0 .. NrCalls /\ tries[t] \in 0 .. RetryMaxCount + 1
    BY <1>0
  <2>1. CASE XBegin(t)
    <3>1. tries[t] + 1 \in 0 .. RetryMaxCount + 1
      BY <1>0, <2>1 DEF XBegin, Counted, Setting
    <3> QED
      BY <1>0, <2>1, <3>1 DEF XBegin
  <2>2. CASE CheckFree(t)
    BY <1>0, <2>2 DEF CheckFree, Load, RollBack, Loaded
  <2>3. CASE XAbort(t) \/ Aborted(t) \/ UntilFree(t) \/ Wait(t) \/ LockMutex(t) \/ UnlockMutex(t) \/ Interrupt(t)
    BY <1>0, <2>3 DEF XAbort, Aborted, UntilFree, Wait, LockMutex, UnlockMutex, Interrupt
  <2>4. CASE Acquire(t)
    BY <1>0, <2>4 DEF Acquire, StoreShadow, RollBack
  <2>5. CASE XEnd(t)
    <3>1. calls[t] - 1 \in 0 .. NrCalls /\ AfterCall(t) \in Labels /\ 0 \in 0 .. RetryMaxCount + 1
      BY <1>0, <2>0, <2>5 DEF XEnd, Counted, Setting, AfterCall
    <3>2. \A w \in Words : Value(t, w) \in Nat
      BY <1>0, ValueIs
    <3>3. mem' \in [Words -> Nat]
      BY <2>5, <3>2 DEF XEnd
    <3> QED
      BY <1>0, <2>5, <3>1, <3>3 DEF XEnd, NextCall
  <2>6. CASE Release(t)
    <3>1. calls[t] - 1 \in 0 .. NrCalls /\ AfterCall(t) \in Labels /\ 0 \in 0 .. RetryMaxCount + 1
      BY <1>0, <2>0, <2>6 DEF Release, Counted, Setting, AfterCall
    <3> QED
      BY <1>0, <2>6, <3>1 DEF Release, StoreShadow, RollBack, NextCall
  <2>7. ASSUME NEW here, NEW w \in Words, NEW there \in Labels, Touch(t, here, w, there)
        PROVE  TxTypes'
    <3>1. Value(t, w) + 1 \in Nat
      BY <1>0, ValueIs
    <3>2. CASE t \in Writers
      <4> DEFINE set == Victims(t, w, TRUE)
      <4>1. /\ RollBack(set, Goto(t, there), {})
            /\ loads' = [u \in Tasks |-> IF u \in set THEN {} ELSE loads[u]]
            /\ DOMAIN stores' = Tasks /\ seen' = seen
            /\ mem' = IF t \in active THEN mem ELSE [mem EXCEPT ![w] = Value(t, w) + 1]
            /\ UNCHANGED <<TSX_Lock, tries, calls>>
        BY <2>7, <3>2 DEF Touch, Store
      <4>2. pc' \in [Tasks -> Labels] /\ active' \subseteq Tasks /\ status' \in [Tasks -> Flags]
        BY <1>0, <4>1, RollBackTypes
      <4> HIDE DEF set
      <4>3. loads' \in [Tasks -> SUBSET (Words \cup {Shadow})] /\ mem' \in [Words -> Nat]
        BY <1>0, <3>1, <4>1
      <4> QED
        BY <1>0, <4>1, <4>2, <4>3
    <3>3. CASE t \notin Writers
      <4> DEFINE set == Victims(t, w, FALSE)
      <4>1. /\ RollBack(set, Goto(t, there), {}) /\ Loaded(t, w, set)
            /\ DOMAIN stores' = Tasks /\ DOMAIN seen' = Tasks
            /\ UNCHANGED <<TSX_Lock, tries, calls, mem>>
        BY <1>0, <2>7, <3>3 DEF Touch, Load
      <4>2. pc' \in [Tasks -> Labels] /\ active' \subseteq Tasks /\ status' \in [Tasks -> Flags]
        BY <1>0, <4>1, RollBackTypes
      <4> HIDE DEF set
      <4>3. loads' \in [Tasks -> SUBSET (Words \cup {Shadow})]
        BY <1>0, <4>1 DEF Loaded
      <4> QED
        BY <1>0, <4>1, <4>2, <4>3
    <3> QED
      BY <3>2, <3>3
  <2>8. CASE First(t) \/ Second(t)
    BY <2>7, <2>8 DEF First, Second, Words
  <2> QED
    BY <1>2, <2>1, <2>2, <2>3, <2>4, <2>5, <2>6, <2>8 DEF Step
<1> QED
  BY <1>1, <1>2 DEF Next

-----------------------------------------------------------------------------
(* What remains true of the others.  In each lemma the task t has made a step. *)

\* The parts of the invariant that speak of one task at a time.
LEMMA Apiece ==
  /\ Transactions <=> \A t \in Tasks : TransactionOf(t)
  /\ Counted <=> \A t \in Tasks : CountedOf(t)
  BY DEF Transactions, TransactionOf, Counted, CountedOf

\* Where the others are, as the lemmas below use it.
LEMMA Elsewhere ==
  ASSUME IInv, TxTypes', NEW t \in Tasks, Others(t), NEW u \in Tasks, u # t
  PROVE  /\ Critical(u)' <=> Critical(u)
         /\ Holds(u)' <=> Holds(u)
         /\ u \in active' => u \in active /\ pc'[u] = pc[u]
         /\ Holds(u) => Touched(u)' = Touched(u)
         /\ Inside(u)' => Inside(u) /\ pc'[u] = pc[u]
<1>1. Stays(u) \/ RolledBack(u)
  BY DEF Others
<1>2. CASE Stays(u)
  BY <1>2 DEF Stays, Critical, Holds, Inside, Touched
<1>3. CASE RolledBack(u)
  BY <1>3 DEF RolledBack, Critical, Holds, Inside, Touched, IInv, Transactions
<1> QED
  BY <1>1, <1>2, <1>3

\* The others' loads and stores.
LEMMA TransactionsFrame ==
  ASSUME IInv, TxTypes', NEW t \in Tasks, Others(t), Undisturbed(t), TransactionOf(t)'
  PROVE  Transactions'
<1>1. ASSUME NEW u \in Tasks, u # t PROVE TransactionOf(u)'
  <2>0. TransactionOf(u)
    BY DEF IInv, Transactions, TransactionOf
  <2>1. CASE RolledBack(u)
    <3>1. u \notin active' /\ pc'[u] = "aborted" /\ loads'[u] = {} /\ stores'[u] = Nothing
      BY <2>1 DEF RolledBack
    <3>2. Nothing = [w \in {} |-> mem'[w] + 1]
      BY DEF Nothing
    <3> QED
      BY <3>1, <3>2 DEF TransactionOf
  <2>2. CASE Stays(u)
    <3>1. Touched(u)' = Touched(u) /\ (Inside(u)' <=> Inside(u)) /\ (u \in active' <=> u \in active)
      BY <2>2 DEF Stays, Touched, Inside
    <3>2. mem' = mem \/ Touched(u) = {}
      BY <1>1 DEF Undisturbed
    <3>3. [w \in IF u \in active /\ u \in Writers THEN Touched(u) ELSE {} |-> mem[w] + 1]
            = [w \in IF u \in active /\ u \in Writers THEN Touched(u) ELSE {} |-> mem'[w] + 1]
      BY <3>2
    <3> QED
      BY <2>0, <2>2, <3>1, <3>3 DEF TransactionOf, Stays
  <2> QED
    BY <1>1, <2>1, <2>2 DEF Others
<1>2. \A u \in Tasks : TransactionOf(u)'
  BY <1>1
<1> QED
  BY <1>2 DEF Transactions, TransactionOf

\* The others' counters.
LEMMA CountedFrame ==
  ASSUME IInv, TxTypes', NEW t \in Tasks, Others(t), CountedOf(t)'
  PROVE  Counted'
<1>1. ASSUME NEW u \in Tasks, u # t PROVE CountedOf(u)'
  BY <1>1 DEF IInv, Counted, CountedOf, Others, Stays, RolledBack, Transactions, Inside
<1>2. \A u \in Tasks : CountedOf(u)'
  BY <1>1
<1> QED
  BY <1>2 DEF Counted, CountedOf

\* A step that does not touch the locks.
LEMMA LockedFrame ==
  ASSUME IInv, TxTypes', NEW t \in Tasks, Others(t), UNCHANGED <<TSX_Lock, mutex>>,
         Critical(t)' => Critical(t), Holds(t) => Holds(t)',
         t \in active' /\ Inside(t)' => TSX_Lock = 0
  PROVE  Locked'
<1>1. \A u \in Tasks : Critical(u)' => Critical(u)
  BY Elsewhere
<1>2. \A u \in Tasks : Holds(u) => Holds(u)'
  BY Elsewhere
<1>3. \A u \in active' : Inside(u)' => TSX_Lock = 0
  <2>1. ASSUME NEW u \in active', u # t, Inside(u)' PROVE TSX_Lock = 0
    <3>1. u \in Tasks
      BY DEF TxTypes
    <3> QED
      BY <2>1, <3>1, Elsewhere DEF IInv, Locked
  <2> QED
    BY <2>1
<1> QED
  BY <1>1, <1>2, <1>3 DEF IInv, Locked

\* A step that is no access to the object inside a transaction.
LEMMA ApartFrame ==
  ASSUME IInv, TxTypes', NEW t \in Tasks, Others(t),
         t \in active' => Touched(t)' = {} \/ (t \in active /\ Touched(t) # {})
  PROVE  Apart'
<1> SUFFICES ASSUME NEW u \in active', NEW v \in active', u # v, Touched(u)' # {}, Touched(v)' # {}
             PROVE  u \notin Writers
  BY DEF Apart
<1>1. u \in Tasks /\ v \in Tasks
  BY DEF TxTypes
<1>2. \A y \in {u, v} : y \in active /\ Touched(y) # {}
  <2>1. ASSUME NEW y \in {u, v}, y # t PROVE y \in active /\ Touched(y) # {}
    <3>1. y \in active /\ pc'[y] = pc[y]
      BY <1>1, <2>1, Elsewhere
    <3> QED
      BY <3>1 DEF Touched
  <2> QED
    BY <2>1
<1> QED
  BY <1>2 DEF IInv, Apart

\* A step that neither completes a call nor changes a word.
LEMMA MemoryFrame ==
  ASSUME IInv, TxTypes', NEW t \in Tasks, Others(t), UNCHANGED mem,
         t \in Writers => /\ Done(t)' = Done(t)
                          /\ \A w \in Words : (Holds(t)' /\ w \in Touched(t)') <=> (Holds(t) /\ w \in Touched(t))
  PROVE  MemoryIs'
<1>1. \A u \in Writers : Done(u)' = Done(u)
  <2>1. ASSUME NEW u \in Writers, u # t PROVE Done(u)' = Done(u)
    <3>1. u \in Tasks
      BY DEF Tasks
    <3> QED
      BY <2>1, <3>1 DEF Done, Others, Stays, RolledBack, IInv, Transactions, Inside
  <2> QED
    BY <2>1
<1>2. Completed' = Completed
  BY <1>1 DEF Completed
<1>3. \A u \in Writers, w \in Words : (Holds(u)' /\ w \in Touched(u)') <=> (Holds(u) /\ w \in Touched(u))
  <2>1. \A u \in Writers : u \in Tasks
    BY DEF Tasks
  <2> QED
    BY <2>1, Elsewhere
<1>4. \A w \in Words : mem'[w] = Cardinality(Completed)
               + (IF \E u \in Writers : Holds(u)' /\ w \in Touched(u)' THEN 1 ELSE 0)
  BY <1>3 DEF IInv, MemoryIs
<1> QED
  BY <1>2, <1>4 DEF MemoryIs

\* What the others have seen.
LEMMA ViewsFrame ==
  ASSUME IInv, TxTypes', NEW t \in Tasks, Others(t), Undisturbed(t), ViewOf(t)'
  PROVE  Views'
<1>1. ASSUME NEW u \in Tasks, u # t PROVE ViewOf(u)'
  <2>0. ViewOf(u) /\ seen'[u] = seen[u]
    BY <1>1 DEF IInv, Views, Others
  <2>1. CASE RolledBack(u)
    BY <2>0, <2>1 DEF RolledBack, ViewOf
  <2>2. CASE Stays(u)
    <3>1. pc'[u] = pc[u]
      BY <2>2 DEF Stays
    <3>2. pc[u] = "second" => mem' = mem
      BY <1>1 DEF Undisturbed, Touched
    <3> QED
      BY <2>0, <3>1, <3>2 DEF ViewOf
  <2> QED
    BY <1>1, <2>1, <2>2 DEF Others
<1>2. \A u \in Tasks : ViewOf(u)'
  BY <1>1
<1> QED
  BY <1>2 DEF Views

-----------------------------------------------------------------------------
(* The steps. *)

\* What the invariant says of one task.
LEMMA OwnPart ==
  ASSUME IInv, NEW t \in Tasks
  PROVE  TransactionOf(t) /\ CountedOf(t) /\ ViewOf(t)
  BY DEF IInv, Transactions, TransactionOf, Counted, CountedOf, Views

\* A step that changes neither the words nor the locks, and completes nothing.
LEMMA QuietFrame ==
  ASSUME IInv, TxTypes', NEW t \in Tasks, Others(t), UNCHANGED <<mem, TSX_Lock, mutex>>,
         TransactionOf(t)', CountedOf(t)', ViewOf(t)',
         Critical(t)' => Critical(t), Holds(t) <=> Holds(t)',
         t \in active' /\ Inside(t)' => TSX_Lock = 0,
         t \in active' => Touched(t)' = {} \/ (t \in active /\ Touched(t)' = Touched(t)),
         t \in Writers => Done(t)' = Done(t) /\ (Holds(t) => Touched(t)' = Touched(t))
  PROVE  IInv'
<1>1. Undisturbed(t)
  BY DEF Undisturbed
<1>2. Transactions' /\ Counted' /\ Views'
  BY <1>1, TransactionsFrame, CountedFrame, ViewsFrame
<1>3. Locked' /\ Apart'
  BY LockedFrame, ApartFrame
<1>4. MemoryIs'
  BY MemoryFrame
<1> QED
  BY <1>2, <1>3, <1>4 DEF IInv

\* Statements that concern nobody else and no word.
LEMMA LocalSteps ==
  ASSUME IInv, TxTypes', NEW t \in Tasks,
         XBegin(t) \/ XAbort(t) \/ Aborted(t) \/ UntilFree(t) \/ Wait(t) \/ Interrupt(t)
  PROVE  IInv'
<1>0. TransactionOf(t) /\ CountedOf(t) /\ ViewOf(t) /\ TxTypes
  BY OwnPart DEF IInv
<1>1. Others(t) /\ UNCHANGED <<mem, TSX_Lock, mutex, calls>>
  BY <1>0 DEF TxTypes, Others, Stays, XBegin, XAbort, Aborted, UntilFree, Wait, Interrupt, Goto,
              memoryVars, txVars
<1>2. /\ Nothing = [w \in {} |-> mem'[w] + 1]
      /\ DOMAIN Nothing = {}
  BY DEF Nothing
<1>3. Words # {}
  BY DEF Words
<1>4. CASE XBegin(t)
  <2>1. /\ pc[t] = "begin" /\ pc'[t] = "check" /\ t \in active' /\ tries'[t] = tries[t] + 1
        /\ seen'[t] = Nothing /\ loads' = loads /\ stores' = stores
    BY <1>0, <1>4 DEF XBegin, Goto, TxTypes
  <2>2. TransactionOf(t)' /\ CountedOf(t)' /\ ViewOf(t)'
    BY <1>0, <1>1, <1>2, <1>3, <2>1 DEF TransactionOf, CountedOf, ViewOf, Inside, Touched
  <2> QED
    BY <1>1, <2>1, <2>2, QuietFrame DEF Critical, Holds, Inside, Touched, Done
<1>5. CASE XAbort(t)
  <2>1. /\ pc[t] = "check" /\ pc'[t] = "aborted" /\ t \notin active'
        /\ seen' = seen /\ loads' = loads /\ stores' = stores
    BY <1>0, <1>5 DEF XAbort, Goto, TxTypes
  <2>2. TransactionOf(t)' /\ CountedOf(t)' /\ ViewOf(t)'
    BY <1>0, <1>1, <1>2, <1>3, <2>1 DEF TransactionOf, CountedOf, ViewOf, Inside, Touched
  <2> QED
    BY <1>1, <2>1, <2>2, QuietFrame DEF Critical, Holds, Inside, Touched, Done
<1>6. CASE Aborted(t)
  <2>1. /\ pc[t] = "aborted" /\ pc'[t] \in {"acquire", "untilFree"} /\ active' = active
        /\ seen'[t] = Nothing /\ loads' = loads /\ stores' = stores
    BY <1>0, <1>6 DEF Aborted, Goto, TxTypes, txVars
  <2>2. TransactionOf(t)' /\ CountedOf(t)' /\ ViewOf(t)'
    BY <1>0, <1>1, <1>2, <1>3, <2>1 DEF TransactionOf, CountedOf, ViewOf, Inside, Touched
  <2> QED
    BY <1>1, <2>1, <2>2, QuietFrame DEF Critical, Holds, Inside, Touched, Done
<1>7. CASE UntilFree(t)
  <2>1. /\ pc[t] = "untilFree" /\ active' = active
        /\ pc'[t] = IF tries[t] <= RetryMaxCount THEN "begin" ELSE "acquire"
        /\ tries' = tries /\ seen' = seen /\ loads' = loads /\ stores' = stores
    BY <1>0, <1>7 DEF UntilFree, Goto, TxTypes, txVars
  <2>2. TransactionOf(t)' /\ CountedOf(t)' /\ ViewOf(t)'
    BY <1>0, <1>1, <1>2, <1>3, <2>1 DEF TransactionOf, CountedOf, ViewOf, Inside, Touched
  <2> QED
    BY <1>1, <2>1, <2>2, QuietFrame DEF Critical, Holds, Inside, Touched, Done
<1>8. CASE Wait(t)
  <2>1. /\ pc[t] = "wait" /\ pc'[t] = "acquire" /\ active' = active
        /\ tries' = tries /\ seen' = seen /\ loads' = loads /\ stores' = stores
    BY <1>0, <1>8 DEF Wait, Goto, TxTypes, txVars
  <2>2. TransactionOf(t)' /\ CountedOf(t)' /\ ViewOf(t)'
    BY <1>0, <1>1, <1>2, <1>3, <2>1 DEF TransactionOf, CountedOf, ViewOf, Inside, Touched
  <2> QED
    BY <1>1, <2>1, <2>2, QuietFrame DEF Critical, Holds, Inside, Touched, Done
<1>9. CASE Interrupt(t)
  <2>1. /\ t \in active /\ pc'[t] = "aborted" /\ t \notin active'
        /\ seen'[t] = Nothing /\ loads'[t] = {} /\ stores'[t] = Nothing
    BY <1>0, <1>9 DEF Interrupt, Goto, TxTypes
  <2>2. pc[t] \in {"check", "first", "second", "unlock"}
    BY <1>0, <2>1 DEF TransactionOf, Inside
  <2>3. TransactionOf(t)' /\ CountedOf(t)' /\ ViewOf(t)'
    BY <1>0, <1>1, <1>2, <1>3, <2>1, <2>2 DEF TransactionOf, CountedOf, ViewOf, Inside, Touched
  <2> QED
    BY <1>1, <2>1, <2>2, <2>3, QuietFrame DEF Critical, Holds, Inside, Touched, Done
<1> QED
  BY <1>4, <1>5, <1>6, <1>7, <1>8, <1>9

\* Whoever a load or a store rolls back.
LEMMA Conflict ==
  ASSUME IInv, NEW t \in Tasks, NEW w, NEW there, NEW store \in BOOLEAN,
         RollBack(Victims(t, w, store), Goto(t, there), {})
  PROVE  /\ pc'[t] = there /\ (t \in active' <=> t \in active)
         /\ t \notin Victims(t, w, store) /\ Victims(t, w, store) \subseteq active
         /\ \A u \in Tasks \ {t} :
              IF u \in Victims(t, w, store)
              THEN u \in active /\ u \notin active' /\ pc'[u] = "aborted"
              ELSE pc'[u] = pc[u] /\ (u \in active' <=> u \in active)
<1>1. t \notin Victims(t, w, store) /\ Victims(t, w, store) \subseteq active
  BY DEF Victims
<1>2. pc \in [Tasks -> Labels]
  BY DEF IInv, TxTypes
<1>3. \A u \in Tasks : Goto(t, there)[u] = IF u = t THEN there ELSE pc[u]
  BY <1>2 DEF Goto
<1>4. \A u \in Tasks : pc'[u] = IF u \in Victims(t, w, store) THEN "aborted" ELSE Goto(t, there)[u]
  BY DEF RollBack
<1>5. active' = active \ Victims(t, w, store)
  BY DEF RollBack
<1> QED
  BY <1>1, <1>3, <1>4, <1>5

\* The elided lock is found free.
LEMMA CheckStep ==
  ASSUME IInv, TxTypes', NEW t \in Tasks, CheckFree(t)
  PROVE  IInv'
<1>0. TransactionOf(t) /\ CountedOf(t) /\ ViewOf(t) /\ TxTypes
  BY OwnPart DEF IInv
<1> DEFINE set == Victims(t, Shadow, FALSE)
<1>1. /\ pc[t] = "check" /\ TSX_Lock = 0 /\ RollBack(set, Goto(t, "first"), {})
      /\ Loaded(t, Shadow, set)
      /\ stores' = [u \in Tasks |-> IF u \in set THEN Nothing ELSE stores[u]]
      /\ UNCHANGED <<TSX_Lock, mutex, mem, tries, calls, seen>>
  BY DEF CheckFree, Load, memoryVars
<1>2. /\ pc'[t] = "first" /\ (t \in active' <=> t \in active)
      /\ t \notin set /\ set \subseteq active
      /\ \A u \in Tasks \ {t} :
           IF u \in set THEN u \in active /\ u \notin active' /\ pc'[u] = "aborted"
                        ELSE pc'[u] = pc[u] /\ (u \in active' <=> u \in active)
  BY <1>1, Conflict
<1>3. t \in active
  BY <1>0, <1>1 DEF TransactionOf
<1> HIDE DEF set
<1>4. Others(t)
  BY <1>1, <1>2 DEF Others, Stays, RolledBack, Loaded
<1>5. loads'[t] = loads[t] \cup {Shadow} /\ stores'[t] = stores[t]
  BY <1>1, <1>2, <1>3 DEF Loaded
<1>6. TransactionOf(t)' /\ CountedOf(t)' /\ ViewOf(t)'
  BY <1>0, <1>1, <1>2, <1>3, <1>5 DEF TransactionOf, CountedOf, ViewOf, Inside, Touched
<1> QED
  BY <1>1, <1>2, <1>3, <1>4, <1>6, QuietFrame DEF Critical, Holds, Inside, Touched, Done

\* Who is not critical when another task is, or when the shadow lock is free.
LEMMA OneCritical ==
  ASSUME IInv, NEW t \in Tasks, Critical(t)
  PROVE  /\ TSX_Lock = 1 /\ t \notin active
         /\ \A u \in Tasks \ {t} : ~Critical(u) /\ ~Inside(u) /\ Touched(u) = {}
<1>1. TSX_Lock = 1 /\ \A u \in Tasks : Critical(u) => t = u
  BY DEF IInv, Locked
<1>2. t \notin active
  BY <1>1 DEF IInv, Locked, Transactions, Critical, Holds, Inside
<1>3. ASSUME NEW u \in Tasks \ {t} PROVE ~Critical(u) /\ ~Inside(u)
  BY <1>1 DEF IInv, Locked, Critical, Holds
<1> QED
  BY <1>1, <1>2, <1>3, TouchedInside

\* While the shadow lock is free, whoever is inside is so in a transaction.
LEMMA NoneCritical ==
  ASSUME IInv, TSX_Lock = 0
  PROVE  \A u \in Tasks : ~Critical(u) /\ (Inside(u) => u \in active)
  BY DEF IInv, Locked, Critical, Holds

\* The mutex below the shadow lock is free for whom it is not given to.
LEMMA LockStep ==
  ASSUME IInv, TxTypes', NEW t \in Tasks, LockMutex(t)
  PROVE  IInv'
<1>0. TransactionOf(t) /\ CountedOf(t) /\ ViewOf(t) /\ TxTypes
  BY OwnPart DEF IInv
<1>1. /\ pc[t] = "mutex" /\ pc'[t] = "first" /\ mutex' = t /\ active' = active
      /\ UNCHANGED <<TSX_Lock, mem, loads, stores, tries, calls, seen>>
  BY <1>0 DEF LockMutex, Goto, TxTypes, txVars
<1>2. Others(t) /\ Undisturbed(t)
  BY <1>0, <1>1 DEF LockMutex, Goto, TxTypes, Others, Stays, Undisturbed
<1>3. Critical(t) /\ Critical(t)' /\ Touched(t) = {} /\ Touched(t)' = {}
  BY <1>0, <1>1 DEF Critical, Touched, Holds, Inside, TransactionOf
<1>4. /\ TSX_Lock = 1 /\ t \notin active
      /\ \A u \in Tasks \ {t} : ~Critical(u) /\ ~Inside(u)
  BY <1>3, OneCritical
<1>5. TransactionOf(t)' /\ CountedOf(t)' /\ ViewOf(t)'
  BY <1>0, <1>1, <1>3, <1>4 DEF TransactionOf, CountedOf, ViewOf, Inside
<1>6. Transactions' /\ Counted' /\ Views'
  BY <1>2, <1>5, TransactionsFrame, CountedFrame, ViewsFrame
<1>7. Locked'
  <2>1. \A u \in Tasks \ {t} : ~Critical(u)' /\ ~Inside(u)'
    BY <1>2, <1>4, Elsewhere
  <2>2. t \notin active' /\ active' \subseteq Tasks /\ Holds(t)' /\ TSX_Lock' = 1
    BY <1>0, <1>1, <1>4 DEF Holds, Inside, TxTypes
  <2> QED
    BY <1>1, <2>1, <2>2 DEF Locked
<1>8. Apart'
  BY <1>1, <1>2, <1>4, ApartFrame
<1>9. MemoryIs'
  <2>1. Done(t)' = Done(t)
    BY <1>1 DEF Done
  <2> QED
    BY <1>1, <1>2, <1>3, <2>1, MemoryFrame
<1> QED
  BY <1>6, <1>7, <1>8, <1>9 DEF IInv

\* A store to the shadow lock rolls back every transaction that is inside.
LEMMA ShadowStore ==
  ASSUME IInv, TxTypes', NEW t \in Tasks, NEW v, NEW there, t \notin active,
         StoreShadow(t, v, there), UNCHANGED <<mem, seen>>,
         \A u \in Tasks \ {t} : calls'[u] = calls[u] /\ tries'[u] = tries[u]
  PROVE  /\ pc'[t] = there /\ TSX_Lock' = v /\ t \notin active'
         /\ loads'[t] = loads[t] /\ stores'[t] = stores[t]
         /\ Others(t) /\ Undisturbed(t)
         /\ \A u \in active' : ~Inside(u)'
<1> DEFINE set == Victims(t, Shadow, TRUE)
<1>0. TxTypes
  BY DEF IInv
<1>1. /\ RollBack(set, Goto(t, there), {}) /\ TSX_Lock' = v
      /\ loads' = [u \in Tasks |-> IF u \in set THEN {} ELSE loads[u]]
      /\ stores' = [u \in Tasks |-> IF u \in set THEN Nothing ELSE stores[u]]
  BY DEF StoreShadow
<1>2. /\ pc'[t] = there /\ (t \in active' <=> t \in active)
      /\ t \notin set /\ set \subseteq active
      /\ \A u \in Tasks \ {t} :
           IF u \in set THEN u \in active /\ u \notin active' /\ pc'[u] = "aborted"
                        ELSE pc'[u] = pc[u] /\ (u \in active' <=> u \in active)
  BY <1>1, Conflict
<1>3. \A u \in active \ {t} : Inside(u) => u \in set
  BY <1>0 DEF IInv, Transactions, TxTypes, Victims
<1> HIDE DEF set
<1>4. Others(t)
  BY <1>1, <1>2 DEF Others, Stays, RolledBack
<1>5. ASSUME NEW u \in active' PROVE ~Inside(u)'
  <2>1. u \in Tasks /\ u # t
    BY <1>2 DEF TxTypes
  <2> QED
    BY <1>2, <1>3, <2>1 DEF Inside
<1> QED
  BY <1>1, <1>2, <1>4, <1>5 DEF Undisturbed

\* Lock_Test_And_Set
LEMMA AcquireStep ==
  ASSUME IInv, TxTypes', NEW t \in Tasks, Acquire(t)
  PROVE  IInv'
<1>0. TransactionOf(t) /\ CountedOf(t) /\ ViewOf(t) /\ TxTypes
  BY OwnPart DEF IInv
<1> DEFINE there == IF TSX_Lock = 0 THEN "mutex" ELSE "wait"
<1>1. /\ pc[t] = "acquire" /\ StoreShadow(t, 1, there)
      /\ UNCHANGED <<mutex, mem, tries, calls, seen>>
  BY DEF Acquire
<1>2. t \notin active
  BY <1>0, <1>1 DEF TransactionOf, Inside
<1>3. /\ pc'[t] = there /\ TSX_Lock' = 1 /\ t \notin active'
      /\ loads'[t] = loads[t] /\ stores'[t] = stores[t]
      /\ Others(t) /\ Undisturbed(t)
      /\ \A u \in active' : ~Inside(u)'
  BY <1>1, <1>2, ShadowStore
<1>4. /\ pc'[t] \in {"mutex", "wait"} /\ (pc'[t] = "mutex" => TSX_Lock = 0)
  BY <1>3
<1>5. TransactionOf(t)' /\ CountedOf(t)' /\ ViewOf(t)'
  BY <1>0, <1>1, <1>2, <1>3, <1>4 DEF TransactionOf, CountedOf, ViewOf, Inside, Touched
<1>6. Transactions' /\ Counted' /\ Views'
  BY <1>3, <1>5, TransactionsFrame, CountedFrame, ViewsFrame
<1>7. Locked'
  <2>1. Critical(t)' => TSX_Lock = 0
    BY <1>4 DEF Critical, Holds, Inside
  <2>2. TSX_Lock = 0 => \A u \in Tasks : ~Critical(u)
    BY NoneCritical
  <2>3. ASSUME NEW u \in Tasks, NEW v \in Tasks, Critical(u)', Critical(v)' PROVE u = v
    BY <1>3, <2>1, <2>2, <2>3, Elsewhere DEF IInv, Locked
  <2>4. mutex # NoTask => mutex \in Tasks /\ Holds(mutex)'
    <3>1. ~Holds(t) /\ mutex' = mutex
      BY <1>1 DEF Holds, Inside
    <3>2. mutex # NoTask => mutex \in Tasks /\ Holds(mutex)
      BY DEF IInv, Locked
    <3>3. \A u \in Tasks : Holds(u) => Holds(u)'
      BY <1>3, <3>1, Elsewhere
    <3> QED
      BY <3>1, <3>2, <3>3
  <2> QED
    BY <1>1, <1>3, <2>3, <2>4 DEF Locked
<1>8. Apart'
  BY <1>3, ApartFrame
<1>9. MemoryIs'
  <2>1. Done(t)' = Done(t) /\ ~Holds(t) /\ ~Holds(t)'
    BY <1>1, <1>4 DEF Done, Holds, Inside
  <2> QED
    BY <1>1, <1>3, <2>1, MemoryFrame
<1> QED
  BY <1>6, <1>7, <1>8, <1>9 DEF IInv

\* The next call of a task, if it has another one.
LEMMA AfterCallIs ==
  ASSUME Setting, TxTypes, NEW t \in Tasks, CountedOf(t), pc[t] # "done",
         NextCall(t), pc'[t] = AfterCall(t)
  PROVE  /\ pc'[t] \in {"begin", "done"} /\ calls'[t] = calls[t] - 1 /\ CountedOf(t)'
         /\ calls[t] \in 1 .. NrCalls
         /\ \A u \in Tasks \ {t} : calls'[u] = calls[u] /\ tries'[u] = tries[u]
<1>1. calls[t] \in 0 .. NrCalls /\ calls[t] > 0
  BY DEF TxTypes, CountedOf
<1>2. calls'[t] = calls[t] - 1 /\ tries'[t] = 0
  BY DEF NextCall, TxTypes
<1> QED
  BY <1>1, <1>2 DEF NextCall, TxTypes, AfterCall, CountedOf, Setting

\* Lock_Release
LEMMA ReleaseStep ==
  ASSUME Setting, IInv, TxTypes', NEW t \in Tasks, Release(t)
  PROVE  IInv'
<1>0. TransactionOf(t) /\ CountedOf(t) /\ ViewOf(t) /\ TxTypes
  BY OwnPart DEF IInv
<1>1. /\ pc[t] = "release" /\ StoreShadow(t, 0, AfterCall(t)) /\ NextCall(t)
      /\ UNCHANGED <<mutex, mem, seen>>
  BY DEF Release
<1>2. Critical(t) /\ ~Inside(t)
  BY <1>1 DEF Critical, Inside
<1>3. TSX_Lock = 1 /\ t \notin active /\ \A u \in Tasks \ {t} : ~Critical(u) /\ ~Inside(u)
  BY <1>2, OneCritical
<1>4. \A u \in Tasks \ {t} : calls'[u] = calls[u] /\ tries'[u] = tries[u]
  BY <1>0, <1>1 DEF NextCall, TxTypes
<1>5. /\ pc'[t] = AfterCall(t) /\ TSX_Lock' = 0 /\ t \notin active'
      /\ loads'[t] = loads[t] /\ stores'[t] = stores[t]
      /\ Others(t) /\ Undisturbed(t)
      /\ \A u \in active' : ~Inside(u)'
  BY <1>1, <1>3, <1>4, ShadowStore
<1>6. /\ pc'[t] \in {"begin", "done"} /\ calls'[t] = calls[t] - 1 /\ CountedOf(t)'
      /\ calls[t] \in 1 .. NrCalls
  BY <1>0, <1>1, <1>5, AfterCallIs
<1>7. TransactionOf(t)' /\ ViewOf(t)'
  BY <1>0, <1>1, <1>3, <1>5, <1>6 DEF TransactionOf, ViewOf, Inside, Touched
<1>8. Transactions' /\ Counted' /\ Views'
  BY <1>5, <1>6, <1>7, TransactionsFrame, CountedFrame, ViewsFrame
<1>9. Locked'
  <2>1. \A u \in Tasks : ~Critical(u)'
    <3>1. ~Critical(t)'
      BY <1>6 DEF Critical, Holds, Inside
    <3> QED
      BY <1>3, <1>5, <3>1, Elsewhere
  <2>2. mutex = NoTask
    BY <1>2, <1>3 DEF IInv, Locked, Critical, Holds
  <2> QED
    BY <1>1, <1>5, <2>1, <2>2 DEF Locked
<1>10. Apart'
  BY <1>5, ApartFrame
<1>11. MemoryIs'
  <2>1. ~Holds(t) /\ ~Holds(t)'
    BY <1>2, <1>6 DEF Holds, Inside
  <2>2. Done(t)' = Done(t)
    BY <1>1, <1>6 DEF Done, Setting
  <2> QED
    BY <1>1, <1>5, <2>1, <2>2, MemoryFrame
<1> QED
  BY <1>8, <1>9, <1>10, <1>11 DEF IInv

-----------------------------------------------------------------------------
(* The calls that are complete. *)

\* They can be counted.
LEMMA CompletedFinite ==
  ASSUME Setting
  PROVE  IsFiniteSet(Completed) /\ Cardinality(Completed) \in Nat
<1>1. IsFiniteSet(1 .. NrCalls)
  BY FS_Interval DEF Setting
<1>2. IsFiniteSet(Writers \X (1 .. NrCalls))
  BY <1>1, FS_Product DEF Setting
<1>3. IsFiniteSet(Completed)
  BY <1>2, FS_Subset DEF Completed
<1> QED
  BY <1>3, FS_CardinalityType

\* One more is complete.
LEMMA CompletedGrows ==
  ASSUME Setting, NEW t \in Writers, Done(t) \in Nat, Done(t)' = Done(t) + 1, Done(t)' <= NrCalls,
         \A u \in Writers \ {t} : Done(u)' = Done(u)
  PROVE  Cardinality(Completed)' = Cardinality(Completed) + 1
<1> DEFINE c == <<t, Done(t) + 1>>
<1>1. c \notin Completed
  BY DEF Completed
<1>2. Completed' = Completed \cup {c}
  <2>1. ASSUME NEW d \in Writers \X (1 .. NrCalls)
        PROVE  d[2] <= Done(d[1])' <=> (d[2] <= Done(d[1]) \/ d = c)
    <3>1. PICK u \in Writers, n \in 1 .. NrCalls : d = <<u, n>>
      OBVIOUS
    <3>2. CASE u = t
      <4>1. Done(u)' = Done(t) + 1
        BY <3>2
      <4>2. n <= Done(t) + 1 <=> (n <= Done(t) \/ n = Done(t) + 1)
        OBVIOUS
      <4> QED
        BY <3>1, <3>2, <4>1, <4>2
    <3>3. CASE u # t
      BY <3>1, <3>3
    <3> QED
      BY <3>2, <3>3
  <2>2. c \in Writers \X (1 .. NrCalls)
    BY DEF Setting
  <2> HIDE DEF c
  <2> QED
    BY <2>1, <2>2 DEF Completed
<1> HIDE DEF c
<1> QED
  BY <1>1, <1>2, CompletedFinite, FS_AddElement

\* The calls of the others are what they were.
LEMMA DoneElsewhere ==
  ASSUME IInv, TxTypes', NEW t \in Tasks, Others(t)
  PROVE  \A u \in Writers \ {t} : Done(u)' = Done(u)
<1>1. ASSUME NEW u \in Writers \ {t} PROVE Done(u)' = Done(u)
  <2>1. u \in Tasks
    BY DEF Tasks
  <2> QED
    BY <2>1 DEF Done, Others, Stays, RolledBack, IInv, Transactions, Inside
<1> QED
  BY <1>1

\* pthread_mutex_unlock: the words are what the completed calls made them.
LEMMA UnlockStep ==
  ASSUME Setting, IInv, TxTypes', NEW t \in Tasks, UnlockMutex(t)
  PROVE  IInv'
<1>0. TransactionOf(t) /\ CountedOf(t) /\ ViewOf(t) /\ TxTypes
  BY OwnPart DEF IInv
<1>1. /\ pc[t] = "unlock" /\ pc'[t] = "release" /\ mutex' = NoTask /\ active' = active
      /\ ~(TSX_Lock = 0 /\ t \in active)
      /\ UNCHANGED <<TSX_Lock, mem, loads, stores, tries, calls, seen>>
  BY <1>0 DEF UnlockMutex, Goto, TxTypes, txVars
<1>2. Others(t) /\ Undisturbed(t)
  BY <1>0, <1>1 DEF UnlockMutex, Goto, TxTypes, Others, Stays, Undisturbed
<1>3. t \notin active /\ Holds(t)
  BY <1>1 DEF IInv, Locked, Holds, Inside
<1>4. /\ TSX_Lock = 1
      /\ \A u \in Tasks \ {t} : ~Critical(u) /\ ~Inside(u)
  BY <1>3, OneCritical DEF Critical
<1>5. TransactionOf(t)' /\ CountedOf(t)' /\ ViewOf(t)'
  BY <1>0, <1>1, <1>3 DEF TransactionOf, CountedOf, ViewOf, Inside, Touched
<1>6. Transactions' /\ Counted' /\ Views'
  BY <1>2, <1>5, TransactionsFrame, CountedFrame, ViewsFrame
<1>7. Locked'
  <2>1. \A u \in Tasks \ {t} : ~Critical(u)' /\ ~Inside(u)'
    BY <1>2, <1>4, Elsewhere
  <2>2. t \notin active' /\ active' \subseteq Tasks /\ TSX_Lock' = 1
    BY <1>1, <1>3, <1>4 DEF TxTypes
  <2> QED
    BY <1>1, <2>1, <2>2 DEF Locked
<1>8. Apart'
  BY <1>1, <1>2, <1>3, ApartFrame
<1>9. \A u \in Writers : ~Holds(u)'
  <2>1. ~Holds(t)'
    BY <1>1 DEF Holds, Inside
  <2> QED
    BY <1>2, <1>4, <2>1, Elsewhere DEF Tasks, Critical
<1>10. MemoryIs'
  <2>1. CASE t \in Writers
    <3>1. calls[t] \in 1 .. NrCalls /\ calls'[t] = calls[t]
      BY <1>0, <1>1 DEF TxTypes, CountedOf
    <3>2. Done(t) \in Nat /\ Done(t)' = Done(t) + 1 /\ Done(t)' <= NrCalls
      BY <1>1, <3>1 DEF Done, Setting
    <3>3. Cardinality(Completed)' = Cardinality(Completed) + 1
      BY <1>2, <2>1, <3>2, CompletedGrows, DoneElsewhere
    <3>4. \A w \in Words : mem[w] = Cardinality(Completed) + 1
      BY <1>1, <1>3, <2>1 DEF IInv, MemoryIs, Touched
    <3>5. \A w \in Words : mem'[w] = Cardinality(Completed)' + 0
      BY <1>1, <3>3, <3>4, CompletedFinite
    <3> QED
      BY <1>9, <3>5 DEF MemoryIs
  <2>2. CASE t \notin Writers
    BY <1>1, <1>2, <2>2, MemoryFrame
  <2> QED
    BY <2>1, <2>2
<1> QED
  BY <1>6, <1>7, <1>8, <1>10 DEF IInv

\* XEnd: what the transaction has stored becomes the words.
LEMMA XEndStep ==
  ASSUME Setting, IInv, TxTypes', NEW t \in Tasks, XEnd(t)
  PROVE  IInv'
<1>0. TransactionOf(t) /\ CountedOf(t) /\ ViewOf(t) /\ TxTypes
  BY OwnPart DEF IInv
<1>1. /\ pc[t] = "unlock" /\ pc'[t] = AfterCall(t) /\ TSX_Lock = 0 /\ t \in active
      /\ active' = active \ {t} /\ NextCall(t)
      /\ mem' = [w \in Words |-> Value(t, w)]
      /\ loads'[t] = {} /\ stores'[t] = Nothing
      /\ UNCHANGED <<TSX_Lock, mutex, seen>>
  BY <1>0 DEF XEnd, Goto, TxTypes
<1>2. /\ pc'[t] \in {"begin", "done"} /\ calls'[t] = calls[t] - 1 /\ CountedOf(t)'
      /\ calls[t] \in 1 .. NrCalls
      /\ \A u \in Tasks \ {t} : calls'[u] = calls[u] /\ tries'[u] = tries[u]
  BY <1>0, <1>1, AfterCallIs
<1>3. Others(t)
  BY <1>0, <1>1, <1>2 DEF XEnd, Goto, TxTypes, Others, Stays
<1>4. \A u \in Tasks : ~Critical(u) /\ (Inside(u) => u \in active)
  BY <1>1, NoneCritical
<1>5. Touched(t) = Words /\ Words # {} /\ Touched(t)' = {}
  BY <1>1, <1>2 DEF Touched, Words
<1>6. \A w \in Words : /\ mem'[w] = IF t \in Writers THEN mem[w] + 1 ELSE mem[w]
                       /\ mem[w] = Cardinality(Completed) + 0
  <2>1. \A w \in Words : Value(t, w) = IF t \in Writers THEN mem[w] + 1 ELSE mem[w]
    BY <1>0, <1>1, <1>5, ValueIs DEF IInv
  <2>2. \A u \in Writers : ~Holds(u)
    BY <1>4 DEF Critical, Tasks
  <2> QED
    BY <1>1, <2>1, <2>2 DEF IInv, MemoryIs
<1>7. Undisturbed(t)
  <2>1. CASE t \in Writers
    <3>1. ASSUME NEW u \in Tasks \ {t} PROVE Touched(u) = {}
      BY <1>1, <1>4, <1>5, <2>1, TouchedInside DEF IInv, Apart
    <3> QED
      BY <3>1 DEF Undisturbed
  <2>2. CASE t \notin Writers
    BY <1>0, <1>1, <1>6, <2>2 DEF Undisturbed, TxTypes
  <2> QED
    BY <2>1, <2>2
<1>8. TransactionOf(t)' /\ ViewOf(t)'
  <2>1. Nothing = [w \in {} |-> mem'[w] + 1]
    BY DEF Nothing
  <2> QED
    BY <1>0, <1>1, <1>2, <2>1 DEF TransactionOf, ViewOf, Inside, Touched
<1>9. Transactions' /\ Counted' /\ Views'
  BY <1>2, <1>3, <1>7, <1>8, TransactionsFrame, CountedFrame, ViewsFrame
<1>10. Locked' /\ Apart'
  <2>1. ~Critical(t)' /\ ~Holds(t) /\ t \notin active'
    BY <1>1, <1>2 DEF Critical, Holds, Inside
  <2> QED
    BY <1>1, <1>3, <2>1, LockedFrame, ApartFrame
<1>11. MemoryIs'
  <2>1. \A u \in Writers : ~Holds(u)'
    <3>1. ~Holds(t)'
      BY <1>2 DEF Holds, Inside
    <3> QED
      BY <1>3, <1>4, <3>1, Elsewhere DEF Tasks, Critical
  <2>2. Cardinality(Completed)' = IF t \in Writers THEN Cardinality(Completed) + 1 ELSE Cardinality(Completed)
    <3>1. Done(t) \in Nat /\ Done(t)' = Done(t) + 1 /\ Done(t)' <= NrCalls
      BY <1>1, <1>2 DEF Done, Setting
    <3>2. CASE t \in Writers
      BY <1>3, <3>1, <3>2, CompletedGrows, DoneElsewhere
    <3>3. CASE t \notin Writers
      <4>1. \A u \in Writers : Done(u)' = Done(u)
        BY <1>3, <3>3, DoneElsewhere
      <4> QED
        BY <3>3, <4>1 DEF Completed
    <3> QED
      BY <3>2, <3>3
  <2>3. \A w \in Words : mem'[w] = Cardinality(Completed)' + 0
    BY <1>6, <2>2, CompletedFinite
  <2> QED
    BY <2>1, <2>3 DEF MemoryIs
<1> QED
  BY <1>9, <1>10, <1>11 DEF IInv

-----------------------------------------------------------------------------
(* The operation touches one word, then the other. *)

\* Whom the access of a transaction leaves inside: who has touched a word does
\* not store, nor does the transaction.
LEMMA AccessApart ==
  ASSUME IInv, NEW t \in active, NEW w \in Words, NEW u \in active \ {t}, Touched(u) # {},
         u \notin Victims(t, w, t \in Writers),
         (pc[t] = "first" /\ w = "x") \/ (pc[t] = "second" /\ w = "y")
  PROVE  t \notin Writers /\ u \notin Writers
<1>0. t \in Tasks /\ u \in Tasks /\ TransactionOf(u)
  BY OwnPart DEF IInv, TxTypes
<1>1. CASE pc[t] = "first" /\ w = "x"
  <2>1. "x" \in Touched(u) /\ Inside(u)
    BY DEF Touched, Inside, Words
  <2>2. /\ u \in Writers => "x" \in DOMAIN stores[u]
        /\ u \notin Writers => "x" \in loads[u]
    BY <1>0, <2>1 DEF TransactionOf
  <2> QED
    BY <1>1, <2>2 DEF Victims
<1>2. CASE pc[t] = "second" /\ w = "y"
  <2>1. Touched(t) # {}
    BY <1>2 DEF Touched
  <2> QED
    BY <2>1 DEF IInv, Apart
<1> QED
  BY <1>1, <1>2

\* What the access does to the other tasks.
LEMMA TouchEffect ==
  ASSUME IInv, TxTypes', NEW t \in Tasks, NEW here, NEW w \in Words, NEW there,
         Touch(t, here, w, there)
  PROVE  /\ pc[t] = here /\ pc'[t] = there /\ (t \in active' <=> t \in active)
         /\ UNCHANGED <<TSX_Lock, mutex, tries, calls>>
         /\ \A u \in Tasks \ {t} : seen'[u] = seen[u]
         /\ Others(t)
         /\ \A u \in active' \ {t} : u \in active /\ u \notin Victims(t, w, t \in Writers)
<1>0. TxTypes
  BY DEF IInv
<1> DEFINE set == Victims(t, w, t \in Writers)
<1>1. RollBack(set, Goto(t, there), {}) /\ pc[t] = here /\ UNCHANGED <<TSX_Lock, mutex, tries, calls>>
  <2>1. CASE t \in Writers
    <3>1. set = Victims(t, w, TRUE)
      BY <2>1 DEF Victims
    <3> HIDE DEF set
    <3> QED
      BY <2>1, <3>1 DEF Touch, Store
  <2>2. CASE t \notin Writers
    <3>1. set = Victims(t, w, FALSE)
      BY <2>2 DEF Victims
    <3> HIDE DEF set
    <3> QED
      BY <2>2, <3>1 DEF Touch, Load
  <2> QED
    BY <2>1, <2>2
<1>2. /\ pc'[t] = there /\ (t \in active' <=> t \in active)
      /\ t \notin set /\ set \subseteq active
      /\ \A u \in Tasks \ {t} :
           IF u \in set THEN u \in active /\ u \notin active' /\ pc'[u] = "aborted"
                        ELSE pc'[u] = pc[u] /\ (u \in active' <=> u \in active)
  <2>1. (t \in Writers) \in BOOLEAN
    OBVIOUS
  <2> QED
    BY <1>1, <2>1, Conflict
<1>3. \A u \in Tasks \ {t} : /\ seen'[u] = seen[u]
                             /\ loads'[u] = IF u \in set THEN {} ELSE loads[u]
                             /\ stores'[u] = IF u \in set THEN Nothing ELSE stores[u]
  <2>1. CASE t \in Writers
    <3>1. set = Victims(t, w, TRUE)
      BY <2>1 DEF Victims
    <3> HIDE DEF set
    <3> QED
      BY <1>0, <2>1, <3>1 DEF Touch, Store, TxTypes
  <2>2. CASE t \notin Writers
    <3>1. set = Victims(t, w, FALSE)
      BY <2>2 DEF Victims
    <3> HIDE DEF set
    <3> QED
      BY <1>0, <2>2, <3>1 DEF Touch, Load, Loaded, TxTypes
  <2> QED
    BY <2>1, <2>2
<1> HIDE DEF set
<1>4. Others(t)
  BY <1>1, <1>2, <1>3 DEF Others, Stays, RolledBack
<1>5. \A u \in active' \ {t} : u \in active /\ u \notin set
  BY <1>2 DEF TxTypes
<1> QED
  BY <1>1, <1>2, <1>3, <1>4, <1>5 DEF set

\* What a transaction has stored after one more store.
With(f, w, v) == [a \in DOMAIN f \cup {w} |-> IF a = w THEN v ELSE f[a]]

\* What a transaction or the lock makes of a word.
LEMMA WriterTouch ==
  ASSUME IInv, TxTypes', NEW t \in Writers, NEW here, NEW w \in Words, NEW there,
         Touch(t, here, w, there)
  PROVE  /\ t \in active =>
              /\ loads'[t] = loads[t] /\ mem' = mem
              /\ stores'[t] = With(stores[t], w, Value(t, w) + 1)
         /\ t \notin active =>
              /\ loads'[t] = loads[t] /\ stores'[t] = stores[t]
              /\ mem' = [mem EXCEPT ![w] = Value(t, w) + 1]
         /\ seen' = seen
<1>0. t \in Tasks /\ t \notin Victims(t, w, TRUE)
  BY DEF Tasks, Victims
<1> QED
  BY <1>0 DEF Touch, Store, With

\* What a function sees.
LEMMA ReaderTouch ==
  ASSUME IInv, TxTypes', NEW t \in Tasks \ Writers, NEW here, NEW w \in Words, NEW there,
         Touch(t, here, w, there)
  PROVE  /\ loads'[t] = IF t \in active THEN loads[t] \cup {w} ELSE loads[t]
         /\ stores'[t] = stores[t] /\ mem' = mem
         /\ seen'[t] = [a \in DOMAIN seen[t] \cup {w} |->
                          IF a = w THEN Value(t, w) ELSE seen[t][a]]
<1>0. t \in Tasks /\ t \notin Victims(t, w, FALSE)
  BY DEF Victims
<1>1. DOMAIN seen = Tasks
  BY DEF IInv, TxTypes
<1> QED
  BY <1>0, <1>1 DEF Touch, Load, Loaded

\* The labels of the two accesses and the words that are touched then.
Accesses(here, w, there) ==
  \/ here = "first" /\ w = "x" /\ there = "second"
  \/ here = "second" /\ w = "y" /\ there = "unlock"

\* One word is touched.
LEMMA TouchStep ==
  ASSUME Setting, IInv, TxTypes', NEW t \in Tasks, NEW here, NEW w \in Words, NEW there,
         Accesses(here, w, there), Touch(t, here, w, there)
  PROVE  IInv'
<1>0. TransactionOf(t) /\ CountedOf(t) /\ ViewOf(t) /\ TxTypes /\ Transactions
  BY OwnPart DEF IInv
<1>1. /\ pc[t] = here /\ pc'[t] = there /\ (t \in active' <=> t \in active)
      /\ UNCHANGED <<TSX_Lock, mutex, tries, calls>>
      /\ Others(t)
      /\ \A u \in active' \ {t} : u \in active /\ u \notin Victims(t, w, t \in Writers)
  BY TouchEffect
<1>2. /\ Inside(t) /\ Inside(t)' /\ (Critical(t)' <=> Critical(t)) /\ (Holds(t)' <=> Holds(t))
      /\ Touched(t)' = Touched(t) \cup {w} /\ w \notin Touched(t)
      /\ Done(t)' = Done(t)
  BY <1>1 DEF Accesses, Inside, Critical, Holds, Touched, Words, Done
<1>3. Value(t, w) = mem[w] /\ mem[w] \in Nat
  BY <1>0, <1>2, ValueIs
<1>4. Locked'
  BY <1>1, <1>2, LockedFrame DEF IInv, Locked
<1>5. CountedOf(t)'
  BY <1>0, <1>1 DEF CountedOf, Accesses
<1>6. Counted'
  BY <1>1, <1>5, CountedFrame
<1>7. Apart'
  <2>1. CASE t \notin active
    BY <1>1, <2>1, ApartFrame
  <2>2. CASE t \in active
    <3> SUFFICES ASSUME NEW u \in active', NEW v \in active', u # v,
                        Touched(u)' # {}, Touched(v)' # {}
                 PROVE  u \notin Writers
      BY DEF Apart
    <3>0. active' \subseteq Tasks
      BY DEF TxTypes
    <3>1. ASSUME NEW y \in active' \ {t}, Touched(y)' # {}
          PROVE  y \in active /\ Touched(y) # {} /\ y \notin Writers /\ t \notin Writers
      <4>1. y \in active /\ y \notin Victims(t, w, t \in Writers)
        BY <1>1, <3>1
      <4>2. Touched(y) # {}
        <5>1. pc'[y] = pc[y]
          BY <1>1, <3>0, <3>1, Elsewhere
        <5> QED
          BY <3>1, <5>1 DEF Touched
      <4> QED
        BY <1>1, <2>2, <4>1, <4>2, AccessApart DEF Accesses
    <3>2. CASE u = t
      BY <3>1, <3>2
    <3>3. CASE u # t
      BY <3>1, <3>3
    <3> QED
      BY <3>2, <3>3
  <2> QED
    BY <2>1, <2>2
<1>8. CASE t \in Writers /\ t \in active
  <2>1. /\ loads'[t] = loads[t] /\ mem' = mem /\ seen' = seen
        /\ stores'[t] = With(stores[t], w, Value(t, w) + 1)
    BY <1>8, WriterTouch, Zenon
  <2>2. TransactionOf(t)'
    <3>1. stores[t] = [a \in Touched(t) |-> mem[a] + 1]
      BY <1>0, <1>8 DEF TransactionOf
    <3>2. stores'[t] = [a \in Touched(t)' |-> mem'[a] + 1]
      BY <1>2, <1>3, <2>1, <3>1 DEF With
    <3> QED
      BY <1>0, <1>1, <1>2, <1>8, <2>1, <3>2 DEF TransactionOf, Accesses
  <2>3. ViewOf(t)'
    BY <1>0, <1>8, <2>1, ThreeWords DEF ViewOf
  <2>4. Transactions' /\ Views'
    BY <1>1, <2>1, <2>2, <2>3, TransactionsFrame, ViewsFrame DEF Undisturbed
  <2>5. MemoryIs'
    BY <1>1, <1>2, <1>8, <2>1, MemoryFrame DEF Holds
  <2> QED
    BY <1>4, <1>6, <1>7, <2>4, <2>5 DEF IInv
<1>9. CASE t \in Writers /\ t \notin active
  <2>1. /\ loads'[t] = loads[t] /\ stores'[t] = stores[t] /\ seen' = seen
        /\ mem' = [mem EXCEPT ![w] = Value(t, w) + 1]
    BY <1>9, WriterTouch, Zenon
  <2>2. Holds(t)
    BY <1>2, <1>9 DEF Holds
  <2>3. \A u \in Tasks \ {t} : ~Critical(u) /\ ~Inside(u) /\ Touched(u) = {}
    BY <2>2, OneCritical DEF Critical
  <2>4. TransactionOf(t)' /\ ViewOf(t)'
    BY <1>0, <1>1, <1>2, <1>9, <2>1, ThreeWords DEF TransactionOf, ViewOf, Accesses
  <2>5. Transactions' /\ Views'
    BY <1>1, <2>3, <2>4, TransactionsFrame, ViewsFrame DEF Undisturbed
  <2>6. MemoryIs'
    <3>1. \A u \in Writers : Done(u)' = Done(u)
      BY <1>1, <1>2, DoneElsewhere
    <3>2. Completed' = Completed
      BY <3>1 DEF Completed
    <3>3. \A u \in Writers \ {t} : ~Holds(u) /\ ~Holds(u)'
      BY <1>1, <2>3, Elsewhere DEF Tasks, Critical
    <3>4. \A a \in Words : mem[a] = Cardinality(Completed) + (IF a \in Touched(t) THEN 1 ELSE 0)
      BY <1>9, <2>2, <3>3 DEF IInv, MemoryIs
    <3>5. \A a \in Words : mem'[a] = IF a = w THEN mem[w] + 1 ELSE mem[a]
      BY <1>0, <1>3, <2>1 DEF TxTypes
    <3>6. mem[w] = Cardinality(Completed) + 0
      BY <1>2, <3>4
    <3>7. \A a \in Words : mem'[a] = Cardinality(Completed)' + (IF a \in Touched(t)' THEN 1 ELSE 0)
      <4>1. mem'[w] = Cardinality(Completed) + 1
        BY <1>3, <3>5, <3>6, CompletedFinite
      <4>2. \A a \in Words : a # w => mem'[a] = mem[a] /\ (a \in Touched(t)' <=> a \in Touched(t))
        BY <1>2, <3>5
      <4>3. w \in Touched(t)'
        BY <1>2
      <4> QED
        BY <3>2, <3>4, <4>1, <4>2, <4>3
    <3>8. \A a : (\E u \in Writers : Holds(u)' /\ a \in Touched(u)') <=> a \in Touched(t)'
      BY <1>2, <1>9, <2>2, <3>3
    <3> QED
      BY <3>7, <3>8 DEF MemoryIs
  <2> QED
    BY <1>4, <1>6, <1>7, <2>5, <2>6 DEF IInv
<1>10. CASE t \notin Writers
  <2>1. /\ loads'[t] = IF t \in active THEN loads[t] \cup {w} ELSE loads[t]
        /\ stores'[t] = stores[t] /\ mem' = mem
        /\ seen'[t] = [a \in DOMAIN seen[t] \cup {w} |-> IF a = w THEN mem[w] ELSE seen[t][a]]
    BY <1>3, <1>10, ReaderTouch
  <2>2. TransactionOf(t)'
    BY <1>0, <1>1, <1>2, <1>10, <2>1 DEF TransactionOf, Accesses
  <2>3. mem["x"] = mem["y"]
    <3>1. \A u \in Tasks \ {t} : ~Critical(u)
      <4>1. CASE t \in active
        BY <1>2, <4>1, NoneCritical DEF IInv, Locked
      <4>2. CASE t \notin active
        BY <1>2, <4>2, OneCritical DEF Critical, Holds
      <4> QED
        BY <4>1, <4>2
    <3>2. \A u \in Writers : ~Holds(u)
      BY <1>10, <3>1 DEF Critical, Tasks
    <3> QED
      BY <3>2, ThreeWords DEF IInv, MemoryIs
  <2>4. ViewOf(t)'
    <3>1. DOMAIN seen'[t] = DOMAIN seen[t] \cup {w} /\ seen'[t][w] = mem[w]
          /\ \A a \in DOMAIN seen[t] : a # w => seen'[t][a] = seen[t][a]
      BY <2>1
    <3>2. CASE here = "first" /\ w = "x" /\ there = "second"
      BY <1>0, <1>1, <1>3, <1>10, <2>1, <3>1, <3>2, ThreeWords DEF ViewOf
    <3>3. CASE here = "second" /\ w = "y" /\ there = "unlock"
      BY <1>0, <1>1, <1>3, <1>10, <2>1, <2>3, <3>1, <3>3, ThreeWords DEF ViewOf
    <3> QED
      BY <3>2, <3>3 DEF Accesses
  <2>5. Transactions' /\ Views'
    BY <1>1, <2>1, <2>2, <2>4, TransactionsFrame, ViewsFrame DEF Undisturbed
  <2>6. MemoryIs'
    BY <1>1, <1>10, <2>1, MemoryFrame
  <2> QED
    BY <1>4, <1>6, <1>7, <2>5, <2>6 DEF IInv
<1> QED
  BY <1>8, <1>9, <1>10

-----------------------------------------------------------------------------

\* At first nobody is inside and nothing is done.
LEMMA InitIInv == Setting /\ Init => IInv
<1> SUFFICES ASSUME Setting, Init PROVE IInv
  OBVIOUS
<1>1. TxTypes
  BY DEF Setting, Init, TxTypes, Labels, Flags, OtherFlags
<1>2. Counted /\ Locked /\ Apart
  BY DEF Setting, Init, Counted, Locked, Apart, Critical, Holds, Inside
<1>3. Transactions
  <2>1. ASSUME NEW t \in Tasks PROVE TransactionOf(t)
    BY DEF Init, TransactionOf, Inside, Nothing
  <2> QED
    BY <2>1 DEF Transactions, TransactionOf
<1>4. MemoryIs
  <2>1. \A t \in Tasks : Done(t) = 0
    BY DEF Init, Done, Setting
  <2>2. Completed = {}
    BY <2>1 DEF Completed, Tasks
  <2>3. \A t \in Writers : ~Holds(t)
    BY DEF Init, Holds, Inside, Tasks
  <2>4. \A w \in Words : mem[w] = 0 + 0
    BY DEF Init
  <2> QED
    BY <2>2, <2>3, <2>4, FS_EmptySet DEF MemoryIs
<1>5. Views
  BY DEF Init, Views, ViewOf, Nothing, Words
<1> QED
  BY <1>1, <1>2, <1>3, <1>4, <1>5 DEF IInv

\* Every step preserves the invariant.
LEMMA NextIInv == Setting /\ IInv /\ [Next]_vars => IInv'
<1> SUFFICES ASSUME Setting, IInv, [Next]_vars PROVE IInv'
  OBVIOUS
<1>1. CASE UNCHANGED vars
  <2>1. UNCHANGED Completed
    BY <1>1 DEF vars, Completed, Done
  <2> QED
    BY <1>1, <2>1 DEF vars, memoryVars, txVars, IInv, TxTypes, Counted, Transactions, Locked, Apart, MemoryIs,
                 Views, ViewOf, Critical, Holds, Inside, Touched
<1>2. TxTypes'
  BY TypesNext
<1>3. ASSUME NEW t \in Tasks, First(t) \/ Second(t) PROVE IInv'
  BY <1>2, <1>3, TouchStep DEF First, Second, Accesses, Words
<1>4. ASSUME NEW t \in Tasks, Step(t) \/ Interrupt(t) PROVE IInv'
  BY <1>2, <1>3, <1>4, LocalSteps, CheckStep, AcquireStep, LockStep, XEndStep, UnlockStep, ReleaseStep DEF Step
<1> QED
  BY <1>1, <1>4 DEF Next

\* The inductive invariant holds of every behaviour.
THEOREM ElisionInvariance == Setting /\ Spec => []IInv
<1> SUFFICES ASSUME Setting PROVE Spec => []IInv
  OBVIOUS
<1>1. Init => IInv
  BY InitIInv
<1>2. IInv /\ [Next]_vars => IInv'
  BY NextIInv
<1> QED
  BY <1>1, <1>2, PTL DEF Spec

\* The tasks, the shadow lock and the transactions keep their types.
THEOREM ElisionTypeCorrect == Setting /\ Spec => []TypeOK
<1>1. IInv => TypeOK
  <2> SUFFICES ASSUME IInv PROVE TypeOK
    OBVIOUS
  <2>1. TxTypes /\ Transactions
    BY DEF IInv
  <2>2. mutex \in Tasks \cup {NoTask}
    BY DEF IInv, Locked
  <2>3. ASSUME NEW t \in Tasks PROVE DOMAIN stores[t] \subseteq Words /\ Range(stores[t]) \subseteq Nat
    <3>1. stores[t] = [w \in IF t \in active /\ t \in Writers THEN Touched(t) ELSE {} |-> mem[w] + 1]
      BY <2>1 DEF Transactions
    <3>2. Touched(t) \subseteq Words
      BY TouchedInside
    <3> QED
      BY <2>1, <3>1, <3>2 DEF Range, TxTypes
  <2>4. ASSUME NEW t \in Tasks PROVE DOMAIN seen[t] \subseteq Words /\ Range(seen[t]) \subseteq Nat
    BY DEF Range, IInv, Views, ViewOf
  <2> QED
    BY <2>1, <2>2, <2>3, <2>4 DEF TypeOK, TxTypes
<1> QED
  BY <1>1, ElisionInvariance, PTL

\* Elided and locked operations exclude each other, for any number of tasks:
\* the load of the shadow lock is enough, whatever rolls the transactions back.
THEOREM ElisionIsExclusive == Setting /\ Spec => []ElisionExcludes
<1>1. IInv => ElisionExcludes
  <2> SUFFICES ASSUME IInv PROVE ElisionExcludes
    OBVIOUS
  <2>1. ASSUME NEW t \in Tasks, NEW u \in Tasks, t # u, Holds(t) PROVE ~Inside(u)
    BY <2>1, OneCritical DEF Critical
  <2>2. ASSUME NEW t \in Tasks, pc[t] = "mutex" PROVE mutex = NoTask
    BY <2>2 DEF IInv, Locked, Critical, Holds, Inside
  <2> QED
    BY <2>1, <2>2 DEF ElisionExcludes
<1> QED
  BY <1>1, ElisionInvariance, PTL

\* No call of the procedure is lost or done twice, and the function sees both
\* words as of one moment.
THEOREM ElidedCallsAreAtomic == Setting /\ Spec => []CallsAtomic
<1> SUFFICES ASSUME Setting PROVE Spec => []CallsAtomic
  OBVIOUS
<1>1. IInv => CallsAtomic
  <2> SUFFICES ASSUME IInv PROVE CallsAtomic
    OBVIOUS
  <2>1. ASSUME \A t \in Tasks : ~Holds(t), NEW w \in Words PROVE mem[w] = Cardinality(Completed)
    <3>1. \A t \in Writers : ~Holds(t)
      BY <2>1 DEF Tasks
    <3>2. mem[w] = Cardinality(Completed) + 0
      BY <3>1 DEF IInv, MemoryIs
    <3> QED
      BY <3>2, CompletedFinite
  <2>2. ASSUME NEW t \in Readers, Words = DOMAIN seen[t] PROVE seen[t]["x"] = seen[t]["y"]
    BY <2>2 DEF IInv, Views, ViewOf, Tasks
  <2> QED
    BY <2>1, <2>2 DEF CallsAtomic
<1>2. Spec => []IInv
  BY ElisionInvariance
<1> QED
  BY <1>1, <1>2, PTL

-----------------------------------------------------------------------------
(* KMeans for any number of tasks, points and clusters, and chunks of any   *)
(* size.                                                                    *)
(*                                                                          *)
(* In each loop a point is in one of three places: not handed out yet,      *)
(* which is what lies beyond Q_Index; in what one task has still to do      *)
(* (Todo); or done (Handed).  A task that asks for no more knows that       *)
(* everything is handed out (Chunks).                                       *)

MeansSetting ==
  /\ NThreads \in Nat \ {0} /\ NPoints \in Nat /\ NClusters \in Nat
  /\ CHUNK \in Nat \ {0} /\ MaxLoops \in Nat
  /\ Nearest \subseteq [Points -> Centers]

InLoop == main \in {"start", "finish", "centers"}

\* Labels of a task that has a chunk, and from its rendezvous Start to Finish.
Busy == {"compare", "write", "addIndex"}
Working == Busy \cup {"addDelta", "finish"}

\* The main task meets the tasks one after the other.
Meetings ==
  /\ main \in {"centers", "done"} => i = 1
  /\ main \notin {"end", "done"} => loop < MaxLoops
  /\ \A w \in Group :
       /\ main = "start" => work[w] \in IF w < i THEN Working ELSE {"start"}
       /\ main = "finish" => work[w] \in IF w < i THEN {"repeat"} ELSE Working
       /\ main = "centers" => work[w] = "repeat"
       /\ main = "repeat" => work[w] = IF w < i THEN "start" ELSE "repeat"
       /\ main = "end" => work[w] = IF w < i THEN "done" ELSE "repeat"
       /\ main = "done" => work[w] = "done"

\* Where the chunk of each task's first turn begins.
Turn(w) == (w - 1) * CHUNK

\* A chunk is below Q_Index, and who asks for no more has seen it beyond the
\* last point.
Chunks ==
  /\ InLoop => NThreads * CHUNK <= Q_Index
  /\ \A w \in Group :
       /\ work[w] \in Busy =>
            /\ Start_Pos[w] + CHUNK <= Q_Index
            /\ Stop_Pos[w] = Smaller(Start_Pos[w] + CHUNK, NPoints)
       /\ work[w] \in {"compare", "write"} => point[w] > 0 /\ point[w] <= Stop_Pos[w]
       /\ InLoop /\ work[w] \in {"addDelta", "finish", "repeat"} => NPoints <= Q_Index

\* The points a task has still to do.
Todo(w) ==
  IF work[w] = "start" THEN Turn(w) + 1 .. Smaller(Turn(w) + CHUNK, NPoints)
  ELSE IF work[w] \in {"compare", "write"} THEN point[w] .. Stop_Pos[w] ELSE {}

\* Every point is in one place.
Handed ==
  /\ \A p \in Points : done[p] \in {0, 1}
  /\ InLoop =>
       /\ \A p \in Points : done[p] = 0 <=> (p > Q_Index \/ \E w \in Group : p \in Todo(w))
       /\ \A w \in Group : \A p \in Todo(w) : p <= Q_Index
       /\ \A w, v \in Group : w # v => Todo(w) \cap Todo(v) = {}

Assigned ==
  InLoop => /\ \A p \in Points : done[p] = 1 => Membership[p] = nearest[p]
            /\ \A w \in Group : work[w] = "write" => Membership[point[w]] = nearest[point[w]]

\* New_Centers holds the points that are done.
DoneFor(c) == {p \in Points : done[p] = 1 /\ nearest[p] = c}
Sums ==
  /\ InLoop => \A c \in Centers : len[c] = Cardinality(DoneFor(c))
  /\ main = "repeat" => \A c \in Centers : len[c] = 0

\* The changes each task has counted, and those it has added in this loop.
Noted == {d \in Group \X Nat : 1 <= d[2] /\ d[2] <= Local_Delta[d[1]]}
Passed == {d \in Noted : work[d[1]] \in {"finish", "repeat"}}
Changes ==
  /\ IsFiniteSet(Noted) /\ Cardinality(Noted) = changed
  /\ InLoop => Delt = Cardinality(Passed)

MeansIInv == MeansTypeOK /\ Meetings /\ Chunks /\ Handed /\ Assigned /\ Sums /\ Changes

-----------------------------------------------------------------------------
(* Chunks of points. *)

LEMMA TimesMonotone ==
  ASSUME NEW a \in Nat, NEW b \in Nat, NEW c \in Nat, a <= b
  PROVE  a * c \in Nat /\ b * c \in Nat /\ a * c <= b * c
<1>1. PICK d \in Nat : b = a + d
  <2>1. b - a \in Nat /\ b = a + (b - a)
    OBVIOUS
  <2> QED
    BY <2>1
<1>2. b * c = a * c + d * c
  BY <1>1
<1>3. a * c \in Nat /\ d * c \in Nat
  OBVIOUS
<1> QED
  BY <1>2, <1>3

\* The chunks of the tasks' first turns follow one another.
LEMMA Turns ==
  ASSUME MeansSetting, NEW w \in Group
  PROVE  /\ Turn(w) \in Nat /\ NThreads * CHUNK \in Nat /\ CHUNK \in Nat \ {0}
         /\ Turn(w) + CHUNK <= NThreads * CHUNK
         /\ \A v \in Group : w < v => Turn(w) + CHUNK <= Turn(v)
<1>0. w \in Nat /\ w - 1 \in Nat /\ w <= NThreads /\ NThreads \in Nat /\ CHUNK \in Nat /\ CHUNK # 0
  BY DEF MeansSetting, Group
<1>1. Turn(w) + CHUNK = w * CHUNK
  BY <1>0 DEF Turn
<1>2. Turn(w) \in Nat /\ NThreads * CHUNK \in Nat /\ w * CHUNK <= NThreads * CHUNK
  BY <1>0, TimesMonotone DEF Turn
<1>3. ASSUME NEW v \in Group, w < v PROVE w * CHUNK <= Turn(v)
  <2>1. v - 1 \in Nat /\ w <= v - 1
    BY <1>0, <1>3 DEF Group
  <2> QED
    BY <1>0, <2>1, TimesMonotone DEF Turn
<1> QED
  BY <1>0, <1>1, <1>2, <1>3

\* Every point lies in one of them, or beyond them all.
LEMMA TurnOf ==
  ASSUME MeansSetting, NEW p \in Points, p <= NThreads * CHUNK
  PROVE  \E w \in Group : Turn(w) < p /\ p <= Turn(w) + CHUNK
<1>0. p \in Nat /\ p > 0 /\ p - 1 \in Nat /\ CHUNK \in Nat /\ CHUNK # 0 /\ NThreads \in Nat
  BY DEF MeansSetting, Points
<1> DEFINE q == (p - 1) \div CHUNK
<1> DEFINE r == (p - 1) % CHUNK
<1>1. p - 1 = CHUNK * q + r /\ q \in Nat /\ r \in Nat /\ r < CHUNK
  BY <1>0
<1> HIDE DEF q, r
<1>2. CHUNK * q = q * CHUNK /\ q * CHUNK \in Nat
  BY <1>0, <1>1
<1>3. q < NThreads
  <2>1. CASE NThreads <= q
    <3>1. NThreads * CHUNK <= q * CHUNK /\ NThreads * CHUNK \in Nat
      BY <1>0, <1>1, <2>1, TimesMonotone
    <3> QED
      BY <1>0, <1>1, <1>2, <3>1
  <2> QED
    BY <1>0, <1>1, <2>1
<1>4. q + 1 \in Group /\ Turn(q + 1) = q * CHUNK
  <2>1. (q + 1) - 1 = q
    BY <1>1
  <2> QED
    BY <1>0, <1>1, <1>3, <2>1 DEF Group, Turn
<1> QED
  BY <1>0, <1>1, <1>2, <1>4

\* The points a task has to do are points.
LEMMA SmallerIs ==
  ASSUME NEW a \in Nat, NEW b \in Nat
  PROVE  Smaller(a, b) \in Nat /\ Smaller(a, b) <= a /\ Smaller(a, b) <= b /\ Smaller(a, b) \in {a, b}
  BY DEF Smaller

\* While a task is at work the main task waits for it or for the one before.
LEMMA WorkInLoop ==
  ASSUME MeansIInv, NEW w \in Group, work[w] \in Working
  PROVE  main \in {"start", "finish"} /\ InLoop
  BY DEF MeansIInv, Meetings, MeansTypeOK, InLoop, Working, Busy

\* The point a task works on.
LEMMA PointIs ==
  ASSUME MeansSetting, MeansIInv, NEW w \in Group, work[w] \in {"compare", "write"}
  PROVE  /\ point[w] \in Points /\ point[w] \in Nat /\ Stop_Pos[w] \in Nat
         /\ point[w] \in Todo(w) /\ point[w] <= Stop_Pos[w] /\ Stop_Pos[w] <= NPoints
         /\ nearest[point[w]] \in Centers
<1>1. point[w] \in Nat /\ Stop_Pos[w] \in 0 .. NPoints /\ NPoints \in Nat
  BY DEF MeansIInv, MeansTypeOK, MeansSetting
<1>2. point[w] > 0 /\ point[w] <= Stop_Pos[w]
  BY DEF MeansIInv, Chunks
<1>3. point[w] \in Points
  BY <1>1, <1>2 DEF Points
<1>4. nearest \in [Points -> Centers]
  BY DEF MeansIInv, MeansTypeOK, MeansSetting
<1> QED
  BY <1>1, <1>2, <1>3, <1>4 DEF Todo

-----------------------------------------------------------------------------
(* The types. *)

LEMMA ChunkTypes ==
  ASSUME MeansSetting, MeansTypeOK, NEW w \in Group, NEW pos \in Nat, TakeChunk(w, pos)
  PROVE  /\ Start_Pos' \in [Group -> Nat] /\ Stop_Pos' \in [Group -> 0 .. NPoints]
         /\ point' \in [Group -> Nat]
         /\ work' \in [Group -> {"start", "compare", "write", "addIndex", "addDelta", "finish",
                                 "repeat", "done"}]
<1>1. pos + CHUNK \in Nat /\ NPoints \in Nat /\ pos + 1 \in Nat
  BY DEF MeansSetting
<1>2. Smaller(pos + CHUNK, NPoints) \in 0 .. NPoints
  BY <1>1, SmallerIs
<1> HIDE DEF Smaller
<1> QED
  BY <1>1, <1>2 DEF TakeChunk, MeansTypeOK

LEMMA NextTaskTypes ==
  ASSUME MeansSetting, MeansTypeOK, NEW there, NextTask(there),
         there \in {"start", "finish", "centers", "done"}
  PROVE  main' \in {"start", "finish", "centers", "repeat", "end", "done"} /\ i' \in Group
<1>1. /\ main \in {"start", "finish", "centers", "repeat", "end", "done"}
      /\ i \in 1 .. NThreads /\ NThreads \in Nat \ {0}
  BY DEF MeansTypeOK, MeansSetting, Group
<1>2. CASE i < NThreads
  BY <1>1, <1>2 DEF NextTask, Group
<1>3. CASE ~ (i < NThreads)
  BY <1>1, <1>3 DEF NextTask, Group
<1> QED
  BY <1>2, <1>3

LEMMA MeansTypesNext == MeansSetting /\ MeansIInv /\ [MeansNext]_meansVars => MeansTypeOK'
<1> SUFFICES ASSUME MeansSetting, MeansIInv, [MeansNext]_meansVars PROVE MeansTypeOK'
  OBVIOUS
<1>0. MeansTypeOK /\ Meetings
  BY DEF MeansIInv
<1>1. CASE UNCHANGED meansVars
  BY <1>0, <1>1 DEF MeansTypeOK, meansVars, mainVars, localVars, history
<1>2. ASSUME NEW w \in Group, Work(w) PROVE MeansTypeOK'
  <2>1. CASE Compare(w)
    <3>1. nearest[point[w]] \in Centers /\ point[w] \in Points
      BY <2>1, PointIs DEF Compare
    <3> DEFINE another == IF Membership[point[w]] # nearest[point[w]] THEN 1 ELSE 0
    <3>2. another \in Nat
      OBVIOUS
    <3>3. /\ Local_Delta' = [Local_Delta EXCEPT ![w] = @ + another] /\ changed' = changed + another
          /\ Membership' = [Membership EXCEPT ![point[w]] = nearest[point[w]]]
          /\ work' = [work EXCEPT ![w] = "write"]
          /\ UNCHANGED <<mainVars, nearest, Q_Index, Delt, len, Start_Pos, Stop_Pos, point, done>>
      BY <2>1 DEF Compare
    <3> HIDE DEF another
    <3> QED
      BY <1>0, <3>1, <3>2, <3>3 DEF MeansTypeOK, mainVars
  <2>2. CASE WritePoints(w)
    <3>1. nearest[point[w]] \in Centers /\ point[w] \in Points
      BY <2>2, PointIs DEF WritePoints
    <3> QED
      BY <1>0, <2>2, <3>1 DEF WritePoints, MeansTypeOK, mainVars
  <2>3. CASE AddIndex(w)
    <3>1. Q_Index \in Nat /\ Q_Index + CHUNK \in Nat
      BY <1>0 DEF MeansTypeOK, MeansSetting
    <3> QED
      BY <1>0, <2>3, <3>1, ChunkTypes DEF AddIndex, MeansTypeOK, mainVars, history
  <2>4. CASE AddDelta(w)
    BY <1>0, <2>4 DEF AddDelta, MeansTypeOK, mainVars, localVars, history
  <2> QED
    BY <1>2, <2>1, <2>2, <2>3, <2>4 DEF Work
<1>3. CASE Start
  <2>1. i \in Group /\ Turn(i) \in Nat
    BY <1>0, Turns DEF MeansTypeOK
  <2>2. TakeChunk(i, Turn(i)) /\ NextTask("finish")
    BY <1>3 DEF Start, Turn
  <2> QED
    BY <1>0, <1>3, <2>1, <2>2, ChunkTypes, NextTaskTypes DEF Start, MeansTypeOK, history
<1>4. CASE Finish
  BY <1>0, <1>4, NextTaskTypes DEF Finish, MeansTypeOK, localVars, history
<1>5. CASE NewCenters
  <2>1. loop + 1 \in -1 .. MaxLoops
    BY <1>0, <1>5 DEF NewCenters, MeansTypeOK, Meetings, MeansSetting
  <2> QED
    BY <1>0, <1>5, <2>1 DEF NewCenters, MeansTypeOK, localVars, history
<1>6. CASE Repeat
  <2>1. NThreads * CHUNK \in Nat
    BY <1>0, Turns DEF MeansTypeOK
  <2>2. NextTask("start") /\ work' = [work EXCEPT ![i] = "start"]
    BY <1>6 DEF Repeat
  <2>3. Q_Index' \in Nat /\ Delt' \in Nat /\ done' \in [Points -> Nat]
    BY <1>0, <1>6, <2>1 DEF Repeat, MeansTypeOK
  <2> QED
    BY <1>0, <1>6, <2>2, <2>3, NextTaskTypes DEF Repeat, MeansTypeOK, localVars
<1>7. CASE End
  BY <1>0, <1>7, NextTaskTypes DEF End, MeansTypeOK, localVars, history
<1> QED
  BY <1>1, <1>2, <1>3, <1>4, <1>5, <1>6, <1>7 DEF MeansNext, Main

-----------------------------------------------------------------------------
(* The meetings. *)

LEMMA StaysAtWork ==
  ASSUME MeansSetting, MeansIInv, NEW w \in Group, NEW there \in Working, work[w] \in Working,
         work' = [work EXCEPT ![w] = there], UNCHANGED mainVars
  PROVE  Meetings'
<1>1. work \in [Group -> {"start", "compare", "write", "addIndex", "addDelta", "finish",
                          "repeat", "done"}]
  BY DEF MeansIInv, MeansTypeOK
<1>2. work'[w] = there /\ \A v \in Group : v # w => work'[v] = work[v]
  BY <1>1
<1>3. main' = main /\ i' = i /\ loop' = loop
  BY DEF mainVars
<1> QED
  BY <1>2, <1>3 DEF MeansIInv, Meetings, Working, Busy

\* A meeting: one task goes on and the main task turns to the next one.
LEMMA Met ==
  ASSUME MeansSetting, MeansTypeOK, NEW there, NEW here, NextTask(there),
         work' = [work EXCEPT ![i] = here]
  PROVE  /\ i \in Group /\ work'[i] = here /\ \A v \in Group : v # i => work'[v] = work[v]
         /\ i < NThreads => i' = i + 1 /\ main' = main /\ \A v \in Group : v < i' <=> v < i \/ v = i
         /\ ~ (i < NThreads) => i' = 1 /\ main' = there /\ \A v \in Group : v < i \/ v = i
<1>1. i \in Group /\ work'[i] = here /\ \A v \in Group : v # i => work'[v] = work[v]
  BY DEF MeansTypeOK
<1>2. CASE i < NThreads
  BY <1>1, <1>2 DEF NextTask, Group
<1>3. CASE i = NThreads
  BY <1>1, <1>3 DEF NextTask, Group, MeansSetting
<1> QED
  BY <1>1, <1>2, <1>3 DEF Group, MeansSetting

LEMMA NoneBefore == ASSUME NEW v \in Group PROVE ~ (v < 1)
  BY DEF Group

LEMMA MeetingsNext == MeansSetting /\ MeansIInv /\ [MeansNext]_meansVars => Meetings'
<1> SUFFICES ASSUME MeansSetting, MeansIInv, [MeansNext]_meansVars PROVE Meetings'
  OBVIOUS
<1>0. MeansTypeOK /\ Meetings
  BY DEF MeansIInv
<1>1. CASE UNCHANGED meansVars
  BY <1>0, <1>1 DEF Meetings, meansVars, mainVars
<1>2. ASSUME NEW w \in Group, Work(w) PROVE Meetings'
  <2>1. PICK there \in Working :
          work[w] \in Working /\ work' = [work EXCEPT ![w] = there] /\ UNCHANGED mainVars
    <3>1. CASE Compare(w)
      BY <3>1 DEF Compare, Working, Busy
    <3>2. CASE WritePoints(w)
      BY <3>2 DEF WritePoints, Working, Busy
    <3>3. CASE AddIndex(w)
      BY <3>3 DEF AddIndex, TakeChunk, Working, Busy
    <3>4. CASE AddDelta(w)
      BY <3>4 DEF AddDelta, Working, Busy
    <3> QED
      BY <1>2, <3>1, <3>2, <3>3, <3>4 DEF Work
  <2> QED
    BY <2>1, StaysAtWork
<1>3. CASE Start
  <2>1. PICK here \in {"compare", "addDelta"} : work' = [work EXCEPT ![i] = here]
    BY <1>3 DEF Start, TakeChunk
  <2>2. main = "start" /\ NextTask("finish") /\ loop' = loop
    BY <1>3 DEF Start
  <2>3. \A v \in Group : ~ (v < 1)
    BY NoneBefore
  <2>4. CASE i < NThreads
    <3>1. i' = i + 1 /\ main' = main /\ \A v \in Group : v < i' <=> v < i \/ v = i
      BY <1>0, <2>1, <2>2, <2>4, Met
    <3>2. i \in Group /\ \A v \in Group : work'[v] = IF v = i THEN here ELSE work[v]
      BY <1>0, <2>1, <2>2, Met
    <3> QED
      BY <1>0, <2>1, <2>2, <3>1, <3>2 DEF Meetings, Working, Busy
  <2>5. CASE ~ (i < NThreads)
    <3>1. i' = 1 /\ main' = "finish" /\ \A v \in Group : v < i \/ v = i
      BY <1>0, <2>1, <2>2, <2>5, Met
    <3>2. i \in Group /\ \A v \in Group : work'[v] = IF v = i THEN here ELSE work[v]
      BY <1>0, <2>1, <2>2, Met
    <3> QED
      BY <1>0, <2>1, <2>2, <2>3, <3>1, <3>2 DEF Meetings, Working, Busy
  <2> QED
    BY <2>4, <2>5
<1>4. CASE Finish
  <2>1. work' = [work EXCEPT ![i] = "repeat"]
    BY <1>4 DEF Finish
  <2>2. main = "finish" /\ NextTask("centers") /\ loop' = loop
    BY <1>4 DEF Finish
  <2>3. \A v \in Group : ~ (v < 1)
    BY NoneBefore
  <2>4. CASE i < NThreads
    <3>1. i' = i + 1 /\ main' = main /\ \A v \in Group : v < i' <=> v < i \/ v = i
      BY <1>0, <2>1, <2>2, <2>4, Met
    <3>2. i \in Group /\ \A v \in Group : work'[v] = IF v = i THEN "repeat" ELSE work[v]
      BY <1>0, <2>1, <2>2, Met
    <3> QED
      BY <1>0, <2>1, <2>2, <3>1, <3>2 DEF Meetings, Working, Busy
  <2>5. CASE ~ (i < NThreads)
    <3>1. i' = 1 /\ main' = "centers" /\ \A v \in Group : v < i \/ v = i
      BY <1>0, <2>1, <2>2, <2>5, Met
    <3>2. i \in Group /\ \A v \in Group : work'[v] = IF v = i THEN "repeat" ELSE work[v]
      BY <1>0, <2>1, <2>2, Met
    <3> QED
      BY <1>0, <2>1, <2>2, <2>3, <3>1, <3>2 DEF Meetings, Working, Busy
  <2> QED
    BY <2>4, <2>5
<1>5. CASE NewCenters
  <2>1. \A v \in Group : ~ (v < 1)
    BY NoneBefore
  <2>2. i = 1 /\ i' = 1 /\ loop < MaxLoops /\ \A v \in Group : work'[v] = "repeat"
    BY <1>0, <1>5 DEF NewCenters, Meetings
  <2>3. main' \in {"end", "repeat"} /\ (main' = "repeat" => loop' < MaxLoops)
    BY <1>0, <1>5, <2>2 DEF NewCenters, MeansTypeOK, MeansSetting
  <2> QED
    BY <2>1, <2>2, <2>3 DEF Meetings
<1>6. CASE Repeat
  <2>1. work' = [work EXCEPT ![i] = "start"]
    BY <1>6 DEF Repeat
  <2>2. main = "repeat" /\ NextTask("start") /\ loop' = loop
    BY <1>6 DEF Repeat
  <2>3. \A v \in Group : ~ (v < 1)
    BY NoneBefore
  <2>4. CASE i < NThreads
    <3>1. i' = i + 1 /\ main' = main /\ \A v \in Group : v < i' <=> v < i \/ v = i
      BY <1>0, <2>1, <2>2, <2>4, Met
    <3>2. i \in Group /\ \A v \in Group : work'[v] = IF v = i THEN "start" ELSE work[v]
      BY <1>0, <2>1, <2>2, Met
    <3> QED
      BY <1>0, <2>1, <2>2, <3>1, <3>2 DEF Meetings
  <2>5. CASE ~ (i < NThreads)
    <3>1. i' = 1 /\ main' = "start" /\ \A v \in Group : v < i \/ v = i
      BY <1>0, <2>1, <2>2, <2>5, Met
    <3>2. i \in Group /\ \A v \in Group : work'[v] = IF v = i THEN "start" ELSE work[v]
      BY <1>0, <2>1, <2>2, Met
    <3> QED
      BY <1>0, <2>1, <2>2, <2>3, <3>1, <3>2 DEF Meetings
  <2> QED
    BY <2>4, <2>5
<1>7. CASE End
  <2>1. work' = [work EXCEPT ![i] = "done"]
    BY <1>7 DEF End
  <2>2. main = "end" /\ NextTask("done") /\ loop' = loop
    BY <1>7 DEF End
  <2>3. \A v \in Group : ~ (v < 1)
    BY NoneBefore
  <2>4. CASE i < NThreads
    <3>1. i' = i + 1 /\ main' = main /\ \A v \in Group : v < i' <=> v < i \/ v = i
      BY <1>0, <2>1, <2>2, <2>4, Met
    <3>2. i \in Group /\ \A v \in Group : work'[v] = IF v = i THEN "done" ELSE work[v]
      BY <1>0, <2>1, <2>2, Met
    <3> QED
      BY <1>0, <2>1, <2>2, <3>1, <3>2 DEF Meetings
  <2>5. CASE ~ (i < NThreads)
    <3>1. i' = 1 /\ main' = "done" /\ \A v \in Group : v < i \/ v = i
      BY <1>0, <2>1, <2>2, <2>5, Met
    <3>2. i \in Group /\ \A v \in Group : work'[v] = IF v = i THEN "done" ELSE work[v]
      BY <1>0, <2>1, <2>2, Met
    <3> QED
      BY <1>0, <2>1, <2>2, <2>3, <3>1, <3>2 DEF Meetings
  <2> QED
    BY <2>4, <2>5
<1> QED
  BY <1>1, <1>2, <1>3, <1>4, <1>5, <1>6, <1>7 DEF MeansNext, Main

-----------------------------------------------------------------------------
(* The chunks. *)

\* What is said of one task, when what it is about stays as it is.
ChunkOf(w) ==
  /\ work[w] \in Busy =>
       /\ Start_Pos[w] + CHUNK <= Q_Index
       /\ Stop_Pos[w] = Smaller(Start_Pos[w] + CHUNK, NPoints)
  /\ work[w] \in {"compare", "write"} => point[w] > 0 /\ point[w] <= Stop_Pos[w]
  /\ InLoop /\ work[w] \in {"addDelta", "finish", "repeat"} => NPoints <= Q_Index

LEMMA SameChunk ==
  ASSUME MeansSetting, MeansTypeOK, NEW w \in Group, ChunkOf(w), Q_Index' \in Nat, Q_Index <= Q_Index',
         InLoop' => InLoop, work'[w] = work[w],
         Start_Pos'[w] = Start_Pos[w], Stop_Pos'[w] = Stop_Pos[w], point'[w] = point[w]
  PROVE  ChunkOf(w)'
<1>1. /\ Q_Index \in Nat /\ CHUNK \in Nat /\ Start_Pos[w] \in Nat /\ NPoints \in Nat
      /\ Start_Pos[w] + CHUNK \in Nat
  BY DEF MeansTypeOK, MeansSetting
<1> HIDE DEF Smaller
<1> QED
  BY <1>1 DEF ChunkOf

\* A chunk is taken at the place where it begins.
LEMMA TakenChunk ==
  ASSUME MeansSetting, MeansTypeOK, NEW w \in Group, NEW pos \in Nat, TakeChunk(w, pos),
         Q_Index' \in Nat, pos + CHUNK <= Q_Index'
  PROVE  /\ ChunkOf(w)'
         /\ \A v \in Group : v # w => /\ work'[v] = work[v] /\ Start_Pos'[v] = Start_Pos[v]
                                      /\ Stop_Pos'[v] = Stop_Pos[v] /\ point'[v] = point[v]
<1>1. pos + CHUNK \in Nat /\ CHUNK \in Nat \ {0} /\ NPoints \in Nat
  BY DEF MeansSetting
<1>2. /\ Smaller(pos + CHUNK, NPoints) \in Nat
      /\ pos < NPoints => pos + 1 <= Smaller(pos + CHUNK, NPoints)
  BY <1>1 DEF Smaller
<1> HIDE DEF Smaller
<1>3. /\ Start_Pos'[w] = pos /\ point'[w] = pos + 1
      /\ pos < NPoints => work'[w] = "compare" /\ Stop_Pos'[w] = Smaller(pos + CHUNK, NPoints)
      /\ ~ (pos < NPoints) => work'[w] = "addDelta"
  BY DEF TakeChunk, MeansTypeOK
<1>4. \A v \in Group : v # w => /\ work'[v] = work[v] /\ Start_Pos'[v] = Start_Pos[v]
                                /\ Stop_Pos'[v] = Stop_Pos[v] /\ point'[v] = point[v]
  BY DEF TakeChunk, MeansTypeOK
<1>5. ASSUME pos < NPoints PROVE ChunkOf(w)'
  BY <1>1, <1>2, <1>3, <1>5 DEF ChunkOf, Busy
<1>6. ASSUME ~ (pos < NPoints) PROVE ChunkOf(w)'
  BY <1>1, <1>3, <1>6 DEF ChunkOf, Busy
<1> QED
  BY <1>4, <1>5, <1>6

LEMMA ChunksNext == MeansSetting /\ MeansIInv /\ [MeansNext]_meansVars => Chunks'
<1> SUFFICES ASSUME MeansSetting, MeansIInv, [MeansNext]_meansVars PROVE Chunks'
  OBVIOUS
<1>0. /\ MeansTypeOK /\ Meetings /\ (InLoop => NThreads * CHUNK <= Q_Index)
      /\ \A v \in Group : ChunkOf(v)
  BY DEF MeansIInv, Chunks, ChunkOf
<1>t. MeansTypeOK'
  BY MeansTypesNext
<1>q. Q_Index \in Nat /\ Q_Index' \in Nat /\ CHUNK \in Nat /\ NPoints \in Nat
  BY <1>0, <1>t DEF MeansTypeOK, MeansSetting
<1>s. SUFFICES (InLoop' => NThreads * CHUNK <= Q_Index') /\ \A v \in Group : ChunkOf(v)'
  BY DEF Chunks, ChunkOf
<1> HIDE DEF Smaller
<1>1. CASE UNCHANGED meansVars
  BY <1>0, <1>1 DEF ChunkOf, InLoop, meansVars, mainVars, localVars
<1>2. ASSUME NEW w \in Group, Work(w)
      PROVE (InLoop' => NThreads * CHUNK <= Q_Index') /\ \A v \in Group : ChunkOf(v)'
  <2>0. NThreads * CHUNK \in Nat
    BY Turns
  <2>1. CASE Compare(w)
    <3>1. ChunkOf(w)'
      BY <1>0, <2>1 DEF Compare, ChunkOf, MeansTypeOK, Busy
    <3>2. ASSUME NEW v \in Group, v # w PROVE ChunkOf(v)'
      BY <1>0, <2>1, <3>2 DEF Compare, ChunkOf, MeansTypeOK, mainVars, InLoop
    <3> QED
      BY <1>0, <2>1, <3>1, <3>2 DEF Compare, mainVars, InLoop
  <2>2. CASE WritePoints(w)
    <3>1. /\ work[w] = "write" /\ main' = main /\ Q_Index' = Q_Index
          /\ point'[w] = point[w] + 1 /\ Start_Pos'[w] = Start_Pos[w] /\ Stop_Pos'[w] = Stop_Pos[w]
          /\ work'[w] = IF point[w] < Stop_Pos[w] THEN "compare"
                        ELSE IF Start_Pos[w] + CHUNK < NPoints THEN "addIndex" ELSE "addDelta"
          /\ point[w] \in Nat /\ Stop_Pos[w] \in Nat /\ Start_Pos[w] \in Nat
      BY <1>0, <2>2 DEF WritePoints, MeansTypeOK, mainVars
    <3>2. ChunkOf(w)'
      BY <1>0, <1>q, <3>1 DEF ChunkOf, Busy
    <3>3. ASSUME NEW v \in Group, v # w PROVE ChunkOf(v)'
      BY <1>0, <2>2, <3>3 DEF WritePoints, ChunkOf, MeansTypeOK, mainVars, InLoop
    <3> QED
      BY <1>0, <2>2, <3>2, <3>3 DEF WritePoints, mainVars, InLoop
  <2>3. CASE AddIndex(w)
    <3>1. TakeChunk(w, Q_Index) /\ Q_Index' = Q_Index + CHUNK /\ main' = main
      BY <2>3 DEF AddIndex, mainVars
    <3>2. Q_Index + CHUNK <= Q_Index' /\ Q_Index <= Q_Index'
      BY <1>q, <3>1
    <3>3. ChunkOf(w)'
      BY <1>0, <1>q, <3>1, <3>2, TakenChunk
    <3>4. ASSUME NEW v \in Group, v # w PROVE ChunkOf(v)'
      <4>1. /\ work'[v] = work[v] /\ Start_Pos'[v] = Start_Pos[v]
            /\ Stop_Pos'[v] = Stop_Pos[v] /\ point'[v] = point[v]
        BY <1>0, <1>q, <3>1, <3>2, <3>4, TakenChunk
      <4>2. ChunkOf(v) /\ (InLoop' => InLoop)
        BY <1>0, <3>1 DEF InLoop
      <4> QED
        BY <1>0, <1>q, <3>2, <4>1, <4>2, SameChunk
    <3> QED
      BY <1>0, <1>q, <2>0, <3>1, <3>2, <3>3, <3>4 DEF InLoop
  <2>4. CASE AddDelta(w)
    <3>1. ChunkOf(w)'
      BY <1>0, <2>4 DEF AddDelta, ChunkOf, MeansTypeOK, Busy, mainVars, InLoop, localVars
    <3>2. ASSUME NEW v \in Group, v # w PROVE ChunkOf(v)'
      BY <1>0, <2>4, <3>2 DEF AddDelta, ChunkOf, MeansTypeOK, mainVars, InLoop, localVars
    <3> QED
      BY <1>0, <2>4, <3>1, <3>2 DEF AddDelta, mainVars, InLoop
  <2> QED
    BY <1>2, <2>1, <2>2, <2>3, <2>4 DEF Work
<1>3. CASE Start
  <2>0. PICK j \in Group : j = i
    BY <1>0 DEF MeansTypeOK
  <2>1. /\ Turn(j) \in Nat /\ NThreads * CHUNK \in Nat
        /\ Turn(j) + CHUNK <= NThreads * CHUNK
    BY <1>0, Turns DEF MeansTypeOK
  <2>2. TakeChunk(j, Turn(j)) /\ Q_Index' = Q_Index /\ InLoop
    BY <1>3, <2>0 DEF Start, Turn, InLoop
  <2>3. Turn(j) + CHUNK <= Q_Index' /\ Q_Index <= Q_Index' /\ NThreads * CHUNK <= Q_Index'
    BY <1>0, <1>q, <2>1, <2>2
  <2>4. ChunkOf(j)'
    BY <1>0, <1>q, <2>1, <2>2, <2>3, TakenChunk
  <2>5. ASSUME NEW v \in Group, v # j PROVE ChunkOf(v)'
    <3>1. /\ work'[v] = work[v] /\ Start_Pos'[v] = Start_Pos[v]
          /\ Stop_Pos'[v] = Stop_Pos[v] /\ point'[v] = point[v]
      BY <1>0, <1>q, <2>1, <2>2, <2>3, <2>5, TakenChunk
    <3>2. ChunkOf(v)
      BY <1>0
    <3> QED
      BY <1>0, <1>q, <2>2, <2>3, <3>1, <3>2, SameChunk
  <2> QED
    BY <2>3, <2>4, <2>5
<1>4. CASE Finish
  <2>1. /\ InLoop /\ Q_Index' = Q_Index /\ i \in Group /\ work' = [work EXCEPT ![i] = "repeat"]
        /\ work[i] = "finish" /\ UNCHANGED localVars
    BY <1>0, <1>4 DEF Finish, InLoop, MeansTypeOK
  <2>2. NPoints <= Q_Index
    BY <1>0, <2>1 DEF ChunkOf
  <2>3. ASSUME NEW v \in Group PROVE ChunkOf(v)'
    BY <1>0, <2>1, <2>2, <2>3 DEF ChunkOf, MeansTypeOK, localVars, Busy
  <2> QED
    BY <1>0, <2>1, <2>3
<1>5. CASE NewCenters
  <2>1. ~ InLoop' /\ \A v \in Group : work'[v] = "repeat"
    BY <1>0, <1>5 DEF NewCenters, Meetings, InLoop
  <2> QED
    BY <2>1 DEF ChunkOf, Busy
<1>6. CASE Repeat
  <2>0. NThreads * CHUNK \in Nat
    BY <1>0, Turns DEF MeansTypeOK
  <2>m. Meetings' /\ (main' = "repeat" \/ (main' = "start" /\ i' = 1))
    BY <1>6, MeetingsNext DEF Repeat, NextTask
  <2>n. \A v \in Group : ~ (v < 1)
    BY NoneBefore
  <2>1. \A v \in Group : work'[v] \in {"start", "repeat"} /\ (InLoop' => work'[v] = "start")
    BY <2>m, <2>n DEF Meetings, InLoop
  <2>2. InLoop' => Q_Index' = NThreads * CHUNK
    <3>1. main = "repeat" /\ NextTask("start") /\ (i = NThreads => Q_Index' = NThreads * CHUNK)
      BY <1>6 DEF Repeat
    <3>2. i < NThreads \/ i = NThreads
      BY <1>0 DEF MeansTypeOK, MeansSetting, Group
    <3> QED
      BY <3>1, <3>2 DEF NextTask, InLoop
  <2>3. InLoop' => NThreads * CHUNK <= Q_Index'
    BY <2>0, <2>2
  <2> QED
    BY <2>1, <2>3 DEF ChunkOf, Busy
<1>7. CASE End
  <2>1. ~ InLoop' /\ \A v \in Group : work'[v] \in {"repeat", "done"}
    BY <1>0, <1>7 DEF End, Meetings, InLoop, NextTask, MeansTypeOK
  <2> QED
    BY <2>1 DEF ChunkOf, Busy
<1> QED
  BY <1>1, <1>2, <1>3, <1>4, <1>5, <1>6, <1>7 DEF MeansNext, Main

-----------------------------------------------------------------------------
(* Every point is in one place. *)

LEMMA SameTodo ==
  ASSUME NEW v \in Group, work'[v] = work[v], point'[v] = point[v], Stop_Pos'[v] = Stop_Pos[v]
  PROVE  Todo(v)' = Todo(v)
  BY DEF Todo

LEMMA SameHanded ==
  ASSUME Handed, InLoop' => InLoop, done' = done, Q_Index' = Q_Index,
         InLoop' => \A v \in Group : Todo(v)' = Todo(v)
  PROVE  Handed'
<1>1. CASE InLoop'
  BY <1>1 DEF Handed
<1>2. CASE ~ InLoop'
  BY <1>2 DEF Handed
<1> QED
  BY <1>1, <1>2

\* Before the first meeting of a loop.
Fresh ==
  /\ \A w \in Group : work[w] = "start"
  /\ Q_Index = NThreads * CHUNK
  /\ \A p \in Points : done[p] = 0
FreshIsHanded == MeansSetting /\ Fresh => Handed

LEMMA HandedFirst == FreshIsHanded
<1> SUFFICES ASSUME MeansSetting, Fresh PROVE Handed
  BY DEF FreshIsHanded
<1>0. /\ CHUNK \in Nat /\ NPoints \in Nat
      /\ \A p \in Points : p \in Nat /\ p > 0 /\ p <= NPoints
  BY DEF MeansSetting, Points
<1>1. ASSUME NEW w \in Group
      PROVE  /\ Todo(w) \subseteq Int
             /\ \A p \in Int : p \in Todo(w) <=> Turn(w) < p /\ p <= Turn(w) + CHUNK /\ p <= NPoints
             /\ Turn(w) \in Nat
  <2>1. Turn(w) \in Nat /\ Turn(w) + CHUNK \in Nat
    BY <1>0, Turns
  <2>2. Todo(w) = Turn(w) + 1 .. Smaller(Turn(w) + CHUNK, NPoints)
    BY DEF Fresh, Todo
  <2> HIDE DEF Turn
  <2> QED
    BY <1>0, <2>1, <2>2 DEF Smaller
<1>2. NThreads * CHUNK \in Nat /\ \A w \in Group : Turn(w) + CHUNK <= NThreads * CHUNK
  <2>1. CASE Group = {}
    <3>1. 1 \in Group
      BY DEF MeansSetting, Group
    <3> QED
      BY <2>1, <3>1
  <2>2. CASE Group # {}
    BY <2>2, Turns
  <2> QED
    BY <2>1, <2>2
<1>3. ASSUME NEW p \in Points PROVE p > Q_Index \/ \E w \in Group : p \in Todo(w)
  <2>1. CASE p <= NThreads * CHUNK
    <3>1. PICK w \in Group : Turn(w) < p /\ p <= Turn(w) + CHUNK
      BY <2>1, TurnOf
    <3> QED
      BY <1>0, <1>1, <3>1
  <2> QED
    BY <1>0, <1>2, <2>1 DEF Fresh
<1>4. ASSUME NEW w \in Group, NEW p \in Todo(w) PROVE p <= Q_Index
  <2>1. p \in Int /\ p <= Turn(w) + CHUNK /\ Turn(w) \in Nat
    BY <1>1
  <2> QED
    BY <1>0, <1>2, <2>1 DEF Fresh
<1>5. ASSUME NEW w \in Group, NEW v \in Group, w # v PROVE Todo(w) \cap Todo(v) = {}
  <2>1. w \in Int /\ v \in Int
    BY DEF Group
  <2>2. ASSUME NEW a \in Group, NEW b \in Group, a < b, NEW p \in Todo(a), p \in Todo(b) PROVE FALSE
    <3>1. Turn(a) + CHUNK <= Turn(b)
      BY <2>2, Turns
    <3>2. p \in Int /\ p <= Turn(a) + CHUNK /\ Turn(b) < p /\ Turn(a) \in Nat /\ Turn(b) \in Nat
      BY <1>1, <2>2
    <3> QED
      BY <1>0, <3>1, <3>2
  <2>3. CASE w < v
    BY <2>2, <2>3
  <2>4. CASE v < w
    BY <2>2, <2>4
  <2> QED
    BY <1>5, <2>1, <2>3, <2>4
<1>6. \A p \in Points : done[p] = 0
  BY DEF Fresh
<1> QED
  BY <1>3, <1>4, <1>5, <1>6 DEF Handed

LEMMA HandedFirstNext == FreshIsHanded'
  BY HandedFirst, PTL

\* A point is done.
LEMMA PointDone ==
  ASSUME MeansSetting, MeansIInv, NEW w \in Group, WritePoints(w)
  PROVE  /\ Todo(w)' = Todo(w) \ {point[w]}
         /\ \A v \in Group : v # w => Todo(v)' = Todo(v)
         /\ point[w] \in Points /\ point[w] \in Todo(w) /\ done[point[w]] = 0
         /\ \A p \in Points : done'[p] = IF p = point[w] THEN 1 ELSE done[p]
<1>1. /\ point[w] \in Points /\ point[w] \in Nat /\ Stop_Pos[w] \in Nat
      /\ point[w] \in Todo(w) /\ point[w] <= Stop_Pos[w]
  BY PointIs DEF WritePoints
<1>2. /\ work[w] = "write" /\ point'[w] = point[w] + 1 /\ Stop_Pos'[w] = Stop_Pos[w]
      /\ point[w] < Stop_Pos[w] => work'[w] = "compare"
      /\ ~ (point[w] < Stop_Pos[w]) => work'[w] \in {"addIndex", "addDelta"}
      /\ \A v \in Group : v # w => /\ work'[v] = work[v] /\ point'[v] = point[v]
                                   /\ Stop_Pos'[v] = Stop_Pos[v]
  BY DEF WritePoints, MeansIInv, MeansTypeOK
<1>3. Todo(w) = point[w] .. Stop_Pos[w]
  BY <1>2 DEF Todo
<1>4. Todo(w)' = Todo(w) \ {point[w]}
  <2>1. CASE point[w] < Stop_Pos[w]
    <3>1. Todo(w)' = point[w] + 1 .. Stop_Pos[w]
      BY <1>2, <2>1 DEF Todo
    <3> QED
      BY <1>1, <1>3, <3>1
  <2>2. CASE ~ (point[w] < Stop_Pos[w])
    <3>1. Todo(w)' = {}
      BY <1>2, <2>2 DEF Todo
    <3> QED
      BY <1>1, <1>3, <2>2, <3>1
  <2> QED
    BY <2>1, <2>2
<1>5. InLoop
  BY WorkInLoop DEF WritePoints, Working, Busy
<1>6. done[point[w]] = 0
  BY <1>1, <1>5 DEF MeansIInv, Handed
<1>7. \A p \in Points : done'[p] = IF p = point[w] THEN 1 ELSE done[p]
  BY <1>1, <1>6 DEF WritePoints, MeansIInv, MeansTypeOK
<1> QED
  BY <1>1, <1>2, <1>4, <1>6, <1>7, SameTodo

\* A chunk is handed out.
LEMMA ChunkHanded ==
  ASSUME MeansSetting, MeansIInv, NEW w \in Group, AddIndex(w)
  PROVE  /\ Todo(w) = {} /\ Q_Index \in Nat /\ CHUNK \in Nat /\ Q_Index' = Q_Index + CHUNK
         /\ \A p \in Todo(w)' : p \in Nat /\ p > Q_Index /\ p <= Q_Index'
         /\ \A p \in Points : p \in Nat /\ (p \in Todo(w)' <=> p > Q_Index /\ p <= Q_Index')
         /\ \A v \in Group : v # w => Todo(v)' = Todo(v)
<1>1. /\ Q_Index \in Nat /\ CHUNK \in Nat \ {0} /\ NPoints \in Nat /\ Q_Index + CHUNK \in Nat
      /\ Q_Index' = Q_Index + CHUNK
      /\ \A p \in Points : p \in Nat /\ p > 0 /\ p <= NPoints
  BY DEF MeansIInv, MeansTypeOK, MeansSetting, Points, AddIndex
<1>2. /\ work[w] = "addIndex" /\ point'[w] = Q_Index + 1
      /\ Q_Index < NPoints => /\ work'[w] = "compare"
                              /\ Stop_Pos'[w] = Smaller(Q_Index + CHUNK, NPoints)
      /\ ~ (Q_Index < NPoints) => work'[w] = "addDelta"
      /\ \A v \in Group : v # w => /\ work'[v] = work[v] /\ point'[v] = point[v]
                                   /\ Stop_Pos'[v] = Stop_Pos[v]
  BY DEF AddIndex, TakeChunk, MeansIInv, MeansTypeOK
<1>3. Todo(w) = {}
  BY <1>2 DEF Todo
<1>4. ASSUME NEW p PROVE p \in Todo(w)' <=> p \in Nat /\ p > Q_Index /\ p <= Q_Index' /\ p <= NPoints
  <2>1. CASE Q_Index < NPoints
    <3>1. Todo(w)' = Q_Index + 1 .. Smaller(Q_Index + CHUNK, NPoints)
      BY <1>2, <2>1 DEF Todo
    <3>2. p \in Todo(w)' <=> p \in Int /\ Q_Index + 1 <= p /\ p <= Q_Index + CHUNK /\ p <= NPoints
      BY <1>1, <3>1 DEF Smaller
    <3> QED
      BY <1>1, <3>2
  <2>2. CASE ~ (Q_Index < NPoints)
    <3>1. Todo(w)' = {}
      BY <1>2, <2>2 DEF Todo
    <3> QED
      BY <1>1, <2>2, <3>1
  <2> QED
    BY <2>1, <2>2
<1> QED
  BY <1>1, <1>2, <1>3, <1>4, SameTodo

LEMMA HandedNext == MeansSetting /\ MeansIInv /\ [MeansNext]_meansVars => Handed'
<1> SUFFICES ASSUME MeansSetting, MeansIInv, [MeansNext]_meansVars PROVE Handed'
  OBVIOUS
<1>0. MeansTypeOK /\ Meetings /\ Handed
  BY DEF MeansIInv
<1>1. CASE UNCHANGED meansVars
  BY <1>0, <1>1, SameTodo, SameHanded DEF meansVars, mainVars, localVars, history, InLoop
<1>2. ASSUME NEW w \in Group, Work(w) PROVE Handed'
  <2>1. CASE Compare(w)
    <3>1. /\ work[w] = "compare" /\ work'[w] = "write" /\ point' = point /\ Stop_Pos' = Stop_Pos
          /\ \A v \in Group : v # w => work'[v] = work[v]
          /\ main' = main /\ done' = done /\ Q_Index' = Q_Index
      BY <1>0, <2>1 DEF Compare, MeansTypeOK, mainVars
    <3>2. \A v \in Group : Todo(v)' = Todo(v)
      BY <3>1 DEF Todo
    <3> QED
      BY <1>0, <3>1, <3>2, SameHanded DEF InLoop
  <2>2. CASE WritePoints(w)
    <3>1. /\ Todo(w)' = Todo(w) \ {point[w]}
          /\ \A v \in Group : v # w => Todo(v)' = Todo(v)
          /\ point[w] \in Points /\ point[w] \in Todo(w) /\ done[point[w]] = 0
          /\ \A p \in Points : done'[p] = IF p = point[w] THEN 1 ELSE done[p]
      BY <2>2, PointDone
    <3>2. InLoop
      BY <2>2, WorkInLoop DEF WritePoints, Working, Busy
    <3>3. Q_Index' = Q_Index
      BY <2>2 DEF WritePoints
    <3>4. \A v \in Group : point[w] \notin Todo(v)'
      BY <1>0, <3>1, <3>2 DEF Handed
    <3>5. /\ \A p \in Points : done[p] = 0 <=> (p > Q_Index \/ \E v \in Group : p \in Todo(v))
          /\ \A v \in Group : \A p \in Todo(v) : p <= Q_Index
          /\ \A u, v \in Group : u # v => Todo(u) \cap Todo(v) = {}
          /\ \A p \in Points : done[p] \in {0, 1}
      BY <1>0, <3>2 DEF Handed
    <3>6. \A v \in Group : Todo(v)' \subseteq Todo(v)
      BY <3>1
    <3>7. ASSUME NEW p \in Points
          PROVE  done'[p] = 0 <=> (p > Q_Index' \/ \E v \in Group : p \in Todo(v)')
      <4>1. CASE p = point[w]
        <5>1. p <= Q_Index /\ p \in Nat /\ Q_Index \in Nat
          BY <1>0, <3>1, <3>5, <4>1 DEF MeansTypeOK, Points
        <5>2. ~ (p > Q_Index')
          BY <3>3, <5>1
        <5> QED
          BY <3>1, <3>4, <4>1, <5>2
      <4>2. CASE p # point[w]
        <5>1. \A v \in Group : p \in Todo(v)' <=> p \in Todo(v)
          BY <3>1, <4>2
        <5> QED
          BY <3>1, <3>3, <3>5, <4>2, <5>1
      <4> QED
        BY <4>1, <4>2
    <3>8. \A p \in Points : done'[p] \in {0, 1}
      BY <3>1, <3>5
    <3>9. /\ \A v \in Group : \A p \in Todo(v)' : p <= Q_Index'
          /\ \A u, v \in Group : u # v => Todo(u)' \cap Todo(v)' = {}
      BY <3>3, <3>5, <3>6
    <3> QED
      BY <3>7, <3>8, <3>9 DEF Handed
  <2>3. CASE AddIndex(w)
    <3>1. /\ Todo(w) = {} /\ Q_Index \in Nat /\ CHUNK \in Nat /\ Q_Index' = Q_Index + CHUNK
          /\ \A p \in Todo(w)' : p \in Nat /\ p > Q_Index /\ p <= Q_Index'
          /\ \A p \in Points : p \in Nat /\ (p \in Todo(w)' <=> p > Q_Index /\ p <= Q_Index')
          /\ \A v \in Group : v # w => Todo(v)' = Todo(v)
      BY <2>3, ChunkHanded
    <3>2. InLoop /\ done' = done
      BY <2>3, WorkInLoop DEF AddIndex, Working, Busy, history
    <3>3. /\ \A p \in Points : done[p] = 0 <=> (p > Q_Index \/ \E v \in Group : p \in Todo(v))
          /\ \A v \in Group : \A p \in Todo(v) : p <= Q_Index
          /\ \A u, v \in Group : u # v => Todo(u) \cap Todo(v) = {}
          /\ \A p \in Points : done[p] \in {0, 1}
      BY <1>0, <3>2 DEF Handed
    <3>4. \A v \in Group : Todo(v) \subseteq Int
      BY <1>0 DEF Todo, Turn
    <3>5. ASSUME NEW p \in Points
          PROVE  (p > Q_Index \/ \E v \in Group : p \in Todo(v))
                   <=> (p > Q_Index' \/ \E v \in Group : p \in Todo(v)')
      <4>1. CASE \E v \in Group : p \in Todo(v)
        BY <3>1, <4>1
      <4>2. CASE ~ \E v \in Group : p \in Todo(v)
        <5>1. (\E v \in Group : p \in Todo(v)') <=> p \in Todo(w)'
          BY <3>1, <4>2
        <5>2. p > Q_Index <=> (p > Q_Index' \/ p \in Todo(w)')
          BY <3>1
        <5> QED
          BY <4>2, <5>1, <5>2
      <4> QED
        BY <4>1, <4>2
    <3>6. ASSUME NEW v \in Group, NEW p \in Todo(v)' PROVE p <= Q_Index'
      <4>1. CASE v = w
        BY <3>1, <4>1
      <4>2. CASE v # w
        <5>1. p \in Int /\ p <= Q_Index
          BY <3>1, <3>3, <3>4, <4>2
        <5> QED
          BY <3>1, <5>1
      <4> QED
        BY <4>1, <4>2
    <3>7. ASSUME NEW v \in Group, v # w PROVE Todo(w)' \cap Todo(v)' = {}
      <4>1. ASSUME NEW p \in Todo(w)', p \in Todo(v)' PROVE FALSE
        <5>1. p <= Q_Index /\ p > Q_Index /\ p \in Nat
          BY <3>1, <3>3, <3>7, <4>1
        <5> QED
          BY <3>1, <5>1
      <4> QED
        BY <4>1
    <3>8. \A u, v \in Group : u # v => Todo(u)' \cap Todo(v)' = {}
      BY <3>1, <3>3, <3>7
    <3> QED
      BY <3>2, <3>3, <3>5, <3>6, <3>8 DEF Handed
  <2>4. CASE AddDelta(w)
    <3>1. /\ work[w] = "addDelta" /\ work'[w] = "finish" /\ point' = point /\ Stop_Pos' = Stop_Pos
          /\ \A v \in Group : v # w => work'[v] = work[v]
          /\ main' = main /\ done' = done /\ Q_Index' = Q_Index
      BY <1>0, <2>4 DEF AddDelta, MeansTypeOK, mainVars, localVars, history
    <3>2. \A v \in Group : Todo(v)' = Todo(v)
      BY <3>1 DEF Todo
    <3> QED
      BY <1>0, <3>1, <3>2, SameHanded DEF InLoop
  <2> QED
    BY <1>2, <2>1, <2>2, <2>3, <2>4 DEF Work
<1>3. CASE Start
  <2>1. PICK j \in Group : j = i
    BY <1>0 DEF MeansTypeOK
  <2>2. InLoop /\ work[j] = "start" /\ TakeChunk(j, Turn(j)) /\ done' = done /\ Q_Index' = Q_Index
    BY <1>3, <2>1 DEF Start, Turn, history, InLoop
  <2>3. /\ Turn(j) \in Nat /\ CHUNK \in Nat /\ NPoints \in Nat
    BY Turns DEF MeansSetting
  <2>4. /\ point'[j] = Turn(j) + 1
        /\ Turn(j) < NPoints => /\ work'[j] = "compare"
                                /\ Stop_Pos'[j] = Smaller(Turn(j) + CHUNK, NPoints)
        /\ ~ (Turn(j) < NPoints) => work'[j] = "addDelta"
        /\ \A v \in Group : v # j => /\ work'[v] = work[v] /\ point'[v] = point[v]
                                     /\ Stop_Pos'[v] = Stop_Pos[v]
    BY <1>0, <2>2 DEF TakeChunk, MeansTypeOK
  <2>5. Todo(j) = Turn(j) + 1 .. Smaller(Turn(j) + CHUNK, NPoints)
    BY <2>2 DEF Todo
  <2>6. Todo(j)' = Todo(j)
    <3>1. CASE Turn(j) < NPoints
      BY <2>4, <2>5, <3>1 DEF Todo
    <3>2. CASE ~ (Turn(j) < NPoints)
      <4>1. Todo(j)' = {}
        BY <2>4, <3>2 DEF Todo
      <4>2. Smaller(Turn(j) + CHUNK, NPoints) < Turn(j) + 1 /\ Smaller(Turn(j) + CHUNK, NPoints) \in Nat
        BY <2>3, <3>2 DEF Smaller
      <4>3. Todo(j) = {}
        BY <2>3, <2>5, <4>2
      <4> QED
        BY <4>1, <4>3
    <3> QED
      BY <3>1, <3>2
  <2>7. \A v \in Group : Todo(v)' = Todo(v)
    BY <2>4, <2>6, SameTodo
  <2> QED
    BY <1>0, <2>2, <2>7, SameHanded
<1>4. CASE Finish
  <2>1. /\ InLoop /\ i \in Group /\ work[i] = "finish" /\ work' = [work EXCEPT ![i] = "repeat"]
        /\ point' = point /\ Stop_Pos' = Stop_Pos /\ done' = done /\ Q_Index' = Q_Index
    BY <1>0, <1>4 DEF Finish, InLoop, MeansTypeOK, localVars, history
  <2>2. \A v \in Group : work'[v] = IF v = i THEN "repeat" ELSE work[v]
    BY <1>0, <2>1 DEF MeansTypeOK
  <2>3. \A v \in Group : Todo(v)' = Todo(v)
    BY <2>1, <2>2 DEF Todo
  <2> QED
    BY <1>0, <2>1, <2>3, SameHanded
<1>5. CASE NewCenters
  <2>1. ~ InLoop' /\ done' = done
    BY <1>5 DEF NewCenters, InLoop, history
  <2> QED
    BY <1>0, <2>1 DEF Handed
<1>6. CASE Repeat
  <2>1. CASE i = NThreads
    <3>1. /\ main' = "start" /\ i' = 1 /\ Q_Index' = NThreads * CHUNK
          /\ done' = [p \in Points |-> 0]
      BY <1>6, <2>1 DEF Repeat, NextTask, MeansSetting
    <3>2. \A v \in Group : ~ (v < 1)
      BY NoneBefore
    <3>3. \A v \in Group : work'[v] = "start"
      BY <3>1, <3>2, MeetingsNext DEF Meetings
    <3>4. Fresh'
      BY <3>1, <3>3 DEF Fresh
    <3> QED
      BY <3>4, HandedFirstNext DEF FreshIsHanded
  <2>2. CASE i # NThreads
    <3>1. i < NThreads
      BY <1>0, <2>2 DEF MeansTypeOK, MeansSetting, Group
    <3>2. main' = "repeat" /\ done' = done
      BY <1>6, <2>2, <3>1 DEF Repeat, NextTask
    <3> QED
      BY <1>0, <3>2 DEF Handed, InLoop
  <2> QED
    BY <2>1, <2>2
<1>7. CASE End
  <2>1. ~ InLoop' /\ done' = done
    BY <1>7 DEF End, NextTask, InLoop, history
  <2> QED
    BY <1>0, <2>1 DEF Handed
<1> QED
  BY <1>1, <1>2, <1>3, <1>4, <1>5, <1>6, <1>7 DEF MeansNext, Main

LEMMA AssignedNext == MeansSetting /\ MeansIInv /\ [MeansNext]_meansVars => Assigned'
<1> SUFFICES ASSUME MeansSetting, MeansIInv, [MeansNext]_meansVars, InLoop'
             PROVE  /\ \A p \in Points : done'[p] = 1 => Membership'[p] = nearest'[p]
                    /\ \A w \in Group : work'[w] = "write" =>
                                          Membership'[point'[w]] = nearest'[point'[w]]
  BY DEF Assigned
<1>0. MeansTypeOK /\ Meetings /\ Handed /\ Assigned
  BY DEF MeansIInv
<1>1. CASE UNCHANGED meansVars
  BY <1>0, <1>1 DEF Assigned, InLoop, meansVars, mainVars, localVars, history
<1>2. ASSUME NEW w \in Group, Work(w)
      PROVE  /\ \A p \in Points : done'[p] = 1 => Membership'[p] = nearest'[p]
             /\ \A v \in Group : work'[v] = "write" =>
                                   Membership'[point'[v]] = nearest'[point'[v]]
  <2>0. /\ InLoop /\ nearest' = nearest
        /\ \A p \in Points : done[p] = 1 => Membership[p] = nearest[p]
        /\ \A v \in Group : work[v] = "write" => Membership[point[v]] = nearest[point[v]]
    <3>1. main' = main /\ nearest' = nearest
      BY <1>2 DEF Work, Compare, WritePoints, AddIndex, AddDelta, mainVars
    <3> QED
      BY <1>0, <3>1 DEF Assigned, InLoop
  <2>1. CASE Compare(w)
    <3>1. point[w] \in Points /\ nearest[point[w]] \in Centers
      BY <2>1, PointIs DEF Compare
    <3>2. /\ point' = point /\ done' = done /\ work' = [work EXCEPT ![w] = "write"]
          /\ \A p \in Points : Membership'[p] = IF p = point[w] THEN nearest[p] ELSE Membership[p]
      BY <1>0, <2>1 DEF Compare, MeansTypeOK
    <3>3. ASSUME NEW v \in Group, work'[v] = "write" PROVE Membership'[point'[v]] = nearest'[point'[v]]
      <4>1. CASE v = w
        BY <2>0, <3>1, <3>2, <4>1
      <4>2. CASE v # w
        <5>1. work[v] = "write"
          BY <1>0, <3>2, <3>3, <4>2 DEF MeansTypeOK
        <5>2. point[v] \in Points
          BY <5>1, PointIs
        <5> QED
          BY <2>0, <3>2, <5>1, <5>2
      <4> QED
        BY <4>1, <4>2
    <3> QED
      BY <2>0, <3>2, <3>3
  <2>2. CASE WritePoints(w)
    <3>1. /\ point[w] \in Points /\ work[w] = "write" /\ Membership' = Membership
          /\ \A p \in Points : done'[p] = IF p = point[w] THEN 1 ELSE done[p]
      BY <2>2, PointDone DEF WritePoints
    <3>2. \A v \in Group : work'[v] = "write" => work[v] = "write" /\ point'[v] = point[v]
      BY <1>0, <2>2 DEF WritePoints, MeansTypeOK
    <3> QED
      BY <2>0, <3>1, <3>2
  <2>3. CASE AddIndex(w)
    <3>1. /\ Membership' = Membership /\ done' = done
          /\ \A v \in Group : work'[v] = "write" => work[v] = "write" /\ point'[v] = point[v]
      BY <1>0, <2>3 DEF AddIndex, TakeChunk, MeansTypeOK, history
    <3> QED
      BY <2>0, <3>1
  <2>4. CASE AddDelta(w)
    <3>1. /\ Membership' = Membership /\ done' = done
          /\ \A v \in Group : work'[v] = "write" => work[v] = "write" /\ point'[v] = point[v]
      BY <1>0, <2>4 DEF AddDelta, MeansTypeOK, history, localVars
    <3> QED
      BY <2>0, <3>1
  <2> QED
    BY <1>2, <2>1, <2>2, <2>3, <2>4 DEF Work
<1>3. CASE Start
  <2>1. /\ InLoop /\ Membership' = Membership /\ done' = done /\ nearest' = nearest
        /\ \A v \in Group : work'[v] = "write" => work[v] = "write" /\ point'[v] = point[v]
    BY <1>0, <1>3 DEF Start, TakeChunk, MeansTypeOK, history, InLoop
  <2> QED
    BY <1>0, <2>1 DEF Assigned
<1>4. CASE Finish
  <2>1. /\ InLoop /\ Membership' = Membership /\ done' = done /\ nearest' = nearest
        /\ \A v \in Group : work'[v] = "write" => work[v] = "write" /\ point'[v] = point[v]
    BY <1>0, <1>4 DEF Finish, MeansTypeOK, history, localVars, InLoop
  <2> QED
    BY <1>0, <2>1 DEF Assigned
<1>5. CASE NewCenters
  BY <1>5 DEF NewCenters, InLoop
<1>6. CASE Repeat
  <2>1. main' = "start" /\ i' = 1 /\ done' = [p \in Points |-> 0]
    <3>1. i < NThreads \/ i = NThreads
      BY <1>0 DEF MeansTypeOK, MeansSetting, Group
    <3> QED
      BY <1>6, <3>1 DEF Repeat, NextTask, InLoop, MeansSetting
  <2>2. \A v \in Group : work'[v] = "start"
    BY <2>1, NoneBefore, MeetingsNext DEF Meetings
  <2> QED
    BY <2>1, <2>2
<1>7. CASE End
  BY <1>7 DEF End, NextTask, InLoop
<1> QED
  BY <1>1, <1>2, <1>3, <1>4, <1>5, <1>6, <1>7 DEF MeansNext, Main

-----------------------------------------------------------------------------
(* New_Centers. *)

LEMMA DoneForFinite ==
  ASSUME MeansSetting, NEW c PROVE IsFiniteSet(DoneFor(c)) /\ Cardinality(DoneFor(c)) \in Nat
<1>1. IsFiniteSet(Points)
  BY FS_Interval DEF Points, MeansSetting
<1>2. DoneFor(c) \subseteq Points
  BY DEF DoneFor
<1>3. IsFiniteSet(DoneFor(c))
  BY <1>1, <1>2, FS_Subset
<1> QED
  BY <1>3, FS_CardinalityType

\* A step that leaves the points that are done and the centers alone.
LEMMA SameSums ==
  ASSUME Sums, InLoop' => InLoop, main' = "repeat" => main = "repeat",
         InLoop' => (done' = done /\ nearest' = nearest), len' = len
  PROVE  Sums'
<1>1. ASSUME InLoop' PROVE \A c \in Centers : DoneFor(c)' = DoneFor(c)
  BY <1>1 DEF DoneFor
<1> QED
  BY <1>1 DEF Sums

LEMMA SumsNext == MeansSetting /\ MeansIInv /\ [MeansNext]_meansVars => Sums'
<1> SUFFICES ASSUME MeansSetting, MeansIInv, [MeansNext]_meansVars PROVE Sums'
  OBVIOUS
<1>0. MeansTypeOK /\ Meetings /\ Sums
  BY DEF MeansIInv
<1>1. CASE UNCHANGED meansVars
  BY <1>0, <1>1, SameSums DEF meansVars, mainVars, history, InLoop
<1>2. ASSUME NEW w \in Group, Work(w) PROVE Sums'
  <2>1. CASE WritePoints(w)
    <3>1. /\ point[w] \in Points /\ done[point[w]] = 0
          /\ \A p \in Points : done'[p] = IF p = point[w] THEN 1 ELSE done[p]
      BY <2>1, PointDone
    <3>2. /\ InLoop /\ nearest' = nearest /\ main' = main
          /\ len' = [len EXCEPT ![nearest[point[w]]] = @ + 1]
      BY <2>1, WorkInLoop DEF WritePoints, Working, Busy, mainVars
    <3>3. ASSUME NEW c \in Centers PROVE len'[c] = Cardinality(DoneFor(c)')
      <4>0. len[c] = Cardinality(DoneFor(c)) /\ len[c] \in Nat
        BY <1>0, <3>2 DEF Sums, MeansTypeOK
      <4>1. CASE c = nearest[point[w]]
        <5>1. DoneFor(c)' = DoneFor(c) \cup {point[w]}
          BY <3>1, <3>2, <4>1 DEF DoneFor
        <5>2. point[w] \notin DoneFor(c)
          BY <3>1 DEF DoneFor
        <5>3. IsFiniteSet(DoneFor(c))
          BY DoneForFinite
        <5>4. Cardinality(DoneFor(c) \cup {point[w]}) = Cardinality(DoneFor(c)) + 1
          BY <5>2, <5>3, FS_AddElement
        <5>5. len'[c] = len[c] + 1
          BY <1>0, <3>2, <4>1 DEF MeansTypeOK
        <5> QED
          BY <4>0, <5>1, <5>4, <5>5
      <4>2. CASE c # nearest[point[w]]
        <5>1. DoneFor(c)' = DoneFor(c)
          BY <3>1, <3>2, <4>2 DEF DoneFor
        <5>2. len'[c] = len[c]
          BY <1>0, <3>2, <4>2 DEF MeansTypeOK
        <5> QED
          BY <4>0, <5>1, <5>2
      <4> QED
        BY <4>1, <4>2
    <3>4. main' # "repeat"
      BY <3>2 DEF InLoop
    <3> QED
      BY <3>3, <3>4 DEF Sums
  <2>2. CASE Compare(w) \/ AddIndex(w) \/ AddDelta(w)
    <3>1. main' = main /\ done' = done /\ nearest' = nearest /\ len' = len
      BY <2>2 DEF Compare, AddIndex, AddDelta, mainVars, history
    <3> QED
      BY <1>0, <3>1, SameSums DEF InLoop
  <2> QED
    BY <1>2, <2>1, <2>2 DEF Work
<1>3. CASE Start \/ Finish
  <2>1. done' = done /\ nearest' = nearest /\ len' = len /\ InLoop /\ main' # "repeat"
    BY <1>3 DEF Start, Finish, NextTask, history, InLoop
  <2> QED
    BY <1>0, <2>1, SameSums
<1>5. CASE NewCenters
  <2>1. ~ InLoop' /\ len' = [c \in Centers |-> 0]
    BY <1>5 DEF NewCenters, InLoop
  <2> QED
    BY <2>1 DEF Sums
<1>6. CASE Repeat
  <2>1. len' = len /\ \A c \in Centers : len[c] = 0
    BY <1>0, <1>6 DEF Repeat, Sums
  <2>2. CASE InLoop'
    <3>1. i = NThreads
      <4>1. i < NThreads \/ i = NThreads
        BY <1>0 DEF MeansTypeOK, MeansSetting, Group
      <4> QED
        BY <1>6, <2>2, <4>1 DEF Repeat, NextTask, InLoop
    <3>2. done' = [p \in Points |-> 0]
      BY <1>6, <3>1 DEF Repeat
    <3>3. \A c \in Centers : DoneFor(c)' = {}
      BY <3>2 DEF DoneFor
    <3>4. Cardinality({}) = 0
      BY FS_EmptySet
    <3> QED
      BY <2>1, <2>2, <3>3, <3>4 DEF Sums, InLoop
  <2>3. CASE ~ InLoop'
    BY <2>1, <2>3 DEF Sums
  <2> QED
    BY <2>2, <2>3
<1>7. CASE End
  <2>1. ~ InLoop' /\ main' # "repeat"
    BY <1>7 DEF End, NextTask, InLoop
  <2> QED
    BY <2>1 DEF Sums
<1> QED
  BY <1>1, <1>2, <1>3, <1>5, <1>6, <1>7 DEF MeansNext, Main

-----------------------------------------------------------------------------
(* The changes. *)

LEMMA SameChanges ==
  ASSUME Changes, InLoop' => InLoop, Local_Delta' = Local_Delta, changed' = changed,
         InLoop' => Passed' = Passed, Delt' = Delt
  PROVE  Changes'
<1>1. Noted' = Noted
  BY DEF Noted
<1> QED
  BY <1>1 DEF Changes

LEMMA ChangesNext == MeansSetting /\ MeansIInv /\ [MeansNext]_meansVars => Changes'
<1> SUFFICES ASSUME MeansSetting, MeansIInv, [MeansNext]_meansVars PROVE Changes'
  OBVIOUS
<1>0. MeansTypeOK /\ Meetings /\ Changes
  BY DEF MeansIInv
<1>1. CASE UNCHANGED meansVars
  <2>1. Passed' = Passed
    BY <1>1 DEF Passed, Noted, meansVars, localVars
  <2> QED
    BY <1>0, <1>1, <2>1, SameChanges DEF meansVars, mainVars, localVars, history, InLoop
<1>2. ASSUME NEW w \in Group, Work(w) PROVE Changes'
  <2>0. InLoop /\ main' = main
    BY <1>2, WorkInLoop DEF Work, Compare, WritePoints, AddIndex, AddDelta, mainVars, Working, Busy
  <2>l. Local_Delta[w] \in Nat
    BY <1>0 DEF MeansTypeOK
  <2>1. CASE Compare(w)
    <3>1. PICK another \in {0, 1} :
            /\ Local_Delta' = [Local_Delta EXCEPT ![w] = @ + another]
            /\ changed' = changed + another
      BY <2>1 DEF Compare
    <3>2. /\ Delt' = Delt /\ work[w] = "compare" /\ work'[w] = "write"
          /\ \A v \in Group : v # w => work'[v] = work[v] /\ Local_Delta'[v] = Local_Delta[v]
          /\ Local_Delta'[w] = Local_Delta[w] + another
      BY <1>0, <2>1, <3>1 DEF Compare, MeansTypeOK
    <3>3. Passed' = Passed
      BY <3>2 DEF Passed, Noted
    <3>4. CASE another = 0
      <4>1. Noted' = Noted
        BY <2>l, <3>2, <3>4 DEF Noted
      <4>2. changed' = changed
        BY <1>0, <3>1, <3>4 DEF MeansTypeOK
      <4> QED
        BY <1>0, <2>0, <3>2, <3>3, <4>1, <4>2 DEF Changes, InLoop
    <3>5. CASE another = 1
      <4> DEFINE d == <<w, Local_Delta[w] + 1>>
      <4>1. d \notin Noted
        BY <2>l DEF Noted
      <4>2. ASSUME NEW e \in Group \X Nat
            PROVE  e \in Noted' <=> e \in Noted \/ e = d
        <5>1. e = <<e[1], e[2]>> /\ e[1] \in Group /\ e[2] \in Nat
          OBVIOUS
        <5>2. CASE e[1] = w
          <6>1. e \in Noted' <=> 1 <= e[2] /\ e[2] <= Local_Delta[w] + 1
            BY <3>2, <3>5, <5>1, <5>2 DEF Noted
          <6>2. e \in Noted <=> 1 <= e[2] /\ e[2] <= Local_Delta[w]
            BY <5>1, <5>2 DEF Noted
          <6>3. e = d <=> e[2] = Local_Delta[w] + 1
            BY <5>1, <5>2
          <6> QED
            BY <2>l, <5>1, <6>1, <6>2, <6>3
        <5>3. CASE e[1] # w
          BY <3>2, <5>1, <5>3 DEF Noted
        <5> QED
          BY <5>2, <5>3
      <4>3. Noted' = Noted \cup {d}
        <5>1. Noted \subseteq Group \X Nat /\ Noted' \subseteq Group \X Nat /\ d \in Group \X Nat
          BY <2>l DEF Noted
        <5> QED
          BY <4>2, <5>1
      <4>4. IsFiniteSet(Noted)
        BY <1>0 DEF Changes
      <4> HIDE DEF d
      <4>5. IsFiniteSet(Noted \cup {d}) /\ Cardinality(Noted \cup {d}) = Cardinality(Noted) + 1
        BY <4>1, <4>4, FS_AddElement
      <4> QED
        BY <1>0, <2>0, <3>1, <3>2, <3>3, <3>5, <4>3, <4>5 DEF Changes, InLoop
    <3> QED
      BY <3>4, <3>5
  <2>2. CASE WritePoints(w) \/ AddIndex(w)
    <3>1. /\ Local_Delta' = Local_Delta /\ changed' = changed /\ Delt' = Delt
          /\ \A v \in Group : work'[v] \in {"finish", "repeat"} <=> work[v] \in {"finish", "repeat"}
      BY <1>0, <2>2 DEF WritePoints, AddIndex, TakeChunk, MeansTypeOK, history
    <3>2. Passed' = Passed
      BY <3>1 DEF Passed, Noted
    <3> QED
      BY <1>0, <2>0, <3>1, <3>2, SameChanges DEF InLoop
  <2>3. CASE AddDelta(w)
    <3>1. /\ Local_Delta' = Local_Delta /\ changed' = changed /\ Delt' = Delt + Local_Delta[w]
          /\ work[w] = "addDelta" /\ work'[w] = "finish"
          /\ \A v \in Group : v # w => work'[v] = work[v]
      BY <1>0, <2>3 DEF AddDelta, MeansTypeOK, history, localVars
    <3> DEFINE own == {w} \X (1 .. Local_Delta[w])
    <3>2. Noted' = Noted
      BY <3>1 DEF Noted
    <3>3. own \subseteq Noted /\ own \cap Passed = {}
      BY <2>l, <3>1 DEF Noted, Passed
    <3>4. Passed' = Passed \cup own
      <4>1. ASSUME NEW e \in Noted PROVE e \in Passed' <=> e \in Passed \/ e \in own
        <5>1. e = <<e[1], e[2]>> /\ e[1] \in Group /\ e[2] \in Nat /\ 1 <= e[2]
              /\ e[2] <= Local_Delta[e[1]]
          BY DEF Noted
        <5>2. e \in own <=> e[1] = w
          BY <2>l, <5>1
        <5>3. (e \in Passed' <=> work'[e[1]] \in {"finish", "repeat"})
              /\ (e \in Passed <=> work[e[1]] \in {"finish", "repeat"})
          BY <3>2 DEF Passed
        <5> QED
          BY <3>1, <5>1, <5>2, <5>3
      <4> HIDE DEF own
      <4>2. Passed \subseteq Noted /\ Passed' \subseteq Noted
        BY <3>2 DEF Passed
      <4> QED
        BY <3>3, <4>1, <4>2
    <3>5. IsFiniteSet(Noted)
      BY <1>0 DEF Changes
    <3>6. Passed \subseteq Noted
      BY DEF Passed
    <3>7. IsFiniteSet(Passed)
      BY <3>5, <3>6, FS_Subset
    <3>8. IsFiniteSet({w}) /\ Cardinality({w}) = 1
      BY FS_Singleton
    <3>9. /\ IsFiniteSet(1 .. Local_Delta[w])
          /\ Cardinality(1 .. Local_Delta[w]) = Local_Delta[w]
      <4>1. 1 \in Int /\ Local_Delta[w] \in Int
        BY <2>l
      <4>2. /\ IsFiniteSet(1 .. Local_Delta[w])
            /\ Cardinality(1 .. Local_Delta[w]) =
                 IF 1 > Local_Delta[w] THEN 0 ELSE Local_Delta[w] - 1 + 1
        BY <4>1, FS_Interval
      <4> QED
        BY <2>l, <4>2
    <3>10. IsFiniteSet(own) /\ Cardinality(own) = Cardinality({w}) * Cardinality(1 .. Local_Delta[w])
      BY <3>8, <3>9, FS_Product
    <3>11. Cardinality(own) = Local_Delta[w]
      BY <2>l, <3>8, <3>9, <3>10
    <3> HIDE DEF own
    <3>12. Cardinality(Passed \cup own) =
             Cardinality(Passed) + Cardinality(own) - Cardinality(Passed \cap own)
      BY <3>7, <3>10, FS_Union
    <3>13. Cardinality(Passed \cap own) = 0
      <4>1. Passed \cap own = {}
        BY <3>3
      <4> QED
        BY <4>1, FS_EmptySet
    <3>14. Cardinality(Passed) \in Nat
      BY <3>7, FS_CardinalityType
    <3>15. Cardinality(Passed') = Cardinality(Passed) + Local_Delta[w]
      <4>1. Cardinality(Passed \cup own) = Cardinality(Passed) + Local_Delta[w]
        BY <2>l, <3>11, <3>12, <3>13, <3>14
      <4> QED
        BY <3>4, <4>1
    <3> QED
      BY <1>0, <2>0, <3>1, <3>2, <3>15 DEF Changes, InLoop
  <2> QED
    BY <1>2, <2>1, <2>2, <2>3 DEF Work
<1>3. CASE Start \/ Finish
  <2>1. /\ Local_Delta' = Local_Delta /\ changed' = changed /\ Delt' = Delt /\ InLoop
        /\ \A v \in Group : work'[v] \in {"finish", "repeat"} <=> work[v] \in {"finish", "repeat"}
    BY <1>0, <1>3 DEF Start, Finish, TakeChunk, MeansTypeOK, history, localVars, InLoop
  <2>2. Passed' = Passed
    BY <2>1 DEF Passed, Noted
  <2> QED
    BY <1>0, <2>1, <2>2, SameChanges
<1>5. CASE NewCenters \/ End
  <2>1. ~ InLoop' /\ Local_Delta' = Local_Delta /\ changed' = changed
    BY <1>5 DEF NewCenters, End, NextTask, InLoop, localVars, history
  <2>2. Noted' = Noted
    BY <2>1 DEF Noted
  <2> QED
    BY <1>0, <2>1, <2>2 DEF Changes
<1>6. CASE Repeat
  <2>1. Local_Delta' = Local_Delta /\ changed' = changed
    BY <1>6 DEF Repeat, localVars
  <2>2. Noted' = Noted
    BY <2>1 DEF Noted
  <2>3. ASSUME InLoop' PROVE Delt' = Cardinality(Passed')
    <3>1. i < NThreads \/ i = NThreads
      BY <1>0 DEF MeansTypeOK, MeansSetting, Group
    <3>2. main' = "start" /\ i' = 1 /\ Delt' = 0
      BY <1>6, <2>3, <3>1 DEF Repeat, NextTask, InLoop, MeansSetting
    <3>3. \A v \in Group : work'[v] = "start"
      BY <3>2, NoneBefore, MeetingsNext DEF Meetings
    <3>4. Passed' = {}
      BY <3>3 DEF Passed, Noted
    <3>5. Cardinality({}) = 0
      BY FS_EmptySet
    <3> QED
      BY <3>2, <3>4, <3>5
  <2> QED
    BY <1>0, <2>1, <2>2, <2>3 DEF Changes
<1> QED
  BY <1>1, <1>2, <1>3, <1>5, <1>6 DEF MeansNext, Main

-----------------------------------------------------------------------------

LEMMA MeansInitially == MeansSetting /\ MeansInit => MeansIInv
<1> SUFFICES ASSUME MeansSetting, MeansInit PROVE MeansIInv
  OBVIOUS
<1>1. 1 \in Group /\ \A v \in Group : ~ (v < 1)
  BY NoneBefore DEF MeansSetting, Group
<1>2. NThreads * CHUNK \in Nat
  BY <1>1, Turns
<1>3. MeansTypeOK
  BY <1>1, <1>2 DEF MeansInit, MeansTypeOK, MeansSetting
<1>4. Meetings
  BY <1>1 DEF MeansInit, Meetings, MeansSetting
<1>5. \A v \in Group : work[v] = "start"
  BY DEF MeansInit
<1>6. Chunks
  BY <1>2, <1>5 DEF MeansInit, Chunks, Busy
<1>7. Handed
  <2>1. Fresh
    BY <1>5 DEF MeansInit, Fresh
  <2> QED
    BY <2>1, HandedFirst DEF FreshIsHanded
<1>8. Assigned
  BY <1>5 DEF MeansInit, Assigned
<1>9. Sums
  <2>1. \A c \in Centers : len[c] = 0 /\ DoneFor(c) = {}
    BY DEF MeansInit, DoneFor
  <2> QED
    BY <2>1, FS_EmptySet DEF Sums
<1>10. Changes
  <2>1. Noted = {} /\ Passed = {} /\ changed = 0 /\ Delt = 0
    BY DEF MeansInit, Noted, Passed
  <2> QED
    BY <2>1, FS_EmptySet DEF Changes
<1> QED
  BY <1>3, <1>4, <1>6, <1>7, <1>8, <1>9, <1>10 DEF MeansIInv

\* The inductive invariant: the main task meets the tasks one after the other,
\* every point of a loop is beyond Q_Index, in what one task has still to do, or
\* done, and New_Centers and Global_s hold what was done and noted so far.
THEOREM MeansInvariance == MeansSetting => (MeansSpec => []MeansIInv)
<1> SUFFICES ASSUME MeansSetting PROVE MeansSpec => []MeansIInv
  OBVIOUS
<1>1. MeansInit => MeansIInv
  BY MeansInitially
<1>2. MeansIInv /\ [MeansNext]_meansVars => MeansIInv'
  BY MeansTypesNext, MeetingsNext, ChunksNext, HandedNext, AssignedNext, SumsNext, ChangesNext
     DEF MeansIInv
<1> QED
  BY <1>1, <1>2, PTL DEF MeansSpec

\* The variables of the clustering have the types the code gives them.
THEOREM MeansTypeCorrect == MeansSetting => (MeansSpec => []MeansTypeOK)
<1> SUFFICES ASSUME MeansSetting PROVE MeansSpec => []MeansTypeOK
  OBVIOUS
<1>1. MeansSpec => []MeansIInv
  BY MeansInvariance
<1>2. MeansIInv => MeansTypeOK
  BY DEF MeansIInv
<1> QED
  BY <1>1, <1>2, PTL

\* Whatever the size of the chunks, with more tasks than chunks or fewer, every
\* point is worked on once in a loop and each center gets the points that were
\* assigned to it: Add_Index hands out no point twice and leaves none out.
THEOREM PointsWorkedOnOnce == MeansSetting => (MeansSpec => []EachPointOnce)
<1> SUFFICES ASSUME MeansSetting PROVE MeansSpec => []EachPointOnce
  OBVIOUS
<1>1. MeansSpec => []MeansIInv
  BY MeansInvariance
<1>2. ASSUME MeansIInv PROVE EachPointOnce
  <2>0. MeansTypeOK /\ Meetings /\ Chunks /\ Handed /\ Assigned /\ Sums
    BY <1>2 DEF MeansIInv
  <2>1. \A p \in Points : done[p] <= 1
    BY <2>0 DEF Handed
  <2>2. ASSUME main = "centers" PROVE \A p \in Points : done[p] = 1 /\ Membership[p] = nearest[p]
    <3>1. InLoop /\ \A v \in Group : work[v] = "repeat"
      BY <2>0, <2>2 DEF Meetings, InLoop
    <3>2. 1 \in Group
      BY DEF MeansSetting, Group
    <3>3. NPoints <= Q_Index /\ Q_Index \in Nat /\ NPoints \in Nat
      BY <2>0, <3>1, <3>2 DEF Chunks, MeansTypeOK, MeansSetting
    <3>4. \A v \in Group : Todo(v) = {}
      BY <3>1 DEF Todo
    <3>5. \A p \in Points : ~ (p > Q_Index)
      BY <3>3 DEF Points
    <3>6. \A p \in Points : done[p] = 1
      BY <2>0, <3>1, <3>4, <3>5 DEF Handed
    <3> QED
      BY <2>0, <3>1, <3>6 DEF Assigned
  <2>3. ASSUME main = "centers", NEW c \in Centers
        PROVE  len[c] = Cardinality({p \in Points : nearest[p] = c})
    <3>1. DoneFor(c) = {p \in Points : nearest[p] = c}
      BY <2>2, <2>3 DEF DoneFor
    <3> QED
      BY <2>0, <2>3, <3>1 DEF Sums, InLoop
  <2> QED
    BY <2>1, <2>2, <2>3 DEF EachPointOnce
<1> QED
  BY <1>1, <1>2, PTL

\* What the main task reads of Global_s at the end of a loop is the number of
\* changes of all loops so far: Add_Delta loses none and counts none twice.
THEOREM DeltaIsTheChanges == MeansSetting => (MeansSpec => []ChangesCounted)
<1> SUFFICES ASSUME MeansSetting PROVE MeansSpec => []ChangesCounted
  OBVIOUS
<1>1. MeansSpec => []MeansIInv
  BY MeansInvariance
<1>2. ASSUME MeansIInv PROVE ChangesCounted
  <2>1. ASSUME main = "centers" PROVE Delt = changed
    <3>1. InLoop /\ \A v \in Group : work[v] = "repeat"
      BY <1>2, <2>1 DEF MeansIInv, Meetings, InLoop
    <3>2. Passed = Noted
      BY <3>1 DEF Passed, Noted
    <3> QED
      BY <1>2, <3>1, <3>2 DEF MeansIInv, Changes
  <2> QED
    BY <2>1 DEF ChangesCounted
<1> QED
  BY <1>1, <1>2, PTL

-----------------------------------------------------------------------------
(* HashTable for tables of any size, any keys, hash function and draws, and  *)
(* any numbers of tasks and operations.                                      *)
(*                                                                           *)
(* Between the place of a key's hash value and the key no place is unused    *)
(* (Probed), and no key is there twice.  What is in the table are the draws  *)
(* of the workers so far (Putting), of which there are at most NumOp, so     *)
(* that the fixed table with its 2 * NumOp places is never full.             *)

TableSetting ==
  /\ Unused \notin Keys /\ HashValues \subseteq Nat
  /\ Draws \subseteq [1 .. NumOp -> Keys]
  /\ MinTask \in Nat \ {0} /\ MaxTask \in Nat /\ MinTask <= MaxTask
  /\ NumOp \in Nat /\ TableSize \in Nat \ {0}

\* The place where the search for a key begins, and the one d steps on.
From(k, size) == Hash[k] % size
At(start, d, size) == (start + d) % size

\* The search for a key does not end before it.
Probed(table, size) ==
  \A k \in Keys : \A d \in 0 .. size - 1 :
    table[At(From(k, size), d, size)] = k =>
      \A e \in 0 .. size - 1 : e < d => table[At(From(k, size), e, size)] # Unused

TableOK(table, size) ==
  /\ table \in [0 .. size - 1 -> Keys \cup {Unused}]
  /\ \A a, b \in 0 .. size - 1 : table[a] = table[b] /\ table[a] # Unused => a = b
  /\ Probed(table, size)

KeysIn(table) == Range(table) \ {Unused}

Sizes ==
  /\ Hash \in [Keys -> HashValues] /\ Random \in [Workers -> Draws]
  /\ Map_Size \in Nat
  /\ IF Growing THEN Map_Size # 0 ELSE Map_Size = 2 * NumOp

\* Labels of a worker inside its loop, and from its rendezvous Start to Finish.
Operating == {"check", "count", "insert", "lookup"}
AtTable == Operating \cup {"finish", Failed}

\* The main task meets the first nTask workers one after the other.
Rendezvous ==
  /\ meeting # "done" => nTask <= MaxTask /\ id <= nTask
  /\ \A w \in Workers :
       /\ meeting = "start" => worker[w] \in IF w < id THEN AtTable ELSE {"start"}
       /\ meeting = "finish" =>
            worker[w] \in IF id <= w /\ w <= nTask THEN AtTable ELSE {"start"}
       /\ meeting = "done" => worker[w] = "start"

\* A worker in its loop has a key of its own draws.
Drawing ==
  \A w \in Workers :
    /\ worker[w] = "start" => drawn[w] = 0
    /\ worker[w] \in {"check", "count"} => Growing
    /\ worker[w] \in Operating =>
         /\ quota[w] = QuotaOf(w) /\ drawn[w] \in 1 .. quota[w]
         /\ key[w] = Random[w][drawn[w]]
         /\ worker[w] = "lookup" <=> job = "Lookup"

\* What the workers draw between them, and how much of it w has inserted.
Asked == {d \in Workers \X (1 .. NumOp) : d[1] <= nTask /\ d[2] <= QuotaOf(d[1])}
InsertedBy(w) ==
  IF job = "Lookup" \/ worker[w] = "finish" \/ (meeting = "finish" /\ w < id)
  THEN QuotaOf(w) ELSE drawn[w] - 1
Putting ==
  /\ put \subseteq {Random[d[1]][d[2]] : d \in Asked}
  /\ meeting # "done" =>
       \A w \in Workers : w <= nTask =>
         \A n \in 1 .. NumOp : n <= InsertedBy(w) => Random[w][n] \in put

Kept == TableOK(Pair_Array, Map_Size) /\ KeysIn(Pair_Array) = put

\* A lookup always finds its key; an insertion may fail, in the growing table.
LookupsFind ==
  /\ ~missed
  /\ \A w \in Workers : worker[w] = Failed => Growing /\ job = "Insert"

TableIInv ==
  TableTypeOK /\ Sizes /\ Rendezvous /\ Drawing /\ Putting /\ Kept /\ LookupsFind

-----------------------------------------------------------------------------
(* Places. *)

\* Induction, for a set of numbers.
LEMMA LeastOf ==
  ASSUME NEW S \in SUBSET Nat, S # {}
  PROVE  \E n \in S : \A m \in S : n <= m
<1> DEFINE R == OpToRel(<, Nat)
<1>1. IsWellFoundedOn(R, Nat)
  BY NatLessThanWellFounded
<1>2. \A x, y \in Nat : x < y => <<x, y>> \in R
  BY DEF OpToRel
<1> HIDE DEF R
<1>3. PICK n \in S : \A m \in S : ~(<<m, n>> \in R)
  BY <1>1, WFMin
<1>4. \A m \in S : ~(m < n)
  BY <1>2, <1>3
<1> QED
  BY <1>3, <1>4

\* The search goes once around the array.
LEMMA Around ==
  ASSUME NEW size \in Nat \ {0}, NEW start \in 0 .. size - 1, NEW d \in 0 .. size - 1
  PROVE  At(start, d, size) = IF start + d < size THEN start + d ELSE start + d - size
<1> DEFINE q == (start + d) \div size
           r == (start + d) % size
<1>0. size \in Nat /\ size > 0 /\ start \in Nat /\ d \in Nat /\ start < size /\ d < size
  OBVIOUS
<1>1. start + d = size * q + r /\ q \in Nat /\ r \in Nat /\ r < size
  BY <1>0
<1>2. r = At(start, d, size)
  BY DEF At
<1> HIDE DEF q, r
<1>3. size * q = q * size
  BY <1>0, <1>1
<1>4. q = 0 \/ q = 1
  <2>1. CASE 2 <= q
    <3>1. 2 * size <= q * size /\ q * size \in Nat
      BY <1>0, <1>1, <2>1, TimesMonotone
    <3> QED
      BY <1>0, <1>1, <1>3, <3>1
  <2> QED
    BY <1>1, <2>1
<1>5. q * size = IF q = 0 THEN 0 ELSE size
  BY <1>0, <1>4
<1> QED
  BY <1>0, <1>1, <1>2, <1>3, <1>4, <1>5

LEMMA Places ==
  ASSUME NEW size \in Nat \ {0}, NEW start \in 0 .. size - 1
  PROVE  /\ \A d \in 0 .. size - 1 : At(start, d, size) \in 0 .. size - 1
         /\ \A d, e \in 0 .. size - 1 : At(start, d, size) = At(start, e, size) => d = e
         /\ \A a \in 0 .. size - 1 : \E d \in 0 .. size - 1 : At(start, d, size) = a
<1>1. \A d \in 0 .. size - 1 :
        At(start, d, size) = IF start + d < size THEN start + d ELSE start + d - size
  BY Around
<1>2. ASSUME NEW a \in 0 .. size - 1 PROVE \E d \in 0 .. size - 1 : At(start, d, size) = a
  <2>1. CASE start <= a
    <3>1. a - start \in 0 .. size - 1 /\ start + (a - start) = a
      BY <2>1
    <3> QED
      BY <1>1, <3>1
  <2>2. CASE a < start
    <3>1. a - start + size \in 0 .. size - 1 /\ start + (a - start + size) = a + size
      BY <2>2
    <3> QED
      BY <1>1, <3>1
  <2> QED
    BY <2>1, <2>2
<1>3. ASSUME NEW d \in 0 .. size - 1 PROVE At(start, d, size) \in 0 .. size - 1
  <2>1. start \in Int /\ d \in Int /\ 0 <= start /\ start < size /\ 0 <= d /\ d < size /\ size \in Int
    OBVIOUS
  <2>2. At(start, d, size) = IF start + d < size THEN start + d ELSE start + d - size
    BY <1>1
  <2> QED
    BY <2>1, <2>2
<1>4. ASSUME NEW d \in 0 .. size - 1, NEW e \in 0 .. size - 1, At(start, d, size) = At(start, e, size)
      PROVE  d = e
  <2>1. start \in Int /\ d \in Int /\ e \in Int /\ 0 <= start /\ start < size
        /\ 0 <= d /\ d < size /\ 0 <= e /\ e < size /\ size \in Int
    OBVIOUS
  <2>2. /\ At(start, d, size) = IF start + d < size THEN start + d ELSE start + d - size
        /\ At(start, e, size) = IF start + e < size THEN start + e ELSE start + e - size
    BY <1>1
  <2> DEFINE x == At(start, d, size)
             y == At(start, e, size)
  <2>3. x = y
    BY <1>4
  <2> HIDE DEF x, y
  <2>4. CASE start + d < size /\ start + e < size
    BY <2>1, <2>2, <2>3, <2>4 DEF x, y
  <2>5. CASE ~(start + d < size) /\ ~(start + e < size)
    BY <2>1, <2>2, <2>3, <2>5 DEF x, y
  <2>6. CASE start + d < size /\ ~(start + e < size)
    BY <2>1, <2>2, <2>3, <2>6 DEF x, y
  <2>7. CASE ~(start + d < size) /\ start + e < size
    BY <2>1, <2>2, <2>3, <2>7 DEF x, y
  <2> QED
    BY <2>4, <2>5, <2>6, <2>7
<1> QED
  BY <1>2, <1>3, <1>4

LEMMA FromIs ==
  ASSUME TableSetting, Sizes, NEW size \in Nat \ {0}, NEW k \in Keys
  PROVE  From(k, size) \in 0 .. size - 1
<1>1. Hash[k] \in Nat
  BY DEF TableSetting, Sizes
<1> QED
  BY <1>1 DEF From

\* The search ends at the first place that is unused or has the key.
LEMMA FindSlotIs ==
  ASSUME TableSetting, Sizes, NEW size \in Nat \ {0}, NEW k \in Keys, NEW table
  PROVE  \/ /\ FindSlot(table, size, k) = -1
            /\ \A d \in 0 .. size - 1 : table[At(From(k, size), d, size)] \notin {Unused, k}
         \/ \E d \in 0 .. size - 1 :
              /\ FindSlot(table, size, k) = At(From(k, size), d, size)
              /\ table[At(From(k, size), d, size)] \in {Unused, k}
              /\ \A e \in 0 .. size - 1 :
                   e < d => table[At(From(k, size), e, size)] \notin {Unused, k}
<1> DEFINE ends == {d \in 0 .. size - 1 : table[((Hash[k] % size) + d) % size] \in {Unused, k}}
           first == CHOOSE d \in ends : \A e \in ends : d <= e
<1>1. FindSlot(table, size, k) = IF ends = {} THEN -1 ELSE ((Hash[k] % size) + first) % size
  BY DEF FindSlot
<1>2. \A d \in 0 .. size - 1 : d \in ends <=> table[At(From(k, size), d, size)] \in {Unused, k}
  BY DEF At, From
<1>3. CASE ends = {}
  BY <1>1, <1>2, <1>3
<1>4. CASE ends # {}
  <2>1. ends \in SUBSET Nat
    OBVIOUS
  <2> HIDE DEF ends
  <2>2. \E d \in ends : \A e \in ends : d <= e
    BY <1>4, <2>1, LeastOf
  <2>3. first \in ends /\ \A e \in ends : first <= e
    BY <2>2
  <2> HIDE DEF first
  <2>4. first \in 0 .. size - 1
    BY <2>3 DEF ends
  <2>5. FindSlot(table, size, k) = At(From(k, size), first, size)
    BY <1>1, <1>4 DEF At, From
  <2>6. \A e \in 0 .. size - 1 : e < first => e \notin ends
    BY <2>3, <2>4
  <2> QED
    BY <1>2, <2>3, <2>4, <2>5, <2>6
<1> QED
  BY <1>3, <1>4

-----------------------------------------------------------------------------
(* Tables. *)

\* A key that is there is found.
LEMMA KeyFound ==
  ASSUME TableSetting, Sizes, NEW size \in Nat \ {0}, NEW table, TableOK(table, size),
         NEW k \in Keys, NEW a \in 0 .. size - 1, table[a] = k
  PROVE  Found(table, size, k) /\ {b \in DOMAIN table : table[b] = k} = {a}
<1> DEFINE here(d) == At(From(k, size), d, size)
<1>0. k # Unused /\ From(k, size) \in 0 .. size - 1
  BY FromIs DEF TableSetting
<1>1. PICK d \in 0 .. size - 1 : here(d) = a
  BY <1>0, Places
<1>2. \A e \in 0 .. size - 1 : e < d => table[here(e)] # Unused
  BY <1>1 DEF TableOK, Probed
<1>3. \A b \in 0 .. size - 1 : table[b] = k => b = a
  BY <1>0 DEF TableOK
<1>4. \A e \in 0 .. size - 1 : e < d => table[here(e)] # k
  <2>1. \A e \in 0 .. size - 1 : here(e) \in 0 .. size - 1 /\ (here(e) = a => e = d)
    <3>1. /\ \A e \in 0 .. size - 1 : here(e) \in 0 .. size - 1
          /\ \A e, g \in 0 .. size - 1 : here(e) = here(g) => e = g
      BY <1>0, Places
    <3> QED
      BY <1>1, <3>1
  <2> QED
    BY <1>3, <2>1
<1>5. FindSlot(table, size, k) = a
  <2>1. ~ \A e \in 0 .. size - 1 : table[here(e)] \notin {Unused, k}
    BY <1>1
  <2>2. PICK f \in 0 .. size - 1 :
          /\ FindSlot(table, size, k) = here(f)
          /\ table[here(f)] \in {Unused, k}
          /\ \A e \in 0 .. size - 1 : e < f => table[here(e)] \notin {Unused, k}
    BY <2>1, FindSlotIs
  <2>3. ~ (f < d)
    BY <1>2, <1>4, <2>2
  <2>4. ~ (d < f)
    BY <1>1, <2>2
  <2>5. f = d
    BY <2>3, <2>4
  <2> QED
    BY <1>1, <2>2, <2>5
<1>6. DOMAIN table = 0 .. size - 1
  BY DEF TableOK
<1>7. a # -1
  OBVIOUS
<1> QED
  BY <1>3, <1>5, <1>6, <1>7 DEF Found

Inserted(table, k, size) == [table EXCEPT ![FindSlot(table, size, k)] = k]

\* An insertion puts the key into the table, once.
LEMMA KeyInserted ==
  ASSUME TableSetting, Sizes, NEW size \in Nat \ {0}, NEW table, TableOK(table, size),
         NEW k \in Keys, FindSlot(table, size, k) # -1
  PROVE  /\ TableOK(Inserted(table, k, size), size)
         /\ KeysIn(Inserted(table, k, size)) = KeysIn(table) \cup {k}
<1> DEFINE here(d) == At(From(k, size), d, size)
<1>0. k # Unused /\ From(k, size) \in 0 .. size - 1 /\ Unused \notin Keys
  BY FromIs DEF TableSetting
<1>1. PICK d \in 0 .. size - 1 :
        /\ FindSlot(table, size, k) = here(d)
        /\ table[here(d)] \in {Unused, k}
        /\ \A e \in 0 .. size - 1 : e < d => table[here(e)] \notin {Unused, k}
  BY FindSlotIs
<1> DEFINE a == here(d)
           after == Inserted(table, k, size)
<1>2. a \in 0 .. size - 1
  BY <1>0, <1>1, Places
<1>3. /\ table \in [0 .. size - 1 -> Keys \cup {Unused}] /\ after \in [0 .. size - 1 -> Keys \cup {Unused}]
      /\ \A b \in 0 .. size - 1 : after[b] = IF b = a THEN k ELSE table[b]
  BY <1>1, <1>2 DEF TableOK, Inserted
<1> HIDE DEF after
<1>4. ASSUME NEW b \in 0 .. size - 1, table[b] = k PROVE b = a
  <2>1. PICK e \in 0 .. size - 1 : here(e) = b
    BY <1>0, Places
  <2>2. ~ (e < d)
    BY <1>1, <1>4, <2>1
  <2>3. CASE table[a] = k
    BY <1>0, <1>2, <1>4, <2>3 DEF TableOK
  <2>4. CASE table[a] = Unused
    <3>1. ~ (d < e)
      BY <1>1, <1>4, <2>1, <2>4 DEF TableOK, Probed
    <3>2. d = e
      BY <2>2, <3>1
    <3> QED
      BY <2>1, <3>2
  <2> QED
    BY <1>1, <2>3, <2>4
<1>5. ASSUME NEW b \in 0 .. size - 1, NEW c \in 0 .. size - 1, after[b] = after[c], after[b] # Unused
      PROVE  b = c
  BY <1>3, <1>4, <1>5 DEF TableOK
<1>6. Probed(after, size)
  <2> SUFFICES ASSUME NEW m \in Keys, NEW f \in 0 .. size - 1,
                      after[At(From(m, size), f, size)] = m,
                      NEW e \in 0 .. size - 1, e < f
               PROVE  after[At(From(m, size), e, size)] # Unused
    BY DEF Probed
  <2>1. /\ At(From(m, size), f, size) \in 0 .. size - 1 /\ At(From(m, size), e, size) \in 0 .. size - 1
    BY FromIs, Places
  <2>2. CASE table[At(From(m, size), f, size)] = m
    <3>1. table[At(From(m, size), e, size)] # Unused
      BY <2>2 DEF TableOK, Probed
    <3> QED
      BY <1>0, <1>3, <2>1, <3>1
  <2>3. CASE table[At(From(m, size), f, size)] # m
    <3>1. m = k /\ At(From(m, size), f, size) = a
      BY <1>3, <2>1, <2>3
    <3>2. f = d
      BY <1>0, <3>1, Places
    <3> QED
      BY <1>0, <1>1, <1>3, <2>1, <3>1, <3>2
  <2> QED
    BY <2>2, <2>3
<1>7. KeysIn(after) = KeysIn(table) \cup {k}
  <2>1. \A x : x \in Range(after) <=> \E b \in 0 .. size - 1 : after[b] = x
    BY <1>3 DEF Range
  <2>2. \A x : x \in Range(table) <=> \E b \in 0 .. size - 1 : table[b] = x
    BY <1>3 DEF Range
  <2>3. ASSUME NEW x, x # Unused PROVE x \in Range(after) <=> x \in Range(table) \/ x = k
    <3>1. CASE x = k
      BY <1>2, <1>3, <2>1, <3>1
    <3>2. CASE x # k
      <4>1. table[a] # x
        BY <1>1, <2>3, <3>2
      <4> QED
        BY <1>3, <2>1, <2>2, <3>2, <4>1
    <3> QED
      BY <3>1, <3>2
  <2> QED
    BY <1>0, <2>3 DEF KeysIn
<1>8. TableOK(after, size)
  BY <1>3, <1>5, <1>6 DEF TableOK
<1> QED
  BY <1>7, <1>8 DEF after

\* A table with fewer keys than places is not full.
LEMMA NotFull ==
  ASSUME TableSetting, Sizes, NEW size \in Nat \ {0}, NEW table, TableOK(table, size),
         NEW k \in Keys, IsFiniteSet(KeysIn(table)), Cardinality(KeysIn(table)) < size
  PROVE  FindSlot(table, size, k) # -1
<1> DEFINE here(d) == At(From(k, size), d, size)
<1>1. SUFFICES ASSUME \A d \in 0 .. size - 1 : table[here(d)] \notin {Unused, k}
               PROVE  FALSE
  <2>1. \A d \in 0 .. size - 1 : here(d) \in 0 .. size - 1
    BY FromIs, Places
  <2>2. \A d \in 0 .. size - 1 : here(d) # -1
    BY <2>1
  <2> QED
    BY <2>2, FindSlotIs
<1>2. \A a \in 0 .. size - 1 : table[a] # Unused
  <2> TAKE a \in 0 .. size - 1
  <2>1. PICK d \in 0 .. size - 1 : here(d) = a
    BY FromIs, Places
  <2> QED
    BY <1>1, <2>1
<1>3. table \in Injection(0 .. size - 1, KeysIn(table))
  BY <1>2 DEF Injection, IsInjective, KeysIn, Range, TableOK
<1>4. Cardinality(0 .. size - 1) <= Cardinality(KeysIn(table))
  BY <1>3, FS_Injection
<1>5. Cardinality(0 .. size - 1) = size
  BY FS_Interval
<1>6. Cardinality(KeysIn(table)) \in Nat
  BY FS_CardinalityType
<1> QED
  BY <1>4, <1>5, <1>6

LEMMA EmptyIs ==
  ASSUME TableSetting, Sizes, NEW size \in Nat
  PROVE  TableOK(Empty(size), size) /\ KeysIn(Empty(size)) = {}
<1>1. /\ Empty(size) \in [0 .. size - 1 -> Keys \cup {Unused}]
      /\ \A a \in 0 .. size - 1 : Empty(size)[a] = Unused
  BY DEF Empty
<1>2. Probed(Empty(size), size)
  <2> SUFFICES ASSUME NEW k \in Keys, NEW d \in 0 .. size - 1,
                      Empty(size)[At(From(k, size), d, size)] = k,
                      NEW e \in 0 .. size - 1, e < d
               PROVE  FALSE
    BY DEF Probed
  <2>1. size \in Nat \ {0} /\ k # Unused
    BY DEF TableSetting
  <2>2. At(From(k, size), d, size) \in 0 .. size - 1
    BY <2>1, FromIs, Places
  <2> QED
    BY <1>1, <2>1, <2>2
<1> QED
  BY <1>1, <1>2 DEF TableOK, KeysIn, Range

-----------------------------------------------------------------------------
(* The loop of Check_Resize. *)

Moved(table, k, size) ==
  IF k = Unused THEN table ELSE Inserted(table, k, size)
Steps(f, n, old, size) ==
  f = [j \in 0 .. n |-> IF j = 0 THEN Empty(2 * size)
                        ELSE Moved(f[j - 1], old[j - 1], 2 * size)]

\* The recursive function exists.
LEMMA StepsExist ==
  ASSUME NEW size \in Nat, NEW old
  PROVE  \E f : Steps(f, size, old, size)
<1> DEFINE Without == {n \in 0 .. size : ~ \E f : Steps(f, n, old, size)}
<1>1. SUFFICES ASSUME Without # {} PROVE FALSE
  OBVIOUS
<1>2. PICK n \in Without : \A m \in Without : n <= m
  <2>1. Without \in SUBSET Nat
    OBVIOUS
  <2> HIDE DEF Without
  <2> QED
    BY <1>1, <2>1, LeastOf
<1>3. n \in 0 .. size /\ ~ \E f : Steps(f, n, old, size)
  BY <1>2
<1>4. CASE n = 0
  <2> DEFINE f == [j \in 0 .. n |-> Empty(2 * size)]
  <2>1. \A j \in 0 .. n : j = 0
    BY <1>4
  <2>2. Steps(f, n, old, size)
    BY <2>1 DEF Steps
  <2> QED
    BY <1>3, <2>2
<1>5. CASE n # 0
  <2>1. n - 1 \in 0 .. size /\ n - 1 \notin Without
    BY <1>2, <1>3, <1>5
  <2>2. PICK g : Steps(g, n - 1, old, size)
    BY <2>1
  <2> DEFINE f == [j \in 0 .. n |-> IF j = n THEN Moved(g[n - 1], old[n - 1], 2 * size) ELSE g[j]]
  <2>3. \A j \in 0 .. n : j # 0 => f[j - 1] = g[j - 1]
    BY <1>3
  <2>4. ASSUME NEW j \in 0 .. n
        PROVE  f[j] = IF j = 0 THEN Empty(2 * size) ELSE Moved(f[j - 1], old[j - 1], 2 * size)
    <3>1. CASE j = n
      BY <1>5, <2>3, <3>1
    <3>2. CASE j # n
      <4>1. j \in 0 .. n - 1 /\ f[j] = g[j]
        BY <1>3, <3>2
      <4> HIDE DEF f
      <4>2. g[j] = IF j = 0 THEN Empty(2 * size) ELSE Moved(g[j - 1], old[j - 1], 2 * size)
        BY <2>2, <4>1 DEF Steps
      <4> QED
        BY <2>3, <4>1, <4>2
    <3> QED
      BY <3>1, <3>2
  <2>5. Steps(f, n, old, size)
    <3>1. f = [j \in 0 .. n |-> f[j]]
      OBVIOUS
    <3> HIDE DEF f
    <3> QED
      BY <2>4, <3>1 DEF Steps
  <2> QED
    BY <1>3, <2>5
<1> QED
  BY <1>4, <1>5

\* The array of a table twice as large, with the same keys.
LEMMA RehashedIs ==
  ASSUME TableSetting, Sizes, NEW size \in Nat \ {0}, NEW old, TableOK(old, size)
  PROVE  TableOK(Rehashed(old, size), 2 * size) /\ KeysIn(Rehashed(old, size)) = KeysIn(old)
<1> DEFINE f == CHOOSE f : Steps(f, size, old, size)
           FirstOf(n) == {old[j] : j \in 0 .. n - 1}
           Good(n) == TableOK(f[n], 2 * size) /\ KeysIn(f[n]) = FirstOf(n) \ {Unused}
           Bad == {n \in 0 .. size : ~Good(n)}
<1>1. Rehashed(old, size) = f[size]
  BY DEF Rehashed, Steps, Moved, Inserted
<1>2. Steps(f, size, old, size)
  BY StepsExist
<1> HIDE DEF f
<1>3. \A n \in 0 .. size :
        f[n] = IF n = 0 THEN Empty(2 * size) ELSE Moved(f[n - 1], old[n - 1], 2 * size)
  BY <1>2 DEF Steps
<1>4. ASSUME NEW n \in 0 .. size - 1 PROVE IsFiniteSet(FirstOf(n)) /\ Cardinality(FirstOf(n)) <= n
  <2> DEFINE g == [j \in 0 .. n - 1 |-> old[j]]
  <2>1. g \in Surjection(0 .. n - 1, FirstOf(n))
    BY DEF Surjection
  <2>2. IsFiniteSet(0 .. n - 1) /\ Cardinality(0 .. n - 1) = n
    <3> HIDE DEF g, FirstOf, Good, Bad
    <3>1. 0 \in Int /\ n - 1 \in Int /\ (IF 0 > n - 1 THEN 0 ELSE (n - 1) - 0 + 1) = n
      OBVIOUS
    <3> QED
      BY <3>1, FS_Interval
  <2> HIDE DEF g, FirstOf
  <2> QED
    BY <2>1, <2>2, FS_Surjection
<1>5. Good(0)
  <2>1. f[0] = Empty(2 * size) /\ 2 * size \in Nat
    BY <1>3
  <2>2. FirstOf(0) = {}
    OBVIOUS
  <2> QED
    BY <2>1, <2>2, EmptyIs
<1>6. ASSUME NEW n \in 0 .. size - 1, Good(n) PROVE Good(n + 1)
  <2> DEFINE k == old[n]
  <2>1. f[n + 1] = Moved(f[n], k, 2 * size)
    BY <1>3
  <2>2. k \in Keys \cup {Unused}
    BY DEF TableOK
  <2>3. FirstOf(n + 1) = FirstOf(n) \cup {k}
    <3>1. \A j : j \in 0 .. n <=> j \in 0 .. n - 1 \/ j = n
      OBVIOUS
    <3> QED
      BY <3>1
  <2> HIDE DEF FirstOf
  <2>4. CASE k = Unused
    BY <1>6, <2>1, <2>3, <2>4 DEF Moved
  <2>5. CASE k # Unused
    <3>1. 2 * size \in Nat \ {0} /\ k \in Keys
      BY <2>2, <2>5
    <3>2. IsFiniteSet(KeysIn(f[n])) /\ Cardinality(KeysIn(f[n])) <= Cardinality(FirstOf(n))
      <4>1. KeysIn(f[n]) \in SUBSET FirstOf(n)
        BY <1>6
      <4> QED
        BY <1>4, <4>1, FS_Subset
    <3>3. Cardinality(KeysIn(f[n])) < 2 * size
      <4>1. Cardinality(KeysIn(f[n])) \in Nat /\ Cardinality(FirstOf(n)) \in Nat
        BY <1>4, <3>2, FS_CardinalityType
      <4> QED
        BY <1>4, <3>2, <4>1
    <3>4. FindSlot(f[n], 2 * size, k) # -1
      BY <1>6, <3>1, <3>2, <3>3, NotFull
    <3>5. TableOK(f[n + 1], 2 * size) /\ KeysIn(f[n + 1]) = KeysIn(f[n]) \cup {k}
      BY <1>6, <2>1, <2>5, <3>1, <3>4, KeyInserted DEF Moved
    <3> QED
      BY <1>6, <2>3, <2>5, <3>5
  <2> QED
    BY <2>4, <2>5
<1>7. Good(size)
  <2> HIDE DEF Good
  <2>1. SUFFICES ASSUME Bad # {} PROVE FALSE
    OBVIOUS
  <2>2. PICK n \in Bad : \A m \in Bad : n <= m
    <3>1. Bad \in SUBSET Nat
      OBVIOUS
    <3> HIDE DEF Bad
    <3> QED
      BY <2>1, <3>1, LeastOf
  <2>3. n \in 0 .. size /\ n # 0
    BY <1>5, <2>2
  <2>4. n - 1 \in 0 .. size - 1 /\ n - 1 \in 0 .. size /\ n - 1 \notin Bad
    BY <2>2, <2>3
  <2>5. Good(n - 1) /\ (n - 1) + 1 = n
    BY <2>3, <2>4
  <2>6. Good(n)
    BY <1>6, <2>4, <2>5
  <2> QED
    BY <2>2, <2>6
<1>8. FirstOf(size) \ {Unused} = KeysIn(old)
  BY DEF KeysIn, Range, TableOK
<1> QED
  BY <1>1, <1>7, <1>8

-----------------------------------------------------------------------------
(* What the workers draw. *)

LEMMA QuotaIs ==
  ASSUME TableSetting, nTask \in Nat \ {0}
  PROVE  /\ NumOp \div nTask \in Nat /\ NumOp % nTask \in Nat
         /\ NumOp = (NumOp \div nTask) * nTask + (NumOp % nTask)
         /\ \A w : QuotaOf(w) \in 0 .. NumOp
<1> DEFINE q == NumOp \div nTask
           r == NumOp % nTask
<1>0. NumOp \in Nat /\ nTask \in Nat /\ 1 <= nTask
  BY DEF TableSetting
<1>1. NumOp = nTask * q + r /\ q \in Nat /\ r \in Nat
  BY <1>0
<1>2. \A w : QuotaOf(w) = q + (IF w = nTask THEN r ELSE 0)
  BY DEF QuotaOf
<1> HIDE DEF q, r
<1>3. nTask * q = q * nTask /\ 1 * q = q
  BY <1>0, <1>1
<1>4. q <= nTask * q /\ nTask * q \in Nat
  BY <1>0, <1>1, <1>3, TimesMonotone
<1>5. \A w : QuotaOf(w) \in 0 .. NumOp
  BY <1>0, <1>1, <1>2, <1>4
<1> QED
  BY <1>1, <1>3, <1>5 DEF q, r

\* The workers draw no more than NumOp keys.
LEMMA AskedFew ==
  ASSUME TableSetting, nTask \in Nat \ {0}
  PROVE  IsFiniteSet(Asked) /\ Cardinality(Asked) <= NumOp
<1> DEFINE q == NumOp \div nTask
           r == NumOp % nTask
           all == (1 .. nTask) \X (1 .. q)
           rest == {nTask} \X (q + 1 .. q + r)
<1>0. q \in Nat /\ r \in Nat /\ NumOp = q * nTask + r /\ nTask \in Nat
  BY QuotaIs
<1>1. Asked \subseteq all \cup rest
  <2>1. ASSUME NEW d \in Asked PROVE d \in all \cup rest
    <3>1. /\ d = <<d[1], d[2]>> /\ d[1] \in 1 .. MaxTask /\ d[2] \in 1 .. NumOp
          /\ d[1] <= nTask /\ d[2] <= q + (IF d[1] = nTask THEN r ELSE 0)
      BY <2>1 DEF Asked, QuotaOf, Workers
    <3>2. d[1] \in 1 .. nTask
      BY <1>0, <3>1
    <3>3. CASE d[2] <= q
      <4>1. d[2] \in 1 .. q
        BY <1>0, <3>1, <3>3
      <4> QED
        BY <3>1, <3>2, <4>1
    <3>4. CASE ~ (d[2] <= q)
      <4>1. d[1] = nTask
        BY <1>0, <3>1, <3>4
      <4>2. d[2] \in q + 1 .. q + r
        BY <1>0, <3>1, <3>4, <4>1
      <4> QED
        BY <3>1, <4>1, <4>2
    <3> QED
      BY <3>3, <3>4
  <2> QED
    BY <2>1
<1> HIDE DEF q, r, all, rest
<1>2. IsFiniteSet(all) /\ Cardinality(all) = nTask * q
  <2>1. 1 \in Int /\ nTask \in Int /\ (IF 1 > nTask THEN 0 ELSE nTask - 1 + 1) = nTask
    BY <1>0
  <2>2. IsFiniteSet(1 .. nTask) /\ Cardinality(1 .. nTask) = nTask
    BY <2>1, FS_Interval
  <2>3. q \in Int /\ (IF 1 > q THEN 0 ELSE q - 1 + 1) = q
    BY <1>0
  <2>4. IsFiniteSet(1 .. q) /\ Cardinality(1 .. q) = q
    BY <2>1, <2>3, FS_Interval
  <2>5. IsFiniteSet(all) /\ Cardinality(all) = Cardinality(1 .. nTask) * Cardinality(1 .. q)
    BY <2>2, <2>4, FS_Product DEF all
  <2> QED
    BY <2>2, <2>4, <2>5
<1>3. IsFiniteSet(rest) /\ Cardinality(rest) = r
  <2>1. q + 1 \in Int /\ q + r \in Int
        /\ (IF q + 1 > q + r THEN 0 ELSE (q + r) - (q + 1) + 1) = r
    BY <1>0
  <2>2. IsFiniteSet(q + 1 .. q + r) /\ Cardinality(q + 1 .. q + r) = r
    BY <2>1, FS_Interval
  <2>3. IsFiniteSet({nTask}) /\ Cardinality({nTask}) = 1
    BY FS_Singleton
  <2>4. 1 * r = r
    BY <1>0
  <2>5. IsFiniteSet(rest) /\ Cardinality(rest) = Cardinality({nTask}) * Cardinality(q + 1 .. q + r)
    BY <2>2, <2>3, FS_Product DEF rest
  <2> QED
    BY <2>2, <2>3, <2>4, <2>5
<1>4. /\ IsFiniteSet(all \cup rest)
      /\ Cardinality(all \cup rest) = Cardinality(all) + Cardinality(rest) - Cardinality(all \cap rest)
  BY <1>2, <1>3, FS_Union
<1>5. Cardinality(all \cap rest) \in Nat
  <2>1. IsFiniteSet(all \cap rest)
    BY <1>2, FS_Intersection
  <2> QED
    BY <2>1, FS_CardinalityType
<1>6. nTask * q = q * nTask /\ q * nTask \in Nat
  BY <1>0
<1>7. Cardinality(all \cup rest) <= NumOp
  BY <1>0, <1>2, <1>3, <1>4, <1>5, <1>6
<1>8. IsFiniteSet(Asked) /\ Cardinality(Asked) <= Cardinality(all \cup rest)
  BY <1>1, <1>4, FS_Subset
<1>9. Cardinality(Asked) \in Nat /\ Cardinality(all \cup rest) \in Nat
  BY <1>4, <1>8, FS_CardinalityType
<1> QED
  BY <1>0, <1>6, <1>7, <1>8, <1>9

\* The fixed table has room for them.
LEMMA PutFew ==
  ASSUME TableSetting, nTask \in Nat \ {0}, Putting
  PROVE  IsFiniteSet(put) /\ Cardinality(put) <= NumOp
<1> DEFINE keys == {Random[d[1]][d[2]] : d \in Asked}
           f == [d \in Asked |-> Random[d[1]][d[2]]]
<1>1. f \in Surjection(Asked, keys)
  BY DEF Surjection
<1>2. put \subseteq keys
  BY DEF Putting
<1> HIDE DEF keys, f
<1>3. IsFiniteSet(Asked) /\ Cardinality(Asked) <= NumOp
  BY AskedFew
<1>4. IsFiniteSet(keys) /\ Cardinality(keys) <= Cardinality(Asked)
  BY <1>1, <1>3, FS_Surjection
<1>5. IsFiniteSet(put) /\ Cardinality(put) <= Cardinality(keys)
  BY <1>2, <1>4, FS_Subset
<1>6. Cardinality(put) \in Nat /\ Cardinality(keys) \in Nat /\ Cardinality(Asked) \in Nat
  BY <1>3, <1>4, <1>5, FS_CardinalityType
<1>7. NumOp \in Nat
  BY DEF TableSetting
<1> QED
  BY <1>3, <1>4, <1>5, <1>6, <1>7

-----------------------------------------------------------------------------
(* The operations. *)

LEMMA AtWork ==
  ASSUME TableSetting, TableIInv, NEW w \in Workers, worker[w] \in Operating
  PROVE  /\ meeting # "done" /\ w <= nTask /\ nTask \in Nat \ {0}
         /\ quota[w] = QuotaOf(w) /\ drawn[w] \in 1 .. QuotaOf(w)
         /\ QuotaOf(w) \in 0 .. NumOp /\ drawn[w] \in 1 .. NumOp
         /\ key[w] = Random[w][drawn[w]] /\ key[w] \in Keys
         /\ Map_Size \in Nat \ {0}
         /\ InsertedBy(w) = IF job = "Lookup" THEN QuotaOf(w) ELSE drawn[w] - 1
<1>0. TableTypeOK /\ Sizes /\ Rendezvous /\ Drawing
  BY DEF TableIInv
<1>1. /\ MinTask \in Nat \ {0} /\ MaxTask \in Nat /\ NumOp \in Nat /\ nTask \in MinTask .. MaxTask + 1
      /\ id \in 1 .. MaxTask /\ meeting \in {"start", "finish", "done"} /\ w \in 1 .. MaxTask
  BY <1>0 DEF TableSetting, TableTypeOK, Workers
<1>2. worker[w] # "start" /\ worker[w] # "finish"
  BY DEF Operating
<1>3. /\ meeting # "done" /\ w <= nTask /\ ~ (meeting = "finish" /\ w < id)
  <2>1. /\ meeting = "start" => w < id
        /\ meeting = "finish" => id <= w /\ w <= nTask
        /\ meeting # "done"
        /\ id <= nTask
    BY <1>0, <1>2 DEF Rendezvous
  <2> QED
    BY <1>1, <2>1
<1>4. nTask \in Nat \ {0}
  BY <1>1
<1>5. quota[w] = QuotaOf(w) /\ drawn[w] \in 1 .. quota[w] /\ key[w] = Random[w][drawn[w]]
  BY <1>0 DEF Drawing
<1>6. QuotaOf(w) \in 0 .. NumOp
  BY <1>4, QuotaIs
<1>7. drawn[w] \in 1 .. NumOp
  BY <1>1, <1>5, <1>6
<1>8. key[w] \in Keys
  <2>1. Random[w] \in [1 .. NumOp -> Keys]
    BY <1>0 DEF Sizes, TableSetting
  <2> QED
    BY <1>5, <1>7, <2>1
<1>9. Map_Size \in Nat \ {0}
  BY <1>0, <1>1, <1>7 DEF Sizes
<1>10. InsertedBy(w) = IF job = "Lookup" THEN QuotaOf(w) ELSE drawn[w] - 1
  BY <1>2, <1>3 DEF InsertedBy
<1> QED
  BY <1>3, <1>4, <1>5, <1>6, <1>7, <1>8, <1>9, <1>10

\* An insertion fails in the growing table only.
LEMMA InsertEffect ==
  ASSUME TableSetting, TableIInv, NEW w \in Workers, Insert(w)
  PROVE  \/ /\ Growing
            /\ worker' = [worker EXCEPT ![w] = Failed]
            /\ UNCHANGED <<Pair_Array, drawn, key, quota, put>>
         \/ /\ FindSlot(Pair_Array, Map_Size, key[w]) # -1
            /\ Pair_Array' = [Pair_Array EXCEPT ![FindSlot(Pair_Array, Map_Size, key[w])] = key[w]]
            /\ put' = put \cup {key[w]}
            /\ NextKey(w)
<1>1. CASE FindSlot(Pair_Array, Map_Size, key[w]) # -1
  BY <1>1 DEF Insert
<1>2. CASE Growing /\ FindSlot(Pair_Array, Map_Size, key[w]) = -1
  BY <1>2 DEF Insert
<1>3. CASE ~Growing /\ FindSlot(Pair_Array, Map_Size, key[w]) = -1
  <2>0. worker[w] \in Operating
    BY DEF Insert, Operating
  <2>1. nTask \in Nat \ {0} /\ key[w] \in Keys /\ Map_Size \in Nat \ {0} /\ drawn[w] \in 1 .. NumOp
    BY <2>0, AtWork
  <2>2. Putting /\ Sizes /\ TableOK(Pair_Array, Map_Size) /\ KeysIn(Pair_Array) = put
    BY DEF TableIInv, Kept
  <2>3. IsFiniteSet(put) /\ Cardinality(put) <= NumOp
    BY <2>1, <2>2, PutFew
  <2>4. Map_Size = 2 * NumOp /\ NumOp \in Nat /\ Cardinality(put) \in Nat
    BY <1>3, <2>2, <2>3, FS_CardinalityType DEF Sizes, TableSetting
  <2>5. Cardinality(put) < Map_Size
    BY <2>1, <2>3, <2>4
  <2> QED
    BY <1>3, <2>1, <2>2, <2>3, <2>5, NotFull
<1> QED
  BY <1>1, <1>2, <1>3

\* A lookup finds its key.
LEMMA LookupEffect ==
  ASSUME TableSetting, TableIInv, NEW w \in Workers, Lookup(w)
  PROVE  missed' = missed /\ NextKey(w)
<1>1. worker[w] = "lookup" /\ worker[w] \in Operating /\ job = "Lookup"
  BY DEF Lookup, Operating, TableIInv, Drawing
<1>2. /\ meeting # "done" /\ w <= nTask /\ drawn[w] \in 1 .. QuotaOf(w) /\ QuotaOf(w) \in 0 .. NumOp
      /\ drawn[w] \in 1 .. NumOp /\ key[w] = Random[w][drawn[w]] /\ key[w] \in Keys
      /\ Map_Size \in Nat \ {0} /\ InsertedBy(w) = QuotaOf(w)
  BY <1>1, AtWork
<1>3. key[w] \in put
  BY <1>2 DEF TableIInv, Putting
<1>4. PICK a \in 0 .. Map_Size - 1 : Pair_Array[a] = key[w]
  BY <1>3 DEF TableIInv, Kept, KeysIn, Range, TableOK
<1>5. Found(Pair_Array, Map_Size, key[w])
  BY <1>2, <1>4, KeyFound DEF TableIInv, Kept
<1>6. FindSlot(Pair_Array, Map_Size, key[w]) # -1
  BY <1>5 DEF Found
<1>7. missed \in BOOLEAN
  BY DEF TableIInv, TableTypeOK
<1> QED
  BY <1>5, <1>6, <1>7 DEF Lookup

LEMMA LoopIs ==
  ASSUME NEW left \in Nat
  PROVE  /\ Loop(left) \in AtTable /\ Loop(left) \notin {"start", "count", Failed}
         /\ Loop(left) \in Operating <=> left # 0
         /\ Loop(left) = "check" => Growing
         /\ Loop(left) = "lookup" => job = "Lookup"
         /\ Loop(left) \in Operating => (Loop(left) = "lookup" <=> job = "Lookup")
BY DEF Loop, AtTable, Operating, Failed

\* A worker goes on to its next key.
LEMMA NextKeyIs ==
  ASSUME TableSetting, TableIInv, NEW w \in Workers, worker[w] \in Operating, NextKey(w)
  PROVE  /\ quota[w] - drawn[w] \in Nat
         /\ \A v \in Workers \ {w} :
              worker'[v] = worker[v] /\ drawn'[v] = drawn[v] /\ key'[v] = key[v]
         /\ quota' = quota
         /\ worker'[w] = Loop(quota[w] - drawn[w]) /\ drawn'[w] = drawn[w] + 1
         /\ key'[w] = IF drawn[w] < quota[w] THEN Random[w][drawn[w] + 1] ELSE Unused
<1>1. quota[w] = QuotaOf(w) /\ drawn[w] \in 1 .. QuotaOf(w) /\ QuotaOf(w) \in 0 .. NumOp
  BY AtWork
<1>2. NumOp \in Nat
  BY DEF TableSetting
<1>3. DOMAIN worker = Workers /\ DOMAIN drawn = Workers /\ DOMAIN key = Workers
  BY DEF TableIInv, TableTypeOK
<1>4. quota[w] - drawn[w] \in Nat
  BY <1>1, <1>2
<1> QED
  BY <1>3, <1>4 DEF NextKey

-----------------------------------------------------------------------------
(* What each step preserves. *)

LEMMA TableTypesNext == TableSetting /\ TableIInv /\ [TableNext]_hashVars => TableTypeOK'
<1> SUFFICES ASSUME TableSetting, TableIInv, [TableNext]_hashVars PROVE TableTypeOK'
  OBVIOUS
<1> USE DEF TableTypeOK
<1>0. TableTypeOK /\ Sizes /\ Rendezvous /\ NumOp \in Nat
      /\ MinTask \in Nat \ {0} /\ MaxTask \in Nat /\ MinTask <= MaxTask
  BY DEF TableIInv, TableSetting
<1>1. nTask \in Nat \ {0} /\ \A w : QuotaOf(w) \in 0 .. NumOp
  <2>1. nTask \in Nat \ {0}
    BY <1>0
  <2> QED
    BY <2>1, QuotaIs
<1>2. \A w \in Workers : \A n \in 1 .. NumOp : Random[w][n] \in Keys
  BY <1>0 DEF Sizes, TableSetting
<1>3. AtTable \subseteq {"start", "insert", "check", "count", "lookup", "finish", Failed}
  BY DEF AtTable, Operating
<1>4. ASSUME NEW w \in Workers, worker[w] \in Operating, NextKey(w)
      PROVE  /\ worker' \in [Workers -> {"start", "insert", "check", "count", "lookup", "finish", Failed}]
             /\ drawn' \in [Workers -> 0 .. NumOp + 1]
             /\ key' \in [Workers -> Keys \cup {Unused}]
             /\ quota' \in [Workers -> 0 .. NumOp]
  <2>1. quota[w] = QuotaOf(w) /\ drawn[w] \in 1 .. QuotaOf(w) /\ drawn[w] \in 1 .. NumOp
    BY <1>4, AtWork
  <2>2. quota[w] - drawn[w] \in Nat
    BY <1>4, NextKeyIs
  <2>3. Loop(quota[w] - drawn[w]) \in AtTable
    BY <2>2, LoopIs
  <2>4. drawn[w] + 1 \in 0 .. NumOp + 1
    BY <1>0, <2>1
  <2>5. drawn[w] < quota[w] => drawn[w] + 1 \in 1 .. NumOp
    BY <1>0, <1>1, <2>1
  <2>6. (IF drawn[w] < quota[w] THEN Random[w][drawn[w] + 1] ELSE Unused) \in Keys \cup {Unused}
    BY <1>2, <2>5
  <2>7. worker' \in [Workers -> {"start", "insert", "check", "count", "lookup", "finish", Failed}]
    BY <1>0, <1>3, <1>4, <2>3 DEF NextKey
  <2>8. drawn' \in [Workers -> 0 .. NumOp + 1]
    BY <1>0, <1>4, <2>4 DEF NextKey
  <2>9. key' \in [Workers -> Keys \cup {Unused}]
    BY <1>0, <1>4, <2>6 DEF NextKey
  <2>10. quota' \in [Workers -> 0 .. NumOp]
    BY <1>0, <1>4 DEF NextKey
  <2> QED
    BY <2>7, <2>8, <2>9, <2>10
<1>5. CASE TableStart
  <2>1. Loop(QuotaOf(id)) \in {"start", "insert", "check", "count", "lookup", "finish", Failed}
    <3>1. QuotaOf(id) \in Nat
      BY <1>1
    <3> QED
      BY <1>3, <3>1, LoopIs
  <2>2. QuotaOf(id) > 0 => 1 \in 1 .. NumOp
    BY <1>0, <1>1
  <2>3. (IF QuotaOf(id) > 0 THEN Random[id][1] ELSE Unused) \in Keys \cup {Unused}
    BY <1>0, <1>2, <2>2
  <2>4. worker' \in [Workers -> {"start", "insert", "check", "count", "lookup", "finish", Failed}]
    BY <1>0, <1>5, <2>1 DEF TableStart
  <2>5. drawn' \in [Workers -> 0 .. NumOp + 1]
    <3>1. 1 \in 0 .. NumOp + 1
      BY <1>0
    <3> QED
      BY <1>0, <1>5, <3>1 DEF TableStart
  <2>6. key' \in [Workers -> Keys \cup {Unused}]
    BY <1>0, <1>5, <2>3 DEF TableStart
  <2>7. quota' \in [Workers -> 0 .. NumOp]
    BY <1>0, <1>1, <1>5 DEF TableStart
  <2>8. id' \in Workers /\ meeting' \in {"start", "finish", "done"}
    <3>1. id \in 1 .. MaxTask /\ id <= nTask /\ nTask <= MaxTask /\ nTask \in Nat
      BY <1>0, <1>1, <1>5 DEF TableStart, Rendezvous, Workers
    <3>2. 1 \in 1 .. MaxTask /\ (id < nTask => id + 1 \in 1 .. MaxTask)
      BY <1>0, <3>1
    <3> QED
      BY <1>0, <1>5, <3>2 DEF TableStart, Workers
  <2>9. UNCHANGED <<Map_Size, Pair_Array, g_Item_Num, nTask, job, missed, put>>
    BY <1>5 DEF TableStart, tableVars
  <2> QED
    BY <1>0, <2>4, <2>5, <2>6, <2>7, <2>8, <2>9
<1>6. CASE TableFinish
  <2>1. worker' \in [Workers -> {"start", "insert", "check", "count", "lookup", "finish", Failed}]
    BY <1>0, <1>6 DEF TableFinish
  <2>2. /\ drawn' \in [Workers -> 0 .. NumOp + 1] /\ quota' \in [Workers -> 0 .. NumOp]
    <3>1. 0 \in 0 .. NumOp + 1 /\ 0 \in 0 .. NumOp
      BY <1>0
    <3> QED
      BY <1>0, <1>6, <3>1 DEF TableFinish
  <2>3. key' \in [Workers -> Keys \cup {Unused}]
    BY <1>0, <1>6 DEF TableFinish
  <2>4. /\ id \in 1 .. MaxTask /\ id <= nTask /\ nTask <= MaxTask /\ nTask \in MinTask .. MaxTask
    BY <1>0, <1>1, <1>6 DEF TableFinish, Rendezvous, Workers
  <2>5. 1 \in 1 .. MaxTask /\ (id < nTask => id + 1 \in 1 .. MaxTask)
    BY <1>0, <2>4
  <2>6. id' \in Workers
    BY <1>6, <2>5 DEF TableFinish, Workers
  <2>7. nTask' \in MinTask .. MaxTask + 1
    <3>1. nTask' = nTask \/ nTask' = nTask + 1
      BY <1>6 DEF TableFinish, NextNrOfTasks
    <3> QED
      BY <1>0, <2>4, <3>1
  <2>8. job' \in {"Insert", "Lookup"} /\ meeting' \in {"start", "finish", "done"} /\ put' \subseteq Keys
    BY <1>0, <1>6 DEF TableFinish, NextNrOfTasks
  <2>9. /\ Map_Size' = Map_Size /\ g_Item_Num' = g_Item_Num /\ missed' = missed
        /\ Pair_Array' = Pair_Array \/ Pair_Array' = Empty(Map_Size)
    BY <1>6 DEF TableFinish, NextNrOfTasks, tableVars
  <2>10. Empty(Map_Size) \in [0 .. Map_Size - 1 -> Keys \cup {Unused}]
    BY DEF Empty
  <2>11. Map_Size' \in Nat /\ Pair_Array' \in [0 .. Map_Size' - 1 -> Keys \cup {Unused}]
         /\ g_Item_Num' \in Nat /\ missed' \in BOOLEAN
    BY <1>0, <2>9, <2>10
  <2> QED
    BY <2>1, <2>2, <2>3, <2>6, <2>7, <2>8, <2>11
<1>7. ASSUME NEW w \in Workers, Insert(w) PROVE TableTypeOK'
  <2>0. worker[w] \in Operating
    BY <1>7 DEF Insert, Operating
  <2>1. /\ UNCHANGED <<Map_Size, g_Item_Num, nTask, job, id, meeting, missed>>
    BY <1>7 DEF Insert, driverVars
  <2>2. CASE /\ worker' = [worker EXCEPT ![w] = Failed]
             /\ UNCHANGED <<Pair_Array, drawn, key, quota, put>>
    BY <1>0, <2>1, <2>2
  <2>3. CASE /\ Pair_Array' = [Pair_Array EXCEPT ![FindSlot(Pair_Array, Map_Size, key[w])] = key[w]]
             /\ put' = put \cup {key[w]}
             /\ NextKey(w)
    <3>1. key[w] \in Keys
      BY <2>0, AtWork
    <3>2. put' \subseteq Keys /\ Pair_Array' \in [0 .. Map_Size' - 1 -> Keys \cup {Unused}]
      BY <1>0, <2>1, <2>3, <3>1
    <3>3. /\ worker' \in [Workers -> {"start", "insert", "check", "count", "lookup", "finish", Failed}]
          /\ drawn' \in [Workers -> 0 .. NumOp + 1]
          /\ key' \in [Workers -> Keys \cup {Unused}]
          /\ quota' \in [Workers -> 0 .. NumOp]
      BY <1>4, <2>0, <2>3
    <3> QED
      BY <1>0, <2>1, <3>2, <3>3
  <2> QED
    BY <1>7, <2>2, <2>3, InsertEffect
<1>8. ASSUME NEW w \in Workers, Lookup(w) PROVE TableTypeOK'
  <2>0. worker[w] \in Operating
    BY <1>8 DEF Lookup, Operating
  <2>1. /\ UNCHANGED <<Map_Size, Pair_Array, g_Item_Num, nTask, job, id, meeting, put, missed>> /\ NextKey(w)
    BY <1>8, LookupEffect DEF Lookup, tableVars, driverVars
  <2>2. /\ worker' \in [Workers -> {"start", "insert", "check", "count", "lookup", "finish", Failed}]
        /\ drawn' \in [Workers -> 0 .. NumOp + 1]
        /\ key' \in [Workers -> Keys \cup {Unused}]
        /\ quota' \in [Workers -> 0 .. NumOp]
    BY <1>4, <2>0, <2>1
  <2> QED
    BY <1>0, <2>1, <2>2
<1>9. ASSUME NEW w \in Workers, CheckResize(w) PROVE TableTypeOK'
  <2>0. Map_Size \in Nat \ {0}
    BY <1>9, AtWork DEF CheckResize, Operating
  <2>1. UNCHANGED <<g_Item_Num, nTask, job, id, meeting, put, missed, drawn, key, quota>>
    BY <1>9 DEF CheckResize, driverVars
  <2>2. worker' \in [Workers -> {"start", "insert", "check", "count", "lookup", "finish", Failed}]
    BY <1>0, <1>9 DEF CheckResize
  <2>3. TableOK(Rehashed(Pair_Array, Map_Size), 2 * Map_Size)
    BY <1>0, <2>0, RehashedIs DEF TableIInv, Kept
  <2>4. Map_Size * 2 = 2 * Map_Size /\ 2 * Map_Size \in Nat
    BY <2>0
  <2>5. Map_Size' \in Nat /\ Pair_Array' \in [0 .. Map_Size' - 1 -> Keys \cup {Unused}]
    BY <1>0, <1>9, <2>3, <2>4 DEF CheckResize, TableOK, tableVars
  <2> QED
    BY <1>0, <2>1, <2>2, <2>5
<1>10. ASSUME NEW w \in Workers, CountItem(w) PROVE TableTypeOK'
  <2>1. UNCHANGED <<Map_Size, Pair_Array, nTask, job, id, meeting, put, missed, drawn, key, quota>>
    BY <1>10 DEF CountItem, driverVars, tableVars
  <2>2. worker' \in [Workers -> {"start", "insert", "check", "count", "lookup", "finish", Failed}]
    BY <1>0, <1>10 DEF CountItem
  <2>3. g_Item_Num' \in Nat
    BY <1>0, <1>10 DEF CountItem
  <2> QED
    BY <1>0, <2>1, <2>2, <2>3
<1>11. CASE UNCHANGED hashVars
  BY <1>0, <1>11 DEF hashVars, tableVars, driverVars, workerVars
<1> QED
  BY <1>5, <1>6, <1>7, <1>8, <1>9, <1>10, <1>11 DEF TableNext, TableMain, TableWork

LEMMA SizesNext == TableSetting /\ TableIInv /\ [TableNext]_hashVars => Sizes'
<1> SUFFICES ASSUME TableSetting, TableIInv, [TableNext]_hashVars PROVE Sizes'
  OBVIOUS
<1>0. Sizes /\ Drawing
  BY DEF TableIInv
<1>1. Hash' = Hash /\ Random' = Random
  BY DEF TableNext, TableMain, TableWork, TableStart, TableFinish, Insert, Lookup, CheckResize,
         CountItem, hashVars
<1>2. \/ Map_Size' = Map_Size
      \/ Growing /\ Map_Size' = Map_Size * 2
  BY <1>0 DEF TableNext, TableMain, TableWork, TableStart, TableFinish, NextNrOfTasks, Insert, Lookup,
         CheckResize, CountItem, hashVars, tableVars, Drawing
<1>3. Map_Size * 2 \in Nat /\ (Map_Size # 0 => Map_Size * 2 # 0)
  BY <1>0 DEF Sizes
<1> QED
  BY <1>0, <1>1, <1>2, <1>3 DEF Sizes

LEMMA WorkIs ==
  ASSUME TableSetting, TableIInv, NEW w \in Workers, TableWork(w)
  PROVE  /\ worker[w] \in Operating /\ worker'[w] \in AtTable
         /\ \A v \in Workers \ {w} :
              worker'[v] = worker[v] /\ drawn'[v] = drawn[v] /\ key'[v] = key[v]
         /\ UNCHANGED <<Hash, Random, nTask, job, id, meeting, missed, quota>>
         /\ \/ NextKey(w)
            \/ Growing /\ worker[w] = "insert" /\ worker'[w] = Failed /\ UNCHANGED <<drawn, key>>
            \/ worker[w] = "check" /\ worker'[w] = "count" /\ UNCHANGED <<drawn, key>>
            \/ worker[w] = "count" /\ worker'[w] = "insert" /\ UNCHANGED <<drawn, key>>
<1>0. DOMAIN worker = Workers /\ DOMAIN drawn = Workers /\ DOMAIN key = Workers
  BY DEF TableIInv, TableTypeOK
<1>1. worker[w] \in Operating
  BY DEF TableWork, Insert, Lookup, CheckResize, CountItem, Operating
<1>2. ASSUME NextKey(w)
      PROVE  /\ worker'[w] \in AtTable /\ UNCHANGED quota
             /\ \A v \in Workers \ {w} :
                  worker'[v] = worker[v] /\ drawn'[v] = drawn[v] /\ key'[v] = key[v]
  BY <1>1, <1>2, NextKeyIs, LoopIs
<1>3. CASE Insert(w)
  <2>1. UNCHANGED <<Hash, Random, nTask, job, id, meeting, missed>> /\ worker[w] = "insert"
    BY <1>3 DEF Insert, driverVars
  <2> QED
    BY <1>0, <1>1, <1>2, <1>3, <2>1, InsertEffect DEF AtTable
<1>4. CASE Lookup(w)
  <2>1. UNCHANGED <<Hash, Random, nTask, job, id, meeting>>
    BY <1>4 DEF Lookup, driverVars
  <2> QED
    BY <1>1, <1>2, <1>4, <2>1, LookupEffect
<1>5. CASE CheckResize(w)
  BY <1>0, <1>1, <1>5 DEF CheckResize, driverVars, AtTable, Operating
<1>6. CASE CountItem(w)
  BY <1>0, <1>1, <1>6 DEF CountItem, driverVars, AtTable, Operating
<1> QED
  BY <1>3, <1>4, <1>5, <1>6 DEF TableWork

LEMMA RendezvousNext == TableSetting /\ TableIInv /\ [TableNext]_hashVars => Rendezvous'
<1> SUFFICES ASSUME TableSetting, TableIInv, [TableNext]_hashVars PROVE Rendezvous'
  OBVIOUS
<1>0. /\ Rendezvous /\ DOMAIN worker = Workers
      /\ id \in Nat /\ 1 <= id /\ nTask \in Nat /\ MaxTask \in Nat /\ NumOp \in Nat
      /\ nTask # 0 /\ meeting \in {"start", "finish", "done"}
      /\ \A w \in Workers : w \in Nat /\ 1 <= w
  BY DEF TableIInv, TableTypeOK, TableSetting, Workers
<1>1. CASE TableStart
  <2>1. /\ meeting = "start" /\ nTask' = nTask
        /\ IF id < nTask THEN id' = id + 1 /\ meeting' = meeting ELSE id' = 1 /\ meeting' = "finish"
        /\ worker' = [worker EXCEPT ![id] = Loop(QuotaOf(id))]
    BY <1>1 DEF TableStart
  <2>2. id <= nTask /\ nTask <= MaxTask /\ \A w \in Workers : worker[w] \in IF w < id THEN AtTable ELSE {"start"}
    BY <1>0, <2>1 DEF Rendezvous
  <2>3. Loop(QuotaOf(id)) \in AtTable
    <3>1. QuotaOf(id) \in 0 .. NumOp
      BY <1>0, QuotaIs
    <3> QED
      BY <1>0, <3>1, LoopIs
  <2>4. \A w \in Workers : worker'[w] = IF w = id THEN Loop(QuotaOf(id)) ELSE worker[w]
    BY <1>0, <2>1
  <2>5. CASE id < nTask
    <3>1. \A w \in Workers : w < id + 1 <=> w < id \/ w = id
      BY <1>0
    <3>2. meeting' = "start" /\ id' = id + 1 /\ id + 1 <= nTask
      BY <1>0, <2>1, <2>5
    <3>3. \A w \in Workers : worker'[w] \in IF w < id' THEN AtTable ELSE {"start"}
      BY <1>0, <2>2, <2>3, <2>4, <3>1, <3>2
    <3> QED
      BY <2>1, <2>2, <3>2, <3>3 DEF Rendezvous
  <2>6. CASE ~ (id < nTask)
    <3>1. id = nTask
      BY <1>0, <2>2, <2>6
    <3>2. meeting' = "finish" /\ id' = 1 /\ 1 <= nTask
      BY <1>0, <2>1, <2>6
    <3>3. \A w \in Workers : worker'[w] \in IF 1 <= w /\ w <= nTask THEN AtTable ELSE {"start"}
      BY <1>0, <2>2, <2>3, <2>4, <3>1
    <3> QED
      BY <2>1, <2>2, <3>2, <3>3 DEF Rendezvous
  <2> QED
    BY <2>5, <2>6
<1>2. CASE TableFinish
  <2>1. meeting = "finish" /\ worker' = [worker EXCEPT ![id] = "start"]
    BY <1>2 DEF TableFinish
  <2>2. /\ id <= nTask /\ nTask <= MaxTask
        /\ \A w \in Workers : worker[w] \in IF id <= w /\ w <= nTask THEN AtTable ELSE {"start"}
    BY <1>0, <2>1 DEF Rendezvous
  <2>3. \A w \in Workers : worker'[w] = IF w = id THEN "start" ELSE worker[w]
    BY <1>0, <2>1
  <2>4. CASE id < nTask /\ id' = id + 1 /\ UNCHANGED <<nTask, meeting>>
    <3>1. \A w \in Workers : id + 1 <= w <=> id <= w /\ w # id
      BY <1>0
    <3>2. \A w \in Workers : worker'[w] \in IF id' <= w /\ w <= nTask THEN AtTable ELSE {"start"}
      BY <2>2, <2>3, <2>4, <3>1
    <3>3. id + 1 <= nTask
      BY <1>0, <2>4
    <3> QED
      BY <2>1, <2>2, <2>4, <3>2, <3>3 DEF Rendezvous
  <2>5. CASE id = nTask /\ id' = 1
    <3>1. \A w \in Workers : worker'[w] = "start" /\ ~ (w < 1)
      BY <1>0, <2>2, <2>3, <2>5
    <3>2. \/ nTask' = nTask /\ meeting' = "start"
          \/ nTask' = nTask + 1 /\ meeting' = IF nTask < MaxTask THEN "start" ELSE "done"
      BY <1>2, <2>5, <1>0 DEF TableFinish, NextNrOfTasks
    <3>3. meeting' \in {"start", "done"} /\ (meeting' # "done" => nTask' <= MaxTask /\ 1 <= nTask')
      BY <1>0, <2>2, <3>2
    <3> QED
      BY <2>5, <3>1, <3>3 DEF Rendezvous
  <2> QED
    BY <1>2, <2>4, <2>5 DEF TableFinish
<1>3. ASSUME NEW w \in Workers, TableWork(w) PROVE Rendezvous'
  <2>1. /\ worker[w] \in Operating /\ worker'[w] \in AtTable
        /\ \A v \in Workers \ {w} : worker'[v] = worker[v]
        /\ UNCHANGED <<nTask, id, meeting>>
    BY <1>3, WorkIs
  <2>2. worker[w] # "start" /\ worker[w] \in AtTable
    BY <2>1 DEF Operating, AtTable
  <2> QED
    BY <1>0, <2>1, <2>2 DEF Rendezvous
<1>4. CASE UNCHANGED hashVars
  BY <1>0, <1>4 DEF hashVars, driverVars, workerVars, Rendezvous
<1> QED
  BY <1>1, <1>2, <1>3, <1>4 DEF TableNext, TableMain

LEMMA DrawingNext == TableSetting /\ TableIInv /\ [TableNext]_hashVars => Drawing'
<1> SUFFICES ASSUME TableSetting, TableIInv, [TableNext]_hashVars PROVE Drawing'
  OBVIOUS
<1>0. /\ Rendezvous /\ Drawing /\ NumOp \in Nat
      /\ DOMAIN worker = Workers /\ DOMAIN drawn = Workers /\ DOMAIN key = Workers
      /\ DOMAIN quota = Workers /\ id \in Workers /\ nTask \in Nat \ {0}
  BY DEF TableIInv, TableTypeOK, TableSetting
<1>1. \A w : QuotaOf(w) \in 0 .. NumOp
  BY <1>0, QuotaIs
<1>2. CASE TableStart
  <2>1. /\ worker[id] = "start" /\ UNCHANGED <<Random, nTask, job>>
        /\ \A v \in Workers \ {id} : /\ worker'[v] = worker[v] /\ drawn'[v] = drawn[v]
                                     /\ key'[v] = key[v] /\ quota'[v] = quota[v]
        /\ worker'[id] = Loop(QuotaOf(id)) /\ drawn'[id] = 1 /\ quota'[id] = QuotaOf(id)
        /\ key'[id] = IF QuotaOf(id) > 0 THEN Random[id][1] ELSE Unused
    BY <1>0, <1>2 DEF TableStart
  <2>2. \A w : QuotaOf(w)' = QuotaOf(w)
    BY <2>1 DEF QuotaOf
  <2>3. /\ QuotaOf(id) \in Nat
        /\ QuotaOf(id) # 0 => QuotaOf(id) > 0 /\ 1 \in 1 .. QuotaOf(id)
    BY <1>1
  <2>4. Loop(QuotaOf(id)) \notin {"start", "count"} /\ (Loop(QuotaOf(id)) = "check" => Growing)
        /\ (Loop(QuotaOf(id)) \in Operating =>
              QuotaOf(id) # 0 /\ (Loop(QuotaOf(id)) = "lookup" <=> job = "Lookup"))
    BY <2>3, LoopIs
  <2> QED
    BY <1>0, <2>1, <2>2, <2>3, <2>4 DEF Drawing
<1>3. CASE TableFinish
  <2>1. /\ Random' = Random /\ worker'[id] = "start" /\ drawn'[id] = 0
        /\ \A v \in Workers \ {id} : /\ worker'[v] = worker[v] /\ drawn'[v] = drawn[v]
                                     /\ key'[v] = key[v] /\ quota'[v] = quota[v]
    BY <1>0, <1>3 DEF TableFinish
  <2>2. CASE UNCHANGED <<nTask, job>>
    <3>1. \A w : QuotaOf(w)' = QuotaOf(w)
      BY <2>2 DEF QuotaOf
    <3>2. "start" \notin Operating
      BY DEF Operating
    <3> QED
      BY <1>0, <2>1, <2>2, <3>1, <3>2 DEF Drawing
  <2>3. CASE id = nTask
    <3>1. meeting = "finish" /\ nTask \in Nat
      BY <1>0, <1>3 DEF TableFinish
    <3>2. \A w \in Workers : w \in Nat
      BY DEF Workers
    <3>3. \A w \in Workers \ {id} : ~ (id <= w /\ w <= nTask)
      BY <2>3, <3>1, <3>2
    <3>4. \A w \in Workers : worker'[w] = "start"
      BY <1>0, <2>1, <3>1, <3>3 DEF Rendezvous
    <3>5. "start" \notin Operating /\ "start" \notin {"check", "count"}
      BY DEF Operating
    <3>6. \A w \in Workers : drawn'[w] = 0
      BY <1>0, <2>1, <3>4 DEF Drawing
    <3> QED
      BY <3>4, <3>5, <3>6 DEF Drawing
  <2> QED
    BY <1>3, <2>2, <2>3 DEF TableFinish
<1>4. ASSUME NEW w \in Workers, TableWork(w) PROVE Drawing'
  <2>1. /\ worker[w] \in Operating
        /\ \A v \in Workers \ {w} : worker'[v] = worker[v] /\ drawn'[v] = drawn[v] /\ key'[v] = key[v]
        /\ UNCHANGED <<Random, nTask, job, quota>>
    BY <1>4, WorkIs
  <2>2. \A v : QuotaOf(v)' = QuotaOf(v)
    BY <2>1 DEF QuotaOf
  <2>3. /\ quota[w] = QuotaOf(w) /\ drawn[w] \in 1 .. QuotaOf(w) /\ QuotaOf(w) \in 0 .. NumOp
        /\ key[w] = Random[w][drawn[w]]
    BY <2>1, AtWork
  <2>4. CASE NextKey(w)
    <3>1. /\ quota[w] - drawn[w] \in Nat /\ drawn'[w] = drawn[w] + 1
          /\ worker'[w] = Loop(quota[w] - drawn[w])
          /\ key'[w] = IF drawn[w] < quota[w] THEN Random[w][drawn[w] + 1] ELSE Unused
      BY <2>1, <2>4, NextKeyIs
    <3>2. quota[w] - drawn[w] # 0 => drawn[w] < quota[w] /\ drawn[w] + 1 \in 1 .. quota[w]
      BY <1>0, <2>3
    <3>3. worker'[w] \notin {"start", "count"} /\ (worker'[w] = "check" => Growing)
          /\ (worker'[w] \in Operating =>
                quota[w] - drawn[w] # 0 /\ (worker'[w] = "lookup" <=> job = "Lookup"))
      BY <3>1, LoopIs
    <3> QED
      BY <1>0, <2>1, <2>2, <2>3, <3>1, <3>2, <3>3 DEF Drawing
  <2>5. CASE worker'[w] = Failed /\ UNCHANGED <<drawn, key>>
    BY <1>0, <2>1, <2>2, <2>5 DEF Drawing, Operating, Failed
  <2>6. CASE worker[w] = "check" /\ worker'[w] = "count" /\ UNCHANGED <<drawn, key>>
    BY <1>0, <2>1, <2>2, <2>6 DEF Drawing, Operating
  <2>7. CASE worker[w] = "count" /\ worker'[w] = "insert" /\ UNCHANGED <<drawn, key>>
    BY <1>0, <2>1, <2>2, <2>7 DEF Drawing, Operating
  <2> QED
    BY <1>4, <2>4, <2>5, <2>6, <2>7, WorkIs
<1>5. CASE UNCHANGED hashVars
  BY <1>0, <1>5 DEF hashVars, driverVars, workerVars, Drawing, QuotaOf
<1> QED
  BY <1>2, <1>3, <1>4, <1>5 DEF TableNext, TableMain

LEMMA PuttingNext == TableSetting /\ TableIInv /\ [TableNext]_hashVars => Putting'
<1> SUFFICES ASSUME TableSetting, TableIInv, [TableNext]_hashVars PROVE Putting'
  OBVIOUS
<1>0. /\ Rendezvous /\ Drawing /\ Putting /\ NumOp \in Nat
      /\ DOMAIN worker = Workers /\ DOMAIN drawn = Workers
      /\ id \in Nat /\ 1 <= id /\ id \in Workers /\ nTask \in Nat \ {0} /\ MaxTask \in Nat
      /\ \A w \in Workers : w \in Nat /\ 1 <= w
  BY DEF TableIInv, TableTypeOK, TableSetting, Workers
<1>1. \A w : QuotaOf(w) \in 0 .. NumOp
  BY <1>0, QuotaIs
<1>2. CASE TableStart
  <2>0. PICK j \in Workers : j = id
    BY <1>0
  <2>1. /\ meeting = "start" /\ UNCHANGED <<Random, nTask, job, put>>
        /\ id' # 1 => meeting' = "start"
        /\ meeting' = "finish" => id' = 1
        /\ \A v \in Workers \ {j} : worker'[v] = worker[v] /\ drawn'[v] = drawn[v]
        /\ worker'[j] = Loop(QuotaOf(j)) /\ drawn'[j] = 1
    BY <1>0, <1>2, <2>0 DEF TableStart
  <2>2. \A w : QuotaOf(w)' = QuotaOf(w)
    BY <2>1 DEF QuotaOf
  <2>3. Asked' = Asked
    BY <2>1, <2>2 DEF Asked
  <2>4. \A w \in Workers : ~ (meeting' = "finish" /\ w < id') /\ ~ (meeting = "finish" /\ w < id)
    <3>1. \A w \in Workers : ~ (w < 1)
      BY <1>0
    <3> QED
      BY <2>1, <3>1
  <2>5. \A w \in Workers \ {j} : InsertedBy(w)' = InsertedBy(w)
    BY <2>1, <2>2, <2>4 DEF InsertedBy
  <2>6. job # "Lookup" => InsertedBy(j)' = 0
    <3>1. QuotaOf(j) \in Nat
      BY <1>1
    <3>2. Loop(QuotaOf(j)) = "finish" => QuotaOf(j) = 0
      BY <3>1, LoopIs DEF Loop
    <3> QED
      BY <1>0, <2>1, <2>2, <2>4, <3>2 DEF InsertedBy
  <2>7. job = "Lookup" => InsertedBy(j)' = InsertedBy(j)
    BY <2>1, <2>2 DEF InsertedBy
  <2>8. meeting # "done" /\ \A n \in 1 .. NumOp : ~ (n <= 0)
    BY <1>0, <2>1
  <2>9. \A w \in Workers : \A n \in 1 .. NumOp : n <= InsertedBy(w)' => n <= InsertedBy(w)
    BY <2>5, <2>6, <2>7, <2>8
  <2> QED
    BY <1>0, <2>1, <2>3, <2>8, <2>9 DEF Putting
<1>3. CASE TableFinish
  <2>1. /\ meeting = "finish" /\ Random' = Random
        /\ worker[id] = "finish" /\ worker'[id] = "start" /\ drawn'[id] = 0
        /\ \A v \in Workers \ {id} : worker'[v] = worker[v] /\ drawn'[v] = drawn[v]
    BY <1>0, <1>3 DEF TableFinish
  <2>2. \A w \in Workers : w < id \/ w = id => InsertedBy(w) = QuotaOf(w)
    BY <2>1 DEF InsertedBy
  <2>3. CASE id < nTask /\ id' = id + 1 /\ UNCHANGED <<nTask, job, meeting, put>>
    <3>1. \A w : QuotaOf(w)' = QuotaOf(w)
      BY <2>3 DEF QuotaOf
    <3>2. Asked' = Asked
      BY <2>3, <3>1 DEF Asked
    <3>3. \A w \in Workers : w < id + 1 <=> w < id \/ w = id
      BY <1>0
    <3>4. \A w \in Workers : InsertedBy(w)' = InsertedBy(w)
      BY <2>1, <2>2, <2>3, <3>1, <3>3 DEF InsertedBy
    <3>5. meeting # "done" /\ put' \subseteq {Random'[d[1]][d[2]] : d \in Asked'}
      BY <1>0, <2>1, <2>3, <3>2 DEF Putting
    <3>6. \A w \in Workers : w <= nTask' =>
            \A n \in 1 .. NumOp : n <= InsertedBy(w)' => Random'[w][n] \in put'
      BY <1>0, <2>1, <2>3, <3>4, <3>5 DEF Putting
    <3> QED
      BY <3>5, <3>6 DEF Putting
  <2>4. CASE id = nTask /\ job' = "Lookup" /\ UNCHANGED <<nTask, put>>
    <3>1. \A w : QuotaOf(w)' = QuotaOf(w)
      BY <2>4 DEF QuotaOf
    <3>2. Asked' = Asked
      BY <2>4, <3>1 DEF Asked
    <3>3. \A w \in Workers : w <= nTask => InsertedBy(w)' = InsertedBy(w)
      <4>1. \A w \in Workers : w <= nTask => w < id \/ w = id
        BY <1>0, <2>4
      <4> QED
        BY <2>2, <2>4, <3>1, <4>1 DEF InsertedBy
    <3>4. meeting # "done"
      BY <2>1
    <3> QED
      BY <1>0, <2>1, <2>4, <3>2, <3>3, <3>4 DEF Putting
  <2>5. CASE id = nTask /\ id' = 1 /\ NextNrOfTasks
    <3>1. put' = {} /\ job' = "Insert" /\ meeting' \in {"start", "done"}
      BY <2>5 DEF NextNrOfTasks
    <3>2. \A w \in Workers : worker'[w] = "start"
      <4>1. \A w \in Workers \ {id} : ~ (id <= w /\ w <= nTask)
        BY <1>0, <2>5
      <4> QED
        BY <1>0, <2>1, <4>1 DEF Rendezvous
    <3>3. \A w \in Workers : drawn'[w] = 0
      BY <1>0, <2>1, <3>2 DEF Drawing
    <3>4. \A w \in Workers : InsertedBy(w)' = 0 - 1
      BY <3>1, <3>2, <3>3 DEF InsertedBy
    <3>5. \A n \in 1 .. NumOp : ~ (n <= 0 - 1)
      BY <1>0
    <3> QED
      BY <3>1, <3>4, <3>5 DEF Putting
  <2> QED
    BY <1>3, <2>3, <2>4, <2>5 DEF TableFinish
<1>4. ASSUME NEW w \in Workers, TableWork(w) PROVE Putting'
  <2>1. /\ worker[w] \in Operating /\ worker'[w] \in AtTable
        /\ \A v \in Workers \ {w} : worker'[v] = worker[v] /\ drawn'[v] = drawn[v]
        /\ UNCHANGED <<Random, nTask, job, id, meeting>>
    BY <1>4, WorkIs
  <2>2. \A v : QuotaOf(v)' = QuotaOf(v)
    BY <2>1 DEF QuotaOf
  <2>3. Asked' = Asked
    BY <2>1, <2>2 DEF Asked
  <2>4. \A v \in Workers \ {w} : InsertedBy(v)' = InsertedBy(v)
    BY <2>1, <2>2 DEF InsertedBy
  <2>5. /\ meeting # "done" /\ w <= nTask /\ quota[w] = QuotaOf(w) /\ drawn[w] \in 1 .. QuotaOf(w)
        /\ drawn[w] \in 1 .. NumOp /\ key[w] = Random[w][drawn[w]]
        /\ InsertedBy(w) = IF job = "Lookup" THEN QuotaOf(w) ELSE drawn[w] - 1
    BY <2>1, AtWork
  <2>6. ASSUME put' = put, InsertedBy(w)' = InsertedBy(w) PROVE Putting'
    BY <1>0, <2>1, <2>3, <2>4, <2>6 DEF Putting
  <2>7. CASE Insert(w)
    <3>1. job # "Lookup" /\ worker[w] = "insert"
      <4>1. worker[w] = "insert"
        BY <2>7 DEF Insert
      <4> QED
        BY <1>0, <2>1, <4>1 DEF Drawing
    <3>2. ~ (meeting = "finish" /\ w < id)
      <4>1. worker[w] # "start"
        BY <3>1
      <4>2. meeting = "finish" => id <= w
        BY <1>0, <4>1 DEF Rendezvous
      <4> QED
        BY <1>0, <4>2
    <3>3. CASE worker' = [worker EXCEPT ![w] = Failed] /\ UNCHANGED <<drawn, put>>
      <4>1. worker'[w] # "finish"
        BY <1>0, <3>3 DEF Failed
      <4>2. InsertedBy(w)' = InsertedBy(w)
        BY <2>1, <2>2, <3>1, <3>2, <3>3, <4>1 DEF InsertedBy
      <4> QED
        BY <2>6, <3>3, <4>2
    <3>4. CASE put' = put \cup {key[w]} /\ NextKey(w)
      <4>1. /\ worker'[w] = Loop(quota[w] - drawn[w]) /\ drawn'[w] = drawn[w] + 1
            /\ quota[w] - drawn[w] \in Nat
        BY <2>1, <3>4, NextKeyIs
      <4>2. InsertedBy(w)' = drawn[w]
        <5>1. worker'[w] = "finish" => quota[w] - drawn[w] = 0
          BY <4>1 DEF Loop
        <5>2. worker'[w] = "finish" => QuotaOf(w) = drawn[w]
          BY <1>1, <2>5, <5>1
        <5>3. (drawn[w] + 1) - 1 = drawn[w]
          BY <2>5
        <5> QED
          BY <2>1, <2>2, <3>1, <3>2, <4>1, <5>2, <5>3 DEF InsertedBy
      <4>3. \A n \in 1 .. NumOp : n <= drawn[w] => n <= drawn[w] - 1 \/ n = drawn[w]
        BY <2>5
      <4>4. \A n \in 1 .. NumOp : n <= InsertedBy(w)' => Random[w][n] \in put'
        BY <1>0, <2>5, <3>1, <3>4, <4>2, <4>3 DEF Putting
      <4>5. \A v \in Workers \ {w} : v <= nTask =>
              \A n \in 1 .. NumOp : n <= InsertedBy(v)' => Random[v][n] \in put'
        BY <1>0, <2>4, <2>5, <3>4 DEF Putting
      <4>6. key[w] \in {Random[d[1]][d[2]] : d \in Asked}
        <5>1. <<w, drawn[w]>> \in Asked
          BY <2>5 DEF Asked
        <5> QED
          BY <2>5, <5>1
      <4>7. put' \subseteq {Random[d[1]][d[2]] : d \in Asked}
        BY <1>0, <3>4, <4>6 DEF Putting
      <4> QED
        BY <2>1, <2>3, <4>4, <4>5, <4>7 DEF Putting
    <3> QED
      BY <2>7, <3>3, <3>4, InsertEffect
  <2>8. CASE Lookup(w)
    <3>1. job = "Lookup"
      BY <1>0, <2>1, <2>8 DEF Lookup, Drawing
    <3>2. InsertedBy(w)' = InsertedBy(w)
      BY <2>1, <2>2, <3>1 DEF InsertedBy
    <3> QED
      BY <2>6, <2>8, <3>2 DEF Lookup
  <2>9. CASE CheckResize(w) \/ CountItem(w)
    <3>1. drawn' = drawn /\ put' = put /\ worker[w] # "finish" /\ worker'[w] # "finish"
      BY <1>0, <2>9 DEF CheckResize, CountItem
    <3>2. InsertedBy(w)' = InsertedBy(w)
      BY <2>1, <2>2, <3>1 DEF InsertedBy
    <3> QED
      BY <2>6, <3>1, <3>2
  <2> QED
    BY <1>4, <2>7, <2>8, <2>9 DEF TableWork
<1>5. CASE UNCHANGED hashVars
  BY <1>0, <1>5 DEF hashVars, driverVars, workerVars, Putting, Asked, InsertedBy, QuotaOf
<1> QED
  BY <1>2, <1>3, <1>4, <1>5 DEF TableNext, TableMain

LEMMA KeptNext == TableSetting /\ TableIInv /\ [TableNext]_hashVars => Kept'
<1> SUFFICES ASSUME TableSetting, TableIInv, [TableNext]_hashVars PROVE Kept'
  OBVIOUS
<1>0. Sizes /\ TableOK(Pair_Array, Map_Size) /\ KeysIn(Pair_Array) = put
  BY DEF TableIInv, Kept
<1>1. Hash' = Hash
  BY DEF TableNext, TableMain, TableWork, TableStart, TableFinish, Insert, Lookup, CheckResize,
         CountItem, hashVars
<1>2. ASSUME TableOK(Pair_Array', Map_Size'), KeysIn(Pair_Array') = put' PROVE Kept'
  BY <1>1, <1>2 DEF Kept, TableOK, Probed, From, At, KeysIn
<1>3. CASE TableStart
  BY <1>0, <1>2, <1>3 DEF TableStart, tableVars
<1>4. CASE TableFinish
  <2>1. CASE UNCHANGED <<tableVars, put>>
    BY <1>0, <1>2, <2>1 DEF tableVars
  <2>2. CASE NextNrOfTasks
    BY <1>0, <1>2, <2>2, EmptyIs DEF NextNrOfTasks, Sizes
  <2> QED
    BY <1>4, <2>1, <2>2 DEF TableFinish
<1>5. ASSUME NEW w \in Workers, Insert(w) PROVE Kept'
  <2>1. key[w] \in Keys /\ Map_Size \in Nat \ {0} /\ Map_Size' = Map_Size
    <3>1. worker[w] \in Operating
      BY <1>5 DEF Insert, Operating
    <3> QED
      BY <1>5, <3>1, AtWork DEF Insert
  <2>2. CASE UNCHANGED <<Pair_Array, put>>
    BY <1>0, <1>2, <2>1, <2>2
  <2>3. CASE /\ FindSlot(Pair_Array, Map_Size, key[w]) # -1
             /\ Pair_Array' = [Pair_Array EXCEPT ![FindSlot(Pair_Array, Map_Size, key[w])] = key[w]]
             /\ put' = put \cup {key[w]}
    <3>1. Pair_Array' = Inserted(Pair_Array, key[w], Map_Size)
      BY <2>3 DEF Inserted
    <3>2. FindSlot(Pair_Array, Map_Size, key[w]) # -1 /\ put' = put \cup {key[w]}
      BY <2>3
    <3>3. TableOK(Pair_Array', Map_Size) /\ KeysIn(Pair_Array') = KeysIn(Pair_Array) \cup {key[w]}
      BY <1>0, <2>1, <3>1, <3>2, KeyInserted
    <3> QED
      BY <1>0, <1>2, <2>1, <3>2, <3>3
  <2> QED
    BY <1>5, <2>2, <2>3, InsertEffect
<1>6. ASSUME NEW w \in Workers, Lookup(w) PROVE Kept'
  BY <1>0, <1>2, <1>6 DEF Lookup, tableVars
<1>7. ASSUME NEW w \in Workers, CheckResize(w) PROVE Kept'
  <2>1. Map_Size \in Nat \ {0} /\ put' = put
    <3>1. worker[w] \in Operating
      BY <1>7 DEF CheckResize, Operating
    <3> QED
      BY <1>7, <3>1, AtWork DEF CheckResize
  <2>2. CASE UNCHANGED tableVars
    BY <1>0, <1>2, <2>1, <2>2 DEF tableVars
  <2>3. CASE Map_Size' = Map_Size * 2 /\ Pair_Array' = Rehashed(Pair_Array, Map_Size)
    <3>1. Map_Size * 2 = 2 * Map_Size
      BY <2>1
    <3> QED
      BY <1>0, <1>2, <2>1, <2>3, <3>1, RehashedIs
  <2> QED
    BY <1>7, <2>2, <2>3 DEF CheckResize
<1>8. ASSUME NEW w \in Workers, CountItem(w) PROVE Kept'
  BY <1>0, <1>2, <1>8 DEF CountItem, tableVars
<1>9. CASE UNCHANGED hashVars
  BY <1>0, <1>2, <1>9 DEF hashVars, tableVars
<1> QED
  BY <1>3, <1>4, <1>5, <1>6, <1>7, <1>8, <1>9 DEF TableNext, TableMain, TableWork

LEMMA LookupsFindNext == TableSetting /\ TableIInv /\ [TableNext]_hashVars => LookupsFind'
<1> SUFFICES ASSUME TableSetting, TableIInv, [TableNext]_hashVars PROVE LookupsFind'
  OBVIOUS
<1>0. /\ Rendezvous /\ Drawing /\ LookupsFind /\ DOMAIN worker = Workers /\ id \in Workers
      /\ nTask \in Nat \ {0} /\ NumOp \in Nat /\ \A w \in Workers : w \in Nat
  BY DEF TableIInv, TableTypeOK, TableSetting, Workers
<1>1. CASE TableStart
  <2>1. Loop(QuotaOf(id)) # Failed
    <3>1. QuotaOf(id) \in Nat
      BY <1>0, QuotaIs
    <3> QED
      BY <3>1, LoopIs
  <2> QED
    BY <1>0, <1>1, <2>1 DEF TableStart, LookupsFind
<1>2. CASE TableFinish
  <2>1. meeting = "finish" /\ missed' = missed /\ worker' = [worker EXCEPT ![id] = "start"]
    BY <1>2 DEF TableFinish
  <2>2. \A w \in Workers : worker'[w] = Failed => w # id /\ worker[w] = Failed
    BY <1>0, <2>1 DEF Failed
  <2>3. CASE job' = job
    BY <1>0, <2>1, <2>2, <2>3 DEF LookupsFind
  <2>4. CASE id = nTask
    <3>1. \A w \in Workers \ {id} : ~ (id <= w /\ w <= nTask)
      BY <1>0, <2>4
    <3>2. \A w \in Workers \ {id} : worker[w] = "start"
      BY <1>0, <2>1, <3>1 DEF Rendezvous
    <3> QED
      BY <1>0, <2>1, <2>2, <3>2 DEF LookupsFind, Failed
  <2> QED
    BY <1>2, <2>3, <2>4 DEF TableFinish
<1>3. ASSUME NEW w \in Workers, TableWork(w) PROVE LookupsFind'
  <2>1. /\ worker[w] \in Operating /\ UNCHANGED <<missed, job>>
        /\ \A v \in Workers \ {w} : worker'[v] = worker[v]
    BY <1>3, WorkIs
  <2>2. worker'[w] = Failed => Growing /\ job = "Insert"
    <3>1. CASE NextKey(w)
      BY <2>1, <3>1, NextKeyIs, LoopIs
    <3>2. CASE Growing /\ worker[w] = "insert"
      <4>1. job # "Lookup" /\ job \in {"Insert", "Lookup"}
        BY <1>0, <2>1, <3>2 DEF Drawing, TableIInv, TableTypeOK
      <4> QED
        BY <3>2, <4>1
    <3>3. CASE worker'[w] \in {"count", "insert"}
      BY <3>3 DEF Failed
    <3> QED
      BY <1>3, <3>1, <3>2, <3>3, WorkIs
  <2> QED
    BY <1>0, <2>1, <2>2 DEF LookupsFind
<1>4. CASE UNCHANGED hashVars
  BY <1>0, <1>4 DEF hashVars, driverVars, workerVars, LookupsFind
<1> QED
  BY <1>1, <1>2, <1>3, <1>4 DEF TableNext, TableMain

LEMMA TableInitially == TableSetting /\ TableInit => TableIInv
<1> SUFFICES ASSUME TableSetting, TableInit PROVE TableIInv
  OBVIOUS
<1>0. /\ NumOp \in Nat /\ TableSize \in Nat \ {0} /\ MinTask \in Nat \ {0} /\ MaxTask \in Nat
      /\ MinTask <= MaxTask /\ MinTask \in MinTask .. MaxTask + 1 /\ 1 \in 1 .. MaxTask /\ 1 <= MinTask
      /\ 2 * NumOp = NumOp * 2 /\ NumOp * 2 \in Nat /\ 0 \in 0 .. NumOp /\ 0 \in 0 .. NumOp + 1
  BY DEF TableSetting
<1>1. Sizes
  BY <1>0 DEF TableInit, Sizes
<1>2. Kept
  BY <1>1, EmptyIs DEF TableInit, Sizes, Kept
<1>3. TableTypeOK
  <2>1. Pair_Array \in [0 .. Map_Size - 1 -> Keys \cup {Unused}]
    BY <1>2 DEF Kept, TableOK
  <2> QED
    BY <1>0, <1>1, <2>1 DEF TableInit, TableTypeOK, Workers, Sizes
<1>4. Rendezvous
  <2>1. \A w \in Workers : ~ (w < 1)
    BY DEF Workers
  <2> QED
    BY <1>0, <2>1 DEF TableInit, Rendezvous
<1>5. Drawing
  BY DEF TableInit, Drawing, Operating
<1>6. Putting
  <2>1. \A w \in Workers : InsertedBy(w) = 0 - 1
    BY DEF TableInit, InsertedBy
  <2>2. \A n \in 1 .. NumOp : ~ (n <= 0 - 1)
    BY <1>0
  <2> QED
    BY <2>1, <2>2 DEF TableInit, Putting
<1>7. LookupsFind
  BY DEF TableInit, LookupsFind, Failed
<1> QED
  BY <1>1, <1>2, <1>3, <1>4, <1>5, <1>6, <1>7 DEF TableIInv

THEOREM TableInvariance == TableSetting => (TableSpec => []TableIInv)
<1> SUFFICES ASSUME TableSetting PROVE TableSpec => []TableIInv
  OBVIOUS
<1>1. TableInit => TableIInv
  BY TableInitially
<1>2. TableIInv /\ [TableNext]_hashVars => TableIInv'
  BY TableTypesNext, SizesNext, RendezvousNext, DrawingNext, PuttingNext, KeptNext, LookupsFindNext
     DEF TableIInv
<1> QED
  BY <1>1, <1>2, PTL DEF TableSpec

\* The variables of the table and its driver have the types the code gives them.
THEOREM HashTypeCorrect == TableSetting => (TableSpec => []TableTypeOK)
<1> SUFFICES ASSUME TableSetting PROVE TableSpec => []TableTypeOK
  OBVIOUS
<1>1. TableSpec => []TableIInv
  BY TableInvariance
<1>2. TableIInv => TableTypeOK
  BY DEF TableIInv
<1> QED
  BY <1>1, <1>2, PTL

\* Whatever the hash function and the size, in both tables and between the two
\* calls of a growing insertion too, the table is what was inserted since it was
\* cleaned: no insertion and no resize loses a key or leaves it at two places.
THEOREM InsertedKeysFound == TableSetting => (TableSpec => []KeysFound)
<1> SUFFICES ASSUME TableSetting PROVE TableSpec => []KeysFound
  OBVIOUS
<1>1. TableSpec => []TableIInv
  BY TableInvariance
<1>2. ASSUME TableIInv PROVE KeysFound
  <2>0. Sizes /\ TableOK(Pair_Array, Map_Size) /\ KeysIn(Pair_Array) = put /\ put \subseteq Keys
    BY <1>2 DEF TableIInv, Kept, TableTypeOK
  <2>1. Stored = put
    BY <2>0 DEF Stored, KeysIn
  <2>2. ASSUME NEW k \in put
        PROVE  /\ Found(Pair_Array, Map_Size, k)
               /\ Cardinality({j \in DOMAIN Pair_Array : Pair_Array[j] = k}) = 1
    <3>1. PICK a \in 0 .. Map_Size - 1 : Pair_Array[a] = k
      BY <2>0 DEF KeysIn, Range, TableOK
    <3>2. Map_Size \in Nat \ {0} /\ k \in Keys
      BY <2>0, <3>1 DEF Sizes
    <3>3. Found(Pair_Array, Map_Size, k) /\ {j \in DOMAIN Pair_Array : Pair_Array[j] = k} = {a}
      BY <2>0, <3>1, <3>2, KeyFound
    <3> QED
      BY <3>3, FS_Singleton
  <2> QED
    BY <2>1, <2>2 DEF KeysFound
<1> QED
  BY <1>1, <1>2, PTL

\* No lookup misses a key or meets a full table, and only an insertion into the
\* growing table may find no place: its resize looks at a count of its own.
THEOREM NoLookupFails == TableSetting => (TableSpec => []LookupsFind)
<1> SUFFICES ASSUME TableSetting PROVE TableSpec => []LookupsFind
  OBVIOUS
<1>1. TableSpec => []TableIInv
  BY TableInvariance
<1>2. TableIInv => LookupsFind
  BY DEF TableIInv
<1> QED
  BY <1>1, <1>2, PTL

\* The fixed table has room for every key drawn: no operation on it fails.
THEOREM FixedTableSuffices == TableSetting /\ ~Growing => (TableSpec => []LookupsSucceed)
<1> SUFFICES ASSUME TableSetting, ~Growing PROVE TableSpec => []LookupsSucceed
  OBVIOUS
<1>1. TableSpec => []TableIInv
  BY TableInvariance
<1>2. TableIInv => LookupsSucceed
  BY DEF TableIInv, LookupsFind, LookupsSucceed
<1> QED
  BY <1>1, <1>2, PTL
=============================================================================
