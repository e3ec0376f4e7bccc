--------------------------------- MODULE MCTsx ---------------------------------
(***************************************************************************)
(* The lock elision and the benchmarks that are run with it, for TLC: one  *)
(* of them in each behaviour.  When it is not theirs the philosophers stay *)
(* as they are seated at first.                                            *)
(***************************************************************************)
EXTENDS DiningPhilosophers, Sequences

CONSTANT Benchmarks   \* those that are run

VARIABLES
  bench,                                            \* which one is run
  pc, TSX_Lock, mutex, mem, active, loads, stores,  \* Elision
  status, tries, calls, seen,
  Hash, Random, Map_Size, Pair_Array, g_Item_Num,   \* HashTable
  nTask, job, worker, drawn, key, missed, put,
  i, loop, nearest, Membership, Q_Index, Delt,      \* KMeans
  len, work, Start_Pos, Stop_Pos, point, Local_Delta, done, changed,
  otherMain, otherId, otherQuota                    \* main, id, quota of the others

-----------------------------------------------------------------------------
(* Two writers in turn with a reader, and two writers that call twice. *)

Elided == INSTANCE Elision WITH
            Writers <- {"a", "b"}, Readers <- {"r"}, NrCalls <- 1, RetryMaxCount <- 1
Twice == INSTANCE Elision WITH
            Writers <- {"a", "b"}, Readers <- {}, NrCalls <- 2, RetryMaxCount <- 1

\* Keys that collide at the last place, wrap around, and draws that repeat.
HashValues == {0, 7}
Draws == {<<"k", "l", "m", "l">>, <<"m", "m", "k", "l">>}
Table == INSTANCE HashTable WITH
           Growing <- FALSE, Keys <- {"k", "l", "m"}, MinTask <- 1, MaxTask <- 3, NumOp <- 4,
           TableSize <- 2, meeting <- otherMain, id <- otherId, quota <- otherQuota
\* With two tasks four places are enough for those that passed the check.
Grown == INSTANCE HashTable WITH
           Growing <- TRUE, Keys <- {"k", "l", "m", "n", "o", "p"}, HashValues <- {3, 7},
           Draws <- {<<"k", "l", "m", "n", "o", "p">>, <<"p", "o", "n", "m", "l", "k">>},
           MinTask <- 2, MaxTask <- 2, NumOp <- 6,
           TableSize <- 4, meeting <- otherMain, id <- otherId, quota <- otherQuota
\* With two places they are not.
Crowded == INSTANCE HashTable WITH
           Growing <- TRUE, Keys <- {"k", "l", "m", "n"},
           Draws <- {<<"k", "l", "m", "n">>, <<"n", "m", "l", "k">>},
           MinTask <- 2, MaxTask <- 2, NumOp <- 4,
           TableSize <- 2, meeting <- otherMain, id <- otherId, quota <- otherQuota

\* Three chunks of two points and one of a single point for two tasks.
NPoints == 7
Nearest == {[p \in 1 .. NPoints |-> 1], [p \in 1 .. NPoints |-> 1 + (p % 2)]}
Means == INSTANCE KMeans WITH
           NThreads <- 2, NClusters <- 2, CHUNK <- 2, MaxLoops <- 2, main <- otherMain

-----------------------------------------------------------------------------

elisionVars == <<pc, TSX_Lock, mutex, mem, active, loads, stores, status, tries, calls, seen>>
tableVars == <<Hash, Random, Map_Size, Pair_Array, g_Item_Num, nTask, job, worker, drawn,
               key, missed, put, otherId, otherQuota>>
meansVars == <<i, loop, nearest, Membership, Q_Index, Delt, len, work, Start_Pos, Stop_Pos,
               point, Local_Delta, done, changed>>
allVars == <<vars, bench, elisionVars, tableVars, meansVars, otherMain>>

OfElision == bench \in {"Elided", "Twice"}
OfTable == bench \in {"Table", "Grown", "Crowded"}

None == 0

NoElision ==
  /\ pc = None /\ TSX_Lock = None /\ mutex = None /\ mem = None /\ active = None
  /\ loads = None /\ stores = None /\ status = None /\ tries = None /\ calls = None
  /\ seen = None
NoTable ==
  /\ Hash = None /\ Random = None /\ Map_Size = None /\ Pair_Array = None
  /\ g_Item_Num = None /\ nTask = None /\ job = None /\ worker = None /\ drawn = None
  /\ key = None /\ missed = None /\ put = None /\ otherId = None /\ otherQuota = None
NoMeans ==
  /\ i = None /\ loop = None /\ nearest = None /\ Membership = None /\ Q_Index = None
  /\ Delt = None /\ len = None /\ work = None /\ Start_Pos = None /\ Stop_Pos = None
  /\ point = None /\ Local_Delta = None /\ done = None /\ changed = None

InitAll ==
  /\ bench \in Benchmarks
  /\ Init
  /\ \/ bench = "Elided" /\ Elided!Init
     \/ bench = "Twice" /\ Twice!Init
     \/ ~OfElision /\ NoElision
  /\ \/ bench = "Table" /\ Table!TableInit
     \/ bench = "Grown" /\ Grown!TableInit
     \/ bench = "Crowded" /\ Crowded!TableInit
     \/ ~OfTable /\ NoTable
  /\ \/ bench = "Means" /\ Means!MeansInit
     \/ bench # "Means" /\ NoMeans
  /\ OfTable \/ bench = "Means" \/ otherMain = None

\* The tasks, 0 being the main task where there is one.
Processes == 0 .. 3
TaskName == <<"a", "b", "r">>

OfTask(k, tasks) == k \in Processes \ {0} /\ TaskName[k] \in tasks

Run(k) ==
  /\ \/ bench = "Philosophers" /\ (IF k = 0 THEN Main ELSE Eat(k))
     \/ bench # "Philosophers" /\ UNCHANGED vars
  /\ \/ bench = "Elided" /\ OfTask(k, {"a", "b", "r"}) /\ Elided!Step(TaskName[k])
     \/ bench = "Twice" /\ OfTask(k, {"a", "b"}) /\ Twice!Step(TaskName[k])
     \/ ~OfElision /\ UNCHANGED elisionVars
  /\ \/ bench = "Table" /\ (IF k = 0 THEN Table!TableMain ELSE Table!TableWork(k))
     \/ bench = "Grown" /\ (IF k = 0 THEN Grown!TableMain ELSE k <= 2 /\ Grown!TableWork(k))
     \/ bench = "Crowded" /\ (IF k = 0 THEN Crowded!TableMain ELSE k <= 2 /\ Crowded!TableWork(k))
     \/ ~OfTable /\ UNCHANGED tableVars
  /\ \/ bench = "Means" /\ (IF k = 0 THEN Means!Main ELSE k <= 2 /\ Means!Work(k))
     \/ bench # "Means" /\ UNCHANGED meansVars
  /\ IF OfTable \/ bench = "Means" THEN TRUE ELSE UNCHANGED otherMain
  /\ UNCHANGED bench

\* What ends a transaction without another task.
Interrupted ==
  /\ \/ bench = "Elided" /\ \E t \in {"a", "b", "r"} : Elided!Interrupt(t)
     \/ bench = "Twice" /\ \E t \in {"a", "b"} : Twice!Interrupt(t)
  /\ UNCHANGED <<vars, bench, tableVars, meansVars, otherMain>>

NextAll == Interrupted \/ \E k \in Processes : Run(k)

SpecAll == InitAll /\ [][NextAll]_allVars

OfGrown == bench \in {"Grown", "Crowded"}

\* The operating system schedules every task again and again.  The growing table,
\* which no driver of the repository uses, is checked for safety only.
FairSpecAll == SpecAll /\ \A k \in Processes : WF_allVars(~OfGrown /\ Run(k))

-----------------------------------------------------------------------------

\* The state of every module has its types.
TypeOKAll ==
  /\ TypeOK
  /\ CASE bench = "Philosophers" -> TRUE
       [] bench = "Elided" -> Elided!TypeOK
       [] bench = "Twice" -> Twice!TypeOK
       [] bench = "Table" -> Table!TableTypeOK
       [] bench = "Grown" -> Grown!TableTypeOK
       [] bench = "Crowded" -> Crowded!TableTypeOK
       [] bench = "Means" -> Means!MeansTypeOK

\* See the module of each; of these two ForksHeld and OrderedForks are named as
\* they are.
CallsAtomic ==
  CASE bench = "Elided" -> Elided!ElisionExcludes /\ Elided!CallsAtomic
    [] bench = "Twice" -> Twice!ElisionExcludes /\ Twice!CallsAtomic
    [] OTHER -> TRUE
KeysFound ==
  CASE bench = "Table" -> Table!KeysFound
    [] bench = "Grown" -> Grown!KeysFound
    [] bench = "Crowded" -> Crowded!KeysFound
    [] OTHER -> TRUE
LookupsSucceed ==
  CASE bench = "Table" -> Table!LookupsSucceed
    [] bench = "Grown" -> Grown!LookupsSucceed
    [] bench = "Crowded" -> Crowded!LookupsSucceed
    [] OTHER -> TRUE
ClustersKept == bench = "Means" => Means!EachPointOnce /\ Means!ChangesCounted

\* Every benchmark ends: no philosopher, transaction or main task waits for ever.
\* (Nothing follows the end, so that []<> says what <> does.)
Ended ==
  CASE bench = "Philosophers" -> main = "done"
    [] OfElision -> \A t \in DOMAIN pc : pc[t] = "done"
    [] OfTable \/ bench = "Means" -> otherMain = "done"
Termination == OfGrown \/ []<>Ended
=============================================================================
