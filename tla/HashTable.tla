------------------------------ MODULE HashTable ------------------------------
(***************************************************************************)
(* The hash tables of benchmark/tsx/HashTable with open addressing: the    *)
(* fixed one, Hashmap, with its driver, and Growing_Hashmap, whose clients *)
(* call g_First_Insert and then Second_Insert, with a driver of the same   *)
(* form.  The operations of a protected object are single steps; hash      *)
(* values are any function of the keys.                                    *)
(***************************************************************************)
EXTENDS Integers, FiniteSets, Functions

CONSTANTS
  Growing,           \* which table is driven
  Keys, HashValues,  \* of type Key_t, and of the hash function
  Draws,             \* what a generator may draw: functions from 1 .. NumOp to Keys
  MinTask, MaxTask,  \* -n and -m
  NumOp,             \* -o, for all workers together
  TableSize          \* of the growing table at the beginning

VARIABLES
  Hash, Random,    \* Joaat_Hash; the keys each generator draws
  Map_Size, Pair_Array,
  g_Item_Num,
  nTask, job, id,  \* N_Task, Job and Id of the main task
  meeting,         \* its inner loop
  worker,          \* label of each worker
  drawn,           \* loop variable i of each worker
  key, quota,      \* locals of Worker
  missed,          \* Is_Found was False
  put              \* history: keys inserted since the table was cleaned

tableVars == <<Map_Size, Pair_Array>>
driverVars == <<nTask, job, id, meeting>>
workerVars == <<worker, drawn, key, quota, missed>>
hashVars == <<Hash, Random, tableVars, g_Item_Num, driverVars, workerVars, put>>

Workers == 1 .. MaxTask
Unused == "unused"
Failed == "failed"   \* Assert (False), Constraint_Error

\* Pair_Array, from 0 on: the key of each place.
Empty(size) == [i \in 0 .. size - 1 |-> Unused]

\* A generator of a given number draws the same keys after each Reset.
TableInit ==
  /\ Hash \in [Keys -> HashValues]
  /\ Random \in [Workers -> Draws]
  /\ Map_Size = IF Growing THEN TableSize ELSE NumOp * 2
  /\ Pair_Array = Empty(Map_Size)
  /\ g_Item_Num = 0
  /\ nTask = MinTask /\ job = "Insert" /\ id = 1 /\ meeting = "start"
  /\ worker = [w \in Workers |-> "start"]
  /\ drawn = [w \in Workers |-> 0]
  /\ key = [w \in Workers |-> Unused]
  /\ quota = [w \in Workers |-> 0]
  /\ missed = FALSE
  /\ put = {}

-----------------------------------------------------------------------------

\* Wrong variant of FindSlot: the search stops at the end of the array.
FindSlotNoWrap(table, size, k) ==
  LET start == Hash[k] % size
      ends == {d \in 0 .. size - 1 - start : table[start + d] \in {Unused, k}}
  IN  IF ends = {} THEN -1 ELSE start + CHOOSE d \in ends : \A e \in ends : d <= e

\* The first place from the hash value on that is unused or has the key; -1 when
\* there is none.
FindSlot(table, size, k) ==
  LET start == Hash[k] % size
      ends == {d \in 0 .. size - 1 : table[(start + d) % size] \in {Unused, k}}
  IN  IF ends = {} THEN -1 ELSE (start + CHOOSE d \in ends : \A e \in ends : d <= e) % size

Found(table, size, k) ==
  LET i == FindSlot(table, size, k) IN i # -1 /\ table[i] = k

\* The loop of Check_Resize: f[i] is the new array after i places of the old one.
Rehashed(old, size) ==
  LET f[i \in 0 .. size] ==
        IF i = 0 THEN Empty(2 * size)
        ELSE LET table == f[i - 1]
                 k == old[i - 1]
             IN  IF k = Unused THEN table
                 ELSE [table EXCEPT ![FindSlot(table, 2 * size, k)] = k]
  IN  f[size]

-----------------------------------------------------------------------------
(* The main task *)

QuotaOf(w) == NumOp \div nTask + (IF w = nTask THEN NumOp % nTask ELSE 0)

\* The label of a worker before the operation, or after its last.
Loop(left) == IF left = 0 THEN "finish"
              ELSE IF job = "Lookup" THEN "lookup"
              ELSE IF Growing THEN "check" ELSE "insert"

\* The rendezvous Start; workers that have started are at work already.
TableStart ==
  /\ meeting = "start" /\ worker[id] = "start"
  /\ quota' = [quota EXCEPT ![id] = QuotaOf(id)]
  /\ worker' = [worker EXCEPT ![id] = Loop(QuotaOf(id))]
  /\ drawn' = [drawn EXCEPT ![id] = 1]
  /\ key' = [key EXCEPT ![id] = IF QuotaOf(id) > 0 THEN Random[id][1] ELSE Unused]
  /\ IF id < nTask THEN id' = id + 1 /\ meeting' = meeting ELSE id' = 1 /\ meeting' = "finish"
  /\ UNCHANGED <<Hash, Random, tableVars, g_Item_Num, nTask, job, missed, put>>

\* h.Clean and the outer loop
NextNrOfTasks ==
  /\ job' = "Insert" /\ nTask' = nTask + 1
  /\ meeting' = IF nTask < MaxTask THEN "start" ELSE "done"
  /\ Pair_Array' = Empty(Map_Size)
  /\ put' = {}
  /\ UNCHANGED Map_Size

\* The rendezvous Finish, and the loops over jobs and numbers of tasks.
TableFinish ==
  /\ meeting = "finish" /\ worker[id] = "finish"
  /\ worker' = [worker EXCEPT ![id] = "start"]
  /\ drawn' = [drawn EXCEPT ![id] = 0]
  /\ key' = [key EXCEPT ![id] = Unused]
  /\ quota' = [quota EXCEPT ![id] = 0]
  /\ \/ /\ id < nTask /\ id' = id + 1
        /\ UNCHANGED <<tableVars, nTask, job, meeting, put>>
     \/ /\ id = nTask /\ id' = 1
        /\ \/ job = "Insert" /\ job' = "Lookup" /\ meeting' = "start"
              /\ UNCHANGED <<tableVars, nTask, put>>
           \/ job = "Lookup" /\ NextNrOfTasks
  /\ UNCHANGED <<Hash, Random, g_Item_Num, missed>>

-----------------------------------------------------------------------------
(* Workers *)

\* The next iteration of the worker's loop.
NextKey(w) ==
  /\ drawn' = [drawn EXCEPT ![w] = @ + 1]
  /\ key' = [key EXCEPT ![w] = IF drawn[w] < quota[w] THEN Random[w][drawn[w] + 1] ELSE Unused]
  /\ worker' = [worker EXCEPT ![w] = Loop(quota[w] - drawn[w])]
  /\ UNCHANGED quota

\* Insert and Second_Insert.  A full table is reported by the fixed one, and an
\* assertion fails in the other.
Insert(w) ==
  /\ worker[w] = "insert"
  /\ LET i == FindSlot(Pair_Array, Map_Size, key[w])
     IN  IF i = -1 /\ Growing
         THEN /\ worker' = [worker EXCEPT ![w] = Failed]
              /\ UNCHANGED <<Pair_Array, drawn, key, quota, put>>
         ELSE /\ Pair_Array' = IF i = -1 THEN Pair_Array ELSE [Pair_Array EXCEPT ![i] = key[w]]
              /\ put' = put \cup {key[w]}
              /\ NextKey(w)
  /\ UNCHANGED <<Hash, Random, Map_Size, g_Item_Num, driverVars, missed>>

\* Lookup.  In a full table the index is 0, outside the array.
Lookup(w) ==
  /\ worker[w] = "lookup"
  /\ IF FindSlot(Pair_Array, Map_Size, key[w]) = -1
     THEN /\ worker' = [worker EXCEPT ![w] = Failed]
          /\ UNCHANGED <<drawn, key, quota, missed>>
     ELSE /\ missed' = (missed \/ ~Found(Pair_Array, Map_Size, key[w]))
          /\ NextKey(w)
  /\ UNCHANGED <<Hash, Random, tableVars, g_Item_Num, driverVars, put>>

\* g_First_Insert: H.Check_Resize.  (Resizing is always False for a caller, as
\* it is set and cleared inside the protected procedure.)
CheckResize(w) ==
  /\ worker[w] = "check"
  /\ worker' = [worker EXCEPT ![w] = "count"]
  /\ IF 10 * g_Item_Num > 7 * Map_Size
     THEN Map_Size' = Map_Size * 2 /\ Pair_Array' = Rehashed(Pair_Array, Map_Size)
     ELSE UNCHANGED tableVars
  /\ UNCHANGED <<Hash, Random, g_Item_Num, driverVars, drawn, key, quota, missed, put>>

\* ... and Fetch_And_Add (g_Item_Num'Address, 1), which Clean does not reset.
CountItem(w) ==
  /\ worker[w] = "count"
  /\ worker' = [worker EXCEPT ![w] = "insert"]
  /\ g_Item_Num' = g_Item_Num + 1
  /\ UNCHANGED <<Hash, Random, tableVars, driverVars, drawn, key, quota, missed, put>>

TableWork(w) == Insert(w) \/ Lookup(w) \/ CheckResize(w) \/ CountItem(w)

TableMain == TableStart \/ TableFinish

TableNext == TableMain \/ \E w \in Workers : TableWork(w)

TableSpec == TableInit /\ [][TableNext]_hashVars

\* The operating system schedules every task again and again.
FairTableSpec == TableSpec /\ WF_hashVars(TableMain) /\ \A w \in Workers : WF_hashVars(TableWork(w))

-----------------------------------------------------------------------------

Stored == Range(Pair_Array) \ {Unused}

TableTypeOK ==
  /\ Map_Size \in Nat /\ Pair_Array \in [0 .. Map_Size - 1 -> Keys \cup {Unused}]
  /\ g_Item_Num \in Nat
  /\ nTask \in MinTask .. MaxTask + 1 /\ job \in {"Insert", "Lookup"} /\ id \in Workers
  /\ meeting \in {"start", "finish", "done"}
  /\ worker \in [Workers -> {"start", "insert", "check", "count", "lookup", "finish", Failed}]
  /\ drawn \in [Workers -> 0 .. NumOp + 1]
  /\ key \in [Workers -> Keys \cup {Unused}]
  /\ quota \in [Workers -> 0 .. NumOp]
  /\ missed \in BOOLEAN /\ put \subseteq Keys

\* The table is what was put into it since it was cleaned, each key at one place
\* where a search for it ends: in spite of collisions, and of resizes between a
\* task's two calls.
KeysFound ==
  /\ Stored = put
  /\ \A k \in put : /\ Found(Pair_Array, Map_Size, k)
                    /\ Cardinality({i \in DOMAIN Pair_Array : Pair_Array[i] = k}) = 1

\* Lookups find what the insertions of the same run have stored, as each worker
\* draws the keys of its number again, and no operation meets a full table.
LookupsSucceed ==
  /\ ~missed
  /\ \A w \in Workers : worker[w] # Failed
=============================================================================
