---------------------------- MODULE ListUnderLock ----------------------------
(***************************************************************************)
(* The two containers that are a list under a lock, with their drivers:    *)
(* the Ada queue under a test-and-set lock (benchmark/blocking/            *)
(* Ada_TAS_MPMC), which counts its items and raises Constraint_Error       *)
(* inside the lock if there is none, and the stack under a std::mutex      *)
(* (benchmark/blocking/C++11MutexStack), whose constructor puts a node on  *)
(* it that nobody pushed.                                                  *)
(***************************************************************************)
EXTENDS PairBench, Sequences

CONSTANT Ada   \* TRUE for the queue, FALSE for the stack

VARIABLES
  Locked,     \* Q.Locked; whether somebody has locked m
  list,       \* the items from List.First, or from head on
  length      \* List.Length, of the queue

lockedListVars == <<Locked, list, length>>
allListVars == <<driverVars, lockedListVars>>

Critical == {"insert", "count", "check", "remove", "uncount", "handler", "release"}
ListLabels == {"arrive", "wait", "acquire", "end"} \cup Critical

ListInit ==
  /\ DriverInit("arrive")
  /\ Locked = FALSE
  /\ list = IF Ada THEN <<>> ELSE <<0>>
  /\ length = 0

ListArrive(t) == Arrive(t, "arrive", "wait") /\ UNCHANGED lockedListVars

\* The driver of the queue has the shares of that of the lock-free queue.
ListStart(t) ==
  /\ Start(t, "wait", IterPerThread(t, IF Ada /\ ~ScRuns THEN t ELSE Lane(t)),
           "acquire", "end", "end")
  /\ UNCHANGED lockedListVars

\* while TAS_4(Q.Locked'Access, 1) = 1 loop; std::lock_guard, m.lock()
Acquire(t) ==
  /\ ~Locked
  /\ Within(t, "acquire", IF t \in Producers THEN "insert" ELSE "check")
  /\ Locked' = TRUE
  /\ UNCHANGED <<list, length>>

Item(t) == IterPerThread(t, t) - iter[t] + 1

\* Enqueue: the node becomes the last one; push: new_node->next = head, and
\* head = new_node.
Insert(t) ==
  /\ Within(t, "insert", IF Ada THEN "count" ELSE "release")
  /\ list' = IF Ada THEN Append(list, Item(t)) ELSE <<Item(t)>> \o list
  /\ UNCHANGED <<Locked, length>>

\* The queue counts the item.
CountUp(t) ==
  /\ Within(t, "count", "release")
  /\ length' = length + 1
  /\ UNCHANGED <<Locked, list>>

Empty == IF Ada THEN length <= 0 ELSE list = <<>>

\* if Container.List.Length > 0, else raise Constraint_Error; if (head == nullptr)
Check(t) ==
  /\ Within(t, "check", IF Empty THEN "handler" ELSE "remove")
  /\ UNCHANGED lockedListVars

\* List.First := List.First.Next, head = old_head->next; delete old_head.  With an
\* empty list that would be an access to null.
Remove(t) ==
  /\ Within(t, "remove", IF Ada THEN "uncount" ELSE "release")
  /\ list # <<>>
  /\ list' = Tail(list)
  /\ UNCHANGED <<Locked, length>>

Uncount(t) ==
  /\ Within(t, "uncount", "release")
  /\ length' = length - 1
  /\ UNCHANGED <<Locked, list>>

\* exception when Constraint_Error => Lock_Release_4, and the inner loop again;
\* m.unlock(); continue
Handler(t) ==
  /\ Within(t, "handler", "acquire")
  /\ Locked' = FALSE
  /\ UNCHANGED <<list, length>>

Release(t) ==
  /\ EndIteration(t, "release", "acquire", "end")
  /\ Locked' = FALSE
  /\ UNCHANGED <<list, length>>

ListEndExec(t) == NextExec(t, "end", "arrive") /\ UNCHANGED lockedListVars

ListStep(t) ==
  \/ ListArrive(t) \/ ListStart(t) \/ Acquire(t)
  \/ Insert(t) \/ CountUp(t)
  \/ Check(t) \/ Remove(t) \/ Uncount(t) \/ Handler(t)
  \/ Release(t) \/ ListEndExec(t)

ListNext == \E t \in Threads : ListStep(t)

ListSpec == ListInit /\ [][ListNext]_allListVars

-----------------------------------------------------------------------------

ListTypeOK ==
  /\ DriverTypeOK(ListLabels)
  /\ Locked \in BOOLEAN
  /\ list \in Seq(0 .. NrIter)
  /\ length \in Int

\* Nobody takes an item from an empty list.
NoneFromEmpty == \A t \in Threads : pc[t] = "remove" => list # <<>>

\* Outside the lock the counter of the queue agrees with the list.
LengthCounts ==
  /\ (\A t \in Threads : pc[t] \notin Critical) => length = Len(list)
  /\ NoneFromEmpty

\* Between executions the stack holds one node, the constructor's or one that
\* stays in its place.
OneNodeStays ==
  /\ NoneFromEmpty
  /\ (\A t \in Threads : pc[t] \in {"arrive", "done"}) => Len(list) = 1
=============================================================================
