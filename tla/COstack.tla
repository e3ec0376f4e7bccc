------------------------------- MODULE COstack -------------------------------
(***************************************************************************)
(* The lock-free stack (benchmark/nonblocking/COstack) with the hazard     *)
(* pointers of common/hazard_pointers and its driver.  A consumer that     *)
(* popped a node retires it, and frees retired nodes that no scanned       *)
(* hazard pointer points to; their addresses are then allocated again.     *)
(***************************************************************************)
EXTENDS PairBench, SequencesExt

CONSTANTS
  Heap,              \* addresses of nodes
  MaxHazardPointers, \* max_hazard_pointers, the length of hazard_pointers[]
  ReclaimAt          \* 100: so many retired nodes make a consumer reclaim

ASSUME HeapAssumption == IsFiniteSet(Heap) /\ -1 \notin Heap
\* The driver does not check it.
ASSUME SlotsAssumption ==
  MaxHazardPointers \in Nat /\ 2 * NrPairs <= MaxHazardPointers
ASSUME ReclaimAtAssumption == ReclaimAt \in Nat \ {0}

VARIABLES
  head,       \* std::atomic<node *> head
  next, data, \* the nodes
  alive,      \* allocated nodes: new returns any other one
  hazard,     \* hazard_pointers[]
  reclaim,    \* the list node_to_reclaim
  count,      \* reclaim_cnt
  node,       \* new_node of push
  old, nx,    \* old_head of pop, and old_head->next once it is loaded
  mine, k,    \* the rest of the list taken to be reclaimed, loop variable
  made, got   \* history: number of items pushed, items popped

nodeVars == <<next, data, alive>>
pushVars == <<node, made>>
popVars == <<hazard, old, nx, got>>
reclaimVars == <<reclaim, count, mine, k>>
vars == <<driverVars, head, nodeVars, pushVars, popVars, reclaimVars>>

Labels == {"arrive", "wait", "push", "link",
           "load", "protect", "reload", "next", "cas", "clear",
           "retire", "count", "check", "take", "scan", "keep", "delete", "uncount",
           "end"}

Null == -1
StartCid == MaxHazardPointers \div 2    \* start_cid
Slots == 0 .. MaxHazardPointers - 1

Init ==
  /\ DriverInit("arrive")
  /\ head = Null
  /\ next = [n \in Heap |-> Null]
  /\ data = [n \in Heap |-> 0]
  /\ alive = {}
  /\ hazard = [s \in Slots |-> Null]
  /\ reclaim = <<>> /\ count = 0
  /\ node = [t \in Producers |-> Null]
  /\ old = [t \in Consumers |-> Null]
  /\ nx = [t \in Consumers |-> Null]
  /\ mine = [t \in Consumers |-> <<>>]
  /\ k = [t \in Consumers |-> StartCid]
  /\ made = 0 /\ got = {}

ArriveBarrier(t) ==
  /\ Arrive(t, "arrive", "wait")
  /\ UNCHANGED <<head, nodeVars, pushVars, popVars, reclaimVars>>

\* The entry of sync_producer and sync_consumer.
StartProducer(t) ==
  /\ t \in Producers
  /\ Start(t, "wait", IterPerThread(t, Lane(t)), "push", "end", "end")
  /\ UNCHANGED <<head, nodeVars, pushVars, popVars, reclaimVars>>

StartConsumer(t) ==
  /\ t \in Consumers
  /\ Start(t, "wait", IterPerThread(t, Lane(t)), "load", "load", "end")
  /\ UNCHANGED <<head, nodeVars, pushVars, popVars, reclaimVars>>

-----------------------------------------------------------------------------
(* push *)

\* new node(data) and new_node->next = head.load().  The data of a node is a
\* number of its own, so that items can be told apart.
NewNode(t) ==
  /\ Within(t, "push", "link")
  /\ \E n \in Heap \ alive :
       /\ alive' = alive \cup {n}
       /\ next' = [next EXCEPT ![n] = head]
       /\ data' = [data EXCEPT ![n] = made + 1]
       /\ node' = [node EXCEPT ![t] = n]
  /\ made' = made + 1
  /\ UNCHANGED <<head, popVars, reclaimVars>>

\* head.compare_exchange_weak(new_node->next, new_node)
Link(t) ==
  /\ EndIteration(t, "link", "push", "end")
  /\ head = next[node[t]]
  /\ head' = node[t]
  /\ node' = [node EXCEPT ![t] = Null]
  /\ UNCHANGED <<nodeVars, made, popVars, reclaimVars>>

\* ... which writes the value of head it found to new_node->next if it fails.
LinkFails(t) ==
  /\ pc[t] = "link"
  /\ head # next[node[t]]
  /\ next' = [next EXCEPT ![node[t]] = head]
  /\ UNCHANGED <<driverVars, head, data, alive, pushVars, popVars, reclaimVars>>

-----------------------------------------------------------------------------
(* pop *)

\* pop() returns, to the for loop of sync_consumer or to the while loop that
\* ends when the stack was empty.
PopReturns(t, here, empty) ==
  /\ Goto(t, here, IF empty /\ iter[t] = 0 THEN "end" ELSE "load")
  /\ iter' = [iter EXCEPT ![t] = IF @ > 0 THEN @ - 1 ELSE 0]
  /\ UNCHANGED <<ctr, run, exec>>

LoadHead(t) ==
  /\ Within(t, "load", "protect")
  /\ old' = [old EXCEPT ![t] = head]
  /\ UNCHANGED <<head, nodeVars, pushVars, hazard, nx, got, reclaimVars>>

\* hazard_pointers[tid].pointer.store(old_head)
Protect(t) ==
  /\ Within(t, "protect", "reload")
  /\ hazard' = [hazard EXCEPT ![t] = old[t]]
  /\ UNCHANGED <<head, nodeVars, pushVars, old, nx, got, reclaimVars>>

\* Wrong variant of Reload: the new value is not compared with the old one.
ReloadOnly(t) ==
  /\ Within(t, "reload", IF head # Null THEN "next" ELSE "clear")
  /\ old' = [old EXCEPT ![t] = head]
  /\ UNCHANGED <<head, nodeVars, pushVars, hazard, nx, got, reclaimVars>>

\* old_head = head.load(), and the comparison with temp
Reload(t) ==
  /\ Within(t, "reload", IF head # old[t] THEN "protect"
                         ELSE IF head # Null THEN "next" ELSE "clear")
  /\ old' = [old EXCEPT ![t] = head]
  /\ UNCHANGED <<head, nodeVars, pushVars, hazard, nx, got, reclaimVars>>

\* old_head->next
ReadNext(t) ==
  /\ Within(t, "next", "cas")
  /\ nx' = [nx EXCEPT ![t] = next[old[t]]]
  /\ UNCHANGED <<head, nodeVars, pushVars, hazard, old, got, reclaimVars>>

\* Wrong variant of Unlink: a store in the place of the compare-exchange.
UnlinkBlindly(t) ==
  /\ Within(t, "cas", "clear")
  /\ head' = nx[t]
  /\ nx' = [nx EXCEPT ![t] = Null]
  /\ UNCHANGED <<nodeVars, pushVars, hazard, old, got, reclaimVars>>

\* head.compare_exchange_strong(old_head, old_head->next)
Unlink(t) ==
  /\ Within(t, "cas", "clear")
  /\ head = old[t]
  /\ head' = nx[t]
  /\ nx' = [nx EXCEPT ![t] = Null]
  /\ UNCHANGED <<nodeVars, pushVars, hazard, old, got, reclaimVars>>

\* ... and, if it fails, old_head is the value of head it found.
UnlinkFails(t) ==
  /\ Within(t, "cas", "protect")
  /\ head # old[t]
  /\ old' = [old EXCEPT ![t] = head]
  /\ nx' = [nx EXCEPT ![t] = Null]
  /\ UNCHANGED <<head, nodeVars, pushVars, hazard, got, reclaimVars>>

\* hazard_pointers[tid].pointer.store(nullptr)
Clear(t) ==
  /\ pc[t] = "clear"
  /\ \/ old[t] = Null /\ PopReturns(t, "clear", TRUE)
     \/ old[t] # Null /\ Within(t, "clear", "retire")
  /\ hazard' = [hazard EXCEPT ![t] = Null]
  /\ UNCHANGED <<head, nodeVars, pushVars, old, nx, got, reclaimVars>>

-----------------------------------------------------------------------------
(* Retire and delete_nodes_with_no_hazards *)

\* res.swap(old_head->data), which leaves the node without; add_to_reclaim_list
Retire(t) ==
  /\ Within(t, "retire", "count")
  /\ got' = got \cup {data[old[t]]}
  /\ data' = [data EXCEPT ![old[t]] = 0]
  /\ reclaim' = <<old[t]>> \o reclaim
  /\ old' = [old EXCEPT ![t] = Null]
  /\ UNCHANGED <<head, next, alive, pushVars, hazard, nx, count, mine, k>>

\* reclaim_cnt.fetch_add(1)
CountUp(t) ==
  /\ Within(t, "count", "check")
  /\ count' = count + 1
  /\ UNCHANGED <<head, nodeVars, pushVars, popVars, reclaim, mine, k>>

\* if (reclaim_cnt.load() >= 100)
CheckCount(t) ==
  /\ \/ count >= ReclaimAt /\ Within(t, "check", "take")
     \/ count < ReclaimAt /\ PopReturns(t, "check", FALSE)
  /\ UNCHANGED <<head, nodeVars, pushVars, popVars, reclaimVars>>

\* The loop goes on with the rest of the list, or ends.
NextRetired(t, here, rest) ==
  /\ pc[t] = here
  /\ mine' = [mine EXCEPT ![t] = rest]
  /\ k' = [k EXCEPT ![t] = StartCid]
  /\ \/ rest = <<>> /\ PopReturns(t, here, FALSE)
     \/ rest # <<>> /\ Within(t, here, "scan")

\* node_to_reclaim.exchange(nullptr)
Take(t) ==
  /\ NextRetired(t, "take", reclaim)
  /\ reclaim' = <<>>
  /\ UNCHANGED <<head, nodeVars, pushVars, popVars, count>>

\* Wrong variant of ScanSlot: the last hazard pointer is not looked at.
ScanShort(t) ==
  /\ Within(t, "scan", IF hazard[k[t]] = Head(mine[t]) THEN "keep"
                       ELSE IF k[t] + 2 < MaxHazardPointers THEN "scan" ELSE "delete")
  /\ k' = [k EXCEPT ![t] = @ + 1]
  /\ UNCHANGED <<head, nodeVars, pushVars, popVars, reclaim, count, mine>>

\* outstanding_hazard_pointers_for: one load of hazard_pointers[i]
ScanSlot(t) ==
  /\ Within(t, "scan", IF hazard[k[t]] = Head(mine[t]) THEN "keep"
                       ELSE IF k[t] + 1 < MaxHazardPointers THEN "scan" ELSE "delete")
  /\ k' = [k EXCEPT ![t] = @ + 1]
  /\ UNCHANGED <<head, nodeVars, pushVars, popVars, reclaim, count, mine>>

\* add_to_reclaim_list(current)
Keep(t) ==
  /\ NextRetired(t, "keep", Tail(mine[t]))
  /\ reclaim' = <<Head(mine[t])>> \o reclaim
  /\ UNCHANGED <<head, nodeVars, pushVars, popVars, count>>

\* delete current, which deletes the node with what is in it
Delete(t) ==
  /\ Within(t, "delete", "uncount")
  /\ alive' = alive \ {Head(mine[t])}
  /\ next' = [next EXCEPT ![Head(mine[t])] = Null]
  /\ UNCHANGED <<head, data, pushVars, popVars, reclaimVars>>

\* Wrong variant of Uncount: reclaim_cnt is reset, as if the list were empty.
UncountAll(t) ==
  /\ NextRetired(t, "uncount", Tail(mine[t]))
  /\ count' = 0
  /\ UNCHANGED <<head, nodeVars, pushVars, popVars, reclaim>>

\* reclaim_cnt.fetch_sub(1)
Uncount(t) ==
  /\ NextRetired(t, "uncount", Tail(mine[t]))
  /\ count' = count - 1
  /\ UNCHANGED <<head, nodeVars, pushVars, popVars, reclaim>>

EndExec(t) ==
  /\ NextExec(t, "end", "arrive")
  /\ UNCHANGED <<head, nodeVars, pushVars, popVars, reclaimVars>>

-----------------------------------------------------------------------------

Push(t) == NewNode(t) \/ Link(t) \/ LinkFails(t)

Pop(t) ==
  \/ LoadHead(t) \/ Protect(t) \/ Reload(t) \/ ReadNext(t) \/ Unlink(t)
  \/ UnlinkFails(t) \/ Clear(t)

Reclaim(t) ==
  \/ Retire(t) \/ CountUp(t) \/ CheckCount(t) \/ Take(t) \/ ScanSlot(t)
  \/ Keep(t) \/ Delete(t) \/ Uncount(t)

Step(t) ==
  \/ ArriveBarrier(t) \/ StartProducer(t) \/ StartConsumer(t)
  \/ Push(t) \/ Pop(t) \/ Reclaim(t) \/ EndExec(t)

Next == \E t \in Threads : Step(t)

Spec == Init /\ [][Next]_vars

\* The operating system schedules every thread again and again.
Fairness == \A t \in Threads : WF_vars(Step(t))

FairSpec == Spec /\ Fairness

-----------------------------------------------------------------------------

TypeOK ==
  /\ DriverTypeOK(Labels)
  /\ head \in Heap \cup {Null}
  /\ next \in [Heap -> Heap \cup {Null}]
  /\ data \in [Heap -> Nat]
  /\ alive \subseteq Heap
  /\ hazard \in [Slots -> Heap \cup {Null}]
  /\ reclaim \in Seq(Heap)
  /\ count \in Int
  /\ node \in [Producers -> Heap \cup {Null}]
  /\ old \in [Consumers -> Heap \cup {Null}]
  /\ nx \in [Consumers -> Heap \cup {Null}]
  /\ mine \in [Consumers -> Seq(Heap)]
  /\ k \in [Consumers -> StartCid .. MaxHazardPointers]
  /\ made \in Nat
  /\ got \subseteq 1 .. made

\* A consumer dereferences old_head only while the node is allocated, although
\* others may have popped, retired and reclaimed it since it was loaded; and
\* no node is deleted twice.
NoUseAfterFree ==
  \A t \in Consumers :
    /\ pc[t] \in {"next", "retire"} => old[t] \in alive
    /\ pc[t] = "delete" => Head(mine[t]) \in alive

\* The program ends: no thread retries for ever, and the consumers' last loop
\* finds the stack empty.
Termination == <>AllDone

-----------------------------------------------------------------------------
(* Where the nodes are *)

\* s is the list that begins with first, by the links of its nodes.
IsListFrom(s, first, link) ==
  /\ first = IF 1 \in DOMAIN s THEN s[1] ELSE Null
  /\ \A i \in DOMAIN s : link[s[i]] = IF i + 1 \in DOMAIN s THEN s[i + 1] ELSE Null

\* The stack is the list from head on; a list that does not end is cut.
Follow(n) == IF n = Null THEN Null ELSE next[n]
Reached[i \in 0 .. Cardinality(Heap)] == IF i = 0 THEN head ELSE Follow(Reached[i - 1])
Height == Cardinality({i \in 0 .. Cardinality(Heap) : Reached[i] # Null})
OnStack == [i \in 1 .. Height |-> Reached[i - 1]]

\* The nodes in producers' hands, and those that a consumer has unlinked and not
\* yet retired.
Fresh == {node[t] : t \in Producers} \ {Null}
HasUnlinked(t) == pc[t] \in {"clear", "retire"} /\ old[t] # Null
Unlinked == {old[t] : t \in {u \in Consumers : HasUnlinked(u)}}

\* What consumer t has still to look at, of the list it took.
ToReclaim(t) == IF pc[t] = "uncount" THEN Tail(mine[t]) ELSE mine[t]

\* The nodes in consumer t's hands.
Held(t) == (IF HasUnlinked(t) THEN {old[t]} ELSE {}) \cup ToSet(ToReclaim(t))

\* The nodes with items that have not been popped.
Carrying == ToSet(OnStack) \cup Fresh \cup Unlinked

\* The nodes that have been retired and not yet deleted.
Retired == ToSet(reclaim) \cup UNION {ToSet(ToReclaim(t)) : t \in Consumers}

\* reclaim_cnt counts the nodes that have been retired and not yet deleted,
\* but for those whose consumer is between the list and the counter: the
\* count is not lost when consumers reclaim at the same time.
CountsRetired ==
  count + Cardinality({t \in Consumers : pc[t] = "count"})
    = Cardinality(Retired) + Cardinality({t \in Consumers : pc[t] = "uncount"})

\* The places of nodes: threads, the stack and the reclaim list.
Stack == -2
ReclaimList == -1
Places == Threads \cup {Stack, ReclaimList}

NodesAt ==
  [p \in Places |->
     CASE p = Stack -> ToSet(OnStack)
       [] p = ReclaimList -> ToSet(reclaim)
       [] p \in Producers -> {node[p]} \ {Null}
       [] p \in Consumers -> Held(p)]

\* Every allocated node is in one place: a producer's hands, the stack, a
\* consumer's hands, the reclaim list or a list taken from it.  None leaks.
NodesOnce ==
  LET at == NodesAt
  IN  /\ \A n \in Heap :
           Cardinality({p \in Places : n \in at[p]}) = IF n \in alive THEN 1 ELSE 0
      /\ IsInjective(reclaim)
      /\ \A t \in Consumers : IsInjective(ToReclaim(t))

\* No item is lost and none is popped twice, whatever happens to its node: it was
\* popped or is in one of the nodes that are on the stack or on their way.
ItemsOnce ==
  LET carrying == Carrying
      carried == {data[n] : n \in carrying}
  IN  /\ carried \cup got = 1 .. made
      /\ carried \cap got = {}
      /\ \A m, n \in carrying : data[m] = data[n] => m = n

\* Neither a node nor an item is lost, and none is in two places.
NodesAccounted == IsListFrom(OnStack, head, next) /\ NodesOnce /\ ItemsOnce

-----------------------------------------------------------------------------
(* The stack that it implements *)

\* The items on the stack, the one on top last.
OldestFirst == LET height == Height IN [i \in 1 .. height |-> data[Reached[height - i]]]

Abstract == INSTANCE Container WITH Items <- Nat, Lifo <- TRUE, items <- OldestFirst

\* Every step adds one item on top of the stack, removes the one on top, or
\* leaves the stack alone: no exchange of head succeeds on a node that went
\* away and came back.
ImplementsStack == Abstract!Spec

\* Addresses are stored and compared for equality, nothing else.
Addresses == Permutations(Heap)
=============================================================================
