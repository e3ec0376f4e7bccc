------------------------------- MODULE MSQueue -------------------------------
(***************************************************************************)
(* The lock-free queue of Michael and Scott in Ada, CAS_8 and CAS_16 of    *)
(* benchmark/nonblocking/AdaLockfree, with its driver.  A tagged pointer   *)
(* is a record of an address and a counter modulo CountTag.  A consumer    *)
(* frees the node it dequeued at once; other threads may still hold its    *)
(* address, and `new' may return it again, with the counter of its next    *)
(* field starting anew.                                                    *)
(***************************************************************************)
EXTENDS PairBench

CONSTANTS
  Heap,      \* addresses of nodes
  Reuse,     \* whether `new' may return an address that was freed
  CountTag   \* 2^64 in CAS_16, 2^16 in CAS_8

VARIABLES
  First, Last,             \* List.First, List.Last
  element, next,           \* the nodes
  alive, used,             \* addresses allocated now, or at any time
  node,                    \* local of Enqueue
  myFirst, myLast, myNext, \* locals of Enqueue and Dequeue
  item,                    \* local of Dequeue: Element
  made, got                \* history: items enqueued, items dequeued

endVars == <<First, Last>>
nodeVars == <<element, next, alive, used>>
localVars == <<node, myFirst, myLast, myNext, item>>
msVars == <<driverVars, endVars, nodeVars, localVars, made, got>>

MSLabels == {"arrive", "wait", "new", "loadLast", "loadNext", "recheck", "link",
           "helpLink", "swing", "empty", "emptyLast", "first", "last", "next",
           "refirst", "help", "read", "advance", "free", "end"}

Null == -1
Tagged(ptr, count) == [ptr |-> ptr, count |-> count % CountTag]
NoNode == Tagged(Null, 0)

\* What is loaded from memory that is not allocated.
Garbage == [ptr |-> Null, count |-> -1]
NextOf(n) == IF n \in alive THEN next[n] ELSE Garbage

\* Initialize: a list has a first node without an item.
MSInit ==
  /\ DriverInit("arrive")
  /\ LET n == CHOOSE a \in Heap : TRUE
     IN  /\ First = Tagged(n, 0) /\ Last = Tagged(n, 0)
         /\ alive = {n} /\ used = {n}
  /\ element = [n \in Heap |-> 0]
  /\ next = [n \in Heap |-> NoNode]
  /\ node = [t \in Producers |-> Null]
  /\ myFirst = [t \in Consumers |-> NoNode]
  /\ myLast = [t \in Threads |-> NoNode]
  /\ myNext = [t \in Threads |-> NoNode]
  /\ item = [t \in Consumers |-> 0]
  /\ made = 0 /\ got = {}

MSArrive(t) ==
  /\ Arrive(t, "arrive", "wait")
  /\ UNCHANGED <<endVars, nodeVars, localVars, made, got>>

MSStartProducer(t) ==
  /\ t \in Producers
  /\ Start(t, "wait", IterPerThread(t, t), "new", "end", "end")
  /\ UNCHANGED <<endVars, nodeVars, localVars, made, got>>

\* In a scaling run the remainder goes by the number among the consumers, else
\* by Tid, which no remainder exceeds: then consumers leave items behind.
MSStartConsumer(t) ==
  /\ t \in Consumers
  /\ Start(t, "wait", IterPerThread(t, IF ScRuns THEN Lane(t) ELSE t), "empty", "end", "end")
  /\ UNCHANGED <<endVars, nodeVars, localVars, made, got>>

-----------------------------------------------------------------------------
(* Enqueue *)

\* new Node_Type'(Element => New_Item, Next => (null, 0)).  Items are numbered,
\* so that they can be told apart; an address never used is as good as another.
NewNode(t) ==
  /\ Within(t, "new", "loadLast")
  /\ \E n \in IF Reuse THEN Heap \ alive ELSE Heap \ used :
       /\ ~Reuse => n = CHOOSE a \in Heap \ used : TRUE
       /\ alive' = alive \cup {n}
       /\ used' = used \cup {n}
       /\ element' = [element EXCEPT ![n] = made + 1]
       /\ next' = [next EXCEPT ![n] = NoNode]
       /\ node' = [node EXCEPT ![t] = n]
  /\ made' = made + 1
  /\ UNCHANGED <<endVars, myFirst, myLast, myNext, item, got>>

LoadLast(t) ==
  /\ Within(t, "loadLast", "loadNext")
  /\ myLast' = [myLast EXCEPT ![t] = Last]
  /\ UNCHANGED <<endVars, nodeVars, node, myFirst, myNext, item, made, got>>

\* Last.Ptr.Next
LoadNext(t) ==
  /\ Within(t, "loadNext", "recheck")
  /\ myNext' = [myNext EXCEPT ![t] = NextOf(myLast[t].ptr)]
  /\ UNCHANGED <<endVars, nodeVars, node, myFirst, myLast, item, made, got>>

\* if Last = Last2
Recheck(t) ==
  /\ Within(t, "recheck", IF Last # myLast[t] THEN "loadLast"
                          ELSE IF myNext[t].ptr = Null THEN "link" ELSE "helpLink")
  /\ UNCHANGED <<endVars, nodeVars, localVars, made, got>>

\* The exchange of Last.Ptr.Next, the step that makes Node part of the list.  It
\* fails on a node freed meanwhile, which had a successor.
Link(t) ==
  /\ pc[t] = "link"
  /\ LET last == myLast[t].ptr
     IN  \/ /\ next[last] = myNext[t]
            /\ Within(t, "link", "swing")
            /\ next' = [next EXCEPT ![last] = Tagged(node[t], myNext[t].count + 1)]
         \/ /\ next[last] # myNext[t]
            /\ Within(t, "link", "loadLast")
            /\ UNCHANGED next
  /\ myNext' = [myNext EXCEPT ![t] = NoNode]
  /\ UNCHANGED <<endVars, element, alive, used, node, myFirst, myLast, item, made, got>>

\* The exchange of List.Last with Tagged_Node'(n, Last.Counter + 1)
MoveLast(t, n) ==
  Last' = IF Last = myLast[t] THEN Tagged(n, Last.count + 1) ELSE Last

HelpLink(t) ==
  /\ Within(t, "helpLink", "loadLast")
  /\ MoveLast(t, myNext[t].ptr)
  /\ myLast' = [myLast EXCEPT ![t] = NoNode]
  /\ myNext' = [myNext EXCEPT ![t] = NoNode]
  /\ UNCHANGED <<First, nodeVars, node, myFirst, item, made, got>>

Swing(t) ==
  /\ EndIteration(t, "swing", "new", "end")
  /\ MoveLast(t, node[t])
  /\ node' = [node EXCEPT ![t] = Null]
  /\ myLast' = [myLast EXCEPT ![t] = NoNode]
  /\ UNCHANGED <<First, nodeVars, myFirst, myNext, item, made, got>>

-----------------------------------------------------------------------------
(* Dequeue *)

ForgetLocals(t) ==
  /\ myFirst' = [myFirst EXCEPT ![t] = NoNode]
  /\ myLast' = [myLast EXCEPT ![t] = NoNode]
  /\ myNext' = [myNext EXCEPT ![t] = NoNode]

\* The two loads of Empty: List.First = List.Last
EmptyFirst(t) ==
  /\ Within(t, "empty", "emptyLast")
  /\ myFirst' = [myFirst EXCEPT ![t] = First]
  /\ UNCHANGED <<endVars, nodeVars, node, myLast, myNext, item, made, got>>

\* An empty queue makes the driver's loop call Dequeue again.
EmptyLast(t) ==
  /\ Within(t, "emptyLast", IF myFirst[t] = Last THEN "empty" ELSE "first")
  /\ ForgetLocals(t)
  /\ UNCHANGED <<endVars, nodeVars, node, item, made, got>>

LoadFirst(t) ==
  /\ Within(t, "first", "last")
  /\ myFirst' = [myFirst EXCEPT ![t] = First]
  /\ UNCHANGED <<endVars, nodeVars, node, myLast, myNext, item, made, got>>

LoadLastToo(t) ==
  /\ Within(t, "last", "next")
  /\ myLast' = [myLast EXCEPT ![t] = Last]
  /\ UNCHANGED <<endVars, nodeVars, node, myFirst, myNext, item, made, got>>

\* First.Ptr.Next, of a node that may have been freed
LoadNextOfFirst(t) ==
  /\ Within(t, "next", "refirst")
  /\ myNext' = [myNext EXCEPT ![t] = NextOf(myFirst[t].ptr)]
  /\ UNCHANGED <<endVars, nodeVars, node, myFirst, myLast, item, made, got>>

\* Wrong variant of Refirst: the second load of List.First is left out.
RefirstNot(t) ==
  /\ pc[t] = "refirst"
  /\ IF myFirst[t].ptr = myLast[t].ptr
     THEN \/ myNext[t].ptr = Null /\ Within(t, "refirst", "empty") /\ ForgetLocals(t)
          \/ myNext[t].ptr # Null /\ Within(t, "refirst", "help")
             /\ UNCHANGED <<myFirst, myLast, myNext>>
     ELSE Within(t, "refirst", "read") /\ UNCHANGED <<myFirst, myLast, myNext>>
  /\ UNCHANGED <<endVars, nodeVars, node, item, made, got>>

\* if First = First2, and the three cases of the list
Refirst(t) ==
  /\ pc[t] = "refirst"
  /\ IF \/ First # myFirst[t]
        \/ myFirst[t].ptr # myLast[t].ptr /\ myNext[t].ptr = Null
     THEN Within(t, "refirst", "first") /\ ForgetLocals(t)
     ELSE IF myFirst[t].ptr # myLast[t].ptr
     THEN Within(t, "refirst", "read") /\ UNCHANGED <<myFirst, myLast, myNext>>
     ELSE \/ myNext[t].ptr = Null /\ Within(t, "refirst", "empty") /\ ForgetLocals(t)
          \/ myNext[t].ptr # Null /\ Within(t, "refirst", "help")
             /\ UNCHANGED <<myFirst, myLast, myNext>>
  /\ UNCHANGED <<endVars, nodeVars, node, item, made, got>>

\* Last lags behind First: it is moved on.
Help(t) ==
  /\ Within(t, "help", "first")
  /\ MoveLast(t, myNext[t].ptr)
  /\ ForgetLocals(t)
  /\ UNCHANGED <<First, nodeVars, node, item, made, got>>

\* Next.Ptr.Element, of a node that may have been freed
ReadElement(t) ==
  /\ Within(t, "read", "advance")
  /\ item' = [item EXCEPT ![t] = IF myNext[t].ptr \in alive THEN element[myNext[t].ptr] ELSE 0]
  /\ UNCHANGED <<endVars, nodeVars, node, myFirst, myLast, myNext, made, got>>

\* The exchange of List.First with Tagged_Node'(Next.Ptr, First.Counter + 1)
Advance(t) ==
  /\ pc[t] = "advance"
  /\ \/ /\ First = myFirst[t]
        /\ Within(t, "advance", "free")
        /\ First' = Tagged(myNext[t].ptr, First.count + 1)
        /\ UNCHANGED <<myFirst, myLast, myNext, item>>
     \/ /\ First # myFirst[t]
        /\ Within(t, "advance", "first")
        /\ ForgetLocals(t)
        /\ item' = [item EXCEPT ![t] = 0]
        /\ UNCHANGED First
  /\ UNCHANGED <<Last, nodeVars, node, made, got>>

\* Free(First.Ptr), and the driver counts the item
Free(t) ==
  /\ EndIteration(t, "free", "empty", "end")
  /\ alive' = alive \ {myFirst[t].ptr}
  /\ got' = got \cup {item[t]}
  /\ item' = [item EXCEPT ![t] = 0]
  /\ ForgetLocals(t)
  /\ UNCHANGED <<endVars, element, next, used, node, made>>

MSEndExec(t) ==
  /\ NextExec(t, "end", "arrive")
  /\ UNCHANGED <<endVars, nodeVars, localVars, made, got>>

-----------------------------------------------------------------------------

Enqueuing(t) ==
  NewNode(t) \/ LoadLast(t) \/ LoadNext(t) \/ Recheck(t) \/ Link(t) \/ HelpLink(t) \/ Swing(t)

Dequeuing(t) ==
  \/ EmptyFirst(t) \/ EmptyLast(t)
  \/ LoadFirst(t) \/ LoadLastToo(t) \/ LoadNextOfFirst(t) \/ Refirst(t) \/ Help(t)
  \/ ReadElement(t) \/ Advance(t) \/ Free(t)

MSStep(t) ==
  \/ MSArrive(t) \/ MSStartProducer(t) \/ MSStartConsumer(t)
  \/ Enqueuing(t) \/ Dequeuing(t) \/ MSEndExec(t)

MSNext == \E t \in Threads : MSStep(t)

MSSpec == MSInit /\ [][MSNext]_msVars

\* The operating system schedules every task again and again.
MSFairness == \A t \in Threads : WF_msVars(MSStep(t))

FairMSSpec == MSSpec /\ MSFairness

-----------------------------------------------------------------------------

TaggedPointers == [ptr : Heap \cup {Null}, count : -1 .. CountTag - 1]

MSTypeOK ==
  /\ DriverTypeOK(MSLabels)
  /\ First \in TaggedPointers /\ Last \in TaggedPointers
  /\ element \in [Heap -> Nat]
  /\ next \in [Heap -> TaggedPointers]
  /\ alive \subseteq used /\ used \subseteq Heap
  /\ node \in [Producers -> Heap \cup {Null}]
  /\ myFirst \in [Consumers -> TaggedPointers]
  /\ myLast \in [Threads -> TaggedPointers]
  /\ myNext \in [Threads -> TaggedPointers]
  /\ item \in [Consumers -> Nat]
  /\ made \in Nat /\ got \subseteq Nat

\* Threads do read nodes that others have freed, but never act on what they
\* read: the second load of List.Last or List.First sorts it out, and so does
\* the exchange of List.First for the item.  And no node is freed twice, no item
\* taken twice.
FreedUnused ==
  /\ \A t \in Threads :
       pc[t] \in {"link", "helpLink", "help", "read", "advance"} => myNext[t] # Garbage
  /\ \A t \in Consumers :
       pc[t] = "free" => item[t] \notin got \cup {0} /\ myFirst[t].ptr \in alive

\* Last lags at most one node behind the end, and First does not overtake it,
\* so that a node is not freed while Last points to it.
LastLags ==
  /\ Last.ptr \in alive
  /\ \E n \in {Last.ptr, next[Last.ptr].ptr} : n # Null /\ next[n].ptr = Null

\* The nodes from List.First on; a list that does not end is cut.
Follow(n) == IF n = Null THEN Null ELSE next[n].ptr
Reached[i \in 0 .. Cardinality(Heap)] ==
  IF i = 0 THEN First.ptr ELSE Follow(Reached[i - 1])

\* The items in the order of the list: those of the nodes after the first one.
NrItems == Cardinality({i \in 1 .. Cardinality(Heap) : Reached[i] # Null})
Contents == [i \in 1 .. NrItems |-> element[Reached[i]]]

\* An item that was enqueued is on the list until a consumer takes it off.
NoItemLost ==
  1 .. made = {Contents[i] : i \in DOMAIN Contents} \cup got
              \cup {element[node[t]] : t \in {u \in Producers : node[u] # Null}}
              \cup {item[t] : t \in {u \in Consumers : pc[u] = "free"}}
=============================================================================
