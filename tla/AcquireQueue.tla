----------------------------- MODULE AcquireQueue -----------------------------
(***************************************************************************)
(* The lock-free Ada queue with 16-byte pointers (AdaLockfree/CAS_16) on   *)
(* the memory of the language: its loads are acquire operations, which may *)
(* return values that are out of date, a node is filled and its element is *)
(* read by plain accesses, and its exchanges are weak ones.  MSQueue has   *)
(* the driver, and what becomes of nodes that are freed: here `new' always *)
(* returns an address that was never used, one for each item.              *)
(*                                                                         *)
(* The first part has the atomic operations that Ada programs call:        *)
(* Atomic_Intrinsic and gcc_atomics.c.  A memory order is handed on as its *)
(* position in an enumeration of Ada, and gcc_memorder turns it into one   *)
(* of C.  The size of the object selects the builtin; a call with any      *)
(* other size does nothing.                                                *)
(***************************************************************************)
EXTENDS Memory

CONSTANTS
  Producers, Consumers,  \* the threads
  Share,                 \* Share[t]: iterations of thread t
  DwAtomic               \* whether the build has USE_DWATOMIC

VARIABLES
  pc, left,                       \* next statement, iterations left
  node, myFirst, myLast, myNext,  \* locals of Enqueue and Dequeue
  item,                           \* Element
  got                             \* history: what each consumer has dequeued

localVars == <<node, myFirst, myLast, myNext, item>>
queueVars == <<memoryVars, pc, left, localVars, got>>

-----------------------------------------------------------------------------
(* Atomic_Intrinsic *)

\* type MemOrder_Type is (RLX, CON, ACQ, REL, AR, SC); Memory_Order is 'Pos
Memory_Order ==
  [RLX |-> 0, CON |-> 1, ACQ |-> 2, REL |-> 3, AR |-> 4, SC |-> 5]

\* Wrong variant of gcc_memorder: as if consume were not among the orders.
gcc_memorderShort(mo) ==
  CASE mo = 0 -> "relaxed"
    [] mo = 1 -> "acquire"
    [] mo = 2 -> "release"
    [] mo = 3 -> "acq_rel"
    [] OTHER -> "seq_cst"

gcc_memorder(mo) ==
  CASE mo = 0 -> "relaxed"
    [] mo = 1 -> "consume"
    [] mo = 2 -> "acquire"
    [] mo = 3 -> "release"
    [] mo = 4 -> "acq_rel"
    [] mo = 5 -> "seq_cst"

\* __ATOMIC_RELAXED to __ATOMIC_SEQ_CST, which the compiler numbers like Ada.
Builtin == <<"relaxed", "consume", "acquire", "release", "acq_rel", "seq_cst">>

Supported(size) == size \in {1, 2, 4, 8} \/ (size = 16 /\ DwAtomic)

\* The object of this size at l is read, and found to have its n-th value.
gcc_atomic_load(t, l, n, mo, size) ==
  IF Supported(size) THEN Load(t, l, n, gcc_memorder(mo)) ELSE UNCHANGED memoryVars

gcc_atomic_store(t, l, value, mo, size) ==
  IF Supported(size) THEN Store(t, l, value, gcc_memorder(mo)) ELSE UNCHANGED memoryVars

\* gcc_atomic_compare_exchange, which passes the orders on as they are,
\* succeeds ...
Exchanged(t, l, expected, desired, size, succ) ==
  /\ Supported(size)
  /\ Last(l) = expected
  /\ Exchange(t, l, desired, Builtin[succ + 1])

\* ... or it fails: because a value other than the one expected is read; a weak
\* exchange also without a reason.
NotExchanged(t, l, expected, size, weak, fail) ==
  IF Supported(size)
  THEN \E n \in Visible(t, l) :
         /\ weak \/ written[l][n].value # expected
         /\ Load(t, l, n, Builtin[fail + 1])
  ELSE UNCHANGED memoryVars

-----------------------------------------------------------------------------
(* The queue *)

Threads == Producers \cup Consumers

\* Addresses of nodes: the first node, and one for each item of each producer.
Initial == <<-1, 1>>
Heap == {Initial} \cup UNION {{t} \X (1 .. Share[t]) : t \in Producers}

First == <<"First", 0>>
List_Last == <<"Last", 0>>
Next(n) == <<"next", n>>
Element(n) == <<"element", n>>

Null == <<-1, 0>>
Tagged(ptr, count) == [ptr |-> ptr, count |-> count]
Nowhere == Tagged(Null, 0)

\* What is in memory that was not written yet: any address, for example this one.
Garbage == Tagged(Initial, -1)

\* Items are numbered; the element of a node not filled yet is none of them.
NoItem == Null

\* Initialize
Init ==
  /\ pc = [t \in Threads |-> IF Share[t] = 0 THEN "done" ELSE IF t \in Producers THEN "new" ELSE "first"]
  /\ left = Share
  /\ MemoryInit(Threads,
       [l \in {First, List_Last} \cup {Next(n) : n \in Heap} \cup {Element(n) : n \in Heap} |->
          CASE l \in {First, List_Last} -> Tagged(Initial, 0)
            [] l[1] = "next" -> IF l[2] = Initial THEN Nowhere ELSE Garbage
            [] l[1] = "element" -> NoItem])
  /\ node = [t \in Threads |-> Null]
  /\ myFirst = [t \in Threads |-> Nowhere]
  /\ myLast = [t \in Threads |-> Nowhere]
  /\ myNext = [t \in Threads |-> Nowhere]
  /\ item = [t \in Threads |-> NoItem]
  /\ got = [t \in Consumers |-> <<>>]

Goto(t, here, there) == pc[t] = here /\ pc' = [pc EXCEPT ![t] = there]

EndIteration(t, here, again) ==
  /\ Goto(t, here, IF left[t] > 1 THEN again ELSE "done")
  /\ left' = [left EXCEPT ![t] = @ - 1]

\* Atomic_Load(l'Address, local'Address, Memory_Order(ACQ), 16)
LoadInto(t, l, local, here, there) ==
  \E n \in Visible(t, l) :
    /\ gcc_atomic_load(t, l, n, Memory_Order.ACQ, 16)
    /\ local' = [local EXCEPT ![t] = written[l][n].value]
    /\ Goto(t, here, there)

\* Atomic_Compare_Exchange with the defaults of Weak, Succ and Fail
Succeeds(t, l, expected, desired) ==
  Exchanged(t, l, expected, desired, 16, Memory_Order.SC)
Fails(t, l, expected) ==
  NotExchanged(t, l, expected, 16, TRUE, Memory_Order.SC)

Forget(t) ==
  /\ node' = [node EXCEPT ![t] = Null]
  /\ myFirst' = [myFirst EXCEPT ![t] = Nowhere]
  /\ myLast' = [myLast EXCEPT ![t] = Nowhere]
  /\ myNext' = [myNext EXCEPT ![t] = Nowhere]
  /\ item' = [item EXCEPT ![t] = NoItem]

-----------------------------------------------------------------------------
(* Enqueue *)

\* Node := new Node_Type'(Element => New_Item, Next => (null, 0)): two stores
NewNode(t) ==
  /\ Goto(t, "new", "fill")
  /\ node' = [node EXCEPT ![t] = <<t, left[t]>>]
  /\ Store(t, Element(<<t, left[t]>>), <<t, left[t]>>, "relaxed")
  /\ UNCHANGED <<left, myFirst, myLast, myNext, item, got>>

FillNode(t) ==
  /\ Goto(t, "fill", "loadLast")
  /\ Store(t, Next(node[t]), Nowhere, "relaxed")
  /\ UNCHANGED <<left, localVars, got>>

LoadLast(t) ==
  /\ LoadInto(t, List_Last, myLast, "loadLast", "loadNext")
  /\ UNCHANGED <<left, node, myFirst, myNext, item, got>>

LoadNext(t) ==
  /\ pc[t] = "loadNext"
  /\ LoadInto(t, Next(myLast[t].ptr), myNext, "loadNext", "recheck")
  /\ UNCHANGED <<left, node, myFirst, myLast, item, got>>

\* The second load of List.Last, and if Last = Last2
Recheck(t) ==
  \E n \in Visible(t, List_Last) :
    /\ gcc_atomic_load(t, List_Last, n, Memory_Order.ACQ, 16)
    /\ Goto(t, "recheck", IF written[List_Last][n].value # myLast[t] THEN "loadLast"
                          ELSE IF myNext[t].ptr = Null THEN "link" ELSE "helpLink")
    /\ UNCHANGED <<left, localVars, got>>

Link(t) ==
  /\ pc[t] = "link"
  /\ LET l == Next(myLast[t].ptr)
     IN  \/ Succeeds(t, l, myNext[t], Tagged(node[t], myNext[t].count + 1)) /\ Goto(t, "link", "swing")
         \/ Fails(t, l, myNext[t]) /\ Goto(t, "link", "loadLast")
  /\ UNCHANGED <<left, localVars, got>>

\* The exchange of List.Last, whatever its result
MoveLast(t, ptr) ==
  \/ Succeeds(t, List_Last, myLast[t], Tagged(ptr, myLast[t].count + 1))
  \/ Fails(t, List_Last, myLast[t])

HelpLink(t) ==
  /\ Goto(t, "helpLink", "loadLast")
  /\ MoveLast(t, myNext[t].ptr)
  /\ UNCHANGED <<left, localVars, got>>

Swing(t) ==
  /\ EndIteration(t, "swing", "new")
  /\ MoveLast(t, node[t])
  /\ Forget(t)
  /\ UNCHANGED got

-----------------------------------------------------------------------------
(* Dequeue; a driver that gets False calls it again *)

LoadFirst(t) ==
  /\ LoadInto(t, First, myFirst, "first", "last")
  /\ UNCHANGED <<left, node, myLast, myNext, item, got>>

LoadLastToo(t) ==
  /\ LoadInto(t, List_Last, myLast, "last", "next")
  /\ UNCHANGED <<left, node, myFirst, myNext, item, got>>

LoadNextOfFirst(t) ==
  /\ pc[t] = "next"
  /\ LoadInto(t, Next(myFirst[t].ptr), myNext, "next", "refirst")
  /\ UNCHANGED <<left, node, myFirst, myLast, item, got>>

\* The second load of List.First, if First = First2, and the three cases
Refirst(t) ==
  \E n \in Visible(t, First) :
    /\ gcc_atomic_load(t, First, n, Memory_Order.ACQ, 16)
    /\ Goto(t, "refirst",
            IF written[First][n].value # myFirst[t] \/ myNext[t].ptr = Null THEN "first"
            ELSE IF myFirst[t].ptr = myLast[t].ptr THEN "help" ELSE "read")
    /\ UNCHANGED <<left, localVars, got>>

Help(t) ==
  /\ Goto(t, "help", "first")
  /\ MoveLast(t, myNext[t].ptr)
  /\ UNCHANGED <<left, localVars, got>>

\* Element := Next.Ptr.Element
Read(t) ==
  /\ pc[t] = "read"
  /\ \E n \in Visible(t, Element(myNext[t].ptr)) :
       /\ Load(t, Element(myNext[t].ptr), n, "relaxed")
       /\ item' = [item EXCEPT ![t] = written[Element(myNext[t].ptr)][n].value]
  /\ Goto(t, "read", "advance")
  /\ UNCHANGED <<left, node, myFirst, myLast, myNext, got>>

Advance(t) ==
  \/ /\ Succeeds(t, First, myFirst[t], Tagged(myNext[t].ptr, myFirst[t].count + 1))
     /\ EndIteration(t, "advance", "first")
     /\ got' = [got EXCEPT ![t] = Append(@, item[t])]
     /\ Forget(t)
  \/ /\ Fails(t, First, myFirst[t])
     /\ Goto(t, "advance", "first")
     /\ UNCHANGED <<left, localVars, got>>

-----------------------------------------------------------------------------

Step(t) ==
  \/ NewNode(t) \/ FillNode(t) \/ LoadLast(t) \/ LoadNext(t) \/ Recheck(t)
  \/ Link(t) \/ HelpLink(t) \/ Swing(t)
  \/ LoadFirst(t) \/ LoadLastToo(t) \/ LoadNextOfFirst(t) \/ Refirst(t) \/ Help(t) \/ Read(t)
  \/ Advance(t)

AcquireNext == \E t \in Threads : Step(t)

AcquireSpec == Init /\ [][AcquireNext]_queueVars

-----------------------------------------------------------------------------

TypeOK ==
  /\ left \in [Threads -> Nat]
  /\ node \in [Threads -> Heap \cup {Null}]
  /\ \A t \in Threads : {myFirst[t].ptr, myLast[t].ptr, myNext[t].ptr} \subseteq Heap \cup {Null}

\* What a consumer takes out was put in, by a producer that had filled the node
\* before it became part of the list; nothing is taken out twice, and what one
\* producer put in comes out in this order at every consumer.
ItemsAsPut ==
  \A c, d \in Consumers : \A i \in DOMAIN got[c], j \in DOMAIN got[d] :
    /\ got[c][i] # NoItem
    /\ got[c][i] = got[d][j] => c = d /\ i = j
    /\ c = d /\ i < j /\ got[c][i][1] = got[c][j][1] => got[c][i][2] > got[c][j][2]
=============================================================================
