---------------------------- MODULE COstackProofs ----------------------------
(***************************************************************************)
(* The concurrent stack for every number of pairs, iterations, addresses   *)
(* and hazard pointers, provided that each consumer's hazard pointer is    *)
(* among those that are scanned (AllScanned): no node is used after it was *)
(* freed, neither nodes nor items are lost, and the nodes from head on are *)
(* a stack.                                                                *)
(*                                                                         *)
(* What keeps a protected node is not that its hazard pointer is set, but  *)
(* that it was set while the node was still on the stack: whoever retires  *)
(* the node does so later, and scans later still.  Protected says so of a  *)
(* scan half done: it has not yet come to the slot that holds the node.    *)
(***************************************************************************)
EXTENDS COstack, FiniteSetTheorems, SequenceTheorems, WellFoundedInduction, TLAPS

\* The driver is told a number of threads that leaves the hazard pointers of
\* all consumers at or after start_cid (the finding about thread pairs other
\* than MAX_NR_THREADS / 2 is what happens otherwise).
AllScanned == StartCid <= NrPairs

ProducerLabels == {"arrive", "wait", "push", "link", "end", "done"}
ConsumerLabels ==
  {"arrive", "wait", "load", "protect", "reload", "next", "cas", "clear", "retire",
   "count", "check", "take", "scan", "keep", "delete", "uncount", "end", "done"}

\* Each role has its statements, and run stays below its bound until the
\* thread is done.
Roles ==
  /\ \A t \in Producers : pc[t] \in ProducerLabels
  /\ \A t \in Consumers : pc[t] \in ConsumerLabels
  /\ \A t \in Threads : pc[t] # "done" => run[t] <= LastRun

\* What is in the local variables, statement by statement.
Locals ==
  /\ \A t \in Producers : node[t] # Null <=> pc[t] = "link"
  /\ \A t \in Consumers :
       /\ mine[t] # <<>> <=> pc[t] \in {"scan", "keep", "delete", "uncount"}
       /\ pc[t] \in {"next", "cas", "retire"} => old[t] # Null
       /\ pc[t] \in {"reload", "next", "cas"} => hazard[t] = old[t]
       /\ pc[t] = "scan" => k[t] < MaxHazardPointers

\* The list s of n nodes, none of them twice, is the one from first on.
IsList(s, n, first, link) ==
  /\ n \in Nat
  /\ s \in [1 .. n -> Heap]
  /\ IsInjective(s)
  /\ IsListFrom(s, first, link)

StackIsList == IsList(OnStack, Height, head, next)

\* Every allocated node is in one place.
Apart == \A p, q \in Places : p # q => NodesAt[p] \cap NodesAt[q] = {}

Placed ==
  /\ UNION {NodesAt[p] : p \in Places} = alive
  /\ Apart
  /\ IsInjective(reclaim)
  /\ \A t \in Consumers : IsInjective(mine[t])

\* The node that a consumer has protected and compared with head since: it has
\* not been allocated again, its link stays, and no scan has missed it.
Protected ==
  \A c \in Consumers :
    pc[c] \in {"next", "cas"} =>
      /\ old[c] \in alive \ Fresh
      /\ pc[c] = "cas" => nx[c] = next[old[c]]
      /\ \A d \in Consumers :
           pc[d] \in {"scan", "delete"} /\ Head(mine[d]) = old[c]
             => pc[d] = "scan" /\ k[d] <= c

IInv ==
  /\ TypeOK /\ Roles /\ Locals
  /\ StackIsList /\ Placed /\ ItemsOnce /\ CountsRetired
  /\ Protected

-----------------------------------------------------------------------------
(* Sets in places, and sequences *)

\* X moves from place p to place q.
LEMMA Moved ==
  ASSUME NEW P, NEW at, NEW at2, NEW p \in P, NEW q \in P, p # q,
         NEW X, X \subseteq at[p],
         \A r, s \in P : r # s => at[r] \cap at[s] = {},
         at2[p] = at[p] \ X, at2[q] = at[q] \cup X,
         \A r \in P : r # p /\ r # q => at2[r] = at[r]
  PROVE  /\ \A r, s \in P : r # s => at2[r] \cap at2[s] = {}
         /\ UNION {at2[r] : r \in P} = UNION {at[r] : r \in P}
<1>1. \A r \in P : \A x : x \in at2[r] <=>
         \/ r # p /\ r # q /\ x \in at[r]
         \/ r = p /\ x \in at[p] /\ x \notin X
         \/ r = q /\ (x \in at[q] \/ x \in X)
  OBVIOUS
<1>2. ASSUME NEW r \in P, NEW s \in P, r # s, NEW x, x \in at2[r], x \in at2[s]
      PROVE  FALSE
  BY <1>1, <1>2
<1>3. \A x : (\E r \in P : x \in at2[r]) <=> (\E r \in P : x \in at[r])
  BY <1>1
<1>4. QED
  BY <1>2, <1>3

\* A new x appears in place q.
LEMMA Added ==
  ASSUME NEW P, NEW at, NEW at2, NEW q \in P,
         NEW x, x \notin UNION {at[r] : r \in P},
         \A r, s \in P : r # s => at[r] \cap at[s] = {},
         at2[q] = at[q] \cup {x},
         \A r \in P : r # q => at2[r] = at[r]
  PROVE  /\ \A r, s \in P : r # s => at2[r] \cap at2[s] = {}
         /\ UNION {at2[r] : r \in P} = (UNION {at[r] : r \in P}) \cup {x}
<1>1. \A r \in P : x \notin at[r]
  OBVIOUS
<1>2. \A r \in P : \A y : y \in at2[r] <=> y \in at[r] \/ (r = q /\ y = x)
  OBVIOUS
<1>3. \A y : (\E r \in P : y \in at2[r]) <=> ((\E r \in P : y \in at[r]) \/ y = x)
  BY <1>2
<1>4. QED
  BY <1>1, <1>2, <1>3

\* x disappears from place p.
LEMMA Dropped ==
  ASSUME NEW P, NEW at, NEW at2, NEW p \in P, NEW x \in at[p],
         \A r, s \in P : r # s => at[r] \cap at[s] = {},
         at2[p] = at[p] \ {x},
         \A r \in P : r # p => at2[r] = at[r]
  PROVE  /\ \A r, s \in P : r # s => at2[r] \cap at2[s] = {}
         /\ UNION {at2[r] : r \in P} = (UNION {at[r] : r \in P}) \ {x}
<1>1. \A r \in P : r # p => x \notin at[r]
  OBVIOUS
<1>2. \A r \in P : \A y : y \in at2[r] <=> y \in at[r] /\ y # x
  BY <1>1
<1>3. \A y : (\E r \in P : y \in at2[r]) <=> (\E r \in P : y \in at[r]) /\ y # x
  BY <1>2
<1>4. QED
  BY <1>2, <1>3

\* add_to_reclaim_list puts a node in front.
LEMMA InFront ==
  ASSUME NEW S, NEW n \in S, NEW s \in Seq(S)
  PROVE  /\ <<n>> \o s \in Seq(S)
         /\ ToSet(<<n>> \o s) = ToSet(s) \cup {n}
         /\ IsInjective(s) /\ n \notin ToSet(s) => IsInjective(<<n>> \o s)
<1> DEFINE c == <<n>> \o s
<1>1. <<n>> \in Seq(S) /\ Len(<<n>>) = 1 /\ <<n>>[1] = n
  OBVIOUS
<1>2. /\ c \in Seq(S) /\ Len(c) = Len(s) + 1
      /\ \A i \in 1 .. Len(s) + 1 : c[i] = IF i = 1 THEN n ELSE s[i - 1]
  BY <1>1, ConcatProperties
<1>3. /\ Len(s) \in Nat /\ DOMAIN s = 1 .. Len(s) /\ DOMAIN c = 1 .. Len(s) + 1
  BY <1>2, LenProperties
<1> HIDE DEF c
<1>4. ToSet(c) = ToSet(s) \cup {n}
  <2>1. \A x \in ToSet(c) : x \in ToSet(s) \/ x = n
    BY <1>2, <1>3 DEF ToSet
  <2>2. n \in ToSet(c)
    <3>1. 1 \in DOMAIN c /\ c[1] = n
      BY <1>2, <1>3
    <3>2. QED
      BY <3>1 DEF ToSet
  <2>3. ASSUME NEW i \in DOMAIN s PROVE s[i] \in ToSet(c)
    <3>1. i + 1 \in DOMAIN c /\ c[i + 1] = s[i]
      BY <1>2, <1>3
    <3>2. QED
      BY <3>1 DEF ToSet
  <2>4. QED
    BY <2>1, <2>2, <2>3 DEF ToSet
<1>5. ASSUME IsInjective(s), n \notin ToSet(s) PROVE IsInjective(c)
  <2>1. \A i \in DOMAIN s : s[i] # n
    BY <1>5 DEF ToSet
  <2>2. ASSUME NEW i \in DOMAIN c, NEW j \in DOMAIN c, c[i] = c[j] PROVE i = j
    <3>1. /\ i = 1 \/ (i - 1 \in DOMAIN s /\ c[i] = s[i - 1])
          /\ j = 1 \/ (j - 1 \in DOMAIN s /\ c[j] = s[j - 1])
      BY <1>2, <1>3
    <3>2. c[1] = n /\ i \in Int /\ j \in Int
      BY <1>2, <1>3
    <3>3. QED
      BY <1>5, <2>1, <2>2, <3>1, <3>2 DEF IsInjective
  <2>3. QED
    BY <2>2 DEF IsInjective
<1>6. QED
  BY <1>2, <1>4, <1>5 DEF c

\* The loop over the nodes taken goes from a node to the next.
LEMMA Rest ==
  ASSUME NEW S, NEW s \in Seq(S), s # <<>>
  PROVE  /\ Head(s) \in S /\ Tail(s) \in Seq(S)
         /\ Head(s) \in ToSet(s)
         /\ IsInjective(s) => IsInjective(Tail(s)) /\ ToSet(Tail(s)) = ToSet(s) \ {Head(s)}
<1>1. /\ Head(s) \in S /\ Tail(s) \in Seq(S) /\ Len(Tail(s)) = Len(s) - 1
      /\ \A i \in 1 .. Len(Tail(s)) : Tail(s)[i] = s[i + 1]
  BY HeadTailProperties
<1>2. Len(s) \in Nat /\ Len(s) # 0 /\ DOMAIN s = 1 .. Len(s)
  BY LenProperties, EmptySeq
<1>3. DOMAIN Tail(s) = 1 .. Len(s) - 1
  BY <1>1, LenProperties
<1>4. Head(s) = s[1]
  OBVIOUS
<1> DEFINE u == Tail(s)
           h == Head(s)
<1>5. /\ \A i \in 1 .. Len(s) - 1 : u[i] = s[i + 1]
      /\ DOMAIN u = 1 .. Len(s) - 1 /\ h = s[1]
  BY <1>1, <1>3, <1>4
<1> HIDE DEF u, h
<1>6. h \in ToSet(s)
  BY <1>2, <1>5 DEF ToSet
<1>7. ASSUME IsInjective(s) PROVE IsInjective(u) /\ ToSet(u) = ToSet(s) \ {h}
  <2>1. IsInjective(u)
    <3>1. ASSUME NEW i \in DOMAIN u, NEW j \in DOMAIN u, u[i] = u[j] PROVE i = j
      <4>1. i + 1 \in DOMAIN s /\ j + 1 \in DOMAIN s /\ s[i + 1] = s[j + 1]
        BY <1>2, <1>5, <3>1
      <4>2. i + 1 = j + 1 /\ i \in Int /\ j \in Int
        BY <1>5, <1>7, <4>1 DEF IsInjective
      <4>3. QED
        BY <4>2
    <3>2. QED
      BY <3>1 DEF IsInjective
  <2>2. ASSUME NEW i \in DOMAIN u PROVE u[i] \in ToSet(s) /\ u[i] # h
    <3>1. i + 1 \in DOMAIN s /\ 1 \in DOMAIN s /\ i + 1 # 1 /\ u[i] = s[i + 1]
      BY <1>2, <1>5
    <3>2. QED
      BY <1>5, <1>7, <3>1 DEF IsInjective, ToSet
  <2>3. ASSUME NEW i \in DOMAIN s, s[i] # h PROVE s[i] \in ToSet(u)
    <3>1. i # 1 /\ i - 1 \in DOMAIN u /\ u[i - 1] = s[i]
      BY <1>2, <1>5, <2>3
    <3>2. QED
      BY <3>1 DEF ToSet
  <2>4. QED
    BY <2>1, <2>2, <2>3 DEF ToSet
<1>8. QED
  BY <1>1, <1>6, <1>7 DEF u, h

-----------------------------------------------------------------------------
(* The list from head on *)

Far == Cardinality(Heap)

\* Induction, for a set of numbers.
LEMMA Induction ==
  ASSUME NEW S, 0 \in S, \A n \in Nat : n \in S => n + 1 \in S
  PROVE  Nat \subseteq S
<1> DEFINE R == OpToRel(<, Nat)
           T == Nat \ S
<1>1. IsWellFoundedOn(R, Nat)
  BY NatLessThanWellFounded
<1>2. \A x, y \in Nat : x < y => <<x, y>> \in R
  BY DEF OpToRel
<1> HIDE DEF R
<1>3. SUFFICES ASSUME T # {} PROVE FALSE
  OBVIOUS
<1>4. PICK x \in T : \A y \in T : ~(<<y, x>> \in R)
  BY <1>1, <1>3, WFMin
<1>5. x \in Nat /\ x # 0
  BY <1>4
<1>6. x - 1 \in Nat /\ x - 1 \notin S
  BY <1>4, <1>5
<1>7. <<x - 1, x>> \in R
  BY <1>2, <1>5, <1>6
<1> QED
  BY <1>4, <1>6, <1>7

\* Addresses are finitely many, and nullptr is none of them.
LEMMA HeapFacts == Far \in Nat /\ Null \notin Heap
  BY FS_CardinalityType, HeapAssumption DEF Far, Null

\* The function that follows the links exists: by induction there is one
\* that makes n steps.
LEMMA ReachedExists ==
  ASSUME head \in Heap \cup {Null}, next \in [Heap -> Heap \cup {Null}]
  PROVE  /\ Reached[0] = head
         /\ \A i \in Nat : i < Far => Reached[i + 1] = Follow(Reached[i])
<1> DEFINE StepOf(f, i) == IF i = 0 THEN head ELSE Follow(f[i - 1])
           S == {n \in Nat : \E f \in [0 .. n -> Heap \cup {Null}] :
                                \A i \in 0 .. n : f[i] = StepOf(f, i)}
<1>1. \A n \in Heap \cup {Null} : Follow(n) \in Heap \cup {Null}
  BY HeapFacts DEF Follow
<1>2. 0 \in S
  <2>1. [i \in 0 .. 0 |-> head] \in [0 .. 0 -> Heap \cup {Null}]
    OBVIOUS
  <2>2. \A i \in 0 .. 0 : [j \in 0 .. 0 |-> head][i] = StepOf([j \in 0 .. 0 |-> head], i)
    OBVIOUS
  <2> QED
    BY <2>1, <2>2
<1>3. ASSUME NEW n \in Nat, n \in S PROVE n + 1 \in S
  <2>1. PICK f \in [0 .. n -> Heap \cup {Null}] : \A i \in 0 .. n : f[i] = StepOf(f, i)
    BY <1>3
  <2> DEFINE g == [i \in 0 .. n + 1 |-> IF i = n + 1 THEN Follow(f[n]) ELSE f[i]]
  <2>2. g \in [0 .. n + 1 -> Heap \cup {Null}]
    BY <1>1
  <2>3. ASSUME NEW i \in 0 .. n + 1 PROVE g[i] = StepOf(g, i)
    <3>1. CASE i = 0
      BY <2>1, <3>1
    <3>2. CASE i = n + 1
      <4>1. g[i] = Follow(f[n]) /\ g[i - 1] = f[n]
        BY <3>2
      <4> QED
        BY <4>1, <3>2
    <3>3. CASE i \in 1 .. n
      <4>1. g[i] = f[i] /\ g[i - 1] = f[i - 1]
        BY <3>3
      <4>2. f[i] = StepOf(f, i)
        BY <2>1, <3>3
      <4> QED
        BY <4>1, <4>2, <3>3
    <3> QED
      BY <3>1, <3>2, <3>3
  <2>4. \A i \in 0 .. n + 1 : g[i] = StepOf(g, i)
    BY <2>3
  <2> HIDE DEF g, Step
  <2> QED
    BY <2>2, <2>4
<1>4. Far \in S
  <2> HIDE DEF S
  <2> QED
    BY <1>2, <1>3, Induction, HeapFacts
<1>5. PICK f \in [0 .. Far -> Heap \cup {Null}] : \A i \in 0 .. Far : f[i] = StepOf(f, i)
  BY <1>4
<1>6. f = [i \in 0 .. Far |-> IF i = 0 THEN head ELSE Follow(f[i - 1])]
  BY <1>5
<1>7. \A j \in 0 .. Far : Reached[j] = IF j = 0 THEN head ELSE Follow(Reached[j - 1])
  <2> DEFINE P(F) == F = [i \in 0 .. Far |-> IF i = 0 THEN head ELSE Follow(F[i - 1])]
  <2>1. P(f)
    BY <1>6
  <2>2. Reached = CHOOSE F : P(F)
    BY DEF Reached, Far
  <2> HIDE DEF P
  <2>3. P(Reached)
    BY <2>1, <2>2
  <2>4. \A F : P(F) => \A j \in 0 .. Far : F[j] = IF j = 0 THEN head ELSE Follow(F[j - 1])
    BY DEF P
  <2> QED
    BY <2>3, <2>4
<1>8. ASSUME NEW i \in Nat, i < Far PROVE Reached[i + 1] = Follow(Reached[i])
  <2>1. i + 1 \in 0 .. Far /\ i + 1 # 0 /\ i + 1 - 1 = i
    BY <1>8, HeapFacts
  <2> QED
    BY <1>7, <2>1
<1> QED
  BY <1>7, <1>8, HeapFacts

\* There is one list of nodes that begins with head and follows the links, and
\* OnStack is that one.
OneList ==
  \A s, m : head \in Heap \cup {Null} /\ next \in [Heap -> Heap \cup {Null}]
            /\ IsList(s, m, head, next)
              => Height = m /\ OnStack = s

\* OnStack is the list from head on.
LEMMA OnStackIsIt == OneList
<1> SUFFICES ASSUME head \in Heap \cup {Null}, next \in [Heap -> Heap \cup {Null}],
                    NEW s, NEW m, IsList(s, m, head, next)
             PROVE  Height = m /\ OnStack = s
  BY DEF OneList
<1> USE DEF IsList
<1>1. m <= Far
  <2>1. s \in Injection(1 .. m, Heap)
    BY DEF Injection, IsInjective
  <2>2. Cardinality(1 .. m) <= Far
    BY <2>1, FS_Injection, HeapAssumption DEF Far
  <2> QED
    BY <2>2, FS_Interval
<1> DEFINE At(i) == IF i < m THEN s[i + 1] ELSE Null
           S == {n \in Nat : n <= Far => Reached[n] = At(n)}
<1>2. 0 \in S
  <2>1. Reached[0] = head
    BY ReachedExists
  <2>2. head = IF 1 <= m THEN s[1] ELSE Null
    BY DEF IsListFrom
  <2> QED
    BY <2>1, <2>2
<1>3. ASSUME NEW n \in Nat, n \in S PROVE n + 1 \in S
  <2> SUFFICES ASSUME n + 1 <= Far PROVE Reached[n + 1] = At(n + 1)
    OBVIOUS
  <2>1. n < Far
    BY HeapFacts
  <2>2. Reached[n + 1] = Follow(Reached[n])
    BY <2>1, ReachedExists
  <2>3. Reached[n] = At(n)
    BY <1>3, HeapFacts
  <2>4. CASE n < m
    <3>1. n + 1 \in 1 .. m /\ s[n + 1] \in Heap
      BY <2>4
    <3>2. next[s[n + 1]] = IF n + 2 <= m THEN s[n + 2] ELSE Null
      BY <3>1 DEF IsListFrom
    <3>3. Follow(s[n + 1]) = next[s[n + 1]]
      BY <3>1, HeapFacts DEF Follow
    <3> QED
      BY <2>2, <2>3, <2>4, <3>2, <3>3
  <2>5. CASE ~(n < m)
    BY <2>2, <2>3, <2>5 DEF Follow
  <2> QED
    BY <2>4, <2>5
<1>4. \A i \in 0 .. Far : Reached[i] = At(i)
  <2> HIDE DEF S
  <2>1. Nat \subseteq S
    BY <1>2, <1>3, Induction
  <2> QED
    BY <2>1, HeapFacts DEF S
<1>5. {i \in 0 .. Far : Reached[i] # Null} = 0 .. m - 1
  BY <1>1, <1>4, HeapFacts
<1>6. Height = m
  <2>1. Cardinality(0 .. m - 1) = m
    BY FS_Interval
  <2> QED
    BY <1>5, <2>1 DEF Height, Far
<1>7. \A i \in 1 .. m : Reached[i - 1] = s[i]
  BY <1>1, <1>4, HeapFacts
<1> QED
  BY <1>6, <1>7 DEF OnStack

\* So it is after every step.
LEMMA OnStackIsItNext == OneList'
  BY OnStackIsIt, PTL

\* A node is linked in front.
LEMMA ListLonger ==
  ASSUME NEW s, NEW m, NEW first, NEW link, IsList(s, m, first, link),
         NEW n \in Heap, n \notin ToSet(s), link[n] = first
  PROVE  LET s2 == [i \in 1 .. m + 1 |-> IF i = 1 THEN n ELSE s[i - 1]]
         IN  IsList(s2, m + 1, n, link) /\ ToSet(s2) = ToSet(s) \cup {n}
<1> DEFINE s2 == [i \in 1 .. m + 1 |-> IF i = 1 THEN n ELSE s[i - 1]]
<1>1. /\ m \in Nat /\ s \in [1 .. m -> Heap]
      /\ \A i, j \in 1 .. m : s[i] = s[j] => i = j
      /\ first = IF 1 <= m THEN s[1] ELSE Null
      /\ \A i \in 1 .. m : link[s[i]] = IF i + 1 <= m THEN s[i + 1] ELSE Null
  BY DEF IsList, IsInjective, IsListFrom
<1>2. s2[1] = n /\ \A i \in 1 .. m : i + 1 \in 1 .. m + 1 /\ s2[i + 1] = s[i]
  BY <1>1
<1>3. \A i \in 1 .. m + 1 : i = 1 \/ \E j \in 1 .. m : i = j + 1
  <2>1. \A i \in 1 .. m + 1 : i = 1 \/ (i - 1 \in 1 .. m /\ i = (i - 1) + 1)
    BY <1>1
  <2>2. QED
    BY <2>1
<1>4. s2 \in [1 .. m + 1 -> Heap] /\ DOMAIN s2 = 1 .. m + 1
  BY <1>1
<1> HIDE DEF s2
<1>5. \A i \in 1 .. m : s[i] # n
  BY <1>1 DEF ToSet
<1>6. IsInjective(s2)
  <2>1. ASSUME NEW i \in 1 .. m + 1, NEW j \in 1 .. m + 1, s2[i] = s2[j] PROVE i = j
    <3>1. (i = 1 \/ \E a \in 1 .. m : i = a + 1) /\ (j = 1 \/ \E a \in 1 .. m : j = a + 1)
      BY <1>3
    <3>2. QED
      BY <1>1, <1>2, <1>5, <2>1, <3>1, SMTT(30)
  <2>2. QED
    BY <1>4, <2>1 DEF IsInjective
<1>7. IsListFrom(s2, n, link)
  <2>1. n = IF 1 \in DOMAIN s2 THEN s2[1] ELSE Null
    BY <1>1, <1>2, <1>4
  <2>2. ASSUME NEW i \in DOMAIN s2
        PROVE  link[s2[i]] = IF i + 1 \in DOMAIN s2 THEN s2[i + 1] ELSE Null
    <3>1. CASE i = 1
      <4>1. 1 + 1 \in DOMAIN s2 <=> 1 <= m
        BY <1>1, <1>4
      <4>2. 1 <= m => s2[1 + 1] = s[1]
        BY <1>1, <1>2
      <4>3. QED
        BY <1>1, <1>2, <3>1, <4>1, <4>2
    <3>2. CASE i # 1
      <4>1. PICK j \in 1 .. m : i = j + 1
        BY <1>3, <1>4, <3>2
      <4>2. i + 1 \in DOMAIN s2 <=> j + 1 <= m
        BY <1>1, <1>4, <4>1
      <4>3. j + 1 <= m => s2[i + 1] = s[j + 1]
        BY <1>1, <1>2, <4>1
      <4>4. s2[i] = s[j] /\ link[s[j]] = IF j + 1 <= m THEN s[j + 1] ELSE Null
        BY <1>1, <1>2, <4>1
      <4>5. QED
        BY <4>2, <4>3, <4>4
    <3>3. QED
      BY <3>1, <3>2
  <2>3. QED
    BY <2>1, <2>2 DEF IsListFrom
<1>8. ToSet(s2) = ToSet(s) \cup {n}
  <2>1. \A x : (\E i \in 1 .. m + 1 : x = s2[i]) <=> x = n \/ (\E i \in 1 .. m : x = s[i])
    BY <1>1, <1>2, <1>3
  <2>2. \A x : x \in ToSet(s2) <=> \E i \in 1 .. m + 1 : x = s2[i]
    BY <1>4 DEF ToSet
  <2>3. \A x : x \in ToSet(s) <=> \E i \in 1 .. m : x = s[i]
    BY <1>1 DEF ToSet
  <2>4. QED
    BY <2>1, <2>2, <2>3
<1>9. IsList(s2, m + 1, n, link)
  BY <1>1, <1>4, <1>6, <1>7 DEF IsList
<1>10. QED
  BY <1>8, <1>9 DEF s2

\* The first node is unlinked.
LEMMA ListShorter ==
  ASSUME NEW s, NEW m, NEW first, NEW link, IsList(s, m, first, link), first # Null
  PROVE  LET s2 == [i \in 1 .. m - 1 |-> s[i + 1]]
         IN  /\ IsList(s2, m - 1, link[first], link)
             /\ ToSet(s2) = ToSet(s) \ {first}
             /\ m > 0 /\ s[1] = first /\ first \in ToSet(s)
<1> DEFINE s2 == [i \in 1 .. m - 1 |-> s[i + 1]]
<1>1. /\ m \in Nat /\ s \in [1 .. m -> Heap] /\ DOMAIN s = 1 .. m
      /\ \A i, j \in 1 .. m : s[i] = s[j] => i = j
      /\ first = IF 1 <= m THEN s[1] ELSE Null
      /\ \A i \in 1 .. m : link[s[i]] = IF i + 1 <= m THEN s[i + 1] ELSE Null
  BY DEF IsList, IsInjective, IsListFrom
<1>2. m > 0 /\ s[1] = first /\ 1 \in 1 .. m
  BY <1>1
<1>3. first \in ToSet(s)
  BY <1>1, <1>2 DEF ToSet
<1>4. /\ s2 \in [1 .. m - 1 -> Heap] /\ DOMAIN s2 = 1 .. m - 1
      /\ \A i \in 1 .. m - 1 : i + 1 \in 1 .. m /\ s2[i] = s[i + 1]
  BY <1>1, <1>2
<1>5. \A i \in 1 .. m : i = 1 \/ (i - 1 \in 1 .. m - 1 /\ s2[i - 1] = s[i])
  BY <1>1, <1>2
<1> HIDE DEF s2
<1>6. IsInjective(s2)
  <2>1. ASSUME NEW i \in 1 .. m - 1, NEW j \in 1 .. m - 1, s2[i] = s2[j] PROVE i = j
    <3>1. i + 1 = j + 1
      BY <1>1, <1>4, <2>1
    <3>2. QED
      BY <3>1
  <2>2. QED
    BY <1>4, <2>1 DEF IsInjective
<1>7. IsListFrom(s2, link[first], link)
  <2>1. link[first] = IF 1 \in DOMAIN s2 THEN s2[1] ELSE Null
    <3>1. link[first] = IF 1 + 1 <= m THEN s[1 + 1] ELSE Null
      BY <1>1, <1>2
    <3>2. (1 \in DOMAIN s2 <=> 1 + 1 <= m) /\ (1 + 1 <= m => s2[1] = s[1 + 1])
      BY <1>1, <1>4
    <3>3. QED
      BY <3>1, <3>2
  <2>2. ASSUME NEW i \in DOMAIN s2
        PROVE  link[s2[i]] = IF i + 1 \in DOMAIN s2 THEN s2[i + 1] ELSE Null
    <3>1. link[s[i + 1]] = IF i + 1 + 1 <= m THEN s[i + 1 + 1] ELSE Null
      BY <1>1, <1>4
    <3>2. (i + 1 \in DOMAIN s2 <=> i + 1 + 1 <= m)
          /\ (i + 1 + 1 <= m => s2[i + 1] = s[i + 1 + 1])
      BY <1>1, <1>4
    <3>3. QED
      BY <1>4, <3>1, <3>2
  <2>3. QED
    BY <2>1, <2>2 DEF IsListFrom
<1>8. ToSet(s2) = ToSet(s) \ {first}
  <2>1. \A x : (\E i \in 1 .. m - 1 : x = s2[i]) => (\E i \in 1 .. m : x = s[i]) /\ x # first
    <3>1. \A i \in 1 .. m - 1 : i + 1 # 1
      OBVIOUS
    <3>2. QED
      BY <1>1, <1>2, <1>4, <3>1
  <2>2. \A x : (\E i \in 1 .. m : x = s[i]) /\ x # first => (\E i \in 1 .. m - 1 : x = s2[i])
    BY <1>2, <1>5
  <2>3. \A x : x \in ToSet(s2) <=> \E i \in 1 .. m - 1 : x = s2[i]
    BY <1>4 DEF ToSet
  <2>4. \A x : x \in ToSet(s) <=> \E i \in 1 .. m : x = s[i]
    BY <1>1 DEF ToSet
  <2>5. QED
    BY <2>1, <2>2, <2>3, <2>4
<1>9. IsList(s2, m - 1, link[first], link)
  BY <1>1, <1>2, <1>4, <1>6, <1>7 DEF IsList
<1>10. QED
  BY <1>2, <1>3, <1>8, <1>9 DEF s2

\* Links of other nodes change.
LEMMA ListSame ==
  ASSUME NEW s, NEW m, NEW first, NEW link, IsList(s, m, first, link),
         NEW link2, \A n \in ToSet(s) : link2[n] = link[n]
  PROVE  IsList(s, m, first, link2)
<1>1. \A i \in DOMAIN s : link2[s[i]] = link[s[i]]
  BY DEF ToSet
<1>2. QED
  BY <1>1 DEF IsList, IsListFrom

-----------------------------------------------------------------------------
(* Threads, and the places of nodes *)

\* Threads are producers or consumers, and have other numbers than the two lists.
LEMMA Ids ==
  /\ Threads = Producers \cup Consumers /\ Producers \cap Consumers = {}
  /\ Stack \notin Threads /\ ReclaimList \notin Threads /\ Stack # ReclaimList
  /\ Consumers \subseteq Slots /\ Consumers \subseteq Int
  /\ StartCid \in Nat /\ StartCid < MaxHazardPointers
<1>1. NrPairs \in Nat /\ NrPairs > 0 /\ MaxHazardPointers \in Nat
      /\ 2 * NrPairs <= MaxHazardPointers
  BY NrPairsAssumption, SlotsAssumption
<1>2. MaxHazardPointers \div 2 \in Nat /\ MaxHazardPointers \div 2 < MaxHazardPointers
  BY <1>1
<1>3. QED
  BY <1>1, <1>2
     DEF Threads, Producers, Consumers, Stack, ReclaimList, Slots, StartCid

\* What is where.
Contents ==
  /\ NodesAt[Stack] = ToSet(OnStack) /\ NodesAt[ReclaimList] = ToSet(reclaim)
  /\ \A t \in Producers : NodesAt[t] = {node[t]} \ {Null}
  /\ \A t \in Consumers : NodesAt[t] = Held(t)

\* NodesAt says what is in each place ...
LEMMA NodesAtContents == Contents
<1>1. /\ Stack \in Places /\ ReclaimList \in Places
      /\ \A t \in Producers : t \in Places
      /\ \A t \in Consumers : t \in Places /\ t \notin Producers
      /\ \A t \in Producers \cup Consumers : t # Stack /\ t # ReclaimList
  BY Ids DEF Places
<1>2. QED
  BY <1>1, Ids DEF Contents, NodesAt

\* ... before a step and after it.
LEMMA NodesAtContentsNext == Contents'
  BY NodesAtContents, PTL

\* The places are different from each other.
LEMMA PlacesAre ==
  /\ Places = Producers \cup Consumers \cup {Stack, ReclaimList}
  /\ \A t \in Producers \cup Consumers : t # Stack /\ t # ReclaimList
  /\ Stack # ReclaimList
  BY Ids DEF Places

\* Where a node may be.
LEMMA Whereabouts ==
  ASSUME Placed, TypeOK
  PROVE  /\ ToSet(OnStack) \subseteq alive /\ ToSet(reclaim) \subseteq alive
         /\ Fresh \subseteq alive
         /\ \A t \in Consumers : Held(t) \subseteq alive
         /\ ToSet(OnStack) \cap Fresh = {}
         /\ ToSet(OnStack) \cap ToSet(reclaim) = {}
         /\ Fresh \cap ToSet(reclaim) = {}
         /\ \A t \in Consumers : /\ Held(t) \cap ToSet(OnStack) = {}
                                 /\ Held(t) \cap Fresh = {}
                                 /\ Held(t) \cap ToSet(reclaim) = {}
         /\ \A t, u \in Consumers : t # u => Held(t) \cap Held(u) = {}
<1>1. \A p \in Places : NodesAt[p] \subseteq alive
  BY DEF Placed
<1>2. \A p, q \in Places : p # q => NodesAt[p] \cap NodesAt[q] = {}
  BY DEF Placed, Apart
<1>3. \A x : x \in Fresh <=> \E t \in Producers : x \in NodesAt[t]
  BY NodesAtContents DEF Fresh, Contents
<1>4. \A t \in Producers \cup Consumers : t \in Places
  BY PlacesAre
<1>5. Stack \in Places /\ ReclaimList \in Places
  BY PlacesAre
<1>6. NodesAt[Stack] = ToSet(OnStack) /\ NodesAt[ReclaimList] = ToSet(reclaim)
  BY NodesAtContents DEF Contents
<1>7. \A t \in Consumers : NodesAt[t] = Held(t)
  BY NodesAtContents DEF Contents
<1>8. /\ ToSet(OnStack) \subseteq alive /\ ToSet(reclaim) \subseteq alive
      /\ \A t \in Consumers : Held(t) \subseteq alive
  BY <1>1, <1>4, <1>5, <1>6, <1>7
<1>9. Fresh \subseteq alive
  BY <1>1, <1>3, <1>4
<1>10. \A p \in Consumers \cup {Stack, ReclaimList} : NodesAt[p] \cap Fresh = {}
  <2>1. \A p \in Consumers \cup {Stack, ReclaimList}, t \in Producers :
          p \in Places /\ t \in Places /\ p # t
    BY Ids, PlacesAre
  <2>2. QED
    BY <1>2, <1>3, <2>1
<1>11. ToSet(OnStack) \cap ToSet(reclaim) = {}
  BY <1>2, <1>5, <1>6, PlacesAre
<1>12. \A t \in Consumers : Held(t) \cap ToSet(OnStack) = {} /\ Held(t) \cap ToSet(reclaim) = {}
  BY <1>2, <1>4, <1>5, <1>6, <1>7, PlacesAre
<1>13. \A t, u \in Consumers : t # u => Held(t) \cap Held(u) = {}
  BY <1>2, <1>4, <1>7
<1>14. /\ ToSet(OnStack) \cap Fresh = {} /\ Fresh \cap ToSet(reclaim) = {}
       /\ \A t \in Consumers : Held(t) \cap Fresh = {}
  BY <1>6, <1>7, <1>10
<1>15. QED
  BY <1>8, <1>9, <1>11, <1>12, <1>13, <1>14

\* A step that leaves head and the links of the nodes on the stack alone.
LEMMA StackKept ==
  ASSUME TypeOK, StackIsList, head' = head, next' \in [Heap -> Heap \cup {Null}],
         \A n \in ToSet(OnStack) : next'[n] = next[n]
  PROVE  OnStack' = OnStack /\ Height' = Height /\ StackIsList'
<1>1. IsList(OnStack, Height, head', next')
  BY ListSame DEF StackIsList
<1>2. head' \in Heap \cup {Null}
  BY DEF TypeOK
<1>3. Height' = Height /\ OnStack' = OnStack
  BY <1>1, <1>2, OnStackIsItNext DEF OneList
<1>4. QED
  BY <1>1, <1>3 DEF StackIsList

\* A step that leaves the list alone, and the contents of all places.
LEMMA PlacesKept ==
  ASSUME Placed, OnStack' = OnStack, reclaim' = reclaim, mine' = mine, node' = node,
         alive' = alive, \A t \in Consumers : Held(t)' = Held(t)
  PROVE  Placed'
<1>1. \A p \in Places : NodesAt'[p] = NodesAt[p]
  BY PlacesAre, NodesAtContents, NodesAtContentsNext DEF Contents
<1>2. \A t \in Consumers : mine'[t] = mine[t]
  OBVIOUS
<1>3. QED
  BY <1>1, <1>2 DEF Placed, Apart

\* Neither do the items move if the nodes that carry them stay the same.
LEMMA ItemsKept ==
  ASSUME ItemsOnce, Carrying' = Carrying, made' = made, got' = got,
         \A n \in Carrying : data'[n] = data[n]
  PROVE  ItemsOnce'
<1>1. {data'[n] : n \in Carrying} = {data[n] : n \in Carrying}
  OBVIOUS
<1>2. QED
  BY <1>1 DEF ItemsOnce

\* Sets of consumers can be counted.
LEMMA FewConsumers ==
  ASSUME NEW S, S \subseteq Consumers
  PROVE  IsFiniteSet(S) /\ Cardinality(S) \in Nat
<1>1. IsFiniteSet(Consumers)
  BY FS_Interval, NrPairsAssumption DEF Consumers
<1>2. IsFiniteSet(S)
  BY <1>1, FS_Subset
<1>3. QED
  BY <1>2, FS_CardinalityType

-----------------------------------------------------------------------------
(* Types *)

\* Division as the split of the iterations uses it.
LEMMA DivMod ==
  ASSUME NEW n \in Nat, NEW m \in Nat \ {0}
  PROVE  /\ n = m * (n \div m) + (n % m)
         /\ n \div m \in Nat /\ n % m \in Nat /\ n % m < m
  OBVIOUS

\* No thread is given more than --iterations in an execution.
LEMMA IterPerThreadRange ==
  ASSUME NEW t, NEW number \in Nat, run[t] \in Nat
  PROVE  IterPerThread(t, number) \in 0 .. NrIter
<1> DEFINE nr == IF ScRuns THEN run[t] + 1 ELSE NrPairs
           q == NrIter \div nr
           r == NrIter % nr
<1>1. nr \in Nat \ {0} /\ NrIter \in Nat
  BY NrPairsAssumption, NrIterAssumption
<1> HIDE DEF nr
<1>2. NrIter = nr * q + r /\ q \in Nat /\ r \in Nat /\ r < nr
  BY <1>1, DivMod
<1>3. IterPerThread(t, number) = q + (IF number < r THEN 1 ELSE 0)
  BY DEF IterPerThread, nr
<1> HIDE DEF q, r
<1>4. q <= nr * q /\ nr * q \in Nat
  BY <1>1, <1>2
<1>5. QED
  BY <1>1, <1>2, <1>3, <1>4

\* There is at least one run.
LEMMA LastRunNat == LastRun \in Nat
  BY NrPairsAssumption, ScRunsAssumption DEF LastRun

\* The statements of the driver keep its types, and each role's labels.
Driver == DriverTypeOK(Labels) /\ Roles

\* Label there is one of thread t's.
Label(t, there) ==
  /\ there \in Labels \cup {"done"}
  /\ t \in Producers => there \in ProducerLabels
  /\ t \in Consumers => there \in ConsumerLabels

\* A jump within the role of a thread keeps the types of pc ...
LEMMA GotoKeeps ==
  ASSUME Driver, NEW t \in Threads, NEW here, NEW there, Goto(t, here, there),
         here # "done", Label(t, there)
  PROVE  /\ pc' \in [Threads -> Labels \cup {"done"}]
         /\ run' = run => Roles'
<1>1. /\ pc' \in [Threads -> Labels \cup {"done"}]
      /\ pc'[t] = there /\ pc[t] = here /\ \A u \in Threads : u # t => pc'[u] = pc[u]
  BY DEF Goto, Label, Driver, DriverTypeOK
<1>2. Producers \subseteq Threads /\ Consumers \subseteq Threads
  BY Ids
<1>3. QED
  BY <1>1, <1>2 DEF Roles, Driver, Label

\* ... and so do the statements of the data structure, ...
LEMMA WithinKeeps ==
  ASSUME Driver, NEW t \in Threads, NEW here, NEW there, Within(t, here, there),
         here # "done", Label(t, there)
  PROVE  Driver'
  BY GotoKeeps DEF Within, Driver, DriverTypeOK

\* ... the arrival at the barrier, ...
LEMMA ArriveKeeps ==
  ASSUME Driver, NEW t \in Threads, NEW here, NEW there, Arrive(t, here, there),
         here # "done", Label(t, there)
  PROVE  Driver'
  BY GotoKeeps DEF Arrive, Driver, DriverTypeOK

\* ... the entry of sync_producer and sync_consumer, ...
LEMMA StartKeeps ==
  ASSUME Driver, NEW t \in Threads, NEW here, NEW iterations, NEW work, NEW none, NEW idle,
         Start(t, here, iterations, work, none, idle), here # "done",
         iterations \in 0 .. NrIter,
         Label(t, work), Label(t, none), Label(t, idle)
  PROVE  Driver'
<1>1. PICK there : Label(t, there) /\ Goto(t, here, there)
  BY DEF Start
<1>2. iter' \in [Threads -> 0 .. NrIter]
  BY NrIterAssumption DEF Start, Driver, DriverTypeOK
<1>3. QED
  BY <1>1, <1>2, GotoKeeps DEF Start, Driver, DriverTypeOK

\* ... the end of an iteration ...
LEMMA IterationOver ==
  ASSUME Driver, NEW t \in Threads, NEW here, NEW there, Goto(t, here, there),
         here # "done", Label(t, there),
         iter' = [iter EXCEPT ![t] = IF @ > 0 THEN @ - 1 ELSE 0],
         UNCHANGED <<ctr, run, exec>>
  PROVE  Driver'
<1>1. iter' \in [Threads -> 0 .. NrIter]
  BY NrIterAssumption DEF Driver, DriverTypeOK
<1>2. QED
  BY <1>1, GotoKeeps DEF Driver, DriverTypeOK

\* ... and the loops over runs and executions.
LEMMA NextExecKeeps ==
  ASSUME Driver, NEW t \in Threads, NEW here, NEW first, NextExec(t, here, first),
         here # "done", Label(t, first)
  PROVE  Driver'
<1>1. PICK there : /\ there = IF exec[t] + 1 < NrExec \/ run[t] < LastRun THEN first ELSE "done"
                   /\ Goto(t, here, there)
  BY DEF NextExec
<1>2. Label(t, there) /\ Label(t, "done")
  BY <1>1 DEF Label, Labels, ProducerLabels, ConsumerLabels
<1>3. pc' \in [Threads -> Labels \cup {"done"}]
  BY <1>1, <1>2, GotoKeeps
<1>4. pc[t] = here /\ pc'[t] = there /\ \A u \in Threads : u # t => pc'[u] = pc[u]
  BY <1>1 DEF Goto, Driver, DriverTypeOK
<1>5. run[t] <= LastRun /\ run[t] \in Nat /\ exec[t] \in 0 .. NrExec - 1
  BY <1>4, LastRunNat DEF Driver, DriverTypeOK, Roles
<1>6. exec' \in [Threads -> 0 .. NrExec - 1]
  BY <1>5, NrExecAssumption DEF NextExec, Driver, DriverTypeOK
<1>7. run' \in [Threads -> 0 .. LastRun + 1]
  BY <1>5, LastRunNat DEF NextExec, Driver, DriverTypeOK
<1>8. Roles'
  <2>1. Producers \subseteq Threads /\ Consumers \subseteq Threads
    BY Ids
  <2>2. \A u \in Threads : u # t => run'[u] = run[u]
    BY DEF NextExec, Driver, DriverTypeOK
  <2>3. pc'[t] # "done" => run'[t] <= LastRun
    <3>1. run'[t] = IF exec[t] + 1 < NrExec THEN run[t] ELSE run[t] + 1
      BY DEF NextExec, Driver, DriverTypeOK
    <3>2. there # "done" => exec[t] + 1 < NrExec \/ run[t] < LastRun
      BY <1>1
    <3>3. QED
      BY <1>4, <1>5, <3>1, <3>2, LastRunNat
  <2>4. QED
    BY <1>2, <1>4, <2>1, <2>2, <2>3 DEF Roles, Driver, Label
<1>9. QED
  BY <1>3, <1>6, <1>7, <1>8 DEF NextExec, Driver, DriverTypeOK

\* Who is at which statement, and which labels it may go to.
LEMMA LabelFacts ==
  /\ \A t \in Producers : \A l \in ProducerLabels : Label(t, l)
  /\ \A t \in Consumers : \A l \in ConsumerLabels : Label(t, l)
  /\ \A t \in Threads : \A l \in {"arrive", "wait", "end", "done"} : Label(t, l)
  BY Ids DEF Label, Labels, ProducerLabels, ConsumerLabels

\* Which role a thread has can be told from the statement it is at.
LEMMA AtWork ==
  ASSUME Roles, NEW t \in Threads
  PROVE  /\ pc[t] \in {"push", "link"} => t \in Producers
         /\ pc[t] \in ConsumerLabels \ {"arrive", "wait", "end", "done"} => t \in Consumers
<1>1. t \in Producers \/ t \in Consumers
  BY Ids
<1>2. QED
  BY <1>1 DEF Roles, ProducerLabels, ConsumerLabels

\* The next list element, or the return of pop.
LEMMA PopReturnsKeeps ==
  ASSUME Driver, NEW t \in Consumers, NEW here, NEW empty, here # "done",
         PopReturns(t, here, empty)
  PROVE  Driver'
<1>1. PICK there \in {"end", "load"} : Goto(t, here, there)
  BY DEF PopReturns
<1>2. Label(t, there) /\ t \in Threads
  BY LabelFacts, Ids DEF ConsumerLabels
<1>3. QED
  BY <1>1, <1>2, IterationOver DEF PopReturns

\* The loop over the nodes taken keeps the types.
LEMMA NextRetiredKeeps ==
  ASSUME TypeOK, Driver, NEW t \in Consumers, NEW here, NEW rest \in Seq(Heap),
         here # "done", NextRetired(t, here, rest)
  PROVE  /\ Driver'
         /\ mine' \in [Consumers -> Seq(Heap)]
         /\ k' \in [Consumers -> StartCid .. MaxHazardPointers]
<1>1. Label(t, "scan") /\ t \in Threads
  BY LabelFacts, Ids DEF ConsumerLabels
<1>2. Driver'
  BY <1>1, PopReturnsKeeps, WithinKeeps DEF NextRetired
<1>3. StartCid \in StartCid .. MaxHazardPointers
  BY Ids, SlotsAssumption
<1>4. QED
  BY <1>2, <1>3 DEF NextRetired, TypeOK

\* The statements of the driver and of push keep the types.
LEMMA PushTypes ==
  ASSUME TypeOK, Driver, NEW t \in Threads,
         ArriveBarrier(t) \/ StartProducer(t) \/ StartConsumer(t) \/ Push(t) \/ EndExec(t)
  PROVE  TypeOK' /\ Driver'
<1> USE LabelFacts, Ids DEF ProducerLabels, ConsumerLabels
<1>1. Roles /\ DriverTypeOK(Labels)
  BY DEF Driver
<1>2. CASE ArriveBarrier(t)
  <2>1. Driver'
    BY <1>2, ArriveKeeps DEF ArriveBarrier
  <2>2. QED
    BY <1>2, <2>1 DEF ArriveBarrier, TypeOK, Driver, nodeVars, pushVars, popVars, reclaimVars
<1>3. CASE StartProducer(t)
  <2>1. Lane(t) \in Nat /\ run[t] \in Nat
    BY <1>1, <1>3, LastRunNat DEF StartProducer, Lane, Producers, DriverTypeOK
  <2>2. IterPerThread(t, Lane(t)) \in 0 .. NrIter
    BY <2>1, IterPerThreadRange
  <2>3. Driver'
    BY <1>3, <2>2, StartKeeps DEF StartProducer
  <2>4. QED
    BY <1>3, <2>3 DEF StartProducer, TypeOK, Driver, nodeVars, pushVars, popVars, reclaimVars
<1>4. CASE StartConsumer(t)
  <2>1. Lane(t) \in Nat /\ run[t] \in Nat
    BY <1>1, <1>4, LastRunNat, NrPairsAssumption
       DEF StartConsumer, Lane, Producers, Consumers, DriverTypeOK
  <2>2. IterPerThread(t, Lane(t)) \in 0 .. NrIter
    BY <2>1, IterPerThreadRange
  <2>3. Driver'
    BY <1>4, <2>2, StartKeeps DEF StartConsumer
  <2>4. QED
    BY <1>4, <2>3 DEF StartConsumer, TypeOK, Driver, nodeVars, pushVars, popVars, reclaimVars
<1>5. CASE NewNode(t)
  <2>1. t \in Producers
    BY <1>1, <1>5, AtWork DEF NewNode, Within, Goto
  <2>2. Driver'
    BY <1>5, <2>1, WithinKeeps DEF NewNode
  <2>3. made' = made + 1 /\ got' = got /\ made \in Nat /\ got \subseteq 1 .. made
    BY <1>5 DEF NewNode, popVars, TypeOK
  <2>4. got' \subseteq 1 .. made'
    BY <2>3
  <2>5. PICK n \in Heap \ alive :
           /\ alive' = alive \cup {n}
           /\ next' = [next EXCEPT ![n] = head]
           /\ data' = [data EXCEPT ![n] = made + 1]
           /\ node' = [node EXCEPT ![t] = n]
    BY <1>5 DEF NewNode
  <2>6. /\ alive' \subseteq Heap /\ next' \in [Heap -> Heap \cup {Null}]
        /\ data' \in [Heap -> Nat] /\ node' \in [Producers -> Heap \cup {Null}]
    BY <2>1, <2>5 DEF TypeOK
  <2>7. QED
    BY <1>5, <2>2, <2>3, <2>4, <2>6
       DEF NewNode, TypeOK, Driver, nodeVars, pushVars, popVars, reclaimVars
<1>6. CASE Link(t)
  <2>1. t \in Producers
    BY <1>1, <1>6, AtWork DEF Link, EndIteration, Goto
  <2>2. PICK there \in {"push", "end"} : Goto(t, "link", there)
    BY <1>6 DEF Link, EndIteration
  <2>3. Driver'
    BY <1>6, <2>1, <2>2, IterationOver DEF Link, EndIteration
  <2>4. QED
    BY <1>6, <2>1, <2>3 DEF Link, TypeOK, Driver, nodeVars, pushVars, popVars, reclaimVars
<1>7. CASE LinkFails(t)
  <2>1. t \in Producers
    BY <1>1, <1>7, AtWork DEF LinkFails
  <2>2. Driver'
    BY <1>7 DEF LinkFails, driverVars, Driver, DriverTypeOK, Roles
  <2>3. QED
    BY <1>7, <2>1, <2>2 DEF LinkFails, TypeOK, Driver, nodeVars, pushVars, popVars, reclaimVars
<1>8. CASE EndExec(t)
  <2>1. Driver'
    BY <1>8, NextExecKeeps DEF EndExec
  <2>2. QED
    BY <1>8, <2>1 DEF EndExec, TypeOK, Driver, nodeVars, pushVars, popVars, reclaimVars
<1>9. QED
  BY <1>2, <1>3, <1>4, <1>5, <1>6, <1>7, <1>8 DEF Push

\* So do the statements of pop ...
LEMMA PopTypes ==
  ASSUME TypeOK, Driver, Locals, NEW t \in Threads, Pop(t)
  PROVE  TypeOK' /\ Driver'
<1> USE LabelFacts, Ids DEF ConsumerLabels
<1>1. Roles /\ DriverTypeOK(Labels)
  BY DEF Driver
<1>2. t \in Consumers
  BY <1>1, AtWork DEF Pop, LoadHead, Protect, Reload, ReadNext, Unlink, UnlinkFails, Clear,
                      Within, Goto
<1>3. CASE LoadHead(t)
  <2>1. Driver'
    BY <1>2, <1>3, WithinKeeps DEF LoadHead
  <2>2. QED
    BY <1>2, <1>3, <2>1 DEF LoadHead, TypeOK, Driver, nodeVars, pushVars, popVars, reclaimVars
<1>4. CASE Protect(t)
  <2>1. Driver'
    BY <1>2, <1>4, WithinKeeps DEF Protect
  <2>2. QED
    BY <1>2, <1>4, <2>1 DEF Protect, TypeOK, Driver, nodeVars, pushVars, popVars, reclaimVars
<1>5. CASE Reload(t)
  <2>1. Driver'
    BY <1>2, <1>5, WithinKeeps DEF Reload
  <2>2. QED
    BY <1>2, <1>5, <2>1 DEF Reload, TypeOK, Driver, nodeVars, pushVars, popVars, reclaimVars
<1>6. CASE ReadNext(t)
  <2>1. Driver'
    BY <1>2, <1>6, WithinKeeps DEF ReadNext
  <2>2. old[t] \in Heap
    BY <1>2, <1>6 DEF ReadNext, Within, Goto, Locals, TypeOK
  <2>3. QED
    BY <1>2, <1>6, <2>1, <2>2 DEF ReadNext, TypeOK, Driver, nodeVars, pushVars, popVars, reclaimVars
<1>7. CASE Unlink(t)
  <2>1. Driver'
    BY <1>2, <1>7, WithinKeeps DEF Unlink
  <2>2. QED
    BY <1>2, <1>7, <2>1 DEF Unlink, TypeOK, Driver, nodeVars, pushVars, popVars, reclaimVars
<1>8. CASE UnlinkFails(t)
  <2>1. Driver'
    BY <1>2, <1>8, WithinKeeps DEF UnlinkFails
  <2>2. QED
    BY <1>2, <1>8, <2>1 DEF UnlinkFails, TypeOK, Driver, nodeVars, pushVars, popVars, reclaimVars
<1>9. CASE Clear(t)
  <2>1. Driver'
    BY <1>2, <1>9, WithinKeeps, PopReturnsKeeps DEF Clear
  <2>2. QED
    BY <1>2, <1>9, <2>1 DEF Clear, TypeOK, Driver, nodeVars, pushVars, popVars, reclaimVars
<1>10. QED
  BY <1>3, <1>4, <1>5, <1>6, <1>7, <1>8, <1>9 DEF Pop

\* ... and those of the reclamation.
LEMMA ReclaimTypes ==
  ASSUME TypeOK, Driver, Locals, ItemsOnce, NEW t \in Threads, Reclaim(t)
  PROVE  TypeOK' /\ Driver'
<1> USE LabelFacts, Ids DEF ConsumerLabels
<1>1. Roles /\ DriverTypeOK(Labels)
  BY DEF Driver
<1>2. t \in Consumers
  BY <1>1, AtWork DEF Reclaim, Retire, CountUp, CheckCount, Take, ScanSlot, Keep, Delete,
                      Uncount, NextRetired, PopReturns, Within, Goto
<1>3. CASE Retire(t)
  <2>1. Driver'
    BY <1>2, <1>3, WithinKeeps DEF Retire
  <2>2. pc[t] = "retire" /\ old[t] # Null /\ old[t] \in Heap
    BY <1>2, <1>3 DEF Retire, Within, Goto, Locals, TypeOK
  <2>3. old[t] \in Carrying
    BY <1>2, <2>2 DEF Carrying, Unlinked, HasUnlinked
  <2>4. data[old[t]] \in 1 .. made
    BY <2>3 DEF ItemsOnce
  <2>5. <<old[t]>> \o reclaim \in Seq(Heap)
    BY <2>2, InFront DEF TypeOK
  <2>6. QED
    BY <1>2, <1>3, <2>1, <2>2, <2>4, <2>5
       DEF Retire, TypeOK, Driver, nodeVars, pushVars, popVars, reclaimVars
<1>4. CASE CountUp(t)
  <2>1. Driver'
    BY <1>2, <1>4, WithinKeeps DEF CountUp
  <2>2. QED
    BY <1>2, <1>4, <2>1 DEF CountUp, TypeOK, Driver, nodeVars, pushVars, popVars, reclaimVars
<1>5. CASE CheckCount(t)
  <2>1. Driver'
    BY <1>2, <1>5, WithinKeeps, PopReturnsKeeps DEF CheckCount
  <2>2. QED
    BY <1>2, <1>5, <2>1 DEF CheckCount, TypeOK, Driver, nodeVars, pushVars, popVars, reclaimVars
<1>6. CASE Take(t)
  <2>1. reclaim \in Seq(Heap) /\ <<>> \in Seq(Heap)
    BY EmptySeq DEF TypeOK
  <2>2. /\ Driver' /\ mine' \in [Consumers -> Seq(Heap)]
        /\ k' \in [Consumers -> StartCid .. MaxHazardPointers]
    BY <1>2, <1>6, <2>1, NextRetiredKeeps DEF Take
  <2>3. QED
    BY <1>2, <1>6, <2>1, <2>2 DEF Take, TypeOK, Driver, nodeVars, pushVars, popVars
<1>7. CASE ScanSlot(t)
  <2>1. pc[t] = "scan" /\ k[t] < MaxHazardPointers
    BY <1>2, <1>7 DEF ScanSlot, Within, Goto, Locals
  <2>2. Driver'
    BY <1>2, <1>7, WithinKeeps DEF ScanSlot
  <2>3. k' \in [Consumers -> StartCid .. MaxHazardPointers]
    BY <1>2, <1>7, <2>1, SlotsAssumption DEF ScanSlot, TypeOK
  <2>4. QED
    BY <1>2, <1>7, <2>2, <2>3 DEF ScanSlot, TypeOK, Driver, nodeVars, pushVars, popVars
<1>8. ASSUME pc[t] \in {"keep", "delete", "uncount"}
      PROVE  mine[t] \in Seq(Heap) /\ Head(mine[t]) \in Heap /\ Tail(mine[t]) \in Seq(Heap)
  <2>1. mine[t] \in Seq(Heap) /\ mine[t] # <<>>
    BY <1>2, <1>8 DEF Locals, TypeOK
  <2>2. QED
    BY <2>1, Rest
<1>9. CASE Keep(t)
  <2>1. pc[t] = "keep"
    BY <1>9 DEF Keep, NextRetired
  <2>2. /\ Driver' /\ mine' \in [Consumers -> Seq(Heap)]
        /\ k' \in [Consumers -> StartCid .. MaxHazardPointers]
    BY <1>2, <1>8, <1>9, <2>1, NextRetiredKeeps DEF Keep
  <2>3. <<Head(mine[t])>> \o reclaim \in Seq(Heap)
    BY <1>8, <2>1, InFront DEF TypeOK
  <2>4. QED
    BY <1>9, <2>2, <2>3 DEF Keep, TypeOK, Driver, nodeVars, pushVars, popVars
<1>10. CASE Delete(t)
  <2>1. Driver' /\ pc[t] = "delete"
    BY <1>2, <1>10, WithinKeeps DEF Delete, Within, Goto
  <2>2. QED
    BY <1>8, <1>10, <2>1 DEF Delete, TypeOK, Driver, pushVars, popVars, reclaimVars
<1>11. CASE Uncount(t)
  <2>1. pc[t] = "uncount"
    BY <1>11 DEF Uncount, NextRetired
  <2>2. /\ Driver' /\ mine' \in [Consumers -> Seq(Heap)]
        /\ k' \in [Consumers -> StartCid .. MaxHazardPointers]
    BY <1>2, <1>8, <1>11, <2>1, NextRetiredKeeps DEF Uncount
  <2>3. QED
    BY <1>11, <2>2 DEF Uncount, TypeOK, Driver, nodeVars, pushVars, popVars
<1>12. QED
  BY <1>3, <1>4, <1>5, <1>6, <1>7, <1>9, <1>10, <1>11 DEF Reclaim

-----------------------------------------------------------------------------
(* Local variables *)

\* Which variables a statement can change, and of which thread.
Mine(t) ==
  /\ \A u \in Threads : u # t => pc'[u] = pc[u]
  /\ \A u \in Producers : u # t => node'[u] = node[u]
  /\ \A u \in Consumers :
       u # t => /\ old'[u] = old[u] /\ nx'[u] = nx[u] /\ mine'[u] = mine[u]
                /\ k'[u] = k[u] /\ hazard'[u] = hazard[u]

\* The local variables of thread t.
LocalsOf(t) ==
  /\ t \in Producers => (node[t] # Null <=> pc[t] = "link")
  /\ t \in Consumers =>
       /\ mine[t] # <<>> <=> pc[t] \in {"scan", "keep", "delete", "uncount"}
       /\ pc[t] \in {"next", "cas", "retire"} => old[t] # Null
       /\ pc[t] \in {"reload", "next", "cas"} => hazard[t] = old[t]
       /\ pc[t] = "scan" => k[t] < MaxHazardPointers

\* Locals says the same of every thread.
LEMMA LocalsAre == Locals <=> \A t \in Threads : LocalsOf(t)
  BY Ids DEF Locals, LocalsOf

\* The driver's statements and push change a producer's variables ...
LEMMA PushLocals ==
  ASSUME TypeOK, TypeOK', Roles, Locals, NEW t \in Threads,
         ArriveBarrier(t) \/ StartProducer(t) \/ StartConsumer(t) \/ Push(t) \/ EndExec(t)
  PROVE  Mine(t) /\ LocalsOf(t)'
<1> USE Ids DEF TypeOK, DriverTypeOK, Within, Goto, nodeVars, pushVars, popVars, reclaimVars
<1>1. LocalsOf(t) /\ (t \in Producers \/ t \in Consumers)
  BY LocalsAre
<1>2. CASE ArriveBarrier(t)
  <2>1. Mine(t)
    BY <1>2 DEF Mine, ArriveBarrier, Arrive
  <2>2. LocalsOf(t)'
    BY <1>1, <1>2 DEF LocalsOf, ArriveBarrier, Arrive
  <2>3. QED
    BY <2>1, <2>2
<1>3. CASE StartProducer(t)
  <2>1. Mine(t)
    BY <1>3 DEF Mine, StartProducer, Start
  <2>2. LocalsOf(t)'
    BY <1>1, <1>3 DEF LocalsOf, StartProducer, Start
  <2>3. QED
    BY <2>1, <2>2
<1>4. CASE StartConsumer(t)
  <2>1. Mine(t)
    BY <1>4 DEF Mine, StartConsumer, Start
  <2>2. LocalsOf(t)'
    BY <1>1, <1>4 DEF LocalsOf, StartConsumer, Start
  <2>3. QED
    BY <2>1, <2>2
<1>5. CASE EndExec(t)
  <2>1. Mine(t)
    BY <1>5 DEF Mine, EndExec, NextExec
  <2>2. LocalsOf(t)'
    BY <1>1, <1>5 DEF LocalsOf, EndExec, NextExec
  <2>3. QED
    BY <2>1, <2>2
<1>6. CASE NewNode(t)
  <2>1. t \in Producers /\ t \notin Consumers
    BY <1>6, AtWork DEF NewNode
  <2>2. Mine(t)
    BY <1>6, <2>1 DEF Mine, NewNode
  <2>3. LocalsOf(t)'
    BY <1>1, <1>6, <2>1, HeapFacts DEF LocalsOf, NewNode
  <2>4. QED
    BY <2>2, <2>3
<1>7. CASE Link(t)
  <2>1. t \in Producers /\ t \notin Consumers
    BY <1>7, AtWork DEF Link, EndIteration
  <2>2. Mine(t)
    BY <1>7, <2>1 DEF Mine, Link, EndIteration
  <2>3. LocalsOf(t)'
    BY <1>1, <1>7, <2>1, HeapFacts DEF LocalsOf, Link, EndIteration
  <2>4. QED
    BY <2>2, <2>3
<1>8. CASE LinkFails(t)
  <2>1. Mine(t)
    BY <1>8 DEF Mine, LinkFails, driverVars
  <2>2. LocalsOf(t)'
    BY <1>1, <1>8 DEF LocalsOf, LinkFails, driverVars
  <2>3. QED
    BY <2>1, <2>2
<1>9. QED
  BY <1>2, <1>3, <1>4, <1>5, <1>6, <1>7, <1>8 DEF Push

\* ... pop and the reclamation a consumer's.
LEMMA PopLocals ==
  ASSUME TypeOK, TypeOK', Roles, Locals, NEW t \in Threads, Pop(t) \/ Reclaim(t)
  PROVE  Mine(t) /\ LocalsOf(t)' /\ t \in Consumers
<1> USE Ids DEF TypeOK, DriverTypeOK, Within, Goto, nodeVars, pushVars, popVars, reclaimVars
<1>1. t \in Consumers /\ t \notin Producers
  BY AtWork DEF ConsumerLabels, Pop, Reclaim, LoadHead, Protect, Reload, ReadNext, Unlink,
                UnlinkFails, Clear, Retire, CountUp, CheckCount, Take, ScanSlot, Keep,
                Delete, Uncount, NextRetired, PopReturns, Within, Goto
<1>2. LocalsOf(t)
  BY LocalsAre
<1>3. CASE LoadHead(t)
  <2>1. Mine(t)
    BY <1>1, <1>3 DEF Mine, LoadHead
  <2>2. LocalsOf(t)'
    BY <1>1, <1>2, <1>3 DEF LocalsOf, LoadHead
  <2>3. QED
    BY <1>1, <2>1, <2>2
<1>4. CASE Protect(t)
  <2>1. Mine(t)
    BY <1>1, <1>4 DEF Mine, Protect
  <2>2. LocalsOf(t)'
    BY <1>1, <1>2, <1>4 DEF LocalsOf, Protect
  <2>3. QED
    BY <1>1, <2>1, <2>2
<1>5. CASE Reload(t)
  <2>1. Mine(t)
    BY <1>1, <1>5 DEF Mine, Reload
  <2>2. LocalsOf(t)'
    BY <1>1, <1>2, <1>5 DEF LocalsOf, Reload
  <2>3. QED
    BY <1>1, <2>1, <2>2
<1>6. CASE ReadNext(t)
  <2>1. Mine(t)
    BY <1>1, <1>6 DEF Mine, ReadNext
  <2>2. LocalsOf(t)'
    BY <1>1, <1>2, <1>6 DEF LocalsOf, ReadNext
  <2>3. QED
    BY <1>1, <2>1, <2>2
<1>7. CASE Unlink(t)
  <2>1. Mine(t)
    BY <1>1, <1>7 DEF Mine, Unlink
  <2>2. LocalsOf(t)'
    BY <1>1, <1>2, <1>7 DEF LocalsOf, Unlink
  <2>3. QED
    BY <1>1, <2>1, <2>2
<1>8. CASE UnlinkFails(t)
  <2>1. Mine(t)
    BY <1>1, <1>8 DEF Mine, UnlinkFails
  <2>2. LocalsOf(t)'
    BY <1>1, <1>2, <1>8 DEF LocalsOf, UnlinkFails
  <2>3. QED
    BY <1>1, <2>1, <2>2
<1>9. CASE Clear(t)
  <2>1. Mine(t)
    BY <1>1, <1>9 DEF Mine, Clear, PopReturns
  <2>2. LocalsOf(t)'
    BY <1>1, <1>2, <1>9 DEF LocalsOf, Clear, PopReturns
  <2>3. QED
    BY <1>1, <2>1, <2>2
<1>10. CASE Retire(t)
  <2>1. Mine(t)
    BY <1>1, <1>10 DEF Mine, Retire
  <2>2. LocalsOf(t)'
    BY <1>1, <1>2, <1>10 DEF LocalsOf, Retire
  <2>3. QED
    BY <1>1, <2>1, <2>2
<1>11. CASE CountUp(t)
  <2>1. Mine(t)
    BY <1>1, <1>11 DEF Mine, CountUp
  <2>2. LocalsOf(t)'
    BY <1>1, <1>2, <1>11 DEF LocalsOf, CountUp
  <2>3. QED
    BY <1>1, <2>1, <2>2
<1>12. CASE CheckCount(t)
  <2>1. Mine(t)
    BY <1>1, <1>12 DEF Mine, CheckCount, PopReturns
  <2>2. LocalsOf(t)'
    BY <1>1, <1>2, <1>12 DEF LocalsOf, CheckCount, PopReturns
  <2>3. QED
    BY <1>1, <2>1, <2>2
<1>13. CASE Take(t)
  <2>1. Mine(t)
    <3>1. /\ \A u \in Threads : u # t => pc'[u] = pc[u]
          /\ UNCHANGED <<node, old, nx, hazard>>
      BY <1>1, <1>13 DEF Take, NextRetired, PopReturns
    <3>2. \A u \in Consumers : u # t => mine'[u] = mine[u] /\ k'[u] = k[u]
      BY <1>1, <1>13 DEF Take, NextRetired
    <3>3. QED
      BY <3>1, <3>2 DEF Mine
  <2>2. LocalsOf(t)'
    BY <1>1, <1>2, <1>13 DEF LocalsOf, Take, NextRetired, PopReturns
  <2>3. QED
    BY <1>1, <2>1, <2>2
<1>14. CASE ScanSlot(t)
  <2>1. Mine(t)
    BY <1>1, <1>14 DEF Mine, ScanSlot
  <2>2. LocalsOf(t)'
    BY <1>1, <1>2, <1>14 DEF LocalsOf, ScanSlot
  <2>3. QED
    BY <1>1, <2>1, <2>2
<1>15. CASE Keep(t)
  <2>1. Mine(t)
    <3>1. /\ \A u \in Threads : u # t => pc'[u] = pc[u]
          /\ UNCHANGED <<node, old, nx, hazard>>
      BY <1>1, <1>15 DEF Keep, NextRetired, PopReturns
    <3>2. \A u \in Consumers : u # t => mine'[u] = mine[u] /\ k'[u] = k[u]
      BY <1>1, <1>15 DEF Keep, NextRetired
    <3>3. QED
      BY <3>1, <3>2 DEF Mine
  <2>2. LocalsOf(t)'
    BY <1>1, <1>2, <1>15, SMTT(30) DEF LocalsOf, Keep, NextRetired, PopReturns
  <2>3. QED
    BY <1>1, <2>1, <2>2
<1>16. CASE Delete(t)
  <2>1. Mine(t)
    BY <1>1, <1>16 DEF Mine, Delete
  <2>2. LocalsOf(t)'
    BY <1>1, <1>2, <1>16 DEF LocalsOf, Delete
  <2>3. QED
    BY <1>1, <2>1, <2>2
<1>17. CASE Uncount(t)
  <2>1. Mine(t)
    <3>1. /\ \A u \in Threads : u # t => pc'[u] = pc[u]
          /\ UNCHANGED <<node, old, nx, hazard>>
      BY <1>1, <1>17 DEF Uncount, NextRetired, PopReturns
    <3>2. \A u \in Consumers : u # t => mine'[u] = mine[u] /\ k'[u] = k[u]
      BY <1>1, <1>17 DEF Uncount, NextRetired
    <3>3. QED
      BY <3>1, <3>2 DEF Mine
  <2>2. LocalsOf(t)'
    BY <1>1, <1>2, <1>17 DEF LocalsOf, Uncount, NextRetired, PopReturns
  <2>3. QED
    BY <1>1, <2>1, <2>2
<1>18. QED
  BY <1>1, <1>3, <1>4, <1>5, <1>6, <1>7, <1>8, <1>9, <1>10, <1>11, <1>12, <1>13, <1>14, <1>15,
     <1>16, <1>17 DEF Pop, Reclaim

\* What is true of the thread that makes a step, and of the others, is true of all.
LEMMA LocalsNext ==
  ASSUME Locals, NEW t \in Threads, Mine(t), LocalsOf(t)'
  PROVE  Locals'
<1>1. \A u \in Threads : u # t => LocalsOf(u)'
  BY LocalsAre DEF LocalsOf, Mine
<1>2. \A u \in Threads : LocalsOf(u)'
  BY <1>1
<1>3. QED
  BY <1>2, Ids DEF Locals, LocalsOf

-----------------------------------------------------------------------------
(* The stack, the places of nodes, the items and the counter *)

\* What a consumer holds at each statement.
Holding(t) ==
  /\ pc[t] = "clear" => Held(t) = {old[t]} \ {Null} /\ ToReclaim(t) = <<>>
  /\ pc[t] = "retire" => Held(t) = {old[t]} /\ ToReclaim(t) = <<>>
  /\ pc[t] \in {"scan", "keep", "delete"} =>
       Held(t) = ToSet(mine[t]) /\ ToReclaim(t) = mine[t]
  /\ pc[t] = "uncount" => Held(t) = ToSet(Tail(mine[t])) /\ ToReclaim(t) = Tail(mine[t])
  /\ pc[t] \notin {"clear", "retire", "scan", "keep", "delete", "uncount"} =>
       Held(t) = {} /\ ToReclaim(t) = <<>>

Holdings == TypeOK /\ Locals => \A t \in Consumers : Holding(t)

\* There is nothing in the empty list.
LEMMA NothingInEmpty == ToSet(<<>>) = {}
  BY DEF ToSet

\* Holding is what Held and ToReclaim come to ...
LEMMA HoldingsHold == Holdings
<1> SUFFICES ASSUME TypeOK, Locals, NEW t \in Consumers PROVE Holding(t)
  BY DEF Holdings
<1>1. pc[t] \notin {"scan", "keep", "delete", "uncount"} => mine[t] = <<>>
  BY DEF Locals
<1>2. pc[t] = "retire" => old[t] # Null
  BY DEF Locals
<1>3. QED
  BY <1>1, <1>2, NothingInEmpty DEF Holding, Held, HasUnlinked, ToReclaim

\* ... before a step and after it.
LEMMA HoldingsNext == Holdings'
  BY HoldingsHold, PTL

\* Other consumers' hands.
LEMMA HeldKept ==
  ASSUME NEW t, Mine(t), NEW u \in Consumers, u # t
  PROVE  /\ pc'[u] = pc[u] /\ old'[u] = old[u] /\ mine'[u] = mine[u]
         /\ HasUnlinked(u)' <=> HasUnlinked(u)
         /\ Held(u)' = Held(u) /\ ToReclaim(u)' = ToReclaim(u)
<1>1. pc'[u] = pc[u] /\ old'[u] = old[u] /\ mine'[u] = mine[u]
  BY Ids DEF Mine
<1>2. QED
  BY <1>1 DEF HasUnlinked, Held, ToReclaim

\* Consumers at label l.
At(l) == {u \in Consumers : pc[u] = l}

\* A step changes the number of consumers at a label by one at most.
LEMMA AtChanges ==
  ASSUME NEW t, Mine(t), NEW l
  PROVE  /\ Cardinality(At(l)) \in Nat
         /\ t \notin Consumers => At(l)' = At(l)
         /\ t \in Consumers /\ (pc[t] = l <=> pc'[t] = l) => At(l)' = At(l)
         /\ t \in Consumers /\ pc[t] # l /\ pc'[t] = l
              => Cardinality(At(l)') = Cardinality(At(l)) + 1
         /\ t \in Consumers /\ pc[t] = l /\ pc'[t] # l
              => Cardinality(At(l)') = Cardinality(At(l)) - 1
<1>1. IsFiniteSet(At(l)) /\ Cardinality(At(l)) \in Nat
  BY FewConsumers DEF At
<1>2. \A u \in Consumers : u # t => pc'[u] = pc[u]
  BY Ids DEF Mine
<1>3. ASSUME t \in Consumers, pc[t] # l, pc'[t] = l
      PROVE  Cardinality(At(l)') = Cardinality(At(l)) + 1
  <2>1. At(l)' = At(l) \cup {t} /\ t \notin At(l)
    BY <1>2, <1>3 DEF At
  <2>2. QED
    BY <1>1, <2>1, FS_AddElement
<1>4. ASSUME t \in Consumers, pc[t] = l, pc'[t] # l
      PROVE  Cardinality(At(l)') = Cardinality(At(l)) - 1
  <2>1. At(l)' = At(l) \ {t} /\ t \in At(l)
    BY <1>2, <1>4 DEF At
  <2>2. QED
    BY <1>1, <2>1, FS_RemoveElement
<1>5. /\ t \notin Consumers => At(l)' = At(l)
      /\ t \in Consumers /\ (pc[t] = l <=> pc'[t] = l) => At(l)' = At(l)
  BY <1>2 DEF At
<1>6. QED
  BY <1>1, <1>3, <1>4, <1>5

\* reclaim_cnt, with names for the sets that it is compared with.
CountIs ==
  CountsRetired <=>
    count + Cardinality(At("count")) = Cardinality(Retired) + Cardinality(At("uncount"))

\* CountsRetired, by these names ...
LEMMA CountIsIt == CountIs
  BY DEF CountIs, CountsRetired, At

\* ... before a step and after it.
LEMMA CountIsItNext == CountIs'
  BY CountIsIt, PTL

\* Retired nodes can be counted.
LEMMA RetiredFinite ==
  ASSUME TypeOK, Placed
  PROVE  IsFiniteSet(Retired) /\ Cardinality(Retired) \in Nat
<1>1. \A u \in Consumers : ToSet(ToReclaim(u)) \subseteq Held(u)
  BY DEF Held
<1>2. Retired \subseteq Heap
  BY <1>1, Whereabouts DEF Retired, TypeOK
<1>3. IsFiniteSet(Retired)
  BY <1>2, FS_Subset, HeapAssumption
<1>4. QED
  BY <1>3, FS_CardinalityType

\* The counter stays as it is, and so does what it counts.
LEMMA CountKept ==
  ASSUME CountsRetired, NEW t, Mine(t), count' = count, Retired' = Retired,
         t \in Consumers => /\ pc[t] \notin {"count", "uncount"}
                            /\ pc'[t] \notin {"count", "uncount"}
  PROVE  CountsRetired'
<1>1. At("count")' = At("count") /\ At("uncount")' = At("uncount")
  BY AtChanges
<1>2. QED
  BY <1>1, CountIsIt, CountIsItNext DEF CountIs

Core == StackIsList /\ Placed /\ ItemsOnce /\ CountsRetired

\* A step that moves no node and no item.
LEMMA QuietStep ==
  ASSUME IInv, NEW t, Mine(t), head' = head, next' = next, data' = data, alive' = alive,
         node' = node, reclaim' = reclaim, count' = count, made' = made, got' = got,
         mine' = mine,
         t \in Consumers => /\ HasUnlinked(t)' <=> HasUnlinked(t)
                            /\ HasUnlinked(t) => old'[t] = old[t]
                            /\ pc[t] \notin {"count", "uncount"}
                            /\ pc'[t] \notin {"count", "uncount"}
  PROVE  Core'
<1> USE DEF IInv
<1>1. \A u \in Consumers :
        /\ HasUnlinked(u)' <=> HasUnlinked(u)
        /\ HasUnlinked(u) => old'[u] = old[u]
        /\ ToReclaim(u)' = ToReclaim(u)
  BY HeldKept DEF ToReclaim
<1>2. OnStack' = OnStack /\ StackIsList'
  BY StackKept DEF TypeOK
<1>3. \A u \in Consumers : Held(u)' = Held(u)
  BY <1>1 DEF Held
<1>4. Placed'
  BY <1>2, <1>3, PlacesKept
<1>5. Carrying' = Carrying
  <2>1. Unlinked' = Unlinked
    BY <1>1 DEF Unlinked
  <2>2. QED
    BY <1>2, <2>1 DEF Carrying, Fresh
<1>6. ItemsOnce'
  BY <1>5, ItemsKept
<1>7. Retired' = Retired
  BY <1>1 DEF Retired
<1>8. CountsRetired'
  BY <1>7, CountKept
<1>9. QED
  BY <1>2, <1>4, <1>6, <1>8 DEF Core

\* The statements that are quiet in this sense.
LEMMA QuietSteps ==
  ASSUME IInv, TypeOK', NEW t \in Threads, Mine(t), t \in Producers \/ t \in Consumers,
         \/ ArriveBarrier(t) \/ StartProducer(t) \/ StartConsumer(t) \/ EndExec(t)
         \/ LoadHead(t) \/ Protect(t) \/ Reload(t) \/ ReadNext(t) \/ UnlinkFails(t)
         \/ Clear(t) \/ CheckCount(t) \/ ScanSlot(t)
  PROVE  Core'
<1>1. /\ pc \in [Threads -> Labels \cup {"done"}] /\ pc' \in [Threads -> Labels \cup {"done"}]
      /\ old \in [Consumers -> Heap \cup {Null}] /\ Consumers \subseteq Threads
  BY Ids DEF IInv, TypeOK, DriverTypeOK
<1>2. CASE ArriveBarrier(t)
  BY <1>1, <1>2, QuietStep
     DEF HasUnlinked, ArriveBarrier, Arrive, Within, Goto, nodeVars, pushVars, popVars, reclaimVars
<1>3. CASE StartProducer(t)
  BY <1>1, <1>3, QuietStep
     DEF HasUnlinked, StartProducer, Start, Within, Goto, nodeVars, pushVars, popVars, reclaimVars
<1>4. CASE StartConsumer(t)
  BY <1>1, <1>4, QuietStep
     DEF HasUnlinked, StartConsumer, Start, Within, Goto, nodeVars, pushVars, popVars, reclaimVars
<1>5. CASE EndExec(t)
  BY <1>1, <1>5, QuietStep
     DEF HasUnlinked, EndExec, NextExec, Within, Goto, nodeVars, pushVars, popVars, reclaimVars
<1>6. CASE LoadHead(t)
  BY <1>1, <1>6, QuietStep
     DEF HasUnlinked, LoadHead, Within, Goto, nodeVars, pushVars, popVars, reclaimVars
<1>7. CASE Protect(t)
  BY <1>1, <1>7, QuietStep
     DEF HasUnlinked, Protect, Within, Goto, nodeVars, pushVars, popVars, reclaimVars
<1>8. CASE Reload(t)
  BY <1>1, <1>8, QuietStep
     DEF HasUnlinked, Reload, Within, Goto, nodeVars, pushVars, popVars, reclaimVars
<1>9. CASE ReadNext(t)
  BY <1>1, <1>9, QuietStep
     DEF HasUnlinked, ReadNext, Within, Goto, nodeVars, pushVars, popVars, reclaimVars
<1>10. CASE UnlinkFails(t)
  BY <1>1, <1>10, QuietStep
     DEF HasUnlinked, UnlinkFails, Within, Goto, nodeVars, pushVars, popVars, reclaimVars
<1>11. CASE Clear(t)
  BY <1>1, <1>11, QuietStep
     DEF HasUnlinked, Clear, PopReturns, Within, Goto, nodeVars, pushVars, popVars, reclaimVars
<1>12. CASE CheckCount(t)
  BY <1>1, <1>12, QuietStep
     DEF HasUnlinked, CheckCount, PopReturns, Within, Goto, nodeVars, pushVars, popVars, reclaimVars
<1>13. CASE ScanSlot(t)
  BY <1>1, <1>13, QuietStep
     DEF HasUnlinked, ScanSlot, Within, Goto, nodeVars, pushVars, popVars, reclaimVars
<1>14. QED
  BY <1>2, <1>3, <1>4, <1>5, <1>6, <1>7, <1>8, <1>9, <1>10, <1>11, <1>12, <1>13

\* The hands of a producer.
LEMMA ProducerHolds ==
  ASSUME IInv, NEW t \in Producers, pc[t] = "link"
  PROVE  /\ node[t] \in Heap /\ node[t] \in Fresh /\ node[t] \in alive
         /\ node[t] \notin ToSet(OnStack)
<1>1. node[t] \in Heap /\ node[t] \in Fresh
  BY DEF IInv, Locals, TypeOK, Fresh
<1>2. QED
  BY <1>1, Whereabouts DEF IInv

\* A consumer takes part in Unlinked and Retired with what it holds.
LEMMA UnlinkedHeld ==
  ASSUME Placed, TypeOK, NEW n \in Unlinked
  PROVE  /\ n \in alive /\ n \notin ToSet(OnStack) /\ n \notin Fresh
         /\ \E u \in Consumers : HasUnlinked(u) /\ old[u] = n /\ n \in Held(u)
<1>1. PICK u \in Consumers : HasUnlinked(u) /\ old[u] = n
  BY DEF Unlinked
<1>2. n \in Held(u)
  BY <1>1 DEF Held
<1>3. QED
  BY <1>1, <1>2, Whereabouts

\* Nodes with items are allocated.
LEMMA CarryingAlive ==
  ASSUME Placed, TypeOK
  PROVE  Carrying \subseteq alive
  BY Whereabouts, UnlinkedHeld DEF Carrying

\* A new node, with a new item.
LEMMA NewNodeStep ==
  ASSUME IInv, TypeOK', NEW t \in Producers, Mine(t), NewNode(t)
  PROVE  Core'
<1> USE DEF IInv
<1>1. PICK n \in Heap \ alive :
        /\ alive' = alive \cup {n}
        /\ next' = [next EXCEPT ![n] = head]
        /\ data' = [data EXCEPT ![n] = made + 1]
        /\ node' = [node EXCEPT ![t] = n]
  BY DEF NewNode
<1>2. /\ made' = made + 1 /\ head' = head /\ got' = got /\ reclaim' = reclaim
      /\ mine' = mine /\ count' = count /\ pc[t] = "push" /\ old' = old
  BY DEF NewNode, Within, Goto, popVars, reclaimVars
<1>3. t \notin Consumers /\ t \in Places
  BY Ids, PlacesAre
<1>4. OnStack' = OnStack /\ StackIsList'
  <2>1. \A m \in ToSet(OnStack) : m # n /\ m \in Heap
    BY <1>1, Whereabouts DEF TypeOK
  <2>2. \A m \in ToSet(OnStack) : next'[m] = next[m]
    BY <1>1, <2>1 DEF TypeOK
  <2>3. QED
    BY <1>2, <2>2, StackKept DEF TypeOK
<1>5. /\ \A u \in Consumers : Held(u)' = Held(u) /\ ToReclaim(u)' = ToReclaim(u)
      /\ \A u \in Consumers : HasUnlinked(u)' <=> HasUnlinked(u)
  BY <1>3, HeldKept
<1>6. node[t] = Null /\ node'[t] = n /\ \A u \in Producers : u # t => node'[u] = node[u]
  BY <1>1, <1>2 DEF Locals, TypeOK
<1>7. n # Null
  BY HeapFacts
<1>8. Placed'
  <2>1. NodesAt'[t] = NodesAt[t] \cup {n}
    BY <1>6, <1>7, NodesAtContents, NodesAtContentsNext DEF Contents
  <2>2. ASSUME NEW p \in Places, p # t PROVE NodesAt'[p] = NodesAt[p]
    <3>1. CASE p \in {Stack, ReclaimList}
      BY <1>2, <1>4, <3>1, NodesAtContents, NodesAtContentsNext DEF Contents
    <3>2. CASE p \in Producers
      <4>1. NodesAt[p] = {node[p]} \ {Null}
        BY <3>2, NodesAtContents DEF Contents
      <4>2. NodesAt'[p] = {node'[p]} \ {Null}
        BY <3>2, NodesAtContentsNext DEF Contents
      <4>3. QED
        BY <1>6, <2>2, <3>2, <4>1, <4>2
    <3>3. CASE p \in Consumers
      BY <1>5, <3>3, NodesAtContents, NodesAtContentsNext DEF Contents
    <3>4. QED
      BY <3>1, <3>2, <3>3, PlacesAre
  <2>3. n \notin UNION {NodesAt[p] : p \in Places}
    BY <1>1 DEF Placed
  <2>4. /\ \A p, q \in Places : p # q => NodesAt'[p] \cap NodesAt'[q] = {}
        /\ UNION {NodesAt'[p] : p \in Places} = (UNION {NodesAt[p] : p \in Places}) \cup {n}
    BY <1>3, <2>1, <2>2, <2>3, Added DEF Placed, Apart
  <2>5. QED
    BY <1>1, <1>2, <2>4 DEF Placed, Apart
<1>9. Carrying' = Carrying \cup {n}
  <2>1. Fresh' = Fresh \cup {n}
    BY <1>6, <1>7 DEF Fresh
  <2>2. Unlinked' = Unlinked
    BY <1>2, <1>5 DEF Unlinked
  <2>3. QED
    BY <1>4, <2>1, <2>2 DEF Carrying
<1>10. ItemsOnce'
  <2>1. n \notin Carrying /\ Carrying \subseteq Heap
    BY <1>1, CarryingAlive DEF TypeOK
  <2>2. data'[n] = made + 1 /\ \A m \in Carrying : data'[m] = data[m]
    BY <1>1, <2>1 DEF TypeOK
  <2>3. /\ \A m \in Carrying : data[m] \in 1 .. made
        /\ \A x \in 1 .. made : x \in got \/ \E m \in Carrying : x = data[m]
        /\ \A m \in Carrying : data[m] \notin got
        /\ \A m, o \in Carrying : data[m] = data[o] => m = o
        /\ got \subseteq 1 .. made /\ made \in Nat
    BY DEF ItemsOnce, TypeOK
  <2>4. /\ 1 .. made' = (1 .. made) \cup {made + 1} /\ made + 1 \notin 1 .. made
    BY <1>2, <2>3
  <2>5. {data'[m] : m \in Carrying'} = {data[m] : m \in Carrying} \cup {made + 1}
    BY <1>9, <2>2
  <2>6. \A m, o \in Carrying' : data'[m] = data'[o] => m = o
    BY <1>9, <2>2, <2>3, <2>4
  <2> DEFINE was == {data[m] : m \in Carrying}
             is == {data'[m] : m \in Carrying'}
  <2>7. was \cup got = 1 .. made /\ was \cap got = {} /\ is = was \cup {made + 1}
    BY <2>5 DEF ItemsOnce
  <2> HIDE DEF was, is
  <2>8. is \cup got' = 1 .. made' /\ is \cap got' = {}
    BY <1>2, <2>3, <2>4, <2>7
  <2>9. QED
    BY <2>6, <2>8 DEF ItemsOnce, is
<1>11. CountsRetired'
  <2>1. Retired' = Retired
    BY <1>2, <1>5 DEF Retired
  <2>2. QED
    BY <1>2, <1>3, <2>1, CountKept
<1>12. QED
  BY <1>4, <1>8, <1>10, <1>11 DEF Core

\* The node goes from the producer's hands to the top of the stack.
LEMMA LinkStep ==
  ASSUME IInv, TypeOK', NEW t \in Producers, Mine(t), Link(t)
  PROVE  /\ Core'
         /\ Height' = Height + 1
         /\ OnStack' = [i \in 1 .. Height + 1 |-> IF i = 1 THEN node[t] ELSE OnStack[i - 1]]
<1> USE DEF IInv
<1> DEFINE n == node[t]
           s2 == [i \in 1 .. Height + 1 |-> IF i = 1 THEN n ELSE OnStack[i - 1]]
<1>1. /\ pc[t] = "link" /\ head = next[n] /\ head' = n /\ next' = next /\ data' = data
      /\ alive' = alive /\ made' = made /\ got' = got /\ reclaim' = reclaim
      /\ mine' = mine /\ count' = count /\ old' = old
  BY DEF Link, EndIteration, Goto, nodeVars, popVars, reclaimVars
<1>2. /\ n \in Heap /\ n \in Fresh /\ n \in alive /\ n \notin ToSet(OnStack) /\ n # Null
  BY <1>1, ProducerHolds, HeapFacts
<1>3. t \notin Consumers /\ t \in Places /\ Stack \in Places /\ t # Stack
  BY Ids, PlacesAre
<1>4. node'[t] = Null /\ \A u \in Producers : u # t => node'[u] = node[u]
  BY DEF Link, TypeOK
<1>5. OnStack' = s2 /\ Height' = Height + 1 /\ StackIsList' /\ ToSet(s2) = ToSet(OnStack) \cup {n}
  <2>1. IsList(s2, Height + 1, n, next) /\ ToSet(s2) = ToSet(OnStack) \cup {n}
    BY <1>1, <1>2, ListLonger DEF StackIsList
  <2> HIDE DEF s2
  <2>2. IsList(s2, Height + 1, head', next')
    BY <1>1, <2>1
  <2>3. Height' = Height + 1 /\ OnStack' = s2
    BY <2>2, OnStackIsItNext DEF OneList, TypeOK
  <2>4. QED
    BY <2>1, <2>2, <2>3 DEF StackIsList
<1> HIDE DEF s2
<1>6. /\ \A u \in Consumers : Held(u)' = Held(u) /\ ToReclaim(u)' = ToReclaim(u)
      /\ \A u \in Consumers : HasUnlinked(u)' <=> HasUnlinked(u)
  BY <1>3, HeldKept
<1>7. Placed'
  <2>1. NodesAt[t] = {n} /\ NodesAt'[t] = NodesAt[t] \ {n}
    BY <1>2, <1>4, NodesAtContents, NodesAtContentsNext DEF Contents
  <2>2. NodesAt'[Stack] = NodesAt[Stack] \cup {n}
    BY <1>5, NodesAtContents, NodesAtContentsNext DEF Contents
  <2>3. \A p \in Places : p # t /\ p # Stack => NodesAt'[p] = NodesAt[p]
    BY <1>1, <1>4, <1>6, PlacesAre, NodesAtContents, NodesAtContentsNext DEF Contents
  <2>4. /\ \A p, q \in Places : p # q => NodesAt'[p] \cap NodesAt'[q] = {}
        /\ UNION {NodesAt'[p] : p \in Places} = UNION {NodesAt[p] : p \in Places}
    <3>1. {n} \subseteq NodesAt[t]
      BY <2>1
    <3>2. QED
      BY <1>3, <2>1, <2>2, <2>3, <3>1, Moved DEF Placed, Apart
  <2>5. QED
    BY <1>1, <2>4 DEF Placed, Apart
<1>8. Carrying' = Carrying
  <2>1. Fresh = Fresh' \cup {n}
    BY <1>2, <1>4 DEF Fresh
  <2>2. Unlinked' = Unlinked
    BY <1>1, <1>6 DEF Unlinked
  <2>3. QED
    BY <1>5, <2>1, <2>2 DEF Carrying
<1>9. ItemsOnce'
  BY <1>1, <1>8, ItemsKept
<1>10. CountsRetired'
  <2>1. Retired' = Retired
    BY <1>1, <1>6 DEF Retired
  <2>2. QED
    BY <1>1, <1>3, <2>1, CountKept
<1>11. QED
  BY <1>5, <1>7, <1>9, <1>10 DEF Core, s2

\* A producer sets the link of its own node only.
LEMMA LinkFailsStep ==
  ASSUME IInv, TypeOK', NEW t \in Producers, Mine(t), LinkFails(t)
  PROVE  Core'
<1> USE DEF IInv
<1>1. /\ pc[t] = "link" /\ head' = head /\ next' = [next EXCEPT ![node[t]] = head]
      /\ data' = data /\ alive' = alive /\ node' = node /\ made' = made /\ got' = got
      /\ reclaim' = reclaim /\ mine' = mine /\ count' = count /\ old' = old
  BY DEF LinkFails, pushVars, popVars, reclaimVars
<1>2. OnStack' = OnStack /\ StackIsList'
  <2>1. \A m \in ToSet(OnStack) : m # node[t] /\ m \in Heap
    BY <1>1, ProducerHolds, Whereabouts DEF TypeOK
  <2>2. \A m \in ToSet(OnStack) : next'[m] = next[m]
    BY <1>1, <2>1 DEF TypeOK
  <2>3. QED
    BY <1>1, <2>2, StackKept DEF TypeOK
<1>3. t \notin Consumers
  BY Ids
<1>4. /\ \A u \in Consumers : Held(u)' = Held(u) /\ ToReclaim(u)' = ToReclaim(u)
      /\ \A u \in Consumers : HasUnlinked(u)' <=> HasUnlinked(u)
  BY <1>3, HeldKept
<1>5. Placed'
  BY <1>1, <1>2, <1>4, PlacesKept
<1>6. Carrying' = Carrying
  BY <1>1, <1>2, <1>4 DEF Carrying, Fresh, Unlinked
<1>7. ItemsOnce'
  BY <1>1, <1>6, ItemsKept
<1>8. Retired' = Retired
  BY <1>1, <1>4 DEF Retired
<1>9. CountsRetired'
  BY <1>1, <1>3, <1>8, CountKept
<1>10. QED
  BY <1>2, <1>5, <1>7, <1>9 DEF Core

\* The node on top goes to the hands of the consumer that unlinks it.
LEMMA UnlinkStep ==
  ASSUME IInv, TypeOK', Locals', NEW t \in Consumers, Mine(t), Unlink(t)
  PROVE  /\ Core'
         /\ Height > 0 /\ Height' = Height - 1
         /\ OnStack' = [i \in 1 .. Height - 1 |-> OnStack[i + 1]]
<1> USE DEF IInv
<1> DEFINE n == old[t]
           s2 == [i \in 1 .. Height - 1 |-> OnStack[i + 1]]
<1>1. /\ pc[t] = "cas" /\ pc'[t] = "clear" /\ head = n /\ head' = nx[t] /\ next' = next
      /\ data' = data /\ alive' = alive /\ node' = node /\ made' = made /\ got' = got
      /\ reclaim' = reclaim /\ mine' = mine /\ count' = count /\ old' = old
  BY Ids DEF Unlink, Within, Goto, nodeVars, pushVars, reclaimVars, TypeOK, DriverTypeOK
<1>2. n # Null /\ nx[t] = next[n]
  BY <1>1 DEF Locals, Protected
<1>3. t \in Places /\ Stack \in Places /\ t # Stack
  BY Ids, PlacesAre
<1>4. /\ OnStack' = s2 /\ Height' = Height - 1 /\ StackIsList'
      /\ ToSet(s2) = ToSet(OnStack) \ {n} /\ n \in ToSet(OnStack) /\ Height > 0
  <2>1. /\ IsList(s2, Height - 1, next[n], next) /\ ToSet(s2) = ToSet(OnStack) \ {n}
        /\ n \in ToSet(OnStack) /\ Height > 0
    BY <1>1, <1>2, ListShorter DEF StackIsList
  <2> HIDE DEF s2
  <2>2. IsList(s2, Height - 1, head', next')
    BY <1>1, <1>2, <2>1
  <2>3. Height' = Height - 1 /\ OnStack' = s2
    BY <2>2, OnStackIsItNext DEF OneList, TypeOK
  <2>4. QED
    BY <2>1, <2>2, <2>3 DEF StackIsList
<1> HIDE DEF s2
<1>5. /\ Held(t) = {} /\ Held(t)' = {n} /\ ToReclaim(t) = <<>> /\ ToReclaim(t)' = <<>>
  BY <1>1, <1>2, HoldingsHold, HoldingsNext DEF Holdings, Holding
<1>6. \A u \in Consumers : u # t => /\ Held(u)' = Held(u) /\ ToReclaim(u)' = ToReclaim(u)
                                    /\ HasUnlinked(u)' <=> HasUnlinked(u)
  BY HeldKept
<1>7. Placed'
  <2>1. NodesAt'[t] = NodesAt[t] \cup {n}
    BY <1>5, NodesAtContents, NodesAtContentsNext DEF Contents
  <2>2. NodesAt'[Stack] = NodesAt[Stack] \ {n} /\ {n} \subseteq NodesAt[Stack]
    BY <1>4, NodesAtContents, NodesAtContentsNext DEF Contents
  <2>3. \A p \in Places : p # Stack /\ p # t => NodesAt'[p] = NodesAt[p]
    BY <1>1, <1>6, PlacesAre, NodesAtContents, NodesAtContentsNext DEF Contents
  <2>4. /\ \A p, q \in Places : p # q => NodesAt'[p] \cap NodesAt'[q] = {}
        /\ UNION {NodesAt'[p] : p \in Places} = UNION {NodesAt[p] : p \in Places}
    BY <1>3, <2>1, <2>2, <2>3, Moved DEF Placed, Apart
  <2>5. QED
    BY <1>1, <2>4 DEF Placed, Apart
<1>8. Carrying' = Carrying
  <2>1. ~HasUnlinked(t) /\ HasUnlinked(t)'
    BY <1>1, <1>2 DEF HasUnlinked
  <2>2. Unlinked' = Unlinked \cup {n}
    BY <1>1, <1>6, <2>1 DEF Unlinked
  <2>3. QED
    BY <1>1, <1>4, <2>2 DEF Carrying, Fresh
<1>9. ItemsOnce'
  BY <1>1, <1>8, ItemsKept
<1>10. CountsRetired'
  <2>1. Retired' = Retired
    BY <1>1, <1>5, <1>6 DEF Retired
  <2>2. QED
    BY <1>1, <2>1, CountKept
<1>11. QED
  BY <1>4, <1>7, <1>9, <1>10 DEF Core, s2

\* The node goes from the hands of the consumer that popped it to the reclaim
\* list, and its item to the caller.
LEMMA RetireStep ==
  ASSUME IInv, TypeOK', Locals', NEW t \in Consumers, Mine(t), Retire(t)
  PROVE  Core'
<1> USE DEF IInv
<1> DEFINE n == old[t]
<1>1. /\ pc[t] = "retire" /\ pc'[t] = "count" /\ head' = head /\ next' = next
      /\ alive' = alive /\ node' = node /\ made' = made /\ count' = count /\ mine' = mine
      /\ reclaim' = <<n>> \o reclaim /\ got' = got \cup {data[n]}
      /\ data' = [data EXCEPT ![n] = 0]
  BY Ids DEF Retire, Within, Goto, pushVars, TypeOK, DriverTypeOK
<1>2. n \in Heap /\ HasUnlinked(t) /\ ~HasUnlinked(t)'
  BY <1>1 DEF Locals, HasUnlinked, TypeOK
<1>3. t \in Places /\ ReclaimList \in Places /\ t # ReclaimList
  BY PlacesAre
<1>4. /\ Held(t) = {n} /\ Held(t)' = {} /\ ToReclaim(t) = <<>> /\ ToReclaim(t)' = <<>>
  BY <1>1, HoldingsHold, HoldingsNext DEF Holdings, Holding
<1>5. /\ n \in alive /\ n \notin ToSet(OnStack) /\ n \notin Fresh /\ n \notin ToSet(reclaim)
      /\ \A u \in Consumers : u # t => n \notin Held(u)
  BY <1>4, Whereabouts
<1>6. \A u \in Consumers : u # t => /\ Held(u)' = Held(u) /\ ToReclaim(u)' = ToReclaim(u)
                                    /\ HasUnlinked(u)' <=> HasUnlinked(u)
                                    /\ old'[u] = old[u]
  BY HeldKept
<1>7. OnStack' = OnStack /\ StackIsList'
  BY <1>1, StackKept DEF TypeOK
<1>8. /\ ToSet(reclaim') = ToSet(reclaim) \cup {n} /\ IsInjective(reclaim')
  BY <1>1, <1>2, <1>5, InFront DEF Placed, TypeOK
<1>9. Placed'
  <2>1. NodesAt'[t] = NodesAt[t] \ {n} /\ {n} \subseteq NodesAt[t]
    BY <1>4, NodesAtContents, NodesAtContentsNext DEF Contents
  <2>2. NodesAt'[ReclaimList] = NodesAt[ReclaimList] \cup {n}
    BY <1>8, NodesAtContents, NodesAtContentsNext DEF Contents
  <2>3. \A p \in Places : p # ReclaimList /\ p # t => NodesAt'[p] = NodesAt[p]
    BY <1>1, <1>6, <1>7, PlacesAre, NodesAtContents, NodesAtContentsNext DEF Contents
  <2>4. /\ \A p, q \in Places : p # q => NodesAt'[p] \cap NodesAt'[q] = {}
        /\ UNION {NodesAt'[p] : p \in Places} = UNION {NodesAt[p] : p \in Places}
    BY <1>3, <2>1, <2>2, <2>3, Moved DEF Placed, Apart
  <2>5. QED
    BY <1>1, <1>8, <2>4 DEF Placed, Apart
<1>10. Carrying' = Carrying \ {n} /\ n \in Carrying
  <2>1. n \in Unlinked
    BY <1>2 DEF Unlinked
  <2>2. \A u \in Consumers : u # t /\ HasUnlinked(u) => old[u] # n
    BY <1>5 DEF Held
  <2>3. Unlinked' = Unlinked \ {n}
    BY <1>2, <1>6, <2>2 DEF Unlinked
  <2>4. Fresh' = Fresh
    BY <1>1 DEF Fresh
  <2>5. QED
    BY <1>5, <1>7, <2>1, <2>3, <2>4 DEF Carrying
<1>11. ItemsOnce'
  <2>1. Carrying \subseteq Heap
    BY CarryingAlive DEF TypeOK
  <2>2. \A m \in Carrying' : data'[m] = data[m]
    BY <1>1, <1>10, <2>1 DEF TypeOK
  <2>3. \A m, o \in Carrying : data[m] = data[o] => m = o
    BY DEF ItemsOnce
  <2> DEFINE was == {data[m] : m \in Carrying}
             is == {data'[m] : m \in Carrying'}
  <2>4. is = was \ {data[n]} /\ data[n] \in was
    BY <1>10, <2>2, <2>3
  <2>5. was \cup got = 1 .. made /\ was \cap got = {}
    BY DEF ItemsOnce
  <2>6. \A m, o \in Carrying' : data'[m] = data'[o] => m = o
    BY <1>10, <2>2, <2>3
  <2> HIDE DEF was, is
  <2>7. is \cup got' = 1 .. made' /\ is \cap got' = {}
    BY <1>1, <2>4, <2>5
  <2>8. QED
    BY <2>6, <2>7 DEF ItemsOnce, is
<1>12. CountsRetired'
  <2>1. Retired' = Retired \cup {n}
    BY <1>4, <1>6, <1>8, NothingInEmpty DEF Retired
  <2>2. n \notin Retired
    BY <1>4, <1>5, NothingInEmpty DEF Retired, Held
  <2>3. Cardinality(Retired') = Cardinality(Retired) + 1 /\ Cardinality(Retired) \in Nat
    BY <2>1, <2>2, RetiredFinite, FS_AddElement
  <2>4. /\ Cardinality(At("count")') = Cardinality(At("count")) + 1
        /\ At("uncount")' = At("uncount")
        /\ Cardinality(At("count")) \in Nat /\ Cardinality(At("uncount")) \in Nat
    BY <1>1, AtChanges
  <2>5. /\ count \in Int /\ count' = count
        /\ count + Cardinality(At("count")) = Cardinality(Retired) + Cardinality(At("uncount"))
    BY <1>1, CountIsIt DEF CountIs, TypeOK
  <2>6. QED
    BY <2>3, <2>4, <2>5, CountIsItNext DEF CountIs
<1>13. QED
  BY <1>7, <1>9, <1>11, <1>12 DEF Core

\* Steps that move neither items nor the stack's nodes.
LEMMA ItemsStay ==
  ASSUME IInv, NEW t \in Consumers, Mine(t), head' = head, next' \in [Heap -> Heap \cup {Null}],
         \A n \in ToSet(OnStack) : next'[n] = next[n],
         data' = data, node' = node, made' = made, got' = got,
         ~HasUnlinked(t), ~HasUnlinked(t)'
  PROVE  OnStack' = OnStack /\ StackIsList' /\ ItemsOnce'
<1> USE DEF IInv
<1>1. OnStack' = OnStack /\ StackIsList'
  BY StackKept
<1>2. \A u \in Consumers : u # t => /\ HasUnlinked(u)' <=> HasUnlinked(u)
                                    /\ old'[u] = old[u]
  BY HeldKept
<1>3. Unlinked' = Unlinked
  BY <1>2 DEF Unlinked
<1>4. Carrying' = Carrying
  BY <1>1, <1>3 DEF Carrying, Fresh
<1>5. QED
  BY <1>1, <1>4, ItemsKept

\* The node that was retired is counted.
LEMMA CountUpStep ==
  ASSUME IInv, TypeOK', Locals', NEW t \in Consumers, Mine(t), CountUp(t)
  PROVE  Core'
<1> USE DEF IInv
<1>1. /\ pc[t] = "count" /\ pc'[t] = "check" /\ head' = head /\ next' = next /\ data' = data
      /\ alive' = alive /\ node' = node /\ made' = made /\ got' = got /\ mine' = mine
      /\ reclaim' = reclaim /\ count' = count + 1
  BY Ids DEF CountUp, Within, Goto, nodeVars, pushVars, popVars, TypeOK, DriverTypeOK
<1>2. OnStack' = OnStack /\ StackIsList' /\ ItemsOnce'
  BY <1>1, ItemsStay DEF HasUnlinked, TypeOK
<1>3. /\ Held(t) = {} /\ Held(t)' = {} /\ ToReclaim(t) = <<>> /\ ToReclaim(t)' = <<>>
  BY <1>1, HoldingsHold, HoldingsNext DEF Holdings, Holding
<1>4. \A u \in Consumers : Held(u)' = Held(u) /\ ToReclaim(u)' = ToReclaim(u)
  BY <1>3, HeldKept
<1>5. Placed'
  BY <1>1, <1>2, <1>4, PlacesKept
<1>6. CountsRetired'
  <2>1. Retired' = Retired
    BY <1>1, <1>4 DEF Retired
  <2>2. /\ Cardinality(At("count")') = Cardinality(At("count")) - 1
        /\ At("uncount")' = At("uncount")
        /\ Cardinality(At("count")) \in Nat /\ Cardinality(At("uncount")) \in Nat
    BY <1>1, AtChanges
  <2>3. /\ count \in Int
        /\ count + Cardinality(At("count")) = Cardinality(Retired) + Cardinality(At("uncount"))
    BY CountIsIt DEF CountIs, TypeOK
  <2>4. QED
    BY <1>1, <2>1, <2>2, RetiredFinite, <2>3, CountIsItNext DEF CountIs
<1>7. QED
  BY <1>2, <1>5, <1>6 DEF Core

\* The labels to which the loop over the list goes on.
LEMMA NextRetiredLabels ==
  ASSUME TypeOK, NEW t \in Consumers, NEW here, NEW rest, NextRetired(t, here, rest)
  PROVE  /\ pc[t] = here /\ mine'[t] = rest /\ k'[t] = StartCid
         /\ pc'[t] \in {"scan", "load", "end"}
  BY Ids DEF NextRetired, PopReturns, Within, Goto, TypeOK, DriverTypeOK

\* All the nodes of the list go to the consumer that takes it.
LEMMA TakeStep ==
  ASSUME IInv, TypeOK', Locals', NEW t \in Consumers, Mine(t), Take(t)
  PROVE  Core'
<1> USE DEF IInv
<1>1. /\ pc[t] = "take" /\ pc'[t] \in {"scan", "load", "end"}
      /\ head' = head /\ next' = next /\ data' = data
      /\ alive' = alive /\ node' = node /\ made' = made /\ got' = got
      /\ mine'[t] = reclaim /\ reclaim' = <<>> /\ count' = count
  BY NextRetiredLabels DEF Take, nodeVars, pushVars, popVars
<1>2. OnStack' = OnStack /\ StackIsList' /\ ItemsOnce'
  BY <1>1, ItemsStay DEF HasUnlinked, TypeOK
<1>3. t \in Places /\ ReclaimList \in Places /\ t # ReclaimList
  BY PlacesAre
<1>4. Held(t) = {} /\ ToReclaim(t) = <<>>
  BY <1>1, HoldingsHold DEF Holdings, Holding
<1>5. Held(t)' = ToSet(reclaim) /\ ToReclaim(t)' = reclaim
  BY <1>1 DEF Held, HasUnlinked, ToReclaim
<1>6. \A u \in Consumers : u # t => /\ Held(u)' = Held(u) /\ ToReclaim(u)' = ToReclaim(u)
                                    /\ mine'[u] = mine[u]
  BY HeldKept
<1>7. Placed'
  <2>1. NodesAt'[ReclaimList] = NodesAt[ReclaimList] \ ToSet(reclaim)
    BY <1>1, NothingInEmpty, NodesAtContents, NodesAtContentsNext DEF Contents
  <2>2. NodesAt'[t] = NodesAt[t] \cup ToSet(reclaim)
    BY <1>4, <1>5, NodesAtContents, NodesAtContentsNext DEF Contents
  <2>3. \A p \in Places : p # ReclaimList /\ p # t => NodesAt'[p] = NodesAt[p]
    BY <1>1, <1>2, <1>6, PlacesAre, NodesAtContents, NodesAtContentsNext DEF Contents
  <2>4. ToSet(reclaim) \subseteq NodesAt[ReclaimList]
    BY NodesAtContents DEF Contents
  <2>5. /\ \A p, q \in Places : p # q => NodesAt'[p] \cap NodesAt'[q] = {}
        /\ UNION {NodesAt'[p] : p \in Places} = UNION {NodesAt[p] : p \in Places}
    BY <1>3, <2>1, <2>2, <2>3, <2>4, Moved DEF Placed, Apart
  <2>6. IsInjective(reclaim') /\ \A u \in Consumers : IsInjective(mine'[u])
    BY <1>1, <1>6 DEF Placed, IsInjective
  <2>7. QED
    BY <1>1, <2>5, <2>6 DEF Placed, Apart
<1>8. CountsRetired'
  <2>1. Retired' = Retired
    BY <1>1, <1>4, <1>5, <1>6, NothingInEmpty DEF Retired
  <2>2. QED
    BY <1>1, <2>1, CountKept
<1>9. QED
  BY <1>2, <1>7, <1>8 DEF Core

\* The first node of the rest of the list.
LEMMA FirstHeld ==
  ASSUME IInv, NEW t \in Consumers, pc[t] \in {"scan", "keep", "delete"}
  PROVE  /\ mine[t] \in Seq(Heap) /\ mine[t] # <<>> /\ Head(mine[t]) \in Heap
         /\ Held(t) = ToSet(mine[t]) /\ Head(mine[t]) \in Held(t)
         /\ ToReclaim(t) = mine[t]
         /\ IsInjective(Tail(mine[t]))
         /\ ToSet(Tail(mine[t])) = ToSet(mine[t]) \ {Head(mine[t])}
         /\ Head(mine[t]) \in alive /\ Head(mine[t]) \notin ToSet(OnStack)
         /\ Head(mine[t]) \notin Fresh /\ Head(mine[t]) \notin ToSet(reclaim)
         /\ \A u \in Consumers : u # t => Head(mine[t]) \notin Held(u)
<1> USE DEF IInv
<1>1. mine[t] \in Seq(Heap) /\ mine[t] # <<>> /\ IsInjective(mine[t])
  BY DEF Locals, TypeOK, Placed
<1>2. Held(t) = ToSet(mine[t]) /\ ToReclaim(t) = mine[t]
  BY HoldingsHold DEF Holdings, Holding
<1>3. /\ Head(mine[t]) \in Heap /\ Head(mine[t]) \in ToSet(mine[t])
      /\ IsInjective(Tail(mine[t]))
      /\ ToSet(Tail(mine[t])) = ToSet(mine[t]) \ {Head(mine[t])}
  BY <1>1, Rest
<1>4. QED
  BY <1>1, <1>2, <1>3, Whereabouts

\* A node goes from the consumer's list back to the shared one.
LEMMA KeepStep ==
  ASSUME IInv, TypeOK', Locals', NEW t \in Consumers, Mine(t), Keep(t)
  PROVE  Core'
<1> USE DEF IInv
<1> DEFINE n == Head(mine[t])
<1>1. /\ pc[t] = "keep" /\ pc'[t] \in {"scan", "load", "end"}
      /\ head' = head /\ next' = next /\ data' = data
      /\ alive' = alive /\ node' = node /\ made' = made /\ got' = got
      /\ mine'[t] = Tail(mine[t]) /\ reclaim' = <<n>> \o reclaim /\ count' = count
  BY NextRetiredLabels DEF Keep, nodeVars, pushVars, popVars
<1>2. OnStack' = OnStack /\ StackIsList' /\ ItemsOnce'
  BY <1>1, ItemsStay DEF HasUnlinked, TypeOK
<1>3. t \in Places /\ ReclaimList \in Places /\ t # ReclaimList
  BY PlacesAre
<1>4. /\ n \in Heap /\ n \in Held(t) /\ Held(t) = ToSet(mine[t]) /\ ToReclaim(t) = mine[t]
      /\ IsInjective(Tail(mine[t])) /\ ToSet(Tail(mine[t])) = ToSet(mine[t]) \ {n}
      /\ n \notin ToSet(reclaim)
  BY <1>1, FirstHeld
<1>5. Held(t)' = ToSet(Tail(mine[t])) /\ ToReclaim(t)' = Tail(mine[t])
  BY <1>1 DEF Held, HasUnlinked, ToReclaim
<1> HIDE DEF n
<1>6. \A u \in Consumers : u # t => /\ Held(u)' = Held(u) /\ ToReclaim(u)' = ToReclaim(u)
                                    /\ mine'[u] = mine[u]
  BY HeldKept
<1>7. ToSet(reclaim') = ToSet(reclaim) \cup {n} /\ IsInjective(reclaim')
  BY <1>1, <1>4, InFront DEF Placed, TypeOK
<1>8. Placed'
  <2>1. NodesAt'[t] = NodesAt[t] \ {n} /\ {n} \subseteq NodesAt[t]
    BY <1>4, <1>5, NodesAtContents, NodesAtContentsNext DEF Contents
  <2>2. NodesAt'[ReclaimList] = NodesAt[ReclaimList] \cup {n}
    BY <1>7, NodesAtContents, NodesAtContentsNext DEF Contents
  <2>3. \A p \in Places : p # ReclaimList /\ p # t => NodesAt'[p] = NodesAt[p]
    BY <1>1, <1>2, <1>6, PlacesAre, NodesAtContents, NodesAtContentsNext DEF Contents
  <2>4. /\ \A p, q \in Places : p # q => NodesAt'[p] \cap NodesAt'[q] = {}
        /\ UNION {NodesAt'[p] : p \in Places} = UNION {NodesAt[p] : p \in Places}
    BY <1>3, <2>1, <2>2, <2>3, Moved DEF Placed, Apart
  <2>5. \A u \in Consumers : IsInjective(mine'[u])
    BY <1>1, <1>4, <1>6 DEF Placed
  <2>6. QED
    BY <1>1, <1>7, <2>4, <2>5 DEF Placed, Apart
<1>9. CountsRetired'
  <2>1. ToSet(ToReclaim(t)) = ToSet(ToReclaim(t)') \cup {n}
    BY <1>4, <1>5
  <2>2. Retired' = Retired
    BY <1>6, <1>7, <2>1 DEF Retired
  <2>3. QED
    BY <1>1, <2>2, CountKept
<1>10. QED
  BY <1>2, <1>8, <1>9 DEF Core

\* A node is deleted.
LEMMA DeleteStep ==
  ASSUME IInv, TypeOK', Locals', NEW t \in Consumers, Mine(t), Delete(t)
  PROVE  Core'
<1> USE DEF IInv
<1> DEFINE n == Head(mine[t])
<1>1. /\ pc[t] = "delete" /\ pc'[t] = "uncount" /\ head' = head /\ data' = data
      /\ node' = node /\ made' = made /\ got' = got /\ mine' = mine
      /\ reclaim' = reclaim /\ count' = count
      /\ alive' = alive \ {n} /\ next' = [next EXCEPT ![n] = Null]
  BY Ids DEF Delete, Within, Goto, pushVars, popVars, reclaimVars, TypeOK, DriverTypeOK
<1>2. /\ n \in Heap /\ n \in Held(t) /\ Held(t) = ToSet(mine[t]) /\ ToReclaim(t) = mine[t]
      /\ ToSet(Tail(mine[t])) = ToSet(mine[t]) \ {n}
      /\ n \notin ToSet(OnStack) /\ n \notin ToSet(reclaim)
      /\ \A u \in Consumers : u # t => n \notin Held(u)
  BY <1>1, FirstHeld
<1>3. Held(t)' = ToSet(Tail(mine[t])) /\ ToReclaim(t)' = Tail(mine[t])
  BY <1>1 DEF Held, HasUnlinked, ToReclaim
<1> HIDE DEF n
<1>4. OnStack' = OnStack /\ StackIsList' /\ ItemsOnce'
  <2>1. \A m \in ToSet(OnStack) : next'[m] = next[m]
    BY <1>1, <1>2, Whereabouts DEF TypeOK
  <2>2. QED
    BY <1>1, <2>1, ItemsStay DEF HasUnlinked, TypeOK
<1>5. \A u \in Consumers : u # t => Held(u)' = Held(u) /\ ToReclaim(u)' = ToReclaim(u)
  BY HeldKept
<1>6. Placed'
  <2>1. NodesAt'[t] = NodesAt[t] \ {n} /\ n \in NodesAt[t] /\ t \in Places
    BY <1>2, <1>3, PlacesAre, NodesAtContents, NodesAtContentsNext DEF Contents
  <2>2. \A p \in Places : p # t => NodesAt'[p] = NodesAt[p]
    BY <1>1, <1>4, <1>5, PlacesAre, NodesAtContents, NodesAtContentsNext DEF Contents
  <2>3. /\ \A p, q \in Places : p # q => NodesAt'[p] \cap NodesAt'[q] = {}
        /\ UNION {NodesAt'[p] : p \in Places} = (UNION {NodesAt[p] : p \in Places}) \ {n}
    BY <2>1, <2>2, Dropped DEF Placed, Apart
  <2>4. QED
    BY <1>1, <2>3 DEF Placed, Apart
<1>7. CountsRetired'
  <2>1. ToSet(ToReclaim(t)') = ToSet(ToReclaim(t)) \ {n} /\ n \in ToSet(ToReclaim(t))
    BY <1>2, <1>3
  <2>2. \A u \in Consumers : u # t => n \notin ToSet(ToReclaim(u))
    BY <1>2 DEF Held
  <2>3. Retired' = Retired \ {n} /\ n \in Retired
    BY <1>1, <1>2, <1>5, <2>1, <2>2 DEF Retired
  <2>4. Cardinality(Retired') = Cardinality(Retired) - 1 /\ Cardinality(Retired) \in Nat
    BY <2>3, RetiredFinite, FS_RemoveElement
  <2>5. /\ Cardinality(At("uncount")') = Cardinality(At("uncount")) + 1
        /\ At("count")' = At("count")
        /\ Cardinality(At("count")) \in Nat /\ Cardinality(At("uncount")) \in Nat
    BY <1>1, AtChanges
  <2>6. /\ count \in Int
        /\ count + Cardinality(At("count")) = Cardinality(Retired) + Cardinality(At("uncount"))
    BY CountIsIt DEF CountIs, TypeOK
  <2>7. QED
    BY <1>1, <2>4, <2>5, <2>6, CountIsItNext DEF CountIs
<1>8. QED
  BY <1>4, <1>6, <1>7 DEF Core

\* The node that was deleted is counted no longer.
LEMMA UncountStep ==
  ASSUME IInv, TypeOK', Locals', NEW t \in Consumers, Mine(t), Uncount(t)
  PROVE  Core'
<1> USE DEF IInv
<1>1. /\ pc[t] = "uncount" /\ pc'[t] \in {"scan", "load", "end"}
      /\ head' = head /\ next' = next /\ data' = data
      /\ alive' = alive /\ node' = node /\ made' = made /\ got' = got
      /\ mine'[t] = Tail(mine[t]) /\ reclaim' = reclaim /\ count' = count - 1
  BY NextRetiredLabels DEF Uncount, nodeVars, pushVars, popVars
<1>2. OnStack' = OnStack /\ StackIsList' /\ ItemsOnce'
  BY <1>1, ItemsStay DEF HasUnlinked, TypeOK
<1>3. /\ Held(t) = ToSet(Tail(mine[t])) /\ ToReclaim(t) = Tail(mine[t])
  BY <1>1, HoldingsHold DEF Holdings, Holding
<1>4. Held(t)' = ToSet(Tail(mine[t])) /\ ToReclaim(t)' = Tail(mine[t])
  BY <1>1 DEF Held, HasUnlinked, ToReclaim
<1>5. \A u \in Consumers : Held(u)' = Held(u) /\ ToReclaim(u)' = ToReclaim(u)
  BY <1>3, <1>4, HeldKept
<1>6. Placed'
  <2>1. \A p \in Places : NodesAt'[p] = NodesAt[p]
    BY <1>1, <1>2, <1>5, PlacesAre, NodesAtContents, NodesAtContentsNext DEF Contents
  <2>2. IsInjective(Tail(mine[t]))
    <3>1. mine[t] \in Seq(Heap) /\ mine[t] # <<>> /\ IsInjective(mine[t])
      BY <1>1 DEF Locals, TypeOK, Placed
    <3>2. QED
      BY <3>1, Rest
  <2>3. \A u \in Consumers : u # t => mine'[u] = mine[u]
    BY HeldKept
  <2>4. \A u \in Consumers : IsInjective(mine'[u])
    BY <1>1, <2>2, <2>3 DEF Placed
  <2>5. QED
    BY <1>1, <2>1, <2>4 DEF Placed, Apart
<1>7. CountsRetired'
  <2>1. Retired' = Retired
    BY <1>1, <1>5 DEF Retired
  <2>2. /\ Cardinality(At("uncount")') = Cardinality(At("uncount")) - 1
        /\ At("count")' = At("count")
        /\ Cardinality(At("count")) \in Nat /\ Cardinality(At("uncount")) \in Nat
    BY <1>1, AtChanges
  <2>3. /\ count \in Int
        /\ count + Cardinality(At("count")) = Cardinality(Retired) + Cardinality(At("uncount"))
    BY CountIsIt DEF CountIs, TypeOK
  <2>4. QED
    BY <1>1, <2>1, <2>2, RetiredFinite, <2>3, CountIsItNext DEF CountIs
<1>8. QED
  BY <1>2, <1>6, <1>7 DEF Core

-----------------------------------------------------------------------------
(* Protected nodes *)

\* Threads that change links or nodes, and the rest.
LEMMA LinkChanges ==
  ASSUME NEW t \in Threads, Step(t)
  PROVE  \/ NewNode(t) \/ Link(t) \/ LinkFails(t) \/ Delete(t)
         \/ alive' = alive /\ next' = next /\ node' = node
  BY DEF Step, Push, Pop, Reclaim, ArriveBarrier, StartProducer, StartConsumer, EndExec,
         LoadHead, Protect, Reload, ReadNext, Unlink, UnlinkFails, Clear,
         Retire, CountUp, CheckCount, Take, ScanSlot, Keep, Uncount,
         nodeVars, pushVars

\* The link of an allocated node that no producer holds stays until the node is
\* deleted.
LEMMA LinksStay ==
  ASSUME IInv, NEW t \in Threads, Step(t), NEW n \in alive \ Fresh,
         pc[t] = "delete" => Head(mine[t]) # n
  PROVE  n \in alive' \ Fresh' /\ next'[n] = next[n]
<1> USE DEF IInv
<1>1. n \in Heap
  BY DEF TypeOK
<1>2. CASE NewNode(t)
  <2>1. PICK m \in Heap \ alive :
          /\ alive' = alive \cup {m} /\ next' = [next EXCEPT ![m] = head]
          /\ node' = [node EXCEPT ![t] = m]
    BY <1>2 DEF NewNode
  <2>2. \A u \in Producers : node'[u] = node[u] \/ node'[u] = m
    BY <2>1 DEF TypeOK
  <2>3. QED
    BY <1>1, <2>1, <2>2 DEF TypeOK, Fresh
<1>3. CASE Link(t)
  <2>1. \A u \in Producers : node'[u] = node[u] \/ node'[u] = Null
    BY <1>3 DEF Link, TypeOK
  <2>2. QED
    BY <1>3, <2>1 DEF Link, nodeVars, Fresh
<1>4. CASE LinkFails(t)
  <2>1. node[t] # n
    <3>1. t \in Producers /\ pc[t] = "link"
      BY <1>4, AtWork DEF LinkFails
    <3>2. QED
      BY <3>1, ProducerHolds
  <2>2. QED
    BY <1>1, <1>4, <2>1 DEF LinkFails, pushVars, TypeOK, Fresh
<1>5. CASE Delete(t)
  BY <1>1, <1>5 DEF Delete, Within, Goto, pushVars, TypeOK, Fresh
<1>6. CASE alive' = alive /\ next' = next /\ node' = node
  BY <1>6 DEF Fresh
<1>7. QED
  BY <1>2, <1>3, <1>4, <1>5, <1>6, LinkChanges

\* No scan has missed consumer c's hazard pointer.
NotMissed(c, d) ==
  pc[d] \in {"scan", "delete"} /\ Head(mine[d]) = old[c] => pc[d] = "scan" /\ k[d] <= c

\* Where a scan begins, and how it goes on.
LEMMA ScanStep ==
  ASSUME IInv, NEW t \in Consumers, Step(t), pc'[t] \in {"scan", "delete"}
  PROVE  \/ pc'[t] = "scan" /\ k'[t] = StartCid
         \/ /\ pc[t] = "scan" /\ mine' = mine /\ k'[t] = k[t] + 1
            /\ hazard[k[t]] # Head(mine[t])
            /\ pc'[t] = IF k[t] + 1 < MaxHazardPointers THEN "scan" ELSE "delete"
<1>1. /\ t \notin Producers /\ t \in Threads
      /\ pc \in [Threads -> Labels \cup {"done"}]
      /\ k \in [Consumers -> StartCid .. MaxHazardPointers]
  BY Ids DEF IInv, TypeOK, DriverTypeOK
<1>2. CASE Take(t) \/ Keep(t) \/ Uncount(t)
  <2>1. PICK here, rest : NextRetired(t, here, rest)
    BY <1>2 DEF Take, Keep, Uncount
  <2>2. k'[t] = StartCid /\ pc'[t] \in {"scan", "load", "end"}
    BY <2>1, NextRetiredLabels DEF IInv
  <2>3. QED
    BY <2>2
<1>3. CASE ScanSlot(t)
  BY <1>1, <1>3 DEF ScanSlot, Within, Goto
<1>4. CASE Push(t)
  BY <1>1, <1>4, AtWork DEF IInv, Push, NewNode, Link, LinkFails, EndIteration, Within, Goto
<1>5. CASE Pop(t)
  BY <1>1, <1>5 DEF Pop, LoadHead, Protect, Reload, ReadNext, Unlink, UnlinkFails, Clear,
                    PopReturns, Within, Goto
<1>6. CASE ArriveBarrier(t) \/ StartProducer(t) \/ StartConsumer(t) \/ EndExec(t)
  BY <1>1, <1>6 DEF ArriveBarrier, StartProducer, StartConsumer, EndExec, Arrive, Start,
                    NextExec, Goto
<1>7. CASE Retire(t) \/ CountUp(t) \/ CheckCount(t) \/ Delete(t)
  BY <1>1, <1>7 DEF Retire, CountUp, CheckCount, Delete, PopReturns, Within, Goto
<1>8. QED
  BY <1>2, <1>3, <1>4, <1>5, <1>6, <1>7 DEF Step, Reclaim

\* How a consumer comes to have a protected node.
LEMMA ProtectStep ==
  ASSUME IInv, NEW t \in Consumers, Step(t), pc'[t] \in {"next", "cas"}
  PROVE  \/ Reload(t) /\ head = old[t] /\ head # Null /\ pc'[t] = "next"
         \/ ReadNext(t)
<1>1. /\ t \notin Producers /\ t \in Threads
      /\ pc \in [Threads -> Labels \cup {"done"}]
  BY Ids DEF IInv, TypeOK, DriverTypeOK
<1>2. CASE Push(t)
  BY <1>1, <1>2, AtWork DEF IInv, Push, NewNode, Link, LinkFails, EndIteration, Within, Goto
<1>3. CASE Pop(t)
  BY <1>1, <1>3 DEF Pop, LoadHead, Protect, Reload, ReadNext, Unlink, UnlinkFails, Clear,
                    PopReturns, Within, Goto
<1>4. CASE ArriveBarrier(t) \/ StartProducer(t) \/ StartConsumer(t) \/ EndExec(t)
  BY <1>1, <1>4 DEF ArriveBarrier, StartProducer, StartConsumer, EndExec, Arrive, Start,
                    NextExec, Goto
<1>5. CASE Retire(t) \/ CountUp(t) \/ CheckCount(t) \/ Delete(t) \/ ScanSlot(t)
  BY <1>1, <1>5 DEF Retire, CountUp, CheckCount, Delete, ScanSlot, PopReturns, Within, Goto
<1>6. CASE Take(t) \/ Keep(t) \/ Uncount(t)
  <2>1. PICK here, rest : NextRetired(t, here, rest)
    BY <1>6 DEF Take, Keep, Uncount
  <2>2. QED
    BY <2>1, NextRetiredLabels DEF IInv
<1>7. QED
  BY <1>2, <1>3, <1>4, <1>5, <1>6 DEF Step, Reclaim

\* The node on top of the stack.
LEMMA HeadOnStack ==
  ASSUME StackIsList, head # Null
  PROVE  head \in ToSet(OnStack)
  BY ListShorter DEF StackIsList

\* Every statement leaves the protected nodes protected.
LEMMA ProtectedNext ==
  ASSUME AllScanned, IInv, NEW t \in Threads, Step(t), Mine(t)
  PROVE  Protected'
<1> USE DEF IInv
<1>1. SUFFICES ASSUME NEW c \in Consumers, pc'[c] \in {"next", "cas"}
               PROVE  /\ old'[c] \in alive' \ Fresh'
                      /\ pc'[c] = "cas" => nx'[c] = next'[old'[c]]
                      /\ \A d \in Consumers : NotMissed(c, d)'
  BY DEF Protected, NotMissed
<1>2. ASSUME c # t
      PROVE  /\ old'[c] \in alive' \ Fresh'
             /\ pc'[c] = "cas" => nx'[c] = next'[old'[c]]
             /\ \A d \in Consumers : NotMissed(c, d)'
  <2>1. pc'[c] = pc[c] /\ old'[c] = old[c] /\ nx'[c] = nx[c]
    BY <1>2, Ids DEF Mine
  <2>2. /\ old[c] \in alive \ Fresh
        /\ pc[c] = "cas" => nx[c] = next[old[c]]
        /\ \A d \in Consumers : NotMissed(c, d)
        /\ hazard[c] = old[c]
    BY <1>1, <2>1 DEF Protected, NotMissed, Locals
  <2>3. pc[t] = "delete" => Head(mine[t]) # old[c]
    <3>1. pc[t] = "delete" => t \in Consumers
      BY AtWork DEF ConsumerLabels
    <3>2. QED
      BY <2>2, <3>1 DEF NotMissed
  <2>4. old[c] \in alive' \ Fresh' /\ next'[old[c]] = next[old[c]]
    BY <2>2, <2>3, LinksStay
  <2>5. ASSUME NEW d \in Consumers PROVE NotMissed(c, d)'
    <3>1. CASE d # t
      <4>1. pc'[d] = pc[d] /\ mine'[d] = mine[d] /\ k'[d] = k[d]
        BY <3>1, Ids DEF Mine
      <4>2. QED
        BY <2>1, <2>2, <4>1 DEF NotMissed
    <3>2. CASE d = t
      <4>1. SUFFICES ASSUME pc'[t] \in {"scan", "delete"}, Head(mine'[t]) = old[c]
                     PROVE  pc'[t] = "scan" /\ k'[t] <= c
        BY <2>1, <3>2 DEF NotMissed
      <4>2. StartCid <= c /\ c < MaxHazardPointers /\ c \in Int
        BY SlotsAssumption, NrPairsAssumption, Ids DEF AllScanned, Consumers
      <4>3. CASE pc'[t] = "scan" /\ k'[t] = StartCid
        BY <4>2, <4>3
      <4>4. CASE /\ pc[t] = "scan" /\ mine' = mine /\ k'[t] = k[t] + 1
                 /\ hazard[k[t]] # Head(mine[t])
                 /\ pc'[t] = IF k[t] + 1 < MaxHazardPointers THEN "scan" ELSE "delete"
        <5>1. k[t] <= c /\ Head(mine[t]) = old[c]
          BY <2>2, <3>2, <4>1, <4>4 DEF NotMissed
        <5>2. k[t] # c
          BY <2>2, <4>4, <5>1
        <5>3. k[t] \in Int /\ MaxHazardPointers \in Int
          BY <3>2, SlotsAssumption, Ids DEF TypeOK
        <5>4. QED
          BY <4>2, <4>4, <5>1, <5>2, <5>3
      <4>5. QED
        BY <3>2, <4>1, <4>3, <4>4, ScanStep
    <3>3. QED
      BY <3>1, <3>2
  <2>6. QED
    BY <2>1, <2>2, <2>4, <2>5
<1>3. ASSUME c = t
      PROVE  /\ old'[c] \in alive' \ Fresh'
             /\ pc'[c] = "cas" => nx'[c] = next'[old'[c]]
             /\ \A d \in Consumers : NotMissed(c, d)'
  <2>1. \A d \in Consumers : d # t => pc'[d] = pc[d] /\ mine'[d] = mine[d] /\ k'[d] = k[d]
    BY Ids DEF Mine
  <2>2. CASE Reload(t) /\ head = old[t] /\ head # Null /\ pc'[t] = "next"
    <3>1. /\ old'[t] = head /\ alive' = alive /\ node' = node /\ mine' = mine
      BY <1>3, <2>2 DEF Reload, nodeVars, pushVars, reclaimVars, TypeOK
    <3>2. head \in ToSet(OnStack)
      BY <2>2, HeadOnStack
    <3>3. head \in alive \ Fresh
      BY <3>2, Whereabouts
    <3>4. \A d \in Consumers : pc[d] \in {"scan", "delete"} => Head(mine[d]) # head
      BY <3>2, FirstHeld
    <3>5. QED
      BY <1>3, <2>1, <2>2, <3>1, <3>3, <3>4 DEF NotMissed, Fresh
  <2>3. CASE ReadNext(t)
    <3>1. /\ pc[t] = "next" /\ old' = old /\ nx'[t] = next[old[t]] /\ next' = next
          /\ alive' = alive /\ node' = node
      BY <1>3, <2>3 DEF ReadNext, Within, Goto, nodeVars, pushVars, TypeOK
    <3>2. /\ old[t] \in alive \ Fresh /\ \A d \in Consumers : NotMissed(t, d)
      BY <1>3, <3>1 DEF Protected, NotMissed
    <3>3. \A d \in Consumers : NotMissed(t, d)'
      BY <1>1, <1>3, <2>1, <3>1, <3>2 DEF NotMissed
    <3>4. QED
      BY <1>3, <3>1, <3>2, <3>3 DEF Fresh
  <2>4. QED
    BY <1>1, <1>3, <2>2, <2>3, ProtectStep
<1>4. QED
  BY <1>2, <1>3


-----------------------------------------------------------------------------
(* The inductive invariant *)

\* At first there is no node.
LEMMA InitIInv ==
  ASSUME Init
  PROVE  IInv /\ Height = 0
<1> DEFINE s == [i \in 1 .. 0 |-> head]
<1>1. TypeOK /\ Roles /\ Locals
  <2>1. /\ LastRun \in Nat /\ StartCid \in StartCid .. MaxHazardPointers
        /\ NrExec - 1 \in Nat /\ NrIter \in Nat
    BY LastRunNat, Ids, SlotsAssumption, NrExecAssumption, NrIterAssumption
  <2>2. Producers \subseteq Threads /\ Consumers \subseteq Threads
    BY Ids
  <2>3. DriverTypeOK(Labels) /\ Roles
    BY <2>1, <2>2 DEF Init, DriverInit, DriverTypeOK, Roles, Labels, ProducerLabels, ConsumerLabels
  <2>4. Locals
    BY <2>2 DEF Init, DriverInit, Locals
  <2>5. QED
    BY <2>1, <2>3, <2>4 DEF Init, TypeOK
<1>2. Height = 0 /\ OnStack = s /\ StackIsList
  <2>1. IsList(s, 0, head, next)
    <3>1. s \in [1 .. 0 -> Heap] /\ DOMAIN s = {}
      OBVIOUS
    <3> HIDE DEF s
    <3>2. QED
      BY <3>1 DEF Init, IsList, IsInjective, IsListFrom
  <2>2. head \in Heap \cup {Null} /\ next \in [Heap -> Heap \cup {Null}]
    BY <1>1 DEF TypeOK
  <2>3. Height = 0 /\ OnStack = s
    BY <2>1, <2>2, OnStackIsIt DEF OneList
  <2>4. QED
    BY <2>1, <2>3 DEF StackIsList
<1>3. ToSet(OnStack) = {} /\ ToSet(reclaim) = {}
  BY <1>2, NothingInEmpty DEF ToSet, Init
<1>4. \A t \in Consumers : ~HasUnlinked(t) /\ Held(t) = {} /\ ToReclaim(t) = <<>>
  <2>1. \A t \in Consumers : pc[t] = "arrive" /\ mine[t] = <<>>
    BY Ids DEF Init, DriverInit
  <2>2. QED
    BY <2>1, NothingInEmpty DEF HasUnlinked, Held, ToReclaim
<1>5. Placed
  <2>1. \A p \in Places : NodesAt[p] = {}
    <3>1. \A t \in Producers : {node[t]} \ {Null} = {}
      BY DEF Init
    <3>2. QED
      BY <1>3, <1>4, <3>1, PlacesAre, NodesAtContents DEF Contents
  <2>2. IsInjective(reclaim) /\ \A t \in Consumers : IsInjective(mine[t])
    BY DEF Init, IsInjective
  <2>3. QED
    BY <2>1, <2>2 DEF Placed, Apart, Init
<1>6. ItemsOnce
  <2>1. Carrying = {}
    BY <1>3, <1>4 DEF Carrying, Fresh, Unlinked, Init
  <2>2. made = 0 /\ got = {}
    BY DEF Init
  <2>3. QED
    BY <2>1, <2>2 DEF ItemsOnce
<1>7. CountsRetired
  <2>1. Retired = {}
    BY <1>3, <1>4, NothingInEmpty DEF Retired
  <2>2. At("count") = {} /\ At("uncount") = {}
    BY Ids DEF At, Init, DriverInit
  <2>3. count = 0
    BY DEF Init
  <2>4. QED
    BY <2>1, <2>2, <2>3, FS_EmptySet, CountIsIt DEF CountIs
<1>8. Protected
  BY Ids DEF Protected, Init, DriverInit
<1>9. QED
  BY <1>1, <1>2, <1>5, <1>6, <1>7, <1>8 DEF IInv

\* What every statement keeps of the parts that do not depend on the scan.
LEMMA CoreNext ==
  ASSUME IInv, NEW t \in Threads, Step(t)
  PROVE  TypeOK' /\ Roles' /\ Locals' /\ Core' /\ Mine(t)
<1> USE DEF IInv
<1>1. Driver
  BY DEF Driver, TypeOK
<1>2. TypeOK' /\ Roles'
  BY <1>1, PushTypes, PopTypes, ReclaimTypes DEF Step, Driver
<1>3. Mine(t) /\ LocalsOf(t)'
  BY <1>2, PushLocals, PopLocals DEF Step
<1>4. Locals'
  BY <1>3, LocalsNext
<1>5. t \in Producers \/ t \in Consumers
  BY Ids
<1>6. CASE Push(t)
  <2>1. t \in Producers
    BY <1>6, AtWork DEF Push, NewNode, Link, LinkFails, EndIteration, Within, Goto
  <2>2. Core'
    BY <1>2, <1>3, <1>6, <2>1, NewNodeStep, LinkStep, LinkFailsStep DEF Push
  <2>3. QED
    BY <1>2, <1>3, <1>4, <2>2
<1>7. CASE ArriveBarrier(t) \/ StartProducer(t) \/ StartConsumer(t) \/ EndExec(t)
  BY <1>2, <1>3, <1>4, <1>5, <1>7, QuietSteps
<1>8. CASE Pop(t)
  <2>1. t \in Consumers
    BY <1>2, <1>8, PopLocals
  <2>2. Core'
    BY <1>2, <1>3, <1>4, <1>5, <1>8, <2>1, QuietSteps, UnlinkStep DEF Pop
  <2>3. QED
    BY <1>2, <1>3, <1>4, <2>2
<1>9. CASE Reclaim(t)
  <2>1. t \in Consumers
    BY <1>2, <1>9, PopLocals
  <2>2. Core'
    BY <1>2, <1>3, <1>4, <1>5, <1>9, <2>1, QuietSteps, RetireStep, CountUpStep, TakeStep,
       KeepStep, DeleteStep, UncountStep DEF Reclaim
  <2>3. QED
    BY <1>2, <1>3, <1>4, <2>2
<1>10. QED
  BY <1>6, <1>7, <1>8, <1>9 DEF Step

\* Nothing changes in a step of another part of the program.
LEMMA Stutters ==
  ASSUME IInv, UNCHANGED vars
  PROVE  IInv'
<1> USE DEF IInv
<1>1. /\ pc' = pc /\ ctr' = ctr /\ run' = run /\ exec' = exec /\ iter' = iter
      /\ head' = head /\ next' = next /\ data' = data /\ alive' = alive /\ node' = node
      /\ made' = made /\ hazard' = hazard /\ old' = old /\ nx' = nx /\ got' = got
      /\ reclaim' = reclaim /\ count' = count /\ mine' = mine /\ k' = k
  BY DEF vars, driverVars, nodeVars, pushVars, popVars, reclaimVars
<1>2. TypeOK'
  BY <1>1 DEF TypeOK, DriverTypeOK
<1>3. Roles' /\ Locals' /\ Protected'
  BY <1>1 DEF Roles, Locals, Protected, Fresh
<1>4. \A t \in Consumers : HasUnlinked(t)' <=> HasUnlinked(t)
  BY <1>1 DEF HasUnlinked
<1>5. OnStack' = OnStack /\ StackIsList'
  BY <1>1, StackKept DEF TypeOK
<1>6. \A t \in Consumers : ToReclaim(t)' = ToReclaim(t) /\ Held(t)' = Held(t)
  BY <1>1, <1>4 DEF ToReclaim, Held
<1>7. Placed'
  BY <1>1, <1>5, <1>6, PlacesKept
<1>8. Carrying' = Carrying
  <2>1. Unlinked' = Unlinked
    BY <1>1, <1>4 DEF Unlinked
  <2>2. QED
    BY <1>1, <1>5, <2>1 DEF Carrying, Fresh
<1>9. ItemsOnce'
  BY <1>1, <1>8, ItemsKept
<1>10. CountsRetired'
  <2>1. Retired' = Retired /\ At("count")' = At("count") /\ At("uncount")' = At("uncount")
    BY <1>1, <1>6 DEF Retired, At
  <2>2. QED
    BY <1>1, <2>1, CountIsIt, CountIsItNext DEF CountIs
<1>11. QED
  BY <1>2, <1>3, <1>5, <1>7, <1>9, <1>10

\* Every step preserves the invariant.
LEMMA NextIInv ==
  ASSUME AllScanned, IInv, [Next]_vars
  PROVE  IInv'
<1>1. ASSUME NEW t \in Threads, Step(t) PROVE IInv'
  <2>1. TypeOK' /\ Roles' /\ Locals' /\ Core' /\ Mine(t)
    BY <1>1, CoreNext
  <2>2. Protected'
    BY <1>1, <2>1, ProtectedNext
  <2>3. QED
    BY <2>1, <2>2 DEF IInv, Core
<1>2. QED
  BY <1>1, Stutters DEF Next

\* It holds in every reachable state.
THEOREM Invariance == ASSUME AllScanned PROVE Spec => []IInv
<1>1. Init => IInv
  BY InitIInv
<1>2. IInv /\ [Next]_vars => IInv'
  BY NextIInv
<1>3. QED
  BY <1>1, <1>2, PTL DEF Spec

-----------------------------------------------------------------------------
(* What follows from it *)

\* The variables of the stack, of the reclamation and of the driver keep their
\* types.
THEOREM TypeCorrect == ASSUME AllScanned PROVE Spec => []TypeOK
<1>1. IInv => TypeOK
  BY DEF IInv
<1>2. QED
  BY <1>1, Invariance, PTL

\* No thread uses a node after it was freed, and none frees it twice.
THEOREM NeverUsedAfterFree == ASSUME AllScanned PROVE Spec => []NoUseAfterFree
<1>1. IInv => NoUseAfterFree
  <2>1. SUFFICES ASSUME IInv, NEW t \in Consumers
                 PROVE  /\ pc[t] \in {"next", "retire"} => old[t] \in alive
                        /\ pc[t] = "delete" => Head(mine[t]) \in alive
    BY DEF NoUseAfterFree
  <2>2. pc[t] = "next" => old[t] \in alive
    BY <2>1 DEF IInv, Protected
  <2>3. pc[t] = "retire" => old[t] \in alive
    BY <2>1, UnlinkedHeld DEF IInv, Locals, Unlinked, HasUnlinked
  <2>4. pc[t] = "delete" => Head(mine[t]) \in alive
    BY <2>1, FirstHeld
  <2>5. QED
    BY <2>2, <2>3, <2>4
<1>2. QED
  BY <1>1, Invariance, PTL

\* reclaim_cnt is the number of nodes retired and not yet deleted, but for
\* those whose consumer is just about to count them.
THEOREM RetiredCounted == ASSUME AllScanned PROVE Spec => []CountsRetired
<1>1. IInv => CountsRetired
  BY DEF IInv
<1>2. QED
  BY <1>1, Invariance, PTL

\* One place for every node, counted as NodesOnce counts.
LEMMA InOnePlace ==
  ASSUME IInv
  PROVE  NodesOnce
<1> USE DEF IInv
<1>1. ASSUME NEW n \in Heap
      PROVE  Cardinality({p \in Places : n \in NodesAt[p]}) = IF n \in alive THEN 1 ELSE 0
  <2> DEFINE S == {p \in Places : n \in NodesAt[p]}
  <2>1. CASE n \in alive
    <3>1. PICK p \in Places : n \in NodesAt[p]
      BY <2>1 DEF Placed
    <3>2. \A q \in Places : n \in NodesAt[q] => q = p
      BY <3>1 DEF Placed, Apart
    <3>3. S = {p}
      BY <3>1, <3>2
    <3> HIDE DEF S
    <3>4. Cardinality(S) = 1
      BY <3>3, FS_Singleton
    <3>5. QED
      BY <2>1, <3>4 DEF S
  <2>2. CASE n \notin alive
    <3>1. S = {}
      BY <2>2 DEF Placed
    <3> HIDE DEF S
    <3>2. Cardinality(S) = 0
      BY <3>1, FS_EmptySet
    <3>3. QED
      BY <2>2, <3>2 DEF S
  <2>3. QED
    BY <2>1, <2>2
<1>2. ASSUME NEW t \in Consumers PROVE IsInjective(ToReclaim(t))
  <2>1. mine[t] \in Seq(Heap) /\ IsInjective(mine[t])
    BY DEF TypeOK, Placed
  <2>2. pc[t] = "uncount" => mine[t] # <<>>
    BY DEF Locals
  <2>3. pc[t] = "uncount" => IsInjective(Tail(mine[t]))
    BY <2>1, <2>2, Rest
  <2>4. QED
    BY <2>1, <2>3 DEF ToReclaim
<1>3. QED
  BY <1>1, <1>2 DEF NodesOnce, Placed

\* No node leaks or is in two lists, no item is lost or popped twice.
THEOREM AllAccounted == ASSUME AllScanned PROVE Spec => []NodesAccounted
<1>1. IInv => NodesAccounted
  <2>1. IInv => NodesOnce
    BY InOnePlace
  <2>2. QED
    BY <2>1 DEF IInv, StackIsList, IsList, NodesAccounted
<1>2. QED
  BY <1>1, Invariance, PTL

-----------------------------------------------------------------------------
(* The abstract stack *)

\* The items from the bottom to the top, over the nodes of OnStack.
Upwards(s, m, d) == [i \in 1 .. m |-> d[s[m + 1 - i]]]

OldestFirstIs == Height \in Nat => OldestFirst = Upwards(OnStack, Height, data)

\* OldestFirst is that sequence ...
LEMMA OldestFirstIsIt == OldestFirstIs
<1>1. ASSUME Height \in Nat, NEW i \in 1 .. Height
      PROVE  OnStack[Height + 1 - i] = Reached[Height - i]
  <2>1. Height + 1 - i \in 1 .. Height /\ (Height + 1 - i) - 1 = Height - i
    BY <1>1
  <2>2. QED
    BY <2>1 DEF OnStack
<1>2. QED
  BY <1>1 DEF OldestFirstIs, OldestFirst, Upwards

\* ... before a step and after it.
LEMMA OldestFirstIsItNext == OldestFirstIs'
  BY OldestFirstIsIt, PTL

\* The stack that is implemented stays if its nodes and their data do.
LEMMA OldestFirstKept ==
  ASSUME StackIsList, OnStack' = OnStack, Height' = Height,
         \A n \in ToSet(OnStack) : data'[n] = data[n]
  PROVE  OldestFirst' = OldestFirst
<1>1. Height \in Nat /\ DOMAIN OnStack = 1 .. Height
  BY DEF StackIsList, IsList
<1>2. ASSUME NEW i \in 1 .. Height
      PROVE  data'[OnStack[Height + 1 - i]] = data[OnStack[Height + 1 - i]]
  <2>1. Height + 1 - i \in DOMAIN OnStack
    BY <1>1
  <2>2. QED
    BY <2>1 DEF ToSet
<1>3. Height' \in Nat
  BY <1>1
<1>4. QED
  BY <1>1, <1>2, <1>3, OldestFirstIsIt, OldestFirstIsItNext DEF OldestFirstIs, Upwards

\* No other statement than the two compare-exchanges that succeed changes head,
\* or links or data on the stack.
LEMMA OthersKeep ==
  ASSUME IInv, NEW t \in Threads, Step(t), ~Link(t), ~Unlink(t)
  PROVE  /\ head' = head
         /\ \A n \in ToSet(OnStack) : next'[n] = next[n] /\ data'[n] = data[n]
<1> USE DEF IInv
<1>1. head' = head
  BY DEF Step, Push, Pop, Reclaim, ArriveBarrier, StartProducer, StartConsumer, EndExec,
         NewNode, LinkFails, LoadHead, Protect, Reload, ReadNext, UnlinkFails, Clear,
         Retire, CountUp, CheckCount, Take, ScanSlot, Keep, Delete, Uncount
<1>2. SUFFICES ASSUME NEW n \in ToSet(OnStack)
               PROVE  next'[n] = next[n] /\ data'[n] = data[n]
  BY <1>1
<1>3. n \in alive \ Fresh /\ n \in Heap
  BY Whereabouts DEF TypeOK
<1>4. pc[t] = "delete" => Head(mine[t]) # n
  <2>1. pc[t] = "delete" => t \in Consumers
    BY AtWork DEF ConsumerLabels
  <2>2. QED
    BY <2>1, FirstHeld
<1>5. next'[n] = next[n]
  BY <1>3, <1>4, LinksStay
<1>6. CASE NewNode(t)
  BY <1>3, <1>5, <1>6 DEF NewNode, TypeOK
<1>7. CASE Retire(t)
  <2>1. t \in Consumers /\ pc[t] = "retire"
    BY <1>7, AtWork DEF Retire, Within, Goto, ConsumerLabels
  <2>2. old[t] \in Unlinked
    BY <2>1 DEF Locals, Unlinked, HasUnlinked
  <2>3. old[t] # n
    BY <2>2, UnlinkedHeld
  <2>4. QED
    BY <1>3, <1>5, <1>7, <2>3 DEF Retire, TypeOK
<1>8. CASE ~NewNode(t) /\ ~Retire(t)
  BY <1>5, <1>8
     DEF Step, Push, Pop, Reclaim, ArriveBarrier, StartProducer, StartConsumer, EndExec,
         LinkFails, LoadHead, Protect, Reload, ReadNext, UnlinkFails, Clear, nodeVars,
         CountUp, CheckCount, Take, ScanSlot, Keep, Delete, Uncount
<1>9. QED
  BY <1>6, <1>7, <1>8

\* The list with a node in front, and without its first one.
Longer(s, m, n) == [i \in 1 .. m + 1 |-> IF i = 1 THEN n ELSE s[i - 1]]
Shorter(s, m) == [i \in 1 .. m - 1 |-> s[i + 1]]

\* It is a sequence of as many items.
LEMMA UpwardsType ==
  ASSUME NEW m \in Nat, NEW s \in [1 .. m -> Heap], NEW d \in [Heap -> Nat]
  PROVE  /\ Upwards(s, m, d) \in Seq(Nat) /\ Len(Upwards(s, m, d)) = m
         /\ \A i \in 1 .. m : Upwards(s, m, d)[i] \in Nat
<1>1. \A i \in 1 .. m : m + 1 - i \in 1 .. m
  OBVIOUS
<1>2. \A i \in 1 .. m : d[s[m + 1 - i]] \in Nat
  BY <1>1
<1>3. QED
  BY <1>2 DEF Upwards

\* A node in front is an item on top ...
LEMMA ItemsLonger ==
  ASSUME NEW m \in Nat, NEW s \in [1 .. m -> Heap], NEW d \in [Heap -> Nat], NEW n \in Heap
  PROVE  Upwards(Longer(s, m, n), m + 1, d) = Append(Upwards(s, m, d), d[n])
<1> DEFINE s2 == Longer(s, m, n)
           items1 == Upwards(s, m, d)
           items2 == Upwards(s2, m + 1, d)
<1>1. s2 \in [1 .. m + 1 -> Heap] /\ d[n] \in Nat /\ m + 1 \in Nat
  BY DEF Longer
<1>2. items1 \in Seq(Nat) /\ Len(items1) = m /\ items2 \in Seq(Nat) /\ Len(items2) = m + 1
  BY <1>1, UpwardsType
<1>3. items2[m + 1] = d[n]
  BY DEF Upwards, Longer
<1>4. ASSUME NEW i \in 1 .. m PROVE items2[i] = items1[i]
  <2>1. m + 1 + 1 - i \in 1 .. m + 1 /\ m + 1 + 1 - i # 1 /\ (m + 1 + 1 - i) - 1 = m + 1 - i
    OBVIOUS
  <2>2. s2[m + 1 + 1 - i] = s[m + 1 - i]
    BY <2>1 DEF Longer
  <2>3. items2[i] = d[s2[m + 1 + 1 - i]] /\ items1[i] = d[s[m + 1 - i]]
    BY DEF Upwards
  <2>4. QED
    BY <2>2, <2>3
<1> HIDE DEF s2, items1, items2
<1>5. /\ Append(items1, d[n]) \in Seq(Nat) /\ Len(Append(items1, d[n])) = m + 1
      /\ \A i \in 1 .. m : Append(items1, d[n])[i] = items1[i]
      /\ Append(items1, d[n])[m + 1] = d[n]
  BY <1>1, <1>2, AppendProperties
<1>6. \A i \in 1 .. m + 1 : i \in 1 .. m \/ i = m + 1
  OBVIOUS
<1>7. \A i \in 1 .. Len(items2) : items2[i] = Append(items1, d[n])[i]
  BY <1>2, <1>3, <1>4, <1>5, <1>6
<1>8. items2 = Append(items1, d[n])
  BY <1>2, <1>5, <1>7, SeqEqual
<1>9. QED
  BY <1>8 DEF s2, items1, items2

\* ... and without the first node, the item on top is gone.
LEMMA ItemsShorter ==
  ASSUME NEW m \in Nat, m > 0, NEW s \in [1 .. m -> Heap], NEW d \in [Heap -> Nat]
  PROVE  Upwards(Shorter(s, m), m - 1, d) = Front(Upwards(s, m, d))
<1> DEFINE s2 == Shorter(s, m)
           items1 == Upwards(s, m, d)
           items2 == Upwards(s2, m - 1, d)
<1>1. s2 \in [1 .. m - 1 -> Heap] /\ m - 1 \in Nat
  BY DEF Shorter
<1>2. /\ items1 \in Seq(Nat) /\ Len(items1) = m /\ items2 \in Seq(Nat) /\ Len(items2) = m - 1
      /\ \A i \in 1 .. m : items1[i] \in Nat
  BY <1>1, UpwardsType
<1>3. ASSUME NEW i \in 1 .. m - 1 PROVE items2[i] = items1[i]
  <2>1. m - 1 + 1 - i \in 1 .. m - 1 /\ (m - 1 + 1 - i) + 1 = m + 1 - i
    OBVIOUS
  <2>2. s2[m - 1 + 1 - i] = s[m + 1 - i]
    BY <2>1 DEF Shorter
  <2>3. items2[i] = d[s2[m - 1 + 1 - i]] /\ items1[i] = d[s[m + 1 - i]]
    BY DEF Upwards
  <2>4. QED
    BY <2>2, <2>3
<1> HIDE DEF s2, items1, items2
<1>4. /\ SubSeq(items1, 1, m - 1) \in Seq(Nat) /\ Len(SubSeq(items1, 1, m - 1)) = m - 1
      /\ \A i \in 1 .. m - 1 : SubSeq(items1, 1, m - 1)[i] = items1[i]
  <2>1. \A i \in 1 .. m - 1 : items1[i] \in Nat
    BY <1>2
  <2>2. QED
    BY <2>1, SubSeqProperties
<1>5. items2 = SubSeq(items1, 1, m - 1)
  BY <1>2, <1>3, <1>4, SeqEqual
<1>6. Front(items1) = SubSeq(items1, 1, m - 1)
  BY <1>2 DEF Front
<1>7. QED
  BY <1>5, <1>6 DEF s2, items1, items2

\* Steps of the stack are steps of the abstract one.
LEMMA StepImplements ==
  ASSUME IInv, IInv', NEW t \in Threads, Step(t)
  PROVE  Abstract!Next \/ OldestFirst' = OldestFirst
<1>1. TypeOK' /\ Locals' /\ Mine(t)
  BY CoreNext
<1>2. /\ Height \in Nat /\ OnStack \in [1 .. Height -> Heap] /\ data \in [Heap -> Nat]
  BY DEF IInv, StackIsList, IsList, TypeOK
<1>3. Height' \in Nat
  BY DEF IInv, StackIsList, IsList
<1>4. CASE Link(t)
  <2>1. pc[t] = "link" /\ data' = data
    BY <1>4 DEF Link, EndIteration, Goto, nodeVars
  <2>2. t \in Producers
    BY <2>1, AtWork DEF IInv
  <2>3. node[t] \in Heap
    BY <2>1, <2>2, ProducerHolds
  <2>4. Height' = Height + 1 /\ OnStack' = Longer(OnStack, Height, node[t])
    BY <1>1, <1>4, <2>2, LinkStep DEF Longer
  <2>5. OldestFirst = Upwards(OnStack, Height, data)
        /\ OldestFirst' = Upwards(OnStack', Height', data)
    BY <1>2, <1>3, <2>1, OldestFirstIsIt, OldestFirstIsItNext DEF OldestFirstIs
  <2>6. OldestFirst' = Append(OldestFirst, data[node[t]])
    BY <1>2, <2>3, <2>4, <2>5, ItemsLonger
  <2>7. OldestFirst \in Seq(Nat) /\ data[node[t]] \in Nat
    BY <1>2, <2>3, <2>5, UpwardsType
  <2>8. OldestFirst' # <<>> /\ OldestFirst'[Len(OldestFirst')] = data[node[t]]
    BY <2>6, <2>7, AppendProperties
  <2>9. Abstract!Put
    BY <2>6, <2>7, <2>8 DEF Abstract!Put, Abstract!Last
  <2>10. QED
    BY <2>9 DEF Abstract!Next
<1>5. CASE Unlink(t)
  <2>1. pc[t] = "cas" /\ data' = data
    BY <1>5 DEF Unlink, Within, Goto, nodeVars
  <2>2. t \in Consumers
    BY <2>1, AtWork DEF IInv, ConsumerLabels
  <2>3. Height > 0 /\ Height' = Height - 1 /\ OnStack' = Shorter(OnStack, Height)
    BY <1>1, <1>5, <2>2, UnlinkStep DEF Shorter
  <2>4. OldestFirst = Upwards(OnStack, Height, data)
        /\ OldestFirst' = Upwards(OnStack', Height', data)
    BY <1>2, <1>3, <2>1, OldestFirstIsIt, OldestFirstIsItNext DEF OldestFirstIs
  <2>5. OldestFirst' = Front(OldestFirst)
    BY <1>2, <2>3, <2>4, ItemsShorter
  <2>6. OldestFirst \in Seq(Nat) /\ Len(OldestFirst) = Height
    BY <1>2, <2>4, UpwardsType
  <2>7. OldestFirst # <<>>
    BY <1>2, <2>3, <2>6, EmptySeq
  <2>8. Abstract!Take
    BY <2>5, <2>7 DEF Abstract!Take, Abstract!Front, Front
  <2>9. QED
    BY <2>8 DEF Abstract!Next
<1>6. CASE ~Link(t) /\ ~Unlink(t)
  <2>1. /\ head' = head
        /\ \A n \in ToSet(OnStack) : next'[n] = next[n] /\ data'[n] = data[n]
    BY <1>6, OthersKeep
  <2>2. OnStack' = OnStack /\ Height' = Height
    BY <1>1, <2>1, StackKept DEF IInv, TypeOK
  <2>3. QED
    BY <2>1, <2>2, OldestFirstKept DEF IInv
<1>7. QED
  BY <1>4, <1>5, <1>6

\* The program is a stack: the items on the list from head on change as those
\* of an abstract stack do, one put or taken at a time.
THEOREM StackImplements == ASSUME AllScanned PROVE Spec => ImplementsStack
<1>1. Init => Abstract!Init
  <2>1. SUFFICES ASSUME Init PROVE OldestFirst = <<>>
    BY DEF Abstract!Init
  <2>2. Height = 0
    BY <2>1, InitIInv
  <2>3. OldestFirst = [i \in 1 .. 0 |-> data[OnStack[1 - i]]]
    BY <2>2, OldestFirstIsIt DEF OldestFirstIs, Upwards
  <2>4. QED
    BY <2>3
<1>2. IInv /\ IInv' /\ [Next]_vars => [Abstract!Next]_OldestFirst
  <2>1. SUFFICES ASSUME IInv, IInv', [Next]_vars
                 PROVE  Abstract!Next \/ OldestFirst' = OldestFirst
    OBVIOUS
  <2>2. CASE UNCHANGED vars
    <3>1. head' = head /\ next' = next /\ data' = data
      BY <2>2 DEF vars, nodeVars
    <3>2. OnStack' = OnStack /\ Height' = Height
      BY <2>1, <3>1, StackKept DEF IInv, TypeOK
    <3>3. QED
      BY <2>1, <3>1, <3>2, OldestFirstKept DEF IInv
  <2>3. QED
    BY <2>1, <2>2, StepImplements DEF Next
<1>3. QED
  BY <1>1, <1>2, Invariance, PTL DEF Spec, ImplementsStack, Abstract!Spec
=============================================================================
