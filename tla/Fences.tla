-------------------------------- MODULE Fences --------------------------------
(***************************************************************************)
(* mem_fence of common/atomic_intrinsic/c++/fences*.h and Memory_Fence of  *)
(* the Ada package: a fence is named by the orders it is to keep, a set of *)
(* ss, sl, ls and ll (a store before it and a store after it, and so on),  *)
(* and each processor gives the cheapest instructions that keep them.      *)
(*                                                                         *)
(* Checked by litmus tests: two threads of two accesses each, to the same  *)
(* two locations in opposite order, with a fence between them.             *)
(***************************************************************************)
EXTENDS Integers, Sequences, FiniteSetsExt, SequencesExt

VARIABLES
  arch,     \* what the library is built for
  kinds,    \* the two accesses of each thread: <<"load", "store">> and so on
  fence,    \* the fence between them
  done,     \* accesses performed
  memory,   \* the two locations: which thread wrote last, or nobody
  loaded    \* what the loads returned

fenceVars == <<arch, kinds, fence, done, memory, loaded>>

Orders == {"ss", "sl", "ls", "ll"}

\* enum class fences
AllFences == SUBSET Orders \ {{}}

\* Wrong variant of OnArm: ll_ls_ss without its second instruction.
OnArmShort(f) ==
  CASE f = {"ss"} -> {"dmb ishst"}
    [] f = {"ll", "ss"} -> {"dmb ishld", "dmb ishst"}
    [] f \in {{"ll"}, {"ls"}, {"ll", "ls"}, {"ll", "ls", "ss"}} -> {"dmb ishld"}
    [] OTHER -> {"dmb ish"}

\* fences_aarch64
OnArm(f) ==
  CASE f = {"ss"} -> {"dmb ishst"}
    [] f \in {{"ll"}, {"ls"}, {"ll", "ls"}} -> {"dmb ishld"}
    [] f \in {{"ll", "ss"}, {"ll", "ls", "ss"}} -> {"dmb ishld", "dmb ishst"}
    [] OTHER -> {"dmb ish"}

\* fences_x86_64
OnIntel(f) ==
  CASE f = {"ss"} -> {"sfence"}
    [] f = {"ll"} -> {"lfence"}
    [] f = {"ll", "ss"} -> {"lfence", "sfence"}
    [] OTHER -> {"mfence"}

\* What the processors' manuals say of these instructions ...
Keeps(instruction) ==
  CASE instruction \in {"sfence", "dmb ishst"} -> {"ss"}
    [] instruction \in {"lfence", "dmb ishld"} -> {"ll", "ls"}
    [] instruction \in {"mfence", "dmb ish"} -> Orders

\* ... and of accesses without a fence: stores of x86-64 wait in a buffer.
KeepsAnyway == IF arch = "x86_64" THEN {"ss", "ls", "ll"} ELSE {}

Instructions(f) == IF arch = "x86_64" THEN OnIntel(f) ELSE OnArm(f)

-----------------------------------------------------------------------------

Threads == {0, 1}
Locations == {1, 2}

\* The location of the n-th access of thread t.
Location(t, n) == IF t = 0 THEN n ELSE 3 - n

\* The order between the two accesses of a thread.
Order(pair) ==
  CASE pair = <<"store", "store">> -> "ss"
    [] pair = <<"store", "load">> -> "sl"
    [] pair = <<"load", "store">> -> "ls"
    [] pair = <<"load", "load">> -> "ll"

Pairs == {"load", "store"} \X {"load", "store"}

Nobody == -1

\* Programs whose fences name the order to be kept.
FencesInit ==
  /\ arch \in {"x86_64", "aarch64"}
  /\ kinds \in [Threads -> Pairs]
  /\ fence \in [Threads -> AllFences]
  /\ \A t \in Threads : Order(kinds[t]) \in fence[t]
  /\ done = [t \in Threads |-> {}]
  /\ memory = [l \in Locations |-> Nobody]
  /\ loaded = [t \in Threads |-> <<Nobody, Nobody>>]

\* The second access may be performed first where nothing keeps the order.
Kept(t) ==
  Order(kinds[t]) \in KeepsAnyway \cup UNION {Keeps(i) : i \in Instructions(fence[t])}

\* What an access does to the memory and to what its thread has loaded.
Effect(t, n, mem, regs) ==
  IF kinds[t][n] = "store"
  THEN <<[mem EXCEPT ![Location(t, n)] = t], regs>>
  ELSE <<mem, [regs EXCEPT ![t][n] = mem[Location(t, n)]]>>

Perform(t, n) ==
  /\ n \notin done[t]
  /\ n = 2 /\ Kept(t) => 1 \in done[t]
  /\ done' = [done EXCEPT ![t] = @ \cup {n}]
  /\ memory' = Effect(t, n, memory, loaded)[1]
  /\ loaded' = Effect(t, n, memory, loaded)[2]
  /\ UNCHANGED <<arch, kinds, fence>>

FencesNext == \E t \in Threads, n \in {1, 2} : Perform(t, n)

FencesSpec == FencesInit /\ [][FencesNext]_fenceVars

-----------------------------------------------------------------------------

Performed == \A t \in Threads : done[t] = {1, 2}

\* The orders in which the accesses may take effect one after the other, each
\* thread's as its program has them.
Interleavings ==
  {s \in [1 .. 4 -> Threads] : Cardinality({i \in 1 .. 4 : s[i] = 0}) = 2}

Outcome(s) ==
  LET number(i) == Cardinality({h \in 1 .. i : s[h] = s[i]})
  IN  FoldLeft(LAMBDA state, i : Effect(s[i], number(i), state[1], state[2]),
               <<[l \in Locations |-> Nobody], [t \in Threads |-> <<Nobody, Nobody>>]>>,
               <<1, 2, 3, 4>>)

\* Threads that put mem_fence between two accesses, for the order of the two,
\* find sequential consistency: what they load and what they leave behind is the
\* outcome of some interleaving, on both processors and with any fence that
\* names at least this order.
FencesSuffice ==
  Performed => <<memory, loaded>> \in {Outcome(s) : s \in Interleavings}
=============================================================================
