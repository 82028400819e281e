--------------------------------- MODULE Pmm --------------------------------
(* kernel/src/alloc.c as my_os.h builds it (CORRECTNESS_FIRST): memory is    *)
(* given from the start of the heap upwards, and pmm->free does nothing.     *)
(*                                                                           *)
(* What is between my_spinlock and my_spinunlock of alloc_lk is one step.    *)
(* kalloc computes the address it returns after the unlock, from estart as   *)
(* it is then: interrupts are on again and other CPUs are in kalloc, too.    *)
EXTENDS Integers, Sequences

CONSTANTS
  Caller,      \* the contexts that allocate: os_init, then the tasks
  Boot,        \* the one that runs alone before the others start
  Size,        \* the sizes asked for
  pm_start, pm_end,  \* the heap's bounds
  MaxBlocks    \* bound: blocks given

ASSUME PmmAssumption ==
  /\ Boot \in Caller
  /\ Size \subseteq Nat \ {0}
  /\ pm_start \in Nat /\ pm_end \in Nat /\ pm_start <= pm_end
  /\ MaxBlocks \in Nat

VARIABLES
  estart,   \* the first byte not yet given
  pc,       \* [Caller -> "idle", "unlocked" (behind my_spinunlock) or "panic"]
  size,     \* [Caller -> the argument of its kalloc]
  booted,   \* the other CPUs and the interrupts are on
  blocks,   \* history: what kalloc returned, oldest first: [lo, hi, earlier]
  earlier   \* history: [Caller -> how many blocks had been returned when its
            \* kalloc took the lock]

vars == <<estart, pc, size, booted, blocks, earlier>>

(* pmm_init *)
Init ==
  /\ estart = pm_start
  /\ pc = [t \in Caller |-> "idle"]
  /\ size = [t \in Caller |-> 0]
  /\ booted = FALSE
  /\ blocks = <<>>
  /\ earlier = [t \in Caller |-> 0]

\* os_init is done; _mpe_init starts the CPUs.
Start ==
  /\ ~booted
  /\ pc[Boot] = "idle"
  /\ booted' = TRUE
  /\ UNCHANGED <<estart, pc, size, blocks, earlier>>

\* mutant: the test comes before the addition
MutHeapEnds(end) == estart > pm_end

HeapEnds(end) == end > pm_end

\* mutant: aligned by rounding down
MutAdvance(s) == (estart + s) - ((estart + s) % 2)

\* estart += size
Advance(s) == estart + s

\* The section of kalloc under alloc_lk.  The assert stops the caller with the
\* lock held, so nobody allocates after that.
Carve(t, s) ==
  /\ pc[t] = "idle"
  /\ \A u \in Caller : pc[u] # "panic"
  /\ booted \/ t = Boot
  /\ Len(blocks) < MaxBlocks
  /\ estart' = Advance(s)
  /\ size' = [size EXCEPT ![t] = s]
  /\ earlier' = [earlier EXCEPT ![t] = Len(blocks)]
  /\ pc' = [pc EXCEPT ![t] = IF HeapEnds(Advance(s)) THEN "panic" ELSE "unlocked"]
  /\ UNCHANGED <<booted, blocks>>

\* return (void*) (estart - size)
Block(t) == [lo |-> estart - size[t], hi |-> estart, earlier |-> earlier[t]]

Return(t) ==
  /\ pc[t] = "unlocked"
  /\ blocks' = Append(blocks, Block(t))
  /\ pc' = [pc EXCEPT ![t] = "idle"]
  /\ UNCHANGED <<estart, size, booted, earlier>>

Next ==
  \/ Start
  \/ \E t \in Caller : Return(t) \/ \E s \in Size : Carve(t, s)

Spec == Init /\ [][Next]_vars

-----------------------------------------------------------------------------
(* Properties *)

\* what the history keeps of a call that has returned
Given == [lo : Int, hi : Int, earlier : Nat]

\* Every variable has its type.
TypeOK ==
  /\ estart \in Nat
  /\ pc \in [Caller -> {"idle", "unlocked", "panic"}]
  /\ size \in [Caller -> Nat]
  /\ booted \in BOOLEAN
  /\ blocks \in Seq(Given)
  /\ earlier \in [Caller -> Nat]

\* Whoever allocated in between, a block kalloc returns lies in the heap, as long
\* as no call has found the heap too small: the address of a call that was
\* already behind its unlock then moves past the end.
InHeap ==
  (\A t \in Caller : pc[t] # "panic") =>
    \A i \in DOMAIN blocks :
      /\ pm_start <= blocks[i].lo
      /\ blocks[i].lo < blocks[i].hi
      /\ blocks[i].hi <= pm_end

\* A block is disjoint from every block that had been returned when its kalloc
\* took the lock: what a caller was given before is not given again, and what
\* was allocated at boot (tasks, devices, handlers) stays its own for good.
NeverGivenAgain ==
  \A i \in DOMAIN blocks :
    \A j \in 1..blocks[i].earlier : blocks[j].hi <= blocks[i].lo

\* Any two blocks are disjoint.  Two calls that overlap in time break it: both
\* return the addresses below the larger estart.
Disjoint ==
  \A i, j \in DOMAIN blocks :
    i # j => blocks[i].hi <= blocks[j].lo \/ blocks[j].hi <= blocks[i].lo

(* The inductive invariant. *)

\* estart is behind every block, and in the heap until a call finds it too small.
HeapInv ==
  /\ pm_start <= estart
  /\ (\A t \in Caller : pc[t] # "panic") => estart <= pm_end

\* A call behind its unlock asked for one of the sizes, and what had been
\* returned when it took the lock ends before the block it would return now.
CallInv(t) ==
  pc[t] = "unlocked" =>
    /\ size[t] \in Size
    /\ pm_start <= estart - size[t]
    /\ earlier[t] <= Len(blocks)
    /\ \A j \in 1..earlier[t] : blocks[j].hi <= estart - size[t]

BlockInv(i) ==
  /\ pm_start <= blocks[i].lo
  /\ blocks[i].lo < blocks[i].hi
  /\ blocks[i].hi <= estart
  /\ blocks[i].earlier < i
  /\ \A j \in 1..blocks[i].earlier : blocks[j].hi <= blocks[i].lo

IInv ==
  /\ TypeOK
  /\ HeapInv
  /\ \A t \in Caller : CallInv(t)
  /\ \A i \in DOMAIN blocks : BlockInv(i)
=============================================================================
