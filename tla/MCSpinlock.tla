----------------------------- MODULE MCSpinlock -----------------------------
(* Two CPUs, an outer and an inner lock (as traplock and a semaphore's lock  *)
(* are), and interrupts nested two deep.                                     *)
EXTENDS Spinlock

CONSTANTS c1, c2, outer, inner

MCRank == [l \in {outer, inner} |-> IF l = outer THEN 1 ELSE 2]
=============================================================================
