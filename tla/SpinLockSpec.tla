---------------------------- MODULE SpinLockSpec ----------------------------
(* What kmt->spin_lock / spin_unlock promise: every lock is either free or   *)
(* held by one CPU, it is acquired only when free and released only by the   *)
(* CPU that holds it.  Spinlock.tla implements this specification.           *)
CONSTANTS CPU, Lock

VARIABLE holders   \* [Lock -> SUBSET CPU], the CPUs that hold the lock

Init == holders = [l \in Lock |-> {}]

Acquire(c, l) ==
  /\ holders[l] = {}
  /\ holders' = [holders EXCEPT ![l] = {c}]

Release(c, l) ==
  /\ holders[l] = {c}
  /\ holders' = [holders EXCEPT ![l] = {}]

Next == \E c \in CPU, l \in Lock : Acquire(c, l) \/ Release(c, l)

Spec == Init /\ [][Next]_holders
=============================================================================
