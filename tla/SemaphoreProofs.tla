--------------------------- MODULE SemaphoreProofs --------------------------
(* Proofs about Semaphore, for any tasks, any size of the ring and any       *)
(* initial value.                                                            *)
EXTENDS Semaphore, FiniteSetTheorems, SequenceTheorems, TLAPS

(* The ring's successor, without a modulus.                                  *)
LEMMA NextSlot ==
  ASSUME NEW i \in Slot
  PROVE  /\ next(i) = IF i + 1 = NTHREAD THEN 0 ELSE i + 1
         /\ next(i) \in Slot
<1>1. NTHREAD \in Nat \ {0} /\ i \in Int /\ 0 <= i /\ i < NTHREAD
  BY SemaphoreAssumption DEF Slot
<1>2. CASE i + 1 = NTHREAD
  <2>1. (i + 1) % NTHREAD = 0
    BY <1>1, <1>2
  <2> QED
    BY <1>1, <1>2, <2>1 DEF next, Slot
<1>3. CASE i + 1 < NTHREAD
  <2>1. (i + 1) % NTHREAD = i + 1
    BY <1>1, <1>3
  <2> QED
    BY <1>1, <1>3, <2>1 DEF next, Slot
<1> QED
  BY <1>1, <1>2, <1>3

(* The slot k behind wlleft, without a modulus.                              *)
LEMMA SlotBehind ==
  ASSUME TypeOK, NEW k \in 0..NTHREAD
  PROVE  (wlleft + k) % NTHREAD = IF wlleft + k < NTHREAD THEN wlleft + k ELSE wlleft + k - NTHREAD
<1>1. NTHREAD \in Nat \ {0} /\ wlleft \in Int /\ 0 <= wlleft /\ wlleft < NTHREAD /\ k \in 0..NTHREAD
  BY SemaphoreAssumption DEF TypeOK, Slot
<1>2. CASE wlleft + k < NTHREAD
  BY <1>1, <1>2
<1>3. CASE wlleft + k >= NTHREAD
  <2>1. wlleft + k = NTHREAD + (wlleft + k - NTHREAD) /\ wlleft + k - NTHREAD \in 0..(NTHREAD - 1)
    BY <1>1, <1>3
  <2> QED
    BY <1>1, <1>3, <2>1
<1> QED
  BY <1>1, <1>2, <1>3

(* A waiter joins behind the last one.                                       *)
LEMMA EnqueueRing ==
  ASSUME TypeOK, NEW n \in 0..NTHREAD, RingInv(n), NEW t \in Task, wl[wlright] = NULL,
         wl' = [wl EXCEPT ![wlright] = t], wlright' = next(wlright), wlleft' = wlleft
  PROVE  n + 1 \in 0..NTHREAD /\ RingInv(n + 1)'
<1>1. /\ NTHREAD \in Nat \ {0} /\ wlleft \in 0..(NTHREAD - 1) /\ wlright \in 0..(NTHREAD - 1)
      /\ wl \in [Slot -> Task \cup {NULL}] /\ t # NULL
  BY SemaphoreAssumption DEF TypeOK, Slot
<1>2. Dist(wlright) = n /\ n < NTHREAD
  <2>1. CASE n = NTHREAD
    <3>1. Dist(wlright) = 0
      BY <1>1, <2>1 DEF RingInv, Dist
    <3> QED
      BY <1>1, <2>1, <3>1 DEF RingInv, Slot
  <2>2. CASE n < NTHREAD
    BY <1>1, <2>2 DEF RingInv, Dist
  <2> QED
    BY <1>1, <2>1, <2>2
<1>3. ASSUME NEW i \in Slot PROVE wl'[i] # NULL <=> Dist(i)' < n + 1
  <2>1. Dist(i)' = Dist(i) /\ Dist(i) \in Int /\ (Dist(i) = n => i = wlright)
    BY <1>1, <1>2 DEF Dist, Slot, RingInv
  <2>2. wl'[i] = IF i = wlright THEN t ELSE wl[i]
    BY <1>1
  <2>3. wl[i] # NULL <=> Dist(i) < n
    BY DEF RingInv
  <2> QED
    BY <1>1, <1>2, <2>1, <2>2, <2>3
<1>4. wlright' = IF wlleft' + (n + 1) < NTHREAD THEN wlleft' + (n + 1) ELSE wlleft' + (n + 1) - NTHREAD
  <2>1. wlright' = IF wlright + 1 = NTHREAD THEN 0 ELSE wlright + 1
    BY <1>1, NextSlot DEF Slot
  <2> QED
    BY <1>1, <1>2, <2>1 DEF RingInv
<1> QED
  BY <1>1, <1>2, <1>3, <1>4 DEF RingInv

(* The first waiter leaves.                                                  *)
LEMMA WakeRing ==
  ASSUME TypeOK, NEW n \in 0..NTHREAD, RingInv(n), wl[wlleft] # NULL,
         wl' = [wl EXCEPT ![wlleft] = NULL], wlleft' = next(wlleft), wlright' = wlright
  PROVE  n - 1 \in 0..NTHREAD /\ RingInv(n - 1)'
<1>1. /\ NTHREAD \in Nat \ {0} /\ wlleft \in 0..(NTHREAD - 1) /\ wlright \in 0..(NTHREAD - 1)
      /\ wl \in [Slot -> Task \cup {NULL}]
  BY SemaphoreAssumption DEF TypeOK, Slot
<1>2. n > 0
  <2>1. Dist(wlleft) = 0
    BY <1>1 DEF Dist
  <2> QED
    BY <1>1, <2>1 DEF RingInv, Slot
<1>3. wlleft' = IF wlleft + 1 = NTHREAD THEN 0 ELSE wlleft + 1
  BY <1>1, NextSlot DEF Slot
<1>4. ASSUME NEW i \in Slot PROVE wl'[i] # NULL <=> Dist(i)' < n - 1
  <2>1. wl'[i] = IF i = wlleft THEN NULL ELSE wl[i]
    BY <1>1
  <2>2. Dist(i)' = IF i = wlleft THEN NTHREAD - 1 ELSE Dist(i) - 1
    BY <1>1, <1>3 DEF Dist, Slot
  <2>3. wl[i] # NULL <=> Dist(i) < n
    BY DEF RingInv
  <2>4. Dist(i) \in Int
    BY <1>1 DEF Dist, Slot
  <2> QED
    BY <1>1, <1>2, <2>1, <2>2, <2>3, <2>4
<1>5. wlright' = IF wlleft' + (n - 1) < NTHREAD THEN wlleft' + (n - 1) ELSE wlleft' + (n - 1) - NTHREAD
  BY <1>1, <1>2, <1>3 DEF RingInv
<1> QED
  BY <1>1, <1>2, <1>4, <1>5 DEF RingInv
(* An empty slot at wlleft: the whole ring is empty.                         *)
LEMMA EmptyRing ==
  ASSUME TypeOK, NEW n \in 0..NTHREAD, RingInv(n), wl[wlleft] = NULL
  PROVE  n = 0 /\ wlright = wlleft /\ (\A i \in Slot : wl[i] = NULL)
<1>1. /\ NTHREAD \in Nat \ {0} /\ wlleft \in 0..(NTHREAD - 1)
  BY SemaphoreAssumption DEF TypeOK, Slot
<1>2. n = 0
  <2>1. Dist(wlleft) = 0
    BY <1>1 DEF Dist
  <2> QED
    BY <1>1, <2>1 DEF RingInv, Slot
<1>3. ASSUME NEW i \in Slot PROVE wl[i] = NULL
  <2>1. Dist(i) >= 0
    BY <1>1 DEF Dist, Slot
  <2>2. ~ (Dist(i) < n)
    BY <1>1, <1>2, <2>1 DEF Slot, Dist
  <2> QED
    BY <2>2 DEF RingInv
<1> QED
  BY <1>1, <1>2, <1>3 DEF RingInv

(* A full slot at wlright: the whole ring is full.                           *)
LEMMA FullRing ==
  ASSUME TypeOK, NEW n \in 0..NTHREAD, RingInv(n), wl[wlright] # NULL
  PROVE  \A i \in Slot : wl[i] # NULL
<1>1. /\ NTHREAD \in Nat \ {0} /\ wlleft \in 0..(NTHREAD - 1) /\ wlright \in 0..(NTHREAD - 1)
  BY SemaphoreAssumption DEF TypeOK, Slot
<1>2. n = NTHREAD
  <2>1. n < NTHREAD => Dist(wlright) = n
    BY <1>1 DEF RingInv, Dist
  <2>2. Dist(wlright) < n
    BY <1>1 DEF RingInv, Slot
  <2> QED
    BY <1>1, <2>1, <2>2
<1>3. ASSUME NEW i \in Slot PROVE Dist(i) < n
  BY <1>1, <1>2 DEF Dist, Slot
<1> QED
  BY <1>3 DEF RingInv

(* Subsets of Task are finite.                                               *)
LEMMA TaskSets ==
  ASSUME NEW S \in SUBSET Task
  PROVE  IsFiniteSet(S) /\ Cardinality(S) \in Nat
BY SemaphoreAssumption, FS_Subset, FS_CardinalityType

LEMMA InitIInv == Init => IInv
<1> SUFFICES ASSUME Init PROVE IInv
  OBVIOUS
<1> USE SemaphoreAssumption DEF Init
<1>1. 0 \in Slot
  BY DEF Slot
<1>2. TypeOK
  BY <1>1 DEF TypeOK, Statuses, PC
<1>3. RingInv(0)
  BY <1>1 DEF RingInv, Dist, Slot
<1>4. Queued = {}
  BY DEF Queued
<1>5. NoTwice /\ NoLostWakeup
  BY <1>4 DEF NoTwice, NoLostWakeup
<1>6. \A t \in Task : WaiterInv(t) /\ PanicInv(t)
  BY <1>4 DEF WaiterInv, PanicInv
<1> QED
  BY <1>2, <1>3, <1>5, <1>6 DEF IInv

(* Every step keeps the variables in their types.                            *)
LEMMA NextTypeOK == IInv /\ [Next]_vars => TypeOK'
<1> SUFFICES ASSUME IInv, [Next]_vars PROVE TypeOK'
  OBVIOUS
<1> USE DEF TypeOK, Statuses, PC
<1>0. TypeOK
  BY DEF IInv
<1>a. next(wlleft) \in Slot /\ next(wlright) \in Slot
  BY <1>0, NextSlot
<1>b. ASSUME semsignal
      PROVE  /\ value' \in Nat /\ wl' \in [Slot -> Task \cup {NULL}] /\ wlleft' \in Slot
             /\ wlright' \in Slot /\ status' \in [Task -> Statuses] /\ oncpu' \in SUBSET Task
  BY <1>b, <1>0, <1>a DEF semsignal, Wakes, Woken
<1>c. ASSUME NEW t \in Task, switch(t)
      PROVE  status' \in [Task -> Statuses] /\ oncpu' \in SUBSET Task
  BY <1>c, <1>0 DEF switch
<1>1. ASSUME NEW t \in Task, SemWait(t) PROVE TypeOK'
  BY <1>0, <1>1 DEF SemWait
<1>2. ASSUME NEW t \in Task, Take(t) PROVE TypeOK'
  BY <1>0, <1>2 DEF Take, Available
<1>3. ASSUME NEW t \in Task, Enqueue(t) PROVE TypeOK'
  BY <1>0, <1>a, <1>3 DEF Enqueue, Suspended
<1>4. ASSUME NEW t \in Task, EnqueuePanic(t) PROVE TypeOK'
  BY <1>0, <1>4 DEF EnqueuePanic
<1>5. ASSUME NEW t \in Task, SemSignal(t) PROVE TypeOK'
  BY <1>0, <1>b, <1>5 DEF SemSignal
<1>6. ASSUME NEW t \in Task, Yield(t) PROVE TypeOK'
  BY <1>0, <1>c, <1>6 DEF Yield, semvars
<1>7. ASSUME NEW t \in Task, Preempt(t) PROVE TypeOK'
  BY <1>0, <1>c, <1>7 DEF Preempt
<1>8. ASSUME NEW t \in Task, Dispatch(t) PROVE TypeOK'
  BY <1>0, <1>8 DEF Dispatch
<1>9. CASE IrqSignal
  BY <1>0, <1>b, <1>9 DEF IrqSignal
<1>10. CASE UNCHANGED vars
  BY <1>0, <1>10 DEF vars
<1> QED
  BY <1>1, <1>2, <1>3, <1>4, <1>5, <1>6, <1>7, <1>8, <1>9, <1>10 DEF Next, TaskStep

(* Steps that leave the ring alone.                                          *)
LEMMA SameRing ==
  ASSUME UNCHANGED <<wl, wlleft, wlright>>
  PROVE  /\ \A n \in 0..NTHREAD : RingInv(n) => RingInv(n)'
         /\ NoTwice => NoTwice'
         /\ Queued' = Queued
BY DEF RingInv, Dist, NoTwice, Queued

(* A task that is about to look at value is not queued.                      *)
LEMMA LookerNotQueued ==
  ASSUME IInv, NEW t \in Task, t \in oncpu, pc[t] # "yield"
  PROVE  t \notin Queued /\ status[t] # "SUSPEND"
BY DEF IInv, WaiterInv

(* semwait finds value.                                                      *)
LEMMA TakeIInv ==
  ASSUME IInv, NEW t \in Task, Take(t), TypeOK'
  PROVE  IInv'
<1> USE SemaphoreAssumption
<1>0. TypeOK /\ t \notin Queued /\ pc[t] # "panic" /\ Queued' = Queued
  BY LookerNotQueued, SameRing DEF IInv, Take
<1>1. \E n \in 0..NTHREAD : RingInv(n)'
  BY SameRing DEF IInv, Take
<1>2. NoTwice'
  BY SameRing DEF IInv, Take
<1>3. ASSUME NEW u \in Task PROVE WaiterInv(u)' /\ PanicInv(u)'
  BY <1>0 DEF IInv, Take, WaiterInv, PanicInv, TypeOK
<1>4. NoLostWakeup'
  <2>1. Retrying' = Retrying \ {t}
    BY <1>0 DEF Retrying, Take, TypeOK
  <2>2. Retrying \in SUBSET Task
    BY DEF Retrying
  <2>3. /\ Cardinality(Retrying) \in Nat
        /\ Cardinality(Retrying') >= Cardinality(Retrying) - 1
    BY <2>1, <2>2, TaskSets, FS_RemoveElement
  <2>4. value \in Nat /\ value' = value - 1 /\ Cardinality(Retrying') \in Int
    BY <1>0, <2>1, <2>2, TaskSets DEF TypeOK, Take
  <2> QED
    BY <1>0, <2>3, <2>4 DEF IInv, NoLostWakeup
<1> QED
  BY <1>1, <1>2, <1>3, <1>4 DEF IInv

(* semwait suspends its task: value is 0, so every sleeper is covered.       *)
LEMMA EnqueueIInv ==
  ASSUME IInv, NEW t \in Task, Enqueue(t), TypeOK'
  PROVE  IInv'
<1> USE SemaphoreAssumption
<1>0. TypeOK /\ t \notin Queued /\ t # NULL /\ wlright \in Slot
  BY LookerNotQueued DEF IInv, Enqueue, TypeOK
<1>1. \E n \in 0..NTHREAD : RingInv(n)'
  BY <1>0, EnqueueRing DEF IInv, Enqueue
<1>2. \A i \in Slot : wl'[i] = IF i = wlright THEN t ELSE wl[i]
  BY <1>0 DEF Enqueue, TypeOK
<1>3. Queued' = Queued \cup {t}
  BY <1>0, <1>2 DEF Queued, Enqueue
<1>4. NoTwice'
  BY <1>0, <1>2 DEF IInv, NoTwice, Queued
<1>5. ASSUME NEW u \in Task PROVE WaiterInv(u)' /\ PanicInv(u)'
  <2>1. /\ status'[u] = IF u = t THEN "SUSPEND" ELSE status[u]
        /\ pc'[u] = IF u = t THEN "yield" ELSE pc[u]
        /\ pc[u] # "panic" /\ oncpu' = oncpu
    BY <1>0 DEF Enqueue, Suspended, TypeOK, LockFree
  <2> QED
    BY <1>3, <2>1 DEF IInv, WaiterInv, PanicInv
<1>6. NoLostWakeup'
  <2>1. value' = 0
    BY <1>0 DEF Enqueue, Available, TypeOK
  <2>2. Cardinality(Retrying') \in Nat
    BY TaskSets DEF Retrying
  <2> QED
    BY <2>1, <2>2 DEF NoLostWakeup
<1> QED
  BY <1>1, <1>4, <1>5, <1>6 DEF IInv

(* semwait panics: every slot has another task.                              *)
LEMMA EnqueuePanicIInv ==
  ASSUME IInv, NEW t \in Task, EnqueuePanic(t), TypeOK'
  PROVE  IInv'
<1> USE SemaphoreAssumption
<1>0. TypeOK /\ t \notin Queued /\ Queued' = Queued
  BY LookerNotQueued, SameRing DEF IInv, EnqueuePanic
<1>1. \E n \in 0..NTHREAD : RingInv(n)'
  BY SameRing DEF IInv, EnqueuePanic
<1>2. NoTwice'
  BY SameRing DEF IInv, EnqueuePanic
<1>3. \A i \in Slot : wl[i] # NULL
  BY <1>0, FullRing DEF IInv, EnqueuePanic
<1>4. ASSUME NEW u \in Task PROVE WaiterInv(u)' /\ PanicInv(u)'
  BY <1>0, <1>3 DEF IInv, EnqueuePanic, WaiterInv, PanicInv, TypeOK
<1>5. NoLostWakeup'
  <2>1. value' = 0
    BY <1>0 DEF EnqueuePanic, Available, TypeOK
  <2>2. Cardinality(Retrying') \in Nat
    BY TaskSets DEF Retrying
  <2> QED
    BY <2>1, <2>2 DEF NoLostWakeup
<1> QED
  BY <1>1, <1>2, <1>4, <1>5 DEF IInv

(* A signal with nobody in the ring; semsignal's panic does not fire.        *)
LEMMA NoSignalPanic ==
  ASSUME IInv
  PROVE  ~SignalPanics /\ (Woken = NULL => Queued = {})
<1>1. Woken = NULL => wlright = wlleft /\ \A i \in Slot : wl[i] = NULL
  BY EmptyRing DEF IInv, Woken
<1> QED
  BY <1>1, SemaphoreAssumption DEF SignalPanics, Queued

(* semsignal adds a unit and, with it, a woken task that will look at it.    *)
LEMMA SignalIInv ==
  ASSUME IInv, semsignal, LockFree, pc' = pc, TypeOK'
  PROVE  IInv'
<1> USE SemaphoreAssumption
<1>0. TypeOK /\ oncpu' = oncpu /\ wlright' = wlright /\ value' = value + 1 /\ value \in Nat
  BY DEF IInv, semsignal, TypeOK
<1>1. CASE Woken = NULL
  <2>1. UNCHANGED <<wl, wlleft, wlright, status>>
    BY <1>1 DEF semsignal, Wakes
  <2>2. Queued' = Queued /\ Queued = {}
    BY <1>1, <2>1, SameRing, NoSignalPanic
  <2>3. (\E n \in 0..NTHREAD : RingInv(n)') /\ NoTwice'
    BY <2>1, SameRing DEF IInv
  <2>4. ASSUME NEW u \in Task PROVE WaiterInv(u)' /\ PanicInv(u)'
    BY <1>0, <2>1, <2>2 DEF IInv, WaiterInv, PanicInv
  <2> QED
    BY <2>2, <2>3, <2>4 DEF IInv, NoLostWakeup
<1>2. CASE Woken # NULL
  <2> DEFINE w == wl[wlleft]
  <2>1. /\ w \in Task /\ wlleft \in Slot /\ wl' = [wl EXCEPT ![wlleft] = NULL]
        /\ wlleft' = next(wlleft) /\ status' = [status EXCEPT ![w] = "READY"]
    BY <1>0, <1>2 DEF semsignal, Wakes, Woken, TypeOK
  <2>2. \E n \in 0..NTHREAD : RingInv(n)'
    BY <1>0, <1>2, <2>1, WakeRing DEF IInv, Woken
  <2>3. \A i \in Slot : wl'[i] = IF i = wlleft THEN NULL ELSE wl[i]
    BY <1>0, <2>1 DEF TypeOK
  <2>4. NoTwice'
    BY <2>3 DEF IInv, NoTwice
  <2>5. w \in Queued /\ Queued' = Queued \ {w}
    BY <2>1, <2>3 DEF IInv, NoTwice, Queued
  <2> HIDE DEF w
  <2>6. ASSUME NEW u \in Task PROVE WaiterInv(u)' /\ PanicInv(u)'
    <3>1. status'[u] = (IF u = w THEN "READY" ELSE status[u]) /\ pc[u] # "panic"
      BY <1>0, <2>1 DEF TypeOK, LockFree
    <3> QED
      BY <1>0, <2>5, <3>1 DEF IInv, WaiterInv, PanicInv
  <2>7. NoLostWakeup'
    <3>1. pc[w] \in {"yield", "retry"}
      BY <2>1, <2>5 DEF IInv, WaiterInv
    <3>2. Retrying' = Retrying \cup {w} /\ w \notin Retrying /\ Retrying \in SUBSET Task
      BY <2>1, <2>5, <3>1 DEF Retrying
    <3>3. Cardinality(Retrying) \in Nat /\ Cardinality(Retrying') = Cardinality(Retrying) + 1
      BY <3>2, TaskSets, FS_AddElement
    <3>4. value <= Cardinality(Retrying)
      BY <2>5 DEF IInv, NoLostWakeup
    <3> QED
      BY <1>0, <3>3, <3>4 DEF NoLostWakeup
  <2> QED
    BY <2>2, <2>4, <2>6, <2>7 DEF IInv
<1> QED
  BY <1>1, <1>2

(* A step of the scheduler, or one outside semwait's sections: the ring and  *)
(* value stay, who is suspended stays, and who has yet to look at value.     *)
LEMMA ElsewhereIInv ==
  ASSUME IInv, UNCHANGED semvars, TypeOK',
         \A u \in Task : /\ status'[u] = "SUSPEND" <=> status[u] = "SUSPEND"
                         /\ pc'[u] \in {"yield", "retry"} <=> pc[u] \in {"yield", "retry"}
                         /\ pc'[u] = "panic" => pc[u] = "panic"
                         /\ u \in Queued /\ u \in oncpu' => pc'[u] = "yield"
  PROVE  IInv'
<1>0. Queued' = Queued /\ value' = value /\ UNCHANGED <<wl, wlleft, wlright>>
  BY SameRing DEF semvars
<1>1. (\E n \in 0..NTHREAD : RingInv(n)') /\ NoTwice'
  BY <1>0, SameRing DEF IInv
<1>2. ASSUME NEW u \in Task PROVE WaiterInv(u)' /\ PanicInv(u)'
  BY <1>0 DEF IInv, WaiterInv, PanicInv
<1>3. Retrying' = Retrying
  BY <1>0 DEF Retrying
<1>4. NoLostWakeup'
  BY <1>0, <1>3 DEF IInv, NoLostWakeup
<1> QED
  BY <1>1, <1>2, <1>4 DEF IInv

(* What a trap does to one task suspends nobody and wakes nobody.            *)
LEMMA SwitchStatus ==
  ASSUME TypeOK, NEW t \in Task, switch(t)
  PROVE  /\ \A u \in Task : status'[u] = "SUSPEND" <=> status[u] = "SUSPEND"
         /\ oncpu' \subseteq oncpu
         /\ status[t] = "SUSPEND" => t \notin oncpu'
BY DEF TypeOK, switch

(* Every step keeps the invariant.                                           *)
LEMMA NextIInv == IInv /\ [Next]_vars => IInv'
<1> SUFFICES ASSUME IInv, [Next]_vars PROVE IInv'
  OBVIOUS
<1>0. TypeOK /\ TypeOK'
  BY NextTypeOK DEF IInv
<1>a. pc \in [Task -> PC] /\ status \in [Task -> Statuses]
  BY <1>0 DEF TypeOK
<1>b. \A u \in Task : WaiterInv(u)
  BY DEF IInv
<1>1. ASSUME NEW t \in Task, SemWait(t) PROVE IInv'
  BY <1>0, <1>a, <1>b, <1>1, ElsewhereIInv DEF SemWait, semvars, WaiterInv
<1>2. ASSUME NEW t \in Task, Take(t) PROVE IInv'
  BY <1>0, <1>2, TakeIInv
<1>3. ASSUME NEW t \in Task, Enqueue(t) PROVE IInv'
  BY <1>0, <1>3, EnqueueIInv
<1>4. ASSUME NEW t \in Task, EnqueuePanic(t) PROVE IInv'
  BY <1>0, <1>4, EnqueuePanicIInv
<1>5. ASSUME NEW t \in Task, SemSignal(t) PROVE IInv'
  BY <1>0, <1>5, SignalIInv, NoSignalPanic DEF SemSignal
<1>6. ASSUME NEW t \in Task, Yield(t) PROVE IInv'
  <2>1. \A u \in Task : pc'[u] = IF u = t THEN "retry" ELSE pc[u]
    BY <1>6, <1>a DEF Yield
  <2>2. /\ \A u \in Task : status'[u] = "SUSPEND" <=> status[u] = "SUSPEND"
        /\ oncpu' \subseteq oncpu /\ (status[t] = "SUSPEND" => t \notin oncpu')
    BY <1>6, <1>0, SwitchStatus DEF Yield
  <2> QED
    BY <1>0, <1>b, <1>6, <2>1, <2>2, ElsewhereIInv DEF Yield, WaiterInv
<1>7. ASSUME NEW t \in Task, Preempt(t) PROVE IInv'
  <2>1. /\ \A u \in Task : status'[u] = "SUSPEND" <=> status[u] = "SUSPEND"
        /\ oncpu' \subseteq oncpu
    BY <1>7, <1>0, SwitchStatus DEF Preempt
  <2> QED
    BY <1>0, <1>b, <1>7, <2>1, ElsewhereIInv DEF Preempt, WaiterInv, semvars
<1>8. ASSUME NEW t \in Task, Dispatch(t) PROVE IInv'
  BY <1>0, <1>a, <1>b, <1>8, ElsewhereIInv DEF Dispatch, WaiterInv, semvars
<1>9. CASE IrqSignal
  BY <1>0, <1>9, SignalIInv DEF IrqSignal
<1>10. CASE UNCHANGED vars
  BY <1>0, <1>b, <1>10, ElsewhereIInv DEF vars, semvars, WaiterInv
<1> QED
  BY <1>1, <1>2, <1>3, <1>4, <1>5, <1>6, <1>7, <1>8, <1>9, <1>10 DEF Next, TaskStep

(* The invariant holds in every state of every behaviour of the semaphore.   *)
THEOREM Invariance == Spec => []IInv
BY InitIInv, NextIInv, PTL DEF Spec

(* All variables keep their types; value is never below 0.                   *)
THEOREM TypeCorrect == Spec => []TypeOK
<1>1. IInv => TypeOK
  BY DEF IInv
<1> QED
  BY Invariance, <1>1, PTL

(* While somebody sleeps, every unit has a woken task that will look at it.  *)
THEOREM NoWakeupLost == Spec => []NoLostWakeup
<1>1. IInv => NoLostWakeup
  BY DEF IInv
<1> QED
  BY Invariance, <1>1, PTL

-----------------------------------------------------------------------------
(* The ring as a queue.                                                      *)

(* The queue is the first n slots from wlleft on.                            *)
LEMMA QueueIs ==
  ASSUME TypeOK, NEW n \in 0..NTHREAD, RingInv(n)
  PROVE  /\ Occupied = n
         /\ Queue \in [1..n -> Task]
         /\ \A k \in 1..n : Queue[k] = wl[IF wlleft + (k - 1) < NTHREAD
                                          THEN wlleft + (k - 1) ELSE wlleft + (k - 1) - NTHREAD]
<1> DEFINE S == {i \in Slot : wl[i] # NULL}
           at(k) == IF wlleft + (k - 1) < NTHREAD THEN wlleft + (k - 1)
                    ELSE wlleft + (k - 1) - NTHREAD
           f == [k \in 1..n |-> at(k)]
<1>1. /\ NTHREAD \in Nat \ {0} /\ wlleft \in 0..(NTHREAD - 1) /\ n \in 0..NTHREAD
      /\ wl \in [Slot -> Task \cup {NULL}]
  BY SemaphoreAssumption DEF TypeOK, Slot
<1>2. ASSUME NEW k \in 1..n PROVE at(k) \in Slot /\ Dist(at(k)) = k - 1
  BY <1>1 DEF Slot, Dist
<1>3. ASSUME NEW k \in 1..n PROVE at(k) \in S /\ wl[at(k)] \in Task
  <2>1. Dist(at(k)) < n
    BY <1>1, <1>2
  <2>2. at(k) \in Slot
    BY <1>2
  <2> HIDE DEF at
  <2> QED
    BY <1>1, <2>1, <2>2 DEF RingInv
<1>4. ASSUME NEW i \in S PROVE Dist(i) + 1 \in 1..n /\ at(Dist(i) + 1) = i
  <2>1. Dist(i) < n /\ i \in 0..(NTHREAD - 1)
    BY DEF RingInv, Slot
  <2> QED
    BY <1>1, <2>1 DEF Dist
<1>5. f \in [1..n -> S]
  <2> HIDE DEF at
  <2> QED
    BY <1>3
<1>6. \A j, k \in 1..n : f[j] = f[k] => j = k
  <2> SUFFICES ASSUME NEW j \in 1..n, NEW k \in 1..n, at(j) = at(k) PROVE j = k
    OBVIOUS
  <2>1. j - 1 = k - 1
    BY <1>2
  <2> QED
    BY <1>1, <2>1
<1>7. \A i \in S : \E k \in 1..n : f[k] = i
  <2> SUFFICES ASSUME NEW i \in S PROVE \E k \in 1..n : f[k] = i
    OBVIOUS
  <2>1. Dist(i) + 1 \in 1..n /\ at(Dist(i) + 1) = i
    BY <1>4
  <2> HIDE DEF at
  <2> QED
    BY <2>1
<1>8. ExistsBijection(1..n, S)
  <2> HIDE DEF f, S
  <2>1. f \in Bijection(1..n, S)
    BY <1>5, <1>6, <1>7 DEF Bijection, Injection, IsInjective, Surjection
  <2> QED
    BY <2>1 DEF ExistsBijection
<1>9. Occupied = n
  BY <1>1, <1>8, FS_CountingElements DEF Occupied
<1>10. ASSUME NEW k \in 1..n PROVE (wlleft + k - 1) % NTHREAD = at(k)
  <2>1. k - 1 \in 0..NTHREAD /\ wlleft + k - 1 = wlleft + (k - 1)
    BY <1>1
  <2> QED
    BY <2>1, SlotBehind
<1>11. \A k \in 1..n : Queue[k] = wl[at(k)]
  <2> HIDE DEF at
  <2> QED
    BY <1>9, <1>10 DEF Queue
<1>12. Queue = [k \in 1..n |-> Queue[k]]
  BY <1>9 DEF Queue
<1> QED
  <2> HIDE DEF S, f
  <2>1. Queue \in [1..n -> Task]
    BY <1>3, <1>11, <1>12
  <2> QED
    BY <1>9, <1>11, <2>1

(* What QueueIs says, of the state after a step too.                         *)
QueueFacts ==
  \A n \in 0..NTHREAD : RingInv(n) =>
     /\ Queue \in Seq(Task) /\ Len(Queue) = n
     /\ \A k \in 1..n : Queue[k] = wl[IF wlleft + (k - 1) < NTHREAD
                                      THEN wlleft + (k - 1) ELSE wlleft + (k - 1) - NTHREAD]

LEMMA QueueFactsHold == TypeOK => QueueFacts
<1> SUFFICES ASSUME TypeOK, NEW n \in 0..NTHREAD, RingInv(n)
             PROVE  /\ Queue \in Seq(Task) /\ Len(Queue) = n
                    /\ \A k \in 1..n :
                         Queue[k] = wl[IF wlleft + (k - 1) < NTHREAD
                                       THEN wlleft + (k - 1) ELSE wlleft + (k - 1) - NTHREAD]
  BY DEF QueueFacts
<1>1. Queue \in [1..n -> Task] /\ n \in Nat
  BY QueueIs, SemaphoreAssumption
<1>2. Queue \in Seq(Task) /\ Len(Queue) = n
  BY <1>1
<1> QED
  BY <1>2, QueueIs

LEMMA QueueFactsHoldNext == TypeOK' => QueueFacts'
BY QueueFactsHold, PTL

(* The ring has no hole and holds exactly the suspended tasks, once each.    *)
THEOREM RingHoldsWaiters == Spec => []WaitersInRing
<1>1. IInv => WaitersInRing
  <2> SUFFICES ASSUME IInv PROVE WaitersInRing
    OBVIOUS
  <2>0. TypeOK
    BY DEF IInv
  <2>1. PICK n \in 0..NTHREAD : RingInv(n)
    BY DEF IInv
  <2>2. Occupied = n /\ Queue \in [1..n -> Task]
    BY <2>0, <2>1, QueueIs
  <2>3. \A k \in 1..Occupied : Queue[k] # NULL
    BY <2>2, SemaphoreAssumption
  <2>4. wlright = (wlleft + Occupied) % NTHREAD
    BY <2>0, <2>1, <2>2, SlotBehind DEF RingInv
  <2> QED
    BY <2>3, <2>4 DEF IInv, NoTwice, WaiterInv, WaitersInRing
<1> QED
  BY Invariance, <1>1, PTL

(* semwait panics only with every slot taken by others, semsignal never.     *)
THEOREM PanicsMeanFull == Spec => []PanicMeansFull
<1>1. IInv => PanicMeansFull
  <2> SUFFICES ASSUME IInv PROVE PanicMeansFull
    OBVIOUS
  <2>1. ASSUME NEW t \in Task, pc[t] = "panic" PROVE t \notin Queued /\ Occupied = NTHREAD
    <3>1. t \notin Queued /\ \A i \in Slot : wl[i] # NULL
      BY <2>1 DEF IInv, PanicInv
    <3>2. {i \in Slot : wl[i] # NULL} = 0..(NTHREAD - 1)
      BY <3>1 DEF Slot
    <3>3. Cardinality(0..(NTHREAD - 1)) = NTHREAD
      <4>1. NTHREAD - 1 \in Int /\ ~(0 > NTHREAD - 1) /\ (NTHREAD - 1) - 0 + 1 = NTHREAD
        BY SemaphoreAssumption
      <4> QED
        BY <4>1, FS_Interval
    <3> QED
      BY <3>1, <3>2, <3>3 DEF Occupied
  <2> QED
    BY <2>1, NoSignalPanic DEF PanicMeansFull
<1> QED
  BY Invariance, <1>1, PTL

(* Enqueueing appends to the queue.                                          *)
LEMMA EnqueueAppends ==
  ASSUME IInv, TypeOK', NEW t \in Task, Enqueue(t)
  PROVE  Queue' = Append(Queue, t)
<1>0. TypeOK
  BY DEF IInv
<1>1. PICK n \in 0..NTHREAD : RingInv(n)
  BY DEF IInv
<1>2. n + 1 \in 0..NTHREAD /\ RingInv(n + 1)'
  BY <1>0, <1>1, EnqueueRing DEF Enqueue
<1> DEFINE at(k) == IF wlleft + (k - 1) < NTHREAD THEN wlleft + (k - 1)
                    ELSE wlleft + (k - 1) - NTHREAD
<1>3. Queue \in Seq(Task) /\ Len(Queue) = n /\ \A k \in 1..n : Queue[k] = wl[at(k)]
  BY <1>0, <1>1, QueueFactsHold DEF QueueFacts
<1>4. /\ Queue' \in Seq(Task) /\ Len(Queue') = n + 1
      /\ \A k \in 1..(n + 1) : Queue'[k] = wl'[at(k)']
  BY <1>2, QueueFactsHoldNext DEF QueueFacts
<1>5. /\ wlleft' = wlleft /\ NTHREAD \in Nat \ {0} /\ wlleft \in 0..(NTHREAD - 1)
      /\ wlright \in Slot /\ wl \in [Slot -> Task \cup {NULL}] /\ t # NULL
      /\ wl' = [wl EXCEPT ![wlright] = t] /\ wl[wlright] = NULL
  BY <1>0, SemaphoreAssumption DEF TypeOK, Slot, Enqueue
<1>6. at(n + 1) = wlright
  BY <1>1, <1>2, <1>5 DEF RingInv
<1>7. \A k \in 1..(n + 1) : Queue'[k] = IF k = n + 1 THEN t ELSE Queue[k]
  <2> SUFFICES ASSUME NEW k \in 1..(n + 1)
               PROVE  Queue'[k] = IF k = n + 1 THEN t ELSE Queue[k]
    OBVIOUS
  <2>1. at(k)' = at(k) /\ Queue'[k] = wl'[at(k)]
    BY <1>4, <1>5
  <2>2. CASE k = n + 1
    BY <1>5, <1>6, <2>1, <2>2
  <2>3. CASE k # n + 1
    <3>1. k \in 1..n
      BY <2>3
    <3>2. Queue[k] = wl[at(k)] /\ Queue[k] \in Task
      BY <1>3, <3>1, ElementOfSeq
    <3>3. at(k) # wlright
      BY <1>5, <3>2, SemaphoreAssumption
    <3> HIDE DEF at
    <3>4. wl'[at(k)] = wl[at(k)]
      BY <1>5, <3>3
    <3> QED
      BY <2>1, <2>3, <3>2, <3>4
  <2> QED
    BY <2>2, <2>3
<1> HIDE DEF at
<1>8. /\ Append(Queue, t) \in Seq(Task) /\ Len(Append(Queue, t)) = n + 1
      /\ \A k \in 1..(n + 1) : Append(Queue, t)[k] = IF k = n + 1 THEN t ELSE Queue[k]
  BY <1>3, AppendProperties
<1> QED
  BY <1>4, <1>7, <1>8, SeqEqual

(* A signal that wakes takes the first one from the queue.                   *)
LEMMA SignalTakesFirst ==
  ASSUME IInv, TypeOK', semsignal
  PROVE  Queue' = Queue \/ (Queue # <<>> /\ Queue' = Tail(Queue))
<1>0. TypeOK
  BY DEF IInv
<1>1. PICK n \in 0..NTHREAD : RingInv(n)
  BY DEF IInv
<1>2. CASE Woken = NULL
  BY <1>2 DEF semsignal, Wakes, Queue, Occupied
<1>3. CASE Woken # NULL
  <2> DEFINE at(k) == IF wlleft + (k - 1) < NTHREAD THEN wlleft + (k - 1)
                      ELSE wlleft + (k - 1) - NTHREAD
  <2>1. /\ wl[wlleft] # NULL /\ wl' = [wl EXCEPT ![wlleft] = NULL] /\ wlleft' = next(wlleft)
        /\ wlright' = wlright
    BY <1>3 DEF semsignal, Wakes, Woken
  <2>2. n - 1 \in 0..NTHREAD /\ RingInv(n - 1)'
    BY <1>0, <1>1, <2>1, WakeRing
  <2>3. Queue \in Seq(Task) /\ Len(Queue) = n /\ \A k \in 1..n : Queue[k] = wl[at(k)]
    BY <1>0, <1>1, QueueFactsHold DEF QueueFacts
  <2>4. /\ Queue' \in Seq(Task) /\ Len(Queue') = n - 1
        /\ \A k \in 1..(n - 1) : Queue'[k] = wl'[at(k)']
    BY <2>2, QueueFactsHoldNext DEF QueueFacts
  <2>5. /\ NTHREAD \in Nat \ {0} /\ wlleft \in 0..(NTHREAD - 1) /\ wlleft \in Slot
        /\ wl \in [Slot -> Task \cup {NULL}]
    BY <1>0, SemaphoreAssumption DEF TypeOK, Slot
  <2>6. wlleft' = IF wlleft + 1 = NTHREAD THEN 0 ELSE wlleft + 1
    BY <2>1, <2>5, NextSlot
  <2>7. \A k \in 1..(n - 1) : Queue'[k] = Queue[k + 1]
    <3> SUFFICES ASSUME NEW k \in 1..(n - 1) PROVE Queue'[k] = Queue[k + 1]
      OBVIOUS
    <3>1. at(k)' = at(k + 1) /\ at(k + 1) # wlleft /\ at(k + 1) \in Slot /\ k + 1 \in 1..n
      BY <2>2, <2>5, <2>6 DEF Slot
    <3>2. Queue'[k] = wl'[at(k + 1)] /\ Queue[k + 1] = wl[at(k + 1)]
      BY <2>3, <2>4, <3>1
    <3> HIDE DEF at
    <3> QED
      BY <2>1, <2>5, <3>1, <3>2
  <2> HIDE DEF at
  <2>8. Queue # <<>>
    BY <2>2, <2>3
  <2>9. /\ Tail(Queue) \in Seq(Task) /\ Len(Tail(Queue)) = n - 1
        /\ \A k \in 1..(n - 1) : Tail(Queue)[k] = Queue[k + 1]
    BY <2>3, <2>8, HeadTailProperties
  <2>10. Queue' = Tail(Queue)
    BY <2>4, <2>7, <2>9, SeqEqual
  <2> QED
    BY <2>8, <2>10
<1> QED
  BY <1>2, <1>3

(* Waiters enter at the back and leave from the front, across the wrap.      *)
THEOREM QueueIsFifo == Spec => Fifo
<1> DEFINE A == \/ Queue' = Queue
                \/ \E t \in Task : Queue' = Append(Queue, t)
                \/ Queue # <<>> /\ Queue' = Tail(Queue)
<1>1. IInv /\ [Next]_vars => [A]_vars
  <2> SUFFICES ASSUME IInv, Next PROVE A
    OBVIOUS
  <2>0. TypeOK'
    BY NextTypeOK
  <2>1. ASSUME UNCHANGED <<wl, wlleft, wlright>> PROVE A
    BY <2>1 DEF Queue, Occupied
  <2>2. ASSUME NEW t \in Task, Enqueue(t) PROVE A
    BY <2>0, <2>2, EnqueueAppends
  <2>3. ASSUME semsignal PROVE A
    BY <2>0, <2>3, SignalTakesFirst
  <2> HIDE DEF A
  <2>4. ASSUME NEW t \in Task, TaskStep(t) PROVE A
    BY <2>1, <2>2, <2>3, <2>4
    DEF TaskStep, SemWait, Take, EnqueuePanic, SemSignal, Yield, Preempt, Dispatch, semvars
  <2> QED
    BY <2>3, <2>4 DEF Next, IrqSignal
<1> QED
  BY Invariance, <1>1, PTL DEF Spec, Fifo

(* Every step of sem.c is a step of SemSpec or leaves it alone.              *)
THEOREM ImplementsSemSpec == Spec => KeepsSemSpec
<1> DEFINE waitingBar == {t \in Task : pc[t] # "idle"}
<1>1. Init => Abstract!Init
  BY DEF Init, Abstract!Init
<1>2. IInv /\ [Next]_vars => [Abstract!Next]_<<value, waitingBar>>
  <2> SUFFICES ASSUME IInv, [Next]_vars PROVE [Abstract!Next]_<<value, waitingBar>>
    OBVIOUS
  <2>0. pc \in [Task -> PC]
    BY DEF IInv, TypeOK
  <2>1. ASSUME NEW t \in Task, SemWait(t) PROVE Abstract!Request(t)
    BY <2>0, <2>1 DEF SemWait, Abstract!Request
  <2>2. ASSUME NEW t \in Task, Take(t) PROVE Abstract!Down(t)
    BY <2>0, <2>2 DEF Take, Available, Abstract!Down
  <2>3. ASSUME semsignal, pc' = pc PROVE Abstract!Up
    BY <2>3 DEF semsignal, Abstract!Up
  <2>4. ASSUME NEW t \in Task, Enqueue(t) \/ EnqueuePanic(t) \/ Yield(t) \/ Preempt(t) \/ Dispatch(t)
        PROVE  UNCHANGED <<value, waitingBar>>
    BY <2>0, <2>4 DEF Enqueue, EnqueuePanic, Yield, Preempt, Dispatch, semvars
  <2>5. ASSUME NEW t \in Task, SemSignal(t) PROVE Abstract!Up
    BY <2>3, <2>5, NoSignalPanic DEF SemSignal
  <2>6. CASE UNCHANGED vars
    BY <2>6 DEF vars
  <2> HIDE DEF waitingBar
  <2>7. ASSUME NEW t \in Task, TaskStep(t) PROVE [Abstract!Next]_<<value, waitingBar>>
    BY <2>1, <2>2, <2>4, <2>5, <2>7 DEF TaskStep, Abstract!Next
  <2> QED
    BY <2>3, <2>6, <2>7 DEF Next, IrqSignal, Abstract!Next
<1>3. IInv /\ [Next]_vars => [Abstract!Next]_(Abstract!vars)
  BY <1>2 DEF Abstract!vars
<1> QED
  BY <1>1, <1>3, Invariance, PTL DEF Spec, KeepsSemSpec, Abstract!SafeSpec
=============================================================================
