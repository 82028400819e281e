------------------------------ MODULE Semaphore -----------------------------
(* kernel/src/sem.c: counting semaphores with a ring of suspended tasks.     *)
(*                                                                           *)
(* A critical section of sem->lock is one step: Spinlock.tla shows that the  *)
(* lock excludes every other section and keeps interrupts off inside.  What  *)
(* stays interleaved is everything between sections: semwait has released    *)
(* the lock before it yields, and it takes the lock again when it resumes.   *)
(*                                                                           *)
(* The scheduler (Kmt.tla) is abstracted to what it does to one task: a trap *)
(* may take a task off its CPU, only a READY task gets a CPU again, and a    *)
(* task that traps while SUSPENDed is taken off.                             *)
EXTENDS Integers, Sequences, FiniteSets

CONSTANTS
  Task,          \* the tasks that use the semaphore
  NULL,          \* an empty slot of the ring
  NTHREAD,       \* size of the ring
  InitialValue,  \* the value given to sem_init
  MaxValue       \* bound: callers signal only below it

ASSUME SemaphoreAssumption ==
  /\ IsFiniteSet(Task)
  /\ NULL \notin Task
  /\ NTHREAD \in Nat \ {0}
  /\ InitialValue \in Nat
  /\ MaxValue \in Nat

VARIABLES
  value, wl, wlleft, wlright,  \* sem->value, wl[], wlleft, wlright
  status,   \* [Task -> task->status]
  pc,       \* [Task -> where the task is in semwait]
  oncpu     \* the tasks executing on some CPU

semvars == <<value, wl, wlleft, wlright>>
vars == <<value, wl, wlleft, wlright, status, pc, oncpu>>

Slot == 0..(NTHREAD - 1)
Statuses == {"READY", "RUNNING", "SUSPEND"}

\* idle: outside; wait: about to take sem->lock for the first time; yield: has
\* suspended itself and released the lock; retry: about to take it again
PC == {"idle", "wait", "yield", "retry", "panic"}

(* seminit; every task has just been created. *)
Init ==
  /\ value = InitialValue
  /\ wl = [i \in Slot |-> NULL]
  /\ wlleft = 0
  /\ wlright = 0
  /\ status = [t \in Task |-> "READY"]
  /\ pc = [t \in Task |-> "idle"]
  /\ oncpu = {}

\* sem->lock is not held by a task that panicked inside its critical section.
LockFree == \A t \in Task : pc[t] # "panic"

\* mutant: the last slot is never used
Mutnext(i) == (i + 1) % (NTHREAD - 1)

next(i) == (i + 1) % NTHREAD

-----------------------------------------------------------------------------
(* semwait(sem) *)

\* mutant: off by one
MutAvailable == value >= 0

Available == value > 0

\* mutant: status is left to the yield
MutSuspended(t) == status

\* status when t has suspended itself
Suspended(t) == [status EXCEPT ![t] = "SUSPEND"]

SemWait(t) ==
  /\ t \in oncpu
  /\ pc[t] = "idle"
  /\ pc' = [pc EXCEPT ![t] = "wait"]
  /\ UNCHANGED <<value, wl, wlleft, wlright, status, oncpu>>

\* the loop test succeeds: value--, unlock, return
Take(t) ==
  /\ t \in oncpu
  /\ pc[t] \in {"wait", "retry"}
  /\ LockFree
  /\ Available
  /\ value' = value - 1
  /\ pc' = [pc EXCEPT ![t] = "idle"]
  /\ UNCHANGED <<wl, wlleft, wlright, status, oncpu>>

\* the loop body up to my_spinunlock: enqueue cur_task, suspend it
Enqueue(t) ==
  /\ t \in oncpu
  /\ pc[t] \in {"wait", "retry"}
  /\ LockFree
  /\ ~Available
  /\ wl[wlright] = NULL
  /\ wl' = [wl EXCEPT ![wlright] = t]
  /\ wlright' = next(wlright)
  /\ status' = Suspended(t)
  /\ pc' = [pc EXCEPT ![t] = "yield"]
  /\ UNCHANGED <<value, wlleft, oncpu>>

\* panic("The waiting queue is full!")
EnqueuePanic(t) ==
  /\ t \in oncpu
  /\ pc[t] \in {"wait", "retry"}
  /\ LockFree
  /\ ~Available
  /\ wl[wlright] # NULL
  /\ pc' = [pc EXCEPT ![t] = "panic"]
  /\ UNCHANGED <<value, wl, wlleft, wlright, status, oncpu>>

-----------------------------------------------------------------------------
(* semsignal(sem), called by a task or by an interrupt handler (input_notify) *)

Woken == wl[wlleft]

\* mutant: wakes a task only for the first unit
MutWakes == Woken # NULL /\ value = 0

Wakes == Woken # NULL

\* mutant: wakes all waiters
MutsemsignalAll ==
  /\ value' = value + 1
  /\ status' = [t \in Task |-> IF status[t] = "SUSPEND" THEN "READY" ELSE status[t]]
  /\ wl' = [i \in Slot |-> NULL]
  /\ wlleft' = wlright
  /\ UNCHANGED <<wlright, oncpu>>

semsignal ==
  /\ value' = value + 1
  /\ IF Wakes
     THEN /\ status' = [status EXCEPT ![Woken] = "READY"]
          /\ wl' = [wl EXCEPT ![wlleft] = NULL]
          /\ wlleft' = next(wlleft)
     ELSE UNCHANGED <<status, wl, wlleft>>
  /\ UNCHANGED <<wlright, oncpu>>

\* panic("The waiting list should be empty but not")
SignalPanics == Woken = NULL /\ wlleft # wlright

SemSignal(t) ==
  /\ t \in oncpu
  /\ pc[t] = "idle"
  /\ LockFree
  /\ value < MaxValue
  /\ semsignal
  /\ pc' = IF SignalPanics THEN [pc EXCEPT ![t] = "panic"] ELSE pc

\* Its SignalPanics would stop the machine; PanicMeansFull excludes it.
IrqSignal ==
  /\ LockFree
  /\ value < MaxValue
  /\ semsignal
  /\ UNCHANGED pc

-----------------------------------------------------------------------------
(* The scheduler, as kmt_context_switch treats one task t.                   *)

\* mutant: the trap suspends the task, whatever has happened since the unlock
Mutswitch(t) ==
  /\ status' = [status EXCEPT ![t] = "SUSPEND"]
  /\ oncpu' = oncpu \ {t}

\* What a trap of t does: a READY task (signalled between its unlock and its
\* yield) runs on, a RUNNING one runs on or makes room, a SUSPENDed one leaves.
switch(t) ==
  \/ /\ status[t] \in {"READY", "RUNNING"}
     /\ status' = [status EXCEPT ![t] = "RUNNING"]
     /\ UNCHANGED oncpu
  \/ /\ status[t] = "RUNNING"
     /\ status' = [status EXCEPT ![t] = "READY"]
     /\ oncpu' = oncpu \ {t}
  \/ /\ status[t] = "SUSPEND"
     /\ oncpu' = oncpu \ {t}
     /\ UNCHANGED status

\* semwait's _yield(): the task resumes behind it.
Yield(t) ==
  /\ t \in oncpu
  /\ pc[t] = "yield"
  /\ switch(t)
  /\ pc' = [pc EXCEPT ![t] = "retry"]
  /\ UNCHANGED semvars

\* A timer or device interrupt: the task resumes where it was.
Preempt(t) ==
  /\ t \in oncpu
  /\ pc[t] # "panic"
  /\ switch(t)
  /\ UNCHANGED <<value, wl, wlleft, wlright, pc>>

Dispatch(t) ==
  /\ t \notin oncpu
  /\ status[t] = "READY"
  /\ status' = [status EXCEPT ![t] = "RUNNING"]
  /\ oncpu' = oncpu \cup {t}
  /\ UNCHANGED <<value, wl, wlleft, wlright, pc>>

-----------------------------------------------------------------------------
TaskStep(t) ==
  \/ SemWait(t) \/ Take(t) \/ Enqueue(t) \/ EnqueuePanic(t) \/ SemSignal(t)
  \/ Yield(t) \/ Preempt(t) \/ Dispatch(t)

Next == (\E t \in Task : TaskStep(t)) \/ IrqSignal

Spec == Init /\ [][Next]_vars

(* Every READY task is dispatched (Kmt.tla's ReadyRuns), and a task that is   *)
(* given a CPU again and again executes instructions between the interrupts. *)
(* Nothing makes a task call semwait or semsignal.                           *)
Fairness ==
  \A t \in Task :
    /\ WF_vars(Dispatch(t))
    /\ SF_vars(Take(t) \/ Enqueue(t))
    /\ SF_vars(Yield(t))

FairSpec == Spec /\ Fairness

-----------------------------------------------------------------------------
(* Properties *)

\* Every variable has its type; in particular value is never negative, however
\* many tasks leave semwait.
TypeOK ==
  /\ value \in Nat
  /\ wl \in [Slot -> Task \cup {NULL}]
  /\ wlleft \in Slot
  /\ wlright \in Slot
  /\ status \in [Task -> Statuses]
  /\ pc \in [Task -> PC]
  /\ oncpu \in SUBSET Task

Queued == {t \in Task : \E i \in Slot : wl[i] = t}

\* The waiters, oldest first: the occupied slots in ring order from wlleft.
Occupied == Cardinality({i \in Slot : wl[i] # NULL})
Queue == [k \in 1..Occupied |-> wl[(wlleft + k - 1) % NTHREAD]]

\* The suspended tasks are exactly those in the ring, each in one slot, and the
\* ring has no hole: nobody sleeps where no signal will find it, and no signal
\* finds an empty slot while somebody sleeps.
WaitersInRing ==
  /\ \A k \in 1..Occupied : Queue[k] # NULL
  /\ wlright = (wlleft + Occupied) % NTHREAD
  /\ \A i, j \in Slot : wl[i] = wl[j] /\ wl[i] # NULL => i = j
  /\ \A t \in Task : status[t] = "SUSPEND" <=> t \in Queued

\* No lost wake-up: while somebody sleeps, every unit of value is matched by a
\* task that was woken and has yet to look at value again.
Retrying == {t \in Task : pc[t] \in {"yield", "retry"} /\ t \notin Queued}
NoLostWakeup == Queued # {} => value <= Cardinality(Retrying)

\* semwait panics only when every slot really holds another suspended task (the
\* wrap never makes it see a waiter that has left), and semsignal, called by a
\* task or by an interrupt, never does.
PanicMeansFull ==
  /\ \A t \in Task : pc[t] = "panic" => t \notin Queued /\ Occupied = NTHREAD
  /\ ~SignalPanics

\* Waiters enter at the back and leave from the front, across the wrap.
Fifo ==
  [][ \/ Queue' = Queue
      \/ \E t \in Task : Queue' = Append(Queue, t)
      \/ Queue # <<>> /\ Queue' = Tail(Queue) ]_vars

(* The inductive invariant of SemaphoreProofs. *)

\* how far slot i is behind wlleft
Dist(i) == IF i < wlleft THEN i - wlleft + NTHREAD ELSE i - wlleft

\* The occupied slots are the first n from wlleft on, and wlright is the next one.
RingInv(n) ==
  /\ \A i \in Slot : wl[i] # NULL <=> Dist(i) < n
  /\ wlright = IF wlleft + n < NTHREAD THEN wlleft + n ELSE wlleft + n - NTHREAD

NoTwice == \A i, j \in Slot : wl[i] = wl[j] /\ wl[i] # NULL => i = j

\* A task is suspended if and only if it is queued, and queued it is in semwait,
\* short of its yield or off its CPU: it does not look at value.
WaiterInv(t) ==
  /\ status[t] = "SUSPEND" <=> t \in Queued
  /\ t \in Queued => pc[t] \in {"yield", "retry"}
  /\ t \in Queued /\ t \in oncpu => pc[t] = "yield"

\* Who panicked is not queued and found the ring full.
PanicInv(t) == pc[t] = "panic" => t \notin Queued /\ (\A i \in Slot : wl[i] # NULL)

IInv ==
  /\ TypeOK
  /\ \E n \in 0..NTHREAD : RingInv(n)
  /\ NoTwice
  /\ \A t \in Task : WaiterInv(t) /\ PanicInv(t)
  /\ NoLostWakeup

Abstract == INSTANCE SemSpec WITH waiting <- {t \in Task : pc[t] # "idle"}

\* The semaphore implements SemSpec, its liveness included.
RefinesSemSpec == Abstract!Spec

\* ... without its liveness: every step is one of SemSpec, or leaves it alone.
KeepsSemSpec == Abstract!SafeSpec
=============================================================================
