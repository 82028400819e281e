--------------------------------- MODULE Kmt --------------------------------
(* kernel/src/kmthread.c and os.c: tasks, the trap handler and the per-CPU   *)
(* round-robin scheduler, with the semaphores that suspend and wake tasks.   *)
(*                                                                           *)
(* Each CPU executes either the code of its current task or os_trap.  What a *)
(* task's code does is a point: "idle" (its own computation), "wait" (about  *)
(* to take a semaphore's lock), "yield" (suspended itself, lock released),   *)
(* "zombie" (the loop of zombie()).  A trap saves the point into the task's  *)
(* context and iret loads the point of the context os_trap returned.         *)
(*                                                                           *)
(* Critical sections of a semaphore's lock are one step (Spinlock.tla) and   *)
(* its ring is a sequence (Semaphore.tla).  The scheduler reads task status  *)
(* without that lock, so its scan is one step per task looked at.            *)
EXTENDS Integers, Sequences, FiniteSets

CONSTANTS
  NCPU,      \* _ncpu()
  NSHELL,    \* shell threads os_init creates
  Sem,       \* the semaphores other than sem_kbdirq
  MaxValue,  \* bound: semaphores are signalled only below it
  NULL

KBD == "sem_kbdirq"

ASSUME KmtAssumption ==
  /\ NCPU \in Nat \ {0}
  /\ NSHELL \in Nat
  /\ KBD \notin Sem
  /\ MaxValue \in Nat
  /\ NULL \notin Int /\ NULL \notin Sem /\ NULL \notin {KBD, "READY", "YIELD", "IRQ_TIMER", "IRQ_IODEV"}

CPU == 0..(NCPU - 1)
Sems == Sem \cup {KBD}

(* os_init creates, in this order: input-task and tty-task (dev->init), one  *)
(* zombie per CPU, and the shells.  A task is its number in that order.      *)
NTASK == 2 + NCPU + NSHELL
Task == 1..NTASK
INPUT == 1
Zombie == 3..(2 + NCPU)
entry(t) == IF t \in Zombie THEN "zombie" ELSE "idle"

(* What is registered with os_on_irq before interrupts are on, in order: the *)
(* scheduler's two handlers (kmt_init), then the keyboard's (input_init).    *)
ANY == "EVENT_NULL"
INT_MIN == -2147483647 - 1
INT_MAX == 2147483647
Registrations ==
  << [seq |-> INT_MIN, event |-> ANY, handler |-> "save"],
     [seq |-> INT_MAX, event |-> ANY, handler |-> "switch"],
     [seq |-> 0, event |-> "IRQ_IODEV", handler |-> "notify"] >>

VARIABLES
  handlers,  \* the list that starts at handlehead
  tl,        \* [CPU -> Seq(Task)], tl[].list; a task's id is its index - 1
  tidcnt,    \* the CPU the next created task goes to
  created,   \* tasks created so far
  status,    \* [Task -> task->status]
  context,   \* [Task -> the point in task->context]
  cur,       \* [CPU -> current_tasks[], NULL before the first switch]
  mode,      \* [CPU -> "run", or the place in os_trap]
  event,     \* [CPU -> the event of the trap, until os_trap looks at it]
  rest,      \* [CPU -> where in the list are the handlers os_trap has yet to finish]
  point,     \* [CPU -> the point the CPU executes, or that it trapped at]
  stack,     \* [CPU -> the task on whose stack the CPU runs]
  ind, findcnt,        \* [CPU -> the locals of kmt_context_switch]
  traplock, tasklock,  \* the CPU that holds the lock, or NULL
  value, wl,  \* [Sems -> sem->value], [Sems -> the ring, oldest waiter first]
  irr,       \* a keyboard interrupt is pending at CPU 0
  waitsem,   \* [Task -> the semaphore of the sem_wait it is in]
  at         \* history: [Task -> the point its own code has really reached]

bootvars == <<handlers, tl, tidcnt, created>>
semvars == <<value, wl>>
trapvars == <<mode, event, rest, stack, ind, findcnt, traplock, tasklock>>
vars == <<handlers, tl, tidcnt, created, status, context, cur, mode, event, rest, point,
          stack, ind, findcnt, traplock, tasklock, value, wl, irr, waitsem, at>>

Init ==
  /\ handlers = <<>>
  /\ tl = [c \in CPU |-> <<>>]
  /\ tidcnt = 0
  /\ created = 0
  /\ status = [t \in Task |-> "READY"]
  /\ context = [t \in Task |-> entry(t)]
  /\ cur = [c \in CPU |-> NULL]
  /\ mode = [c \in CPU |-> "boot"]
  /\ event = [c \in CPU |-> NULL]
  /\ rest = [c \in CPU |-> {}]
  /\ point = [c \in CPU |-> "os_run"]
  /\ stack = [c \in CPU |-> NULL]
  /\ ind = [c \in CPU |-> 0]
  /\ findcnt = [c \in CPU |-> 0]
  /\ traplock = NULL
  /\ tasklock = NULL
  /\ value = [s \in Sems |-> 0]
  /\ wl = [s \in Sems |-> <<>>]
  /\ irr = FALSE
  /\ waitsem = [t \in Task |-> NULL]
  /\ at = [t \in Task |-> entry(t)]

-----------------------------------------------------------------------------
(* Boot: os_init runs alone on CPU 0, then _mpe_init starts os_run everywhere. *)

\* The list with h before the first handler whose seq is not smaller.  (Before
\* the head the code would link a cycle: old is the head there, too.  The first
\* registration has INT_MIN and no other has, so it never happens.)
insert(h) ==
  LET k == Cardinality({i \in DOMAIN handlers : h.seq > handlers[i].seq})
  IN [i \in 1..(Len(handlers) + 1) |->
        IF i <= k THEN handlers[i] ELSE IF i = k + 1 THEN h ELSE handlers[i - 1]]

\* os_on_irq, called by kmt->init and by the keyboard's init
OnIrq ==
  /\ Len(handlers) < Len(Registrations)
  /\ handlers' = insert(Registrations[Len(handlers) + 1])
  /\ UNCHANGED <<tl, tidcnt, created, status, context, cur, point, trapvars, semvars, irr,
                 waitsem, at>>

\* mutant: one list for all CPUs
Mutdeal(t) == [c \in CPU |-> Append(tl[c], t)]

deal(t) == [tl EXCEPT ![tidcnt] = Append(@, t)]

\* kmt_create: the tasks are dealt to the CPUs in turn.
Create ==
  /\ Len(handlers) = Len(Registrations)
  /\ created < NTASK
  /\ created' = created + 1
  /\ tl' = deal(created + 1)
  /\ tidcnt' = (tidcnt + 1) % NCPU
  /\ UNCHANGED <<handlers, status, context, cur, point, trapvars, semvars, irr, waitsem, at>>

Start ==
  /\ created = NTASK
  /\ mode = [c \in CPU |-> "boot"]
  /\ mode' = [c \in CPU |-> "run"]
  /\ UNCHANGED <<bootvars, status, context, cur, event, rest, point, stack, ind, findcnt,
                 traplock, tasklock, semvars, irr, waitsem, at>>

-----------------------------------------------------------------------------
(* The code of the tasks. *)

\* CPU c executes its current task's code at point p.
Runs(c, p) == mode[c] = "run" /\ point[c] = p

\* ... and goes on at point p.
GoOn(c, p) ==
  /\ point' = [point EXCEPT ![c] = p]
  /\ at' = IF cur[c] = NULL THEN at ELSE [at EXCEPT ![cur[c]] = p]

\* input-task waits for keyboard interrupts only, the others for its events,
\* tty lines and locks; zombies use no semaphore.
MayWait(t) == IF t = INPUT THEN {KBD} ELSE Sem

SemWait(c, s) ==
  /\ Runs(c, "idle")
  /\ s \in MayWait(cur[c])
  /\ waitsem' = [waitsem EXCEPT ![cur[c]] = s]
  /\ GoOn(c, "wait")
  /\ UNCHANGED <<bootvars, status, context, cur, trapvars, semvars, irr>>

\* mutant: the test is not repeated after a wake-up, nor made
MutAvailable(s) == TRUE

Available(s) == value[s] > 0

\* semwait finds value: it returns.
Take(c) ==
  LET s == waitsem[cur[c]] IN
  /\ Runs(c, "wait")
  /\ Available(s)
  /\ value' = [value EXCEPT ![s] = @ - 1]
  /\ waitsem' = [waitsem EXCEPT ![cur[c]] = NULL]
  /\ GoOn(c, "idle")
  /\ UNCHANGED <<bootvars, status, context, cur, trapvars, wl, irr>>

\* semwait finds none: it queues and suspends cur_task and unlocks.
Enqueue(c) ==
  LET s == waitsem[cur[c]] IN
  /\ Runs(c, "wait")
  /\ ~Available(s)
  /\ wl' = [wl EXCEPT ![s] = Append(@, cur[c])]
  /\ status' = [status EXCEPT ![cur[c]] = "SUSPEND"]
  /\ GoOn(c, "yield")
  /\ UNCHANGED <<bootvars, context, cur, trapvars, value, irr, waitsem>>

\* mutant: only a waiter that has left its CPU is woken
MutWakes(s) == wl[s] # <<>> /\ \A c \in CPU : cur[c] # Head(wl[s])

Wakes(s) == wl[s] # <<>>

\* semsignal(s): the oldest waiter becomes READY.
semsignal(s) ==
  /\ value' = [value EXCEPT ![s] = @ + 1]
  /\ IF Wakes(s)
     THEN /\ status' = [status EXCEPT ![Head(wl[s])] = "READY"]
          /\ wl' = [wl EXCEPT ![s] = Tail(@)]
     ELSE UNCHANGED <<status, wl>>

SemSignal(c, s) ==
  /\ Runs(c, "idle")
  /\ value[s] < MaxValue
  /\ semsignal(s)
  /\ UNCHANGED <<bootvars, context, cur, point, trapvars, irr, waitsem, at>>

-----------------------------------------------------------------------------
(* Traps.  A yield resumes behind its int instruction, an interrupt where it *)
(* fell.                                                                     *)

Trap(c, ev) ==
  /\ mode' = [mode EXCEPT ![c] = "trap"]
  /\ event' = [event EXCEPT ![c] = ev]
  /\ UNCHANGED <<bootvars, status, context, cur, rest, stack, ind, findcnt, traplock,
                 tasklock, semvars, waitsem>>

Yield(c) ==
  /\ mode[c] = "run"
  /\ point[c] \in {"yield", "zombie", "os_run"}
  /\ Trap(c, "YIELD")
  /\ GoOn(c, IF point[c] = "yield" THEN "wait" ELSE point[c])
  /\ UNCHANGED irr

Timer(c) ==
  /\ mode[c] = "run"
  /\ Trap(c, "IRQ_TIMER")
  /\ UNCHANGED <<point, at, irr>>

\* The I/O APIC routes the keyboard to CPU 0.
Keyboard(c) ==
  /\ c = 0
  /\ mode[c] = "run"
  /\ irr
  /\ irr' = FALSE
  /\ Trap(c, "IRQ_IODEV")
  /\ UNCHANGED <<point, at>>

\* A key is struck: one interrupt can be pending while one is handled.
Press ==
  /\ ~irr
  /\ event[0] # "IRQ_IODEV" /\ \A i \in rest[0] : handlers[i].handler # "notify"
  /\ value[KBD] < MaxValue
  /\ irr' = TRUE
  /\ UNCHANGED <<bootvars, status, context, cur, point, trapvars, semvars, waitsem, at>>

-----------------------------------------------------------------------------
(* os_trap walks the list of handlers under traplock and HLlock.  HLlock is  *)
(* only ever taken inside traplock, so the pair is one lock here.            *)

\* where in the list os_trap finds handlers for an event
Called(ev) == {i \in DOMAIN handlers : handlers[i].event \in {ANY, ev}}

least(S) == CHOOSE i \in S : \A j \in S : i <= j

\* With the handlers in S still to be called, os_trap calls the first of them.
Enters(S) == IF S = {} THEN "unlock" ELSE handlers[least(S)].handler

\* The handler os_trap is in returns: on to the next one, or out of the loop.
Returns(c) ==
  /\ rest' = [rest EXCEPT ![c] = @ \ {least(@)}]
  /\ mode' = [mode EXCEPT ![c] = Enters(rest[c] \ {least(rest[c])})]

TrapLock(c) ==
  /\ mode[c] = "trap"
  /\ traplock = NULL
  /\ traplock' = c
  /\ rest' = [rest EXCEPT ![c] = Called(event[c])]
  /\ mode' = [mode EXCEPT ![c] = Enters(Called(event[c]))]
  /\ event' = [event EXCEPT ![c] = NULL]
  /\ UNCHANGED <<bootvars, status, context, cur, point, stack, ind, findcnt,
                 tasklock, semvars, irr, waitsem, at>>

\* mutant: a task that suspended itself is not saved
MutSaves(c) == cur[c] # NULL /\ status[cur[c]] = "RUNNING"

\* the boot context (id -1) is not saved
Saves(c) == cur[c] # NULL

\* kmt_context_save
Save(c) ==
  /\ mode[c] = "save"
  /\ context' = IF Saves(c) THEN [context EXCEPT ![cur[c]] = point[c]] ELSE context
  /\ Returns(c)
  /\ UNCHANGED <<bootvars, status, cur, event, point, stack, ind, findcnt, traplock,
                 tasklock, semvars, irr, waitsem, at>>

\* input_notify
Notify(c) ==
  /\ mode[c] = "notify"
  /\ semsignal(KBD)
  /\ Returns(c)
  /\ UNCHANGED <<bootvars, context, cur, event, point, stack, ind, findcnt, traplock,
                 tasklock, irr, waitsem, at>>

\* cur_task->status and ->id.  Before the first switch cur_task is NULL: kmt_init
\* has stored id -1 at that address, and what lies where status would be is no
\* task status (an interrupt vector of the BIOS).
curstatus(c) == IF cur[c] = NULL THEN NULL ELSE status[cur[c]]
id(c) == IF cur[c] = NULL THEN -1 ELSE (CHOOSE i \in 1..Len(tl[c]) : tl[c][i] = cur[c]) - 1

\* kmt_context_switch takes tasklock.  A current task that was
\* signalled after it suspended itself just runs on.
SwitchCurReady(c) ==
  /\ mode[c] = "switch"
  /\ tasklock = NULL
  /\ curstatus(c) = "READY"
  /\ status' = [status EXCEPT ![cur[c]] = "RUNNING"]
  /\ Returns(c)
  /\ UNCHANGED <<bootvars, context, cur, event, point, stack, ind, findcnt, traplock, tasklock,
                 semvars, irr, waitsem, at>>

\* mutant: always from the first one on
Mutfirst(c) == 0

first(c) == (id(c) + 1) % Len(tl[c])

\* Otherwise it looks at every task of the CPU once, from the next one on.
SwitchScan(c) ==
  /\ mode[c] = "switch"
  /\ tasklock = NULL
  /\ curstatus(c) # "READY"
  /\ tasklock' = c
  /\ ind' = [ind EXCEPT ![c] = first(c)]
  /\ findcnt' = [findcnt EXCEPT ![c] = 0]
  /\ mode' = [mode EXCEPT ![c] = "scan"]
  /\ UNCHANGED <<bootvars, status, context, cur, event, rest, point, stack, traplock, semvars, irr,
                 waitsem, at>>

\* mutant: the current task keeps its status
MuthandoverKeeps(c, t) == [status EXCEPT ![t] = "RUNNING"]

\* mutant: cur_task is assigned before the statuses are exchanged
MuthandoverLate(c, t) == status

\* t gets CPU c: it is RUNNING, and the current task READY if it was RUNNING
handover(c, t) ==
  [u \in Task |-> CASE u = t -> "RUNNING"
                    [] u # t /\ u = cur[c] /\ status[u] = "RUNNING" -> "READY"
                    [] OTHER -> status[u]]

\* The task looked at is READY: it becomes current.
ScanFound(c) ==
  LET t == tl[c][ind[c] + 1] IN
  /\ mode[c] = "scan"
  /\ status[t] = "READY"
  /\ status' = handover(c, t)
  /\ cur' = [cur EXCEPT ![c] = t]
  /\ mode' = [mode EXCEPT ![c] = "check"]
  /\ UNCHANGED <<bootvars, context, event, rest, point, stack, ind, findcnt, traplock,
                 tasklock, semvars, irr, waitsem, at>>

\* It is not: after the last one the current task stays current.
ScanNext(c) ==
  /\ mode[c] = "scan"
  /\ status[tl[c][ind[c] + 1]] # "READY"
  /\ findcnt' = [findcnt EXCEPT ![c] = @ + 1]
  /\ IF findcnt[c] + 1 = Len(tl[c])
     THEN mode' = [mode EXCEPT ![c] = "check"] /\ UNCHANGED ind
     ELSE ind' = [ind EXCEPT ![c] = (@ + 1) % Len(tl[c])] /\ UNCHANGED mode
  /\ UNCHANGED <<bootvars, status, context, cur, event, rest, point, stack, traplock, tasklock,
                 semvars, irr, waitsem, at>>

\* assert(cur_task); assert(cur_task->status != _READY); unlock tasklock
AssertsHold(c) == cur[c] # NULL /\ curstatus(c) # "READY"
SwitchCheck(c) ==
  /\ mode[c] = "check"
  /\ IF AssertsHold(c)
     THEN Returns(c) /\ tasklock' = NULL
     ELSE mode' = [mode EXCEPT ![c] = "panic"] /\ UNCHANGED <<rest, tasklock>>
  /\ ind' = [ind EXCEPT ![c] = 0]
  /\ findcnt' = [findcnt EXCEPT ![c] = 0]
  /\ UNCHANGED <<bootvars, status, context, cur, event, point, stack, traplock, semvars,
                 irr, waitsem, at>>

\* os_trap unlocks traplock while still on the stack of the trapped task.
TrapUnlock(c) ==
  /\ mode[c] = "unlock"
  /\ traplock' = NULL
  /\ mode' = [mode EXCEPT ![c] = "iret"]
  /\ UNCHANGED <<bootvars, status, context, cur, event, rest, point, stack, ind, findcnt,
                 tasklock, semvars, irr, waitsem, at>>

\* irq_handle moves to the returned context's stack and resumes it.
Iret(c) ==
  /\ mode[c] = "iret"
  /\ point' = [point EXCEPT ![c] = context[cur[c]]]
  /\ stack' = [stack EXCEPT ![c] = cur[c]]
  /\ mode' = [mode EXCEPT ![c] = "run"]
  /\ UNCHANGED <<bootvars, status, context, cur, event, rest, ind, findcnt, traplock, tasklock,
                 semvars, irr, waitsem, at>>

-----------------------------------------------------------------------------
Boot == OnIrq \/ Create \/ Start

\* Inside os_trap a CPU just runs on.
TrapStep(c) ==
  \/ TrapLock(c) \/ Save(c) \/ Notify(c)
  \/ SwitchCurReady(c) \/ SwitchScan(c) \/ ScanFound(c) \/ ScanNext(c) \/ SwitchCheck(c)
  \/ TrapUnlock(c) \/ Iret(c)

TaskStep(c) ==
  \/ \E s \in Sems : SemWait(c, s)
  \/ Take(c) \/ Enqueue(c)
  \/ \E s \in Sem : SemSignal(c, s)

Next ==
  \/ Boot \/ Press
  \/ \E c \in CPU : TaskStep(c) \/ Yield(c) \/ Timer(c) \/ Keyboard(c) \/ TrapStep(c)

Spec == Init /\ [][Next]_vars

(* The boot CPU finishes os_init; CPUs execute os_trap; a pending interrupt  *)
(* is taken once interrupts are on often enough; a task that keeps getting   *)
(* the CPU gets through semwait.  The timer is not in step with the tasks:   *)
(* it also ticks outside the few instructions between semwait's unlock and   *)
(* its yield.  A CPU spinning on traplock gets it if it is free again and    *)
(* again: the hardware arbitrates the exchange, the code keeps no queue.     *)
Fairness ==
  /\ WF_vars(Boot)
  /\ SF_vars(Keyboard(0))
  /\ \A c \in CPU :
       /\ WF_vars(TrapStep(c))
       /\ SF_vars(TrapLock(c))
       /\ SF_vars(Timer(c) /\ curstatus(c) = "RUNNING")
       /\ WF_vars(Timer(c))
       /\ SF_vars(Take(c) \/ Enqueue(c))
       /\ SF_vars(Yield(c) /\ point[c] = "yield")

FairSpec == Spec /\ Fairness

-----------------------------------------------------------------------------
(* Properties *)

Handler == {Registrations[i] : i \in 1..3}

\* Every variable has its type; in particular no semaphore's value goes below 0.
TypeOK ==
  /\ handlers \in Seq(Handler)
  /\ tl \in [CPU -> Seq(Task)]
  /\ tidcnt \in CPU
  /\ created \in 0..NTASK
  /\ status \in [Task -> {"READY", "RUNNING", "SUSPEND"}]
  /\ context \in [Task -> {"idle", "wait", "yield", "zombie"}]
  /\ cur \in [CPU -> Task \cup {NULL}]
  /\ mode \in [CPU -> {"boot", "run", "trap", "save", "notify", "switch", "scan", "check",
                       "unlock", "iret", "panic"}]
  /\ rest \in [CPU -> SUBSET (1..3)]
  /\ event \in [CPU -> {NULL, "YIELD", "IRQ_TIMER", "IRQ_IODEV"}]
  /\ point \in [CPU -> {"os_run", "idle", "wait", "yield", "zombie"}]
  /\ stack \in [CPU -> Task \cup {NULL}]
  /\ ind \in [CPU -> 0..(NTASK - 1)]
  /\ findcnt \in [CPU -> 0..NTASK]
  /\ {traplock, tasklock} \subseteq CPU \cup {NULL}
  /\ value \in [Sems -> 0..MaxValue]
  /\ wl \in [Sems -> Seq(Task)]
  /\ irr \in BOOLEAN
  /\ waitsem \in [Task -> Sems \cup {NULL}]
  /\ at \in [Task -> {"idle", "wait", "yield", "zombie"}]

\* The asserts of kmt_context_switch hold, whatever other CPUs signal between
\* the scan and the assert: every CPU has a zombie, so a suspended task is never
\* left current.
NoPanic == \A c \in CPU : mode[c] # "panic"

\* A CPU always executes its current task from the very point that task had
\* reached, however it was taken off (timer, yield, signalled in between).
ResumesWhereItStopped ==
  \A c \in CPU : mode[c] = "run" /\ cur[c] # NULL => point[c] = at[cur[c]]

\* A task's code runs only while the task is RUNNING, except in semwait between
\* its unlock and its yield: nobody tests the semaphore, or queues again, while
\* still suspended.  And a RUNNING task is current on some CPU: it is never
\* forgotten between two switches.
RunningIffOnCpu ==
  /\ \A c \in CPU :
       mode[c] = "run" /\ cur[c] # NULL =>
         \/ curstatus(c) = "RUNNING"
         \/ point[c] = "yield" /\ curstatus(c) \in {"SUSPEND", "READY"}
  /\ \A t \in Task : status[t] = "RUNNING" => \E c \in CPU : cur[c] = t

\* Two CPUs never use one stack, although os_trap gives traplock up before it
\* leaves the stack of the task it has switched away from.
StacksExclusive ==
  \A c, d \in CPU : c # d /\ stack[c] # NULL => stack[c] # stack[d] /\ stack[c] # cur[d]

Times(t, s) == Cardinality({i \in 1..Len(wl[s]) : wl[s][i] = t})
Awake(s) == {t \in Task : waitsem[t] = s /\ status[t] # "SUSPEND"}

\* No lost wake-up across CPUs: a suspended task is in the ring of the semaphore
\* it waits for, once, and in no other; and while tasks sleep on s, every unit of
\* s has a task in sem_wait(s) that is awake and has yet to look at it.
NoLostWakeup ==
  /\ \A t \in Task, s \in Sems :
       Times(t, s) = IF status[t] = "SUSPEND" /\ waitsem[t] = s THEN 1 ELSE 0
  /\ \A s \in Sems : wl[s] # <<>> => value[s] <= Cardinality(Awake(s))

\* On the real scheduler sem_kbdirq still keeps the promise of SemSpec: a key's
\* unit of value and an input-task that waits for one do not ignore each other,
\* though the unit comes from an interrupt and may come while input-task is
\* between suspending itself and leaving its CPU.
KbdWaiters == {t \in Task : waitsem[t] = KBD}
KbdSem == INSTANCE SemSpec WITH InitialValue <- 0, value <- value[KBD], waiting <- KbdWaiters
KbdSemKeepsPromise == KbdSem!Spec

\* The safety part of it: what every step does to value and to the waiters.
KbdSemKeepsCount == KbdSem!SafeSpec

\* Every READY task eventually runs.
ReadyRuns == \A t \in Task : status[t] = "READY" ~> status[t] = "RUNNING"

-----------------------------------------------------------------------------
(* The inductive invariant of KmtProofs. *)

Booting == \A c \in CPU : mode[c] = "boot"

Sorted == <<Registrations[1], Registrations[3], Registrations[2]>>

\* Boot registers, then creates, then starts the CPUs.
BootInv ==
  /\ \/ handlers = <<>> \/ handlers = <<Registrations[1]>>
     \/ handlers = <<Registrations[1], Registrations[2]>> \/ handlers = Sorted
  /\ created > 0 => handlers = Sorted
  /\ Booting \/ (created = NTASK /\ \A c \in CPU : mode[c] # "boot")

On(c, t) == \E i \in 1..Len(tl[c]) : tl[c][i] = t

\* Task t is on the list of CPU (t - 1) % NCPU, and on no other.
ListInv ==
  /\ tidcnt = created % NCPU
  /\ \A c \in CPU : Len(tl[c]) <= created
  /\ \A c \in CPU, t \in Task : On(c, t) <=> t <= created /\ (t - 1) % NCPU = c

\* Where a CPU is in os_trap, which handlers it has before it, and its event.
WalkInv(c) ==
  /\ mode[c] # "panic"
  /\ mode[c] = "save" => rest[c] \in {{1, 3}, {1, 2, 3}}
  /\ mode[c] = "notify" => rest[c] = {2, 3}
  /\ mode[c] \in {"switch", "scan", "check"} => rest[c] = {3}
  /\ mode[c] \in {"boot", "run", "trap", "unlock", "iret"} => rest[c] = {}
  /\ event[c] = NULL <=> mode[c] # "trap"

\* A CPU runs and stands on tasks of its own, and knows the point of the one it
\* runs, which is RUNNING, but for the gap between semwait's unlock and yield.
CurInv(c) ==
  /\ cur[c] # NULL => On(c, cur[c])
  /\ stack[c] # NULL => On(c, stack[c])
  /\ cur[c] = NULL => point[c] = "os_run" /\ mode[c] \notin {"check", "unlock", "iret"}
  /\ mode[c] = "boot" => cur[c] = NULL /\ stack[c] = NULL
  /\ cur[c] # NULL =>
       /\ mode[c] \in {"run", "trap", "save"} => point[c] = at[cur[c]]
       /\ mode[c] = "run" => status[cur[c]] = "RUNNING" \/ point[c] = "yield"
       /\ mode[c] \in {"check", "unlock", "iret"} => status[cur[c]] = "RUNNING"

\* how many tasks the scan looks at before it comes to place p of the list
Ahead(c, p) == IF p > ind[c] THEN p - 1 - ind[c] ELSE p - 1 - ind[c] + Len(tl[c])

\* The scan has not passed a zombie, unless it is the current task.
ScanInv(c) ==
  mode[c] = "scan" =>
    /\ ind[c] < Len(tl[c]) /\ findcnt[c] < Len(tl[c])
    /\ \A p \in 1..Len(tl[c]) :
         tl[c][p] \in Zombie /\ tl[c][p] # cur[c] => Ahead(c, p) + findcnt[c] < Len(tl[c])

\* os_trap has saved the context.
Saved == {"notify", "switch", "scan", "check", "unlock", "iret"}

\* A RUNNING task is current, a suspended one in semwait; a zombie never is in
\* semwait, and current it is RUNNING.  A task that is not executed has its
\* point in its context.
TaskInv(t) ==
  /\ status[t] = "RUNNING" => \E c \in CPU : cur[c] = t
  /\ status[t] = "SUSPEND" => at[t] \in {"wait", "yield"}
  /\ waitsem[t] # NULL <=> at[t] \in {"wait", "yield"}
  /\ t \in Zombie <=> at[t] = "zombie"
  /\ t \in Zombie => \A c \in CPU : cur[c] = t => status[t] = "RUNNING"
  /\ (\A c \in CPU : cur[c] = t => mode[c] \in Saved) => context[t] = at[t]

\* The rings hold the suspended tasks, each once, where it waits.
RingInv ==
  /\ \A s \in Sems : \A i \in 1..Len(wl[s]) :
       status[wl[s][i]] = "SUSPEND" /\ waitsem[wl[s][i]] = s
  /\ \A s \in Sems : \A i, j \in 1..Len(wl[s]) : wl[s][i] = wl[s][j] => i = j
  /\ \A t \in Task : status[t] = "SUSPEND" =>
       \E i \in 1..Len(wl[waitsem[t]]) : wl[waitsem[t]][i] = t

\* Sleepers on s and units of s do not ignore each other.
UnitsInv == \A s \in Sems : wl[s] # <<>> => value[s] <= Cardinality(Awake(s))

\* One keyboard interrupt at a time, on CPU 0, and room for its unit.
KbdInv ==
  /\ \A c \in CPU : c # 0 => event[c] # "IRQ_IODEV" /\ 2 \notin rest[c]
  /\ irr => event[0] # "IRQ_IODEV" /\ 2 \notin rest[0]
  /\ irr \/ event[0] = "IRQ_IODEV" \/ 2 \in rest[0] => value[KBD] < MaxValue

IInv ==
  /\ TypeOK
  /\ BootInv
  /\ ListInv
  /\ \A c \in CPU : WalkInv(c) /\ CurInv(c) /\ ScanInv(c)
  /\ \A t \in Task : TaskInv(t)
  /\ RingInv
  /\ UnitsInv
  /\ KbdInv
=============================================================================
