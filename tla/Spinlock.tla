------------------------------ MODULE Spinlock ------------------------------
(* kernel/src/spinlock.c: spin locks that also disable interrupts.           *)
(*                                                                           *)
(* A CPU runs one context at a time: the code of a kernel thread, or of an   *)
(* interrupt handler on top of it.  ctx[c] is what that code has in          *)
(* registers and locals; an interrupt pushes it on saved[c], and iret pops   *)
(* it.  The call sites of the locks (semaphores, scheduler, trap handler,    *)
(* allocator) are abstracted to their discipline: a context takes locks in   *)
(* increasing Rank, releases what it took, and a handler returns with none.  *)
(*                                                                           *)
(* Steps are the accesses to shared memory and to EFLAGS.IF.  holding() is   *)
(* one step: it compares lk->cpu with the caller's own CPU, a comparison no  *)
(* other CPU can change the outcome of.                                      *)
EXTENDS Integers, Sequences, FiniteSets

CONSTANTS
  CPU,      \* the processors
  Lock,     \* the lock objects
  Rank,     \* [Lock -> Nat]: callers acquire in increasing rank
  NULL,     \* lk->cpu of a free lock
  MaxNest   \* bound: interrupt frames on one CPU's stack

ASSUME SpinlockAssumption ==
  /\ NULL \notin CPU
  /\ NULL \notin Lock
  /\ Rank \in [Lock -> Nat]
  /\ MaxNest \in Nat

VARIABLES
  locked,    \* [Lock -> {0, 1}], lk->locked
  owner,     \* [Lock -> CPU or NULL], lk->cpu
  cpu_info,  \* [CPU -> ncli, intena], cpu_info[]
  ctx,       \* [CPU -> pc, lk, efl, intr], the running context
  saved,     \* [CPU -> Seq(context)], the contexts it interrupted
  held       \* [CPU -> SUBSET Lock], locks the callers on the CPU hold: from
             \* the return of my_spinlock to the call of my_spinunlock

vars == <<locked, owner, cpu_info, ctx, saved, held>>

PC == {"idle", "cli", "check", "xchg", "setcpu",   \* my_spinlock
       "clear", "release", "pop",                  \* my_spinunlock
       "entry", "panic"}

Context == [pc : PC, lk : Lock \cup {NULL}, efl : BOOLEAN, intr : BOOLEAN]

(* my_spinlock_init for every lock; cpu_info as spinlock.c initialises it;   *)
(* interrupts are on once os_run has called _intr_write(1).                  *)
Init ==
  /\ locked = [l \in Lock |-> 0]
  /\ owner = [l \in Lock |-> NULL]
  /\ cpu_info = [c \in CPU |-> [ncli |-> 0, intena |-> TRUE]]
  /\ ctx = [c \in CPU |-> [pc |-> "idle", lk |-> NULL, efl |-> FALSE, intr |-> TRUE]]
  /\ saved = [c \in CPU |-> <<>>]
  /\ held = [c \in CPU |-> {}]

-----------------------------------------------------------------------------
(* The pieces of pushcli, popcli and holding.                                *)

\* mutant: every level saves IF, not the outermost one only
MutPushCli(info, efl) == [ncli |-> info.ncli + 1, intena |-> efl]

\* cpu_info after pushcli, when EFLAGS.IF was efl
PushCli(info, efl) ==
  [ncli |-> info.ncli + 1, intena |-> IF info.ncli = 0 THEN efl ELSE info.intena]

\* the two panics of popcli
PopPanics(c) == ctx[c].intr \/ cpu_info[c].ncli - 1 < 0

\* mutant: the version spinlock.c has commented out, sti whatever IF was
MutPopIFAlways(c) == ctx[c].intr \/ cpu_info[c].ncli = 1

\* EFLAGS.IF after popcli: on again only at the outermost level, if it was on
PopIF(c) == ctx[c].intr \/ (cpu_info[c].ncli = 1 /\ cpu_info[c].intena)

holding(c, l) == locked[l] = 1 /\ owner[l] = c

\* what the pushcli ... popcli around holding()'s test leaves in cpu_info
HoldingInfo(c) ==
  [cpu_info[c] EXCEPT !.intena = PushCli(cpu_info[c], ctx[c].intr).intena]

Goto(c, l) == ctx' = [ctx EXCEPT ![c].pc = l]

-----------------------------------------------------------------------------
(* my_spinlock(lk)                                                           *)

\* A caller enters my_spinlock: pushcli reads EFLAGS.
SpinLock(c, l) ==
  /\ ctx[c].pc = "idle"
  /\ \A m \in held[c] : Rank[m] < Rank[l]
  /\ ctx' = [ctx EXCEPT ![c].pc = "cli", ![c].lk = l, ![c].efl = ctx[c].intr]
  /\ UNCHANGED <<locked, owner, cpu_info, saved, held>>

\* mutant: counts without disabling interrupts
MutCli(c) ==
  /\ ctx[c].pc = "cli"
  /\ Goto(c, "check")
  /\ cpu_info' = [cpu_info EXCEPT ![c] = PushCli(@, ctx[c].efl)]
  /\ UNCHANGED <<locked, owner, saved, held>>

\* The rest of pushcli: cli, save intena at the outermost level, count.
Cli(c) ==
  /\ ctx[c].pc = "cli"
  /\ ctx' = [ctx EXCEPT ![c].pc = "check", ![c].intr = FALSE]
  /\ cpu_info' = [cpu_info EXCEPT ![c] = PushCli(@, ctx[c].efl)]
  /\ UNCHANGED <<locked, owner, saved, held>>

\* if(holding(lk)) assert(0)
CheckFree(c) ==
  /\ ctx[c].pc = "check"
  /\ Goto(c, IF holding(c, ctx[c].lk) THEN "panic" ELSE "xchg")
  /\ cpu_info' = [cpu_info EXCEPT ![c] = HoldingInfo(c)]
  /\ UNCHANGED <<locked, owner, saved, held>>

\* mutant: the value the exchange returns is not tested
MutXchg(c) ==
  /\ ctx[c].pc = "xchg"
  /\ locked' = [locked EXCEPT ![ctx[c].lk] = 1]
  /\ Goto(c, "setcpu")
  /\ UNCHANGED <<owner, cpu_info, saved, held>>

\* while(_atomic_xchg(&lk->locked,1)): the exchange that leaves the loop; the
\* ones that find the lock taken change nothing.
Xchg(c) ==
  /\ ctx[c].pc = "xchg"
  /\ locked[ctx[c].lk] = 0
  /\ locked' = [locked EXCEPT ![ctx[c].lk] = 1]
  /\ Goto(c, "setcpu")
  /\ UNCHANGED <<owner, cpu_info, saved, held>>

\* lk->cpu = &cpu_info[_cpu()], and return
SetCpu(c) ==
  /\ ctx[c].pc = "setcpu"
  /\ owner' = [owner EXCEPT ![ctx[c].lk] = c]
  /\ held' = [held EXCEPT ![c] = @ \cup {ctx[c].lk}]
  /\ Goto(c, "idle")
  /\ UNCHANGED <<locked, cpu_info, saved>>

-----------------------------------------------------------------------------
(* my_spinunlock(lk)                                                         *)

\* if(!holding(lk)) assert(0)
SpinUnlock(c, l) ==
  /\ ctx[c].pc = "idle"
  /\ l \in held[c]
  /\ held' = [held EXCEPT ![c] = @ \ {l}]
  /\ ctx' = [ctx EXCEPT ![c].pc = IF holding(c, l) THEN "clear" ELSE "panic",
                         ![c].lk = l]
  /\ cpu_info' = [cpu_info EXCEPT ![c] = HoldingInfo(c)]
  /\ UNCHANGED <<locked, owner, saved>>

\* mutant: frees the lock before it forgets the owner
MutClearCpu(c) ==
  /\ ctx[c].pc = "clear"
  /\ locked' = [locked EXCEPT ![ctx[c].lk] = 0]
  /\ Goto(c, "release")
  /\ UNCHANGED <<owner, cpu_info, saved, held>>

\* lk->cpu = NULL
ClearCpu(c) ==
  /\ ctx[c].pc = "clear"
  /\ owner' = [owner EXCEPT ![ctx[c].lk] = NULL]
  /\ Goto(c, "release")
  /\ UNCHANGED <<locked, cpu_info, saved, held>>

\* _atomic_xchg(&lk->locked,0)
Release(c) ==
  /\ ctx[c].pc = "release"
  /\ locked' = [locked EXCEPT ![ctx[c].lk] = 0]
  /\ Goto(c, "pop")
  /\ UNCHANGED <<owner, cpu_info, saved, held>>

\* popcli, and return
PopCli(c) ==
  /\ ctx[c].pc = "pop"
  /\ ctx' = [ctx EXCEPT ![c].pc = IF PopPanics(c) THEN "panic" ELSE "idle",
                         ![c].intr = PopIF(c)]
  /\ cpu_info' = [cpu_info EXCEPT ![c].ncli = @ - 1]
  /\ UNCHANGED <<locked, owner, saved, held>>

-----------------------------------------------------------------------------
(* Interrupts.  The gates are trap gates: IF stays on until the stub's cli,  *)
(* and iret restores it with the rest of the interrupted context.            *)

Interrupt(c) ==
  /\ ctx[c].intr
  /\ ctx[c].pc # "panic"
  /\ Len(saved[c]) < MaxNest
  /\ saved' = [saved EXCEPT ![c] = Append(@, ctx[c])]
  /\ Goto(c, "entry")
  /\ UNCHANGED <<locked, owner, cpu_info, held>>

TrapEntry(c) ==
  /\ ctx[c].pc = "entry"
  /\ ctx' = [ctx EXCEPT ![c].pc = "idle", ![c].intr = FALSE]
  /\ UNCHANGED <<locked, owner, cpu_info, saved, held>>

Iret(c) ==
  /\ ctx[c].pc = "idle"
  /\ saved[c] # <<>>
  /\ held[c] = {}
  /\ ctx' = [ctx EXCEPT ![c] = saved[c][Len(saved[c])]]
  /\ saved' = [saved EXCEPT ![c] = SubSeq(@, 1, Len(@) - 1)]
  /\ UNCHANGED <<locked, owner, cpu_info, held>>

-----------------------------------------------------------------------------
(* Inside the two functions a CPU just runs on.                              *)
Step(c) ==
  \/ Cli(c) \/ CheckFree(c) \/ Xchg(c) \/ SetCpu(c)
  \/ ClearCpu(c) \/ Release(c) \/ PopCli(c)
  \/ TrapEntry(c)

Next ==
  \E c \in CPU :
    \/ Step(c)
    \/ \E l \in Lock : SpinLock(c, l) \/ SpinUnlock(c, l)
    \/ Interrupt(c) \/ Iret(c)

Spec == Init /\ [][Next]_vars

-----------------------------------------------------------------------------
(* Properties                                                                *)

\* Every variable has its type: a lock word is 0 or 1, a CPU's context a place in
\* the code with its lock and flags.
TypeOK ==
  /\ locked \in [Lock -> {0, 1}]
  /\ owner \in [Lock -> CPU \cup {NULL}]
  /\ cpu_info \in [CPU -> [ncli : Int, intena : BOOLEAN]]
  /\ ctx \in [CPU -> Context]
  /\ saved \in [CPU -> Seq(Context)]
  /\ held \in [CPU -> SUBSET Lock]

\* Two CPUs never hold one lock, whatever they interrupted to get there.
MutualExclusion ==
  \A c, d \in CPU : c # d => held[c] \cap held[d] = {}

\* None of the asserts and panics of spinlock.c fires: a context never meets a
\* lock its own CPU holds, never loses one it holds, and popcli always finds
\* interrupts off and a positive count.
NoPanic == \A c \in CPU : ctx[c].pc # "panic"

\* A CPU that owns a lock, or is about to, cannot be interrupted: no context
\* that was interrupted had taken or was taking one.  Otherwise a handler
\* would spin for ever on a lock of the code below it.
NeverInterruptedWithLock ==
  \A c \in CPU :
    /\ held[c] # {} \/ ctx[c].pc \in {"xchg", "setcpu", "clear", "release"} => ~ctx[c].intr
    /\ \A i \in 1..Len(saved[c]) : saved[c][i].pc \in {"idle", "cli", "entry"}

\* ncli counts exactly the locks held and the one being taken or released: it
\* never drifts, however interrupts fall between pushcli's two halves.
Pending(c) ==
  IF ctx[c].pc \in {"check", "xchg", "setcpu", "clear", "release", "pop"} THEN 1 ELSE 0

NcliCountsLocks ==
  \A c \in CPU : cpu_info[c].ncli = Cardinality(held[c]) + Pending(c)

\* Unlocking restores the interrupt flag the outermost lock found: a handler
\* never enables interrupts by taking and releasing locks (os_trap still runs
\* its other handlers then), and a thread always gets them back.
InterruptFlagRestored ==
  \A c \in CPU :
    ctx[c].pc = "idle" /\ held[c] = {} => (ctx[c].intr <=> saved[c] = <<>>)

-----------------------------------------------------------------------------
(* The lock a CPU owns in the sense of SpinLockSpec: from the exchange that  *)
(* took it to the exchange that gives it back.                               *)
Owns(c, l) ==
  l \in held[c] \/ (ctx[c].lk = l /\ ctx[c].pc \in {"setcpu", "clear", "release"})

Abstract == INSTANCE SpinLockSpec WITH holders <- [l \in Lock |-> {c \in CPU : Owns(c, l)}]

\* The implementation refines the abstract lock.
RefinesLock == Abstract!Spec

-----------------------------------------------------------------------------
(* The inductive invariant behind the proofs of SpinlockProofs.              *)

\* lk->cpu names c from SetCpu to ClearCpu.
Marked(c, l) == l \in held[c] \/ (ctx[c].lk = l /\ ctx[c].pc = "clear")

ArgInv(c) ==
  /\ ctx[c].pc \notin {"idle", "entry", "panic"} => ctx[c].lk \in Lock
  /\ ctx[c].pc \notin {"idle", "entry", "pop"} => ctx[c].lk \notin held[c]

CountInv(c) ==
  /\ IsFiniteSet(held[c])
  /\ cpu_info[c].ncli = Cardinality(held[c]) + Pending(c)

\* Interrupts are off while anything is counted; otherwise the code is a thread
\* (nothing saved, interrupts on), a handler (off), or a stub before its cli.
FlagInv(c) ==
  /\ cpu_info[c].ncli # 0 => ~ctx[c].intr /\ (cpu_info[c].intena <=> saved[c] = <<>>)
  /\ cpu_info[c].ncli = 0 =>
       \/ ctx[c].pc \in {"idle", "cli"} /\ (ctx[c].intr <=> saved[c] = <<>>)
       \/ ctx[c].pc = "entry" /\ ctx[c].intr /\ saved[c] # <<>>
  /\ ctx[c].pc = "cli" => (ctx[c].efl <=> ctx[c].intr)
  /\ ctx[c].pc = "entry" => cpu_info[c].ncli = 0
  /\ ctx[c].pc # "panic"

\* The lowest saved context is a thread's, the others are stubs before their cli.
StackInv(c) ==
  \A i \in 1..Len(saved[c]) :
    /\ saved[c][i].intr
    /\ IF i = 1 THEN saved[c][i].pc \in {"idle", "cli"} ELSE saved[c][i].pc = "entry"
    /\ saved[c][i].pc = "cli" => saved[c][i].efl /\ saved[c][i].lk \in Lock

LockInv(l) ==
  /\ locked[l] = 1 <=> \E c \in CPU : Owns(c, l)
  /\ \A c, d \in CPU : Owns(c, l) /\ Owns(d, l) => c = d
  /\ \A c \in CPU : owner[l] = c <=> Marked(c, l)

\* All of it: what a context's place says of the count, the interrupt flag, the
\* contexts below it and the locks it owns.
IInv ==
  /\ TypeOK
  /\ \A c \in CPU : ArgInv(c) /\ CountInv(c) /\ FlagInv(c) /\ StackInv(c)
  /\ \A l \in Lock : LockInv(l)
=============================================================================
