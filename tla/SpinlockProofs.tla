--------------------------- MODULE SpinlockProofs ---------------------------
(* Proofs about Spinlock, for any number of CPUs and locks, any rank and any *)
(* interrupt nesting.                                                        *)
EXTENDS Spinlock, FiniteSetTheorems, TLAPS

(* The initial state satisfies the inductive invariant: no lock is held, no  *)
(* CPU has disabled interrupts.                                              *)
LEMMA InitIInv == Init => IInv
<1> SUFFICES ASSUME Init PROVE IInv
  OBVIOUS
<1> USE SpinlockAssumption DEF Init
<1>1. TypeOK
  BY DEF TypeOK, Context, PC
<1>2. ASSUME NEW c \in CPU
      PROVE  ArgInv(c) /\ CountInv(c) /\ FlagInv(c) /\ StackInv(c)
  <2>1. IsFiniteSet(held[c]) /\ Cardinality(held[c]) = 0
    BY FS_EmptySet
  <2> QED
    BY <2>1 DEF ArgInv, CountInv, FlagInv, StackInv, Pending
<1>3. ASSUME NEW l \in Lock
      PROVE  LockInv(l)
  BY DEF LockInv, Owns, Marked
<1> QED
  BY <1>1, <1>2, <1>3 DEF IInv

(* The labels are labels. *)
LEMMA Labels ==
  /\ "idle" \in PC /\ "cli" \in PC /\ "check" \in PC /\ "xchg" \in PC /\ "setcpu" \in PC
  /\ "clear" \in PC /\ "release" \in PC /\ "pop" \in PC /\ "entry" \in PC /\ "panic" \in PC
BY DEF PC

(* A context inside my_spinlock or my_spinunlock has a lock as its argument. *)
LEMMA ArgIsLock ==
  ASSUME IInv, NEW c \in CPU, ctx[c].pc \notin {"idle", "entry", "panic"}
  PROVE  ctx[c].lk \in Lock
BY DEF IInv, ArgInv

(* Giving a CPU another context keeps ctx a function to contexts. *)
LEMMA CtxType ==
  ASSUME ctx \in [CPU -> Context], NEW c \in CPU, NEW x \in Context,
         ctx' = [ctx EXCEPT ![c] = x]
  PROVE  ctx' \in [CPU -> Context]
OBVIOUS

(* Moving a CPU to another label keeps its context a context. *)
LEMMA GotoType ==
  ASSUME NEW c \in CPU, ctx \in [CPU -> Context], NEW p \in PC, Goto(c, p)
  PROVE  ctx' \in [CPU -> Context]
<1> DEFINE x == [ctx[c] EXCEPT !.pc = p]
<1>1. x \in Context
  BY DEF Context
<1>2. ctx' = [ctx EXCEPT ![c] = x]
  BY DEF Goto
<1> QED
  BY <1>1, <1>2, CtxType

(* pushcli's bookkeeping is well typed. *)
LEMMA InfoType ==
  ASSUME TypeOK, NEW c \in CPU, NEW e \in BOOLEAN
  PROVE  /\ PushCli(cpu_info[c], e) \in [ncli : Int, intena : BOOLEAN]
         /\ HoldingInfo(c) \in [ncli : Int, intena : BOOLEAN]
<1>1. cpu_info[c] \in [ncli : Int, intena : BOOLEAN] /\ ctx[c].intr \in BOOLEAN
  BY DEF TypeOK, Context
<1> QED
  BY <1>1 DEF PushCli, HoldingInfo

LEMMA PopInfoType ==
  ASSUME TypeOK, NEW c \in CPU, PopCli(c)
  PROVE  cpu_info' \in [CPU -> [ncli : Int, intena : BOOLEAN]]
<1>1. cpu_info \in [CPU -> [ncli : Int, intena : BOOLEAN]]
  BY DEF TypeOK
<1>2. [cpu_info[c] EXCEPT !.ncli = @ - 1] \in [ncli : Int, intena : BOOLEAN]
  BY <1>1
<1>3. cpu_info' = [cpu_info EXCEPT ![c] = [cpu_info[c] EXCEPT !.ncli = @ - 1]]
  BY DEF PopCli
<1> QED
  BY <1>1, <1>2, <1>3

(* Every step keeps the variables in their types.                            *)
LEMMA NextTypeOK == IInv /\ [Next]_vars => TypeOK'
<1> SUFFICES ASSUME IInv, [Next]_vars
             PROVE  TypeOK'
  OBVIOUS
<1>0. TypeOK
  BY DEF IInv
<1>a. /\ locked \in [Lock -> {0, 1}] /\ owner \in [Lock -> CPU \cup {NULL}]
      /\ cpu_info \in [CPU -> [ncli : Int, intena : BOOLEAN]]
      /\ ctx \in [CPU -> Context] /\ saved \in [CPU -> Seq(Context)]
      /\ held \in [CPU -> SUBSET Lock]
  BY <1>0 DEF TypeOK
<1>b. ASSUME NEW c \in CPU
      PROVE  ctx[c] \in Context /\ ctx[c].efl \in BOOLEAN /\ ctx[c].intr \in BOOLEAN
  BY <1>a DEF Context
<1>1. ASSUME NEW c \in CPU, NEW l \in Lock, SpinLock(c, l)
      PROVE  TypeOK'
  <2> DEFINE x == [ctx[c] EXCEPT !.pc = "cli", !.lk = l, !.efl = ctx[c].intr]
  <2>1. x \in Context
    BY <1>b, Labels DEF Context
  <2>2. ctx' = [ctx EXCEPT ![c] = x]
    BY <1>1 DEF SpinLock
  <2>3. ctx' \in [CPU -> Context]
    BY <1>a, <2>1, <2>2, CtxType
  <2> QED
    BY <1>1, <1>a, <2>3 DEF SpinLock, TypeOK
<1>2. ASSUME NEW c \in CPU, Cli(c)
      PROVE  TypeOK'
  <2> DEFINE x == [ctx[c] EXCEPT !.pc = "check", !.intr = FALSE]
  <2>1. x \in Context
    BY <1>b, Labels DEF Context
  <2>2. ctx' = [ctx EXCEPT ![c] = x]
    BY <1>2 DEF Cli
  <2>3. ctx' \in [CPU -> Context]
    BY <1>a, <2>1, <2>2, CtxType
  <2>4. PushCli(cpu_info[c], ctx[c].efl) \in [ncli : Int, intena : BOOLEAN]
    BY <1>0, <1>b, InfoType
  <2> QED
    BY <1>2, <1>a, <2>3, <2>4 DEF Cli, TypeOK
<1>3. ASSUME NEW c \in CPU, CheckFree(c)
      PROVE  TypeOK'
  <2>1. (IF holding(c, ctx[c].lk) THEN "panic" ELSE "xchg") \in PC
    BY Labels
  <2>2. ctx' \in [CPU -> Context]
    BY <1>3, <1>a, <2>1, GotoType DEF CheckFree
  <2>3. HoldingInfo(c) \in [ncli : Int, intena : BOOLEAN]
    BY <1>0, InfoType
  <2> QED
    BY <1>3, <1>a, <2>2, <2>3 DEF CheckFree, TypeOK
<1>4. ASSUME NEW c \in CPU, Xchg(c)
      PROVE  TypeOK'
  <2>1. ctx' \in [CPU -> Context]
    BY <1>4, <1>a, Labels, GotoType DEF Xchg
  <2>2. locked' \in [Lock -> {0, 1}]
    BY <1>4, <1>a DEF Xchg
  <2> QED
    BY <1>4, <1>a, <2>1, <2>2 DEF Xchg, TypeOK
<1>5. ASSUME NEW c \in CPU, SetCpu(c)
      PROVE  TypeOK'
  <2>1. ctx' \in [CPU -> Context]
    BY <1>5, <1>a, Labels, GotoType DEF SetCpu
  <2>2. ctx[c].lk \in Lock
    BY <1>5, ArgIsLock DEF SetCpu
  <2> QED
    BY <1>5, <1>a, <2>1, <2>2 DEF SetCpu, TypeOK
<1>6. ASSUME NEW c \in CPU, NEW l \in Lock, SpinUnlock(c, l)
      PROVE  TypeOK'
  <2> DEFINE p == IF holding(c, l) THEN "clear" ELSE "panic"
             x == [ctx[c] EXCEPT !.pc = p, !.lk = l]
  <2>1. x \in Context
    <3>1. p \in PC
      BY Labels
    <3> HIDE DEF p
    <3> QED
      BY <1>b, <3>1 DEF Context
  <2>2. ctx' = [ctx EXCEPT ![c] = x]
    BY <1>6 DEF SpinUnlock
  <2>3. ctx' \in [CPU -> Context]
    BY <1>a, <2>1, <2>2, CtxType
  <2>4. HoldingInfo(c) \in [ncli : Int, intena : BOOLEAN]
    BY <1>0, InfoType
  <2> QED
    BY <1>6, <1>a, <2>3, <2>4 DEF SpinUnlock, TypeOK
<1>7. ASSUME NEW c \in CPU, ClearCpu(c)
      PROVE  TypeOK'
  <2>1. ctx' \in [CPU -> Context]
    BY <1>7, <1>a, Labels, GotoType DEF ClearCpu
  <2> QED
    BY <1>7, <1>a, <2>1 DEF ClearCpu, TypeOK
<1>8. ASSUME NEW c \in CPU, Release(c)
      PROVE  TypeOK'
  <2>1. ctx' \in [CPU -> Context]
    BY <1>8, <1>a, Labels, GotoType DEF Release
  <2>2. locked' \in [Lock -> {0, 1}]
    BY <1>8, <1>a DEF Release
  <2> QED
    BY <1>8, <1>a, <2>1, <2>2 DEF Release, TypeOK
<1>9. ASSUME NEW c \in CPU, PopCli(c)
      PROVE  TypeOK'
  <2> DEFINE p == IF PopPanics(c) THEN "panic" ELSE "idle"
             x == [ctx[c] EXCEPT !.pc = p, !.intr = PopIF(c)]
  <2>1. x \in Context
    <3>1. p \in PC
      BY Labels
    <3>2. PopIF(c) \in BOOLEAN
      BY <1>b DEF PopIF
    <3> HIDE DEF p
    <3> QED
      BY <1>b, <3>1, <3>2 DEF Context
  <2>2. ctx' = [ctx EXCEPT ![c] = x]
    BY <1>9 DEF PopCli
  <2>3. ctx' \in [CPU -> Context]
    BY <1>a, <2>1, <2>2, CtxType
  <2>4. cpu_info' \in [CPU -> [ncli : Int, intena : BOOLEAN]]
    BY <1>0, <1>9, PopInfoType
  <2>5. UNCHANGED <<locked, owner, saved, held>>
    BY <1>9 DEF PopCli
  <2> QED
    BY <1>a, <2>3, <2>4, <2>5 DEF TypeOK
<1>10. ASSUME NEW c \in CPU, TrapEntry(c)
       PROVE  TypeOK'
  <2> DEFINE x == [ctx[c] EXCEPT !.pc = "idle", !.intr = FALSE]
  <2>1. x \in Context
    BY <1>b, Labels DEF Context
  <2>2. ctx' = [ctx EXCEPT ![c] = x]
    BY <1>10 DEF TrapEntry
  <2>3. ctx' \in [CPU -> Context]
    BY <1>a, <2>1, <2>2, CtxType
  <2> QED
    BY <1>10, <1>a, <2>3 DEF TrapEntry, TypeOK
<1>11. ASSUME NEW c \in CPU, Interrupt(c)
       PROVE  TypeOK'
  <2>1. ctx' \in [CPU -> Context]
    BY <1>11, <1>a, Labels, GotoType DEF Interrupt
  <2>2. Append(saved[c], ctx[c]) \in Seq(Context)
    BY <1>a, <1>b
  <2>3. saved' = [saved EXCEPT ![c] = Append(saved[c], ctx[c])]
    BY <1>11 DEF Interrupt
  <2>4. saved' \in [CPU -> Seq(Context)]
    BY <1>a, <2>2, <2>3
  <2> QED
    BY <1>11, <1>a, <2>1, <2>4 DEF Interrupt, TypeOK
<1>12. ASSUME NEW c \in CPU, Iret(c)
       PROVE  TypeOK'
  <2> DEFINE s == saved[c]
             x == s[Len(s)]
             t == SubSeq(s, 1, Len(s) - 1)
  <2>1. s \in Seq(Context) /\ s # <<>>
    BY <1>a, <1>12 DEF Iret
  <2>2. x \in Context /\ t \in Seq(Context)
    BY <2>1
  <2>3. ctx' = [ctx EXCEPT ![c] = x] /\ saved' = [saved EXCEPT ![c] = t]
    BY <1>12 DEF Iret
  <2>4. ctx' \in [CPU -> Context]
    BY <1>a, <2>2, <2>3, CtxType
  <2>5. saved' \in [CPU -> Seq(Context)]
    BY <1>a, <2>2, <2>3
  <2> QED
    BY <1>12, <1>a, <2>4, <2>5 DEF Iret, TypeOK
<1>13. CASE UNCHANGED vars
  BY <1>13, <1>a DEF vars, TypeOK
<1> QED
  BY <1>1, <1>2, <1>3, <1>4, <1>5, <1>6, <1>7, <1>8, <1>9, <1>10, <1>11, <1>12,
     <1>13 DEF Next, Step

-----------------------------------------------------------------------------
(* What the inductive invariant says of one CPU concerns that CPU's own      *)
(* state only.                                                               *)
LocalInv(c) == ArgInv(c) /\ CountInv(c) /\ FlagInv(c) /\ StackInv(c)

LEMMA LocalFrame ==
  ASSUME NEW c \in CPU, LocalInv(c), ctx'[c] = ctx[c], cpu_info'[c] = cpu_info[c],
         saved'[c] = saved[c], held'[c] = held[c]
  PROVE  LocalInv(c)'
BY DEF LocalInv, ArgInv, CountInv, FlagInv, StackInv, Pending

(* The counter is positive inside the two functions and while a lock is held. *)
LEMMA Counted ==
  ASSUME IInv, NEW c \in CPU
  PROVE  /\ Cardinality(held[c]) \in Nat
         /\ Pending(c) = 1 \/ held[c] # {} => cpu_info[c].ncli > 0
         /\ held[c] = {} => cpu_info[c].ncli = Pending(c)
<1>1. IsFiniteSet(held[c]) /\ cpu_info[c].ncli = Cardinality(held[c]) + Pending(c)
  BY DEF IInv, CountInv
<1>2. Cardinality(held[c]) \in Nat
  BY <1>1, FS_CardinalityType
<1>3. Cardinality(held[c]) = 0 <=> held[c] = {}
  BY <1>1, FS_EmptySet
<1>4. Pending(c) \in {0, 1}
  BY DEF Pending
<1> QED
  BY <1>1, <1>2, <1>3, <1>4

(* holding() leaves cpu_info as it was when the counter is positive. *)
LEMMA HoldingKeepsInfo ==
  ASSUME IInv, NEW c \in CPU, cpu_info[c].ncli > 0
  PROVE  HoldingInfo(c) = cpu_info[c]
<1>1. cpu_info[c] \in [ncli : Int, intena : BOOLEAN]
  BY DEF IInv, TypeOK
<1> QED
  BY <1>1 DEF HoldingInfo, PushCli

(* holding() tells a CPU's own locks from the others. *)
LEMMA HoldingExact ==
  ASSUME IInv, NEW c \in CPU, NEW l \in Lock
  PROVE  /\ l \in held[c] => holding(c, l)
         /\ l \notin held[c] /\ ctx[c].pc = "check" => ~holding(c, l)
BY DEF IInv, LockInv, Owns, Marked, holding

(* The steps of CPU c. *)
CpuStep(c) ==
  \/ Step(c) \/ Interrupt(c) \/ Iret(c)
  \/ \E l \in Lock : SpinLock(c, l) \/ SpinUnlock(c, l)

(* A caller that follows the lock order does not hold the lock it takes. *)
LEMMA FreshLock ==
  ASSUME NEW c \in CPU, NEW l \in Lock, SpinLock(c, l)
  PROVE  l \notin held[c]
<1>1. Rank[l] \in Nat
  BY SpinlockAssumption
<1>2. ~(Rank[l] < Rank[l])
  BY <1>1
<1> QED
  BY <1>2 DEF SpinLock

(* A step of CPU c keeps what the invariant says of c itself. *)
LEMMA OwnLocalInv ==
  ASSUME IInv, TypeOK', NEW c \in CPU,
         CpuStep(c)
  PROVE  LocalInv(c)'
<1> DEFINE Card == Cardinality(held[c])
<1>0. LocalInv(c) /\ TypeOK /\ Card \in Nat
  BY Counted DEF IInv, LocalInv
<1>a. ctx[c] \in Context /\ cpu_info[c] \in [ncli : Int, intena : BOOLEAN]
  BY <1>0 DEF TypeOK
<1> USE DEF LocalInv, ArgInv, CountInv, FlagInv, StackInv, Pending
<1>1. ASSUME NEW l \in Lock, SpinLock(c, l)
      PROVE  LocalInv(c)'
  <2>1. l \notin held[c]
    BY <1>1, FreshLock
  <2>2. /\ ctx'[c].pc = "cli" /\ ctx'[c].lk = l /\ ctx'[c].efl = ctx[c].intr
        /\ ctx'[c].intr = ctx[c].intr
    BY <1>1, <1>0 DEF SpinLock, TypeOK, Context
  <2> QED
    BY <1>0, <1>1, <2>1, <2>2 DEF SpinLock
<1>2. CASE Cli(c)
  <2>1. /\ ctx'[c].pc = "check" /\ ctx'[c].lk = ctx[c].lk /\ ~ctx'[c].intr
        /\ cpu_info'[c].ncli = cpu_info[c].ncli + 1
        /\ cpu_info'[c].intena = IF cpu_info[c].ncli = 0 THEN ctx[c].efl ELSE cpu_info[c].intena
    BY <1>2, <1>0 DEF Cli, TypeOK, Context, PushCli
  <2> QED
    BY <1>0, <1>2, <1>a, <2>1 DEF Cli
<1>3. CASE CheckFree(c)
  <2>1. cpu_info[c].ncli > 0
    BY <1>3, Counted DEF CheckFree
  <2>2. cpu_info'[c] = cpu_info[c]
    BY <1>0, <1>3, <2>1, HoldingKeepsInfo DEF CheckFree, TypeOK
  <2>3. ~holding(c, ctx[c].lk)
    BY <1>0, <1>3, HoldingExact DEF CheckFree
  <2>4. ctx'[c].pc = "xchg" /\ ctx'[c].lk = ctx[c].lk /\ ctx'[c].intr = ctx[c].intr
    BY <1>0, <1>3, <2>3 DEF CheckFree, Goto, TypeOK, Context
  <2> QED
    BY <1>0, <1>3, <2>1, <2>2, <2>4 DEF CheckFree
<1>4. CASE Xchg(c)
  <2>1. ctx'[c].pc = "setcpu" /\ ctx'[c].lk = ctx[c].lk /\ ctx'[c].intr = ctx[c].intr
    BY <1>0, <1>4 DEF Xchg, Goto, TypeOK, Context
  <2> QED
    BY <1>0, <1>4, <2>1 DEF Xchg
<1>5. CASE SetCpu(c)
  <2>1. ctx'[c].pc = "idle" /\ ctx'[c].intr = ctx[c].intr
    BY <1>0, <1>5 DEF SetCpu, Goto, TypeOK, Context
  <2>2. held'[c] = held[c] \cup {ctx[c].lk} /\ ctx[c].lk \notin held[c]
    BY <1>0, <1>5 DEF SetCpu, TypeOK
  <2>3. IsFiniteSet(held'[c]) /\ Cardinality(held'[c]) = Card + 1
    <3>1. IsFiniteSet(held[c])
      BY <1>0
    <3>2. /\ IsFiniteSet(held[c] \cup {ctx[c].lk})
          /\ Cardinality(held[c] \cup {ctx[c].lk}) = Card + 1
      BY <2>2, <3>1, FS_AddElement
    <3> QED
      BY <2>2, <3>2
  <2>4. cpu_info'[c] = cpu_info[c] /\ saved'[c] = saved[c] /\ cpu_info[c].ncli = Card + 1
    BY <1>0, <1>5 DEF SetCpu
  <2> QED
    BY <1>0, <2>1, <2>3, <2>4
<1>6. ASSUME NEW l \in Lock, SpinUnlock(c, l)
      PROVE  LocalInv(c)'
  <2>1. cpu_info[c].ncli > 0
    BY <1>6, Counted DEF SpinUnlock
  <2>2. cpu_info'[c] = cpu_info[c]
    BY <1>0, <1>6, <2>1, HoldingKeepsInfo DEF SpinUnlock, TypeOK
  <2>3. ctx'[c].pc = "clear" /\ ctx'[c].lk = l /\ ctx'[c].intr = ctx[c].intr
    BY <1>0, <1>6, HoldingExact DEF SpinUnlock, TypeOK, Context
  <2>4. held'[c] = held[c] \ {l}
    BY <1>0, <1>6 DEF SpinUnlock, TypeOK
  <2>5. IsFiniteSet(held'[c]) /\ Cardinality(held'[c]) = Card - 1
    <3>1. IsFiniteSet(held[c])
      BY <1>0
    <3>2. l \in held[c]
      BY <1>6 DEF SpinUnlock
    <3> HIDE <1>0
    <3>3. IsFiniteSet(held[c] \ {l}) /\ Cardinality(held[c] \ {l}) = Card - 1
      BY <3>1, <3>2, FS_RemoveElement
    <3> QED
      BY <2>4, <3>3
  <2> QED
    BY <1>0, <1>6, <2>1, <2>2, <2>3, <2>4, <2>5 DEF SpinUnlock
<1>7. CASE ClearCpu(c)
  <2>1. ctx'[c].pc = "release" /\ ctx'[c].lk = ctx[c].lk /\ ctx'[c].intr = ctx[c].intr
    BY <1>0, <1>7 DEF ClearCpu, Goto, TypeOK, Context
  <2> QED
    BY <1>0, <1>7, <2>1 DEF ClearCpu
<1>8. CASE Release(c)
  <2>1. ctx'[c].pc = "pop" /\ ctx'[c].lk = ctx[c].lk /\ ctx'[c].intr = ctx[c].intr
    BY <1>0, <1>8 DEF Release, Goto, TypeOK, Context
  <2> QED
    BY <1>0, <1>8, <2>1 DEF Release
<1>9. CASE PopCli(c)
  <2>1. cpu_info[c].ncli > 0 /\ ~ctx[c].intr
    BY <1>0, <1>9, Counted DEF PopCli
  <2>2. ctx'[c].pc = "idle" /\ ctx'[c].intr = PopIF(c)
    BY <1>0, <1>9, <1>a, <2>1 DEF PopCli, PopPanics, TypeOK, Context
  <2>3. cpu_info'[c].ncli = cpu_info[c].ncli - 1 /\ cpu_info'[c].intena = cpu_info[c].intena
    BY <1>0, <1>9, <1>a DEF PopCli, TypeOK
  <2>4. held'[c] = held[c] /\ saved'[c] = saved[c] /\ ctx[c].pc = "pop"
    BY <1>9 DEF PopCli
  <2>5. ArgInv(c)' /\ CountInv(c)' /\ StackInv(c)'
    BY <1>0, <2>2, <2>3, <2>4
  <2>6. cpu_info'[c].ncli = 0 => (ctx'[c].intr <=> saved'[c] = <<>>)
    BY <1>0, <1>a, <2>1, <2>2, <2>3, <2>4 DEF PopIF
  <2>7. cpu_info'[c].ncli # 0 => ~ctx'[c].intr /\ (cpu_info'[c].intena <=> saved'[c] = <<>>)
    <3>1. cpu_info[c].intena <=> saved[c] = <<>>
      BY <1>0, <2>1
    <3>2. cpu_info'[c].ncli # 0 => cpu_info[c].ncli # 1
      BY <1>a, <2>3
    <3> QED
      BY <2>1, <2>2, <2>3, <2>4, <3>1, <3>2 DEF PopIF
  <2> QED
    BY <2>2, <2>5, <2>6, <2>7
<1>10. CASE TrapEntry(c)
  <2>1. ctx'[c].pc = "idle" /\ ~ctx'[c].intr
    BY <1>0, <1>10 DEF TrapEntry, TypeOK, Context
  <2> QED
    BY <1>0, <1>10, <2>1 DEF TrapEntry
<1>11. CASE Interrupt(c)
  <2>1. ctx'[c].pc = "entry" /\ ctx'[c].intr /\ saved'[c] = Append(saved[c], ctx[c])
    BY <1>0, <1>11 DEF Interrupt, Goto, TypeOK, Context
  <2>2. cpu_info[c].ncli = 0 /\ Card = 0
    BY <1>0, <1>11, <1>a DEF Interrupt
  <2>3. saved[c] \in Seq(Context)
    BY <1>0 DEF TypeOK
  <2>4. StackInv(c)'
    <3> SUFFICES ASSUME NEW i \in 1..Len(saved'[c])
                 PROVE  /\ saved'[c][i].intr
                        /\ IF i = 1 THEN saved'[c][i].pc \in {"idle", "cli"}
                                    ELSE saved'[c][i].pc = "entry"
                        /\ saved'[c][i].pc = "cli" =>
                             saved'[c][i].efl /\ saved'[c][i].lk \in Lock
      OBVIOUS
    <3>1. CASE i = Len(saved[c]) + 1
      BY <1>0, <1>11, <2>1, <2>2, <2>3, <3>1 DEF Interrupt
    <3>2. CASE i \in 1..Len(saved[c])
      BY <1>0, <2>1, <2>3, <3>2
    <3> QED
      BY <2>1, <2>3, <3>1, <3>2
  <2>5. saved'[c] # <<>>
    BY <2>1, <2>3
  <2>6. ArgInv(c)' /\ CountInv(c)' /\ FlagInv(c)'
    BY <1>0, <1>11, <2>1, <2>2, <2>5 DEF Interrupt
  <2> QED
    BY <2>4, <2>6
<1>12. CASE Iret(c)
  <2> DEFINE n == Len(saved[c])
  <2>1. saved[c] \in Seq(Context) /\ n \in Nat \ {0}
    BY <1>0, <1>12 DEF Iret, TypeOK
  <2>2. ctx'[c] = saved[c][n] /\ saved'[c] = SubSeq(saved[c], 1, n - 1)
    BY <1>0, <1>12 DEF Iret, TypeOK
  <2>3. Len(saved'[c]) = n - 1 /\ \A i \in 1..(n-1) : saved'[c][i] = saved[c][i]
    BY <2>1, <2>2
  <2>4. cpu_info'[c] = cpu_info[c] /\ held'[c] = {} /\ held[c] = {} /\ cpu_info[c].ncli = 0
    BY <1>0, <1>12, Counted DEF Iret
  <2>5. saved'[c] = <<>> <=> n = 1
    <3>1. saved'[c] \in Seq(Context)
      BY DEF TypeOK
    <3>2. saved'[c] = <<>> <=> Len(saved'[c]) = 0
      BY <3>1
    <3>3. Len(saved'[c]) = 0 <=> n = 1
      BY <2>1, <2>3
    <3> QED
      BY <3>2, <3>3
  <2>6. n \in 1..Len(saved[c])
    BY <2>1
  <2>7. StackInv(c)'
    <3> SUFFICES ASSUME NEW i \in 1..Len(saved'[c])
                 PROVE  /\ saved'[c][i].intr
                        /\ IF i = 1 THEN saved'[c][i].pc \in {"idle", "cli"}
                                    ELSE saved'[c][i].pc = "entry"
                        /\ saved'[c][i].pc = "cli" =>
                             saved'[c][i].efl /\ saved'[c][i].lk \in Lock
      BY DEF StackInv
    <3>1. i \in 1..(n - 1) /\ i \in 1..Len(saved[c])
      BY <2>1, <2>3
    <3>2. saved'[c][i] = saved[c][i]
      BY <2>3, <3>1
    <3>3. StackInv(c)
      BY <1>0
    <3> HIDE DEF n
    <3> QED
      BY <3>1, <3>2, <3>3 DEF StackInv
  <2> DEFINE x == saved[c][n]
  <2>8. /\ x.intr
        /\ n = 1 => x.pc \in {"idle", "cli"}
        /\ n # 1 => x.pc = "entry"
        /\ x.pc = "cli" => x.efl /\ x.lk \in Lock
    BY <1>0, <2>6
  <2>9. ctx'[c] = x
    BY <2>2
  <2> HIDE DEF x, n
  <2>10. ArgInv(c)' /\ CountInv(c)'
    <3>1. IsFiniteSet(held[c]) /\ cpu_info[c].ncli = Cardinality(held[c])
      BY <1>0, <1>12, <2>4 DEF Iret
    <3>2. CountInv(c)'
      BY <2>4, <2>8, <2>9, <3>1
    <3>3. ArgInv(c)'
      BY <2>4, <2>8, <2>9
    <3> QED
      BY <3>2, <3>3
  <2>11. FlagInv(c)'
    BY <2>4, <2>5, <2>8, <2>9
  <2> QED
    BY <2>7, <2>10, <2>11
<1> QED
  BY <1>1, <1>2, <1>3, <1>4, <1>5, <1>6, <1>7, <1>8, <1>9, <1>10, <1>11, <1>12 DEF CpuStep, Step

(* A step of CPU c touches no other CPU's context, counter, stack or locks. *)
LEMMA OthersUnchanged ==
  ASSUME TypeOK, NEW c \in CPU, CpuStep(c), NEW d \in CPU, d # c
  PROVE  /\ ctx'[d] = ctx[d] /\ cpu_info'[d] = cpu_info[d]
         /\ saved'[d] = saved[d] /\ held'[d] = held[d]
<1> USE DEF TypeOK, Goto
<1>1. ASSUME Step(c)
      PROVE  /\ ctx'[d] = ctx[d] /\ cpu_info'[d] = cpu_info[d]
             /\ saved'[d] = saved[d] /\ held'[d] = held[d]
  BY <1>1 DEF Step, Cli, CheckFree, Xchg, SetCpu, ClearCpu, Release, PopCli, TrapEntry
<1>2. ASSUME Interrupt(c) \/ Iret(c)
      PROVE  /\ ctx'[d] = ctx[d] /\ cpu_info'[d] = cpu_info[d]
             /\ saved'[d] = saved[d] /\ held'[d] = held[d]
  BY <1>2 DEF Interrupt, Iret
<1>3. ASSUME NEW l \in Lock, SpinLock(c, l) \/ SpinUnlock(c, l)
      PROVE  /\ ctx'[d] = ctx[d] /\ cpu_info'[d] = cpu_info[d]
             /\ saved'[d] = saved[d] /\ held'[d] = held[d]
  BY <1>3 DEF SpinLock, SpinUnlock
<1> QED
  BY <1>1, <1>2, <1>3 DEF CpuStep

(* The lock words only change meaning with the CPUs that own or mark them. *)
LEMMA LockFrame ==
  ASSUME NEW l \in Lock, LockInv(l), locked'[l] = locked[l], owner'[l] = owner[l],
         \A d \in CPU : (Owns(d, l)' <=> Owns(d, l)) /\ (Marked(d, l)' <=> Marked(d, l))
  PROVE  LockInv(l)'
BY DEF LockInv

(* The labels at which a CPU is neither about to own a lock nor giving one up. *)
Outside == {"idle", "cli", "check", "xchg", "pop", "entry"}

LEMMA OutsideFrame ==
  ASSUME IInv, NEW c \in CPU, CpuStep(c), UNCHANGED <<locked, owner, held>>,
         ctx[c].pc \in Outside, ctx'[c].pc \in Outside, NEW l \in Lock
  PROVE  LockInv(l)'
<1>1. ASSUME NEW d \in CPU
      PROVE  (Owns(d, l)' <=> Owns(d, l)) /\ (Marked(d, l)' <=> Marked(d, l))
  <2>1. CASE d = c
    BY <2>1 DEF Owns, Marked, Outside
  <2>2. CASE d # c
    BY <2>2, OthersUnchanged DEF IInv, Owns, Marked
  <2> QED
    BY <2>1, <2>2
<1> QED
  BY <1>1, LockFrame DEF IInv

(* A step of CPU c keeps what the invariant says of every lock. *)
LEMMA StepLockInv ==
  ASSUME IInv, NEW c \in CPU, LocalInv(c)', CpuStep(c), NEW l \in Lock
  PROVE  LockInv(l)'
<1>0. TypeOK /\ LockInv(l) /\ LocalInv(c)
  BY DEF IInv, LocalInv
<1>a. \A d \in CPU : d # c => (Owns(d, l)' <=> Owns(d, l)) /\ (Marked(d, l)' <=> Marked(d, l))
  BY <1>0, OthersUnchanged DEF Owns, Marked
<1>b. ctx[c] \in Context
  BY <1>0 DEF TypeOK
<1>1. ASSUME NEW m \in Lock, SpinLock(c, m)
      PROVE  LockInv(l)'
  <2>1. ctx[c].pc = "idle" /\ ctx'[c].pc = "cli"
    BY <1>0, <1>1, <1>b DEF SpinLock, TypeOK, Context
  <2> QED
    BY <1>1, <2>1, OutsideFrame DEF SpinLock, Outside
<1>2. CASE Cli(c) \/ TrapEntry(c)
  <2>1. ctx[c].pc \in {"cli", "entry"} /\ ctx'[c].pc \in {"check", "idle"}
    BY <1>0, <1>2, <1>b DEF Cli, TrapEntry, TypeOK, Context
  <2> QED
    BY <1>2, <2>1, OutsideFrame DEF Cli, TrapEntry, Outside
<1>3. CASE CheckFree(c)
  <2>1. ~holding(c, ctx[c].lk)
    BY <1>0, <1>3, HoldingExact DEF CheckFree, LocalInv, ArgInv
  <2>2. ctx[c].pc = "check" /\ ctx'[c].pc = "xchg"
    BY <1>0, <1>3, <2>1 DEF CheckFree, Goto, TypeOK, Context
  <2> QED
    BY <1>3, <2>2, OutsideFrame DEF CheckFree, Outside
<1>4. CASE Xchg(c)
  <2>1. /\ ctx[c].pc = "xchg" /\ ctx'[c].pc = "setcpu" /\ ctx'[c].lk = ctx[c].lk
        /\ held'[c] = held[c]
    BY <1>0, <1>4 DEF Xchg, Goto, TypeOK, Context
  <2>2. CASE l = ctx[c].lk
    <3>1. \A d \in CPU : ~Owns(d, l)
      BY <1>0, <1>4, <2>2 DEF Xchg, LockInv
    <3>2. locked'[l] = 1 /\ owner'[l] = owner[l]
      BY <1>0, <1>4, <2>2 DEF Xchg, TypeOK
    <3>3. Owns(c, l)' /\ (Marked(c, l)' <=> Marked(c, l))
      BY <2>1, <2>2 DEF Owns, Marked
    <3> QED
      BY <1>0, <1>a, <3>1, <3>2, <3>3 DEF LockInv
  <2>3. CASE l # ctx[c].lk
    <3>1. locked'[l] = locked[l] /\ owner'[l] = owner[l]
      BY <1>0, <1>4, <2>3 DEF Xchg, TypeOK
    <3>2. (Owns(c, l)' <=> Owns(c, l)) /\ (Marked(c, l)' <=> Marked(c, l))
      BY <2>1, <2>3 DEF Owns, Marked
    <3> QED
      BY <1>0, <1>a, <3>1, <3>2, LockFrame
  <2> QED
    BY <2>2, <2>3
<1>5. CASE SetCpu(c)
  <2>1. /\ ctx[c].pc = "setcpu" /\ ctx'[c].pc = "idle"
        /\ held'[c] = held[c] \cup {ctx[c].lk} /\ locked' = locked
    BY <1>0, <1>5 DEF SetCpu, Goto, TypeOK, Context
  <2>2. CASE l = ctx[c].lk
    <3>1. Owns(c, l) /\ Owns(c, l)' /\ Marked(c, l)'
      BY <2>1, <2>2 DEF Owns, Marked
    <3>2. owner'[l] = c
      BY <1>0, <1>5, <2>2 DEF SetCpu, TypeOK
    <3>3. \A d \in CPU : d # c => ~Marked(d, l)
      BY <1>0, <3>1 DEF LockInv, Owns, Marked
    <3> QED
      BY <1>0, <1>a, <2>1, <3>1, <3>2, <3>3 DEF LockInv
  <2>3. CASE l # ctx[c].lk
    <3>1. locked'[l] = locked[l] /\ owner'[l] = owner[l]
      BY <1>0, <1>5, <2>3 DEF SetCpu, TypeOK
    <3>2. (Owns(c, l)' <=> Owns(c, l)) /\ (Marked(c, l)' <=> Marked(c, l))
      BY <2>1, <2>3 DEF Owns, Marked
    <3> QED
      BY <1>0, <1>a, <3>1, <3>2, LockFrame
  <2> QED
    BY <2>2, <2>3
<1>6. ASSUME NEW m \in Lock, SpinUnlock(c, m)
      PROVE  LockInv(l)'
  <2>1. holding(c, m)
    BY <1>6, HoldingExact DEF SpinUnlock
  <2>2. /\ ctx[c].pc = "idle" /\ ctx'[c].pc = "clear" /\ ctx'[c].lk = m
        /\ held'[c] = held[c] \ {m} /\ m \in held[c]
    BY <1>0, <1>6, <2>1 DEF SpinUnlock, TypeOK, Context
  <2>3. (Owns(c, l)' <=> Owns(c, l)) /\ (Marked(c, l)' <=> Marked(c, l))
    BY <2>2 DEF Owns, Marked
  <2>4. locked'[l] = locked[l] /\ owner'[l] = owner[l]
    BY <1>6 DEF SpinUnlock
  <2> QED
    BY <1>0, <1>a, <2>3, <2>4, LockFrame
<1>7. CASE ClearCpu(c)
  <2>1. /\ ctx[c].pc = "clear" /\ ctx'[c].pc = "release" /\ ctx'[c].lk = ctx[c].lk
        /\ held'[c] = held[c] /\ locked' = locked
    BY <1>0, <1>7 DEF ClearCpu, Goto, TypeOK, Context
  <2>2. (Owns(c, l)' <=> Owns(c, l))
    BY <2>1 DEF Owns
  <2>3. CASE l = ctx[c].lk
    <3>1. Owns(c, l) /\ ~Marked(c, l)'
      BY <1>0, <2>1, <2>3 DEF Owns, Marked, LocalInv, ArgInv
    <3>2. owner'[l] = NULL
      BY <1>0, <1>7, <2>3 DEF ClearCpu, TypeOK
    <3>3. \A d \in CPU : d # c => ~Marked(d, l)
      BY <1>0, <3>1 DEF LockInv, Owns, Marked
    <3> QED
      BY <1>0, <1>a, <2>1, <2>2, <3>1, <3>2, <3>3, SpinlockAssumption DEF LockInv
  <2>4. CASE l # ctx[c].lk
    <3>1. locked'[l] = locked[l] /\ owner'[l] = owner[l]
      BY <1>0, <1>7, <2>4 DEF ClearCpu, TypeOK
    <3>2. Marked(c, l)' <=> Marked(c, l)
      BY <2>1, <2>4 DEF Marked
    <3> QED
      BY <1>0, <1>a, <2>2, <3>1, <3>2, LockFrame
  <2> QED
    BY <2>3, <2>4
<1>8. CASE Release(c)
  <2>1. /\ ctx[c].pc = "release" /\ ctx'[c].pc = "pop" /\ ctx'[c].lk = ctx[c].lk
        /\ held'[c] = held[c] /\ owner' = owner
    BY <1>0, <1>8 DEF Release, Goto, TypeOK, Context
  <2>2. (Marked(c, l)' <=> Marked(c, l))
    BY <2>1 DEF Marked
  <2>3. CASE l = ctx[c].lk
    <3>1. Owns(c, l) /\ ~Owns(c, l)'
      BY <1>0, <2>1, <2>3 DEF Owns, LocalInv, ArgInv
    <3>2. locked'[l] = 0
      BY <1>0, <1>8, <2>3 DEF Release, TypeOK
    <3>3. \A d \in CPU : d # c => ~Owns(d, l)
      BY <1>0, <3>1 DEF LockInv
    <3> QED
      BY <1>0, <1>a, <2>1, <2>2, <3>1, <3>2, <3>3 DEF LockInv
  <2>4. CASE l # ctx[c].lk
    <3>1. locked'[l] = locked[l] /\ owner'[l] = owner[l]
      BY <1>0, <1>8, <2>4 DEF Release, TypeOK
    <3>2. Owns(c, l)' <=> Owns(c, l)
      BY <2>1, <2>4 DEF Owns
    <3> QED
      BY <1>0, <1>a, <2>2, <3>1, <3>2, LockFrame
  <2> QED
    BY <2>3, <2>4
<1>9. CASE PopCli(c)
  <2>1. ctx[c].pc = "pop" /\ ctx'[c].pc \in {"idle", "panic"}
    BY <1>0, <1>9, <1>b DEF PopCli, TypeOK, Context
  <2>2. ctx'[c].pc # "panic"
    BY DEF LocalInv, FlagInv
  <2> QED
    BY <1>9, <2>1, <2>2, OutsideFrame DEF PopCli, Outside
<1>10. CASE Interrupt(c)
  <2>1. ctx[c].pc \in Outside
    <3>1. cpu_info[c].ncli = 0
      BY <1>0, <1>10 DEF Interrupt, LocalInv, FlagInv
    <3> QED
      BY <1>0, <3>1 DEF LocalInv, FlagInv, Outside
  <2>2. ctx'[c].pc = "entry"
    BY <1>0, <1>10, <1>b DEF Interrupt, Goto, TypeOK, Context
  <2> QED
    BY <1>10, <2>1, <2>2, OutsideFrame DEF Interrupt, Outside
<1>11. CASE Iret(c)
  <2>1. saved[c] \in Seq(Context) /\ Len(saved[c]) \in 1..Len(saved[c])
    BY <1>0, <1>11 DEF Iret, TypeOK
  <2>2. ctx'[c].pc \in {"idle", "cli", "entry"}
    BY <1>0, <1>11, <2>1 DEF Iret, TypeOK, LocalInv, StackInv
  <2> QED
    BY <1>11, <2>2, OutsideFrame DEF Iret, Outside
<1> QED
  BY <1>1, <1>2, <1>3, <1>4, <1>5, <1>6, <1>7, <1>8, <1>9, <1>10, <1>11 DEF CpuStep, Step

LEMMA NextIInv == IInv /\ [Next]_vars => IInv'
<1> SUFFICES ASSUME IInv, [Next]_vars
             PROVE  IInv'
  OBVIOUS
<1>1. TypeOK'
  BY NextTypeOK
<1>2. CASE UNCHANGED vars
  BY <1>2 DEF vars, IInv, TypeOK, ArgInv, CountInv, FlagInv, StackInv, Pending, LockInv,
              Owns, Marked
<1>3. ASSUME NEW c \in CPU, CpuStep(c)
      PROVE  IInv'
  <2>1. LocalInv(c)'
    BY <1>1, <1>3, OwnLocalInv
  <2>2. ASSUME NEW d \in CPU
        PROVE  LocalInv(d)'
    <3>1. CASE d # c
      BY <1>3, <3>1, OthersUnchanged, LocalFrame DEF IInv, LocalInv
    <3> QED
      BY <2>1, <3>1
  <2>3. ASSUME NEW l \in Lock
        PROVE  LockInv(l)'
    BY <1>3, <2>1, StepLockInv
  <2> QED
    BY <1>1, <2>2, <2>3 DEF IInv, LocalInv
<1> QED
  BY <1>2, <1>3 DEF Next, CpuStep

(* The inductive invariant holds of every behaviour. *)
THEOREM Invariance == Spec => []IInv
<1> QED
  BY InitIInv, NextIInv, PTL DEF Spec

(* my_spinlock / my_spinunlock keep every variable in its type. *)
THEOREM TypeCorrect == Spec => []TypeOK
<1>1. IInv => TypeOK
  BY DEF IInv
<1> QED
  BY <1>1, Invariance, PTL

(* Two CPUs are never between my_spinlock's return and my_spinunlock's call  *)
(* for the same lock, however many CPUs, locks and nested interrupts.        *)
THEOREM LockMutualExclusion == Spec => []MutualExclusion
<1>1. IInv => MutualExclusion
  <2> SUFFICES ASSUME IInv, NEW c \in CPU, NEW d \in CPU, c # d, NEW l,
                      l \in held[c], l \in held[d]
               PROVE  FALSE
    BY DEF MutualExclusion
  <2>1. l \in Lock
    BY DEF IInv, TypeOK
  <2> QED
    BY <2>1 DEF IInv, LockInv, Owns
<1> QED
  BY <1>1, Invariance, PTL

(* No assert or panic of spinlock.c is reachable for callers that take locks *)
(* in rank order and release what they took.                                 *)
THEOREM PanicFree == Spec => []NoPanic
<1>1. IInv => NoPanic
  BY DEF IInv, FlagInv, NoPanic
<1> QED
  BY <1>1, Invariance, PTL

(* ncli equals the number of locks held plus the one in transit. *)
THEOREM NcliExact == Spec => []NcliCountsLocks
<1>1. IInv => NcliCountsLocks
  BY DEF IInv, CountInv, NcliCountsLocks
<1> QED
  BY <1>1, Invariance, PTL

(* Nothing interrupts a CPU that owns a lock. *)
THEOREM NoInterruptWithLock == Spec => []NeverInterruptedWithLock
<1>1. IInv => NeverInterruptedWithLock
  <2> SUFFICES ASSUME IInv, NEW c \in CPU
               PROVE  /\ held[c] # {} \/ ctx[c].pc \in {"xchg", "setcpu", "clear", "release"}
                           => ~ctx[c].intr
                      /\ \A i \in 1..Len(saved[c]) : saved[c][i].pc \in {"idle", "cli", "entry"}
    BY DEF NeverInterruptedWithLock
  <2>1. held[c] # {} \/ ctx[c].pc \in {"xchg", "setcpu", "clear", "release"}
          => cpu_info[c].ncli > 0
    BY Counted DEF Pending
  <2> QED
    BY <2>1 DEF IInv, FlagInv, StackInv
<1> QED
  BY <1>1, Invariance, PTL

(* Locks taken and released inside a handler never re-enable interrupts, and *)
(* outside one they always do. *)
THEOREM FlagRestored == Spec => []InterruptFlagRestored
<1>1. IInv => InterruptFlagRestored
  <2> SUFFICES ASSUME IInv, NEW c \in CPU, ctx[c].pc = "idle", held[c] = {}
               PROVE  ctx[c].intr <=> saved[c] = <<>>
    BY DEF InterruptFlagRestored
  <2>1. cpu_info[c].ncli = 0
    BY Counted DEF Pending
  <2> QED
    BY <2>1 DEF IInv, FlagInv
<1> QED
  BY <1>1, Invariance, PTL

-----------------------------------------------------------------------------
(* Refinement: the exchange that takes a lock is the abstract Acquire, the   *)
(* one that gives it back the abstract Release, and every other step leaves  *)
(* the set of owners alone. *)
holdersBar == [l \in Lock |-> {c \in CPU : Owns(c, l)}]

LEMMA SameOwners ==
  ASSUME \A c \in CPU, l \in Lock : Owns(c, l)' <=> Owns(c, l)
  PROVE  holdersBar' = holdersBar
BY DEF holdersBar

LEMMA StepRefines ==
  ASSUME IInv, IInv', NEW c \in CPU, CpuStep(c)
  PROVE  Abstract!Next \/ holdersBar' = holdersBar
<1>0. TypeOK /\ LocalInv(c) /\ LocalInv(c)'
  BY DEF IInv, LocalInv
<1>a. \A d \in CPU, l \in Lock : d # c => (Owns(d, l)' <=> Owns(d, l))
  BY <1>0, OthersUnchanged DEF Owns
<1>1. CASE Xchg(c)
  <2> DEFINE m == ctx[c].lk
  <2>1. m \in Lock
    BY <1>1, ArgIsLock DEF Xchg
  <2>2. \A d \in CPU : ~Owns(d, m)
    BY <1>1, <2>1 DEF Xchg, IInv, LockInv
  <2>3. ctx[c].pc = "xchg" /\ ctx'[c].pc = "setcpu" /\ ctx'[c].lk = m /\ held'[c] = held[c]
    BY <1>0, <1>1 DEF Xchg, Goto, TypeOK, Context
  <2>4. \A l \in Lock : Owns(c, l)' <=> Owns(c, l) \/ l = m
    BY <2>3 DEF Owns
  <2>5. holdersBar[m] = {} /\ holdersBar' = [holdersBar EXCEPT ![m] = {c}]
    BY <1>a, <2>1, <2>2, <2>4 DEF holdersBar
  <2> QED
    BY <2>1, <2>5 DEF Abstract!Next, Abstract!Acquire, holdersBar
<1>2. CASE Release(c)
  <2> DEFINE m == ctx[c].lk
  <2>1. m \in Lock
    BY <1>2, ArgIsLock DEF Release
  <2>2. ctx[c].pc = "release" /\ ctx'[c].pc = "pop" /\ ctx'[c].lk = m /\ held'[c] = held[c]
    BY <1>0, <1>2 DEF Release, Goto, TypeOK, Context
  <2>3. Owns(c, m) /\ \A d \in CPU : Owns(d, m) => d = c
    BY <2>1, <2>2 DEF IInv, LockInv, Owns
  <2>4. \A l \in Lock : Owns(c, l)' <=> Owns(c, l) /\ l # m
    BY <1>0, <2>2 DEF Owns, LocalInv, ArgInv
  <2>5. holdersBar[m] = {c} /\ holdersBar' = [holdersBar EXCEPT ![m] = {}]
    BY <1>a, <2>1, <2>3, <2>4 DEF holdersBar
  <2> QED
    BY <2>1, <2>5 DEF Abstract!Next, Abstract!Release, holdersBar
<1>3. ASSUME NEW m \in Lock, SpinUnlock(c, m)
      PROVE  holdersBar' = holdersBar
  <2>1. holding(c, m)
    BY <1>3, HoldingExact DEF SpinUnlock
  <2>2. ctx[c].pc = "idle" /\ ctx'[c].pc = "clear" /\ ctx'[c].lk = m
    BY <1>0, <1>3, <2>1 DEF SpinUnlock, TypeOK, Context
  <2>3. held'[c] = held[c] \ {m} /\ m \in held[c]
    BY <1>0, <1>3 DEF SpinUnlock, TypeOK
  <2> QED
    BY <1>a, <2>2, <2>3, SameOwners DEF Owns
<1>4. CASE SetCpu(c)
  <2>1. ctx[c].pc = "setcpu" /\ ctx'[c].pc = "idle" /\ held'[c] = held[c] \cup {ctx[c].lk}
    BY <1>0, <1>4 DEF SetCpu, Goto, TypeOK, Context
  <2> QED
    BY <1>a, <2>1, SameOwners DEF Owns
<1>5. CASE ClearCpu(c)
  <2>1. /\ ctx[c].pc = "clear" /\ ctx'[c].pc = "release" /\ ctx'[c].lk = ctx[c].lk
        /\ held'[c] = held[c]
    BY <1>0, <1>5 DEF ClearCpu, Goto, TypeOK, Context
  <2> QED
    BY <1>a, <2>1, SameOwners DEF Owns
<1>6. ASSUME ctx[c].pc \in Outside, ctx'[c].pc \in Outside, held' = held
      PROVE  holdersBar' = holdersBar
  BY <1>a, <1>6, SameOwners DEF Owns, Outside
<1>7. ASSUME NEW m \in Lock, SpinLock(c, m)
      PROVE  holdersBar' = holdersBar
  BY <1>0, <1>6, <1>7 DEF SpinLock, TypeOK, Context, Outside
<1>8. CASE Cli(c) \/ TrapEntry(c)
  BY <1>0, <1>6, <1>8 DEF Cli, TrapEntry, TypeOK, Context, Outside
<1>9. CASE CheckFree(c)
  <2>1. ctx[c].pc = "check" /\ ctx'[c].pc \in {"panic", "xchg"}
    BY <1>0, <1>9 DEF CheckFree, Goto, TypeOK, Context
  <2> QED
    BY <1>0, <1>6, <1>9, <2>1 DEF CheckFree, LocalInv, FlagInv, Outside
<1>10. CASE PopCli(c)
  <2>1. ctx[c].pc = "pop" /\ ctx'[c].pc \in {"idle", "panic"}
    BY <1>0, <1>10 DEF PopCli, TypeOK, Context
  <2> QED
    BY <1>0, <1>6, <1>10, <2>1 DEF PopCli, LocalInv, FlagInv, Outside
<1>11. CASE Interrupt(c)
  <2>1. ctx[c].pc \in Outside /\ ctx'[c].pc = "entry"
    BY <1>0, <1>11 DEF Interrupt, Goto, TypeOK, Context, LocalInv, FlagInv, Outside
  <2> QED
    BY <1>6, <1>11, <2>1 DEF Interrupt, Outside
<1>12. CASE Iret(c)
  <2>1. saved[c] \in Seq(Context) /\ Len(saved[c]) \in 1..Len(saved[c])
    BY <1>0, <1>12 DEF Iret, TypeOK
  <2>2. ctx'[c].pc \in {"idle", "cli", "entry"}
    BY <1>0, <1>12, <2>1 DEF Iret, TypeOK, LocalInv, StackInv
  <2> QED
    BY <1>6, <1>12, <2>2 DEF Iret, Outside
<1> QED
  BY <1>1, <1>2, <1>3, <1>4, <1>5, <1>7, <1>8, <1>9, <1>10, <1>11, <1>12 DEF CpuStep, Step

(* spinlock.c implements the abstract lock. *)
THEOREM ImplementsLock == Spec => RefinesLock
<1>1. Init => Abstract!Init
  BY DEF Init, Abstract!Init, Owns
<1>2. IInv /\ IInv' /\ [Next]_vars => [Abstract!Next]_holdersBar
  <2>1. CASE UNCHANGED vars
    BY <2>1 DEF vars, holdersBar, Owns
  <2>2. ASSUME IInv, IInv', NEW c \in CPU, CpuStep(c)
        PROVE  [Abstract!Next]_holdersBar
    BY <2>2, StepRefines
  <2> QED
    BY <2>1, <2>2 DEF Next, CpuStep
<1>3. IInv /\ IInv' /\ [Next]_vars => [Abstract!Next]_([l \in Lock |-> {c \in CPU : Owns(c, l)}])
  BY <1>2 DEF holdersBar
<1> QED
  BY <1>1, <1>3, Invariance, PTL DEF Spec, RefinesLock, Abstract!Spec
=============================================================================
