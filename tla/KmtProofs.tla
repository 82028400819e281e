------------------------------ MODULE KmtProofs ------------------------------
(* Proofs about Kmt, for any number of CPUs, shells and semaphores.          *)
EXTENDS Kmt, FiniteSetTheorems, SequenceTheorems, TLAPS

LEMMA Numbers ==
  /\ NCPU \in Nat \ {0} /\ NTASK \in Nat /\ NTASK >= 2 + NCPU /\ 0 \in CPU
  /\ CPU \subseteq Int /\ Task \subseteq Int /\ NULL \notin CPU /\ NULL \notin Task
  /\ INPUT \in Task /\ Zombie \subseteq Task
  /\ NULL \notin Sems /\ KBD \in Sems
BY KmtAssumption DEF NTASK, CPU, Task, INPUT, Zombie, Sems

(* Subsets of Task are finite.                                               *)
LEMMA TaskSets ==
  ASSUME NEW S \in SUBSET Task
  PROVE  IsFiniteSet(S) /\ Cardinality(S) \in Nat
<1>1. IsFiniteSet(Task)
  BY Numbers, FS_Interval DEF Task
<1> QED
  BY <1>1, FS_Subset, FS_CardinalityType

(* Counting modulo n.                                                        *)
LEMMA Division ==
  ASSUME NEW a \in Nat, NEW n \in Nat \ {0}
  PROVE  a = n * (a \div n) + (a % n) /\ a \div n \in Int /\ a % n \in 0..(n - 1)
<1>1. a = n * (a \div n) + (a % n)
  BY Z3
<1> QED
  BY <1>1

LEMMA Remainder ==
  ASSUME NEW a \in Nat, NEW n \in Nat \ {0}, NEW q \in Int, NEW r \in 0..(n - 1), a = n * q + r
  PROVE  a % n = r
OBVIOUS

LEMMA NextRemainder ==
  ASSUME NEW a \in Nat, NEW n \in Nat \ {0}
  PROVE  (a + 1) % n = ((a % n) + 1) % n
<1> DEFINE q == a \div n
           r == a % n
<1>1. a = n * q + r /\ q \in Int /\ r \in 0..(n - 1)
  BY Division
<1> HIDE DEF q, r
<1>2. CASE r + 1 = n
  <2>1. a + 1 \in Nat /\ q + 1 \in Int /\ 0 \in 0..(n - 1) /\ a + 1 = n * (q + 1) + 0
    BY <1>1, <1>2
  <2>2. (a + 1) % n = 0
    BY <2>1, Remainder
  <2>3. (r + 1) % n = 0
    BY <1>2
  <2> QED
    BY <2>2, <2>3 DEF r
<1>3. CASE r + 1 < n
  <2>1. a + 1 \in Nat /\ r + 1 \in 0..(n - 1) /\ a + 1 = n * q + (r + 1)
    BY <1>1, <1>3
  <2>2. (a + 1) % n = r + 1
    BY <1>1, <2>1, Remainder
  <2>3. (r + 1) % n = r + 1
    BY <1>1, <1>3
  <2> QED
    BY <2>2, <2>3 DEF r
<1> QED
  BY <1>1, <1>2, <1>3

-----------------------------------------------------------------------------
(* The list of handlers.                                                     *)

(* The three registrations of the boot, one after the other.                 *)
LEMMA Inserted ==
  /\ handlers = <<>> => insert(Registrations[1]) = <<Registrations[1]>>
  /\ handlers = <<Registrations[1]>> =>
       insert(Registrations[2]) = <<Registrations[1], Registrations[2]>>
  /\ handlers = <<Registrations[1], Registrations[2]>> => insert(Registrations[3]) = Sorted
<1> DEFINE one == Registrations[1]
           two == Registrations[2]
           three == Registrations[3]
           before(h) == {i \in DOMAIN handlers : h.seq > handlers[i].seq}
<1>1. /\ one.seq = INT_MIN /\ two.seq = INT_MAX /\ three.seq = 0
      /\ INT_MIN < 0 /\ 0 < INT_MAX /\ INT_MIN \in Int /\ INT_MAX \in Int
  BY DEF Registrations, INT_MIN, INT_MAX
<1> HIDE DEF one, two, three
<1>3. CASE handlers = <<>>
  <2>1. before(one) = {}
    BY <1>3
  <2>2. Cardinality(before(one)) = 0
    BY <2>1, FS_EmptySet
  <2>3. insert(one) = [i \in 1..1 |-> one]
    BY <1>3, <2>2 DEF insert
  <2> QED
    BY <1>3, <2>3 DEF one
<1>4. CASE handlers = <<one>>
  <2>1. before(two) = {1}
    BY <1>1, <1>4
  <2>2. Cardinality(before(two)) = 1
    BY <2>1, FS_Singleton
  <2>3. insert(two) = [i \in 1..2 |-> IF i = 1 THEN one ELSE two]
    BY <1>4, <2>2 DEF insert
  <2> QED
    BY <1>4, <2>3 DEF one, two
<1>5. CASE handlers = <<one, two>>
  <2>1. before(three) = {1}
    BY <1>1, <1>5
  <2>2. Cardinality(before(three)) = 1
    BY <2>1, FS_Singleton
  <2>3. insert(three) = [i \in 1..3 |-> IF i = 1 THEN one ELSE IF i = 2 THEN three ELSE two]
    BY <1>5, <2>2 DEF insert
  <2> QED
    BY <1>5, <2>3 DEF Sorted, one, two, three
<1> QED
  BY <1>3, <1>4, <1>5 DEF one, two

(* Which handlers an event has, and the order os_trap calls them in.         *)
LEMMA Walk ==
  ASSUME handlers = Sorted
  PROVE  /\ Called("YIELD") = {1, 3} /\ Called("IRQ_TIMER") = {1, 3}
         /\ Called("IRQ_IODEV") = {1, 2, 3}
         /\ Enters({1, 3}) = "save" /\ Enters({1, 2, 3}) = "save"
         /\ Enters({2, 3}) = "notify" /\ Enters({3}) = "switch" /\ Enters({}) = "unlock"
         /\ least({1, 3}) = 1 /\ least({1, 2, 3}) = 1 /\ least({2, 3}) = 2 /\ least({3}) = 3
         /\ \A i \in 1..3 : handlers[i].handler = "notify" <=> i = 2
<1>1. /\ DOMAIN handlers = 1..3
      /\ handlers[1].event = ANY /\ handlers[2].event = "IRQ_IODEV" /\ handlers[3].event = ANY
      /\ handlers[1].handler = "save" /\ handlers[2].handler = "notify"
      /\ handlers[3].handler = "switch"
  BY DEF Sorted, Registrations
<1>2. ASSUME NEW ev PROVE Called(ev) = {i \in 1..3 : i = 2 => ev = "IRQ_IODEV"}
  <2>1. \A i \in 1..3 : handlers[i].event = IF i = 2 THEN "IRQ_IODEV" ELSE ANY
    BY <1>1
  <2> QED
    BY <1>1, <2>1 DEF Called, ANY
<1>3. least({1, 3}) = 1 /\ least({1, 2, 3}) = 1 /\ least({2, 3}) = 2 /\ least({3}) = 3
  BY DEF least
<1>4. /\ Enters({1, 3}) = "save" /\ Enters({1, 2, 3}) = "save"
      /\ Enters({2, 3}) = "notify" /\ Enters({3}) = "switch" /\ Enters({}) = "unlock"
  BY <1>1, <1>3 DEF Enters
<1>5. /\ Called("YIELD") = {1, 3} /\ Called("IRQ_TIMER") = {1, 3}
      /\ Called("IRQ_IODEV") = {1, 2, 3}
  BY <1>2 DEF ANY
<1> QED
  BY <1>1, <1>3, <1>4, <1>5

-----------------------------------------------------------------------------
(* The lists of tasks.                                                       *)

(* Every CPU has a zombie.                                                   *)
LEMMA HasZombie ==
  ASSUME ListInv, created = NTASK, NEW c \in CPU
  PROVE  \E p \in 1..Len(tl[c]) : tl[c][p] \in Zombie
<1> DEFINE z == IF c >= 2 THEN c + 1 ELSE IF NCPU = 1 THEN 3 ELSE NCPU + c + 1
<1>1. NCPU \in Nat \ {0} /\ c \in 0..(NCPU - 1)
  BY Numbers DEF CPU
<1>2. z \in 3..(2 + NCPU)
  BY <1>1
<1>3. (z - 1) % NCPU = c
  <2>1. CASE c >= 2
    BY <1>1, <2>1
  <2>2. CASE c < 2 /\ NCPU = 1
    BY <1>1, <2>2
  <2>3. CASE c < 2 /\ NCPU # 1
    <3>1. z - 1 = 1 * NCPU + c /\ NCPU > 1
      BY <1>1, <2>3
    <3> QED
      BY <1>1, <3>1
  <2> QED
    BY <1>1, <2>1, <2>2, <2>3
<1>4. z \in Task /\ z <= created /\ z \in Zombie
  BY <1>2, Numbers DEF Task, Zombie
<1> HIDE DEF z
<1>5. On(c, z)
  BY <1>3, <1>4 DEF ListInv
<1> QED
  BY <1>4, <1>5 DEF On
(* No task is on the lists of two CPUs.                                      *)
LEMMA Disjoint ==
  ASSUME ListInv, NEW c \in CPU, NEW d \in CPU, NEW t \in Task, On(c, t), On(d, t)
  PROVE  c = d
BY DEF ListInv

(* What every CPU's current task and stack are.                              *)
LEMMA Own ==
  ASSUME IInv
  PROVE  /\ \A c \in CPU : cur[c] # NULL => cur[c] \in Task /\ On(c, cur[c])
         /\ \A c, d \in CPU : c # d /\ cur[c] # NULL => cur[d] # cur[c]
<1>1. \A c \in CPU : cur[c] # NULL => cur[c] \in Task /\ On(c, cur[c])
  BY DEF IInv, TypeOK, CurInv
<1>2. ASSUME NEW c \in CPU, NEW d \in CPU, c # d, cur[c] # NULL PROVE cur[d] # cur[c]
  BY <1>1, <1>2, Disjoint DEF IInv
<1> QED
  BY <1>1, <1>2

(* A CPU that has left the boot.                                             *)
LEMMA Booted ==
  ASSUME IInv, NEW c \in CPU, mode[c] # "boot"
  PROVE  /\ handlers = Sorted /\ created = NTASK
         /\ \A d \in CPU : mode[d] # "boot"
<1>1. created = NTASK /\ \A d \in CPU : mode[d] # "boot"
  BY DEF IInv, BootInv, Booting
<1>2. created > 0
  BY <1>1, Numbers
<1> QED
  BY <1>1, <1>2 DEF IInv, BootInv

(* A CPU that executes a task's code, past the point where it starts.        *)
LEMMA Executing ==
  ASSUME IInv, NEW c \in CPU, mode[c] = "run", point[c] # "os_run"
  PROVE  /\ cur[c] \in Task /\ cur[c] # NULL /\ at[cur[c]] = point[c]
         /\ point[c] # "yield" => status[cur[c]] = "RUNNING"
         /\ point[c] = "wait" => waitsem[cur[c]] \in Sems /\ cur[c] \notin Zombie
         /\ point[c] = "idle" => waitsem[cur[c]] = NULL /\ cur[c] \notin Zombie
<1>1. /\ cur[c] \in Task /\ cur[c] # NULL /\ at[cur[c]] = point[c]
      /\ point[c] # "yield" => status[cur[c]] = "RUNNING"
  BY Own DEF IInv, CurInv
<1>2. TaskInv(cur[c]) /\ waitsem[cur[c]] \in Sems \cup {NULL}
  BY <1>1 DEF IInv, TypeOK
<1> QED
  BY <1>1, <1>2 DEF TaskInv

-----------------------------------------------------------------------------
LEMMA InitIInv == Init => IInv
<1> SUFFICES ASSUME Init PROVE IInv
  OBVIOUS
<1> USE Numbers DEF Init
<1>1. TypeOK
  <2>1. \A t \in Task : entry(t) \in {"idle", "zombie"}
    BY DEF entry
  <2>2. 0 \in 0..(NTASK - 1) /\ 0 \in 0..NTASK /\ 0 \in 0..MaxValue
    BY KmtAssumption
  <2> QED
    BY <2>1, <2>2 DEF TypeOK
<1>2. BootInv
  BY DEF BootInv, Booting
<1>3. ListInv
  <2>1. 0 % NCPU = 0
    OBVIOUS
  <2>2. ASSUME NEW c \in CPU, NEW t \in Task PROVE ~On(c, t) /\ ~(t <= 0)
    BY DEF On, Task
  <2> QED
    BY <2>1, <2>2 DEF ListInv
<1>4. ASSUME NEW c \in CPU PROVE WalkInv(c) /\ CurInv(c) /\ ScanInv(c)
  BY DEF WalkInv, CurInv, ScanInv
<1>5. ASSUME NEW t \in Task PROVE TaskInv(t)
  BY DEF TaskInv, entry, Saved
<1>6. RingInv /\ UnitsInv
  BY DEF RingInv, UnitsInv
<1>7. KbdInv
  BY DEF KbdInv
<1> QED
  BY <1>1, <1>2, <1>3, <1>4, <1>5, <1>6, <1>7 DEF IInv
-----------------------------------------------------------------------------
(* What the steps do.                                                        *)

(* The handler a CPU is in returns.                                          *)
LEMMA Returned ==
  ASSUME IInv, NEW c \in CPU, Returns(c)
  PROVE  /\ mode[c] = "save" =>
              \/ /\ rest[c] = {1, 3}
                 /\ mode' = [mode EXCEPT ![c] = "switch"] /\ rest' = [rest EXCEPT ![c] = {3}]
              \/ /\ rest[c] = {1, 2, 3}
                 /\ mode' = [mode EXCEPT ![c] = "notify"] /\ rest' = [rest EXCEPT ![c] = {2, 3}]
         /\ mode[c] = "notify" =>
              /\ rest[c] = {2, 3}
              /\ mode' = [mode EXCEPT ![c] = "switch"] /\ rest' = [rest EXCEPT ![c] = {3}]
         /\ mode[c] \in {"switch", "check"} =>
              mode' = [mode EXCEPT ![c] = "unlock"] /\ rest' = [rest EXCEPT ![c] = {}]
<1>0. WalkInv(c) /\ rest \in [CPU -> SUBSET (1..3)]
  BY DEF IInv, TypeOK
<1>1. ASSUME mode[c] # "boot"
      PROVE  /\ least({1, 3}) = 1 /\ least({1, 2, 3}) = 1 /\ least({2, 3}) = 2 /\ least({3}) = 3
             /\ Enters({2, 3}) = "notify" /\ Enters({3}) = "switch" /\ Enters({}) = "unlock"
  BY <1>1, Booted, Walk
<1>2. /\ {1, 3} \ {1} = {3} /\ {1, 2, 3} \ {1} = {2, 3} /\ {2, 3} \ {2} = {3} /\ {3} \ {3} = {}
  OBVIOUS
<1>3. /\ mode' = [mode EXCEPT ![c] = Enters(rest[c] \ {least(rest[c])})]
      /\ rest' = [rest EXCEPT ![c] = rest[c] \ {least(rest[c])}]
  BY DEF Returns
<1>4. CASE mode[c] = "save"
  <2>1. rest[c] = {1, 3} \/ rest[c] = {1, 2, 3}
    BY <1>0, <1>4 DEF WalkInv
  <2> QED
    BY <1>1, <1>2, <1>3, <1>4, <2>1
<1>5. CASE mode[c] = "notify"
  BY <1>0, <1>1, <1>2, <1>3, <1>5 DEF WalkInv
<1>6. CASE mode[c] \in {"switch", "check"}
  BY <1>0, <1>1, <1>2, <1>3, <1>6 DEF WalkInv
<1> QED
  BY <1>4, <1>5, <1>6

(* A CPU takes traplock: it calls the handlers of its event.                 *)
LEMMA Locked ==
  ASSUME IInv, NEW c \in CPU, TrapLock(c)
  PROVE  /\ mode' = [mode EXCEPT ![c] = "save"]
         /\ \/ event[c] # "IRQ_IODEV" /\ rest' = [rest EXCEPT ![c] = {1, 3}]
            \/ event[c] = "IRQ_IODEV" /\ rest' = [rest EXCEPT ![c] = {1, 2, 3}]
<1>1. event[c] \in {"YIELD", "IRQ_TIMER", "IRQ_IODEV"} /\ handlers = Sorted
  BY Booted DEF IInv, TypeOK, WalkInv, TrapLock
<1> QED
  BY <1>1, Walk DEF TrapLock

(* The CPU in input_notify is CPU 0, and value has room for the unit.        *)
LEMMA Notified ==
  ASSUME IInv, NEW c \in CPU, mode[c] = "notify"
  PROVE  c = 0 /\ 2 \in rest[0] /\ ~irr /\ value[KBD] < MaxValue
<1>1. rest[c] = {2, 3}
  BY DEF IInv, WalkInv
<1> QED
  BY <1>1 DEF IInv, KbdInv

(* The oldest waiter is a suspended task in sem_wait(s).                     *)
LEMMA Waiter ==
  ASSUME IInv, NEW s \in Sems, wl[s] # <<>>
  PROVE  /\ wl[s] \in Seq(Task) /\ Head(wl[s]) \in Task /\ Head(wl[s]) = wl[s][1]
         /\ Len(wl[s]) \in Nat \ {0}
         /\ status[Head(wl[s])] = "SUSPEND" /\ waitsem[Head(wl[s])] = s
<1>1. wl[s] \in Seq(Task) /\ Len(wl[s]) \in Nat \ {0}
  BY EmptySeq DEF IInv, TypeOK
<1>2. Head(wl[s]) = wl[s][1] /\ wl[s][1] \in Task
  BY <1>1, ElementOfSeq
<1> QED
  BY <1>1, <1>2 DEF IInv, RingInv

(* The list of a CPU in the scheduler has at least its zombie on it.         *)
LEMMA Listed ==
  ASSUME IInv, NEW c \in CPU, mode[c] # "boot"
  PROVE  /\ tl[c] \in Seq(Task) /\ Len(tl[c]) \in Nat /\ Len(tl[c]) >= 1 /\ Len(tl[c]) <= NTASK
         /\ \A p \in 1..Len(tl[c]) : tl[c][p] \in Task /\ On(c, tl[c][p])
<1>1. tl[c] \in Seq(Task) /\ Len(tl[c]) \in Nat /\ Len(tl[c]) <= created /\ created = NTASK
  BY Booted, LenProperties DEF IInv, TypeOK, ListInv
<1>2. \E p \in 1..Len(tl[c]) : tl[c][p] \in Zombie
  BY <1>1, HasZombie DEF IInv
<1>3. \A p \in 1..Len(tl[c]) : tl[c][p] \in Task /\ On(c, tl[c][p])
  BY <1>1, ElementOfSeq DEF On
<1> QED
  BY <1>1, <1>2, <1>3

(* The scan starts at a place of the list.                                   *)
LEMMA Starts ==
  ASSUME IInv, NEW c \in CPU, mode[c] = "switch"
  PROVE  first(c) \in 0..(Len(tl[c]) - 1)
<1>1. Len(tl[c]) \in Nat /\ Len(tl[c]) >= 1
  BY Listed
<1>2. id(c) \in Int
  <2>1. CASE cur[c] = NULL
    BY <2>1 DEF id
  <2>2. CASE cur[c] # NULL
    <3> DEFINE i == CHOOSE i \in 1..Len(tl[c]) : tl[c][i] = cur[c]
    <3>1. \E j \in 1..Len(tl[c]) : tl[c][j] = cur[c]
      BY <2>2, Own DEF On
    <3>2. i \in 1..Len(tl[c])
      BY <3>1
    <3>3. id(c) = i - 1
      BY <2>2 DEF id
    <3> HIDE DEF i
    <3> QED
      BY <1>1, <3>2, <3>3
  <2> QED
    BY <2>1, <2>2
<1> QED
  BY <1>1, <1>2 DEF first
(* A zombie that is not current is READY.                                    *)
LEMMA ZombieReady ==
  ASSUME IInv, NEW c \in CPU, NEW t \in Zombie, On(c, t), cur[c] # t
  PROVE  status[t] = "READY"
<1>1. t \in Task /\ TaskInv(t) /\ status[t] \in {"READY", "RUNNING", "SUSPEND"}
  BY Numbers DEF IInv, TypeOK
<1>2. status[t] # "SUSPEND"
  BY <1>1 DEF TaskInv
<1>3. ASSUME NEW d \in CPU, cur[d] = t PROVE FALSE
  <2>1. On(d, t)
    BY <1>1, <1>3, Own, Numbers
  <2> QED
    BY <1>1, <1>3, <2>1, Disjoint DEF IInv
<1> QED
  BY <1>1, <1>2, <1>3 DEF TaskInv

(* A scan that comes to its end has the CPU's zombie as current task.        *)
LEMMA ScanEnds ==
  ASSUME IInv, NEW c \in CPU, mode[c] = "scan", status[tl[c][ind[c] + 1]] # "READY",
         findcnt[c] + 1 = Len(tl[c])
  PROVE  cur[c] \in Zombie /\ status[cur[c]] = "RUNNING"
<1>1. PICK p \in 1..Len(tl[c]) : tl[c][p] \in Zombie
  BY Booted, HasZombie DEF IInv
<1>2. tl[c][p] = cur[c]
  <2> SUFFICES ASSUME tl[c][p] # cur[c] PROVE FALSE
    OBVIOUS
  <2>1. Ahead(c, p) + findcnt[c] < Len(tl[c])
    BY <1>1 DEF IInv, ScanInv
  <2>2. ind[c] \in Nat /\ findcnt[c] \in Nat /\ ind[c] < Len(tl[c]) /\ Len(tl[c]) \in Nat
    BY Listed, Numbers DEF IInv, TypeOK, ScanInv
  <2> DEFINE i == ind[c]
             n == findcnt[c]
  <2>5. i \in Nat /\ n \in Nat /\ n + 1 = Len(tl[c]) /\ i < Len(tl[c]) /\ p \in 1..Len(tl[c])
        /\ (IF p - 1 >= i THEN p - 1 - i ELSE p - 1 - i + Len(tl[c])) + n < Len(tl[c])
    BY <2>1, <2>2 DEF Ahead
  <2> HIDE DEF i, n
  <2>6. p = i + 1
    BY <2>5
  <2>3. p = ind[c] + 1
    BY <2>6 DEF i
  <2>4. status[tl[c][p]] = "READY"
    BY <1>1, Listed, ZombieReady
  <2> QED
    BY <2>3, <2>4
<1>3. cur[c] \in Zombie
  BY <1>1, <1>2
<1>4. cur[c] \in Task
  BY <1>3, Numbers
<1> QED
  BY <1>3, <1>4 DEF IInv, TaskInv

-----------------------------------------------------------------------------
(* Every step keeps the variables in their types.                            *)
LEMMA NextTypeOK == IInv /\ [Next]_vars => TypeOK'
<1> SUFFICES ASSUME IInv, [Next]_vars PROVE TypeOK'
  OBVIOUS
<1> USE DEF TypeOK
<1>0. TypeOK
  BY DEF IInv
<1>t. /\ value \in [Sems -> 0..MaxValue] /\ wl \in [Sems -> Seq(Task)] /\ MaxValue \in Nat
      /\ status \in [Task -> {"READY", "RUNNING", "SUSPEND"}]
  BY <1>0, KmtAssumption
<1>a. ASSUME NEW s \in Sems, value[s] < MaxValue, semsignal(s)
      PROVE  /\ value' \in [Sems -> 0..MaxValue] /\ wl' \in [Sems -> Seq(Task)]
             /\ status' \in [Task -> {"READY", "RUNNING", "SUSPEND"}]
  <2>1. value' \in [Sems -> 0..MaxValue]
    BY <1>t, <1>a DEF semsignal
  <2>2. CASE wl[s] # <<>>
    <3>1. Tail(wl[s]) \in Seq(Task)
      BY <1>0, <2>2, HeadTailProperties
    <3> QED
      BY <1>t, <1>a, <2>1, <2>2, <3>1 DEF semsignal, Wakes
  <2>3. CASE wl[s] = <<>>
    BY <1>t, <1>a, <2>1, <2>3 DEF semsignal, Wakes
  <2> QED
    BY <2>2, <2>3
<1>b. ASSUME NEW c \in CPU, Returns(c), mode[c] \in {"save", "notify", "switch", "check"}
      PROVE  /\ rest' \in [CPU -> SUBSET (1..3)]
             /\ mode' \in [CPU -> {"boot", "run", "trap", "save", "notify", "switch", "scan",
                                   "check", "unlock", "iret", "panic"}]
  <2> HIDE DEF TypeOK
  <2>1. /\ {} \in SUBSET (1..3) /\ {3} \in SUBSET (1..3) /\ {2, 3} \in SUBSET (1..3)
        /\ rest \in [CPU -> SUBSET (1..3)]
    BY <1>0 DEF TypeOK
  <2>2. /\ \/ rest' = [rest EXCEPT ![c] = {3}] \/ rest' = [rest EXCEPT ![c] = {2, 3}]
           \/ rest' = [rest EXCEPT ![c] = {}]
        /\ \/ mode' = [mode EXCEPT ![c] = "switch"] \/ mode' = [mode EXCEPT ![c] = "notify"]
           \/ mode' = [mode EXCEPT ![c] = "unlock"]
    BY <1>b, Returned
  <2>3. rest' \in [CPU -> SUBSET (1..3)]
    BY <2>1, <2>2
  <2>4. mode \in [CPU -> {"boot", "run", "trap", "save", "notify", "switch", "scan",
                        "check", "unlock", "iret", "panic"}]
    BY <1>0 DEF TypeOK
  <2> QED
    BY <2>2, <2>3, <2>4
<1>1. CASE OnIrq
  <2>1. handlers' \in {<<Registrations[1]>>, <<Registrations[1], Registrations[2]>>, Sorted}
    <3>1. Len(Registrations) = 3 /\ Len(Sorted) = 3
      BY DEF Registrations, Sorted
    <3>2. /\ handlers' = insert(Registrations[Len(handlers) + 1]) /\ Len(handlers) < 3
          /\ \/ handlers = <<>> \/ handlers = <<Registrations[1]>>
             \/ handlers = <<Registrations[1], Registrations[2]>> \/ handlers = Sorted
      BY <1>1, <3>1 DEF OnIrq, IInv, BootInv
    <3>3. CASE handlers = <<>>
      BY <3>2, <3>3, Inserted
    <3>4. CASE handlers = <<Registrations[1]>>
      BY <3>2, <3>4, Inserted
    <3>5. CASE handlers = <<Registrations[1], Registrations[2]>>
      BY <3>2, <3>5, Inserted
    <3> QED
      BY <3>1, <3>2, <3>3, <3>4, <3>5
  <2>2. handlers' \in Seq(Handler)
    <3>1. \A i \in 1..3 : Registrations[i] \in Handler
      BY DEF Handler
    <3>2. /\ <<Registrations[1]>> \in Seq(Handler)
          /\ <<Registrations[1], Registrations[2]>> \in Seq(Handler)
          /\ Sorted \in Seq(Handler)
      BY <3>1 DEF Sorted
    <3> QED
      BY <2>1, <3>2
  <2> QED
    BY <1>0, <1>1, <2>2 DEF OnIrq, trapvars, semvars
<1>2. CASE Create
  <2>1. created + 1 \in Task /\ created + 1 \in 0..NTASK /\ tidcnt \in CPU
    BY <1>0, <1>2, Numbers DEF Create, Task
  <2>2. (tidcnt + 1) % NCPU \in CPU
    BY <2>1, Numbers DEF CPU
  <2>3. deal(created + 1) \in [CPU -> Seq(Task)]
    BY <1>0, <2>1, AppendProperties DEF deal
  <2> QED
    BY <1>0, <1>2, <2>1, <2>2, <2>3 DEF Create, trapvars, semvars
<1>3. CASE Start
  BY <1>0, <1>3 DEF Start, bootvars, semvars
<1>4. CASE Press
  BY <1>0, <1>4 DEF Press, bootvars, trapvars, semvars
<1>5. ASSUME NEW c \in CPU, NEW s \in Sems, SemWait(c, s) PROVE TypeOK'
  <2>1. cur[c] \in Task /\ cur[c] # NULL
    BY <1>5, Executing DEF SemWait, Runs
  <2> QED
    BY <1>0, <1>5, <2>1 DEF SemWait, GoOn, bootvars, trapvars, semvars
<1>6. ASSUME NEW c \in CPU, Take(c) PROVE TypeOK'
  <2>1. cur[c] \in Task /\ cur[c] # NULL /\ waitsem[cur[c]] \in Sems
    BY <1>6, Executing DEF Take, Runs
  <2>2. value' \in [Sems -> 0..MaxValue]
    BY <1>t, <1>6, <2>1 DEF Take, Available
  <2> QED
    BY <1>0, <1>6, <2>1, <2>2 DEF Take, GoOn, bootvars, trapvars, semvars
<1>7. ASSUME NEW c \in CPU, Enqueue(c) PROVE TypeOK'
  <2>1. cur[c] \in Task /\ cur[c] # NULL
    BY <1>7, Executing DEF Enqueue, Runs
  <2>3. waitsem[cur[c]] \in Sems => Append(wl[waitsem[cur[c]]], cur[c]) \in Seq(Task)
    BY <1>t, <2>1, AppendProperties
  <2>4. wl' = [wl EXCEPT ![waitsem[cur[c]]] = Append(@, cur[c])]
    BY <1>7 DEF Enqueue
  <2>2. wl' \in [Sems -> Seq(Task)]
    BY <1>t, <2>3, <2>4
  <2> QED
    BY <1>0, <1>7, <2>1, <2>2 DEF Enqueue, GoOn, bootvars, trapvars
<1>8. ASSUME NEW c \in CPU, NEW s \in Sem, SemSignal(c, s) PROVE TypeOK'
  <2>1. s \in Sems
    BY DEF Sems
  <2> QED
    BY <1>0, <1>a, <1>8, <2>1 DEF SemSignal, bootvars, trapvars
<1>9. ASSUME NEW c \in CPU, NEW ev \in {"YIELD", "IRQ_TIMER", "IRQ_IODEV"}, Trap(c, ev),
             irr' \in BOOLEAN, point' \in [CPU -> {"os_run", "idle", "wait", "yield", "zombie"}],
             at' \in [Task -> {"idle", "wait", "yield", "zombie"}]
      PROVE  TypeOK'
  BY <1>0, <1>9 DEF Trap, bootvars, semvars
<1>10. ASSUME NEW c \in CPU, Yield(c) PROVE TypeOK'
  <2>1. cur[c] # NULL => cur[c] \in Task /\ at[cur[c]] = point[c]
    BY <1>10, Own DEF Yield, IInv, CurInv
  <2>2. /\ point' \in [CPU -> {"os_run", "idle", "wait", "yield", "zombie"}]
        /\ at' \in [Task -> {"idle", "wait", "yield", "zombie"}]
    BY <1>0, <1>10, <2>1 DEF Yield, GoOn
  <2> QED
    BY <1>0, <1>9, <1>10, <2>2 DEF Yield
<1>11. ASSUME NEW c \in CPU, Timer(c) \/ Keyboard(c) PROVE TypeOK'
  BY <1>0, <1>9, <1>11 DEF Timer, Keyboard
<1>12. ASSUME NEW c \in CPU, TrapLock(c) PROVE TypeOK'
  <2> HIDE DEF TypeOK
  <2>1. /\ mode' = [mode EXCEPT ![c] = "save"]
        /\ rest' = [rest EXCEPT ![c] = {1, 3}] \/ rest' = [rest EXCEPT ![c] = {1, 2, 3}]
    BY <1>12, Locked
  <2>2. {1, 3} \in SUBSET (1..3) /\ {1, 2, 3} \in SUBSET (1..3)
    OBVIOUS
  <2>3. rest' \in [CPU -> SUBSET (1..3)]
    BY <1>0, <2>1, <2>2 DEF TypeOK
  <2>4. event' \in [CPU -> {NULL, "YIELD", "IRQ_TIMER", "IRQ_IODEV"}]
    BY <1>0, <1>12 DEF TypeOK, TrapLock
  <2>5. mode' \in [CPU -> {"boot", "run", "trap", "save", "notify", "switch", "scan",
                         "check", "unlock", "iret", "panic"}]
    BY <1>0, <2>1 DEF TypeOK
  <2>6. traplock' \in CPU \cup {NULL}
    BY <1>12 DEF TrapLock
  <2> QED
    BY <1>0, <1>12, <2>3, <2>4, <2>5, <2>6 DEF TypeOK, TrapLock, bootvars, semvars
<1>13. ASSUME NEW c \in CPU, Save(c) PROVE TypeOK'
  <2>1. cur[c] # NULL => cur[c] \in Task /\ at[cur[c]] = point[c]
    BY <1>13, Own DEF Save, IInv, CurInv
  <2>2. context' \in [Task -> {"idle", "wait", "yield", "zombie"}]
    BY <1>0, <1>13, <2>1 DEF Save, Saves
  <2> QED
    BY <1>0, <1>b, <1>13, <2>2 DEF Save, bootvars, semvars
<1>14. ASSUME NEW c \in CPU, Notify(c) PROVE TypeOK'
  <2>1. value[KBD] < MaxValue
    BY <1>14, Notified DEF Notify
  <2> QED
    BY <1>0, <1>a, <1>b, <1>14, <2>1, Numbers DEF Notify, bootvars
<1>15. ASSUME NEW c \in CPU, SwitchCurReady(c) PROVE TypeOK'
  BY <1>0, <1>b, <1>15 DEF SwitchCurReady, bootvars, semvars
<1>16. ASSUME NEW c \in CPU, SwitchScan(c) PROVE TypeOK'
  <2>1. first(c) \in 0..(NTASK - 1) /\ 0 \in 0..NTASK
    BY <1>16, Starts, Listed, Numbers DEF SwitchScan
  <2> QED
    BY <1>0, <1>16, <2>1, Numbers DEF SwitchScan, bootvars, semvars
<1>17. ASSUME NEW c \in CPU, ScanFound(c) PROVE TypeOK'
  <2>1. tl[c][ind[c] + 1] \in Task
    BY <1>0, <1>17, Listed DEF IInv, ScanInv, ScanFound
  <2>2. status' \in [Task -> {"READY", "RUNNING", "SUSPEND"}]
    BY <1>0, <1>17 DEF ScanFound, handover
  <2> QED
    BY <1>0, <1>17, <2>1, <2>2 DEF ScanFound, bootvars, semvars
<1>18. ASSUME NEW c \in CPU, ScanNext(c) PROVE TypeOK'
  <2>1. /\ Len(tl[c]) \in Nat /\ Len(tl[c]) >= 1 /\ Len(tl[c]) <= NTASK
        /\ findcnt[c] < Len(tl[c]) /\ findcnt[c] \in 0..NTASK /\ ind[c] \in 0..(NTASK - 1)
    BY <1>0, <1>18, Listed DEF IInv, ScanInv, ScanNext
  <2>2. findcnt[c] + 1 \in 0..NTASK /\ (ind[c] + 1) % Len(tl[c]) \in 0..(NTASK - 1)
    BY <2>1, Numbers
  <2> QED
    BY <1>0, <1>18, <2>2 DEF ScanNext, bootvars, semvars
<1>19. ASSUME NEW c \in CPU, SwitchCheck(c) PROVE TypeOK'
  <2>1. 0 \in 0..NTASK /\ 0 \in 0..(NTASK - 1)
    BY Numbers
  <2>2. /\ rest' \in [CPU -> SUBSET (1..3)]
        /\ mode' \in [CPU -> {"boot", "run", "trap", "save", "notify", "switch", "scan",
                              "check", "unlock", "iret", "panic"}]
    BY <1>0, <1>b, <1>19 DEF SwitchCheck
  <2>3. {traplock', tasklock'} \subseteq CPU \cup {NULL}
    BY <1>0, <1>19 DEF SwitchCheck
  <2> QED
    BY <1>0, <1>19, <2>1, <2>2, <2>3 DEF SwitchCheck, bootvars, semvars
<1>20. ASSUME NEW c \in CPU, TrapUnlock(c) PROVE TypeOK'
  BY <1>0, <1>20 DEF TrapUnlock, bootvars, semvars
<1>21. ASSUME NEW c \in CPU, Iret(c) PROVE TypeOK'
  <2>1. cur[c] \in Task
    BY <1>21, Own DEF Iret, IInv, CurInv
  <2> QED
    BY <1>0, <1>21, <2>1 DEF Iret, bootvars, semvars
<1>22. CASE UNCHANGED vars
  BY <1>0, <1>22 DEF vars
<1> HIDE DEF TypeOK
<1>23. ASSUME NEW c \in CPU, TaskStep(c) \/ TrapStep(c) PROVE TypeOK'
  BY <1>5, <1>6, <1>7, <1>8, <1>12, <1>13, <1>14, <1>15, <1>16, <1>17, <1>18, <1>19, <1>20, <1>21,
     <1>23 DEF TaskStep, TrapStep
<1> QED
  BY <1>1, <1>2, <1>3, <1>4, <1>10, <1>11, <1>22, <1>23 DEF Next, Boot

-----------------------------------------------------------------------------
(* What the steps of one CPU leave alone.                                    *)
CPUStep(c) == TaskStep(c) \/ Yield(c) \/ Timer(c) \/ Keyboard(c) \/ TrapStep(c)

Same(d) ==
  /\ mode'[d] = mode[d] /\ event'[d] = event[d] /\ rest'[d] = rest[d]
  /\ cur'[d] = cur[d] /\ stack'[d] = stack[d] /\ point'[d] = point[d]
  /\ ind'[d] = ind[d] /\ findcnt'[d] = findcnt[d]

LEMMA Frame ==
  ASSUME IInv, NEW c \in CPU, CPUStep(c)
  PROVE  /\ UNCHANGED bootvars
         /\ mode[c] # "boot" /\ mode'[c] # "boot"
         /\ \A d \in CPU : d # c => Same(d)
<1> USE DEF Same
<1>0. /\ mode \in [CPU -> {"boot", "run", "trap", "save", "notify", "switch", "scan", "check",
                           "unlock", "iret", "panic"}]
      /\ event \in [CPU -> {NULL, "YIELD", "IRQ_TIMER", "IRQ_IODEV"}]
      /\ rest \in [CPU -> SUBSET (1..3)] /\ cur \in [CPU -> Task \cup {NULL}]
      /\ stack \in [CPU -> Task \cup {NULL}] /\ ind \in [CPU -> 0..(NTASK - 1)]
      /\ findcnt \in [CPU -> 0..NTASK]
      /\ point \in [CPU -> {"os_run", "idle", "wait", "yield", "zombie"}]
  BY DEF IInv, TypeOK
<1> DEFINE P == /\ UNCHANGED bootvars
                /\ mode[c] # "boot" /\ mode'[c] # "boot"
                /\ \A d \in CPU : d # c => Same(d)
<1> SUFFICES P
  OBVIOUS
<1>a. ASSUME Returns(c), mode[c] \in {"save", "notify", "switch", "check"}
      PROVE  mode'[c] # "boot" /\ \A d \in CPU : d # c => mode'[d] = mode[d] /\ rest'[d] = rest[d]
  BY <1>0, <1>a, Returned
<1>1. ASSUME NEW s \in Sems, SemWait(c, s) PROVE P
  BY <1>0, <1>1 DEF SemWait, Runs, GoOn, trapvars
<1>2. CASE Take(c)
  BY <1>0, <1>2 DEF Take, Runs, GoOn, trapvars
<1>3. CASE Enqueue(c)
  BY <1>0, <1>3 DEF Enqueue, Runs, GoOn, trapvars
<1>4. ASSUME NEW s \in Sem, SemSignal(c, s) PROVE P
  BY <1>0, <1>4 DEF SemSignal, Runs, trapvars
<1>5. CASE Yield(c)
  BY <1>0, <1>5 DEF Yield, Trap, GoOn
<1>6. CASE Timer(c) \/ Keyboard(c)
  BY <1>0, <1>6 DEF Timer, Keyboard, Trap
<1>7. CASE TrapLock(c)
  <2>1. mode' = [mode EXCEPT ![c] = "save"]
    BY <1>7, Locked
  <2> QED
    BY <1>0, <1>7, <2>1 DEF TrapLock
<1>8. CASE Save(c)
  BY <1>0, <1>a, <1>8 DEF Save
<1>9. CASE Notify(c)
  BY <1>0, <1>a, <1>9 DEF Notify
<1>10. CASE SwitchCurReady(c)
  BY <1>0, <1>a, <1>10 DEF SwitchCurReady
<1>11. CASE SwitchScan(c)
  BY <1>0, <1>11 DEF SwitchScan
<1>12. CASE ScanFound(c)
  BY <1>0, <1>12 DEF ScanFound
<1>13. CASE ScanNext(c)
  BY <1>0, <1>13 DEF ScanNext
<1>14. CASE SwitchCheck(c)
  BY <1>0, <1>a, <1>14 DEF SwitchCheck
<1>15. CASE TrapUnlock(c)
  BY <1>0, <1>15 DEF TrapUnlock
<1>16. CASE Iret(c)
  BY <1>0, <1>16 DEF Iret
<1> HIDE DEF P
<1>17. CASE TaskStep(c)
  BY <1>1, <1>2, <1>3, <1>4, <1>17 DEF TaskStep
<1>18. CASE TrapStep(c)
  BY <1>7, <1>8, <1>9, <1>10, <1>11, <1>12, <1>13, <1>14, <1>15, <1>16, <1>18 DEF TrapStep
<1> QED
  BY <1>5, <1>6, <1>17, <1>18 DEF CPUStep

(* The boot, and the deal of the tasks.                                      *)
LEMMA NextBootInv == IInv /\ [Next]_vars => BootInv'
<1> SUFFICES ASSUME IInv, [Next]_vars PROVE BootInv'
  OBVIOUS
<1>0. Len(Registrations) = 3 /\ Len(Sorted) = 3 /\ created \in Nat
  BY DEF Registrations, Sorted, IInv, TypeOK
<1>1. CASE OnIrq
  <2>1. /\ handlers' = insert(Registrations[Len(handlers) + 1]) /\ Len(handlers) < 3
        /\ \/ handlers = <<>> \/ handlers = <<Registrations[1]>>
           \/ handlers = <<Registrations[1], Registrations[2]>> \/ handlers = Sorted
    BY <1>0, <1>1 DEF OnIrq, IInv, BootInv
  <2>2. created = 0 /\ created' = created /\ UNCHANGED mode
    <3>1. handlers # Sorted
      BY <1>0, <2>1
    <3>2. created > 0 => handlers = Sorted
      BY DEF IInv, BootInv
    <3>3. created' = created /\ UNCHANGED mode
      BY <1>1 DEF OnIrq, trapvars
    <3> QED
      BY <1>0, <3>1, <3>2, <3>3
  <2>3. /\ \/ handlers' = <<>> \/ handlers' = <<Registrations[1]>>
           \/ handlers' = <<Registrations[1], Registrations[2]>> \/ handlers' = Sorted
    <3>1. CASE handlers = <<>>
      BY <2>1, <3>1, Inserted
    <3>2. CASE handlers = <<Registrations[1]>>
      BY <2>1, <3>2, Inserted
    <3>3. CASE handlers = <<Registrations[1], Registrations[2]>>
      BY <2>1, <3>3, Inserted
    <3> QED
      BY <1>0, <2>1, <3>1, <3>2, <3>3
  <2> QED
    BY <2>2, <2>3 DEF IInv, BootInv, Booting
<1>2. CASE Create
  <2>1. handlers = Sorted
    <3>1. Len(handlers) = 3
      BY <1>0, <1>2 DEF Create
    <3>2. \/ handlers = <<>> \/ handlers = <<Registrations[1]>>
          \/ handlers = <<Registrations[1], Registrations[2]>> \/ handlers = Sorted
      BY DEF IInv, BootInv
    <3>3. handlers # <<>>
      BY <3>1
    <3>4. handlers # <<Registrations[1]>>
      BY <3>1
    <3>5. handlers # <<Registrations[1], Registrations[2]>>
      BY <3>1
    <3> QED
      BY <3>2, <3>3, <3>4, <3>5
  <2>2. handlers' = handlers /\ mode' = mode /\ Booting
    BY <1>0, <1>2 DEF Create, IInv, BootInv, trapvars
  <2> QED
    BY <2>1, <2>2 DEF BootInv, Booting
<1>3. CASE Start
  BY <1>3 DEF Start, bootvars, IInv, BootInv, Booting
<1>4. CASE Press \/ UNCHANGED vars
  BY <1>4 DEF Press, vars, bootvars, trapvars, IInv, BootInv, Booting
<1>5. ASSUME NEW c \in CPU, CPUStep(c) PROVE BootInv'
  <2>1. UNCHANGED bootvars /\ mode'[c] # "boot" /\ \A d \in CPU : d # c => mode'[d] = mode[d]
    BY <1>5, Frame DEF Same
  <2>2. created = NTASK /\ handlers = Sorted /\ \A d \in CPU : mode[d] # "boot"
    BY <1>5, Frame, Booted
  <2> QED
    BY <2>1, <2>2 DEF BootInv, bootvars
<1> QED
  BY <1>1, <1>2, <1>3, <1>4, <1>5 DEF Next, Boot, CPUStep

LEMMA NextListInv == IInv /\ [Next]_vars => ListInv'
<1> SUFFICES ASSUME IInv, [Next]_vars PROVE ListInv'
  OBVIOUS
<1>1. CASE Create
  <2> DEFINE u == created + 1
  <2>0. /\ NCPU \in Nat \ {0} /\ created \in Nat /\ created < NTASK /\ tidcnt = created % NCPU
        /\ tidcnt \in CPU /\ tl \in [CPU -> Seq(Task)] /\ u \in Task
    <3>1. NCPU \in Nat \ {0} /\ created \in 0..NTASK /\ created < NTASK /\ NTASK \in Nat
      BY <1>1, Numbers DEF IInv, TypeOK, Create
    <3>2. tidcnt = created % NCPU /\ tidcnt \in CPU /\ tl \in [CPU -> Seq(Task)]
      BY DEF IInv, TypeOK, ListInv
    <3> QED
      BY <3>1, <3>2 DEF Task
  <2>1. tidcnt' = (created + 1) % NCPU
    <3>1. tidcnt' = ((created % NCPU) + 1) % NCPU
      BY <1>1, <2>0 DEF Create
    <3> QED
      BY <2>0, <3>1, NextRemainder
  <2>2. ASSUME NEW c \in CPU
        PROVE  /\ tl'[c] = IF c = tidcnt THEN Append(tl[c], u) ELSE tl[c]
               /\ Len(tl'[c]) = IF c = tidcnt THEN Len(tl[c]) + 1 ELSE Len(tl[c])
               /\ \A t \in Task : On(c, t)' <=> On(c, t) \/ (c = tidcnt /\ t = u)
    <3>1. tl'[c] = IF c = tidcnt THEN Append(tl[c], u) ELSE tl[c]
      BY <1>1, <2>0 DEF Create, deal
    <3>2. /\ tl[c] \in Seq(Task) /\ Len(tl[c]) \in Nat /\ Len(Append(tl[c], u)) = Len(tl[c]) + 1
          /\ \A i \in 1..Len(tl[c]) : Append(tl[c], u)[i] = tl[c][i]
          /\ Append(tl[c], u)[Len(tl[c]) + 1] = u
      BY <2>0, LenProperties, AppendProperties
    <3> HIDE DEF u
    <3>3. CASE c # tidcnt
      BY <3>1, <3>3 DEF On
    <3>4. CASE c = tidcnt
      <4> DEFINE n == Len(tl[c])
      <4>1. n \in Nat /\ 1..(n + 1) = (1..n) \cup {n + 1}
        BY <3>2
      <4>2. /\ Len(tl'[c]) = n + 1 /\ \A i \in 1..n : tl'[c][i] = tl[c][i]
            /\ tl'[c][n + 1] = u
        BY <3>1, <3>2, <3>4
      <4>3. ASSUME NEW t \in Task PROVE On(c, t)' <=> On(c, t) \/ t = u
        <5>1. On(c, t)' <=> \E i \in (1..n) \cup {n + 1} : tl'[c][i] = t
          BY <4>1, <4>2 DEF On
        <5>2. On(c, t) <=> \E i \in 1..n : tl[c][i] = t
          BY DEF On
        <5> HIDE DEF n
        <5> QED
          BY <4>2, <5>1, <5>2
      <4> QED
        BY <3>1, <3>4, <4>2, <4>3
    <3> QED
      BY <3>3, <3>4
  <2>3. created' = u /\ \A c \in CPU : Len(tl[c]) \in Nat
    BY <1>1, <2>0, LenProperties DEF Create
  <2>4. \A c \in CPU : Len(tl'[c]) <= created'
    BY <2>0, <2>2, <2>3 DEF IInv, ListInv
  <2>5. ASSUME NEW c \in CPU, NEW t \in Task
        PROVE  On(c, t)' <=> t <= created' /\ (t - 1) % NCPU = c
    <3>1. On(c, t) <=> t <= created /\ (t - 1) % NCPU = c
      BY DEF IInv, ListInv
    <3>2. On(c, t)' <=> On(c, t) \/ (c = tidcnt /\ t = u)
      BY <2>2
    <3>3. t <= created' <=> t <= created \/ t = u
      BY <2>0, <2>3, Numbers
    <3>4. t = u => (t - 1) % NCPU = tidcnt
      BY <2>0
    <3> QED
      BY <2>0, <3>1, <3>2, <3>3, <3>4
  <2> QED
    BY <2>1, <2>3, <2>4, <2>5 DEF ListInv
<1>2. ASSUME UNCHANGED <<tl, tidcnt, created>> PROVE ListInv'
  BY <1>2 DEF IInv, ListInv, On
<1>3. CASE OnIrq \/ Start \/ Press \/ UNCHANGED vars
  BY <1>2, <1>3 DEF OnIrq, Start, Press, vars, bootvars
<1>4. ASSUME NEW c \in CPU, CPUStep(c) PROVE ListInv'
  BY <1>2, <1>4, Frame DEF bootvars
<1> QED
  BY <1>1, <1>3, <1>4 DEF Next, Boot, CPUStep

-----------------------------------------------------------------------------
(* The trap handlers, the keyboard and the scan.                             *)

Modes == {"boot", "run", "trap", "save", "notify", "switch", "scan", "check", "unlock", "iret",
          "panic"}

(* The boot registers and creates before any CPU starts.                     *)
LEMMA StillBooting ==
  ASSUME IInv, OnIrq \/ Create
  PROVE  Booting /\ UNCHANGED mode
<1>1. CASE OnIrq
  <2>1. Len(Sorted) = 3 /\ Len(handlers) < 3
    BY <1>1 DEF OnIrq, Registrations, Sorted
  <2>2. handlers # Sorted
    BY <2>1
  <2>3. created # NTASK
    BY <2>2, Numbers DEF IInv, BootInv, TypeOK
  <2> QED
    BY <1>1, <2>3 DEF IInv, BootInv, OnIrq, trapvars
<1>2. CASE Create
  <2>1. created # NTASK
    BY <1>2, Numbers DEF IInv, TypeOK, Create
  <2> QED
    BY <1>2, <2>1 DEF IInv, BootInv, Create, trapvars
<1> QED
  BY <1>1, <1>2

(* What boot steps, Press and stuttering leave alone, Start's modes apart.   *)
LEMMA Quiet ==
  ASSUME OnIrq \/ Create \/ Start \/ Press \/ UNCHANGED vars
  PROVE  /\ UNCHANGED <<status, context, cur, event, rest, point, stack, ind, findcnt, value, wl,
                        waitsem, at>>
         /\ ~Start => UNCHANGED mode
         /\ ~Press => UNCHANGED irr
BY DEF OnIrq, Create, Start, Press, vars, bootvars, trapvars, semvars

LEMMA NextWalkInv == IInv /\ [Next]_vars => \A c \in CPU : WalkInv(c)'
<1> SUFFICES ASSUME IInv, [Next]_vars, NEW d \in CPU PROVE WalkInv(d)'
  OBVIOUS
<1>0. /\ WalkInv(d) /\ mode \in [CPU -> Modes] /\ rest \in [CPU -> SUBSET (1..3)]
      /\ event \in [CPU -> {NULL, "YIELD", "IRQ_TIMER", "IRQ_IODEV"}]
      /\ NULL # "YIELD" /\ NULL # "IRQ_TIMER" /\ NULL # "IRQ_IODEV"
  BY KmtAssumption DEF IInv, TypeOK, Modes
<1>1. CASE OnIrq \/ Create \/ Press \/ UNCHANGED vars
  <2>1. UNCHANGED <<mode, event, rest>>
    BY <1>1 DEF OnIrq, Create, Press, vars, trapvars
  <2> QED
    BY <1>0, <2>1 DEF WalkInv
<1>2. CASE Start
  BY <1>0, <1>2 DEF Start, WalkInv
<1>3. ASSUME NEW c \in CPU, CPUStep(c), c # d PROVE WalkInv(d)'
  <2>1. Same(d)
    BY <1>3, Frame
  <2> QED
    BY <1>0, <2>1 DEF WalkInv, Same
<1>4. CASE TaskStep(d)
  <2>1. UNCHANGED <<mode, event, rest>>
    BY <1>4 DEF TaskStep, SemWait, Take, Enqueue, SemSignal, trapvars
  <2> QED
    BY <1>0, <2>1 DEF WalkInv
<1>5. CASE Yield(d) \/ Timer(d) \/ Keyboard(d)
  BY <1>0, <1>5 DEF Yield, Timer, Keyboard, Trap, WalkInv
<1>6. CASE TrapLock(d)
  <2>1. mode'[d] = "save" /\ rest'[d] \in {{1, 3}, {1, 2, 3}} /\ event'[d] = NULL
    BY <1>0, <1>6, Locked DEF TrapLock
  <2> QED
    BY <2>1 DEF WalkInv
<1>7. ASSUME Returns(d), UNCHANGED event, mode[d] \in {"save", "notify", "switch", "check"}
      PROVE  WalkInv(d)'
  <2>1. event'[d] = NULL
    BY <1>0, <1>7 DEF WalkInv
  <2>2. \/ mode'[d] = "switch" /\ rest'[d] = {3}
        \/ mode'[d] = "notify" /\ rest'[d] = {2, 3}
        \/ mode'[d] = "unlock" /\ rest'[d] = {}
    BY <1>0, <1>7, Returned
  <2> QED
    BY <2>1, <2>2 DEF WalkInv
<1>8. CASE Save(d) \/ Notify(d) \/ SwitchCurReady(d)
  BY <1>7, <1>8 DEF Save, Notify, SwitchCurReady
<1>9. CASE SwitchScan(d) \/ ScanFound(d) \/ ScanNext(d)
  <2>1. /\ mode[d] \in {"switch", "scan"} /\ mode'[d] \in {"scan", "check"}
        /\ rest' = rest /\ event' = event
    BY <1>0, <1>9 DEF SwitchScan, ScanFound, ScanNext
  <2> QED
    BY <1>0, <2>1 DEF WalkInv
<1>10. CASE SwitchCheck(d)
  <2>1. cur[d] # NULL /\ status[cur[d]] = "RUNNING"
    BY <1>10 DEF SwitchCheck, IInv, CurInv
  <2>2. AssertsHold(d)
    BY <2>1 DEF AssertsHold, curstatus
  <2> QED
    BY <1>7, <1>10, <2>2 DEF SwitchCheck
<1>11. CASE TrapUnlock(d) \/ Iret(d)
  BY <1>0, <1>11 DEF TrapUnlock, Iret, WalkInv
<1>12. CASE TrapStep(d)
  BY <1>6, <1>8, <1>9, <1>10, <1>11, <1>12 DEF TrapStep
<1> QED
  BY <1>1, <1>2, <1>3, <1>4, <1>5, <1>12 DEF Next, Boot, CPUStep

LEMMA NextScanInv == IInv /\ [Next]_vars => \A c \in CPU : ScanInv(c)'
<1> SUFFICES ASSUME IInv, [Next]_vars, NEW d \in CPU PROVE ScanInv(d)'
  OBVIOUS
<1>0. /\ ScanInv(d) /\ mode \in [CPU -> Modes] /\ ind \in [CPU -> 0..(NTASK - 1)]
      /\ findcnt \in [CPU -> 0..NTASK] /\ cur \in [CPU -> Task \cup {NULL}]
  BY DEF IInv, TypeOK, Modes
<1>1. CASE OnIrq \/ Create \/ Start
  <2>1. mode'[d] \in {"boot", "run"}
    BY <1>1, StillBooting DEF Start, Booting
  <2> QED
    BY <2>1 DEF ScanInv
<1>2. CASE Press \/ UNCHANGED vars
  BY <1>0, <1>2 DEF Press, vars, bootvars, trapvars, ScanInv, Ahead
<1>3. ASSUME NEW c \in CPU, CPUStep(c), c # d PROVE ScanInv(d)'
  <2>1. Same(d) /\ tl' = tl
    BY <1>3, Frame DEF bootvars
  <2> QED
    BY <1>0, <2>1 DEF ScanInv, Same, Ahead
<1>4. CASE TaskStep(d) \/ Yield(d) \/ Timer(d) \/ Keyboard(d)
  <2>1. mode'[d] # "scan"
    BY <1>0, <1>4 DEF TaskStep, SemWait, Take, Enqueue, SemSignal, Runs, Yield, Timer, Keyboard,
                      Trap, trapvars
  <2> QED
    BY <2>1 DEF ScanInv
<1>5. CASE TrapLock(d)
  BY <1>0, <1>5, Locked DEF ScanInv
<1>6. ASSUME Returns(d), mode[d] \in {"save", "notify", "switch", "check"} PROVE ScanInv(d)'
  BY <1>0, <1>6, Returned DEF ScanInv
<1>7. CASE Save(d) \/ Notify(d) \/ SwitchCurReady(d)
  BY <1>6, <1>7 DEF Save, Notify, SwitchCurReady
<1>8. CASE SwitchScan(d)
  <2>1. /\ ind'[d] \in 0..(Len(tl[d]) - 1) /\ findcnt'[d] = 0 /\ tl' = tl
        /\ Len(tl[d]) \in Nat /\ Len(tl[d]) >= 1
    BY <1>0, <1>8, Starts, Listed DEF SwitchScan, bootvars
  <2> QED
    BY <2>1 DEF ScanInv, Ahead
<1>9. CASE ScanFound(d) \/ TrapUnlock(d) \/ Iret(d)
  BY <1>0, <1>9 DEF ScanFound, TrapUnlock, Iret, ScanInv
<1>10. CASE ScanNext(d)
  <2> DEFINE n == Len(tl[d])
  <2>1. /\ mode[d] = "scan" /\ tl' = tl /\ cur' = cur
        /\ status[tl[d][ind[d] + 1]] # "READY" /\ findcnt'[d] = findcnt[d] + 1
        /\ n \in Nat /\ ind[d] \in Nat /\ ind[d] < n /\ findcnt[d] \in Nat /\ findcnt[d] < n
    BY <1>0, <1>10, Listed DEF ScanNext, bootvars, ScanInv
  <2>2. CASE findcnt[d] + 1 = n
    BY <1>0, <1>10, <2>2 DEF ScanNext, ScanInv
  <2>3. CASE findcnt[d] + 1 # n
    <3>1. ind'[d] = (ind[d] + 1) % n /\ mode'[d] = "scan"
      BY <1>0, <1>10, <2>3 DEF ScanNext
    <3>2. ind'[d] = IF ind[d] + 1 = n THEN 0 ELSE ind[d] + 1
      <4>1. CASE ind[d] + 1 = n
        BY <2>1, <3>1, <4>1
      <4>2. CASE ind[d] + 1 < n
        <5> DEFINE x == ind[d] + 1
        <5>1. x \in Nat /\ x \in 0..(n - 1) /\ n \in Nat \ {0} /\ x = n * 0 + x
          BY <2>1, <4>2
        <5> HIDE DEF x, n
        <5>2. x % n = x
          BY <5>1, Remainder
        <5> QED
          BY <3>1, <4>2, <5>1, <5>2 DEF x
      <4> QED
        BY <2>1, <4>1, <4>2
    <3>3. ASSUME NEW p \in 1..n, tl[d][p] \in Zombie, tl[d][p] # cur[d]
          PROVE  Ahead(d, p)' + findcnt'[d] < n
      <4>1. status[tl[d][p]] = "READY"
        BY <2>1, <3>3, Listed, ZombieReady
      <4>2. p # ind[d] + 1
        BY <2>1, <4>1
      <4>3. Ahead(d, p) + findcnt[d] < n
        BY <1>0, <2>1, <3>3 DEF ScanInv
      <4>4. Ahead(d, p)' = Ahead(d, p) - 1
        <5>1. /\ Ahead(d, p)' = IF p > ind'[d] THEN p - 1 - ind'[d] ELSE p - 1 - ind'[d] + n
              /\ Ahead(d, p) = IF p > ind[d] THEN p - 1 - ind[d] ELSE p - 1 - ind[d] + n
          BY <2>1 DEF Ahead
        <5> HIDE DEF n
        <5> QED
          BY <2>1, <3>2, <4>2, <5>1
      <4>5. Ahead(d, p) \in Int
        BY <2>1 DEF Ahead
      <4> QED
        BY <2>1, <4>3, <4>4, <4>5
    <3>4. ind'[d] < n /\ findcnt'[d] < n
      BY <2>1, <2>3, <3>2
    <3> QED
      BY <2>1, <3>3, <3>4 DEF ScanInv
  <2> QED
    BY <2>2, <2>3
<1>11. CASE SwitchCheck(d)
  <2>1. cur[d] # NULL /\ status[cur[d]] = "RUNNING"
    BY <1>11 DEF SwitchCheck, IInv, CurInv
  <2>2. AssertsHold(d)
    BY <2>1 DEF AssertsHold, curstatus
  <2> QED
    BY <1>6, <1>11, <2>2 DEF SwitchCheck
<1>12. CASE TrapStep(d)
  BY <1>5, <1>7, <1>8, <1>9, <1>10, <1>11, <1>12 DEF TrapStep
<1> QED
  BY <1>1, <1>2, <1>3, <1>4, <1>12 DEF Next, Boot, CPUStep

LEMMA NextKbdInv == IInv /\ [Next]_vars => KbdInv'
<1> SUFFICES ASSUME IInv, [Next]_vars PROVE KbdInv'
  OBVIOUS
<1>0. /\ KbdInv /\ 0 \in CPU /\ KBD \in Sems /\ mode \in [CPU -> Modes]
      /\ rest \in [CPU -> SUBSET (1..3)] /\ value \in [Sems -> 0..MaxValue] /\ irr \in BOOLEAN
      /\ event \in [CPU -> {NULL, "YIELD", "IRQ_TIMER", "IRQ_IODEV"}]
      /\ NULL \notin {"IRQ_IODEV"} /\ MaxValue \in Nat
  BY Numbers, KmtAssumption DEF IInv, TypeOK, Modes
<1>1. ASSUME UNCHANGED <<event, rest, irr>>, value'[KBD] \in Int, value'[KBD] <= value[KBD]
      PROVE  KbdInv'
  <2>1. value[KBD] < MaxValue => value'[KBD] < MaxValue
    BY <1>0, <1>1
  <2> QED
    BY <1>0, <1>1, <2>1 DEF KbdInv
<1>2. CASE OnIrq \/ Create \/ Start \/ UNCHANGED vars
  <2>1. UNCHANGED <<event, rest, irr, value>>
    BY <1>2 DEF OnIrq, Create, Start, vars, trapvars, semvars
  <2> QED
    BY <1>0, <1>1, <2>1
<1>3. CASE Press
  <2>1. 2 \notin rest[0]
    <3>1. rest[0] # {} => handlers = Sorted
      BY <1>0, Booted DEF IInv, WalkInv
    <3> QED
      BY <1>0, <1>3, <3>1, Walk DEF Press
  <2> QED
    BY <1>0, <1>3, <2>1 DEF Press, trapvars, semvars, KbdInv
<1>4. ASSUME NEW c \in CPU, NEW s \in Sems, SemWait(c, s) PROVE KbdInv'
  BY <1>0, <1>1, <1>4 DEF SemWait, trapvars, semvars
<1>5. ASSUME NEW c \in CPU, Take(c) PROVE KbdInv'
  <2>1. waitsem[cur[c]] \in Sems /\ value[waitsem[cur[c]]] \in Int
    BY <1>0, <1>5, Executing DEF Take, Runs
  <2>2. value'[KBD] \in Int /\ value'[KBD] <= value[KBD]
    BY <1>0, <1>5, <2>1 DEF Take
  <2> QED
    BY <1>1, <1>5, <2>2 DEF Take, trapvars
<1>6. ASSUME NEW c \in CPU, Enqueue(c) PROVE KbdInv'
  BY <1>0, <1>1, <1>6 DEF Enqueue, trapvars
<1>7. ASSUME NEW c \in CPU, NEW s \in Sem, SemSignal(c, s) PROVE KbdInv'
  <2>1. s # KBD /\ s \in Sems
    BY KmtAssumption DEF Sems
  <2> QED
    BY <1>0, <1>1, <1>7, <2>1 DEF SemSignal, semsignal, trapvars
<1>8. ASSUME NEW c \in CPU, Yield(c) \/ Timer(c) PROVE KbdInv'
  BY <1>0, <1>8 DEF Yield, Timer, Trap, semvars, KbdInv
<1>9. ASSUME NEW c \in CPU, Keyboard(c) PROVE KbdInv'
  BY <1>0, <1>9 DEF Keyboard, Trap, semvars, KbdInv
<1>10. ASSUME NEW c \in CPU, TrapLock(c) PROVE KbdInv'
  <2>1. /\ event' = [event EXCEPT ![c] = NULL] /\ irr' = irr /\ value' = value
    BY <1>10 DEF TrapLock, semvars
  <2>2. \A d \in CPU : d # c => rest'[d] = rest[d]
    BY <1>0, <1>10 DEF TrapLock
  <2>3. 2 \in rest'[c] => event[c] = "IRQ_IODEV"
    <3>1. 2 \notin {1, 3}
      OBVIOUS
    <3> QED
      BY <1>0, <1>10, <3>1, Locked
  <2> QED
    BY <1>0, <2>1, <2>2, <2>3 DEF KbdInv
<1>11. ASSUME NEW c \in CPU, Save(c) \/ SwitchCurReady(c) \/ SwitchCheck(c) PROVE KbdInv'
  <2>1. Returns(c) => \A d \in CPU : 2 \in rest'[d] => 2 \in rest[d]
    BY <1>0, <1>11, Returned DEF Save, SwitchCurReady, SwitchCheck
  <2>2. /\ event' = event /\ irr' = irr /\ value' = value
        /\ \A d \in CPU : 2 \in rest'[d] => 2 \in rest[d]
    BY <1>11, <2>1 DEF Save, SwitchCurReady, SwitchCheck, semvars
  <2> QED
    BY <1>0, <2>2 DEF KbdInv
<1>12. ASSUME NEW c \in CPU, Notify(c) PROVE KbdInv'
  <2>1. c = 0 /\ 2 \in rest[0] /\ ~irr /\ event[0] = NULL
    BY <1>0, <1>12, Notified DEF Notify, IInv, WalkInv
  <2>2. 2 \notin rest'[0] /\ \A d \in CPU : d # 0 => rest'[d] = rest[d]
    BY <1>0, <1>12, <2>1, Returned DEF Notify
  <2>3. event' = event /\ irr' = irr
    BY <1>12 DEF Notify
  <2> QED
    BY <1>0, <2>1, <2>2, <2>3 DEF KbdInv
<1>13. ASSUME NEW c \in CPU, SwitchScan(c) \/ ScanFound(c) \/ ScanNext(c) \/ TrapUnlock(c) \/ Iret(c)
       PROVE  KbdInv'
  <2>1. UNCHANGED <<event, rest, irr, value>>
    BY <1>13 DEF SwitchScan, ScanFound, ScanNext, TrapUnlock, Iret, semvars
  <2> QED
    BY <1>0, <1>1, <2>1
<1>14. ASSUME NEW c \in CPU, TaskStep(c) \/ TrapStep(c) PROVE KbdInv'
  BY <1>4, <1>5, <1>6, <1>7, <1>10, <1>11, <1>12, <1>13, <1>14 DEF TaskStep, TrapStep
<1> QED
  BY <1>2, <1>3, <1>8, <1>9, <1>14 DEF Next, Boot

-----------------------------------------------------------------------------
(* The tasks, and the CPUs that execute them.                                *)

(* A step of CPU c leaves the tasks alone that are not, and do not become,   *)
(* its current one, but that it may wake one of them.                        *)
Untouched(t) ==
  /\ context'[t] = context[t] /\ at'[t] = at[t] /\ waitsem'[t] = waitsem[t]
  /\ status'[t] = status[t] \/ (status[t] = "SUSPEND" /\ status'[t] = "READY")

(* semsignal wakes suspended tasks only.                                     *)
LEMMA SignalWakes ==
  ASSUME IInv, NEW s \in Sems, semsignal(s), NEW t \in Task
  PROVE  status'[t] = status[t] \/ (status[t] = "SUSPEND" /\ status'[t] = "READY")
<1>0. status \in [Task -> {"READY", "RUNNING", "SUSPEND"}]
  BY DEF IInv, TypeOK
<1>1. CASE wl[s] # <<>>
  BY <1>0, <1>1, Waiter DEF semsignal, Wakes
<1>2. CASE wl[s] = <<>>
  BY <1>2 DEF semsignal, Wakes
<1> QED
  BY <1>1, <1>2

LEMMA TaskFrame ==
  ASSUME IInv, NEW c \in CPU, CPUStep(c), NEW t \in Task, t # cur[c], t # cur'[c]
  PROVE  Untouched(t)
<1> USE DEF Untouched
<1>0. /\ status \in [Task -> {"READY", "RUNNING", "SUSPEND"}]
      /\ context \in [Task -> {"idle", "wait", "yield", "zombie"}]
      /\ at \in [Task -> {"idle", "wait", "yield", "zombie"}]
      /\ waitsem \in [Task -> Sems \cup {NULL}] /\ cur \in [CPU -> Task \cup {NULL}]
  BY DEF IInv, TypeOK
<1>1. ASSUME NEW s \in Sems, SemWait(c, s) PROVE Untouched(t)
  BY <1>0, <1>1 DEF SemWait, GoOn
<1>2. CASE Take(c)
  BY <1>0, <1>2 DEF Take, GoOn
<1>3. CASE Enqueue(c)
  BY <1>0, <1>3 DEF Enqueue, GoOn
<1>4. ASSUME NEW s \in Sem, SemSignal(c, s) PROVE Untouched(t)
  BY <1>0, <1>4, SignalWakes DEF SemSignal, Sems
<1>5. CASE Yield(c) \/ Timer(c) \/ Keyboard(c)
  BY <1>0, <1>5 DEF Yield, Timer, Keyboard, Trap, GoOn
<1>6. CASE TrapLock(c) \/ SwitchScan(c) \/ ScanNext(c) \/ SwitchCheck(c) \/ TrapUnlock(c) \/ Iret(c)
  BY <1>6 DEF TrapLock, SwitchScan, ScanNext, SwitchCheck, TrapUnlock, Iret
<1>7. CASE Save(c)
  BY <1>0, <1>7 DEF Save, Saves
<1>8. CASE Notify(c)
  BY <1>0, <1>8, SignalWakes, Numbers DEF Notify
<1>9. CASE SwitchCurReady(c)
  BY <1>0, <1>9 DEF SwitchCurReady
<1>10. CASE ScanFound(c)
  <2>1. cur'[c] = tl[c][ind[c] + 1]
    BY <1>0, <1>10 DEF ScanFound
  <2> QED
    BY <1>0, <1>10, <2>1 DEF ScanFound, handover
<1>11. CASE TaskStep(c)
  BY <1>1, <1>2, <1>3, <1>4, <1>11 DEF TaskStep
<1>12. CASE TrapStep(c)
  BY <1>6, <1>7, <1>8, <1>9, <1>10, <1>12 DEF TrapStep
<1> QED
  BY <1>5, <1>11, <1>12 DEF CPUStep

(* The current task changes by a successful scan only, to one of the CPU's.  *)
LEMMA NewCurrent ==
  ASSUME IInv, NEW c \in CPU, CPUStep(c)
  PROVE  \/ cur'[c] = cur[c]
         \/ ScanFound(c) /\ cur'[c] \in Task /\ On(c, cur'[c])
<1>1. CASE ScanFound(c)
  <2>1. cur'[c] = tl[c][ind[c] + 1] /\ mode[c] = "scan"
    BY <1>1 DEF ScanFound, IInv, TypeOK
  <2>2. ind[c] + 1 \in 1..Len(tl[c])
    <3>1. ind[c] \in Nat /\ ind[c] < Len(tl[c]) /\ Len(tl[c]) \in Nat
      BY <2>1, Listed, Numbers DEF IInv, TypeOK, ScanInv
    <3> QED
      BY <3>1
  <2> QED
    BY <1>1, <2>1, <2>2, Listed
<1>2. CASE TrapStep(c) /\ ~ScanFound(c)
  BY <1>2 DEF TrapStep, TrapLock, Save, Notify, SwitchCurReady, SwitchScan, ScanNext, SwitchCheck,
              TrapUnlock, Iret
<1>3. CASE TaskStep(c) \/ Yield(c) \/ Timer(c) \/ Keyboard(c)
  BY <1>3 DEF TaskStep, SemWait, Take, Enqueue, SemSignal, Yield, Timer, Keyboard, Trap
<1> QED
  BY <1>1, <1>2, <1>3 DEF CPUStep

(* What a step of c means for the other CPUs.                                *)
LEMMA OtherCPUs ==
  ASSUME IInv, NEW c \in CPU, CPUStep(c), NEW d \in CPU, d # c
  PROVE  /\ CurInv(d)'
         /\ cur[d] # NULL => cur[d] # cur[c] /\ cur[d] # cur'[c] /\ cur'[d] = cur[d]
<1>0. Same(d) /\ tl' = tl /\ CurInv(d)
  BY Frame DEF bootvars, IInv
<1>1. cur[d] # NULL => cur[d] \in Task /\ On(d, cur[d]) /\ cur[d] # cur[c]
  BY Own
<1>2. cur[d] # NULL => cur[d] # cur'[c]
  <2>1. CASE cur'[c] = cur[c]
    BY <1>1, <2>1
  <2>2. CASE cur'[c] \in Task /\ On(c, cur'[c])
    BY <1>1, <2>2, Disjoint DEF IInv
  <2> QED
    BY <2>1, <2>2, NewCurrent
<1>3. cur[d] # NULL => Untouched(cur[d])
  BY <1>1, <1>2, TaskFrame
<1>4. \A u : On(d, u)' <=> On(d, u)
  BY <1>0 DEF On
<1>5. CurInv(d)'
  <2>1. CASE cur[d] = NULL
    BY <1>0, <1>4, <2>1 DEF CurInv, Same
  <2>2. CASE cur[d] # NULL
    <3>1. /\ cur'[d] = cur[d] /\ at'[cur[d]] = at[cur[d]]
          /\ status[cur[d]] = "RUNNING" => status'[cur[d]] = "RUNNING"
      BY <1>0, <1>3, <2>2 DEF Same, Untouched
    <3> QED
      BY <1>0, <1>4, <2>2, <3>1 DEF CurInv, Same
  <2> QED
    BY <2>1, <2>2
<1> QED
  BY <1>0, <1>1, <1>2, <1>5 DEF Same

(* ... and for the tasks that are not current on c.                          *)
LEMMA OtherTasks ==
  ASSUME IInv, NEW c \in CPU, CPUStep(c), NEW t \in Task, t # cur[c], t # cur'[c]
  PROVE  TaskInv(t)'
<1>0. Untouched(t) /\ TaskInv(t) /\ NULL \notin Task
  BY TaskFrame, Numbers DEF IInv
<1>1. \A d \in CPU : d # c => cur'[d] = cur[d] /\ mode'[d] = mode[d]
  BY Frame DEF Same
<1>2. (\E d \in CPU : cur[d] = t) => \E d \in CPU : cur'[d] = t
  BY <1>1
<1>3. \A d \in CPU : cur'[d] = t => cur[d] = t /\ mode'[d] = mode[d]
  BY <1>1
<1>4. (\A d \in CPU : cur'[d] = t => mode'[d] \in Saved) =>
        \A d \in CPU : cur[d] = t => mode[d] \in Saved
  BY <1>1
<1>5. status'[t] = "SUSPEND" => status[t] = "SUSPEND"
  BY <1>0 DEF Untouched
<1>6. status'[t] = "RUNNING" => status[t] = "RUNNING"
  BY <1>0 DEF Untouched
<1>7. status[t] = "RUNNING" => status'[t] = "RUNNING"
  BY <1>0 DEF Untouched
<1> QED
  BY <1>0, <1>2, <1>3, <1>4, <1>5, <1>6, <1>7 DEF TaskInv, Untouched

(* The current task of one CPU only.                                         *)
LEMMA CurrentTask ==
  ASSUME NEW c \in CPU, NEW u \in Task, cur'[c] = u, \A d \in CPU : d # c => cur'[d] # u,
         status'[u] = "SUSPEND" => at'[u] \in {"wait", "yield"},
         waitsem'[u] # NULL <=> at'[u] \in {"wait", "yield"},
         u \in Zombie <=> at'[u] = "zombie",
         u \in Zombie => status'[u] = "RUNNING",
         mode'[c] \in Saved => context'[u] = at'[u]
  PROVE  TaskInv(u)'
BY DEF TaskInv

(* A CPU with no current task yet runs os_run, whatever the others do.       *)
LEMMA NoCurrent ==
  ASSUME IInv, NEW c \in CPU, CPUStep(c), cur[c] = NULL, cur'[c] = NULL
  PROVE  CurInv(c)'
<1>0. /\ CurInv(c) /\ mode \in [CPU -> Modes] /\ stack \in [CPU -> Task \cup {NULL}]
      /\ point \in [CPU -> {"os_run", "idle", "wait", "yield", "zombie"}]
      /\ point[c] = "os_run" /\ mode[c] \notin {"check", "unlock", "iret"} /\ tl' = tl
      /\ NULL # "READY" /\ NULL \notin Zombie
  BY Frame, Numbers, KmtAssumption DEF IInv, TypeOK, Modes, CurInv, bootvars
<1>1. \A u : On(c, u)' <=> On(c, u)
  BY <1>0 DEF On
<1>2. ASSUME point'[c] = "os_run", mode'[c] \notin {"boot", "check", "unlock", "iret"},
             stack' = stack
      PROVE  CurInv(c)'
  BY <1>0, <1>1, <1>2 DEF CurInv
<1>3. ~TaskStep(c)
  BY <1>0 DEF TaskStep, SemWait, Take, Enqueue, SemSignal, Runs
<1>4. CASE Yield(c) \/ Timer(c) \/ Keyboard(c)
  <2>1. mode'[c] = "trap" /\ stack' = stack /\ point'[c] = "os_run"
    BY <1>0, <1>4 DEF Yield, Timer, Keyboard, Trap, GoOn
  <2> QED
    BY <1>2, <2>1
<1>5. CASE TrapLock(c)
  BY <1>0, <1>2, <1>5, Locked DEF TrapLock
<1>6. CASE Save(c) \/ Notify(c)
  <2>1. mode'[c] \in {"notify", "switch"}
    BY <1>0, <1>6, Returned DEF Save, Notify
  <2> QED
    BY <1>0, <1>2, <1>6, <2>1 DEF Save, Notify
<1>7. ~SwitchCurReady(c)
  BY <1>0 DEF SwitchCurReady, curstatus
<1>8. CASE SwitchScan(c)
  BY <1>0, <1>2, <1>8 DEF SwitchScan
<1>9. CASE ScanFound(c)
  <2>1. cur'[c] = tl[c][ind[c] + 1] /\ mode[c] = "scan"
    BY <1>9 DEF ScanFound, IInv, TypeOK
  <2>2. ind[c] + 1 \in 1..Len(tl[c])
    <3>1. ind[c] \in Nat /\ ind[c] < Len(tl[c]) /\ Len(tl[c]) \in Nat
      BY <2>1, Listed, Numbers DEF IInv, TypeOK, ScanInv
    <3> QED
      BY <3>1
  <2> QED
    BY <2>1, <2>2, Listed, Numbers
<1>10. CASE ScanNext(c)
  <2>1. findcnt[c] + 1 # Len(tl[c])
    BY <1>0, <1>10, ScanEnds DEF ScanNext
  <2> QED
    BY <1>0, <1>2, <1>10, <2>1 DEF ScanNext
<1>11. ~SwitchCheck(c) /\ ~TrapUnlock(c) /\ ~Iret(c)
  BY <1>0 DEF SwitchCheck, TrapUnlock, Iret
<1> QED
  BY <1>3, <1>4, <1>5, <1>6, <1>7, <1>8, <1>9, <1>10, <1>11 DEF CPUStep, TrapStep

(* The current task of the CPU that steps, and the CPU.                      *)
LEMMA OwnTask ==
  ASSUME IInv, NEW c \in CPU, CPUStep(c), NEW u \in Task, cur[c] = u, cur'[c] = u
  PROVE  CurInv(c)' /\ TaskInv(u)'
<1> USE DEF Saved
<1>0. /\ CurInv(c) /\ TaskInv(u) /\ tl' = tl /\ u # NULL /\ cur[c] # NULL
      /\ \A d \in CPU : d # c => cur[d] # u /\ cur'[d] # u
  BY Frame, Numbers, Own DEF IInv, bootvars, Same
<1>a. /\ mode \in [CPU -> Modes] /\ stack \in [CPU -> Task \cup {NULL}]
      /\ point \in [CPU -> {"os_run", "idle", "wait", "yield", "zombie"}]
      /\ status \in [Task -> {"READY", "RUNNING", "SUSPEND"}]
      /\ context \in [Task -> {"idle", "wait", "yield", "zombie"}]
      /\ at \in [Task -> {"idle", "wait", "yield", "zombie"}]
      /\ waitsem \in [Task -> Sems \cup {NULL}]
  BY DEF IInv, TypeOK, Modes
<1>b. /\ On(c, u) /\ stack[c] # NULL => On(c, stack[c])
      /\ \A v : On(c, v)' <=> On(c, v)
  BY <1>0, Own DEF CurInv, On
<1>c. /\ status[u] = "SUSPEND" => at[u] \in {"wait", "yield"}
      /\ waitsem[u] # NULL <=> at[u] \in {"wait", "yield"}
      /\ u \in Zombie <=> at[u] = "zombie"
      /\ u \in Zombie => status[u] = "RUNNING"
      /\ mode[c] \in Saved => context[u] = at[u]
  BY <1>0 DEF TaskInv
<1>d. /\ mode[c] \in {"run", "trap", "save"} => point[c] = at[u]
      /\ mode[c] = "run" => status[u] = "RUNNING" \/ point[c] = "yield"
      /\ mode[c] \in {"check", "unlock", "iret"} => status[u] = "RUNNING"
  BY <1>0 DEF CurInv
<1>1. ASSUME stack'[c] \in {stack[c], u},
             status'[u] = "SUSPEND" => at'[u] \in {"wait", "yield"},
             waitsem'[u] # NULL <=> at'[u] \in {"wait", "yield"},
             u \in Zombie <=> at'[u] = "zombie",
             u \in Zombie => status'[u] = "RUNNING",
             mode'[c] \in Saved => context'[u] = at'[u],
             mode'[c] \in {"run", "trap", "save"} => point'[c] = at'[u],
             mode'[c] = "run" => status'[u] = "RUNNING" \/ point'[c] = "yield",
             mode'[c] \in {"check", "unlock", "iret"} => status'[u] = "RUNNING"
      PROVE  CurInv(c)' /\ TaskInv(u)'
  <2>1. TaskInv(u)'
    BY <1>0, <1>1, CurrentTask
  <2>2. mode'[c] # "boot"
    BY Frame
  <2> QED
    BY <1>0, <1>1, <1>b, <2>1, <2>2 DEF CurInv
<1>2. ASSUME UNCHANGED <<context, at, waitsem, point>>, stack'[c] \in {stack[c], u},
             status'[u] = status[u] \/ (status[u] = "SUSPEND" /\ status'[u] = "READY"),
             mode'[c] \in Saved => mode[c] \in Saved,
             mode'[c] \in {"run", "trap", "save"} => mode[c] \in {"run", "trap", "save"},
             mode'[c] = "run" => mode[c] = "run",
             mode'[c] \in {"check", "unlock", "iret"} => status[u] = "RUNNING"
      PROVE  CurInv(c)' /\ TaskInv(u)'
  BY <1>1, <1>2, <1>c, <1>d
<1>3. ASSUME NEW s \in Sems, SemWait(c, s) PROVE CurInv(c)' /\ TaskInv(u)'
  <2>1. /\ waitsem'[u] = s /\ point'[c] = "wait" /\ at'[u] = "wait" /\ point[c] = "idle"
        /\ UNCHANGED <<context, status, mode, stack>> /\ mode[c] = "run" /\ s # NULL
    BY <1>0, <1>3, <1>a, Numbers DEF SemWait, GoOn, Runs, trapvars
  <2> QED
    BY <1>1, <1>c, <1>d, <2>1
<1>4. CASE Take(c)
  <2>1. /\ waitsem'[u] = NULL /\ point'[c] = "idle" /\ at'[u] = "idle" /\ point[c] = "wait"
        /\ UNCHANGED <<context, status, mode, stack>> /\ mode[c] = "run"
    BY <1>0, <1>4, <1>a DEF Take, GoOn, Runs, trapvars
  <2> QED
    BY <1>1, <1>c, <1>d, <2>1
<1>5. CASE Enqueue(c)
  <2>1. /\ status'[u] = "SUSPEND" /\ point'[c] = "yield" /\ at'[u] = "yield" /\ point[c] = "wait"
        /\ UNCHANGED <<context, waitsem, mode, stack>> /\ mode[c] = "run"
    BY <1>0, <1>5, <1>a DEF Enqueue, GoOn, Runs, trapvars
  <2> QED
    BY <1>1, <1>c, <1>d, <2>1
<1>6. ASSUME NEW s \in Sem, SemSignal(c, s) PROVE CurInv(c)' /\ TaskInv(u)'
  <2>1. status'[u] = status[u] \/ (status[u] = "SUSPEND" /\ status'[u] = "READY")
    BY <1>6, SignalWakes DEF SemSignal, Sems
  <2>2. /\ UNCHANGED <<context, at, waitsem, point, mode, stack>> /\ mode[c] = "run"
    BY <1>6 DEF SemSignal, trapvars, Runs
  <2> QED
    BY <1>2, <2>1, <2>2
<1>7. CASE Yield(c)
  <2>1. /\ mode'[c] = "trap" /\ point'[c] = at'[u] /\ mode[c] = "run"
        /\ at'[u] = IF point[c] = "yield" THEN "wait" ELSE point[c]
        /\ UNCHANGED <<context, status, waitsem, stack>>
    BY <1>0, <1>7, <1>a DEF Yield, Trap, GoOn
  <2> QED
    BY <1>1, <1>c, <1>d, <2>1
<1>8. CASE Timer(c) \/ Keyboard(c)
  <2>1. mode'[c] = "trap" /\ mode[c] = "run"
        /\ UNCHANGED <<context, status, at, point, waitsem, stack>>
    BY <1>8, <1>a DEF Timer, Keyboard, Trap
  <2> QED
    BY <1>2, <2>1
<1>9. CASE TrapLock(c)
  <2>1. mode'[c] = "save" /\ mode[c] = "trap"
        /\ UNCHANGED <<context, status, at, point, waitsem, stack>>
    BY <1>9, <1>a, Locked DEF TrapLock
  <2> QED
    BY <1>2, <2>1
<1>10. CASE Save(c)
  <2>1. /\ mode'[c] \in {"notify", "switch"} /\ mode[c] = "save" /\ context'[u] = point[c]
        /\ UNCHANGED <<status, at, point, waitsem, stack>>
    BY <1>0, <1>10, <1>a, Returned DEF Save, Saves
  <2> QED
    BY <1>1, <1>c, <1>d, <2>1
<1>11. CASE Notify(c)
  <2>1. /\ mode'[c] = "switch" /\ mode[c] = "notify"
        /\ UNCHANGED <<context, at, point, waitsem, stack>>
        /\ status'[u] = status[u] \/ (status[u] = "SUSPEND" /\ status'[u] = "READY")
    BY <1>11, <1>a, Returned, SignalWakes, Numbers DEF Notify
  <2> QED
    BY <1>2, <2>1
<1>12. CASE SwitchCurReady(c)
  <2>1. /\ mode'[c] = "unlock" /\ mode[c] = "switch" /\ status'[u] = "RUNNING"
        /\ UNCHANGED <<context, at, point, waitsem, stack>>
    BY <1>0, <1>12, <1>a, Returned DEF SwitchCurReady
  <2> QED
    BY <1>1, <1>c, <1>d, <2>1
<1>13. CASE SwitchScan(c)
  <2>1. mode'[c] = "scan" /\ mode[c] = "switch"
        /\ UNCHANGED <<context, status, at, point, waitsem, stack>>
    BY <1>13, <1>a DEF SwitchScan
  <2> QED
    BY <1>2, <2>1
<1>14. CASE ScanFound(c)
  <2>1. /\ tl[c][ind[c] + 1] = u /\ mode[c] = "scan" /\ mode'[c] = "check"
        /\ UNCHANGED <<context, at, point, waitsem, stack>>
    BY <1>14, <1>a DEF ScanFound, IInv, TypeOK
  <2>2. status'[u] = "RUNNING"
    BY <1>14, <2>1 DEF ScanFound, handover
  <2> QED
    BY <1>1, <1>c, <1>d, <2>1, <2>2
<1>15. CASE ScanNext(c)
  <2>1. /\ mode[c] = "scan" /\ UNCHANGED <<context, status, at, point, waitsem, stack>>
        /\ mode'[c] = "scan" \/ (mode'[c] = "check" /\ status[u] = "RUNNING")
    BY <1>0, <1>15, <1>a, ScanEnds DEF ScanNext
  <2> QED
    BY <1>2, <2>1
<1>16. CASE SwitchCheck(c)
  <2>1. /\ mode[c] = "check" /\ UNCHANGED <<context, status, at, point, waitsem, stack>>
        /\ status[u] = "RUNNING"
    BY <1>16, <1>d DEF SwitchCheck
  <2>2. mode'[c] = "unlock"
    BY <1>0, <1>16, <1>a, <2>1, Returned DEF SwitchCheck, AssertsHold, curstatus
  <2> QED
    BY <1>2, <2>1, <2>2
<1>17. CASE TrapUnlock(c)
  <2>1. /\ mode[c] = "unlock" /\ UNCHANGED <<context, status, at, point, waitsem, stack>>
        /\ mode'[c] = "iret"
    BY <1>17, <1>a DEF TrapUnlock
  <2> QED
    BY <1>2, <1>d, <2>1
<1>18. CASE Iret(c)
  <2>1. /\ mode[c] = "iret" /\ UNCHANGED <<context, status, at, waitsem>>
        /\ mode'[c] = "run" /\ point'[c] = context[u] /\ stack'[c] = u
    BY <1>0, <1>18, <1>a DEF Iret
  <2> QED
    BY <1>1, <1>c, <1>d, <2>1
<1>19. CASE TaskStep(c)
  BY <1>3, <1>4, <1>5, <1>6, <1>19 DEF TaskStep
<1>20. CASE TrapStep(c)
  BY <1>9, <1>10, <1>11, <1>12, <1>13, <1>14, <1>15, <1>16, <1>17, <1>18, <1>20 DEF TrapStep
<1> QED
  BY <1>7, <1>8, <1>19, <1>20 DEF CPUStep

(* A scan that finds another task: the old one and the new.                  *)
LEMMA Handover ==
  ASSUME IInv, NEW c \in CPU, ScanFound(c), NEW t \in Task, cur'[c] = t, cur[c] # t
  PROVE  /\ CurInv(c)' /\ TaskInv(t)'
         /\ \A u \in Task : cur[c] = u => TaskInv(u)'
<1> USE DEF Saved
<1>0. /\ CPUStep(c) /\ mode[c] = "scan" /\ t # NULL /\ TaskInv(t)
      /\ On(c, t) /\ tl[c][ind[c] + 1] = t
  <2>1. CPUStep(c)
    BY DEF CPUStep, TrapStep
  <2>2. On(c, t)
    BY <2>1, NewCurrent
  <2> QED
    BY <2>1, <2>2, Numbers DEF IInv, TypeOK, ScanFound
<1>1. /\ mode'[c] = "check" /\ status'[t] = "RUNNING" /\ status[t] = "READY"
      /\ UNCHANGED <<context, at, point, waitsem, stack, tl>>
  BY <1>0 DEF ScanFound, handover, IInv, TypeOK, bootvars
<1>2. \A d \in CPU : d # c => cur[d] # t /\ cur'[d] = cur[d]
  <2>1. \A d \in CPU : d # c => cur'[d] = cur[d]
    BY <1>0, Frame DEF Same
  <2>2. \A d \in CPU : d # c => cur[d] # t
    BY <1>0, Own, Disjoint DEF IInv
  <2> QED
    BY <2>1, <2>2
<1>3. CurInv(c)'
  <2>1. \A v : On(c, v)' <=> On(c, v)
    BY <1>1 DEF On
  <2> QED
    BY <1>0, <1>1, <2>1 DEF CurInv, IInv
<1>4. TaskInv(t)'
  <2>1. context[t] = at[t]
    BY <1>0, <1>2 DEF TaskInv
  <2> QED
    BY <1>0, <1>1, <1>2, <2>1, CurrentTask DEF TaskInv
<1>5. ASSUME NEW u \in Task, cur[c] = u PROVE TaskInv(u)'
  <2>1. u # t /\ \A d \in CPU : d # c => cur[d] # u
    BY <1>5, Own, Numbers
  <2>2. TaskInv(u) /\ status[u] \in {"READY", "RUNNING", "SUSPEND"}
    BY <2>1 DEF IInv, TypeOK
  <2>3. status'[u] = IF status[u] = "RUNNING" THEN "READY" ELSE status[u]
    BY <1>0, <1>5, <2>1 DEF ScanFound, handover
  <2>4. \A d \in CPU : cur'[d] # u
    BY <1>2, <2>1
  <2>5. context[u] = at[u]
    BY <1>0, <1>5, <2>1, <2>2 DEF TaskInv
  <2> QED
    BY <1>1, <1>5, <2>2, <2>3, <2>4, <2>5 DEF TaskInv
<1> QED
  BY <1>3, <1>4, <1>5

LEMMA NextCurInv ==
  IInv /\ [Next]_vars => (\A d \in CPU : CurInv(d)') /\ (\A t \in Task : TaskInv(t)')
<1> SUFFICES ASSUME IInv, [Next]_vars
             PROVE  (\A d \in CPU : CurInv(d)') /\ (\A t \in Task : TaskInv(t)')
  OBVIOUS
<1>1. ASSUME NEW c \in CPU, CPUStep(c), NEW d \in CPU PROVE CurInv(d)'
  <2>1. CASE d # c
    BY <1>1, <2>1, OtherCPUs
  <2>2. CASE d = c /\ cur'[c] = NULL
    <3>1. cur[c] = NULL
      BY <1>1, <2>2, NewCurrent, Numbers
    <3> QED
      BY <1>1, <2>2, <3>1, NoCurrent
  <2>3. CASE d = c /\ cur'[c] # NULL /\ cur'[c] = cur[c]
    <3>1. cur[c] \in Task
      BY <2>3, Own
    <3> QED
      BY <1>1, <2>3, <3>1, OwnTask
  <2>4. CASE d = c /\ cur'[c] # cur[c]
    <3>1. ScanFound(c) /\ cur'[c] \in Task
      BY <1>1, <2>4, NewCurrent
    <3> QED
      BY <2>4, <3>1, Handover
  <2> QED
    BY <2>1, <2>2, <2>3, <2>4
<1>2. ASSUME NEW c \in CPU, CPUStep(c), NEW t \in Task PROVE TaskInv(t)'
  <2>1. CASE t # cur[c] /\ t # cur'[c]
    BY <1>2, <2>1, OtherTasks
  <2>2. CASE t = cur[c] /\ t = cur'[c]
    BY <1>2, <2>2, OwnTask
  <2>3. CASE cur[c] # cur'[c] /\ (t = cur[c] \/ t = cur'[c])
    <3>1. ScanFound(c) /\ cur'[c] \in Task
      BY <1>2, <2>3, NewCurrent
    <3> QED
      BY <2>3, <3>1, Handover, Numbers
  <2> QED
    BY <2>1, <2>2, <2>3
<1>3. CASE OnIrq \/ Create \/ Press \/ UNCHANGED vars
  <2>1. /\ UNCHANGED <<mode, status, context, cur, point, stack, waitsem, at>>
        /\ tl' = tl \/ \A c \in CPU : cur[c] = NULL /\ stack[c] = NULL
    <3>1. UNCHANGED <<mode, status, context, cur, point, stack, waitsem, at>>
      BY <1>3, Quiet, StillBooting DEF Press, trapvars, vars
    <3>2. CASE Create
      BY <3>1, <3>2, StillBooting DEF Booting, IInv, CurInv
    <3>3. CASE ~Create
      BY <1>3, <3>1, <3>3 DEF OnIrq, Press, vars, bootvars
    <3> QED
      BY <3>1, <3>2, <3>3
  <2>2. ASSUME NEW t \in Task PROVE TaskInv(t)'
    BY <2>1 DEF IInv, TaskInv
  <2>3. ASSUME NEW d \in CPU PROVE CurInv(d)'
    BY <2>1 DEF IInv, CurInv, On
  <2> QED
    BY <2>2, <2>3
<1>4. CASE Start
  <2>1. /\ UNCHANGED <<status, context, cur, point, stack, waitsem, at, tl>>
        /\ \A c \in CPU : mode'[c] = "run" /\ cur[c] = NULL
    BY <1>4, Quiet DEF Start, bootvars, IInv, CurInv
  <2>2. ASSUME NEW t \in Task PROVE TaskInv(t)'
    BY <1>4, <2>1, Numbers DEF IInv, TaskInv
  <2>3. ASSUME NEW d \in CPU PROVE CurInv(d)'
    BY <2>1 DEF IInv, CurInv, On
  <2> QED
    BY <2>2, <2>3
<1> QED
  BY <1>1, <1>2, <1>3, <1>4 DEF Next, Boot, CPUStep

-----------------------------------------------------------------------------
(* The rings, and the units of the semaphores.                               *)

LEMMA AwakeSets ==
  ASSUME NEW s
  PROVE  Awake(s) \in SUBSET Task /\ IsFiniteSet(Awake(s)) /\ Cardinality(Awake(s)) \in Nat
<1>1. Awake(s) \in SUBSET Task
  BY DEF Awake
<1> QED
  BY <1>1, TaskSets

(* Steps outside sem.c's sections: nobody suspends or wakes, at most a task  *)
(* that is awake enters sem_wait.                                            *)
LEMMA ElsewhereRing ==
  ASSUME IInv, UNCHANGED <<value, wl>>,
         \A t \in Task : /\ status'[t] = "SUSPEND" <=> status[t] = "SUSPEND"
                         /\ waitsem[t] # NULL => waitsem'[t] = waitsem[t]
  PROVE  RingInv' /\ UnitsInv'
<1>0. /\ RingInv /\ UnitsInv /\ wl \in [Sems -> Seq(Task)] /\ NULL \notin Sems
      /\ value \in [Sems -> 0..MaxValue] /\ MaxValue \in Nat
  BY Numbers, KmtAssumption DEF IInv, TypeOK
<1>1. \A s \in Sems : \A i \in 1..Len(wl[s]) : wl[s][i] \in Task
  BY <1>0, ElementOfSeq
<1>2. \A t \in Task : status[t] = "SUSPEND" => waitsem'[t] = waitsem[t]
  BY DEF IInv, TaskInv
<1>3. RingInv'
  <2>1. \A s \in Sems : \A i \in 1..Len(wl[s]) :
          status'[wl[s][i]] = "SUSPEND" /\ waitsem'[wl[s][i]] = s
    BY <1>0, <1>1, <1>2 DEF RingInv
  <2>2. \A t \in Task : status'[t] = "SUSPEND" =>
          \E i \in 1..Len(wl[waitsem'[t]]) : wl[waitsem'[t]][i] = t
    BY <1>0, <1>2 DEF RingInv
  <2> QED
    BY <1>0, <2>1, <2>2 DEF RingInv
<1>4. ASSUME NEW s \in Sems, wl[s] # <<>> PROVE value[s] <= Cardinality(Awake(s)')
  <2>1. Awake(s) \subseteq Awake(s)'
    BY <1>0 DEF Awake
  <2>2. Awake(s)' \in SUBSET Task
    BY DEF Awake
  <2>3. IsFiniteSet(Awake(s)') /\ Cardinality(Awake(s)') \in Nat
    BY <2>2, TaskSets
  <2>4. Cardinality(Awake(s)) <= Cardinality(Awake(s)')
    BY <2>1, <2>3, FS_Subset
  <2>5. value[s] <= Cardinality(Awake(s)) /\ Cardinality(Awake(s)) \in Nat /\ value[s] \in Int
    BY <1>0, <1>4, AwakeSets DEF UnitsInv
  <2> QED
    BY <2>3, <2>4, <2>5
<1> QED
  BY <1>3, <1>4 DEF UnitsInv

(* sem_wait takes a unit: one awake task and one unit less.                  *)
LEMMA TakeRing ==
  ASSUME IInv, NEW c \in CPU, Take(c)
  PROVE  RingInv' /\ UnitsInv'
<1> DEFINE t == cur[c]
           s == waitsem[t]
<1>0. /\ t \in Task /\ s \in Sems /\ status[t] = "RUNNING"
      /\ value' = [value EXCEPT ![s] = @ - 1] /\ waitsem' = [waitsem EXCEPT ![t] = NULL]
      /\ status' = status /\ wl' = wl
  BY Executing DEF Take, Runs
<1>1. /\ RingInv /\ UnitsInv /\ wl \in [Sems -> Seq(Task)] /\ NULL \notin Sems
      /\ value \in [Sems -> 0..MaxValue] /\ MaxValue \in Nat
      /\ waitsem \in [Task -> Sems \cup {NULL}]
  BY Numbers, KmtAssumption DEF IInv, TypeOK
<1>2. \A r \in Sems : \A i \in 1..Len(wl[r]) : wl[r][i] \in Task
  BY <1>1, ElementOfSeq
<1> HIDE DEF t, s
<1>3. \A u \in Task : u # t => waitsem'[u] = waitsem[u]
  BY <1>0, <1>1
<1>4. RingInv'
  <2>1. \A r \in Sems : \A i \in 1..Len(wl[r]) :
          status[wl[r][i]] = "SUSPEND" /\ waitsem'[wl[r][i]] = r
    <3> SUFFICES ASSUME NEW r \in Sems, NEW i \in 1..Len(wl[r])
                 PROVE  status[wl[r][i]] = "SUSPEND" /\ waitsem'[wl[r][i]] = r
      OBVIOUS
    <3>1. wl[r][i] \in Task /\ status[wl[r][i]] = "SUSPEND" /\ waitsem[wl[r][i]] = r
      BY <1>1, <1>2 DEF RingInv
    <3> QED
      BY <1>0, <1>3, <3>1
  <2>2. \A u \in Task : status[u] = "SUSPEND" =>
          \E i \in 1..Len(wl[waitsem'[u]]) : wl[waitsem'[u]][i] = u
    <3> SUFFICES ASSUME NEW u \in Task, status[u] = "SUSPEND"
                 PROVE  \E i \in 1..Len(wl[waitsem'[u]]) : wl[waitsem'[u]][i] = u
      OBVIOUS
    <3>1. u # t
      BY <1>0
    <3>2. waitsem'[u] = waitsem[u]
      BY <1>3, <3>1
    <3>3. \E i \in 1..Len(wl[waitsem[u]]) : wl[waitsem[u]][i] = u
      BY <1>1 DEF RingInv
    <3> QED
      BY <3>2, <3>3
  <2>3. \A r \in Sems : \A i, j \in 1..Len(wl[r]) : wl[r][i] = wl[r][j] => i = j
    BY <1>1 DEF RingInv
  <2> QED
    BY <1>0, <2>1, <2>2, <2>3 DEF RingInv
<1>5. ASSUME NEW r \in Sems, wl[r] # <<>> PROVE value'[r] <= Cardinality(Awake(r)')
  <2>1. value[r] <= Cardinality(Awake(r)) /\ Cardinality(Awake(r)) \in Nat /\ value[r] \in Int
    BY <1>1, <1>5, AwakeSets DEF UnitsInv
  <2>2. CASE r = s
    <3>1. Awake(r)' = Awake(r) \ {t} /\ t \in Awake(r)
      BY <1>0, <1>1, <1>3, <2>2 DEF Awake, s
    <3>2. Cardinality(Awake(r) \ {t}) = Cardinality(Awake(r)) - 1
      BY <3>1, AwakeSets, FS_RemoveElement
    <3>3. value'[r] = value[r] - 1
      BY <1>0, <1>1, <2>2
    <3> QED
      BY <2>1, <3>1, <3>2, <3>3
  <2>3. CASE r # s
    <3>1. Awake(r)' = Awake(r)
      BY <1>0, <1>1, <1>3, <2>3 DEF Awake, s
    <3>2. value'[r] = value[r]
      BY <1>0, <1>1, <2>3
    <3> QED
      BY <2>1, <3>1, <3>2
  <2> QED
    BY <2>2, <2>3
<1> QED
  BY <1>0, <1>4, <1>5 DEF UnitsInv

(* sem_wait queues and suspends its task: there is no unit.                  *)
LEMMA EnqueueRing ==
  ASSUME IInv, NEW c \in CPU, Enqueue(c)
  PROVE  RingInv' /\ UnitsInv'
<1> DEFINE t == cur[c]
           s == waitsem[t]
<1>0. /\ t \in Task /\ s \in Sems /\ status[t] = "RUNNING"
      /\ wl' = [wl EXCEPT ![s] = Append(@, t)] /\ status' = [status EXCEPT ![t] = "SUSPEND"]
      /\ value' = value /\ waitsem' = waitsem /\ ~(value[s] > 0)
  BY Executing DEF Enqueue, Runs, Available
<1>1. /\ RingInv /\ UnitsInv /\ wl \in [Sems -> Seq(Task)] /\ NULL \notin Sems
      /\ value \in [Sems -> 0..MaxValue] /\ MaxValue \in Nat
      /\ waitsem \in [Task -> Sems \cup {NULL}]
      /\ status \in [Task -> {"READY", "RUNNING", "SUSPEND"}]
  BY Numbers, KmtAssumption DEF IInv, TypeOK
<1>2. waitsem[t] = s
  OBVIOUS
<1> HIDE DEF t, s
<1>3. \A r \in Sems : \A i \in 1..Len(wl[r]) : wl[r][i] \in Task /\ wl[r][i] # t
  BY <1>0, <1>1, ElementOfSeq DEF RingInv
<1>4. \A u \in Task : status'[u] = IF u = t THEN "SUSPEND" ELSE status[u]
  BY <1>0, <1>1
<1>5. /\ \A r \in Sems : r # s => wl'[r] = wl[r]
      /\ Len(wl[s]) \in Nat /\ Len(wl'[s]) = Len(wl[s]) + 1
      /\ \A i \in 1..(Len(wl[s]) + 1) : wl'[s][i] = IF i = Len(wl[s]) + 1 THEN t ELSE wl[s][i]
  <2>1. wl'[s] = Append(wl[s], t) /\ wl[s] \in Seq(Task)
    BY <1>0, <1>1
  <2> QED
    BY <1>0, <1>1, <2>1, LenProperties, AppendProperties
<1>6. ASSUME NEW r \in Sems
      PROVE  /\ \A i \in 1..Len(wl'[r]) : status'[wl'[r][i]] = "SUSPEND" /\ waitsem[wl'[r][i]] = r
             /\ \A i, j \in 1..Len(wl'[r]) : wl'[r][i] = wl'[r][j] => i = j
  <2>1. CASE r # s
    BY <1>0, <1>1, <1>3, <1>4, <1>5, <2>1 DEF RingInv
  <2>2. CASE r = s
    <3>1. ASSUME NEW i \in 1..(Len(wl[s]) + 1), i # Len(wl[s]) + 1
          PROVE  i \in 1..Len(wl[s]) /\ wl'[s][i] = wl[s][i]
      BY <1>5, <3>1
    <3>2. ASSUME NEW i \in 1..(Len(wl[s]) + 1)
          PROVE  status'[wl'[s][i]] = "SUSPEND" /\ waitsem[wl'[s][i]] = s
      <4>1. CASE i = Len(wl[s]) + 1
        BY <1>0, <1>2, <1>4, <1>5, <4>1
      <4>2. CASE i # Len(wl[s]) + 1
        BY <1>0, <1>1, <1>3, <1>4, <3>1, <4>2 DEF RingInv
      <4> QED
        BY <4>1, <4>2
    <3>3. ASSUME NEW i \in 1..(Len(wl[s]) + 1), NEW j \in 1..(Len(wl[s]) + 1), wl'[s][i] = wl'[s][j]
          PROVE  i = j
      <4>1. CASE i # Len(wl[s]) + 1 /\ j # Len(wl[s]) + 1
        BY <1>0, <1>1, <3>1, <3>3, <4>1 DEF RingInv
      <4>2. CASE i = Len(wl[s]) + 1 /\ j # Len(wl[s]) + 1
        BY <1>0, <1>3, <1>5, <3>1, <3>3, <4>2
      <4>3. CASE i # Len(wl[s]) + 1 /\ j = Len(wl[s]) + 1
        BY <1>0, <1>3, <1>5, <3>1, <3>3, <4>3
      <4> QED
        BY <4>1, <4>2, <4>3
    <3> QED
      BY <1>5, <2>2, <3>2, <3>3
  <2> QED
    BY <2>1, <2>2
<1>7. ASSUME NEW u \in Task, status'[u] = "SUSPEND"
      PROVE  \E i \in 1..Len(wl'[waitsem[u]]) : wl'[waitsem[u]][i] = u
  <2>1. CASE u = t
    BY <1>2, <1>5, <2>1
  <2>2. CASE u # t
    <3>1. status[u] = "SUSPEND" /\ waitsem[u] \in Sems
      BY <1>1, <1>4, <1>7, <2>2 DEF IInv, TaskInv
    <3>2. PICK i \in 1..Len(wl[waitsem[u]]) : wl[waitsem[u]][i] = u
      BY <1>1, <3>1 DEF RingInv
    <3> QED
      BY <1>5, <3>1, <3>2
  <2> QED
    BY <2>1, <2>2
<1>8. ASSUME NEW r \in Sems, wl'[r] # <<>> PROVE value[r] <= Cardinality(Awake(r)')
  <2>1. Awake(r)' \in SUBSET Task
    BY DEF Awake
  <2>2. Cardinality(Awake(r)') \in Nat
    BY <2>1, TaskSets
  <2>3. CASE r = s
    BY <1>0, <1>1, <2>2, <2>3
  <2>4. CASE r # s
    <3>1. Awake(r)' = Awake(r)
      BY <1>0, <1>2, <1>4, <2>4 DEF Awake
    <3> QED
      BY <1>1, <1>5, <1>8, <2>4, <3>1 DEF UnitsInv
  <2> QED
    BY <2>3, <2>4
<1> QED
  BY <1>0, <1>6, <1>7, <1>8 DEF RingInv, UnitsInv

(* semsignal: one unit more and, if somebody sleeps, one awake task more.    *)
LEMMA SignalRing ==
  ASSUME IInv, NEW s \in Sems, semsignal(s), waitsem' = waitsem
  PROVE  RingInv' /\ UnitsInv'
<1>1. /\ RingInv /\ UnitsInv /\ wl \in [Sems -> Seq(Task)] /\ NULL \notin Sems
      /\ value \in [Sems -> 0..MaxValue] /\ MaxValue \in Nat
      /\ waitsem \in [Task -> Sems \cup {NULL}]
      /\ status \in [Task -> {"READY", "RUNNING", "SUSPEND"}]
  BY Numbers, KmtAssumption DEF IInv, TypeOK
<1>2. \A r \in Sems : value'[r] = IF r = s THEN value[r] + 1 ELSE value[r]
  BY <1>1 DEF semsignal
<1>3. CASE wl[s] = <<>>
  <2>1. status' = status /\ wl' = wl
    BY <1>3 DEF semsignal, Wakes
  <2>2. RingInv'
    BY <1>1, <2>1 DEF RingInv
  <2>3. \A r \in Sems : Awake(r)' = Awake(r)
    BY <2>1 DEF Awake
  <2> QED
    BY <1>1, <1>2, <1>3, <2>1, <2>2, <2>3 DEF UnitsInv
<1>4. CASE wl[s] # <<>>
  <2> DEFINE w == Head(wl[s])
             n == Len(wl[s])
  <2>1. /\ w \in Task /\ w = wl[s][1] /\ n \in Nat \ {0} /\ status[w] = "SUSPEND"
        /\ waitsem[w] = s /\ wl' = [wl EXCEPT ![s] = Tail(wl[s])]
        /\ status' = [status EXCEPT ![w] = "READY"]
    BY <1>4, Waiter DEF semsignal, Wakes
  <2>2. /\ \A r \in Sems : r # s => wl'[r] = wl[r]
        /\ Len(wl'[s]) = n - 1
        /\ \A i \in 1..(n - 1) : wl'[s][i] = wl[s][i + 1]
    BY <1>1, <1>4, <2>1, HeadTailProperties
  <2> HIDE DEF w, n
  <2>3. \A u \in Task : status'[u] = IF u = w THEN "READY" ELSE status[u]
    BY <1>1, <2>1
  <2>4. \A r \in Sems : \A i \in 1..Len(wl[r]) : wl[r][i] \in Task
    BY <1>1, ElementOfSeq
  <2>5. ASSUME NEW r \in Sems
        PROVE  /\ \A i \in 1..Len(wl'[r]) : status'[wl'[r][i]] = "SUSPEND" /\ waitsem[wl'[r][i]] = r
               /\ \A i, j \in 1..Len(wl'[r]) : wl'[r][i] = wl'[r][j] => i = j
    <3>1. CASE r # s
      BY <1>1, <2>1, <2>2, <2>3, <2>4, <3>1 DEF RingInv
    <3>2. CASE r = s
      <4>1. ASSUME NEW i \in 1..(n - 1)
            PROVE  /\ i + 1 \in 1..n /\ 1 \in 1..n /\ wl'[s][i] = wl[s][i + 1]
                   /\ wl[s][i + 1] # w /\ wl[s][i + 1] \in Task
        BY <1>1, <2>1, <2>2, <2>4 DEF RingInv, n
      <4>2. ASSUME NEW i \in 1..(n - 1)
            PROVE  status'[wl'[s][i]] = "SUSPEND" /\ waitsem[wl'[s][i]] = s
        <5>1. status[wl[s][i + 1]] = "SUSPEND" /\ waitsem[wl[s][i + 1]] = s
          BY <1>1, <4>1 DEF RingInv, n
        <5> QED
          BY <2>3, <4>1, <5>1
      <4>3. ASSUME NEW i \in 1..(n - 1), NEW j \in 1..(n - 1), wl'[s][i] = wl'[s][j]
            PROVE  i = j
        <5>1. i + 1 = j + 1
          BY <1>1, <4>1, <4>3 DEF RingInv, n
        <5> QED
          BY <5>1
      <4> QED
        BY <2>2, <3>2, <4>2, <4>3
    <3> QED
      BY <3>1, <3>2
  <2>6. ASSUME NEW u \in Task, status'[u] = "SUSPEND"
        PROVE  \E i \in 1..Len(wl'[waitsem[u]]) : wl'[waitsem[u]][i] = u
    <3>1. status[u] = "SUSPEND" /\ u # w /\ waitsem[u] \in Sems
      BY <1>1, <2>3, <2>6 DEF IInv, TaskInv
    <3>2. PICK i \in 1..Len(wl[waitsem[u]]) : wl[waitsem[u]][i] = u
      BY <1>1, <3>1 DEF RingInv
    <3>3. CASE waitsem[u] # s
      BY <2>2, <3>1, <3>2, <3>3
    <3>4. CASE waitsem[u] = s
      <4>1. i \in 1..n /\ i # 1
        BY <2>1, <3>1, <3>2, <3>4 DEF n
      <4>2. i - 1 \in 1..(n - 1) /\ (i - 1) + 1 = i
        BY <2>1, <4>1
      <4>3. wl'[s][i - 1] = u
        BY <2>2, <3>2, <3>4, <4>2
      <4> QED
        BY <2>2, <3>4, <4>2, <4>3
    <3> QED
      BY <3>3, <3>4
  <2>7. ASSUME NEW r \in Sems, wl'[r] # <<>> PROVE value'[r] <= Cardinality(Awake(r)')
    <3>1. CASE r = s
      <4>1. Awake(s)' = Awake(s) \cup {w} /\ w \notin Awake(s)
        BY <2>1, <2>3 DEF Awake
      <4>2. Cardinality(Awake(s) \cup {w}) = Cardinality(Awake(s)) + 1
        BY <4>1, AwakeSets, FS_AddElement
      <4>3. value[s] <= Cardinality(Awake(s)) /\ Cardinality(Awake(s)) \in Nat /\ value[s] \in Int
        BY <1>1, <1>4, AwakeSets DEF UnitsInv
      <4>4. value'[s] = value[s] + 1
        BY <1>2
      <4> QED
        BY <3>1, <4>1, <4>2, <4>3, <4>4
    <3>2. CASE r # s
      <4>1. Awake(r)' = Awake(r)
        BY <2>1, <2>3, <3>2 DEF Awake
      <4> QED
        BY <1>1, <1>2, <2>2, <2>7, <3>2, <4>1 DEF UnitsInv
    <3> QED
      BY <3>1, <3>2
  <2> QED
    BY <2>5, <2>6, <2>7 DEF RingInv, UnitsInv
<1> QED
  BY <1>3, <1>4

LEMMA NextRingInv == IInv /\ [Next]_vars => RingInv' /\ UnitsInv'
<1> SUFFICES ASSUME IInv, [Next]_vars PROVE RingInv' /\ UnitsInv'
  OBVIOUS
<1>0. /\ status \in [Task -> {"READY", "RUNNING", "SUSPEND"}]
      /\ waitsem \in [Task -> Sems \cup {NULL}]
  BY DEF IInv, TypeOK
<1>1. CASE OnIrq \/ Create \/ Start \/ Press \/ UNCHANGED vars
  BY <1>1, Quiet, ElsewhereRing
<1>2. ASSUME NEW c \in CPU, NEW s \in Sems, SemWait(c, s) PROVE RingInv' /\ UnitsInv'
  <2>1. cur[c] \in Task /\ waitsem[cur[c]] = NULL
    BY <1>2, Executing DEF SemWait, Runs
  <2> QED
    BY <1>0, <1>2, <2>1, ElsewhereRing DEF SemWait, semvars
<1>3. ASSUME NEW c \in CPU, NEW s \in Sem, SemSignal(c, s) PROVE RingInv' /\ UnitsInv'
  BY <1>3, SignalRing DEF SemSignal, Sems
<1>4. ASSUME NEW c \in CPU, Notify(c) PROVE RingInv' /\ UnitsInv'
  BY <1>4, SignalRing, Numbers DEF Notify
<1>5. ASSUME NEW c \in CPU, Yield(c) \/ Timer(c) \/ Keyboard(c) PROVE RingInv' /\ UnitsInv'
  BY <1>5, ElsewhereRing DEF Yield, Timer, Keyboard, Trap, semvars
<1>6. ASSUME NEW c \in CPU, TrapLock(c) \/ Save(c) \/ SwitchScan(c) \/ ScanNext(c) \/ SwitchCheck(c)
                            \/ TrapUnlock(c) \/ Iret(c)
      PROVE  RingInv' /\ UnitsInv'
  <2>1. UNCHANGED <<value, wl, status, waitsem>>
    BY <1>6 DEF TrapLock, Save, SwitchScan, ScanNext, SwitchCheck, TrapUnlock, Iret, semvars
  <2> QED
    BY <2>1, ElsewhereRing
<1>7. ASSUME NEW c \in CPU, SwitchCurReady(c) PROVE RingInv' /\ UnitsInv'
  <2>1. cur[c] # NULL /\ status[cur[c]] = "READY"
    BY <1>7, KmtAssumption DEF SwitchCurReady, curstatus
  <2> QED
    BY <1>0, <1>7, <2>1, ElsewhereRing DEF SwitchCurReady, semvars
<1>8. ASSUME NEW c \in CPU, ScanFound(c) PROVE RingInv' /\ UnitsInv'
  <2>1. \A u \in Task : status'[u] = "SUSPEND" <=> status[u] = "SUSPEND"
    BY <1>8 DEF ScanFound, handover
  <2> QED
    BY <1>8, <2>1, ElsewhereRing DEF ScanFound, semvars
<1>9. ASSUME NEW c \in CPU, TaskStep(c) \/ TrapStep(c) PROVE RingInv' /\ UnitsInv'
  BY <1>2, <1>3, <1>4, <1>6, <1>7, <1>8, <1>9, TakeRing, EnqueueRing DEF TaskStep, TrapStep
<1> QED
  BY <1>1, <1>5, <1>9 DEF Next, Boot

THEOREM Invariance == Spec => []IInv
<1>1. Init => IInv
  BY InitIInv
<1>2. IInv /\ [Next]_vars => IInv'
  BY NextTypeOK, NextBootInv, NextListInv, NextWalkInv, NextScanInv, NextKbdInv, NextCurInv,
     NextRingInv DEF IInv
<1> QED
  BY <1>1, <1>2, PTL DEF Spec

-----------------------------------------------------------------------------
(* What follows from the invariant.                                          *)

(* Every variable keeps its type: a value never goes below 0 nor above its   *)
(* bound, a scan never indexes behind the list of its CPU.                   *)
THEOREM TypeCorrect == Spec => []TypeOK
<1>1. IInv => TypeOK
  BY DEF IInv
<1> QED
  BY Invariance, <1>1, PTL

(* The asserts of kmt_context_switch never fail: when a scan ends without a  *)
(* READY task, the zombie of the CPU is current and RUNNING.                 *)
THEOREM NeverPanics == Spec => []NoPanic
<1>1. IInv => NoPanic
  BY DEF IInv, WalkInv, NoPanic
<1> QED
  BY Invariance, <1>1, PTL

(* A task goes on where it stopped, however it lost its CPU.                 *)
THEOREM ResumesRight == Spec => []ResumesWhereItStopped
<1>1. IInv => ResumesWhereItStopped
  BY DEF IInv, CurInv, ResumesWhereItStopped
<1> QED
  BY Invariance, <1>1, PTL

(* Code runs only for a RUNNING task, or between a semwait's unlock and      *)
(* yield; a RUNNING task is current somewhere.                               *)
THEOREM RunningOnCpu == Spec => []RunningIffOnCpu
<1>1. IInv => RunningIffOnCpu
  <2> SUFFICES ASSUME IInv PROVE RunningIffOnCpu
    OBVIOUS
  <2>1. ASSUME NEW c \in CPU, mode[c] = "run", cur[c] # NULL
        PROVE  \/ curstatus(c) = "RUNNING"
               \/ point[c] = "yield" /\ curstatus(c) \in {"SUSPEND", "READY"}
    <3>1. /\ status[cur[c]] = "RUNNING" \/ point[c] = "yield"
          /\ status[cur[c]] \in {"READY", "RUNNING", "SUSPEND"}
      BY <2>1, Own DEF IInv, TypeOK, CurInv
    <3> QED
      BY <2>1, <3>1 DEF curstatus
  <2> QED
    BY <2>1 DEF IInv, TaskInv, RunningIffOnCpu
<1> QED
  BY Invariance, <1>1, PTL

(* No two CPUs are ever on one stack, and none is on the stack of the task   *)
(* that another is about to resume.                                          *)
THEOREM StacksApart == Spec => []StacksExclusive
<1>1. IInv => StacksExclusive
  <2> SUFFICES ASSUME IInv, NEW c \in CPU, NEW d \in CPU, c # d, stack[c] # NULL
               PROVE  stack[c] # stack[d] /\ stack[c] # cur[d]
    BY DEF StacksExclusive
  <2>1. stack[c] \in Task /\ On(c, stack[c])
    BY DEF IInv, TypeOK, CurInv
  <2>2. ~On(d, stack[c])
    BY <2>1, Disjoint DEF IInv
  <2> QED
    BY <2>1, <2>2, Numbers DEF IInv, CurInv
<1> QED
  BY Invariance, <1>1, PTL

(* A suspended task is in the ring where it waits, once, and nowhere else;   *)
(* and sleepers never face more units than there are awake tasks to take     *)
(* them, whichever CPUs signal, suspend and switch.                          *)
THEOREM NoWakeupLost == Spec => []NoLostWakeup
<1>1. IInv => NoLostWakeup
  <2> SUFFICES ASSUME IInv PROVE NoLostWakeup
    OBVIOUS
  <2>1. ASSUME NEW t \in Task, NEW s \in Sems
        PROVE  Times(t, s) = IF status[t] = "SUSPEND" /\ waitsem[t] = s THEN 1 ELSE 0
    <3> DEFINE P == {i \in 1..Len(wl[s]) : wl[s][i] = t}
    <3>1. CASE status[t] = "SUSPEND" /\ waitsem[t] = s
      <4>1. PICK i \in 1..Len(wl[s]) : wl[s][i] = t
        BY <3>1 DEF IInv, RingInv
      <4>2. P = {i}
        BY <4>1 DEF IInv, RingInv
      <4>3. Cardinality(P) = 1
        BY <4>2, FS_Singleton
      <4> QED
        BY <3>1, <4>3 DEF Times
    <3>2. CASE ~(status[t] = "SUSPEND" /\ waitsem[t] = s)
      <4>1. P = {}
        BY <3>2 DEF IInv, RingInv
      <4>2. Cardinality(P) = 0
        BY <4>1, FS_EmptySet
      <4> QED
        BY <3>2, <4>2 DEF Times
    <3> QED
      BY <3>1, <3>2
  <2> QED
    BY <2>1 DEF IInv, UnitsInv, NoLostWakeup
<1> QED
  BY Invariance, <1>1, PTL

(* Through interrupts, suspensions and switches sem_kbdirq counts as SemSpec *)
(* says: one unit per keyboard interrupt, and input-task leaves sem_wait by  *)
(* taking one.                                                               *)
THEOREM KbdSemCounts == Spec => KbdSemKeepsCount
<1>1. Init => KbdSem!Init
  BY KmtAssumption, Numbers DEF Init, KbdSem!Init, Sems, KbdWaiters
<1>2. IInv /\ [Next]_vars => [KbdSem!Next]_<<value[KBD], KbdWaiters>>
  <2> SUFFICES ASSUME IInv, [Next]_vars PROVE [KbdSem!Next]_<<value[KBD], KbdWaiters>>
    OBVIOUS
  <2>0. /\ waitsem \in [Task -> Sems \cup {NULL}] /\ value \in [Sems -> 0..MaxValue]
        /\ KBD \in Sems /\ NULL # KBD /\ KBD \notin Sem
    BY Numbers, KmtAssumption DEF IInv, TypeOK
  <2>1. ASSUME UNCHANGED <<value, waitsem>> PROVE UNCHANGED <<value[KBD], KbdWaiters>>
    BY <2>1 DEF KbdWaiters
  <2>2. CASE OnIrq \/ Create \/ Start \/ Press \/ UNCHANGED vars
    BY <2>1, <2>2, Quiet
  <2>3. ASSUME NEW c \in CPU, NEW s \in Sems, SemWait(c, s)
        PROVE  [KbdSem!Next]_<<value[KBD], KbdWaiters>>
    <3>1. cur[c] \in Task /\ waitsem[cur[c]] = NULL
      BY <2>3, Executing DEF SemWait, Runs
    <3>2. waitsem' = [waitsem EXCEPT ![cur[c]] = s] /\ value' = value
      BY <2>3 DEF SemWait, semvars
    <3>3. CASE s = KBD
      <4>1. /\ cur[c] \notin KbdWaiters /\ UNCHANGED value[KBD]
            /\ KbdWaiters' = KbdWaiters \cup {cur[c]}
        BY <2>0, <3>1, <3>2, <3>3 DEF KbdWaiters
      <4>2. KbdSem!Next
        BY <3>1, <4>1 DEF KbdSem!Next, KbdSem!Request
      <4> QED
        BY <4>2
    <3>4. CASE s # KBD
      BY <2>0, <3>1, <3>2, <3>4 DEF KbdWaiters
    <3> QED
      BY <3>3, <3>4
  <2>4. ASSUME NEW c \in CPU, Take(c) PROVE [KbdSem!Next]_<<value[KBD], KbdWaiters>>
    <3> DEFINE t == cur[c]
               s == waitsem[t]
    <3>1. t \in Task /\ s \in Sems
      BY <2>4, Executing DEF Take, Runs
    <3>2. /\ waitsem' = [waitsem EXCEPT ![t] = NULL] /\ value[s] > 0
          /\ value' = [value EXCEPT ![s] = value[s] - 1]
      BY <2>4 DEF Take, Available
    <3>3. CASE s = KBD
      <4>1. /\ t \in KbdWaiters /\ value[KBD] > 0 /\ value[KBD]' = value[KBD] - 1
            /\ KbdWaiters' = KbdWaiters \ {t}
        BY <2>0, <3>1, <3>2, <3>3 DEF KbdWaiters
      <4>2. KbdSem!Next
        <5> HIDE DEF t, s
        <5> QED
          BY <3>1, <4>1 DEF KbdSem!Next, KbdSem!Down
      <4> QED
        BY <4>2
    <3>4. CASE s # KBD
      BY <2>0, <3>1, <3>2, <3>4 DEF KbdWaiters
    <3> QED
      BY <3>3, <3>4
  <2>5. ASSUME NEW c \in CPU, Enqueue(c) PROVE UNCHANGED <<value[KBD], KbdWaiters>>
    BY <2>5 DEF Enqueue, KbdWaiters
  <2>6. ASSUME NEW c \in CPU, NEW s \in Sem, SemSignal(c, s)
        PROVE  UNCHANGED <<value[KBD], KbdWaiters>>
    BY <2>0, <2>6 DEF SemSignal, semsignal, KbdWaiters
  <2>7. ASSUME NEW c \in CPU, Notify(c) PROVE KbdSem!Up
    BY <2>0, <2>7 DEF Notify, semsignal, KbdSem!Up, KbdWaiters
  <2>8. ASSUME NEW c \in CPU,
               \/ Yield(c) \/ Timer(c) \/ Keyboard(c) \/ TrapLock(c) \/ Save(c) \/ SwitchCurReady(c)
               \/ SwitchScan(c) \/ ScanFound(c) \/ ScanNext(c) \/ SwitchCheck(c) \/ TrapUnlock(c)
               \/ Iret(c)
        PROVE  UNCHANGED <<value[KBD], KbdWaiters>>
    <3>1. UNCHANGED <<value, waitsem>>
      BY <2>8 DEF Yield, Timer, Keyboard, Trap, TrapLock, Save, SwitchCurReady, SwitchScan,
                  ScanFound, ScanNext, SwitchCheck, TrapUnlock, Iret, semvars
    <3> QED
      BY <2>1, <3>1
  <2>9. ASSUME NEW c \in CPU, CPUStep(c) PROVE [KbdSem!Next]_<<value[KBD], KbdWaiters>>
    BY <2>3, <2>4, <2>5, <2>6, <2>7, <2>8, <2>9 DEF CPUStep, TaskStep, TrapStep, KbdSem!Next
  <2> QED
    BY <2>2, <2>9 DEF Next, Boot, CPUStep
<1>3. IInv /\ [Next]_vars => [KbdSem!Next]_(KbdSem!vars)
  BY <1>2 DEF KbdSem!vars
<1> QED
  BY <1>1, <1>3, Invariance, PTL DEF Spec, KbdSemKeepsCount, KbdSem!SafeSpec
=============================================================================
