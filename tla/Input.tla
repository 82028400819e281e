-------------------------------- MODULE Input -------------------------------
(* kernel/src/devices/input/input.c: from scan codes to input events.        *)
(*                                                                           *)
(* The keyboard controller holds scan codes and raises IRQ 1; input_notify   *)
(* signals sem_kbdirq; input_task drains the controller, follows the         *)
(* modifier keys and pushes events on a ring; readers (tty_task, processes   *)
(* that open the device) wait on event_sem and pop them.  A section under    *)
(* in->lock and a semaphore operation are one step each (Spinlock.tla and    *)
(* Semaphore.tla).                                                           *)
EXTENDS Integers, Sequences, FiniteSets

CONSTANTS
  Letter,    \* keys whose character CAPS LOCK changes
  Other,     \* the other keys with a character
  Modifier,  \* [key -> "shift", "ctrl" or "alt"], the left and right modifier keys
  Reader,    \* who calls input_read
  NEVENTS,   \* size of the ring
  MaxCodes,  \* bound: scan codes struck
  NULL

CAPS == "capslock"
Printable == Letter \cup Other
Key == Printable \cup {CAPS} \cup DOMAIN Modifier

ASSUME InputAssumption ==
  /\ NEVENTS \in Nat \ {0, 1}
  /\ MaxCodes \in Nat
  /\ NULL \notin Key
  /\ Modifier \in [DOMAIN Modifier -> {"shift", "ctrl", "alt"}]
  /\ CAPS \notin Printable \cup DOMAIN Modifier
  /\ Printable \cap DOMAIN Modifier = {}

\* What read_key makes of a scan code.  NULL: the controller sent a code that
\* is in no table (a prefix, an unknown key), and read_key returns 0.
Code == [key : Key, down : BOOLEAN] \cup {NULL}
Event == [ctrl : BOOLEAN, alt : BOOLEAN, key : Printable, shifted : BOOLEAN]
Slot == 0..(NEVENTS - 1)

ASSUME EventAssumption == NULL \notin Event

VARIABLES
  fifo,               \* scan codes the controller holds
  irr,                \* IRQ 1 is pending
  kbdirq,             \* value of sem_kbdirq
  pc, ev,             \* where input_task is, the event it pushes
  capslock, down,     \* modifier state: the flag, the modifier keys that are down
  events, front, rear,
  event_sem,          \* its value
  rpc,                \* [Reader -> where it is in input_read]
  struck, popped      \* history: the codes struck, the events read

kbdvars == <<fifo, irr, struck>>
modvars == <<capslock, down>>
ringvars == <<events, front, rear>>
vars == <<fifo, irr, kbdirq, pc, ev, capslock, down, events, front, rear, event_sem,
          rpc, struck, popped>>

Init ==
  /\ fifo = <<>> /\ irr = FALSE /\ struck = <<>>
  /\ kbdirq = 0 /\ event_sem = 0
  /\ pc = "read" /\ ev = NULL
  /\ capslock = FALSE /\ down = {}
  /\ events = [i \in Slot |-> NULL] /\ front = 0 /\ rear = 0
  /\ rpc = [r \in Reader |-> "wait"]
  /\ popped = <<>>

\* mutant: off by one around the end
Mutnext(i) == (i + 1) % (NEVENTS + 1)

next(i) == (i + 1) % NEVENTS

\* in->lock is not held by somebody who panicked inside.
LockFree == pc # "panic" /\ \A r \in Reader : rpc[r] # "panic"

-----------------------------------------------------------------------------
(* The controller: a code that becomes readable raises the interrupt; a      *)
(* second one before the first is taken is the same pending interrupt.       *)

Strike(code) ==
  /\ Len(struck) < MaxCodes
  /\ struck' = Append(struck, code)
  /\ fifo' = Append(fifo, code)
  /\ irr' = (irr \/ fifo = <<>>)
  /\ UNCHANGED <<kbdirq, pc, ev, modvars, ringvars, event_sem, rpc, popped>>

input_notify ==
  /\ irr
  /\ irr' = FALSE
  /\ kbdirq' = kbdirq + 1
  /\ UNCHANGED <<fifo, pc, ev, modvars, ringvars, event_sem, rpc, struck, popped>>

-----------------------------------------------------------------------------
(* input_task                                                                *)

held(kind) == \E k \in down : Modifier[k] = kind

\* mutant: CAPS LOCK also shifts digits
Mutevent(k) ==
  LET plain == ~held("ctrl") /\ ~held("alt") IN
  [ctrl |-> held("ctrl"), alt |-> held("alt"), key |-> k,
   shifted |-> plain /\ (held("shift") # capslock)]

\* input_keydown: the event of a key with a character
event(k) ==
  LET plain == ~held("ctrl") /\ ~held("alt") IN
  [ctrl |-> held("ctrl"), alt |-> held("alt"), key |-> k,
   shifted |-> plain /\ (held("shift") # (capslock /\ k \in Letter))]

\* read_key takes a code from the controller, which then shows the next one.
TakeCode ==
  /\ fifo' = Tail(fifo)
  /\ irr' = (irr \/ Len(fifo) > 1)
  /\ UNCHANGED struck

\* read_key returns 0: there is no code, or one it does not know.
ReadNothing ==
  /\ pc = "read"
  /\ \/ fifo = <<>> /\ UNCHANGED kbdvars
     \/ fifo # <<>> /\ Head(fifo) = NULL /\ TakeCode
  /\ pc' = "wait"
  /\ UNCHANGED <<kbdirq, ev, modvars, ringvars, event_sem, rpc, popped>>

\* input_keydown(dev, code) up to its push_event
ReadKey ==
  /\ pc = "read"
  /\ fifo # <<>> /\ Head(fifo) # NULL
  /\ TakeCode
  /\ LET k == Head(fifo).key
         pressed == Head(fifo).down
     IN /\ capslock' = IF k = CAPS /\ pressed THEN ~capslock ELSE capslock
        /\ down' = IF k \notin DOMAIN Modifier THEN down
                   ELSE IF pressed THEN down \cup {k} ELSE down \ {k}
        /\ IF k \in Printable /\ pressed
           THEN pc' = "push" /\ ev' = event(k)
           ELSE UNCHANGED <<pc, ev>>
  /\ UNCHANGED <<kbdirq, ringvars, event_sem, rpc, popped>>

\* mutant: one slot of the ring is never used
MutFills == front \in {next(rear), next(next(rear))}

\* the event fills the ring
Fills == next(rear) = front

\* mutant: event_sem is signalled before the event is in the ring
Mutpush ==
  /\ pc \in {"push", "late"}
  /\ LockFree
  /\ IF pc = "push"
     THEN pc' = "late" /\ event_sem' = event_sem + 1 /\ UNCHANGED <<ev, ringvars>>
     ELSE /\ events' = [events EXCEPT ![rear] = ev]
          /\ rear' = next(rear)
          /\ pc' = IF Fills THEN "panic" ELSE "read"
          /\ ev' = NULL
          /\ UNCHANGED <<front, event_sem>>
  /\ UNCHANGED <<kbdvars, kbdirq, modvars, rpc, popped>>

\* push_event's section under in->lock
push ==
  /\ pc = "push"
  /\ LockFree
  /\ events' = [events EXCEPT ![rear] = ev]
  /\ rear' = next(rear)
  /\ pc' = IF Fills THEN "panic" ELSE "signal"
  /\ ev' = NULL
  /\ UNCHANGED <<kbdvars, kbdirq, modvars, front, event_sem, rpc, popped>>

\* mutant: event_sem is a binary semaphore
MutSignalled == 1

Signalled == event_sem + 1

signal ==
  /\ pc = "signal"
  /\ event_sem' = Signalled
  /\ pc' = "read"
  /\ UNCHANGED <<kbdvars, kbdirq, ev, modvars, ringvars, rpc, popped>>

Wait ==
  /\ pc = "wait"
  /\ kbdirq > 0
  /\ kbdirq' = kbdirq - 1
  /\ pc' = "read"
  /\ UNCHANGED <<kbdvars, ev, modvars, ringvars, event_sem, rpc, popped>>

-----------------------------------------------------------------------------
(* input_read -> pop_event                                                   *)

ReadWait(r) ==
  /\ rpc[r] = "wait"
  /\ event_sem > 0
  /\ event_sem' = event_sem - 1
  /\ rpc' = [rpc EXCEPT ![r] = "pop"]
  /\ UNCHANGED <<kbdvars, kbdirq, pc, ev, modvars, ringvars, popped>>

Pop(r) ==
  /\ rpc[r] = "pop"
  /\ LockFree
  /\ rpc' = [rpc EXCEPT ![r] = IF rear = front THEN "panic" ELSE "wait"]
  /\ IF rear = front
     THEN UNCHANGED <<front, popped>>
     ELSE front' = next(front) /\ popped' = Append(popped, events[front])
  /\ UNCHANGED <<kbdvars, kbdirq, pc, ev, modvars, events, rear, event_sem>>

-----------------------------------------------------------------------------
InputTask == ReadNothing \/ ReadKey \/ push \/ signal \/ Wait
ReaderStep(r) == ReadWait(r) \/ Pop(r)

Next ==
  \/ \E code \in Code : Strike(code)
  \/ input_notify
  \/ InputTask
  \/ \E r \in Reader : ReaderStep(r)

Spec == Init /\ [][Next]_vars

(* Interrupts are taken and the tasks scheduled (Kmt.tla); semaphores let    *)
(* some waiter through (SemSpec).  Nobody has to strike a key.               *)
Fairness ==
  /\ WF_vars(input_notify)
  /\ WF_vars(InputTask)
  /\ WF_vars(\E r \in Reader : ReadWait(r))
  /\ \A r \in Reader : WF_vars(Pop(r))

FairSpec == Spec /\ Fairness

-----------------------------------------------------------------------------
(* Properties *)

\* Every variable has its type; the ring's indices never leave the array.
TypeOK ==
  /\ fifo \in Seq(Code) /\ struck \in Seq(Code)
  /\ irr \in BOOLEAN /\ capslock \in BOOLEAN
  /\ kbdirq \in Nat /\ event_sem \in Nat
  /\ pc \in {"read", "push", "signal", "wait", "panic"}
  /\ ev \in Event \cup {NULL}
  /\ down \subseteq DOMAIN Modifier
  /\ events \in [Slot -> Event \cup {NULL}]
  /\ front \in Slot /\ rear \in Slot
  /\ rpc \in [Reader -> {"wait", "pop", "panic"}]
  /\ popped \in Seq(Event)

\* Events in the ring.
Count == (rear - front) % NEVENTS
Pending == [i \in 1..Count |-> events[(front + i - 1) % NEVENTS]]

\* A reader that event_sem let in finds an event: "input queue empty" is never
\* reached, however many readers and whatever input_task is doing.
ReaderFindsEvent == \A r \in Reader : rpc[r] # "panic"

(* What a keyboard should produce, said of the codes alone: key k is held at *)
(* i if it went down before i and not up since, CAPS LOCK is on after an odd *)
(* number of strokes.                                                        *)
Presses(code, k) == code # NULL /\ code.key = k /\ code.down
Releases(code, k) == code # NULL /\ code.key = k /\ ~code.down
IsHeld(s, i, k) ==
  \E j \in 1..(i - 1) : Presses(s[j], k) /\ \A l \in j..(i - 1) : ~Releases(s[l], k)
CapsOn(s, i) == Cardinality({j \in 1..(i - 1) : Presses(s[j], CAPS)}) % 2 = 1

MeantAt(s, i) ==
  LET on(kind) == \E k \in DOMAIN Modifier : Modifier[k] = kind /\ IsHeld(s, i, k)
      k == s[i].key
  IN [ctrl |-> on("ctrl"), alt |-> on("alt"), key |-> k,
      shifted |-> /\ ~on("ctrl") /\ ~on("alt")
                  /\ IF k \in Letter THEN on("shift") # CapsOn(s, i) ELSE on("shift")]

\* The strokes of characters among the first n codes, and how many i makes.
Strokes(s, n) == {i \in 1..n : \E k \in Printable : Presses(s[i], k)}
Rank(s, i) == Cardinality(Strokes(s, i))

Meant(s, n) ==
  [m \in 1..Cardinality(Strokes(s, n)) |->
     MeantAt(s, CHOOSE i \in Strokes(s, n) : Rank(s, i) = m)]

\* how many codes read_key has taken from the controller
taken == Len(struck) - Len(fifo)

\* Nothing is lost, repeated, reordered or mixed up with another modifier state:
\* the events read, those in the ring and the one being pushed are what the
\* codes taken from the controller mean.
EventsAsStruck ==
  pc # "panic" =>
    Meant(struck, taken) = popped \o Pending \o (IF ev = NULL THEN <<>> ELSE <<ev>>)

\* input_task gives up ("input queue full") only when NEVENTS strokes are unread.
PanicMeansFull ==
  pc = "panic" => Len(Meant(struck, taken)) - Len(popped) = NEVENTS

\* Every stroke is read in the end, unless a full ring stops the machine: no key
\* stays in the controller although read_key's 0 means an unknown code as well as
\* an empty controller.
EveryStrokeRead ==
  \A n \in 1..MaxCodes :
    Len(Meant(struck, Len(struck))) >= n ~> Len(popped) >= n \/ pc = "panic"

-----------------------------------------------------------------------------
(* The inductive invariant of InputProofs. *)

\* What the controller still holds is the end of what was struck.
FifoInv ==
  /\ Len(fifo) <= Len(struck)
  /\ \A i \in 1..Len(fifo) : fifo[i] = struck[taken + i]

\* input_task's modifier state is that of the codes it has taken.
ModInv ==
  /\ down = {k \in DOMAIN Modifier : IsHeld(struck, taken + 1, k)}
  /\ capslock = CapsOn(struck, taken + 1)

\* The readers that event_sem let in and the units it has left are the events of
\* the ring, but for the one not signalled yet.
Popping == {r \in Reader : rpc[r] = "pop"}
SemInv ==
  /\ IsFiniteSet(Popping) /\ ReaderFindsEvent
  /\ pc # "panic" =>
       Count = event_sem + Cardinality(Popping) + (IF pc = "signal" THEN 1 ELSE 0)

\* the m-th event: read, in the ring, or being pushed
Nth(m) ==
  IF m <= Len(popped) THEN popped[m]
  ELSE IF m <= Len(popped) + Count THEN Pending[m - Len(popped)]
  ELSE ev

\* Each stroke taken is the event of its rank, and no rank is left out.
EventInv ==
  LET strokes == Strokes(struck, taken) IN
  /\ \A m \in 1..Cardinality(strokes) : \E i \in strokes : Rank(struck, i) = m
  /\ pc # "panic" =>
       /\ Cardinality(strokes) = Len(popped) + Count + (IF ev = NULL THEN 0 ELSE 1)
       /\ \A i \in strokes : Nth(Rank(struck, i)) = MeantAt(struck, i)
  /\ pc = "panic" => Cardinality(strokes) = Len(popped) + NEVENTS
  /\ ev # NULL <=> pc = "push"

IInv == TypeOK /\ FifoInv /\ ModInv /\ SemInv /\ EventInv
=============================================================================
