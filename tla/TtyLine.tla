------------------------------- MODULE TtyLine ------------------------------
(* kernel/src/devices/tty/tty.c: the line discipline.  tty_task cooks the    *)
(* characters of input events into a ring of bytes, readers take them up to  *)
(* the next '\0'.  tty->lock is a semaphore used as a mutex, tty->cooked      *)
(* counts the Enters; what happens between a wait and a signal of the lock   *)
(* is one step, the waits and signals are steps of their own.                *)
(*                                                                           *)
(* keymap_shift has nothing for Return: Shift+Return is an event with data 0 *)
(* (input.c), and tty_cook takes that as a character like others, though a   *)
(* '\0' in the ring ends a line.                                             *)
EXTENDS Integers, Sequences, FiniteSets

CONSTANTS
  Char,      \* ordinary characters
  Reader,    \* the callers of tty_read
  SZ,        \* TTY_COOK_BUF_SZ
  MaxTyped   \* bound: characters typed

NL == "newline"
BS == "backspace"
NUL == "nul"

ASSUME TtyAssumption ==
  /\ SZ \in Nat \ {0, 1}
  /\ MaxTyped \in Nat
  /\ {NL, BS, NUL} \cap Char = {}

VARIABLES
  buf, front, rear,  \* struct tty_queue, pointers as indices of buf
  lock, cooked,      \* values of the two semaphores
  pc,    \* tty_task: "idle", "locked", "cooked" (line complete), "unlock", "panic"
  ch,    \* the character tty_cook was called with
  rpc,   \* [Reader -> "wait", "lock", "read", "unlock"]
  typed, \* characters typed so far
  given, \* history: what tty_read took, oldest first
  breaks \* history: Shift+Returns stored, which cooked does not count

queue == <<buf, front, rear>>
vars == <<buf, front, rear, lock, cooked, pc, ch, rpc, typed, given, breaks>>
history == <<given, breaks>>

Slot == 0..(SZ - 1)
next(i) == (i + 1) % SZ

\* tty_init; fresh memory is zero.
Init ==
  /\ buf = [i \in Slot |-> NUL] /\ front = 0 /\ rear = 0
  /\ lock = 1 /\ cooked = 0
  /\ pc = "idle" /\ ch = NUL
  /\ rpc = [r \in Reader |-> "wait"]
  /\ typed = 0 /\ given = <<>> /\ breaks = 0

-----------------------------------------------------------------------------
(* The ring *)

\* tty_enqueue: store, advance, panic if that fills the ring, sentinel
enqueue(q, c) ==
  LET r == next(q.rear) IN
  [buf |-> IF r = front THEN [q.buf EXCEPT ![q.rear] = c]
           ELSE [q.buf EXCEPT ![q.rear] = c, ![r] = NUL],
   rear |-> r, full |-> q.full \/ r = front]

\* mutant: erases whatever is behind rear
MutPopsBack == TRUE

\* tty_pop_back's test: the byte behind rear is not a line's terminator
PopsBack == buf[(rear - 1) % SZ] # NUL

Q == [buf |-> buf, rear |-> rear, full |-> FALSE]

-----------------------------------------------------------------------------
(* tty_cook(tty, ch), called by tty_task *)

Cook(c) ==
  /\ pc = "idle"
  /\ typed < MaxTyped
  /\ lock > 0
  /\ lock' = lock - 1
  /\ typed' = typed + 1
  /\ ch' = c
  /\ pc' = "locked"
  /\ UNCHANGED <<queue, cooked, rpc, history>>

\* The queue becomes q unless it is full.
Put(q, to) ==
  /\ buf' = q.buf
  /\ rear' = q.rear
  /\ pc' = IF q.full THEN "panic" ELSE to

\* mutant: a line is announced before its terminator is there
MutCookLine ==
  /\ pc \in {"locked", "late"}
  /\ pc = "locked" => ch = NL
  /\ IF pc = "locked"
     THEN pc' = "late" /\ cooked' = cooked + 1 /\ UNCHANGED <<buf, rear>>
     ELSE Put(enqueue(enqueue(Q, NL), NUL), "unlock") /\ UNCHANGED cooked
  /\ UNCHANGED <<front, lock, ch, rpc, typed, history>>

CookLine ==
  /\ pc = "locked"
  /\ ch = NL
  /\ LET q == enqueue(Q, NL) IN Put(IF q.full THEN q ELSE enqueue(q, NUL), "cooked")
  /\ UNCHANGED <<front, lock, cooked, ch, rpc, typed, history>>

SignalCooked ==
  /\ pc = "cooked"
  /\ cooked' = cooked + 1
  /\ pc' = "unlock"
  /\ UNCHANGED <<queue, lock, ch, rpc, typed, history>>

CookBackspace ==
  /\ pc = "locked"
  /\ ch = BS
  /\ IF PopsBack
     THEN /\ rear' = (rear - 1) % SZ
          /\ buf' = [buf EXCEPT ![(rear - 1) % SZ] = NUL]
     ELSE UNCHANGED <<buf, rear>>
  /\ pc' = "unlock"
  /\ UNCHANGED <<front, lock, cooked, ch, rpc, typed, history>>

\* the default of the switch; '\0' falls there too
CookChar ==
  /\ pc = "locked"
  /\ ch \in Char \cup {NUL}
  /\ LET q == enqueue(Q, ch) IN
     /\ Put(q, "unlock")
     /\ breaks' = IF ch = NUL /\ ~q.full THEN breaks + 1 ELSE breaks
  /\ UNCHANGED <<front, lock, cooked, ch, rpc, typed, given>>

CookUnlock ==
  /\ pc = "unlock"
  /\ lock' = lock + 1
  /\ ch' = NUL
  /\ pc' = "idle"
  /\ UNCHANGED <<queue, cooked, rpc, typed, history>>

-----------------------------------------------------------------------------
(* tty_read *)

ReadWait(r) ==
  /\ rpc[r] = "wait"
  /\ cooked > 0
  /\ cooked' = cooked - 1
  /\ rpc' = [rpc EXCEPT ![r] = "lock"]
  /\ UNCHANGED <<queue, lock, pc, ch, typed, history>>

ReadLock(r) ==
  /\ rpc[r] = "lock"
  /\ lock > 0
  /\ lock' = lock - 1
  /\ rpc' = [rpc EXCEPT ![r] = "read"]
  /\ UNCHANGED <<queue, cooked, pc, ch, typed, history>>

\* The loop takes bytes up to and including the first '\0' from front on.  (What
\* of it fits into the caller's buffer is the caller's; all of it is taken.)
Length(f) == CHOOSE n \in 0..SZ : /\ buf[(f + n) % SZ] = NUL
                                  /\ \A k \in 0..(n - 1) : buf[(f + k) % SZ] # NUL
Bytes(f, n) == [k \in 1..n |-> buf[(f + k - 1) % SZ]]

Read(r) ==
  /\ rpc[r] = "read"
  /\ front' = (front + Length(front) + 1) % SZ
  /\ given' = Append(given, Bytes(front, Length(front)))
  /\ rpc' = [rpc EXCEPT ![r] = "unlock"]
  /\ UNCHANGED <<buf, rear, lock, cooked, pc, ch, typed, breaks>>

ReadUnlock(r) ==
  /\ rpc[r] = "unlock"
  /\ lock' = lock + 1
  /\ rpc' = [rpc EXCEPT ![r] = "wait"]
  /\ UNCHANGED <<queue, cooked, pc, ch, typed, history>>

-----------------------------------------------------------------------------
CookStep == CookLine \/ SignalCooked \/ CookBackspace \/ CookChar \/ CookUnlock
Next ==
  \/ \E c \in Char \cup {NL, BS, NUL} : Cook(c)
  \/ CookStep
  \/ \E r \in Reader : ReadWait(r) \/ ReadLock(r) \/ Read(r) \/ ReadUnlock(r)

Spec == Init /\ [][Next]_vars

(* The tasks run and the semaphores let somebody through (SemSpec); a reader *)
(* that competes for the lock gets it if it is free again and again.         *)
Fairness ==
  /\ WF_vars(CookStep)
  /\ WF_vars(\E r \in Reader : ReadWait(r))
  /\ \A r \in Reader : SF_vars(ReadLock(r)) /\ WF_vars(Read(r)) /\ WF_vars(ReadUnlock(r))

FairSpec == Spec /\ Fairness

-----------------------------------------------------------------------------
(* Properties *)

\* Every variable has its type; the lock is a mutex, its value 0 or 1.
TypeOK ==
  /\ buf \in [Slot -> Char \cup {NL, NUL}]
  /\ front \in Slot /\ rear \in Slot
  /\ lock \in {0, 1} /\ cooked \in Nat
  /\ pc \in {"idle", "locked", "cooked", "unlock", "panic"}
  /\ ch \in Char \cup {NL, BS, NUL}
  /\ rpc \in [Reader -> {"wait", "lock", "read", "unlock"}]
  /\ typed \in 0..MaxTyped
  /\ given \in Seq(Seq(Char \cup {NL}))
  /\ breaks \in 0..MaxTyped

\* What is in the ring, oldest byte first.  The put that filled it up and stopped
\* the kernel does not count: it stored one byte, or NL and the end mark.
Before ==
  IF pc # "panic" THEN rear
  ELSE IF ch = NL /\ buf[(rear - 1) % SZ] = NUL THEN (rear - 2) % SZ ELSE (rear - 1) % SZ
Content == [k \in 1..((Before - front) % SZ) |-> buf[(front + k - 1) % SZ]]
Ends == {k \in 1..Len(Content) : Content[k] = NUL}

\* The readers let in, and to be let in for the Enters there were.
Ready ==
  cooked + Cardinality({r \in Reader : rpc[r] \in {"lock", "read"}})
         + (IF pc = "cooked" THEN 1 ELSE 0)

\* Each terminator in the ring is that of an Enter, for which a reader is or will be
\* let in, or of a Shift+Return: a reader that gets the lock finds a terminator
\* before rear and never runs past it.
LinesCounted == Cardinality(Ends) = Ready + breaks

\* The name tty_init gives the semaphore, "tty cooked lines": it counts them.
CookedLines == Cardinality(Ends) = Ready

(* The ring as LineSpec sees it: pieces end at a NUL, the rest can be erased. *)
LastEnd == IF Ends = {} THEN 0 ELSE CHOOSE k \in Ends : \A j \in Ends : j <= k
EndsBefore(k) == {j \in Ends : j < k}
Start(k) == IF EndsBefore(k) = {} THEN 1
            ELSE (CHOOSE j \in EndsBefore(k) : \A i \in EndsBefore(k) : i <= j) + 1
LineNumber(n) == CHOOSE k \in Ends : Cardinality(EndsBefore(k)) = n - 1

Discipline == INSTANCE LineSpec WITH
  Capacity <- SZ - 1,
  stopped <- pc = "panic",
  ready <- Ready,
  line <- SubSeq(Content, LastEnd + 1, Len(Content)),
  lines <- [n \in 1..Cardinality(Ends) |->
              SubSeq(Content, Start(LineNumber(n)), LineNumber(n) - 1)]

\* The tty keeps the promise of LineSpec: what is typed is given in order, each
\* piece to one reader, one for each Enter; erasing never reaches into a piece that
\* is complete; for every Enter a piece is read in the end; and "tty queue full"
\* stops the kernel only when what nobody has read leaves no room in the SZ - 1
\* bytes the ring holds, wherever in the ring it lies.
RefinesLineSpec == Discipline!Spec
=============================================================================
