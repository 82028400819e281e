------------------------------- MODULE SemSpec ------------------------------
(* What a counting semaphore promises: sem_wait returns only by consuming    *)
(* one unit of value, sem_signal adds one, and while there is value and a    *)
(* task in sem_wait, some sem_wait eventually returns (no wake-up is lost).  *)
(* It does not promise which: a newcomer may overtake a woken task.          *)
EXTENDS Integers

CONSTANTS Task, InitialValue

VARIABLES
  value,    \* units available
  waiting   \* tasks inside sem_wait

vars == <<value, waiting>>

Init ==
  /\ value = InitialValue
  /\ waiting = {}

Request(t) ==
  /\ t \notin waiting
  /\ waiting' = waiting \cup {t}
  /\ UNCHANGED value

Down(t) ==
  /\ t \in waiting
  /\ value > 0
  /\ value' = value - 1
  /\ waiting' = waiting \ {t}

Up ==
  /\ value' = value + 1
  /\ UNCHANGED waiting

Next == (\E t \in Task : Request(t) \/ Down(t)) \/ Up

SafeSpec == Init /\ [][Next]_vars

Spec == SafeSpec /\ WF_vars(\E t \in Task : Down(t))
=============================================================================
