------------------------------- MODULE CoSpec -------------------------------
(* What libco promises to main: co_wait returns once the coroutine it names  *)
(* has finished, co_start fails only when Capacity coroutines exist.         *)
EXTENDS Naturals, FiniteSets

CONSTANTS Names, None, Capacity

VARIABLES
  status,   \* [Names -> "none", "alive" or "done" (finished, not waited for)]
  waiting,  \* the coroutine main waits for, or None
  aborted   \* main's co_start failed its assert

vars == <<status, waiting, aborted>>

Existing == {n \in Names : status[n] # "none"}

Init ==
  /\ status = [n \in Names |-> "none"]
  /\ waiting = None
  /\ aborted = FALSE

Start(n) ==
  /\ waiting = None /\ ~aborted
  /\ status[n] = "none"
  /\ Cardinality(Existing) < Capacity
  /\ status' = [status EXCEPT ![n] = "alive"]
  /\ UNCHANGED <<waiting, aborted>>

Abort ==
  /\ waiting = None /\ ~aborted
  /\ Cardinality(Existing) = Capacity
  /\ aborted' = TRUE
  /\ UNCHANGED <<status, waiting>>

Wait(n) ==
  /\ waiting = None /\ ~aborted
  /\ n \in Existing
  /\ waiting' = n
  /\ UNCHANGED <<status, aborted>>

\* Coroutines run while main waits.
Finish(n) ==
  /\ waiting # None
  /\ status[n] = "alive"
  /\ status' = [status EXCEPT ![n] = "done"]
  /\ UNCHANGED <<waiting, aborted>>

Join(n) ==
  /\ waiting = n
  /\ status[n] = "done"
  /\ status' = [status EXCEPT ![n] = "none"]
  /\ waiting' = None
  /\ UNCHANGED aborted

Next ==
  \/ Abort
  \/ \E n \in Names : Start(n) \/ Wait(n) \/ Finish(n) \/ Join(n)

\* The coroutine waited for finishes, and co_wait returns then.
Fairness ==
  \A n \in Names : WF_vars(waiting = n /\ Finish(n)) /\ WF_vars(Join(n))

SafeSpec == Init /\ [][Next]_vars

Spec == SafeSpec /\ Fairness
=============================================================================
