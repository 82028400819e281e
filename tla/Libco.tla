-------------------------------- MODULE Libco -------------------------------
(* libco/co.c: coroutines with ucontext.  main starts them and waits; they   *)
(* run only inside main's co_start (to their first co_yield) and co_wait     *)
(* (in turns).  A coroutine's saved context is how much of its body is left; *)
(* that of dual[i] is the call of main that saved it.                        *)
(*                                                                           *)
(* dual[i].state is written and never read: left out.                        *)
EXTENDS Integers, FiniteSetsExt

CONSTANTS
  MAX_CO,     \* slots
  Names,      \* the names given to co_start
  None,       \* no name
  MaxYields,  \* bound: how often a body calls co_yield
  InOrder     \* callers do as libco/tests/main.c does: a body yields at least
              \* once, and the one waited for is among the first to finish

ASSUME LibcoAssumption ==
  MAX_CO \in Nat \ {0} /\ None \notin Names /\ MaxYields \in Nat \ {0} /\ InOrder \in BOOLEAN

Slot == 0..MAX_CO - 1

VARIABLES
  coroutines,  \* [Slot -> [name, state, cnt]]
  current,     \* the running coroutine's slot, or -1 for main
  tt,          \* the slot co_wait found
  exec,        \* whose code the processor executes: a slot, or -1 for main
  left,        \* [Slot -> co_yields still ahead in the body; -1: it has returned]
  main         \* where main is: [op, slot], op one of "run", "start", "wait",
               \* "waited" (co_wait, after its swapcontext), "abort", "wild"

vars == <<coroutines, current, tt, exec, left, main>>

Main(op, i) == [op |-> op, slot |-> i]

(* co_init *)
Init ==
  /\ coroutines = [i \in Slot |-> [name |-> None, state |-> "FREE", cnt |-> 0]]
  /\ current = -1
  /\ tt = 0
  /\ exec = -1
  /\ left = [i \in Slot |-> -1]
  /\ main = Main("run", -1)

Live(i) == coroutines[i].state # "FREE"

Existing == {coroutines[i].name : i \in {j \in Slot : Live(j)}}

Free == {i \in Slot : coroutines[i].state = "FREE"}

Fresh(i, n) == [name |-> n, state |-> "RUNNING", cnt |-> 0]

\* co_start; n is not the name of another coroutine
Start(n) ==
  /\ main.op = "run" /\ n \notin Existing
  /\ IF Free = {}
       THEN main' = Main("abort", -1) /\ UNCHANGED <<coroutines, current, exec, left>>
       ELSE LET id == Min(Free) IN
            /\ coroutines' = [coroutines EXCEPT ![id] = Fresh(id, n)]
            /\ \E k \in (IF InOrder THEN 1 ELSE 0)..MaxYields :
                 left' = [left EXCEPT ![id] = k]
            /\ current' = id
            /\ exec' = id
            /\ main' = Main("start", id)
  /\ UNCHANGED tt

\* A context of main saved in a call for slot i: resuming it is sound while
\* main is in that call, and undefined when its frame is gone.
Resume(i, op) == IF main.slot = i THEN Main(op, -1) ELSE Main("wild", -1)

\* the first co_yield: back to main, in co_start
YieldFirst ==
  /\ exec # -1 /\ left[exec] > 0
  /\ coroutines[current].cnt = 0
  /\ coroutines' = [coroutines EXCEPT ![current].state = "ABLE", ![current].cnt = 1]
  /\ left' = [left EXCEPT ![exec] = @ - 1]
  /\ main' = Resume(current, "run")
  /\ current' = -1
  /\ exec' = -1
  /\ UNCHANGED tt

\* the slots in the order co_yield looks at them, from i on
After(i, k) == (i + k) % MAX_CO

\* mutant: the search starts at slot 0
Mutturn(i) == Min({j \in Slot : coroutines[j].state = "ABLE" \/ j = i})

\* whose turn it is after i, which is ABLE again itself
turn(i) ==
  After(i, Min({k \in 1..MAX_CO : k = MAX_CO \/ coroutines[After(i, k)].state = "ABLE"}))

\* mutant: the one that yields stays RUNNING
MutHandOver(i, j) == [coroutines EXCEPT ![j].state = "RUNNING"]

HandOver(i, j) == [coroutines EXCEPT ![i].state = "ABLE", ![j].state = "RUNNING"]

\* every other co_yield: the next one's turn
YieldTurn ==
  /\ exec # -1 /\ left[exec] > 0
  /\ coroutines[current].cnt # 0
  /\ left' = [left EXCEPT ![exec] = @ - 1]
  /\ LET next == turn(current) IN
       /\ coroutines' = HandOver(current, next)
       /\ current' = next
       /\ exec' = next
  /\ UNCHANGED <<tt, main>>

\* The body returns: uc_link resumes dual[exec], saved in co_start or, if
\* there was one, in co_wait.
Finish ==
  /\ exec # -1 /\ left[exec] = 0
  /\ left' = [left EXCEPT ![exec] = -1]
  /\ main' = Resume(exec, IF main.op = "wait" THEN "waited" ELSE "run")
  /\ exec' = -1
  /\ UNCHANGED <<coroutines, current, tt>>

\* the caller's duty: nobody else finishes before the coroutine in slot i
First(i) == \A j \in Slot : Live(j) => left[i] <= left[j]

\* co_wait up to its swapcontext.  It runs the coroutine only if current says
\* main is calling; a coroutine that has returned is started anew on what is
\* left of its stack.
Wait(n) ==
  /\ main.op = "run" /\ n \in Existing
  /\ tt' = Min({i \in Slot : coroutines[i].name = n})
  /\ InOrder => First(tt')
  /\ IF current # -1
       THEN main' = Main("waited", -1) /\ UNCHANGED <<coroutines, current, exec>>
       ELSE /\ coroutines' = [coroutines EXCEPT ![tt'].state = "RUNNING"]
            /\ current' = tt'
            /\ exec' = IF left[tt'] = -1 THEN -1 ELSE tt'
            /\ main' = IF left[tt'] = -1 THEN Main("wild", -1) ELSE Main("wait", tt')
  /\ UNCHANGED left

\* mutant: current is left alone
MutToMain(c) == c

ToMain(c) == -1

\* co_wait after it
Return ==
  /\ main.op = "waited"
  /\ coroutines' = [coroutines EXCEPT ![tt].state = "FREE"]
  /\ current' = ToMain(current)
  /\ main' = Main("run", -1)
  /\ UNCHANGED <<tt, exec, left>>

Coroutine == YieldFirst \/ YieldTurn \/ Finish

Next == Coroutine \/ Return \/ \E n \in Names : Start(n) \/ Wait(n)

\* One thread that keeps running; main need not call again.
Spec == Init /\ [][Next]_vars /\ WF_vars(Coroutine) /\ WF_vars(Return)

-----------------------------------------------------------------------------
(* Properties *)

\* A coroutine that goes back to main (its first co_yield, or its end by
\* uc_link) resumes a call of main that has not returned.
ReturnsToCaller == main.op # "wild"

\* current and the states agree with who runs, so that co_yield works on its
\* caller: the executing coroutine alone is RUNNING and current names it; while
\* main runs, current is -1 and every coroutine can be given a turn.
RunningIsCurrent ==
  /\ exec # -1 => current = exec
  /\ main.op = "run" => current = -1
  /\ main.op \in {"run", "start", "wait"} =>
       \A i \in Slot : Live(i) =>
         coroutines[i].state = (IF i = exec THEN "RUNNING" ELSE "ABLE")

StatusOf(n) ==
  IF n \notin Existing THEN "none"
  ELSE IF \E i \in Slot : Live(i) /\ coroutines[i].name = n /\ left[i] = -1 THEN "done"
  ELSE "alive"

StatusBar == [n \in Names |-> StatusOf(n)]
WaitingBar == IF main.op \in {"wait", "waited"} THEN coroutines[tt].name ELSE None
AbortedBar == main.op = "abort"

Co == INSTANCE CoSpec WITH
  Capacity <- MAX_CO, status <- StatusBar, waiting <- WaitingBar, aborted <- AbortedBar

\* libco keeps CoSpec's promise: co_wait returns, and only after the coroutine it
\* names has finished, whatever other coroutines had slots and names before, and
\* co_start fails only when MAX_CO coroutines exist.
RefinesCoSpec == Co!Spec

\* The safety part of it: what every step does to the coroutines and to main.
KeepsCoSpec == Co!SafeSpec

-----------------------------------------------------------------------------
(* The inductive invariant of LibcoProofs, for callers that are InOrder.     *)

TypeInv ==
  /\ coroutines \in [Slot -> [name : Names \cup {None}, state : {"FREE", "ABLE", "RUNNING"}, cnt : {0, 1}]]
  /\ {current, exec} \subseteq Slot \cup {-1} /\ tt \in Slot
  /\ left \in [Slot -> -1..MaxYields]
  /\ main \in [op : {"run", "start", "wait", "waited", "abort"}, slot : Slot \cup {-1}]

\* A slot that shares its name with a coroutine is free and behind it.
NameInv ==
  \A j \in Slot : Live(j) =>
    /\ coroutines[j].name \in Names
    /\ \A i \in Slot \ {j} : coroutines[i].name = coroutines[j].name => i > j /\ ~Live(i)

\* how many slots behind tt slot j is, in the order of the turns
Behind(j) == IF j >= tt THEN j - tt ELSE j - tt + MAX_CO

\* In a round of turns that began with tt, those that have had their turn are as
\* far from their end as tt at least, and the others have one turn more to go.
RoundInv ==
  \A j \in Slot : Live(j) /\ j # tt =>
    left[j] >= left[tt] + (IF exec # tt /\ Behind(j) >= Behind(exec) THEN 1 ELSE 0)

\* What main's place says of who executes and of who has returned.
MainInv ==
  /\ main.op \in {"run", "abort", "waited"} => exec = -1
  /\ main.op = "start" =>
       exec # -1 /\ main.slot = exec /\ Live(exec) /\ coroutines[exec].cnt = 0 /\ left[exec] > 0
  /\ main.op = "wait" => exec # -1 /\ main.slot = tt /\ Live(tt) /\ Live(exec) /\ RoundInv
  /\ main.op = "waited" =>
       Live(tt) /\ left[tt] = -1 /\ \A i \in Slot \ {tt} : Live(i) => coroutines[i].state = "ABLE"
  /\ \A i \in Slot :
       Live(i) /\ ~(main.op = "start" /\ i = exec) /\ ~(main.op = "waited" /\ i = tt) =>
         left[i] >= 0 /\ coroutines[i].cnt = 1

IInv == TypeInv /\ NameInv /\ RunningIsCurrent /\ MainInv
=============================================================================
