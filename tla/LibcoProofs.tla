----------------------------- MODULE LibcoProofs ----------------------------
(* Proofs about Libco, for any number of slots, names and co_yields, and for *)
(* callers that do as libco/tests/main.c does (InOrder).                     *)
EXTENDS Libco, FiniteSetTheorems, WellFoundedInduction, TLAPS

LEMMA Slots ==
  /\ MAX_CO \in Nat \ {0} /\ Slot = 0..(MAX_CO - 1) /\ -1 \notin Slot /\ 0 \in Slot
  /\ MaxYields \in Nat \ {0} /\ None \notin Names
BY LibcoAssumption DEF Slot

(* A set of natural numbers has a least element, which Min chooses.          *)
LEMMA MinIsLeast ==
  ASSUME NEW S \in SUBSET Nat, S # {}
  PROVE  Min(S) \in S /\ \A y \in S : Min(S) <= y
<1> DEFINE R == {ss \in Nat \X Nat : ss[1] < ss[2]}
<1>1. IsWellFoundedOn(R, Nat)
  BY NatLessThanWellFounded DEF OpToRel
<1>2. PICK x \in S : \A y \in S : <<y, x>> \notin R
  <2> HIDE DEF R
  <2> QED
    BY <1>1, WFMin
<1>3. \A y \in S : x <= y
  <2> SUFFICES ASSUME NEW y \in S PROVE x <= y
    OBVIOUS
  <2>1. ~(y < x)
    <3>1. <<y, x>> \in Nat \X Nat /\ <<y, x>>[1] = y /\ <<y, x>>[2] = x
      OBVIOUS
    <3> QED
      BY <1>2, <3>1
  <2> QED
    BY <2>1
<1>4. \E z \in S : \A y \in S : z <= y
  BY <1>3
<1> QED
  BY <1>4 DEF Min

-----------------------------------------------------------------------------
(* The order of the turns.                                                   *)

\* how many slots after i the search of co_yield comes to j
Ahead(i, j) == IF j > i THEN j - i ELSE j - i + MAX_CO

LEMMA AfterIs ==
  ASSUME NEW i \in Slot, NEW k \in 1..MAX_CO
  PROVE  /\ After(i, k) = IF i + k < MAX_CO THEN i + k ELSE i + k - MAX_CO
         /\ After(i, k) \in Slot /\ Ahead(i, After(i, k)) = k
<1>1. MAX_CO \in Nat \ {0} /\ i \in 0..(MAX_CO - 1)
  BY Slots
<1>2. After(i, k) = IF i + k < MAX_CO THEN i + k ELSE i + k - MAX_CO
  <2>1. CASE i + k < MAX_CO
    BY <1>1, <2>1 DEF After
  <2>2. CASE i + k >= MAX_CO
    <3>1. i + k = MAX_CO + (i + k - MAX_CO) /\ i + k - MAX_CO \in 0..(MAX_CO - 1)
      BY <1>1, <2>2
    <3> QED
      BY <1>1, <2>2, <3>1 DEF After
  <2> QED
    BY <1>1, <2>1, <2>2
<1> QED
  BY <1>1, <1>2, Slots DEF Ahead

(* The turn goes to the first ABLE slot after i, or back to i if there is    *)
(* none.                                                                     *)
LEMMA TurnIs ==
  ASSUME NEW i \in Slot
  PROVE  /\ turn(i) \in Slot
         /\ turn(i) = i \/ coroutines[turn(i)].state = "ABLE"
         /\ \A j \in Slot : coroutines[j].state = "ABLE" => Ahead(i, turn(i)) <= Ahead(i, j)
<1> DEFINE S == {k \in 1..MAX_CO : k = MAX_CO \/ coroutines[After(i, k)].state = "ABLE"}
           m == Min(S)
<1>0. MAX_CO \in Nat \ {0} /\ i \in 0..(MAX_CO - 1) /\ Slot = 0..(MAX_CO - 1)
  BY Slots
<1>1. m \in S /\ \A y \in S : m <= y
  <2>1. MAX_CO \in S /\ S \in SUBSET Nat
    BY <1>0
  <2> HIDE DEF S
  <2> QED
    BY <2>1, MinIsLeast
<1>2. turn(i) = After(i, m)
  BY DEF turn
<1>3. m \in 1..MAX_CO /\ (m = MAX_CO \/ coroutines[After(i, m)].state = "ABLE")
  BY <1>1
<1> HIDE DEF m
<1>4. turn(i) \in Slot /\ Ahead(i, turn(i)) = m
  BY <1>2, <1>3, AfterIs
<1>5. m = MAX_CO => After(i, m) = i
  BY <1>0, <1>3, AfterIs
<1>6. ASSUME NEW j \in Slot, coroutines[j].state = "ABLE" PROVE m <= Ahead(i, j)
  <2>1. Ahead(i, j) \in 1..MAX_CO
    BY <1>0 DEF Ahead
  <2>2. After(i, Ahead(i, j)) = j
    <3>1. After(i, Ahead(i, j))
            = IF i + Ahead(i, j) < MAX_CO THEN i + Ahead(i, j) ELSE i + Ahead(i, j) - MAX_CO
      BY <2>1, AfterIs
    <3> QED
      BY <1>0, <3>1 DEF Ahead
  <2>3. Ahead(i, j) \in S
    BY <1>6, <2>1, <2>2
  <2> QED
    BY <1>1, <2>3
<1> QED
  BY <1>2, <1>3, <1>4, <1>5, <1>6

-----------------------------------------------------------------------------
(* The inductive invariant.                                                  *)

LEMMA InitIInv == Init => IInv
<1> SUFFICES ASSUME Init PROVE IInv
  OBVIOUS
<1>1. \A i \in Slot : coroutines[i].state = "FREE"
  BY DEF Init
<1>2. \A i \in Slot : ~Live(i)
  BY <1>1 DEF Live
<1>3. main.op = "run" /\ main \in [op : {"run"}, slot : {-1}]
  BY DEF Init, Main
<1>4. TypeInv
  <2>1. coroutines \in [Slot -> [name : Names \cup {None}, state : {"FREE", "ABLE", "RUNNING"}, cnt : {0, 1}]]
    BY DEF Init
  <2>2. left \in [Slot -> -1..MaxYields]
    BY Slots DEF Init
  <2> QED
    BY <1>3, <2>1, <2>2, Slots DEF Init, TypeInv
<1> QED
  BY <1>2, <1>3, <1>4 DEF IInv, NameInv, RunningIsCurrent, MainInv, Init

(* What IInv says of the type, in the form the steps use.                    *)
LEMMA Types ==
  ASSUME TypeInv
  PROVE  /\ \A i \in Slot : /\ coroutines[i].name \in Names \cup {None}
                            /\ coroutines[i].state \in {"FREE", "ABLE", "RUNNING"}
                            /\ coroutines[i].cnt \in {0, 1}
                            /\ left[i] \in -1..MaxYields
         /\ DOMAIN coroutines = Slot /\ DOMAIN left = Slot
         /\ current \in Slot \cup {-1} /\ exec \in Slot \cup {-1} /\ tt \in Slot
         /\ main.op \in {"run", "start", "wait", "waited", "abort"} /\ main.slot \in Slot \cup {-1}
BY DEF TypeInv

LEMMA StartStep ==
  ASSUME InOrder, IInv, NEW n \in Names, Start(n)
  PROVE  IInv'
<1>0. TypeInv /\ NameInv /\ RunningIsCurrent /\ MainInv
  BY DEF IInv
<1>1. main.op = "run" /\ n \notin Existing /\ tt' = tt /\ exec = -1 /\ current = -1
  BY <1>0 DEF Start, RunningIsCurrent, MainInv
<1>2. CASE Free = {}
  <2>1. main' = Main("abort", -1) /\ UNCHANGED <<coroutines, current, exec, left>>
    BY <1>2 DEF Start
  <2>2. main'.op = "abort" /\ main' \in [op : {"abort"}, slot : {-1}]
    BY <2>1 DEF Main
  <2>3. TypeInv'
    BY <1>0, <1>1, <2>1, <2>2 DEF TypeInv
  <2>4. \A i \in Slot : Live(i)' = Live(i)
    BY <2>1 DEF Live
  <2>5. NameInv'
    BY <1>0, <2>1, <2>4 DEF NameInv
  <2>6. RunningIsCurrent' /\ MainInv'
    BY <1>0, <1>1, <2>1, <2>2, <2>4 DEF MainInv, RunningIsCurrent
  <2> QED
    BY <2>3, <2>5, <2>6 DEF IInv
<1>3. CASE Free # {}
  <2> DEFINE id == Min(Free)
  <2>1. id \in Free /\ \A y \in Free : id <= y
    <3>1. Free \in SUBSET Nat
      BY Slots DEF Free
    <3> HIDE DEF Free
    <3> QED
      BY <1>3, <3>1, MinIsLeast
  <2>2. PICK k \in 1..MaxYields : left' = [left EXCEPT ![id] = k]
    BY <1>3, Zenon DEF Start
  <2>3. /\ coroutines' = [coroutines EXCEPT ![id] = Fresh(id, n)]
        /\ current' = id /\ exec' = id /\ main' = Main("start", id)
    BY <1>3 DEF Start
  <2> HIDE DEF id
  <2>4. id \in Slot /\ ~Live(id) /\ \A i \in Slot : ~Live(i) => id <= i
    BY <2>1 DEF Free, Live
  <2>5. main'.op = "start" /\ main'.slot = id /\ main' \in [op : {"start"}, slot : Slot]
    BY <2>3, <2>4 DEF Main
  <2>6. /\ Fresh(id, n) \in [name : Names, state : {"RUNNING"}, cnt : {0}]
        /\ Fresh(id, n).name = n /\ Fresh(id, n).state = "RUNNING" /\ Fresh(id, n).cnt = 0
    BY DEF Fresh
  <2>7. \A i \in Slot : coroutines'[i] = IF i = id THEN Fresh(id, n) ELSE coroutines[i]
    BY <1>0, <2>3, <2>4 DEF TypeInv
  <2>8. \A i \in Slot : left'[i] = IF i = id THEN k ELSE left[i]
    BY <1>0, <2>2, <2>4 DEF TypeInv
  <2>9. \A i \in Slot : Live(i)' <=> i = id \/ Live(i)
    BY <2>6, <2>7 DEF Live
  <2>10. TypeInv'
    BY <1>0, <1>1, <2>2, <2>3, <2>4, <2>5, <2>6, Slots DEF TypeInv
  <2>11. NameInv'
    <3> SUFFICES ASSUME NEW j \in Slot, Live(j)'
                 PROVE  /\ coroutines'[j].name \in Names
                        /\ \A i \in Slot \ {j} :
                             coroutines'[i].name = coroutines'[j].name => i > j /\ ~Live(i)'
      BY DEF NameInv
    <3>1. \A i \in Slot : Live(i) => coroutines[i].name # n
      BY <1>1 DEF Existing
    <3>2. CASE j = id
      <4>1. ASSUME NEW i \in Slot \ {j}, coroutines'[i].name = coroutines'[j].name
            PROVE  i > j /\ ~Live(i)'
        <5>1. coroutines[i].name = n
          BY <2>6, <2>7, <3>2, <4>1
        <5>2. ~Live(i) /\ id <= i /\ i # id
          BY <2>4, <3>1, <3>2, <5>1
        <5> QED
          BY <2>4, <2>9, <3>2, <5>2, Slots
      <4> QED
        BY <2>6, <2>7, <3>2, <4>1
    <3>3. CASE j # id
      <4>1. Live(j) /\ coroutines'[j] = coroutines[j]
        BY <2>7, <2>9, <3>3
      <4>2. ASSUME NEW i \in Slot \ {j}, coroutines'[i].name = coroutines'[j].name
            PROVE  i > j /\ ~Live(i)'
        <5>1. i # id
          BY <2>6, <2>7, <3>1, <4>1, <4>2
        <5> QED
          BY <1>0, <2>7, <2>9, <4>1, <4>2, <5>1 DEF NameInv
      <4> QED
        BY <1>0, <4>1, <4>2 DEF NameInv
    <3> QED
      BY <3>2, <3>3
  <2>12. RunningIsCurrent'
    BY <1>0, <1>1, <2>3, <2>4, <2>5, <2>6, <2>7, <2>9, Slots DEF RunningIsCurrent
  <2>13. MainInv'
    BY <1>0, <1>1, <2>3, <2>4, <2>5, <2>6, <2>7, <2>8, <2>9, Slots DEF MainInv
  <2> QED
    BY <2>10, <2>11, <2>12, <2>13 DEF IInv
<1> QED
  BY <1>2, <1>3
(* A coroutine that has not been back in main is being started; it goes back *)
(* to the co_start that waits for it.                                        *)
LEMMA YieldFirstStep ==
  ASSUME IInv, YieldFirst
  PROVE  IInv' /\ main.op = "start" /\ main' = Main("run", -1)
<1>0. TypeInv /\ NameInv /\ RunningIsCurrent /\ MainInv
  BY DEF IInv
<1>1. /\ exec # -1 /\ exec \in Slot /\ left[exec] > 0 /\ current = exec /\ coroutines[exec].cnt = 0
      /\ coroutines' = [coroutines EXCEPT ![exec].state = "ABLE", ![exec].cnt = 1]
      /\ left' = [left EXCEPT ![exec] = left[exec] - 1]
      /\ main' = Resume(exec, "run") /\ current' = -1 /\ exec' = -1 /\ tt' = tt
  BY <1>0, Types DEF YieldFirst, RunningIsCurrent
<1>2. main.op = "start" /\ main.slot = exec
  <2>1. main.op # "wait"
    BY <1>0, <1>1 DEF MainInv
  <2>2. main.op \in {"start", "wait"}
    BY <1>0, <1>1, Types DEF MainInv
  <2> QED
    BY <1>0, <2>1, <2>2 DEF MainInv
<1>3. main' = Main("run", -1) /\ main'.op = "run" /\ main' \in [op : {"run"}, slot : {-1}]
  BY <1>1, <1>2 DEF Resume, Main
<1>4. ASSUME NEW i \in Slot
      PROVE  /\ coroutines'[i].name = coroutines[i].name
             /\ coroutines'[i].state = IF i = exec THEN "ABLE" ELSE coroutines[i].state
             /\ coroutines'[i].cnt = IF i = exec THEN 1 ELSE coroutines[i].cnt
             /\ left'[i] = IF i = exec THEN left[exec] - 1 ELSE left[i]
  BY <1>0, <1>1 DEF TypeInv
<1>5. Live(exec) /\ \A i \in Slot : Live(i)' <=> Live(i)
  BY <1>0, <1>2, <1>4 DEF Live, MainInv
<1>6. TypeInv'
  <2>1. left[exec] - 1 \in -1..MaxYields
    BY <1>0, <1>1, Types, Slots
  <2> QED
    BY <1>0, <1>1, <1>3, <2>1 DEF TypeInv
<1>7. NameInv'
  BY <1>0, <1>4, <1>5 DEF NameInv
<1>8. RunningIsCurrent'
  <2>1. ASSUME NEW i \in Slot, Live(i) PROVE coroutines'[i].state = "ABLE"
    <3>1. coroutines[i].state = IF i = exec THEN "RUNNING" ELSE "ABLE"
      BY <1>0, <1>2, <2>1 DEF RunningIsCurrent
    <3> QED
      BY <1>4, <3>1
  <2>2. \A i \in Slot : i # -1
    BY Slots
  <2> QED
    BY <1>1, <1>3, <1>5, <2>1, <2>2 DEF RunningIsCurrent
<1>9. MainInv'
  <2>1. left[exec] - 1 >= 0
    BY <1>0, <1>1, Types, Slots
  <2> QED
    <3>1. ASSUME NEW i \in Slot, Live(i) PROVE left'[i] >= 0 /\ coroutines'[i].cnt = 1
      BY <1>0, <1>2, <1>4, <2>1, <3>1 DEF MainInv
    <3> QED
      BY <1>1, <1>3, <1>5, <3>1 DEF MainInv
<1> QED
  BY <1>2, <1>3, <1>6, <1>7, <1>8, <1>9 DEF IInv

(* The turns visit the slots in the order of Behind.                         *)
LEMMA TurnsInOrder ==
  ASSUME TypeInv, NEW e \in Slot, NEW n \in Slot, e # tt, Ahead(e, n) <= Ahead(e, tt)
  PROVE  n # e /\ (n = tt \/ Behind(n) > Behind(e))
<1>1. /\ MAX_CO \in Nat \ {0} /\ tt \in 0..(MAX_CO - 1)
      /\ e \in 0..(MAX_CO - 1) /\ n \in 0..(MAX_CO - 1)
  BY Slots, Types
<1> QED
  BY <1>1 DEF Ahead, Behind

LEMMA YieldTurnStep ==
  ASSUME IInv, YieldTurn
  PROVE  IInv' /\ main.op = "wait" /\ UNCHANGED <<main, tt>>
         /\ \A i \in Slot : /\ Live(i)' <=> Live(i)
                            /\ coroutines'[i].name = coroutines[i].name
                            /\ left'[i] = -1 <=> left[i] = -1
<1> DEFINE e == exec
           n == turn(e)
<1>0. TypeInv /\ NameInv /\ RunningIsCurrent /\ MainInv
  BY DEF IInv
<1>1. /\ e \in Slot /\ left[e] > 0 /\ current = e /\ coroutines[e].cnt # 0
      /\ coroutines' = HandOver(e, n) /\ left' = [left EXCEPT ![e] = left[e] - 1]
      /\ current' = n /\ exec' = n /\ UNCHANGED <<main, tt>>
  BY <1>0, Types DEF YieldTurn, RunningIsCurrent
<1>2. main.op = "wait"
  <2>1. main.op # "start"
    BY <1>0, <1>1 DEF MainInv
  <2> QED
    BY <1>0, <1>1, <2>1, Types, Slots DEF MainInv
<1>3. n \in Slot /\ (n = e \/ coroutines[n].state = "ABLE")
      /\ \A j \in Slot : coroutines[j].state = "ABLE" => Ahead(e, n) <= Ahead(e, j)
  BY <1>1, TurnIs
<1>4. /\ Live(tt) /\ Live(e) /\ RoundInv /\ main.slot = tt
      /\ \A i \in Slot : Live(i) => /\ coroutines[i].state = (IF i = e THEN "RUNNING" ELSE "ABLE")
                                    /\ left[i] >= 0 /\ coroutines[i].cnt = 1
  BY <1>0, <1>2 DEF MainInv, RunningIsCurrent
<1> HIDE DEF n, e
<1>5. ASSUME NEW i \in Slot
      PROVE  /\ coroutines'[i].name = coroutines[i].name
             /\ coroutines'[i].state = IF i = n THEN "RUNNING" ELSE IF i = e THEN "ABLE" ELSE coroutines[i].state
             /\ coroutines'[i].cnt = coroutines[i].cnt
             /\ left'[i] = IF i = e THEN left[e] - 1 ELSE left[i]
  BY <1>0, <1>1, <1>3 DEF TypeInv, HandOver
<1>6. Live(n) /\ \A i \in Slot : Live(i)' <=> Live(i)
  <2>1. Live(n)
    BY <1>3, <1>4 DEF Live
  <2> QED
    BY <1>4, <1>5, <2>1 DEF Live
<1>7. TypeInv'
  <2>1. left[e] - 1 \in -1..MaxYields
    BY <1>0, <1>1, Types, Slots
  <2>2. coroutines' \in [Slot -> [name : Names \cup {None}, state : {"FREE", "ABLE", "RUNNING"}, cnt : {0, 1}]]
    BY <1>0, <1>1, <1>3 DEF TypeInv, HandOver
  <2> QED
    BY <1>0, <1>1, <1>3, <2>1, <2>2 DEF TypeInv
<1>8. NameInv'
  BY <1>0, <1>5, <1>6 DEF NameInv
<1>9. RunningIsCurrent'
  BY <1>1, <1>2, <1>3, <1>4, <1>5, <1>6 DEF RunningIsCurrent
<1>10. \A i \in Slot : left[i] \in Int /\ left'[i] \in Int
  <2>1. \A i \in Slot : left[i] \in -1..MaxYields /\ left'[i] \in -1..MaxYields
    BY <1>7, <1>0 DEF TypeInv
  <2> QED
    BY <2>1
<1>11. RoundInv'
  <2> SUFFICES ASSUME NEW j \in Slot, Live(j), j # tt
               PROVE  left'[j] >= left'[tt] + (IF n # tt /\ Behind(j) >= Behind(n) THEN 1 ELSE 0)
    BY <1>1, <1>6 DEF RoundInv, Behind
  <2>0. tt \in Slot
    BY <1>0, Types
  <2>1. left[j] >= left[tt] + (IF e # tt /\ Behind(j) >= Behind(e) THEN 1 ELSE 0)
    BY <1>4 DEF RoundInv, e
  <2>2. CASE e = tt
    BY <1>5, <1>10, <2>0, <2>1, <2>2
  <2>3. CASE e # tt
    <3>1. n # e /\ (n = tt \/ Behind(n) > Behind(e))
      <4>1. coroutines[tt].state = "ABLE"
        BY <1>4, <2>0, <2>3
      <4> QED
        BY <1>0, <1>1, <1>3, <2>0, <2>3, <4>1, TurnsInOrder
    <3>2. \A i \in Slot : Behind(i) \in Int
      BY <1>0, Types, Slots DEF Behind
    <3>3. left'[tt] = left[tt]
      BY <1>5, <2>0, <2>3
    <3>4. CASE j = e
      BY <1>1, <1>3, <1>5, <1>10, <2>0, <2>1, <2>3, <3>1, <3>2, <3>3, <3>4
    <3>5. CASE j # e
      BY <1>1, <1>3, <1>5, <1>10, <2>0, <2>1, <2>3, <3>1, <3>2, <3>3, <3>5
    <3> QED
      BY <3>4, <3>5
  <2> QED
    BY <2>2, <2>3
<1>12. MainInv'
  <2>1. \A i \in Slot : Live(i) => left'[i] >= 0 /\ coroutines'[i].cnt = 1
    BY <1>1, <1>4, <1>5, <1>10
  <2>2. n # -1
    BY <1>3, Slots
  <2> QED
    BY <1>0, <1>1, <1>2, <1>3, <1>4, <1>6, <1>11, <2>1, <2>2, Types DEF MainInv
<1>13. \A i \in Slot : left'[i] = -1 <=> left[i] = -1
  BY <1>1, <1>5, <1>10
<1> QED
  BY <1>1, <1>2, <1>5, <1>6, <1>7, <1>8, <1>9, <1>12, <1>13 DEF IInv
(* Of the coroutines that run while main waits, the one waited for is the    *)
(* first to return.                                                          *)
LEMMA FinishStep ==
  ASSUME IInv, Finish
  PROVE  /\ IInv' /\ main.op = "wait" /\ main'.op = "waited" /\ exec = tt /\ left[tt] = 0
         /\ left' = [left EXCEPT ![tt] = -1] /\ UNCHANGED <<coroutines, tt>>
<1>0. TypeInv /\ NameInv /\ RunningIsCurrent /\ MainInv
  BY DEF IInv
<1>1. /\ exec \in Slot /\ left[exec] = 0 /\ left' = [left EXCEPT ![exec] = -1] /\ exec' = -1
      /\ main' = Resume(exec, IF main.op = "wait" THEN "waited" ELSE "run")
      /\ UNCHANGED <<coroutines, current, tt>>
  BY <1>0, Types DEF Finish
<1>2. main.op = "wait"
  <2>1. main.op # "start"
    BY <1>0, <1>1 DEF MainInv
  <2> QED
    BY <1>0, <1>1, <2>1, Types, Slots DEF MainInv
<1>3. exec = tt
  <2> SUFFICES ASSUME exec # tt PROVE FALSE
    OBVIOUS
  <2>1. Live(exec) /\ Live(tt) /\ RoundInv /\ tt \in Slot /\ left[tt] >= 0 /\ left[tt] \in Int
    <3>1. Live(exec) /\ Live(tt) /\ RoundInv /\ tt \in Slot /\ left[tt] \in -1..MaxYields
      BY <1>0, <1>2, Types DEF MainInv
    <3>2. left[tt] >= 0
      BY <1>0, <1>2, <3>1 DEF MainInv
    <3> QED
      BY <3>1, <3>2
  <2>2. Behind(exec) \in Int
    BY <1>1, <2>1, Slots DEF Behind
  <2>3. left[exec] >= left[tt] + 1
    BY <1>1, <2>1, <2>2 DEF RoundInv
  <2> QED
    BY <1>1, <2>1, <2>3
<1>4. main' = Main("waited", -1) /\ main'.op = "waited" /\ main' \in [op : {"waited"}, slot : {-1}]
  BY <1>0, <1>1, <1>2, <1>3 DEF Resume, Main, MainInv
<1>5. \A i \in Slot : Live(i)' <=> Live(i)
  BY <1>1 DEF Live
<1>6. \A i \in Slot : left'[i] = IF i = tt THEN -1 ELSE left[i]
  BY <1>0, <1>1, <1>3 DEF TypeInv
<1>7. TypeInv'
  <2>1. -1 \in -1..MaxYields
    BY Slots
  <2> QED
    BY <1>0, <1>1, <1>4, <2>1 DEF TypeInv
<1>8. NameInv'
  BY <1>0, <1>1, <1>5 DEF NameInv
<1>9. RunningIsCurrent'
  BY <1>1, <1>4 DEF RunningIsCurrent
<1>10. MainInv'
  <2>1. \A i \in Slot \ {tt} : Live(i) => coroutines[i].state = "ABLE" /\ left[i] >= 0 /\ coroutines[i].cnt = 1
    BY <1>0, <1>2, <1>3 DEF MainInv, RunningIsCurrent
  <2>2. Live(tt)
    BY <1>0, <1>2 DEF MainInv
  <2> QED
    BY <1>0, <1>1, <1>3, <1>4, <1>5, <1>6, <2>1, <2>2, Types DEF MainInv
<1> QED
  BY <1>1, <1>2, <1>3, <1>4, <1>7, <1>8, <1>9, <1>10 DEF IInv

(* co_wait finds the coroutine of that name: what else has the name lies     *)
(* behind it.                                                                *)
LEMMA Finds ==
  ASSUME IInv, NEW j \in Slot, Live(j), NEW n, coroutines[j].name = n
  PROVE  Min({i \in Slot : coroutines[i].name = n}) = j
<1> DEFINE S == {i \in Slot : coroutines[i].name = n}
<1>1. j \in S /\ S \in SUBSET Nat
  BY Slots
<1>2. \A i \in S : i = j \/ i > j
  BY DEF IInv, NameInv
<1>3. Min(S) \in S /\ Min(S) <= j
  <2> HIDE DEF S
  <2> QED
    BY <1>1, MinIsLeast
<1> HIDE DEF S
<1>4. Min(S) \in Nat /\ j \in Nat
  BY <1>1, <1>3
<1>5. Min(S) = j
  BY <1>2, <1>3, <1>4
<1> QED
  BY <1>5 DEF S

LEMMA WaitStep ==
  ASSUME InOrder, IInv, NEW n \in Names, Wait(n)
  PROVE  /\ IInv' /\ main.op = "run" /\ main'.op = "wait" /\ n \in Existing /\ Live(tt') /\ tt' \in Slot
         /\ coroutines[tt'].name = n /\ left' = left
         /\ \A i \in Slot : (Live(i)' <=> Live(i)) /\ coroutines'[i].name = coroutines[i].name
<1>0. TypeInv /\ NameInv /\ RunningIsCurrent /\ MainInv
  BY DEF IInv
<1>1. main.op = "run" /\ current = -1 /\ n \in Existing /\ left' = left /\ First(tt')
      /\ tt' = Min({i \in Slot : coroutines[i].name = n})
  BY <1>0 DEF Wait, RunningIsCurrent
<1>2. PICK j \in Slot : Live(j) /\ coroutines[j].name = n
  BY <1>1 DEF Existing
<1>3. tt' = j
  BY <1>1, <1>2, Finds
<1>4. \A i \in Slot : Live(i) => left[i] >= 0 /\ coroutines[i].cnt = 1 /\ coroutines[i].state = "ABLE"
  BY <1>0, <1>1, Slots DEF MainInv, RunningIsCurrent
<1>5. /\ coroutines' = [coroutines EXCEPT ![j].state = "RUNNING"]
      /\ current' = j /\ exec' = j /\ main' = Main("wait", j)
  <2>1. left[j] # -1
    BY <1>2, <1>4
  <2> QED
    BY <1>1, <1>3, <2>1, Zenon DEF Wait
<1>6. main'.op = "wait" /\ main'.slot = j /\ main' \in [op : {"wait"}, slot : Slot]
  BY <1>5 DEF Main
<1>7. ASSUME NEW i \in Slot
      PROVE  /\ coroutines'[i].name = coroutines[i].name /\ coroutines'[i].cnt = coroutines[i].cnt
             /\ coroutines'[i].state = IF i = j THEN "RUNNING" ELSE coroutines[i].state
  BY <1>0, <1>2, <1>5 DEF TypeInv
<1>8. \A i \in Slot : Live(i)' <=> Live(i)
  BY <1>2, <1>7 DEF Live
<1>9. TypeInv'
  BY <1>0, <1>1, <1>3, <1>5, <1>6 DEF TypeInv
<1>10. NameInv'
  BY <1>0, <1>7, <1>8 DEF NameInv
<1>11. RunningIsCurrent'
  BY <1>4, <1>5, <1>6, <1>7, <1>8 DEF RunningIsCurrent
<1>12. MainInv'
  <2>1. \A i \in Slot : left[i] \in Int
    <3>1. \A i \in Slot : left[i] \in -1..MaxYields
      BY <1>0, Types
    <3> QED
      BY <3>1
  <2>2. \A i \in Slot : Live(i) => left[i] >= left[j]
    BY <1>1, <1>2, <1>3, <2>1 DEF First
  <2>3. RoundInv'
    BY <1>1, <1>3, <1>5, <1>8, <2>1, <2>2 DEF RoundInv
  <2> QED
    BY <1>1, <1>2, <1>3, <1>4, <1>5, <1>6, <1>7, <1>8, <2>3, Slots DEF MainInv
<1> QED
  BY <1>1, <1>2, <1>3, <1>6, <1>7, <1>8, <1>9, <1>10, <1>11, <1>12 DEF IInv

LEMMA ReturnStep ==
  ASSUME IInv, Return
  PROVE  /\ IInv' /\ main.op = "waited" /\ main'.op = "run" /\ left' = left /\ Live(tt) /\ left[tt] = -1
         /\ \A i \in Slot : (Live(i)' <=> i # tt /\ Live(i)) /\ coroutines'[i].name = coroutines[i].name
<1>0. TypeInv /\ NameInv /\ RunningIsCurrent /\ MainInv
  BY DEF IInv
<1>1. /\ main.op = "waited" /\ coroutines' = [coroutines EXCEPT ![tt].state = "FREE"]
      /\ current' = -1 /\ main' = Main("run", -1) /\ UNCHANGED <<tt, exec, left>> /\ tt \in Slot
  BY <1>0, Types DEF Return, ToMain
<1>2. main'.op = "run" /\ main' \in [op : {"run"}, slot : {-1}]
  BY <1>1 DEF Main
<1>3. ASSUME NEW i \in Slot
      PROVE  /\ coroutines'[i].name = coroutines[i].name /\ coroutines'[i].cnt = coroutines[i].cnt
             /\ coroutines'[i].state = IF i = tt THEN "FREE" ELSE coroutines[i].state
  BY <1>0, <1>1 DEF TypeInv
<1>4. \A i \in Slot : Live(i)' <=> i # tt /\ Live(i)
  BY <1>3 DEF Live
<1>5. exec = -1 /\ Live(tt) /\ left[tt] = -1
  BY <1>0, <1>1 DEF MainInv
<1>6. TypeInv'
  BY <1>0, <1>1, <1>2 DEF TypeInv
<1>7. NameInv'
  BY <1>0, <1>3, <1>4 DEF NameInv
<1>8. RunningIsCurrent'
  BY <1>0, <1>1, <1>2, <1>3, <1>4, <1>5, Slots DEF RunningIsCurrent, MainInv
<1>9. MainInv'
  BY <1>0, <1>1, <1>2, <1>3, <1>4, <1>5 DEF MainInv
<1> QED
  BY <1>1, <1>2, <1>3, <1>4, <1>5, <1>6, <1>7, <1>8, <1>9 DEF IInv

LEMMA StutterStep == IInv /\ UNCHANGED vars => IInv'
<1> SUFFICES ASSUME IInv, UNCHANGED vars PROVE IInv'
  OBVIOUS
<1>1. UNCHANGED <<coroutines, current, tt, exec, left, main>>
  BY DEF vars
<1>2. TypeInv'
  BY <1>1 DEF IInv, TypeInv
<1>3. \A i : Live(i)' <=> Live(i)
  BY <1>1 DEF Live
<1>4. NameInv'
  BY <1>1, <1>3 DEF IInv, NameInv
<1>5. RunningIsCurrent'
  BY <1>1, <1>3 DEF IInv, RunningIsCurrent
<1>6. RoundInv => RoundInv'
  BY <1>1, <1>3 DEF RoundInv, Behind
<1>7. MainInv'
  <2>1. MainInv
    BY DEF IInv
  <2>2. (Live(exec)' <=> Live(exec)) /\ (Live(tt)' <=> Live(tt))
    BY <1>1 DEF Live
  <2> QED
    BY <1>1, <1>3, <1>6, <2>1, <2>2 DEF MainInv
<1> QED
  BY <1>2, <1>4, <1>5, <1>7 DEF IInv

(* The inductive invariant holds when the callers do as the test does: a     *)
(* body yields at least once, and main waits for one that is among the first *)
(* to finish.                                                                *)
THEOREM Invariance == ASSUME InOrder PROVE Spec => []IInv
<1>1. IInv /\ [Next]_vars => IInv'
  BY StartStep, YieldFirstStep, YieldTurnStep, FinishStep, WaitStep, ReturnStep, StutterStep
     DEF Next, Coroutine
<1> QED
  BY <1>1, InitIInv, PTL DEF Spec

(* A coroutine that goes back to main resumes a call that has not returned.  *)
THEOREM ReturnsToLiveCall == ASSUME InOrder PROVE Spec => []ReturnsToCaller
<1>1. IInv => ReturnsToCaller
  BY Types DEF IInv, ReturnsToCaller
<1> QED
  BY <1>1, Invariance, PTL

(* current and the states agree with who runs.                               *)
THEOREM CurrentRuns == ASSUME InOrder PROVE Spec => []RunningIsCurrent
<1>1. IInv => RunningIsCurrent
  BY DEF IInv
<1> QED
  BY <1>1, Invariance, PTL
-----------------------------------------------------------------------------
(* libco implements CoSpec.                                                  *)

LEMMA LiveSets ==
  ASSUME IInv
  PROVE  /\ IsFiniteSet(Existing) /\ Cardinality(Existing) <= MAX_CO
         /\ Free # {} <=> Cardinality(Existing) < MAX_CO
<1> DEFINE L == {i \in Slot : Live(i)}
           f == [i \in L |-> coroutines[i].name]
<1>1. IsFiniteSet(Slot) /\ Cardinality(Slot) = MAX_CO
  BY Slots, FS_Interval
<1>2. IsFiniteSet(L) /\ Cardinality(L) <= MAX_CO /\ (Cardinality(L) = MAX_CO => L = Slot)
  BY <1>1, FS_Subset
<1>3. f \in Bijection(L, Existing)
  <2>1. f \in [L -> Existing] /\ \A n \in Existing : \E i \in L : f[i] = n
    BY DEF Existing
  <2>2. \A i, j \in L : f[i] = f[j] => i = j
    BY DEF IInv, NameInv
  <2> QED
    BY <2>1, <2>2 DEF Bijection, Injection, Surjection, IsInjective
<1>4. IsFiniteSet(Existing) /\ Cardinality(L) = Cardinality(Existing)
  BY <1>2, <1>3, FS_Bijection DEF ExistsBijection
<1>5. Free # {} <=> L # Slot
  BY DEF Free, Live
<1>6. L = Slot <=> Cardinality(L) = MAX_CO
  BY <1>1, <1>2
<1>7. Cardinality(L) \in Nat /\ MAX_CO \in Nat
  BY <1>2, FS_CardinalityType, Slots
<1> QED
  BY <1>2, <1>4, <1>5, <1>6, <1>7

LEMMA SameCardinality == \A S : Co!Cardinality(S) = Cardinality(S)
BY DEF Co!Cardinality, Cardinality

(* The status of a name, for a coroutine and when there is none.             *)
LEMMA StatusIs ==
  ASSUME IInv
  PROVE  /\ \A n \in Names : StatusBar[n] = "none" <=> n \notin Existing
         /\ \A j \in Slot : Live(j) =>
              /\ coroutines[j].name \in Names
              /\ StatusBar[coroutines[j].name] = IF left[j] = -1 THEN "done" ELSE "alive"
         /\ Co!Existing = Existing
<1>1. \A n \in Names : StatusBar[n] = StatusOf(n)
  BY DEF StatusBar
<1>2. \A n \in Names : StatusBar[n] = "none" <=> n \notin Existing
  BY <1>1 DEF StatusOf
<1>3. ASSUME NEW j \in Slot, Live(j)
      PROVE  /\ coroutines[j].name \in Names
             /\ StatusBar[coroutines[j].name] = IF left[j] = -1 THEN "done" ELSE "alive"
  <2> DEFINE n == coroutines[j].name
  <2>1. n \in Names /\ n \in Existing
    BY <1>3 DEF IInv, NameInv, Existing
  <2>2. (\E i \in Slot : Live(i) /\ coroutines[i].name = n /\ left[i] = -1) <=> left[j] = -1
    BY <1>3 DEF IInv, NameInv
  <2> QED
    BY <1>1, <2>1, <2>2 DEF StatusOf
<1>4. Existing \subseteq Names
  BY DEF IInv, NameInv, Existing
<1>5. Co!Existing = Existing
  BY <1>2, <1>4 DEF Co!Existing
<1> QED
  BY <1>2, <1>3, <1>5
(* co_wait returns only after the coroutine it names has finished, whatever  *)
(* coroutines had its slot or its name before, and co_start fails only when  *)
(* MAX_CO coroutines exist.                                                  *)
THEOREM ImplementsCoSpec == ASSUME InOrder PROVE Spec => KeepsCoSpec
<1>1. Init => Co!Init
  <2> SUFFICES ASSUME Init PROVE Co!Init
    OBVIOUS
  <2>1. main.op = "run" /\ Existing = {}
    BY DEF Init, Main, Existing, Live
  <2>2. StatusBar = [n \in Names |-> "none"] /\ WaitingBar = None /\ AbortedBar = FALSE
    BY <2>1 DEF StatusBar, StatusOf, WaitingBar, AbortedBar
  <2> QED
    BY <2>2 DEF Co!Init
<1>2. IInv /\ IInv' /\ [Next]_vars => [Co!Next]_<<StatusBar, WaitingBar, AbortedBar>>
  <2> SUFFICES ASSUME IInv, IInv', [Next]_vars
               PROVE  [Co!Next]_<<StatusBar, WaitingBar, AbortedBar>>
    OBVIOUS
  <2>0. TypeInv /\ TypeInv' /\ tt \in Slot /\ None \notin Names
        /\ \A j \in Slot : Live(j) => coroutines[j].name \in Names
    BY Types, Slots DEF IInv, NameInv
  \* names with a coroutine, and whether one has returned, are all status shows
  <2>1. ASSUME \A i \in Slot : /\ Live(i)' <=> Live(i)
                               /\ coroutines'[i].name = coroutines[i].name
                               /\ left'[i] = -1 <=> left[i] = -1
        PROVE  StatusBar' = StatusBar /\ Existing' = Existing
    <3>1. Existing' = Existing
      BY <2>1 DEF Existing
    <3>2. \A n : (\E i \in Slot : Live(i) /\ coroutines[i].name = n /\ left[i] = -1)'
                   <=> (\E i \in Slot : Live(i) /\ coroutines[i].name = n /\ left[i] = -1)
      BY <2>1
    <3>3. \A n : StatusOf(n)' = StatusOf(n)
      BY <3>1, <3>2 DEF StatusOf
    <3> QED
      BY <3>1, <3>3 DEF StatusBar
  <2>2. ASSUME NEW n \in Names, Start(n) PROVE Co!Start(n) \/ Co!Abort
    <3>1. main.op = "run" /\ n \notin Existing
      BY <2>2 DEF Start
    <3>2. WaitingBar = None /\ AbortedBar = FALSE
      BY <3>1 DEF WaitingBar, AbortedBar
    <3>3. CASE Free = {}
      <4>1. main' = Main("abort", -1) /\ UNCHANGED <<coroutines, left>>
        BY <2>2, <3>3 DEF Start
      <4>2. main'.op = "abort"
        BY <4>1 DEF Main
      <4>3. StatusBar' = StatusBar
        BY <2>1, <4>1 DEF Live
      <4>4. WaitingBar' = None /\ AbortedBar' = TRUE
        BY <4>2 DEF WaitingBar, AbortedBar
      <4>5. Cardinality(Existing) = MAX_CO
        <5>1. Cardinality(Existing) \in Nat /\ MAX_CO \in Nat
          BY LiveSets, FS_CardinalityType, Slots
        <5> QED
          BY <3>3, <5>1, LiveSets
      <4>6. Co!Abort
        <5>1. Cardinality(Co!Existing) = MAX_CO
          BY <4>5, StatusIs
        <5> QED
          BY <3>2, <4>3, <4>4, <5>1, SameCardinality DEF Co!Abort
      <4> QED
        BY <4>6
    <3>4. CASE Free # {}
      <4> DEFINE id == Min(Free)
      <4>1. id \in Slot /\ ~Live(id)
        <5>1. Free \in SUBSET Nat
          BY Slots DEF Free
        <5>2. id \in Free
          <6> HIDE DEF Free
          <6> QED
            BY <3>4, <5>1, MinIsLeast
        <5> QED
          BY <5>2 DEF Free, Live
      <4>2. PICK k \in 1..MaxYields : left' = [left EXCEPT ![id] = k]
        BY <2>2, <3>4, Zenon DEF Start
      <4>3. coroutines' = [coroutines EXCEPT ![id] = Fresh(id, n)] /\ main' = Main("start", id)
        BY <3>4, <2>2 DEF Start
      <4> HIDE DEF id
      <4>4. main'.op = "start" /\ Fresh(id, n).name = n /\ Fresh(id, n).state = "RUNNING"
        BY <4>3 DEF Main, Fresh
      <4>5. ASSUME NEW i \in Slot
            PROVE  /\ coroutines'[i] = IF i = id THEN Fresh(id, n) ELSE coroutines[i]
                   /\ left'[i] = IF i = id THEN k ELSE left[i]
        BY <2>0, <4>1, <4>2, <4>3 DEF TypeInv
      <4>6. \A i \in Slot : Live(i)' <=> i = id \/ Live(i)
        BY <4>4, <4>5 DEF Live
      <4>7. Existing' = Existing \cup {n}
        BY <4>1, <4>4, <4>5, <4>6 DEF Existing
      <4>8. k # -1
        OBVIOUS
      <4>9. ASSUME NEW m \in Names PROVE StatusOf(m)' = IF m = n THEN "alive" ELSE StatusOf(m)
        <5> DEFINE done(x) == \E i \in Slot : Live(i) /\ coroutines[i].name = x /\ left[i] = -1
        <5>1. CASE m = n
          <6>1. ~done(m)'
            BY <3>1, <4>4, <4>5, <4>6, <4>8, <5>1 DEF Existing
          <6> QED
            BY <4>7, <5>1, <6>1 DEF StatusOf
        <5>2. CASE m # n
          <6>1. done(m)' <=> done(m)
            BY <4>1, <4>4, <4>5, <4>6, <5>2
          <6> QED
            BY <4>7, <5>2, <6>1 DEF StatusOf
        <5> QED
          BY <5>1, <5>2
      <4>10. StatusBar' = [StatusBar EXCEPT ![n] = "alive"] /\ StatusBar[n] = "none"
        <5>1. StatusBar' = [m \in Names |-> IF m = n THEN "alive" ELSE StatusOf(m)]
          BY <4>9 DEF StatusBar
        <5> QED
          BY <3>1, <5>1, StatusIs DEF StatusBar
      <4>11. WaitingBar' = None /\ AbortedBar' = FALSE
        BY <4>4 DEF WaitingBar, AbortedBar
      <4>12. Co!Start(n)
        <5>1. Cardinality(Co!Existing) < MAX_CO
          BY <3>4, LiveSets, StatusIs
        <5> QED
          BY <3>2, <4>10, <4>11, <5>1, SameCardinality DEF Co!Start
      <4> QED
        BY <4>12
    <3> QED
      BY <3>3, <3>4
  <2>3. ASSUME YieldFirst PROVE UNCHANGED <<StatusBar, WaitingBar, AbortedBar>>
    <3>1. main.op = "start" /\ main'.op = "run"
      BY <2>3, YieldFirstStep DEF Main
    <3>2. /\ exec = current /\ exec \in Slot /\ left[exec] > 0
          /\ coroutines' = [coroutines EXCEPT ![current].state = "ABLE", ![current].cnt = 1]
          /\ left' = [left EXCEPT ![exec] = left[exec] - 1] /\ Live(exec)
      BY <2>0, <2>3, <3>1, Types DEF YieldFirst, IInv, RunningIsCurrent, MainInv
    <3>3. ASSUME NEW i \in Slot
          PROVE  /\ Live(i)' <=> Live(i)
                 /\ coroutines'[i].name = coroutines[i].name
                 /\ left'[i] = -1 <=> left[i] = -1
      <4>1. /\ coroutines'[i].name = coroutines[i].name
            /\ coroutines'[i].state = IF i = exec THEN "ABLE" ELSE coroutines[i].state
            /\ left'[i] = IF i = exec THEN left[exec] - 1 ELSE left[i]
        BY <2>0, <3>2 DEF TypeInv
      <4>2. left[exec] \in Int
        BY <2>0, <3>2, Types, Slots
      <4> QED
        BY <3>2, <4>1, <4>2 DEF Live
    <3>4. StatusBar' = StatusBar
      BY <2>1, <3>3
    <3> QED
      BY <3>1, <3>4 DEF WaitingBar, AbortedBar
  <2>4. ASSUME YieldTurn PROVE UNCHANGED <<StatusBar, WaitingBar, AbortedBar>>
    <3>1. StatusBar' = StatusBar
      BY <2>1, <2>4, YieldTurnStep
    <3>2. main' = main /\ tt' = tt /\ coroutines'[tt].name = coroutines[tt].name
      BY <2>0, <2>4, YieldTurnStep
    <3> QED
      BY <3>1, <3>2 DEF WaitingBar, AbortedBar
  <2>5. ASSUME Finish PROVE \E n \in Names : Co!Finish(n)
    <3> DEFINE n == coroutines[tt].name
    <3>1. /\ main.op = "wait" /\ main'.op = "waited" /\ left[tt] = 0 /\ left' = [left EXCEPT ![tt] = -1]
          /\ coroutines' = coroutines /\ tt' = tt /\ Live(tt)
      BY <2>5, FinishStep DEF IInv, MainInv
    <3>2. n \in Names /\ StatusBar[n] = "alive"
      BY <2>0, <3>1, StatusIs
    <3>3. \A i \in Slot : left'[i] = IF i = tt THEN -1 ELSE left[i]
      BY <2>0, <3>1 DEF TypeInv
    <3>4. /\ \A i \in Slot : Live(i)' <=> Live(i)
          /\ Existing' = Existing
      BY <3>1 DEF Live, Existing
    <3>5. ASSUME NEW m \in Names PROVE StatusOf(m)' = IF m = n THEN "done" ELSE StatusOf(m)
      <4> DEFINE done(x) == \E i \in Slot : Live(i) /\ coroutines[i].name = x /\ left[i] = -1
      <4>1. CASE m = n
        <5>1. done(m)'
          BY <2>0, <3>1, <3>3, <3>4, <4>1
        <5>2. m \in Existing
          BY <2>0, <3>1, <4>1 DEF Existing
        <5> QED
          BY <3>4, <4>1, <5>1, <5>2 DEF StatusOf
      <4>2. CASE m # n
        <5>1. done(m)' <=> done(m)
          BY <3>1, <3>3, <3>4, <4>2
        <5> QED
          BY <3>4, <4>2, <5>1 DEF StatusOf
      <4> QED
        BY <4>1, <4>2
    <3>6. StatusBar' = [StatusBar EXCEPT ![n] = "done"]
      <4>1. StatusBar' = [m \in Names |-> IF m = n THEN "done" ELSE StatusOf(m)]
        BY <3>5 DEF StatusBar
      <4> QED
        BY <3>2, <4>1 DEF StatusBar
    <3>7. WaitingBar = n /\ WaitingBar' = n /\ UNCHANGED AbortedBar
      BY <3>1 DEF WaitingBar, AbortedBar
    <3>8. Co!Finish(n)
      BY <2>0, <3>2, <3>6, <3>7 DEF Co!Finish
    <3> QED
      BY <3>2, <3>8
  <2>6. ASSUME NEW n \in Names, Wait(n) PROVE Co!Wait(n)
    <3>1. /\ main.op = "run" /\ main'.op = "wait" /\ n \in Existing /\ coroutines[tt'].name = n
          /\ tt' \in Slot /\ left' = left
          /\ \A i \in Slot : (Live(i)' <=> Live(i)) /\ coroutines'[i].name = coroutines[i].name
      BY <2>6, WaitStep
    <3>2. StatusBar' = StatusBar
      BY <2>1, <3>1
    <3>3. WaitingBar = None /\ AbortedBar = FALSE /\ WaitingBar' = n /\ AbortedBar' = FALSE
      BY <3>1 DEF WaitingBar, AbortedBar
    <3> QED
      BY <3>1, <3>2, <3>3, StatusIs DEF Co!Wait
  <2>7. ASSUME Return PROVE \E n \in Names : Co!Join(n)
    <3> DEFINE n == coroutines[tt].name
    <3>1. /\ main.op = "waited" /\ main'.op = "run" /\ left' = left /\ Live(tt) /\ left[tt] = -1
          /\ \A i \in Slot : (Live(i)' <=> i # tt /\ Live(i)) /\ coroutines'[i].name = coroutines[i].name
      BY <2>7, ReturnStep
    <3>2. n \in Names /\ StatusBar[n] = "done"
      BY <2>0, <3>1, StatusIs
    <3>3. \A i \in Slot : Live(i) /\ coroutines[i].name = n => i = tt
      BY <2>0, <3>1 DEF IInv, NameInv
    <3>4. Existing' = Existing \ {n}
      BY <3>1, <3>3 DEF Existing
    <3>5. ASSUME NEW m \in Names PROVE StatusOf(m)' = IF m = n THEN "none" ELSE StatusOf(m)
      <4> DEFINE done(x) == \E i \in Slot : Live(i) /\ coroutines[i].name = x /\ left[i] = -1
      <4>1. CASE m = n
        BY <3>4, <4>1 DEF StatusOf
      <4>2. CASE m # n
        <5>1. done(m)' <=> done(m)
          BY <3>1, <4>2
        <5> QED
          BY <3>4, <4>2, <5>1 DEF StatusOf
      <4> QED
        BY <4>1, <4>2
    <3>6. StatusBar' = [StatusBar EXCEPT ![n] = "none"]
      <4>1. StatusBar' = [m \in Names |-> IF m = n THEN "none" ELSE StatusOf(m)]
        BY <3>5 DEF StatusBar
      <4> QED
        BY <3>2, <4>1 DEF StatusBar
    <3>7. WaitingBar = n /\ WaitingBar' = None /\ UNCHANGED AbortedBar
      BY <3>1 DEF WaitingBar, AbortedBar
    <3>8. Co!Join(n)
      BY <3>2, <3>6, <3>7 DEF Co!Join
    <3> QED
      BY <3>2, <3>8
  <2>8. ASSUME UNCHANGED vars PROVE UNCHANGED <<StatusBar, WaitingBar, AbortedBar>>
    <3>1. UNCHANGED <<coroutines, left, main, tt>>
      BY <2>8 DEF vars
    <3>2. StatusBar' = StatusBar
      BY <2>1, <3>1 DEF Live
    <3> QED
      BY <3>1, <3>2 DEF WaitingBar, AbortedBar
  <2> QED
    BY <2>2, <2>3, <2>4, <2>5, <2>6, <2>7, <2>8 DEF Next, Coroutine, Co!Next
<1>3. IInv /\ IInv' /\ [Next]_vars => [Co!Next]_(Co!vars)
  BY <1>2 DEF Co!vars
<1> QED
  BY <1>1, <1>3, Invariance, PTL DEF Spec, KeepsCoSpec, Co!SafeSpec
=============================================================================
