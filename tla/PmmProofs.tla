------------------------------ MODULE PmmProofs -----------------------------
(* Proofs about Pmm, for any number of callers, any sizes and any heap.      *)
EXTENDS Pmm, TLAPS

(* A block of the history is a record of numbers.                            *)
LEMMA BlockType ==
  ASSUME TypeOK, NEW i \in DOMAIN blocks
  PROVE  blocks[i].lo \in Int /\ blocks[i].hi \in Int /\ blocks[i].earlier \in Nat
<1>1. blocks[i] \in Given
  BY DEF TypeOK
<1> QED
  BY <1>1 DEF Given

(* kalloc starts with an empty history at the start of the heap.             *)
LEMMA InitIInv == Init => IInv
<1> SUFFICES ASSUME Init PROVE IInv
  OBVIOUS
<1> USE PmmAssumption DEF Init
<1>1. TypeOK
  <2>1. <<>> \in Seq(Given)
    OBVIOUS
  <2>2. pc \in [Caller -> {"idle", "unlocked", "panic"}]
    OBVIOUS
  <2> QED
    BY <2>1, <2>2 DEF TypeOK
<1>2. HeapInv
  BY DEF HeapInv
<1>3. ASSUME NEW t \in Caller PROVE CallInv(t)
  BY DEF CallInv
<1>4. ASSUME NEW i \in DOMAIN blocks PROVE BlockInv(i)
  BY DEF BlockInv
<1> QED
  BY <1>1, <1>2, <1>3, <1>4 DEF IInv

(* Taking memory moves estart up and leaves the blocks alone.                *)
LEMMA CarveIInv ==
  ASSUME IInv, NEW t \in Caller, NEW s \in Size, Carve(t, s)
  PROVE  IInv'
<1> USE PmmAssumption
<1>1. estart \in Nat /\ s \in Nat \ {0} /\ estart' = estart + s /\ estart' \in Nat
  BY DEF IInv, TypeOK, Carve, Advance
<1>2. blocks' = blocks /\ blocks \in Seq(Given) /\ Len(blocks) \in Nat
  BY DEF IInv, TypeOK, Carve
<1>3. TypeOK'
  <2>1. pc' \in [Caller -> {"idle", "unlocked", "panic"}]
    BY DEF IInv, TypeOK, Carve
  <2>2. size' \in [Caller -> Nat] /\ earlier' \in [Caller -> Nat] /\ booted' \in BOOLEAN
    BY <1>2 DEF IInv, TypeOK, Carve
  <2> QED
    BY <1>1, <1>2, <2>1, <2>2 DEF TypeOK
<1>4. HeapInv'
  <2>1. pc'[t] = IF estart + s > pm_end THEN "panic" ELSE "unlocked"
    BY DEF IInv, TypeOK, Carve, Advance, HeapEnds
  <2>2. (\A u \in Caller : pc'[u] # "panic") => estart' <= pm_end
    BY <1>1, <2>1
  <2>3. pm_start <= estart'
    BY <1>1 DEF IInv, HeapInv
  <2> QED
    BY <2>2, <2>3 DEF HeapInv
<1>5. ASSUME NEW u \in Caller PROVE CallInv(u)'
  <2>1. CASE u = t
    <3>1. size'[t] = s /\ earlier'[t] = Len(blocks)
      BY <1>2 DEF IInv, TypeOK, Carve
    <3>2. \A j \in 1..Len(blocks) : blocks[j].hi <= estart
      BY <1>2 DEF IInv, BlockInv
    <3>4. pm_start <= estart /\ pm_start \in Nat
      BY DEF IInv, HeapInv, PmmAssumption
    <3>3. estart' - s = estart
      BY <1>1
    <3> QED
      BY <1>1, <1>2, <2>1, <3>1, <3>2, <3>3, <3>4 DEF CallInv
  <2>2. CASE u # t
    <3>1. pc'[u] = pc[u] /\ size'[u] = size[u] /\ earlier'[u] = earlier[u]
          /\ size[u] \in Nat /\ earlier[u] \in Nat
      BY <2>2 DEF IInv, TypeOK, Carve
    <3>2. CallInv(u)
      BY DEF IInv
    <3>3. \A j \in 1..Len(blocks) : blocks[j].hi \in Int
      BY <1>2, BlockType DEF IInv
    <3>4. estart - size[u] <= estart' - size[u]
      BY <1>1, <3>1
    <3> QED
      BY <1>1, <1>2, <3>1, <3>2, <3>3, <3>4 DEF CallInv
  <2> QED
    BY <2>1, <2>2
<1>6. ASSUME NEW i \in DOMAIN blocks' PROVE BlockInv(i)'
  <2>1. BlockInv(i)
    BY <1>2 DEF IInv
  <2>2. blocks[i].hi \in Int
    BY <1>2, BlockType DEF IInv
  <2> QED
    BY <1>1, <1>2, <2>1, <2>2 DEF BlockInv
<1> QED
  BY <1>3, <1>4, <1>5, <1>6 DEF IInv

(* Returning appends one block and leaves estart alone.                      *)
LEMMA ReturnIInv ==
  ASSUME IInv, NEW t \in Caller, Return(t)
  PROVE  IInv'
<1> USE PmmAssumption
<1> DEFINE b == Block(t)
           n == Len(blocks)
<1>1. estart \in Nat /\ estart' = estart /\ size[t] \in Nat /\ earlier[t] \in Nat
  BY DEF IInv, TypeOK, Return
<1>2. blocks \in Seq(Given) /\ n \in Nat
  BY DEF IInv, TypeOK
<1>3. b \in Given
  BY <1>1 DEF Block, Given
<1>4. b.lo = estart - size[t] /\ b.hi = estart /\ b.earlier = earlier[t]
  BY DEF Block
<1>5. blocks' = Append(blocks, b)
  BY DEF Return
<1> HIDE DEF b
<1>6. /\ blocks' \in Seq(Given)
      /\ Len(blocks') = n + 1
      /\ \A j \in 1..n : blocks'[j] = blocks[j]
      /\ blocks'[n + 1] = b
  BY <1>2, <1>3, <1>5
<1>7. CallInv(t) /\ pc[t] = "unlocked"
  BY DEF IInv, Return
<1>8. TypeOK'
  <2>1. pc' \in [Caller -> {"idle", "unlocked", "panic"}]
    BY DEF IInv, TypeOK, Return
  <2> QED
    BY <1>6, <2>1 DEF IInv, TypeOK, Return
<1>9. HeapInv'
  <2>1. pc[t] # "panic" /\ \A u \in Caller \ {t} : pc'[u] = pc[u]
    BY <1>7 DEF IInv, TypeOK, Return
  <2>2. (\A u \in Caller : pc'[u] # "panic") => (\A u \in Caller : pc[u] # "panic")
    BY <2>1
  <2> QED
    BY <1>1, <2>2 DEF IInv, HeapInv
<1>10. ASSUME NEW u \in Caller PROVE CallInv(u)'
  <2>1. CASE u = t
    <3>1. pc'[t] = "idle"
      BY DEF IInv, TypeOK, Return
    <3> QED
      BY <2>1, <3>1 DEF CallInv
  <2>2. CASE u # t
    <3>1. pc'[u] = pc[u] /\ size' = size /\ earlier' = earlier /\ earlier[u] \in Nat
      BY <2>2 DEF IInv, TypeOK, Return
    <3>2. CallInv(u)
      BY DEF IInv
    <3> QED
      BY <1>1, <1>2, <1>6, <3>1, <3>2 DEF CallInv
  <2> QED
    BY <2>1, <2>2
<1>11. ASSUME NEW i \in DOMAIN blocks' PROVE BlockInv(i)'
  <2>1. i \in 1..n + 1
    BY <1>6
  <2>2. CASE i \in 1..n
    <3>1. BlockInv(i)
      BY <1>2, <2>2 DEF IInv
    <3>2. blocks'[i] = blocks[i] /\ blocks[i].earlier \in Nat /\ blocks[i].earlier < i
      BY <1>2, <1>6, <2>2, <3>1, BlockType DEF BlockInv, IInv
    <3>3. \A j \in 1..blocks[i].earlier : blocks'[j] = blocks[j]
      BY <1>2, <1>6, <2>2, <3>2
    <3> QED
      BY <1>1, <3>1, <3>2, <3>3 DEF BlockInv
  <2>3. CASE i = n + 1
    <3>1. size[t] > 0 /\ pm_start <= estart - size[t] /\ earlier[t] <= n
          /\ \A j \in 1..earlier[t] : blocks[j].hi <= estart - size[t]
      BY <1>1, <1>7 DEF CallInv
    <3>2. \A j \in 1..earlier[t] : blocks'[j] = blocks[j]
      BY <1>1, <1>2, <1>6, <3>1
    <3> QED
      BY <1>1, <1>2, <1>4, <1>6, <2>3, <3>1, <3>2 DEF BlockInv
  <2> QED
    BY <1>2, <2>1, <2>2, <2>3
<1> QED
  BY <1>8, <1>9, <1>10, <1>11 DEF IInv

(* Every step keeps the invariant.                                           *)
LEMMA NextIInv == IInv /\ [Next]_vars => IInv'
<1> SUFFICES ASSUME IInv, [Next]_vars PROVE IInv'
  OBVIOUS
<1>1. CASE Start
  BY <1>1 DEF Start, IInv, TypeOK, HeapInv, CallInv, BlockInv
<1>2. ASSUME NEW t \in Caller, NEW s \in Size, Carve(t, s) PROVE IInv'
  BY <1>2, CarveIInv
<1>3. ASSUME NEW t \in Caller, Return(t) PROVE IInv'
  BY <1>3, ReturnIInv
<1>4. CASE UNCHANGED vars
  BY <1>4 DEF vars, IInv, TypeOK, HeapInv, CallInv, BlockInv
<1> QED
  BY <1>1, <1>2, <1>3, <1>4 DEF Next

(* The invariant holds in every state of every behaviour of kalloc.          *)
THEOREM Invariance == Spec => []IInv
BY InitIInv, NextIInv, PTL DEF Spec

(* estart, the calls' states and the returned blocks keep their types.       *)
THEOREM TypeCorrect == Spec => []TypeOK
<1>1. IInv => TypeOK
  BY DEF IInv
<1> QED
  BY Invariance, <1>1, PTL

(* kalloc returns memory of the heap, whatever other calls do between its    *)
(* unlock and its return, until a call has found the heap too small.         *)
THEOREM BlocksInHeap == Spec => []InHeap
<1>1. IInv => InHeap
  <2> SUFFICES ASSUME IInv, \A t \in Caller : pc[t] # "panic", NEW i \in DOMAIN blocks
               PROVE  /\ pm_start <= blocks[i].lo
                      /\ blocks[i].lo < blocks[i].hi
                      /\ blocks[i].hi <= pm_end
    BY DEF InHeap
  <2>1. BlockInv(i) /\ estart <= pm_end
    BY DEF IInv, HeapInv
  <2>2. blocks[i].lo \in Int /\ blocks[i].hi \in Int /\ estart \in Nat
    BY BlockType DEF IInv, TypeOK
  <2> QED
    BY <2>1, <2>2, PmmAssumption DEF BlockInv
<1> QED
  BY Invariance, <1>1, PTL

(* What had been returned when kalloc took alloc_lk is not given again, in   *)
(* spite of the address it reads after the unlock.                           *)
THEOREM NothingGivenAgain == Spec => []NeverGivenAgain
<1>1. IInv => NeverGivenAgain
  BY DEF IInv, NeverGivenAgain, BlockInv
<1> QED
  BY Invariance, <1>1, PTL
=============================================================================
