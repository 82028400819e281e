----------------------------- MODULE InputProofs ----------------------------
(* Proofs about Input, for any keyboard, readers, size of the ring and       *)
(* number of codes.                                                          *)
EXTENDS Input, FiniteSetTheorems, SequenceTheorems, TLAPS

-----------------------------------------------------------------------------
(* The ring's arithmetic, without a modulus.                                 *)

LEMMA NextSlot ==
  ASSUME NEW i \in Slot
  PROVE  next(i) = (IF i + 1 = NEVENTS THEN 0 ELSE i + 1) /\ next(i) \in Slot
<1>1. NEVENTS \in Nat \ {0, 1} /\ i \in Int /\ 0 <= i /\ i < NEVENTS
  BY InputAssumption DEF Slot
<1>2. CASE i + 1 = NEVENTS
  <2>1. (i + 1) % NEVENTS = 0
    BY <1>1, <1>2
  <2> QED
    BY <1>1, <1>2, <2>1 DEF next, Slot
<1>3. CASE i + 1 < NEVENTS
  <2>1. (i + 1) % NEVENTS = i + 1
    BY <1>1, <1>3
  <2> QED
    BY <1>1, <1>3, <2>1 DEF next, Slot
<1> QED
  BY <1>1, <1>2, <1>3

LEMMA CountIs ==
  ASSUME NEW f \in Slot, NEW r \in Slot
  PROVE  (r - f) % NEVENTS = IF f <= r THEN r - f ELSE r - f + NEVENTS
<1>1. NEVENTS \in Nat \ {0, 1} /\ f \in 0..(NEVENTS - 1) /\ r \in 0..(NEVENTS - 1)
  BY InputAssumption DEF Slot
<1>2. CASE f <= r
  BY <1>1, <1>2
<1>3. CASE f > r
  <2>1. r - f = NEVENTS * (-1) + (r - f + NEVENTS) /\ r - f + NEVENTS \in 0..(NEVENTS - 1)
    BY <1>1, <1>3
  <2> QED
    BY <1>1, <1>3, <2>1
<1> QED
  BY <1>1, <1>2, <1>3

LEMMA SlotBehind ==
  ASSUME NEW f \in Slot, NEW k \in 0..NEVENTS
  PROVE  (f + k) % NEVENTS = IF f + k < NEVENTS THEN f + k ELSE f + k - NEVENTS
<1>1. NEVENTS \in Nat \ {0, 1} /\ f \in 0..(NEVENTS - 1) /\ k \in 0..NEVENTS
  BY InputAssumption DEF Slot
<1>2. CASE f + k < NEVENTS
  BY <1>1, <1>2
<1>3. CASE f + k >= NEVENTS
  <2>1. f + k = NEVENTS + (f + k - NEVENTS) /\ f + k - NEVENTS \in 0..(NEVENTS - 1)
    BY <1>1, <1>3
  <2> QED
    BY <1>1, <1>3, <2>1
<1> QED
  BY <1>1, <1>2, <1>3

LEMMA CountType ==
  ASSUME TypeOK
  PROVE  Count \in 0..(NEVENTS - 1) /\ (Count = 0 <=> rear = front) /\ (Fills <=> Count = NEVENTS - 1)
<1>1. NEVENTS \in Nat \ {0, 1} /\ front \in 0..(NEVENTS - 1) /\ rear \in 0..(NEVENTS - 1)
  BY InputAssumption DEF TypeOK, Slot
<1>2. Count = IF front <= rear THEN rear - front ELSE rear - front + NEVENTS
  BY CountIs DEF TypeOK, Count
<1>3. next(rear) = IF rear + 1 = NEVENTS THEN 0 ELSE rear + 1
  BY NextSlot DEF TypeOK
<1> QED
  BY <1>1, <1>2, <1>3 DEF Fills

(* push_event adds the last event and pop_event takes the first.             *)
LEMMA PushRing ==
  ASSUME TypeOK, rear' = next(rear), front' = front
  PROVE  Count' = IF Fills THEN 0 ELSE Count + 1
<1>1. NEVENTS \in Nat \ {0, 1} /\ front \in 0..(NEVENTS - 1) /\ rear \in 0..(NEVENTS - 1)
  BY InputAssumption DEF TypeOK, Slot
<1>2. Count = IF front <= rear THEN rear - front ELSE rear - front + NEVENTS
  BY CountIs DEF TypeOK, Count
<1>3. next(rear) = (IF rear + 1 = NEVENTS THEN 0 ELSE rear + 1) /\ next(rear) \in Slot
  BY NextSlot DEF TypeOK
<1>4. Count' = IF front <= next(rear) THEN next(rear) - front ELSE next(rear) - front + NEVENTS
  BY <1>3, CountIs DEF TypeOK, Count
<1> QED
  BY <1>1, <1>2, <1>3, <1>4 DEF Fills

LEMMA PopRing ==
  ASSUME TypeOK, rear' = rear, front' = next(front), rear # front
  PROVE  Count' = Count - 1
<1>1. NEVENTS \in Nat \ {0, 1} /\ front \in 0..(NEVENTS - 1) /\ rear \in 0..(NEVENTS - 1)
  BY InputAssumption DEF TypeOK, Slot
<1>2. Count = IF front <= rear THEN rear - front ELSE rear - front + NEVENTS
  BY CountIs DEF TypeOK, Count
<1>3. next(front) = (IF front + 1 = NEVENTS THEN 0 ELSE front + 1) /\ next(front) \in Slot
  BY NextSlot DEF TypeOK
<1>4. Count' = IF next(front) <= rear THEN rear - next(front) ELSE rear - next(front) + NEVENTS
  BY <1>3, CountIs DEF TypeOK, Count
<1> QED
  BY <1>1, <1>2, <1>3, <1>4

-----------------------------------------------------------------------------
(* What codes mean: one code more, and codes that agree.                     *)

IsStroke(code) == \E k \in Printable : Presses(code, k)

LEMMA StrokesType ==
  ASSUME NEW s, NEW n \in Nat
  PROVE  IsFiniteSet(Strokes(s, n)) /\ Cardinality(Strokes(s, n)) \in Nat
<1>1. IsFiniteSet(1..n) /\ Strokes(s, n) \in SUBSET (1..n)
  BY FS_Interval DEF Strokes
<1> QED
  BY <1>1, FS_Subset, FS_CardinalityType

LEMMA StrokesStep ==
  ASSUME NEW s, NEW n \in Nat
  PROVE  /\ Strokes(s, n + 1) = IF IsStroke(s[n + 1]) THEN Strokes(s, n) \cup {n + 1} ELSE Strokes(s, n)
         /\ Cardinality(Strokes(s, n + 1))
              = IF IsStroke(s[n + 1]) THEN Cardinality(Strokes(s, n)) + 1 ELSE Cardinality(Strokes(s, n))
<1>1. Strokes(s, n + 1) = IF IsStroke(s[n + 1]) THEN Strokes(s, n) \cup {n + 1} ELSE Strokes(s, n)
  BY DEF Strokes, IsStroke
<1>2. n + 1 \notin Strokes(s, n)
  BY DEF Strokes
<1>3. Cardinality(Strokes(s, n) \cup {n + 1}) = Cardinality(Strokes(s, n)) + 1
  BY <1>2, StrokesType, FS_AddElement
<1> QED
  BY <1>1, <1>3

LEMMA RankType ==
  ASSUME NEW s, NEW n \in Nat, NEW i \in Strokes(s, n)
  PROVE  i \in 1..n /\ Rank(s, i) \in 1..Cardinality(Strokes(s, n))
<1>1. i \in 1..n /\ i \in Nat /\ i \in Strokes(s, i) /\ Strokes(s, i) \in SUBSET Strokes(s, n)
  BY DEF Strokes
<1>2. Cardinality(Strokes(s, i)) <= Cardinality(Strokes(s, n))
  BY <1>1, StrokesType, FS_Subset
<1>3. Cardinality(Strokes(s, i)) # 0
  BY <1>1, StrokesType, FS_EmptySet
<1> QED
  BY <1>1, <1>2, <1>3, StrokesType DEF Rank

LEMMA HeldStep ==
  ASSUME NEW s, NEW n \in Nat, NEW k
  PROVE  IsHeld(s, n + 2, k) <=>
           \/ Presses(s[n + 1], k) /\ ~Releases(s[n + 1], k)
           \/ IsHeld(s, n + 1, k) /\ ~Releases(s[n + 1], k)
<1>0. (n + 2) - 1 = n + 1 /\ (n + 1) - 1 = n
  OBVIOUS
<1>1. IsHeld(s, n + 2, k) <=> \E j \in 1..(n + 1) : Presses(s[j], k) /\ \A l \in j..(n + 1) : ~Releases(s[l], k)
  BY <1>0 DEF IsHeld
<1>2. IsHeld(s, n + 1, k) <=> \E j \in 1..n : Presses(s[j], k) /\ \A l \in j..n : ~Releases(s[l], k)
  BY <1>0 DEF IsHeld
<1>3. ASSUME IsHeld(s, n + 2, k)
      PROVE  ~Releases(s[n + 1], k) /\ (Presses(s[n + 1], k) \/ IsHeld(s, n + 1, k))
  <2>1. PICK j \in 1..(n + 1) : Presses(s[j], k) /\ \A l \in j..(n + 1) : ~Releases(s[l], k)
    BY <1>1, <1>3
  <2>2. ~Releases(s[n + 1], k)
    BY <2>1
  <2>3. CASE j \in 1..n
    BY <1>2, <2>1, <2>2, <2>3
  <2> QED
    BY <2>1, <2>2, <2>3
<1>4. ASSUME ~Releases(s[n + 1], k), Presses(s[n + 1], k) PROVE IsHeld(s, n + 2, k)
  <2>1. n + 1 \in 1..(n + 1) /\ \A l \in (n + 1)..(n + 1) : l = n + 1
    OBVIOUS
  <2> QED
    BY <1>1, <1>4, <2>1
<1>5. ASSUME ~Releases(s[n + 1], k), IsHeld(s, n + 1, k) PROVE IsHeld(s, n + 2, k)
  <2>1. PICK j \in 1..n : Presses(s[j], k) /\ \A l \in j..n : ~Releases(s[l], k)
    BY <1>2, <1>5
  <2>2. \A l \in j..(n + 1) : l \in j..n \/ l = n + 1
    OBVIOUS
  <2> QED
    BY <1>1, <1>5, <2>1, <2>2
<1> QED
  BY <1>3, <1>4, <1>5

LEMMA CapsStep ==
  ASSUME NEW s, NEW n \in Nat
  PROVE  CapsOn(s, n + 2) <=> IF Presses(s[n + 1], CAPS) THEN ~CapsOn(s, n + 1) ELSE CapsOn(s, n + 1)
<1> DEFINE P(m) == {j \in 1..m : Presses(s[j], CAPS)}
           a == Cardinality(P(n))
<1>1. (n + 2) - 1 = n + 1 /\ (n + 1) - 1 = n
  OBVIOUS
<1>2. IsFiniteSet(P(n)) /\ a \in Nat
  <2>1. IsFiniteSet(1..n) /\ P(n) \in SUBSET (1..n)
    BY FS_Interval
  <2> QED
    BY <2>1, FS_Subset, FS_CardinalityType
<1>3. P(n + 1) = IF Presses(s[n + 1], CAPS) THEN P(n) \cup {n + 1} ELSE P(n)
  OBVIOUS
<1>4. n + 1 \notin P(n)
  OBVIOUS
<1>5. Cardinality(P(n + 1)) = IF Presses(s[n + 1], CAPS) THEN a + 1 ELSE a
  BY <1>2, <1>3, <1>4, FS_AddElement
<1>6. (CapsOn(s, n + 2) <=> Cardinality(P(n + 1)) % 2 = 1) /\ (CapsOn(s, n + 1) <=> a % 2 = 1)
  BY <1>1 DEF CapsOn
<1> HIDE DEF P, a
<1>7. (a + 1) % 2 = 1 <=> ~(a % 2 = 1)
  BY <1>2
<1> QED
  BY <1>5, <1>6, <1>7

LEMMA Agree ==
  ASSUME NEW s, NEW t, NEW n \in Nat, \A i \in 1..n : s[i] = t[i]
  PROVE  /\ Strokes(s, n) = Strokes(t, n)
         /\ \A k : IsHeld(s, n + 1, k) = IsHeld(t, n + 1, k)
         /\ CapsOn(s, n + 1) = CapsOn(t, n + 1)
<1>1. Strokes(s, n) = Strokes(t, n)
  BY DEF Strokes
<1>2. (n + 1) - 1 = n
  OBVIOUS
<1>3. ASSUME NEW k PROVE IsHeld(s, n + 1, k) = IsHeld(t, n + 1, k)
  <2>1. \A j \in 1..n : \A l \in j..n : l \in 1..n
    OBVIOUS
  <2> QED
    BY <1>2, <2>1 DEF IsHeld
<1>4. {j \in 1..n : Presses(s[j], CAPS)} = {j \in 1..n : Presses(t[j], CAPS)}
  OBVIOUS
<1>5. CapsOn(s, n + 1) = CapsOn(t, n + 1)
  BY <1>2, <1>4 DEF CapsOn
<1> QED
  BY <1>1, <1>3, <1>5

LEMMA AgreeAt ==
  ASSUME NEW s, NEW t, NEW n \in Nat, \A i \in 1..n : s[i] = t[i], NEW i \in 1..n
  PROVE  Rank(s, i) = Rank(t, i) /\ MeantAt(s, i) = MeantAt(t, i)
<1>1. i \in Nat /\ \A j \in 1..i : s[j] = t[j]
  OBVIOUS
<1>2. Rank(s, i) = Rank(t, i)
  BY <1>1, Agree DEF Rank
<1>3. i - 1 \in Nat /\ (i - 1) + 1 = i /\ \A j \in 1..(i - 1) : s[j] = t[j]
  OBVIOUS
<1>4. (\A k : IsHeld(s, i, k) = IsHeld(t, i, k)) /\ CapsOn(s, i) = CapsOn(t, i)
  BY <1>3, Agree
<1>5. s[i] = t[i]
  OBVIOUS
<1> QED
  BY <1>2, <1>4, <1>5 DEF MeantAt
-----------------------------------------------------------------------------
(* The type of what a step computes.                                         *)

LEMMA EventType ==
  ASSUME NEW k \in Printable
  PROVE  event(k) \in Event /\ event(k) # NULL
<1>1. event(k) \in Event
  BY DEF event, Event, held
<1> QED
  BY <1>1, EventAssumption

(* The modifier state makes of a key what its codes mean.                    *)
LEMMA EventMeant ==
  ASSUME ModInv, NEW k \in Printable, struck[taken + 1].key = k
  PROVE  event(k) = MeantAt(struck, taken + 1)
<1> DEFINE on(kind) == \E m \in DOMAIN Modifier : Modifier[m] = kind /\ IsHeld(struck, taken + 1, m)
<1>1. \A kind : held(kind) = on(kind)
  BY DEF held, ModInv
<1>2. capslock = CapsOn(struck, taken + 1)
  BY DEF ModInv
<1> HIDE DEF on
<1>3. MeantAt(struck, taken + 1)
        = [ctrl |-> on("ctrl"), alt |-> on("alt"), key |-> k,
           shifted |-> /\ ~on("ctrl") /\ ~on("alt")
                       /\ IF k \in Letter THEN on("shift") # CapsOn(struck, taken + 1) ELSE on("shift")]
  BY DEF MeantAt, on
<1>4. event(k) = [ctrl |-> on("ctrl"), alt |-> on("alt"), key |-> k,
                  shifted |-> ~on("ctrl") /\ ~on("alt")
                              /\ (on("shift") # (CapsOn(struck, taken + 1) /\ k \in Letter))]
  BY <1>1, <1>2 DEF event
<1>5. (on("shift") # (CapsOn(struck, taken + 1) /\ k \in Letter))
        = (IF k \in Letter THEN on("shift") # CapsOn(struck, taken + 1) ELSE on("shift"))
  BY DEF on, CapsOn
<1> QED
  BY <1>3, <1>4, <1>5

(* Where read_key is in what was struck.                                     *)
LEMMA TakenType ==
  ASSUME TypeOK, FifoInv
  PROVE  taken \in Nat /\ Len(fifo) \in Nat /\ Len(struck) \in Nat /\ taken + Len(fifo) = Len(struck)
BY DEF TypeOK, FifoInv, taken

LEMMA Takes ==
  ASSUME TypeOK, FifoInv, fifo # <<>>, TakeCode
  PROVE  /\ Head(fifo) \in Code /\ Head(fifo) = struck[taken + 1]
         /\ taken' = taken + 1
         /\ fifo' \in Seq(Code) /\ irr' \in BOOLEAN /\ struck' = struck
         /\ FifoInv'
<1>1. fifo \in Seq(Code) /\ struck \in Seq(Code) /\ irr \in BOOLEAN
  BY DEF TypeOK
<1>2. Head(fifo) \in Code /\ Head(fifo) = fifo[1] /\ Len(fifo) \in Nat \ {0}
  BY <1>1
<1>3. /\ fifo' \in Seq(Code) /\ Len(fifo') = Len(fifo) - 1 /\ struck' = struck
      /\ \A i \in 1..Len(fifo') : fifo'[i] = fifo[i + 1]
  BY <1>1, <1>2 DEF TakeCode
<1>4. irr' \in BOOLEAN
  BY <1>1 DEF TakeCode
<1>5. taken' = taken + 1 /\ taken \in Nat
  BY <1>2, <1>3, TakenType DEF taken
<1>6. \A i \in 1..Len(fifo) : fifo[i] = struck[taken + i]
  BY DEF FifoInv
<1>7. \A i \in 1..Len(fifo') : fifo'[i] = struck'[taken' + i]
  <2> SUFFICES ASSUME NEW i \in 1..Len(fifo') PROVE fifo'[i] = struck'[taken' + i]
    OBVIOUS
  <2>1. i + 1 \in 1..Len(fifo) /\ taken + (i + 1) = taken' + i
    BY <1>2, <1>3, <1>5
  <2> QED
    BY <1>3, <1>6, <2>1
<1>8. Len(fifo') <= Len(struck')
  BY <1>2, <1>3 DEF FifoInv
<1> QED
  BY <1>2, <1>3, <1>4, <1>5, <1>6, <1>7, <1>8 DEF FifoInv

(* Reading a code keeps the modifier state that of the codes taken.          *)
LEMMA ModTaken ==
  ASSUME TypeOK, FifoInv, ModInv, fifo # <<>>, TakeCode,
         capslock' = IF Presses(Head(fifo), CAPS) THEN ~capslock ELSE capslock,
         \A k \in DOMAIN Modifier : k \in down' <=>
            Presses(Head(fifo), k) \/ (k \in down /\ ~Releases(Head(fifo), k)),
         down' \subseteq DOMAIN Modifier
  PROVE  ModInv'
<1>1. /\ Head(fifo) = struck[taken + 1] /\ taken' = taken + 1 /\ taken \in Nat /\ struck' = struck
      /\ taken' + 1 = taken + 2
  BY Takes, TakenType
<1>2. \A k : ~(Presses(Head(fifo), k) /\ Releases(Head(fifo), k))
  BY DEF Presses, Releases
<1>3. \A k : IsHeld(struck, taken + 2, k) <=>
               Presses(Head(fifo), k) \/ (IsHeld(struck, taken + 1, k) /\ ~Releases(Head(fifo), k))
  BY <1>1, <1>2, HeldStep
<1>4. CapsOn(struck, taken + 2) <=>
        IF Presses(Head(fifo), CAPS) THEN ~CapsOn(struck, taken + 1) ELSE CapsOn(struck, taken + 1)
  BY <1>1, CapsStep
<1>5. down' = {k \in DOMAIN Modifier : IsHeld(struck, taken + 2, k)}
  BY <1>3 DEF ModInv
<1>6. capslock' = CapsOn(struck, taken + 2)
  BY <1>4 DEF ModInv, CapsOn, TypeOK
<1> QED
  BY <1>1, <1>5, <1>6 DEF ModInv
-----------------------------------------------------------------------------
(* The inductive invariant.                                                  *)

LEMMA InitIInv == Init => IInv
<1> SUFFICES ASSUME Init PROVE IInv
  OBVIOUS
<1>1. NEVENTS \in Nat \ {0, 1} /\ 0 \in Slot
  BY InputAssumption DEF Slot
<1>2. TypeOK
  BY <1>1 DEF Init, TypeOK
<1>3. taken = 0 /\ taken + 1 = 1 /\ Len(struck) = 0 /\ Len(fifo) = 0 /\ Len(popped) = 0
  BY DEF Init, taken
<1>4. FifoInv
  BY <1>3 DEF FifoInv
<1>5. ModInv
  <2>1. \A k : ~IsHeld(struck, 1, k)
    BY DEF IsHeld
  <2>2. {j \in 1..(1 - 1) : Presses(struck[j], CAPS)} = {}
    OBVIOUS
  <2>3. Cardinality({j \in 1..(1 - 1) : Presses(struck[j], CAPS)}) = 0
    BY <2>2, FS_EmptySet
  <2>4. CapsOn(struck, 1) = FALSE
    BY <2>3 DEF CapsOn
  <2> QED
    BY <1>3, <2>1, <2>4 DEF ModInv, Init
<1>6. Count = 0
  BY <1>2, CountType DEF Init
<1>7. SemInv
  <2>1. Popping = {}
    BY DEF Popping, Init
  <2> QED
    BY <1>6, <2>1, FS_EmptySet DEF SemInv, ReaderFindsEvent, Init
<1>8. EventInv
  <2>1. Strokes(struck, taken) = {}
    BY <1>3 DEF Strokes
  <2>2. Cardinality(Strokes(struck, taken)) = 0
    BY <2>1, FS_EmptySet
  <2> QED
    BY <1>3, <1>6, <2>1, <2>2 DEF EventInv, Init
<1> QED
  BY <1>2, <1>4, <1>5, <1>7, <1>8 DEF IInv

(* A step that leaves the ring, its event and what was read alone leaves the *)
(* events of each rank.                                                      *)
LEMMA NthKept ==
  ASSUME UNCHANGED <<ev, ringvars, popped>>
  PROVE  Count' = Count /\ \A m : Nth(m)' = Nth(m)
<1>1. Count' = Count
  BY DEF Count, ringvars
<1> QED
  BY <1>1 DEF Nth, Pending, ringvars

LEMMA StrikeStep ==
  ASSUME IInv, NEW code \in Code, Strike(code)
  PROVE  IInv'
<1> USE DEF IInv
<1>1. TypeOK /\ taken \in Nat /\ Len(fifo) \in Nat /\ Len(struck) \in Nat /\ taken + Len(fifo) = Len(struck)
  BY TakenType
<1>2. /\ struck' = Append(struck, code) /\ fifo' = Append(fifo, code) /\ irr' \in BOOLEAN
      /\ UNCHANGED <<kbdirq, pc, ev, capslock, down, events, front, rear, event_sem, rpc, popped>>
  BY <1>1 DEF Strike, modvars, ringvars, TypeOK
<1>3. TypeOK'
  BY <1>1, <1>2 DEF TypeOK
<1>4. /\ Len(struck') = Len(struck) + 1 /\ Len(fifo') = Len(fifo) + 1
      /\ \A i \in 1..Len(struck) : struck'[i] = struck[i]
      /\ \A i \in 1..Len(fifo) : fifo'[i] = fifo[i]
      /\ struck'[Len(struck) + 1] = code /\ fifo'[Len(fifo) + 1] = code
  BY <1>1, <1>2 DEF TypeOK
<1>5. taken' = taken /\ \A i \in 1..taken : struck'[i] = struck[i]
  BY <1>1, <1>4 DEF taken
<1>6. FifoInv'
  <2>1. ASSUME NEW i \in 1..Len(fifo') PROVE fifo'[i] = struck'[taken + i]
    <3>1. CASE i \in 1..Len(fifo)
      <4>1. taken + i \in 1..Len(struck)
        BY <1>1, <3>1
      <4> QED
        BY <1>4, <3>1, <4>1 DEF FifoInv
    <3>2. CASE i = Len(fifo) + 1
      <4>1. taken + i = Len(struck) + 1
        BY <1>1, <3>2
      <4> QED
        BY <1>4, <3>2, <4>1
    <3> QED
      BY <1>1, <1>4, <3>1, <3>2
  <2> QED
    BY <1>1, <1>4, <1>5, <2>1 DEF FifoInv
<1>7. ModInv'
  <2>1. ModInv
    OBVIOUS
  <2> HIDE DEF IInv
  <2>2. /\ \A k : IsHeld(struck', taken + 1, k) = IsHeld(struck, taken + 1, k)
        /\ CapsOn(struck', taken + 1) = CapsOn(struck, taken + 1)
    <3>1. ASSUME NEW s, NEW t, NEW n \in Nat, \A i \in 1..n : s[i] = t[i]
          PROVE  /\ \A k : IsHeld(s, n + 1, k) = IsHeld(t, n + 1, k)
                 /\ CapsOn(s, n + 1) = CapsOn(t, n + 1)
      BY <3>1, Agree
    <3> QED
      BY <1>1, <1>5, <3>1
  <2> QED
    BY <1>2, <1>5, <2>1, <2>2 DEF ModInv
<1>8. SemInv'
  BY <1>2 DEF SemInv, Popping, ReaderFindsEvent, Count
<1>9. EventInv'
  <2>1. Strokes(struck', taken) = Strokes(struck, taken)
    BY <1>1, <1>5, Agree
  <2>2. ASSUME NEW i \in Strokes(struck, taken)
        PROVE  Rank(struck', i) = Rank(struck, i) /\ MeantAt(struck', i) = MeantAt(struck, i)
    <3>1. i \in 1..taken
      BY DEF Strokes
    <3> QED
      BY <1>1, <1>5, <3>1, AgreeAt
  <2>3. Count' = Count /\ \A m : Nth(m)' = Nth(m)
    BY <1>2, NthKept DEF ringvars
  <2> HIDE DEF IInv
  <2>4. EventInv
    BY DEF IInv
  <2> QED
    BY <1>2, <1>5, <2>1, <2>2, <2>3, <2>4 DEF EventInv
<1> QED
  BY <1>3, <1>6, <1>7, <1>8, <1>9

(* Steps that take no code and leave the events where they are.              *)
LEMMA FrameKept ==
  ASSUME IInv, UNCHANGED <<fifo, struck, modvars, ev, ringvars, popped>>,
         pc = "panic" <=> pc' = "panic", pc = "push" <=> pc' = "push"
  PROVE  FifoInv' /\ ModInv' /\ EventInv' /\ Count' = Count
<1>1. taken' = taken
  BY DEF taken
<1>2. FifoInv' /\ ModInv'
  BY <1>1 DEF IInv, FifoInv, ModInv, modvars
<1>3. Count' = Count /\ \A m : Nth(m)' = Nth(m)
  BY NthKept
<1>4. EventInv
  BY DEF IInv
<1>5. EventInv'
  BY <1>1, <1>3, <1>4 DEF EventInv
<1> QED
  BY <1>2, <1>3, <1>5

LEMMA QuietStep ==
  ASSUME IInv, input_notify \/ signal \/ Wait \/ (\E r \in Reader : ReadWait(r)) \/ UNCHANGED vars
  PROVE  IInv'
<1>0. TypeOK /\ SemInv /\ Count \in Nat
  BY CountType DEF IInv
<1>1. CASE input_notify
  <2>1. TypeOK'
    <3>1. irr' \in BOOLEAN /\ kbdirq' = kbdirq + 1 /\ UNCHANGED <<modvars, ringvars>>
          /\ UNCHANGED <<fifo, pc, ev, event_sem, rpc, struck, popped>>
      BY <1>1 DEF input_notify
    <3> QED
      BY <1>0, <3>1 DEF TypeOK, modvars, ringvars
  <2>2. FifoInv' /\ ModInv' /\ EventInv' /\ Count' = Count
    BY <1>1, FrameKept DEF input_notify
  <2>3. SemInv'
    BY <1>0, <1>1, <2>2 DEF input_notify, SemInv, Popping, ReaderFindsEvent
  <2> QED
    BY <2>1, <2>2, <2>3 DEF IInv
<1>2. CASE signal
  <2>1. TypeOK'
    BY <1>0, <1>2 DEF signal, Signalled, TypeOK, modvars, ringvars, kbdvars
  <2>2. FifoInv' /\ ModInv' /\ EventInv' /\ Count' = Count
    BY <1>2, FrameKept DEF signal, kbdvars
  <2>3. Cardinality(Popping) \in Nat /\ Popping' = Popping
    BY <1>0, <1>2, FS_CardinalityType DEF SemInv, Popping, signal
  <2>4. SemInv'
    BY <1>0, <1>2, <2>2, <2>3 DEF signal, Signalled, SemInv, ReaderFindsEvent, TypeOK
  <2> QED
    BY <2>1, <2>2, <2>4 DEF IInv
<1>3. CASE Wait
  <2>1. TypeOK'
    BY <1>0, <1>3 DEF Wait, TypeOK, modvars, ringvars, kbdvars
  <2>2. FifoInv' /\ ModInv' /\ EventInv' /\ Count' = Count
    BY <1>3, FrameKept DEF Wait, kbdvars
  <2>3. SemInv'
    BY <1>0, <1>3, <2>2 DEF Wait, SemInv, Popping, ReaderFindsEvent
  <2> QED
    BY <2>1, <2>2, <2>3 DEF IInv
<1>4. ASSUME NEW r \in Reader, ReadWait(r) PROVE IInv'
  <2>1. TypeOK'
    BY <1>0, <1>4 DEF ReadWait, TypeOK, modvars, ringvars, kbdvars
  <2>2. FifoInv' /\ ModInv' /\ EventInv' /\ Count' = Count
    BY <1>4, FrameKept DEF ReadWait, kbdvars
  <2>3. Popping' = Popping \cup {r} /\ r \notin Popping
    BY <1>0, <1>4 DEF ReadWait, Popping, TypeOK
  <2>4. IsFiniteSet(Popping') /\ Cardinality(Popping') = Cardinality(Popping) + 1
        /\ Cardinality(Popping) \in Nat
    BY <1>0, <2>3, FS_AddElement, FS_CardinalityType DEF SemInv
  <2>5. SemInv'
    BY <1>0, <1>4, <2>2, <2>4 DEF ReadWait, SemInv, ReaderFindsEvent, TypeOK
  <2> QED
    BY <2>1, <2>2, <2>5 DEF IInv
<1>5. CASE UNCHANGED vars
  <2>1. TypeOK'
    BY <1>0, <1>5 DEF vars, TypeOK
  <2>2. FifoInv' /\ ModInv' /\ EventInv' /\ Count' = Count
    BY <1>5, FrameKept DEF vars, modvars, ringvars
  <2>3. SemInv'
    BY <1>0, <1>5, <2>2 DEF vars, SemInv, Popping, ReaderFindsEvent
  <2> QED
    BY <2>1, <2>2, <2>3 DEF IInv
<1> QED
  BY <1>1, <1>2, <1>3, <1>4, <1>5
(* A code that makes no event changes at most the modifier state.            *)
LEMMA SilentTake ==
  ASSUME IInv, fifo # <<>>, TakeCode, ~IsStroke(Head(fifo)), pc = "read", pc' \in {"read", "wait"},
         UNCHANGED <<ev, ringvars, popped>>
  PROVE  EventInv' /\ Count' = Count
<1>1. TypeOK /\ FifoInv /\ EventInv /\ taken \in Nat
  BY TakenType DEF IInv
<1>2. taken' = taken + 1 /\ struck' = struck /\ Head(fifo) = struck[taken + 1]
  BY <1>1, Takes
<1>3. Strokes(struck, taken + 1) = Strokes(struck, taken)
  BY <1>1, <1>2, StrokesStep
<1>4. Count' = Count /\ \A m : Nth(m)' = Nth(m)
  BY NthKept
<1>5. EventInv'
  BY <1>1, <1>2, <1>3, <1>4 DEF EventInv
<1> QED
  BY <1>4, <1>5

LEMMA ReadNothingStep ==
  ASSUME IInv, ReadNothing
  PROVE  IInv'
<1>0. TypeOK /\ FifoInv /\ ModInv /\ SemInv
  BY DEF IInv
<1>1. pc = "read" /\ pc' = "wait" /\ UNCHANGED <<kbdirq, ev, modvars, ringvars, event_sem, rpc, popped>>
  BY DEF ReadNothing
<1>2. CASE UNCHANGED kbdvars
  <2>1. TypeOK'
    BY <1>0, <1>1, <1>2 DEF TypeOK, kbdvars, modvars, ringvars
  <2>2. FifoInv' /\ ModInv' /\ EventInv' /\ Count' = Count
    BY <1>1, <1>2, FrameKept DEF kbdvars
  <2>3. SemInv'
    BY <1>0, <1>1, <2>2 DEF SemInv, Popping, ReaderFindsEvent
  <2> QED
    BY <2>1, <2>2, <2>3 DEF IInv
<1>3. CASE fifo # <<>> /\ Head(fifo) = NULL /\ TakeCode
  <2>1. fifo' \in Seq(Code) /\ irr' \in BOOLEAN /\ struck' = struck /\ FifoInv'
    BY <1>0, <1>3, Takes
  <2>2. TypeOK'
    BY <1>0, <1>1, <2>1 DEF TypeOK, modvars, ringvars
  <2>3. \A k : ~Presses(Head(fifo), k) /\ ~Releases(Head(fifo), k)
    BY <1>3 DEF Presses, Releases
  <2>4. ModInv'
    <3>1. capslock' = capslock /\ down' = down /\ down \subseteq DOMAIN Modifier
      BY <1>0, <1>1 DEF modvars, TypeOK
    <3> QED
      BY <1>0, <1>3, <2>3, <3>1, ModTaken
  <2>5. EventInv' /\ Count' = Count
    BY <1>1, <1>3, <2>3, SilentTake DEF IsStroke
  <2>6. SemInv'
    BY <1>0, <1>1, <2>5 DEF SemInv, Popping, ReaderFindsEvent
  <2> QED
    BY <2>1, <2>2, <2>4, <2>5, <2>6 DEF IInv
<1> QED
  BY <1>2, <1>3 DEF ReadNothing

(* A stroke adds one event, that of the modifier state it finds.             *)
LEMMA StrokeTaken ==
  ASSUME IInv, fifo # <<>>, TakeCode, NEW k \in Printable, Presses(Head(fifo), k), pc = "read",
         pc' = "push", ev' = event(k), UNCHANGED <<ringvars, popped>>
  PROVE  EventInv' /\ Count' = Count
<1> DEFINE T == Strokes(struck, taken)
           total == Cardinality(T)
<1>1. TypeOK /\ FifoInv /\ ModInv /\ EventInv /\ taken \in Nat /\ Len(popped) \in Nat
  BY TakenType DEF IInv, TypeOK
<1>2. taken' = taken + 1 /\ struck' = struck /\ Head(fifo) = struck[taken + 1]
  BY <1>1, Takes
<1>3. Strokes(struck, taken + 1) = T \cup {taken + 1} /\ Cardinality(Strokes(struck, taken + 1)) = total + 1
      /\ total \in Nat
  BY <1>1, <1>2, StrokesStep, StrokesType DEF IsStroke
<1>4. Rank(struck, taken + 1) = total + 1
  BY <1>3 DEF Rank
<1>5. MeantAt(struck, taken + 1) = event(k) /\ event(k) # NULL
  BY <1>1, <1>2, EventMeant, EventType DEF Presses
<1>6. Count' = Count /\ Count \in Nat
  BY <1>1, CountType DEF Count, ringvars
<1>7. ev = NULL /\ total = Len(popped) + Count
  <2>1. ev = NULL
    BY <1>1 DEF EventInv
  <2>2. total = Len(popped) + Count + (IF ev = NULL THEN 0 ELSE 1)
    BY <1>1 DEF EventInv
  <2> QED
    BY <1>1, <1>6, <2>1, <2>2
<1>8. ASSUME NEW m \in 1..total PROVE Nth(m)' = Nth(m)
  BY <1>1, <1>6, <1>7 DEF Nth, Pending, ringvars
<1>9. ASSUME NEW m, m = total + 1 PROVE Nth(m)' = event(k)
  BY <1>1, <1>6, <1>7, <1>9 DEF Nth
<1> HIDE DEF total
<1>10. \A m \in 1..(total + 1) : \E i \in T \cup {taken + 1} : Rank(struck, i) = m
  <2> SUFFICES ASSUME NEW m \in 1..(total + 1)
               PROVE  \E i \in T \cup {taken + 1} : Rank(struck, i) = m
    OBVIOUS
  <2>1. CASE m = total + 1
    BY <1>4, <2>1
  <2>2. CASE m \in 1..total
    BY <1>1, <2>2 DEF EventInv, total
  <2> QED
    BY <1>3, <2>1, <2>2
<1>11. ASSUME NEW i \in T \cup {taken + 1}, NEW m, m = Rank(struck, i)
       PROVE  Nth(m)' = MeantAt(struck, i)
  <2>1. CASE i = taken + 1
    BY <1>4, <1>5, <1>9, <1>11, <2>1
  <2>2. CASE i \in T
    <3>1. Rank(struck, i) \in 1..total /\ Nth(Rank(struck, i)) = MeantAt(struck, i)
      BY <1>1, <1>7, <2>2, RankType DEF EventInv, total
    <3> QED
      BY <1>8, <1>11, <3>1
  <2> QED
    BY <2>1, <2>2
<1> HIDE DEF T
<1>12. \A i : Rank(struck, i)' = Rank(struck, i) /\ MeantAt(struck, i)' = MeantAt(struck, i)
  BY <1>2
<1>13. Strokes(struck, taken)' = T \cup {taken + 1}
  BY <1>2, <1>3
<1> QED
  BY <1>1, <1>2, <1>3, <1>5, <1>6, <1>7, <1>10, <1>11, <1>12, <1>13 DEF EventInv
LEMMA ReadKeyStep ==
  ASSUME IInv, ReadKey
  PROVE  IInv'
<1> DEFINE k == Head(fifo).key
           pressed == Head(fifo).down
           makes == k \in Printable /\ pressed
<1>0. TypeOK /\ FifoInv /\ ModInv /\ SemInv
  BY DEF IInv
<1>1. /\ pc = "read" /\ fifo # <<>> /\ Head(fifo) # NULL /\ TakeCode
      /\ UNCHANGED <<kbdirq, ringvars, event_sem, rpc, popped>>
      /\ capslock' = IF k = CAPS /\ pressed THEN ~capslock ELSE capslock
      /\ down' = IF k \notin DOMAIN Modifier THEN down
                 ELSE IF pressed THEN down \cup {k} ELSE down \ {k}
      /\ IF makes THEN pc' = "push" /\ ev' = event(k) ELSE UNCHANGED <<pc, ev>>
  BY DEF ReadKey
<1>2. /\ Head(fifo) \in Code /\ fifo' \in Seq(Code) /\ irr' \in BOOLEAN /\ struck' = struck
      /\ FifoInv'
  BY <1>0, <1>1, Takes
<1>3. Head(fifo) \in [key : Key, down : BOOLEAN]
  BY <1>1, <1>2 DEF Code
<1>4. k \in Key /\ pressed \in BOOLEAN
  BY <1>3
<1>5. /\ \A m : Presses(Head(fifo), m) <=> m = k /\ pressed
      /\ \A m : Releases(Head(fifo), m) <=> m = k /\ ~pressed
  BY <1>1 DEF Presses, Releases
<1> HIDE DEF k, pressed
<1>6. down' \subseteq DOMAIN Modifier
  BY <1>0, <1>1 DEF TypeOK
<1>7. capslock' \in BOOLEAN
  BY <1>0, <1>1 DEF TypeOK
<1>8. ModInv'
  <2>1. capslock' = IF Presses(Head(fifo), CAPS) THEN ~capslock ELSE capslock
    BY <1>1, <1>5
  <2>2. ASSUME NEW m \in DOMAIN Modifier
        PROVE  m \in down' <=> Presses(Head(fifo), m) \/ (m \in down /\ ~Releases(Head(fifo), m))
    BY <1>0, <1>1, <1>5
  <2> QED
    BY <1>0, <1>1, <1>6, <2>1, <2>2, ModTaken
<1>9. EventInv' /\ Count' = Count /\ pc' \in {"read", "push"} /\ ev' \in Event \cup {NULL}
  <2>1. CASE makes
    <3>1. EventInv' /\ Count' = Count
      BY <1>1, <1>5, <2>1, StrokeTaken
    <3> QED
      BY <1>1, <2>1, <3>1, EventType
  <2>2. CASE ~makes
    <3>1. ~IsStroke(Head(fifo))
      BY <1>5, <2>2 DEF IsStroke
    <3>2. EventInv' /\ Count' = Count
      BY <1>1, <2>2, <3>1, SilentTake
    <3> QED
      BY <1>0, <1>1, <2>2, <3>2 DEF TypeOK
  <2> QED
    BY <2>1, <2>2
<1>10. TypeOK'
  BY <1>0, <1>1, <1>2, <1>6, <1>7, <1>9 DEF TypeOK, ringvars
<1>11. SemInv'
  BY <1>0, <1>1, <1>9 DEF SemInv, Popping, ReaderFindsEvent
<1> QED
  BY <1>2, <1>8, <1>9, <1>10, <1>11 DEF IInv

(* The slot of the i-th event, without a modulus.                            *)
LEMMA PendingSlot ==
  ASSUME NEW f \in Slot, NEW i \in 1..NEVENTS
  PROVE  (f + i - 1) % NEVENTS = IF f + i - 1 < NEVENTS THEN f + i - 1 ELSE f + i - 1 - NEVENTS
<1>1. NEVENTS \in Nat \ {0, 1} /\ f \in Int
  BY InputAssumption DEF Slot
<1>2. i - 1 \in 0..NEVENTS /\ f + (i - 1) = f + i - 1
  BY <1>1
<1> QED
  BY <1>2, SlotBehind

LEMMA PushStep ==
  ASSUME IInv, push
  PROVE  IInv'
<1>0. TypeOK /\ FifoInv /\ ModInv /\ SemInv /\ EventInv
  BY DEF IInv
<1>1. /\ pc = "push" /\ events' = [events EXCEPT ![rear] = ev] /\ rear' = next(rear) /\ front' = front
      /\ pc' = (IF Fills THEN "panic" ELSE "signal") /\ ev' = NULL
      /\ UNCHANGED <<fifo, irr, struck, kbdirq, capslock, down, event_sem, rpc, popped>>
  BY DEF push, kbdvars, modvars
<1>2. /\ NEVENTS \in Nat \ {0, 1} /\ front \in 0..(NEVENTS - 1) /\ rear \in 0..(NEVENTS - 1)
      /\ Count \in 0..(NEVENTS - 1) /\ (Fills <=> Count = NEVENTS - 1) /\ Len(popped) \in Nat
  BY <1>0, InputAssumption, CountType DEF TypeOK, Slot
<1>3. Count' = IF Fills THEN 0 ELSE Count + 1
  BY <1>0, <1>1, PushRing
<1>4. TypeOK'
  BY <1>0, <1>1, NextSlot DEF TypeOK
<1>5. FifoInv' /\ ModInv'
  BY <1>0, <1>1 DEF FifoInv, ModInv, taken
<1>6. SemInv'
  <2>1. IsFiniteSet(Popping) /\ Cardinality(Popping) \in Nat /\ Popping' = Popping /\ event_sem \in Nat
    BY <1>0, <1>1, FS_CardinalityType DEF SemInv, Popping, TypeOK
  <2>2. Count = event_sem + Cardinality(Popping)
    BY <1>0, <1>1, <2>1 DEF SemInv
  <2>3. ~Fills => Count' = event_sem + Cardinality(Popping) + 1
    BY <1>2, <1>3, <2>2
  <2>4. ReaderFindsEvent'
    BY <1>0, <1>1 DEF SemInv, ReaderFindsEvent
  <2> QED
    BY <1>1, <2>1, <2>3, <2>4 DEF SemInv
<1>7. EventInv'
  <2> DEFINE T == Strokes(struck, taken)
             total == Cardinality(T)
  <2>1. ev # NULL /\ total = Len(popped) + Count + 1 /\ total \in Nat
    <3>1. ev # NULL /\ total \in Nat
      BY <1>0, <1>1, StrokesType, TakenType DEF EventInv
    <3>2. total = Len(popped) + Count + (IF ev = NULL THEN 0 ELSE 1)
      BY <1>0, <1>1 DEF EventInv
    <3> QED
      BY <3>1, <3>2
  <2>2. taken' = taken /\ struck' = struck
    BY <1>1 DEF taken
  <2>3. ASSUME ~Fills, NEW m \in 1..total PROVE Nth(m)' = Nth(m)
    <3>1. CASE m <= Len(popped)
      BY <1>1, <3>1 DEF Nth
    <3>2. CASE m > Len(popped)
      <4> DEFINE i == m - Len(popped)
                 at == IF front + i - 1 < NEVENTS THEN front + i - 1 ELSE front + i - 1 - NEVENTS
      <4>1. i \in 1..(Count + 1) /\ Count' = Count + 1 /\ at \in 0..(NEVENTS - 1)
        BY <1>2, <1>3, <2>1, <2>3, <3>2
      <4>2. Nth(m)' = Pending'[i]
        BY <1>1, <1>2, <1>3, <2>1, <2>3, <3>2 DEF Nth
      <4>3. Pending'[i] = events'[at]
        <5>1. i \in 1..NEVENTS /\ i \in 1..Count'
          BY <1>2, <2>3, <4>1
        <5>2. (front + i - 1) % NEVENTS = at
          BY <1>0, <5>1, PendingSlot DEF TypeOK
        <5> QED
          BY <1>1, <5>1, <5>2 DEF Pending
      <4>4. CASE i <= Count
        <5>1. Nth(m) = Pending[i] /\ Pending[i] = events[at]
          <6>1. Nth(m) = Pending[i]
            BY <1>2, <4>1, <4>4, <3>2 DEF Nth
          <6>2. i \in 1..NEVENTS /\ i \in 1..Count
            BY <1>2, <4>1, <4>4
          <6>3. (front + i - 1) % NEVENTS = at
            BY <1>0, <6>2, PendingSlot DEF TypeOK
          <6> QED
            BY <6>1, <6>2, <6>3 DEF Pending
        <5>2. at # rear
          <6>1. Count = IF front <= rear THEN rear - front ELSE rear - front + NEVENTS
            BY <1>0, CountIs DEF TypeOK, Count
          <6> QED
            BY <1>2, <4>1, <4>4, <6>1
        <5> QED
          BY <1>0, <1>1, <1>2, <4>1, <4>2, <4>3, <5>1, <5>2 DEF TypeOK, Slot
      <4>5. CASE i = Count + 1
        <5>1. Nth(m) = ev
          BY <1>2, <4>1, <4>5, <3>2 DEF Nth
        <5>2. at = rear
          <6>1. Count = IF front <= rear THEN rear - front ELSE rear - front + NEVENTS
            BY <1>0, CountIs DEF TypeOK, Count
          <6> QED
            BY <1>2, <4>1, <4>5, <6>1
        <5> QED
          BY <1>0, <1>1, <1>2, <4>1, <4>2, <4>3, <5>1, <5>2 DEF TypeOK, Slot
      <4> QED
        BY <1>2, <4>1, <4>4, <4>5
    <3> QED
      BY <1>2, <3>1, <3>2
  <2>4. \A i \in T : Rank(struck, i) \in 1..total /\ Nth(Rank(struck, i)) = MeantAt(struck, i)
    BY <1>0, <1>1, RankType, TakenType DEF EventInv
  <2>5. \A m \in 1..total : \E i \in T : Rank(struck, i) = m
    BY <1>0 DEF EventInv
  <2>6. \A i : Rank(struck, i)' = Rank(struck, i) /\ MeantAt(struck, i)' = MeantAt(struck, i)
    BY <2>2
  <2>7. Strokes(struck, taken)' = T
    BY <2>2
  <2>8. ASSUME ~Fills, NEW i \in T PROVE Nth(Rank(struck, i))' = MeantAt(struck, i)
    BY <2>2, <2>3, <2>4, <2>6, <2>8
  <2> HIDE DEF T
  <2>9. CASE Fills
    BY <1>1, <1>2, <2>1, <2>5, <2>6, <2>7, <2>9 DEF EventInv
  <2>10. CASE ~Fills
    <3>1. total = (Len(popped) + Count + 1) /\ Count' = Count + 1 /\ pc' = "signal"
      BY <1>1, <1>3, <2>1, <2>10
    <3> QED
      BY <1>1, <1>2, <2>1, <2>5, <2>6, <2>7, <2>8, <2>10, <3>1 DEF EventInv
  <2> QED
    BY <2>9, <2>10
<1> QED
  BY <1>4, <1>5, <1>6, <1>7 DEF IInv
(* event_sem let the reader in, so the ring is not empty.                    *)
LEMMA EventForReader ==
  ASSUME IInv, LockFree, NEW r \in Reader, rpc[r] = "pop"
  PROVE  rear # front
<1>1. TypeOK /\ SemInv /\ pc # "panic"
  BY DEF IInv, LockFree
<1>2. r \in Popping
  BY DEF Popping
<1>3. Cardinality(Popping) \in Nat /\ Cardinality(Popping) # 0
  BY <1>1, <1>2, FS_CardinalityType, FS_EmptySet DEF SemInv
<1>4. Count = event_sem + Cardinality(Popping) + (IF pc = "signal" THEN 1 ELSE 0)
  BY <1>1 DEF SemInv
<1>5. Count # 0
  BY <1>1, <1>3, <1>4 DEF TypeOK
<1> QED
  BY <1>1, <1>5, CountType

LEMMA PopStep ==
  ASSUME IInv, NEW r \in Reader, Pop(r)
  PROVE  IInv'
<1>0. TypeOK /\ FifoInv /\ ModInv /\ SemInv /\ EventInv /\ LockFree /\ pc # "panic"
  BY DEF IInv, Pop, LockFree
<1>1. /\ rear # front /\ rpc[r] = "pop" /\ rpc' = [rpc EXCEPT ![r] = "wait"]
      /\ front' = next(front) /\ popped' = Append(popped, events[front])
      /\ UNCHANGED <<fifo, irr, struck, kbdirq, pc, ev, capslock, down, events, rear, event_sem>>
  BY EventForReader DEF Pop, kbdvars, modvars
<1>2. /\ NEVENTS \in Nat \ {0, 1} /\ front \in 0..(NEVENTS - 1) /\ rear \in 0..(NEVENTS - 1)
      /\ Count \in 1..(NEVENTS - 1) /\ Len(popped) \in Nat
  BY <1>0, <1>1, InputAssumption, CountType DEF TypeOK, Slot
<1>3. Count' = Count - 1
  BY <1>0, <1>1, PopRing
<1>4. front' \in Slot /\ front' = IF front + 1 = NEVENTS THEN 0 ELSE front + 1
  BY <1>0, <1>1, NextSlot DEF TypeOK
<1> DEFINE T == Strokes(struck, taken)
           total == Cardinality(T)
           p == Len(popped)
<1>5. total = p + Count + (IF ev = NULL THEN 0 ELSE 1) /\ total \in Nat
  BY <1>0, StrokesType, TakenType DEF EventInv
<1>6. /\ Len(popped') = p + 1 /\ popped'[p + 1] = events[front]
      /\ \A m \in 1..p : popped'[m] = popped[m]
  BY <1>0, <1>1 DEF TypeOK
<1> DEFINE slot(i) == IF front + i - 1 < NEVENTS THEN front + i - 1 ELSE front + i - 1 - NEVENTS
<1>7. ASSUME NEW i \in 1..Count PROVE Pending[i] = events[slot(i)]
  <2>1. i \in 1..NEVENTS
    BY <1>2
  <2>2. (front + i - 1) % NEVENTS = slot(i)
    BY <1>0, <2>1, PendingSlot DEF TypeOK
  <2> QED
    BY <2>2 DEF Pending
<1>8. ASSUME NEW i \in 1..(Count - 1) PROVE Pending'[i] = Pending[i + 1]
  <2>1. i \in 1..NEVENTS /\ i + 1 \in 1..Count /\ i \in 1..Count'
    BY <1>2, <1>3
  <2>2. (front' + i - 1) % NEVENTS = IF front' + i - 1 < NEVENTS THEN front' + i - 1 ELSE front' + i - 1 - NEVENTS
    BY <1>4, <2>1, PendingSlot
  <2>3. (front' + i - 1) % NEVENTS = slot(i + 1)
    BY <1>2, <1>4, <2>1, <2>2
  <2>4. Pending'[i] = events[slot(i + 1)]
    BY <1>1, <2>1, <2>3 DEF Pending
  <2> QED
    BY <1>7, <2>1, <2>4
<1>9. Pending[1] = events[front]
  <2>1. slot(1) = front
    BY <1>2
  <2> QED
    BY <1>2, <1>7, <2>1
<1> HIDE DEF slot
<1>10. ASSUME NEW m \in 1..total PROVE Nth(m)' = Nth(m)
  <2>1. CASE m <= p
    BY <1>2, <1>6, <2>1 DEF Nth
  <2>2. CASE m = p + 1
    <3>1. Nth(m) = Pending[1]
      BY <1>2, <2>2 DEF Nth
    <3>2. Nth(m)' = popped'[p + 1]
      BY <1>2, <1>6, <2>2 DEF Nth
    <3> QED
      BY <1>6, <1>9, <3>1, <3>2
  <2>3. CASE m > p + 1 /\ m <= p + Count
    <3>1. Nth(m) = Pending[m - p]
      BY <1>2, <2>3 DEF Nth
    <3>2. Nth(m)' = Pending'[m - (p + 1)]
      BY <1>2, <1>3, <1>6, <2>3 DEF Nth
    <3>3. m - (p + 1) \in 1..(Count - 1) /\ (m - (p + 1)) + 1 = m - p
      BY <1>2, <2>3
    <3> QED
      BY <1>8, <3>1, <3>2, <3>3
  <2>4. CASE m > p + Count
    BY <1>1, <1>2, <1>3, <1>6, <2>4 DEF Nth
  <2> QED
    BY <1>2, <2>1, <2>2, <2>3, <2>4
<1>11. TypeOK'
  <2>1. Pending[1] \in Event
    <3>1. CASE events[front] \in Event
      BY <1>9, <3>1
    <3>2. \E i \in T : Rank(struck, i) = p + 1
      BY <1>0, <1>2, <1>5 DEF EventInv
    <3>3. PICK i \in T : Rank(struck, i) = p + 1
      BY <3>2
    <3>4. Nth(p + 1) = MeantAt(struck, i) /\ i \in 1..taken
      BY <1>0, <3>3 DEF EventInv, Strokes
    <3>5. Nth(p + 1) = Pending[1]
      BY <1>2 DEF Nth
    <3>6. struck[i].key \in Printable
      BY <3>3 DEF Strokes, Presses
    <3>7. MeantAt(struck, i) \in Event
      BY <3>6 DEF MeantAt, Event, CapsOn
    <3> QED
      BY <3>4, <3>5, <3>7
  <2>2. popped' \in Seq(Event)
    BY <1>0, <1>1, <1>9, <2>1 DEF TypeOK
  <2> QED
    BY <1>0, <1>1, <1>4, <2>2 DEF TypeOK
<1>12. FifoInv' /\ ModInv'
  BY <1>0, <1>1 DEF FifoInv, ModInv, taken
<1>13. SemInv'
  <2>1. Popping' = Popping \ {r} /\ r \in Popping
    BY <1>0, <1>1 DEF Popping, TypeOK
  <2>2. /\ IsFiniteSet(Popping') /\ Cardinality(Popping') = Cardinality(Popping) - 1
        /\ Cardinality(Popping) \in Nat
    BY <1>0, <2>1, FS_RemoveElement, FS_CardinalityType DEF SemInv
  <2>3. ReaderFindsEvent'
    BY <1>0, <1>1 DEF SemInv, ReaderFindsEvent, TypeOK
  <2>4. Count = event_sem + Cardinality(Popping) + (IF pc = "signal" THEN 1 ELSE 0)
    BY <1>0 DEF SemInv
  <2>5. Count' = event_sem + Cardinality(Popping') + (IF pc = "signal" THEN 1 ELSE 0)
    BY <1>0, <1>2, <1>3, <2>2, <2>4 DEF TypeOK
  <2> QED
    BY <1>1, <2>2, <2>3, <2>5 DEF SemInv
<1>14. EventInv'
  <2>1. taken' = taken /\ struck' = struck
    BY <1>1 DEF taken
  <2>2. \A i : Rank(struck, i)' = Rank(struck, i) /\ MeantAt(struck, i)' = MeantAt(struck, i)
    BY <2>1
  <2>3. Strokes(struck, taken)' = T
    BY <2>1
  <2>4. \A i \in T : Rank(struck, i) \in 1..total /\ Nth(Rank(struck, i)) = MeantAt(struck, i)
    BY <1>0, RankType, TakenType DEF EventInv
  <2>5. ASSUME NEW i \in T PROVE Nth(Rank(struck, i))' = MeantAt(struck, i)
    BY <1>10, <2>2, <2>4
  <2>6. \A m \in 1..total : \E i \in T : Rank(struck, i) = m
    BY <1>0 DEF EventInv
  <2>7. total = Len(popped') + Count' + (IF ev = NULL THEN 0 ELSE 1)
    BY <1>2, <1>3, <1>5, <1>6
  <2>8. ev # NULL <=> pc = "push"
    BY <1>0 DEF EventInv
  <2> HIDE DEF T
  <2> QED
    BY <1>0, <1>1, <2>2, <2>3, <2>5, <2>6, <2>7, <2>8 DEF EventInv
<1> QED
  BY <1>11, <1>12, <1>13, <1>14 DEF IInv

(* The inductive invariant holds.                                            *)
THEOREM Invariance == Spec => []IInv
<1>1. IInv /\ [Next]_vars => IInv'
  BY StrikeStep, QuietStep, ReadNothingStep, ReadKeyStep, PushStep, PopStep
     DEF Next, InputTask, ReaderStep
<1> QED
  BY <1>1, InitIInv, PTL DEF Spec

(* The ring's indices never leave the array and every variable has its type. *)
THEOREM TypeCorrect == Spec => []TypeOK
<1>1. IInv => TypeOK
  BY DEF IInv
<1> QED
  BY <1>1, Invariance, PTL

(* "input queue empty" is never reached: a reader that event_sem let in      *)
(* finds an event, however many readers there are.                           *)
THEOREM ReadersFindEvents == Spec => []ReaderFindsEvent
<1>1. IInv => ReaderFindsEvent
  BY DEF IInv, SemInv
<1> QED
  BY <1>1, Invariance, PTL

(* input_task gives up only when NEVENTS strokes are unread.                 *)
THEOREM QueueFullMeansFull == Spec => []PanicMeansFull
<1>1. IInv => PanicMeansFull
  <2> SUFFICES ASSUME IInv, pc = "panic" PROVE Len(Meant(struck, taken)) - Len(popped) = NEVENTS
    BY DEF PanicMeansFull
  <2>1. Cardinality(Strokes(struck, taken)) = Len(popped) + NEVENTS
    BY DEF IInv, EventInv
  <2>2. Cardinality(Strokes(struck, taken)) \in Nat
    BY TakenType, StrokesType DEF IInv
  <2>3. Len(Meant(struck, taken)) = Cardinality(Strokes(struck, taken))
    BY <2>2 DEF Meant
  <2>4. Len(popped) \in Nat /\ NEVENTS \in Nat
    BY InputAssumption DEF IInv, TypeOK
  <2> QED
    BY <2>1, <2>3, <2>4
<1> QED
  BY <1>1, Invariance, PTL

(* Nothing is lost, repeated, reordered or given another modifier state      *)
(* between the keyboard controller and the readers.                          *)
THEOREM EventsAreStrokes == Spec => []EventsAsStruck
<1>1. IInv => EventsAsStruck
  <2> SUFFICES ASSUME IInv, pc # "panic"
               PROVE  Meant(struck, taken) = popped \o Pending \o (IF ev = NULL THEN <<>> ELSE <<ev>>)
    BY DEF EventsAsStruck
  <2> DEFINE T == Strokes(struck, taken)
             total == Cardinality(T)
             p == Len(popped)
             last == IF ev = NULL THEN <<>> ELSE <<ev>>
             all == popped \o Pending \o last
  <2>1. total = p + Count + (IF ev = NULL THEN 0 ELSE 1) /\ total \in Nat /\ p \in Nat /\ Count \in Nat
    BY StrokesType, TakenType, CountType DEF IInv, EventInv, TypeOK
  <2>2. popped \in Seq(Event) /\ Pending \in Seq(Event \cup {NULL}) /\ last \in Seq(Event \cup {NULL})
    <3>1. NEVENTS \in Nat \ {0, 1} /\ front \in 0..(NEVENTS - 1) /\ Count \in 0..(NEVENTS - 1)
          /\ events \in [0..(NEVENTS - 1) -> Event \cup {NULL}]
      BY InputAssumption, CountType DEF IInv, TypeOK, Slot
    <3>2. ASSUME NEW i \in 1..Count PROVE events[(front + i - 1) % NEVENTS] \in Event \cup {NULL}
      <4>1. (front + i - 1) % NEVENTS \in 0..(NEVENTS - 1)
        BY <3>1
      <4> QED
        BY <3>1, <4>1
    <3>3. Pending \in [1..Count -> Event \cup {NULL}]
      BY <3>2 DEF Pending
    <3>4. Pending \in Seq(Event \cup {NULL})
      <4>1. Count \in Nat
        BY <3>1
      <4> QED
        BY <3>3, <4>1 DEF Pending
    <3>5. ev \in Event \cup {NULL} /\ popped \in Seq(Event)
      BY DEF IInv, TypeOK
    <3>6. CASE ev = NULL
      BY <3>4, <3>5, <3>6
    <3>7. CASE ev # NULL
      <4>1. last = <<ev>>
        BY <3>7
      <4>2. <<ev>> \in Seq(Event \cup {NULL})
        BY <3>5
      <4> HIDE DEF last
      <4> QED
        BY <3>4, <3>5, <4>1, <4>2
    <3> QED
      BY <3>6, <3>7
  <2>3. Len(Pending) = Count /\ Len(last) = (IF ev = NULL THEN 0 ELSE 1)
    BY <2>1 DEF Pending
  <2>4. ASSUME NEW m \in 1..total PROVE Nth(m) = all[m]
    <3>0. m \in Int /\ 1 <= m
      BY <2>1
    <3>1. CASE m <= p
      BY <2>1, <2>2, <2>3, <3>1 DEF Nth
    <3>2. CASE m > p /\ m <= p + Count
      BY <2>1, <2>2, <2>3, <3>2 DEF Nth
    <3>3. CASE m > p + Count
      <4>1. ev # NULL /\ m = p + Count + 1
        BY <2>1, <3>3
      <4> QED
        BY <2>1, <2>2, <2>3, <3>3, <4>1 DEF Nth
    <3> HIDE DEF p, total, all
    <3> QED
      BY <2>1, <3>0, <3>1, <3>2, <3>3
  <2>5. all \in Seq(Event \cup {NULL}) /\ Len(all) = total
    BY <2>1, <2>2, <2>3
  <2> HIDE DEF all
  <2>6. ASSUME NEW m \in 1..total PROVE Meant(struck, taken)[m] = all[m]
    <3> DEFINE i == CHOOSE i \in T : Rank(struck, i) = m
    <3>1. i \in T /\ Rank(struck, i) = m
      BY DEF IInv, EventInv
    <3>2. Nth(m) = MeantAt(struck, i)
      BY <3>1 DEF IInv, EventInv
    <3> QED
      BY <2>4, <3>2 DEF Meant
  <2>7. Meant(struck, taken) = [m \in 1..total |-> Meant(struck, taken)[m]]
    BY DEF Meant
  <2>8. all = [m \in 1..total |-> all[m]]
    BY <2>5
  <2> QED
    BY <2>6, <2>7, <2>8 DEF all
<1> QED
  BY <1>1, Invariance, PTL
=============================================================================
