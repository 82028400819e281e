------------------------------ MODULE VfsProofs -----------------------------
(* Theorems about Vfs: link counts and names agree, nothing is lost but by a *)
(* full directory, mount points are there or not, and what paths lead to is  *)
(* the tree of FsSpec.                                                       *)
EXTENDS Vfs, FiniteSetTheorems, SequenceTheorems, WellFoundedInduction, TLAPS

LEMMA Sizes ==
  /\ NINODES \in Nat /\ NENTRIES \in Nat /\ Cardinality(Mountable) \in Nat
  /\ NINODES > Cardinality(Mountable) /\ NENTRIES >= Cardinality(Mountable)
  /\ Ino \subseteq Nat /\ Slot \subseteq Nat /\ root \in Ino
  /\ NULL \notin Ino /\ NULL \notin Slot /\ NULL \notin Nat
<1>1. NINODES \in Nat /\ NENTRIES \in Nat /\ NINODES > Cardinality(Mountable)
      /\ NENTRIES >= Cardinality(Mountable) /\ NULL \notin Nat
  BY VfsAssumption
<1>2. Cardinality(Mountable) \in Nat
  BY VfsAssumption, FS_CardinalityType
<1>3. Ino \subseteq Nat /\ Slot \subseteq Nat /\ root \in Ino
  BY <1>1, <1>2 DEF Ino, Slot, root
<1> QED
  BY <1>1, <1>2, <1>3

LEMMA PathType == \A p \in Path : p \in Seq(Name) /\ p # <<>> /\ Len(p) \in Nat \ {0}
<1>1. \A p \in Path : p \in Seq(Name) /\ p # <<>>
  BY VfsAssumption
<1> QED
  BY <1>1, EmptySeq

(* A set of natural numbers has a least element.                             *)
LEMMA HasLeast ==
  ASSUME NEW S \in SUBSET Nat, S # {}
  PROVE  \E x \in S : \A y \in S : x <= y
<1> DEFINE R == {ss \in Nat \X Nat : ss[1] < ss[2]}
<1>1. IsWellFoundedOn(R, Nat)
  BY NatLessThanWellFounded DEF OpToRel
<1>2. PICK x \in S : \A y \in S : <<y, x>> \notin R
  <2> HIDE DEF R
  <2> QED
    BY <1>1, WFMin
<1>3. \A y \in S : x <= y
  <2> SUFFICES ASSUME NEW y \in S PROVE x <= y
    OBVIOUS
  <2>1. ~(y < x)
    <3>1. <<y, x>> \in Nat \X Nat /\ <<y, x>>[1] = y /\ <<y, x>>[2] = x
      OBVIOUS
    <3> QED
      BY <1>2, <3>1
  <2> QED
    BY <2>1
<1> QED
  BY <1>3

LEMMA LeastIs ==
  ASSUME NEW S \in SUBSET Nat, S # {}
  PROVE  least(S) \in S /\ \A j \in S : least(S) <= j
BY HasLeast DEF least

-----------------------------------------------------------------------------
(* The types of what is on the disk.                                         *)

LEMMA EntryFields ==
  ASSUME NEW x \in Entry
  PROVE  /\ x.name \in Name \cup {NULL} /\ x.ino \in Ino \cup {NULL} /\ x.dir \in BOOLEAN
         /\ x = [name |-> x.name, ino |-> x.ino, dir |-> x.dir]
BY DEF Entry

LEMMA BlkfsFields ==
  ASSUME NEW b \in Blkfs
  PROVE  /\ b.refcnt \in [Ino -> Nat \cup {NULL}] /\ b.etrs \in [Ino -> [Slot -> Entry]]
         /\ b.text \in [Ino -> Text \cup {EMPTY}]
         /\ b = [refcnt |-> b.refcnt, etrs |-> b.etrs, text |-> b.text]
         /\ \A d \in Ino, s \in Slot : b.etrs[d][s] \in Entry
BY DEF Blkfs

LEMMA BlkfsHas ==
  ASSUME NEW refcnt \in [Ino -> Nat \cup {NULL}], NEW etrs \in [Ino -> [Slot -> Entry]],
         NEW text \in [Ino -> Text \cup {EMPTY}]
  PROVE  [refcnt |-> refcnt, etrs |-> etrs, text |-> text] \in Blkfs
BY DEF Blkfs

LEMMA NoEntryType ==
  /\ NoEntry \in Entry /\ NoEntries \in [Slot -> Entry]
  /\ NoEntry.ino = NULL /\ NoEntry.name = NULL /\ NoEntry.dir = FALSE
  /\ \A s \in Slot : NoEntries[s] = NoEntry
BY DEF NoEntry, NoEntries, Entry

-----------------------------------------------------------------------------
(* Ways.                                                                     *)

LEMMA SubNull == ASSUME NEW b, NEW name PROVE Sub(b, NULL, name) = NULL
BY DEF Sub

\* The slots of directory d with a name, and of its directories with the name.
Slots(b, d, name) == {s \in Slot : valid(b.etrs[d][s]) /\ b.etrs[d][s].name = name}
DirSlots(b, d, name) == {s \in Slots(b, d, name) : b.etrs[d][s].dir}

IsFirst(s, S) == s \in S /\ \A r \in S : s <= r

LEMMA SlotsOf ==
  ASSUME NEW b, NEW d, NEW name
  PROVE  Slots(b, d, name) \in SUBSET Nat /\ DirSlots(b, d, name) \in SUBSET Nat
BY Sizes DEF Slots, DirSlots

LEMMA OneFirst ==
  ASSUME NEW S \in SUBSET Nat, NEW s, NEW r, IsFirst(s, S), r \in S, r <= s
  PROVE  s = r
BY DEF IsFirst

LEMMA SubIs ==
  ASSUME NEW b \in Blkfs, NEW d \in Ino, NEW name
  PROVE  /\ Sub(b, d, name) = NULL <=> DirSlots(b, d, name) = {}
         /\ Sub(b, d, name) # NULL =>
              /\ Sub(b, d, name) \in Ino
              /\ \E s \in Slot : /\ IsFirst(s, DirSlots(b, d, name))
                                 /\ b.etrs[d][s].ino = Sub(b, d, name)
<1> DEFINE found == DirSlots(b, d, name)
<1>1. Sub(b, d, name) = IF found = {} THEN NULL ELSE b.etrs[d][least(found)].ino
  <2>1. found = {s \in Slot : /\ valid(b.etrs[d][s]) /\ b.etrs[d][s].dir
                              /\ b.etrs[d][s].name = name}
    BY DEF DirSlots, Slots
  <2> HIDE DEF found
  <2> QED
    BY <2>1, Sizes DEF Sub
<1>2. found \in SUBSET Nat
  BY SlotsOf
<1>3. \A s \in found : s \in Slot /\ b.etrs[d][s].ino \in Ino
  <2> SUFFICES ASSUME NEW s \in found PROVE s \in Slot /\ b.etrs[d][s].ino \in Ino
    OBVIOUS
  <2>1. s \in Slot /\ valid(b.etrs[d][s])
    BY DEF DirSlots, Slots
  <2> QED
    BY <2>1, BlkfsFields, EntryFields DEF valid
<1> HIDE DEF found
<1>4. CASE found = {}
  BY <1>1, <1>4 DEF found
<1>5. CASE found # {}
  <2>1. IsFirst(least(found), found)
    BY <1>2, <1>5, LeastIs DEF IsFirst
  <2>2. least(found) \in Slot /\ b.etrs[d][least(found)].ino \in Ino
    BY <1>3, <2>1 DEF IsFirst
  <2>3. Sub(b, d, name) = b.etrs[d][least(found)].ino /\ Sub(b, d, name) # NULL
    BY <1>1, <1>5, <2>2, Sizes
  <2> QED
    BY <1>5, <2>1, <2>2, <2>3 DEF found
<1> QED
  BY <1>4, <1>5

\* The inodes along a path: root, then the directory of each name.
IsTrail(g, b, p, n) == g = [k \in 0..n |-> IF k = 0 THEN root ELSE Sub(b, g[k - 1], p[k])]

Trail(b, p) == CHOOSE g : IsTrail(g, b, p, Len(p))

LEMMA TrailsExist ==
  ASSUME NEW b, NEW p, NEW n \in Nat
  PROVE  \E g : IsTrail(g, b, p, n)
<1> DEFINE Bad == {i \in Nat : ~\E g : IsTrail(g, b, p, i)}
<1> SUFFICES ASSUME Bad # {} PROVE FALSE
  OBVIOUS
<1>1. PICK m \in Bad : \A i \in Bad : m <= i
  BY HasLeast
<1>2. CASE m = 0
  <2> DEFINE g == [i \in 0..0 |-> root]
  <2>1. IsTrail(g, b, p, 0)
    BY DEF IsTrail
  <2> QED
    BY <1>1, <1>2, <2>1
<1>3. CASE m # 0
  <2>1. m - 1 \in Nat /\ m - 1 \notin Bad
    BY <1>1, <1>3
  <2>2. PICK g : IsTrail(g, b, p, m - 1)
    BY <2>1
  <2> DEFINE h == [i \in 0..m |-> IF i = m THEN Sub(b, g[m - 1], p[m]) ELSE g[i]]
  <2>3. \A i \in 0..(m - 1) : g[i] = IF i = 0 THEN root ELSE Sub(b, g[i - 1], p[i])
    BY <2>2 DEF IsTrail
  <2>4. \A i \in 0..m : h[i] = IF i = 0 THEN root ELSE Sub(b, h[i - 1], p[i])
    <3> SUFFICES ASSUME NEW i \in 0..m
                 PROVE  h[i] = IF i = 0 THEN root ELSE Sub(b, h[i - 1], p[i])
      OBVIOUS
    <3>1. CASE i = m
      <4>1. h[i] = Sub(b, g[m - 1], p[m]) /\ h[m - 1] = g[m - 1]
        BY <1>1, <1>3, <3>1
      <4> QED
        BY <1>3, <3>1, <4>1
    <3>2. CASE i # m
      <4>1. i \in 0..(m - 1) /\ h[i] = g[i] /\ (i # 0 => h[i - 1] = g[i - 1])
        BY <1>1, <3>2
      <4> QED
        BY <2>3, <4>1
    <3> QED
      BY <3>1, <3>2
  <2>5. IsTrail(h, b, p, m)
    <3>1. h = [i \in 0..m |-> h[i]]
      OBVIOUS
    <3> HIDE DEF h
    <3> QED
      BY <2>4, <3>1 DEF IsTrail
  <2> QED
    BY <1>1, <2>5
<1> QED
  BY <1>2, <1>3

LEMMA TrailSteps ==
  ASSUME NEW b \in Blkfs, NEW p, Len(p) \in Nat
  PROVE  /\ Trail(b, p)[0] = root
         /\ \A n \in 1..Len(p) : Trail(b, p)[n] = Sub(b, Trail(b, p)[n - 1], p[n])
         /\ Walk(b, p) = Trail(b, p)[Len(p) - 1]
<1> DEFINE T == Trail(b, p)
<1>1. IsTrail(T, b, p, Len(p))
  BY TrailsExist, Zenon DEF Trail
<1>2. Walk(b, p) = T[Len(p) - 1]
  BY Zenon DEF Walk, Trail, IsTrail
<1> HIDE DEF T
<1>3. \A n \in 0..Len(p) : T[n] = IF n = 0 THEN root ELSE Sub(b, T[n - 1], p[n])
  BY <1>1 DEF IsTrail
<1> QED
  BY <1>2, <1>3 DEF T

LEMMA TrailType ==
  ASSUME NEW b \in Blkfs, NEW p, Len(p) \in Nat
  PROVE  \A n \in 0..Len(p) : Trail(b, p)[n] \in Ino \cup {NULL}
<1> DEFINE T == Trail(b, p)
           Bad == {n \in Nat : n <= Len(p) /\ T[n] \notin Ino \cup {NULL}}
<1>1. T[0] = root /\ \A n \in 1..Len(p) : T[n] = Sub(b, T[n - 1], p[n])
  BY TrailSteps
<1> HIDE DEF T
<1>2. SUFFICES ASSUME Bad # {} PROVE FALSE
  BY DEF T
<1>3. PICK m \in Bad : \A i \in Bad : m <= i
  BY <1>2, HasLeast
<1>4. m # 0
  BY <1>1, <1>3, Sizes
<1>5. m \in 1..Len(p) /\ m - 1 \in Nat /\ m - 1 <= Len(p) /\ m - 1 \notin Bad
  BY <1>3, <1>4
<1>6. T[m - 1] \in Ino \cup {NULL}
  BY <1>5
<1>7. Sub(b, T[m - 1], p[m]) \in Ino \cup {NULL}
  BY <1>6, SubNull, SubIs
<1> QED
  BY <1>1, <1>3, <1>5, <1>7

\* The way to the directory of a path's directory is the beginning of its own.
LEMMA TrailPrefix ==
  ASSUME NEW b \in Blkfs, NEW p, NEW q, Len(p) \in Nat, Len(q) \in Nat, Len(q) <= Len(p),
         \A k \in 1..Len(q) : p[k] = q[k]
  PROVE  \A n \in 0..Len(q) : Trail(b, p)[n] = Trail(b, q)[n]
<1> DEFINE T == Trail(b, p)
           U == Trail(b, q)
           Bad == {n \in Nat : n <= Len(q) /\ T[n] # U[n]}
<1>1. /\ T[0] = root /\ \A n \in 1..Len(p) : T[n] = Sub(b, T[n - 1], p[n])
      /\ U[0] = root /\ \A n \in 1..Len(q) : U[n] = Sub(b, U[n - 1], q[n])
  BY TrailSteps
<1> HIDE DEF T, U
<1>2. SUFFICES ASSUME Bad # {} PROVE FALSE
  BY DEF T, U
<1>3. PICK m \in Bad : \A i \in Bad : m <= i
  BY <1>2, HasLeast
<1>4. m # 0
  BY <1>1, <1>3
<1>5. m \in 1..Len(p) /\ m \in 1..Len(q) /\ m - 1 \in Nat /\ m - 1 <= Len(q) /\ m - 1 \notin Bad
  BY <1>3, <1>4
<1>6. T[m - 1] = U[m - 1] /\ p[m] = q[m]
  BY <1>5
<1> QED
  BY <1>1, <1>3, <1>5, <1>6

LEMMA MatchIs ==
  ASSUME NEW b \in Blkfs, NEW d \in Ino, NEW name
  PROVE  /\ Match(b, d, name) = NULL <=> Slots(b, d, name) = {}
         /\ Match(b, d, name) # NULL =>
              Match(b, d, name) \in Slot /\ IsFirst(Match(b, d, name), Slots(b, d, name))
<1> DEFINE found == Slots(b, d, name)
<1>1. Match(b, d, name) = IF found = {} THEN NULL ELSE least(found)
  BY DEF Match, Slots
<1>2. found \in SUBSET Nat /\ found \subseteq Slot
  BY Sizes DEF Slots
<1> HIDE DEF found
<1>3. CASE found = {}
  BY <1>1, <1>3 DEF found
<1>4. CASE found # {}
  <2>1. IsFirst(least(found), found)
    BY <1>2, <1>4, LeastIs DEF IsFirst
  <2>2. least(found) \in Slot
    BY <1>2, <2>1 DEF IsFirst
  <2> QED
    BY <1>1, <1>4, <2>1, <2>2, Sizes DEF found
<1> QED
  BY <1>3, <1>4

LEMMA WalkType ==
  ASSUME NEW b \in Blkfs, NEW p \in Seq(Name), p # <<>>
  PROVE  Walk(b, p) \in Ino \cup {NULL}
<1>1. Len(p) \in Nat /\ Len(p) - 1 \in 0..Len(p)
  BY EmptySeq
<1> QED
  BY <1>1, TrailSteps, TrailType

\* Slot s of d is the first with this name, and names i.
Found(b, d, s, name, i) ==
  /\ d \in Ino /\ s \in Slot /\ i \in Ino
  /\ IsFirst(s, Slots(b, d, name))
  /\ b.etrs[d][s].name = name /\ b.etrs[d][s].ino = i

\* What Lookup finds: the entry of the path's last name, the first with that name.
LEMMA LookupIs ==
  ASSUME NEW b \in Blkfs, NEW p \in Seq(Name), NEW dir \in BOOLEAN, Lookup(b, p, dir) # NULL
  PROVE  /\ p # <<>>
         /\ Found(b, Walk(b, p), Match(b, Walk(b, p), Last(p)), Last(p), Lookup(b, p, dir))
         /\ b.etrs[Walk(b, p)][Match(b, Walk(b, p), Last(p))].dir = dir
<1> DEFINE d == Walk(b, p)
           s == Match(b, d, Last(p))
<1>1. /\ p # <<>> /\ d # NULL /\ s # NULL
      /\ b.etrs[d][s].dir = dir /\ Lookup(b, p, dir) = b.etrs[d][s].ino
  BY DEF Lookup
<1>2. d \in Ino
  BY <1>1, WalkType
<1> HIDE DEF d
<1>3. s \in Slot /\ IsFirst(s, Slots(b, d, Last(p)))
  BY <1>1, <1>2, MatchIs
<1>4. valid(b.etrs[d][s]) /\ b.etrs[d][s].name = Last(p)
  BY <1>3 DEF IsFirst, Slots
<1> HIDE DEF s
<1>5. b.etrs[d][s] \in Entry
  BY <1>2, <1>3, BlkfsFields
<1>6. b.etrs[d][s].ino \in Ino
  BY <1>4, <1>5, EntryFields DEF valid
<1> QED
  BY <1>1, <1>2, <1>3, <1>4, <1>6 DEF Found, d, s

LEMMA ParentIs ==
  ASSUME NEW p \in Seq(Name), p # <<>>
  PROVE  /\ Parent(p) \in Seq(Name) /\ Len(Parent(p)) = Len(p) - 1 /\ Len(p) \in Nat \ {0}
         /\ \A k \in 1..(Len(p) - 1) : p[k] = Parent(p)[k]
         /\ Last(p) \in Name
<1>1. Len(p) \in Nat \ {0} /\ \A k \in 1..Len(p) : p[k] \in Name
  BY EmptySeq, ElementOfSeq
<1>2. Len(p) - 1 \in 0..Len(p) /\ \A k \in 1..(Len(p) - 1) : k \in 1..Len(p)
  BY <1>1
<1>3. \A i \in 1..(Len(p) - 1) : p[i] \in Name
  BY <1>1, <1>2
<1>4. /\ Parent(p) \in Seq(Name) /\ Len(Parent(p)) = Len(p) - 1
      /\ \A k \in 1..(Len(p) - 1) : p[k] = Parent(p)[k]
  <2> DEFINE n == Len(p) - 1
  <2>1. n \in Nat /\ 1 \in Int /\ n \in Int /\ n - 1 + 1 = n
    BY <1>1
  <2> HIDE DEF n
  <2>2. /\ SubSeq(p, 1, n) \in Seq(Name)
        /\ Len(SubSeq(p, 1, n)) = IF 1 <= n THEN n - 1 + 1 ELSE 0
        /\ \A i \in 1..(n - 1 + 1) : SubSeq(p, 1, n)[i] = p[1 + i - 1]
    BY <1>3, <2>1, SubSeqProperties DEF n
  <2>3. \A i \in 1..n : 1 + i - 1 = i
    BY <2>1
  <2>4. Len(SubSeq(p, 1, n)) = n /\ \A i \in 1..n : SubSeq(p, 1, n)[i] = p[i]
    BY <2>1, <2>2, <2>3
  <2> QED
    BY <2>2, <2>4 DEF Parent, n
<1> QED
  BY <1>1, <1>4 DEF Last

\* If a path's directory is found as a directory, it is where the path leads.
LEMMA LookupParent ==
  ASSUME NEW b \in Blkfs, NEW p \in Seq(Name), p # <<>>, NEW q, q = Parent(p),
         NEW dir \in BOOLEAN, dir, NEW i, i = Lookup(b, q, dir), i # NULL
  PROVE  i = Walk(b, p) /\ i \in Ino
<1> DEFINE T == Trail(b, p)
           U == Trail(b, q)
           d == Walk(b, q)
           s == Match(b, d, Last(q))
<1>1. /\ q \in Seq(Name) /\ Len(q) = Len(p) - 1 /\ Len(p) \in Nat \ {0}
      /\ \A k \in 1..Len(q) : p[k] = q[k]
  BY ParentIs
<1>2. q # <<>> /\ Found(b, d, s, Last(q), i) /\ b.etrs[d][s].dir = dir
  BY <1>1, LookupIs, Zenon
<1>3. Len(q) \in Nat \ {0} /\ Len(q) <= Len(p) /\ Len(q) \in Nat /\ Len(p) \in Nat
  BY <1>1, <1>2, EmptySeq
<1>4. \A n \in 0..Len(q) : T[n] = U[n]
  <2>1. \A k \in 1..Len(q) : p[k] = q[k]
    BY <1>1
  <2>2. \A n \in 0..Len(q) : Trail(b, p)[n] = Trail(b, q)[n]
    BY <1>3, <2>1, TrailPrefix
  <2> QED
    BY <2>2
<1>5. Walk(b, p) = T[Len(q)] /\ T[Len(q)] = U[Len(q)]
  BY <1>1, <1>3, <1>4, TrailSteps
<1>6. U[Len(q)] = Sub(b, d, q[Len(q)])
  BY <1>3, TrailSteps
<1> HIDE DEF T, U, d, s
<1>7. Sub(b, d, Last(q)) = i
  <2>1. /\ d \in Ino /\ i \in Ino /\ IsFirst(s, Slots(b, d, Last(q)))
        /\ b.etrs[d][s].dir /\ b.etrs[d][s].ino = i
    <3>1. b.etrs[d][s].dir
      BY <1>2
    <3> QED
      BY <1>2, <3>1 DEF Found
  <2>2. s \in DirSlots(b, d, Last(q)) /\ \A r \in DirSlots(b, d, Last(q)) : r \in Slots(b, d, Last(q))
    BY <2>1 DEF DirSlots, IsFirst
  <2>3. PICK r \in Slot : /\ IsFirst(r, DirSlots(b, d, Last(q)))
                          /\ b.etrs[d][r].ino = Sub(b, d, Last(q))
    BY <2>1, <2>2, SubIs
  <2>4. r \in Slots(b, d, Last(q)) /\ r <= s
    BY <2>2, <2>3 DEF IsFirst
  <2>5. s = r
    BY <2>1, <2>4, OneFirst, SlotsOf
  <2> QED
    BY <2>1, <2>3, <2>5
<1> QED
  BY <1>2, <1>5, <1>6, <1>7 DEF Last, Found

-----------------------------------------------------------------------------
(* Names of inodes.                                                          *)

Cell(d, s) == <<d, s>>

LEMMA EntriesFinite ==
  ASSUME NEW b, NEW i
  PROVE  /\ EntriesOf(b, i) \subseteq Ino \X Slot /\ DirEntriesOf(b, i) \subseteq EntriesOf(b, i)
         /\ IsFiniteSet(EntriesOf(b, i)) /\ Cardinality(EntriesOf(b, i)) \in Nat
<1>1. IsFiniteSet(Ino) /\ IsFiniteSet(Slot)
  <2>1. 0 \in Int /\ NINODES - 1 \in Int /\ NENTRIES - 1 \in Int
    BY Sizes
  <2> QED
    BY <2>1, FS_Interval DEF Ino, Slot
<1>2. IsFiniteSet(Ino \X Slot)
  BY <1>1, FS_Product
<1>3. EntriesOf(b, i) \subseteq Ino \X Slot /\ DirEntriesOf(b, i) \subseteq EntriesOf(b, i)
  BY DEF EntriesOf, DirEntriesOf
<1>4. IsFiniteSet(EntriesOf(b, i))
  BY <1>2, <1>3, FS_Subset
<1> QED
  BY <1>3, <1>4, FS_CardinalityType

LEMMA EntryIn ==
  ASSUME NEW b, NEW i, NEW d \in Ino, NEW s \in Slot
  PROVE  /\ <<d, s>> \in EntriesOf(b, i) <=> b.etrs[d][s].ino = i
         /\ <<d, s>> \in DirEntriesOf(b, i) <=> b.etrs[d][s].ino = i /\ b.etrs[d][s].dir
BY DEF EntriesOf, DirEntriesOf

LEMMA EntryOut ==
  ASSUME NEW b, NEW i, NEW e \in EntriesOf(b, i)
  PROVE  \E d \in Ino, s \in Slot : e = <<d, s>> /\ b.etrs[d][s].ino = i
BY DEF EntriesOf

\* From b to c only entry s of d changes, and entries that are not valid may be wiped.
Differs(b, c, d, s) ==
  \A g \in Ino, r \in Slot :
    \/ g = d /\ r = s
    \/ c.etrs[g][r] = b.etrs[g][r]
    \/ ~valid(b.etrs[g][r]) /\ c.etrs[g][r] = NoEntry

LEMMA SameEntries ==
  ASSUME NEW b, NEW c, NEW d \in Ino, NEW s \in Slot, Differs(b, c, d, s), NEW i \in Ino
  PROVE  /\ EntriesOf(c, i) \ {<<d, s>>} = EntriesOf(b, i) \ {<<d, s>>}
         /\ DirEntriesOf(c, i) \ {<<d, s>>} = DirEntriesOf(b, i) \ {<<d, s>>}
<1>1. ASSUME NEW g \in Ino, NEW r \in Slot, <<g, r>> # <<d, s>>
      PROVE  /\ c.etrs[g][r].ino = i <=> b.etrs[g][r].ino = i
             /\ c.etrs[g][r].ino = i => c.etrs[g][r] = b.etrs[g][r]
  <2>1. ~(g = d /\ r = s)
    BY <1>1
  <2>2. i # NULL
    BY Sizes
  <2>3. c.etrs[g][r] = b.etrs[g][r] \/ (b.etrs[g][r].ino = NULL /\ c.etrs[g][r].ino = NULL)
    BY <2>1, NoEntryType DEF Differs, valid
  <2> QED
    BY <2>2, <2>3
<1>2. \A e \in Ino \X Slot : e # <<d, s>> =>
        /\ e \in EntriesOf(c, i) <=> e \in EntriesOf(b, i)
        /\ e \in DirEntriesOf(c, i) <=> e \in DirEntriesOf(b, i)
  BY <1>1 DEF EntriesOf, DirEntriesOf
<1>3. /\ EntriesOf(c, i) \subseteq Ino \X Slot /\ EntriesOf(b, i) \subseteq Ino \X Slot
      /\ DirEntriesOf(c, i) \subseteq Ino \X Slot /\ DirEntriesOf(b, i) \subseteq Ino \X Slot
  BY DEF EntriesOf, DirEntriesOf
<1> QED
  BY <1>2, <1>3

Ok(b) == b \in Blkfs /\ b.refcnt[root] = 0 /\ Sound(b)

\* What is not in use has no name; what is no directory has no names in it.
LEMMA Unused ==
  ASSUME NEW b, Ok(b), NEW i \in Ino
  PROVE  /\ i = root \/ b.refcnt[i] = NULL => EntriesOf(b, i) = {}
         /\ i # root /\ DirEntriesOf(b, i) = {} => \A s \in Slot : ~valid(b.etrs[i][s])
<1>1. i = root \/ b.refcnt[i] = NULL => EntriesOf(b, i) = {}
  <2> SUFFICES ASSUME i = root \/ b.refcnt[i] = NULL, NEW e \in EntriesOf(b, i) PROVE FALSE
    OBVIOUS
  <2>1. PICK d \in Ino, s \in Slot : b.etrs[d][s].ino = i
    BY EntryOut
  <2>2. valid(b.etrs[d][s])
    BY <2>1, Sizes DEF valid
  <2> QED
    BY <2>1, <2>2 DEF Ok, Sound, Rooted
<1>2. i # root /\ DirEntriesOf(b, i) = {} => \A s \in Slot : ~valid(b.etrs[i][s])
  BY DEF Ok, Sound, Rooted
<1> QED
  BY <1>1, <1>2

NoneLost(b, c) ==
  \A i \in Ino \ {root} :
    c.refcnt[i] # NULL /\ EntriesOf(c, i) = {} => b.refcnt[i] # NULL /\ EntriesOf(b, i) = {}

\* From b to c inode i is taken into use, or counts one more name, a file's.
CountOne(b, c, i) ==
  \/ b.refcnt[i] = NULL /\ c.refcnt[i] = 0
  \/ b.refcnt[i] \in Nat /\ c.refcnt[i] = b.refcnt[i] + 1 /\ EntriesOf(b, i) # {}

OneMore(b, c, d, s, i) ==
  /\ CountOne(b, c, i)
  /\ b.refcnt[i] = NULL \/ (~c.etrs[d][s].dir /\ DirEntriesOf(b, i) = {})

\* The numbers of names and the counts, one name more.
LEMMA CountedMore ==
  ASSUME NEW b, Ok(b), NEW c, NEW i \in Ino \ {root}, CountOne(b, c, i),
         NEW e, EntriesOf(c, i) = EntriesOf(b, i) \cup {e}, e \notin EntriesOf(b, i)
  PROVE  Cardinality(EntriesOf(c, i)) = c.refcnt[i] + 1
<1>1. IsFiniteSet(EntriesOf(b, i)) /\ Cardinality(EntriesOf(b, i)) \in Nat
  BY EntriesFinite
<1>2. Cardinality(EntriesOf(c, i)) = Cardinality(EntriesOf(b, i)) + 1
  BY <1>1, FS_AddElement
<1>3. CASE b.refcnt[i] = NULL /\ c.refcnt[i] = 0
  <2>1. EntriesOf(b, i) = {}
    BY <1>3, Unused
  <2>2. Cardinality(EntriesOf(b, i)) = 0
    BY <2>1, FS_EmptySet
  <2> QED
    BY <1>2, <1>3, <2>2
<1>4. CASE b.refcnt[i] \in Nat /\ c.refcnt[i] = b.refcnt[i] + 1 /\ EntriesOf(b, i) # {}
  <2>1. b.refcnt[i] # NULL
    BY <1>4, Sizes
  <2>2. Cardinality(EntriesOf(b, i)) = b.refcnt[i] + 1
    BY <1>4, <2>1 DEF Ok, Sound, Counted
  <2> QED
    BY <1>2, <1>4, <2>2
<1> QED
  BY <1>3, <1>4 DEF CountOne

LEMMA Adding ==
  ASSUME NEW b, Ok(b), NEW c \in Blkfs, NEW d \in Ino, NEW s \in Slot, NEW i \in Ino \ {root},
         NEW name \in Name, IsFirst(s, FreeSlots(b, d)), Slots(b, d, name) = {},
         d = root \/ DirEntriesOf(b, d) # {},
         Differs(b, c, d, s), c.etrs[d][s].name = name, c.etrs[d][s].ino = i,
         \A j \in Ino \ {i} : c.refcnt[j] = b.refcnt[j], OneMore(b, c, d, s, i)
  PROVE  Ok(c) /\ NoneLost(b, c)
<1> DEFINE new == <<d, s>>
<1>1. ~valid(b.etrs[d][s]) /\ \A r \in Slot : ~valid(b.etrs[d][r]) => s <= r
  BY DEF IsFirst, FreeSlots
<1>2. c.etrs[d][s].ino = i /\ c.etrs[d][s].name = name
  OBVIOUS
<1>3. \A j \in Ino : new \notin EntriesOf(b, j) /\ new \notin DirEntriesOf(b, j)
  <2>1. b.etrs[d][s].ino = NULL
    BY <1>1 DEF valid
  <2>2. \A j \in Ino : b.etrs[d][s].ino # j
    BY <2>1, Sizes
  <2> QED
    BY <2>2 DEF EntriesOf, DirEntriesOf
<1>4. \A j \in Ino : new \in EntriesOf(c, j) <=> j = i
  BY <1>2 DEF EntriesOf
<1>5. new \in DirEntriesOf(c, i) => c.etrs[d][s].dir
  BY DEF DirEntriesOf
<1>6. \A j \in Ino : DirEntriesOf(c, j) \subseteq EntriesOf(c, j)
  BY EntriesFinite
<1> HIDE DEF new
<1>7. /\ EntriesOf(c, i) = EntriesOf(b, i) \cup {new}
      /\ DirEntriesOf(b, i) \subseteq DirEntriesOf(c, i)
      /\ DirEntriesOf(c, i) \subseteq DirEntriesOf(b, i) \cup {new}
  BY <1>3, <1>4, SameEntries DEF new
<1>8. \A j \in Ino \ {i} : EntriesOf(c, j) = EntriesOf(b, j) /\ DirEntriesOf(c, j) = DirEntriesOf(b, j)
  <2> SUFFICES ASSUME NEW j \in Ino \ {i}
               PROVE  EntriesOf(c, j) = EntriesOf(b, j) /\ DirEntriesOf(c, j) = DirEntriesOf(b, j)
    OBVIOUS
  <2>1. /\ EntriesOf(c, j) \ {new} = EntriesOf(b, j) \ {new}
        /\ DirEntriesOf(c, j) \ {new} = DirEntriesOf(b, j) \ {new}
    BY SameEntries DEF new
  <2>2. new \notin EntriesOf(c, j)
    BY <1>4
  <2>3. new \notin DirEntriesOf(c, j)
    BY <1>6, <2>2
  <2>4. new \notin EntriesOf(b, j) /\ new \notin DirEntriesOf(b, j)
    BY <1>3
  <2> QED
    BY <2>1, <2>2, <2>3, <2>4
<1>9. c.refcnt[root] = 0 /\ c.refcnt[i] # NULL
  BY Sizes DEF Ok, OneMore, CountOne
<1>10. ASSUME NEW g \in Ino, NEW r \in Slot, valid(c.etrs[g][r])
       PROVE  (g = d /\ r = s) \/ (c.etrs[g][r] = b.etrs[g][r] /\ valid(b.etrs[g][r]))
  BY <1>10, NoEntryType DEF Differs, valid
<1>11. \A g \in Ino : g = root \/ DirEntriesOf(b, g) # {} => g = root \/ DirEntriesOf(c, g) # {}
  BY <1>7, <1>8
<1>12. Rooted(c)
  <2> SUFFICES ASSUME NEW g \in Ino, NEW r \in Slot, valid(c.etrs[g][r])
               PROVE  /\ c.etrs[g][r].name # NULL
                      /\ c.etrs[g][r].ino # root /\ c.refcnt[c.etrs[g][r].ino] # NULL
                      /\ g = root \/ DirEntriesOf(c, g) # {}
    BY DEF Rooted
  <2>1. CASE g = d /\ r = s
    BY <1>2, <1>9, <1>11, <2>1, VfsAssumption
  <2>2. CASE c.etrs[g][r] = b.etrs[g][r] /\ valid(b.etrs[g][r])
    <3>1. /\ b.etrs[g][r].name # NULL
          /\ b.etrs[g][r].ino # root /\ b.refcnt[b.etrs[g][r].ino] # NULL
          /\ g = root \/ DirEntriesOf(b, g) # {}
      BY <2>2 DEF Ok, Sound, Rooted
    <3>2. b.etrs[g][r].ino \in Ino
      BY <2>2, BlkfsFields, EntryFields DEF valid, Ok
    <3> QED
      BY <1>9, <1>11, <2>2, <3>1, <3>2
  <2> QED
    BY <1>10, <2>1, <2>2
<1>13. Counted(c)
  <2>1. Cardinality(EntriesOf(c, i)) = c.refcnt[i] + 1
    <3>1. new \notin EntriesOf(b, i) /\ CountOne(b, c, i)
      BY <1>3 DEF OneMore
    <3> QED
      BY <1>7, <3>1, CountedMore
  <2>2. \A e \in DirEntriesOf(c, i) : EntriesOf(c, i) = {e}
    <3>1. CASE b.refcnt[i] = NULL
      <4>1. EntriesOf(b, i) = {}
        BY <3>1, Unused
      <4> QED
        BY <1>6, <1>7, <4>1
    <3>2. CASE ~c.etrs[d][s].dir /\ DirEntriesOf(b, i) = {}
      BY <1>5, <1>7, <3>2
    <3> QED
      BY <3>1, <3>2 DEF OneMore
  <2>3. ASSUME NEW j \in Ino \ {root, i}, c.refcnt[j] # NULL
        PROVE  \/ EntriesOf(c, j) = {} /\ c.refcnt[j] = 0
               \/ /\ Cardinality(EntriesOf(c, j)) = c.refcnt[j] + 1
                  /\ \A e \in DirEntriesOf(c, j) : EntriesOf(c, j) = {e}
    BY <1>8, <2>3 DEF Ok, Sound, Counted
  <2> QED
    BY <2>1, <2>2, <2>3 DEF Counted
<1>14. Distinct(c)
  <2> SUFFICES ASSUME NEW g \in Ino, NEW q \in Slot, NEW r \in Slot,
                      valid(c.etrs[g][q]), r # q, c.etrs[g][r].name = c.etrs[g][q].name
               PROVE  ~valid(c.etrs[g][r]) /\ q < r
    BY DEF Distinct
  <2>0. q \in Nat /\ r \in Nat /\ s \in Nat
    BY Sizes
  <2>1. CASE g = d /\ q = s
    <3>1. c.etrs[g][r].name = name /\ name # NULL
      BY <1>2, <2>1, VfsAssumption
    <3>2. c.etrs[g][r] = b.etrs[g][r]
      BY <2>1, <3>1, NoEntryType DEF Differs
    <3>3. ~valid(b.etrs[g][r])
      BY <2>1, <3>1, <3>2 DEF Slots
    <3> QED
      BY <1>1, <2>0, <2>1, <3>2, <3>3
  <2>2. CASE c.etrs[g][q] = b.etrs[g][q] /\ valid(b.etrs[g][q])
    <3>1. b.etrs[g][q].name # NULL
      BY <2>2 DEF Ok, Sound, Rooted
    <3>2. ~(g = d /\ r = s)
      <4> SUFFICES ASSUME g = d, r = s PROVE FALSE
        OBVIOUS
      <4>1. b.etrs[d][q].name = name /\ valid(b.etrs[d][q])
        BY <1>2, <2>2
      <4> QED
        BY <4>1 DEF Slots
    <3>3. c.etrs[g][r] = b.etrs[g][r]
      BY <2>2, <3>1, <3>2, NoEntryType DEF Differs
    <3> QED
      BY <2>2, <3>3 DEF Ok, Sound, Distinct
  <2> QED
    BY <1>10, <2>1, <2>2
<1>15. NoneLost(b, c)
  BY <1>7, <1>8 DEF NoneLost
<1> QED
  BY <1>9, <1>12, <1>13, <1>14, <1>15 DEF Ok, Sound

\* From b to c inode i counts one name less, or is no longer in use.
OneLess(b, c, i) ==
  \/ b.refcnt[i] = 0 /\ c.refcnt[i] = NULL
  \/ b.refcnt[i] \in Nat \ {0} /\ c.refcnt[i] = b.refcnt[i] - 1

LEMMA CountedLess ==
  ASSUME NEW b, Ok(b), NEW c, NEW i \in Ino \ {root}, NEW e \in EntriesOf(b, i),
         OneLess(b, c, i), EntriesOf(c, i) = EntriesOf(b, i) \ {e}
  PROVE  /\ c.refcnt[i] = NULL => EntriesOf(c, i) = {}
         /\ c.refcnt[i] # NULL => /\ Cardinality(EntriesOf(c, i)) = c.refcnt[i] + 1
                                  /\ EntriesOf(c, i) # {} /\ DirEntriesOf(b, i) = {}
<1>1. IsFiniteSet(EntriesOf(b, i)) /\ IsFiniteSet(EntriesOf(c, i))
      /\ DirEntriesOf(b, i) \subseteq EntriesOf(b, i)
  BY EntriesFinite
<1>2. b.refcnt[i] \in Nat /\ b.refcnt[i] # NULL
  BY Sizes DEF OneLess
<1>3. /\ Cardinality(EntriesOf(b, i)) = b.refcnt[i] + 1
      /\ \A f \in DirEntriesOf(b, i) : EntriesOf(b, i) = {f}
  BY <1>2 DEF Ok, Sound, Counted
<1>4. Cardinality(EntriesOf(c, i)) = b.refcnt[i]
  BY <1>1, <1>2, <1>3, FS_RemoveElement
<1>5. CASE b.refcnt[i] = 0 /\ c.refcnt[i] = NULL
  BY <1>1, <1>4, <1>5, FS_EmptySet
<1>6. CASE b.refcnt[i] \in Nat \ {0} /\ c.refcnt[i] = b.refcnt[i] - 1
  <2>1. EntriesOf(c, i) # {}
    BY <1>1, <1>4, <1>6, FS_EmptySet
  <2>2. DirEntriesOf(b, i) = {}
    BY <1>1, <1>3, <2>1
  <2>3. c.refcnt[i] + 1 = b.refcnt[i] /\ c.refcnt[i] # NULL
    BY <1>6, Sizes
  <2> QED
    BY <1>4, <2>1, <2>2, <2>3
<1> QED
  BY <1>5, <1>6 DEF OneLess

LEMMA Clearing ==
  ASSUME NEW b, Ok(b), NEW c \in Blkfs, NEW d \in Ino, NEW s \in Slot, NEW i \in Ino,
         b.etrs[d][s].ino = i, b.etrs[d][s].dir => \A r \in Slot : ~valid(b.etrs[i][r]),
         Differs(b, c, d, s), ~valid(c.etrs[d][s]),
         c.etrs[d][s].name \in {NULL, b.etrs[d][s].name},
         \A j \in Ino \ {i} : c.refcnt[j] = b.refcnt[j], OneLess(b, c, i)
  PROVE  Ok(c) /\ NoneLost(b, c)
<1> DEFINE old == <<d, s>>
<1>1. valid(b.etrs[d][s]) /\ i # root /\ old \in EntriesOf(b, i)
  <2>1. valid(b.etrs[d][s])
    BY Sizes DEF valid
  <2>2. i # root
    BY <2>1 DEF Ok, Sound, Rooted
  <2>3. old \in EntriesOf(b, i)
    BY EntryIn
  <2> QED
    BY <2>1, <2>2, <2>3
<1>2. \A j \in Ino : old \notin EntriesOf(c, j) /\ old \notin DirEntriesOf(c, j)
  <2>1. c.etrs[d][s].ino = NULL
    BY DEF valid
  <2>2. \A j \in Ino : c.etrs[d][s].ino # j
    BY <2>1, Sizes
  <2> QED
    BY <2>2 DEF EntriesOf, DirEntriesOf
<1>3. \A j \in Ino \ {i} : old \notin EntriesOf(b, j)
  <2>1. \A j \in Ino \ {i} : b.etrs[d][s].ino # j
    OBVIOUS
  <2> QED
    BY <2>1 DEF EntriesOf
<1>4. \A j \in Ino : DirEntriesOf(b, j) \subseteq EntriesOf(b, j) /\ DirEntriesOf(c, j) \subseteq EntriesOf(c, j)
  BY EntriesFinite
<1> HIDE DEF old
<1>5. \A j \in Ino : /\ EntriesOf(c, j) = EntriesOf(b, j) \ {old}
                     /\ DirEntriesOf(c, j) = DirEntriesOf(b, j) \ {old}
  BY <1>2, SameEntries DEF old
<1>6. \A j \in Ino \ {i} : EntriesOf(c, j) = EntriesOf(b, j) /\ DirEntriesOf(c, j) = DirEntriesOf(b, j)
  <2> SUFFICES ASSUME NEW j \in Ino \ {i}
               PROVE  EntriesOf(c, j) = EntriesOf(b, j) /\ DirEntriesOf(c, j) = DirEntriesOf(b, j)
    OBVIOUS
  <2>1. old \notin EntriesOf(b, j) /\ old \notin DirEntriesOf(b, j)
    BY <1>3, <1>4
  <2> QED
    BY <1>5, <2>1
<1>7. /\ c.refcnt[i] = NULL => EntriesOf(c, i) = {}
      /\ c.refcnt[i] # NULL => /\ Cardinality(EntriesOf(c, i)) = c.refcnt[i] + 1
                               /\ EntriesOf(c, i) # {} /\ DirEntriesOf(b, i) = {}
  BY <1>1, <1>5, CountedLess
<1>8. ASSUME NEW g \in Ino, NEW r \in Slot, valid(c.etrs[g][r])
      PROVE  /\ c.etrs[g][r] = b.etrs[g][r] /\ valid(b.etrs[g][r]) /\ ~(g = d /\ r = s)
             /\ c.etrs[g][r].ino \in Ino /\ c.etrs[g][r].name # NULL
  <2>1. c.etrs[g][r] = b.etrs[g][r] /\ valid(b.etrs[g][r]) /\ ~(g = d /\ r = s)
    BY <1>8, NoEntryType DEF Differs, valid
  <2> QED
    BY <1>8, <2>1, BlkfsFields, EntryFields DEF valid, Ok, Sound, Rooted
<1>9. Rooted(c)
  <2> SUFFICES ASSUME NEW g \in Ino, NEW r \in Slot, valid(c.etrs[g][r])
               PROVE  /\ c.etrs[g][r].name # NULL
                      /\ c.etrs[g][r].ino # root /\ c.refcnt[c.etrs[g][r].ino] # NULL
                      /\ g = root \/ DirEntriesOf(c, g) # {}
    BY DEF Rooted
  <2> DEFINE j == c.etrs[g][r].ino
  <2>1. /\ c.etrs[g][r] = b.etrs[g][r] /\ valid(b.etrs[g][r]) /\ ~(g = d /\ r = s)
        /\ j \in Ino /\ c.etrs[g][r].name # NULL
    BY <1>8
  <2>2. j # root /\ b.refcnt[j] # NULL /\ (g = root \/ DirEntriesOf(b, g) # {})
    BY <2>1 DEF Ok, Sound, Rooted
  <2>3. <<g, r>> \in EntriesOf(c, j)
    BY <2>1, EntryIn
  <2>4. c.refcnt[j] # NULL
    BY <1>7, <2>1, <2>2, <2>3
  <2>5. g = root \/ DirEntriesOf(c, g) # {}
    <3>1. CASE g = root \/ g # i
      BY <1>6, <2>2, <3>1
    <3>2. CASE g # root /\ g = i
      <4>1. PICK e \in DirEntriesOf(b, i) : TRUE
        BY <2>2, <3>2
      <4>2. c.refcnt[i] = NULL /\ EntriesOf(b, i) = {old}
        <5>1. c.refcnt[i] = NULL
          BY <1>7, <4>1
        <5>2. b.refcnt[i] # NULL
          BY Sizes DEF OneLess
        <5>3. EntriesOf(b, i) # {}
          BY <1>1
        <5>4. EntriesOf(b, i) = {e}
          BY <1>1, <4>1, <5>2, <5>3 DEF Ok, Sound, Counted
        <5> QED
          BY <1>1, <5>1, <5>4
      <4>3. b.etrs[d][s].dir
        BY <1>4, <4>1, <4>2, EntryIn DEF old
      <4> QED
        BY <2>1, <3>2, <4>3
    <3> QED
      BY <3>1, <3>2
  <2> QED
    BY <2>1, <2>2, <2>4, <2>5
<1>10. Counted(c)
  <2>1. ASSUME NEW j \in Ino \ {root, i}, c.refcnt[j] # NULL
        PROVE  \/ EntriesOf(c, j) = {} /\ c.refcnt[j] = 0
               \/ /\ Cardinality(EntriesOf(c, j)) = c.refcnt[j] + 1
                  /\ \A e \in DirEntriesOf(c, j) : EntriesOf(c, j) = {e}
    BY <1>6, <2>1 DEF Ok, Sound, Counted
  <2>2. c.refcnt[i] # NULL => DirEntriesOf(c, i) = {}
    BY <1>5, <1>7
  <2> QED
    BY <1>7, <2>1, <2>2 DEF Counted
<1>11. Distinct(c)
  <2> SUFFICES ASSUME NEW g \in Ino, NEW q \in Slot, NEW r \in Slot,
                      valid(c.etrs[g][q]), r # q, c.etrs[g][r].name = c.etrs[g][q].name
               PROVE  ~valid(c.etrs[g][r]) /\ q < r
    BY DEF Distinct
  <2>1. c.etrs[g][q] = b.etrs[g][q] /\ valid(b.etrs[g][q]) /\ c.etrs[g][q].name # NULL
    BY <1>8
  <2>2. c.etrs[g][r].name = b.etrs[g][r].name
    BY <2>1, NoEntryType DEF Differs
  <2>3. ~valid(b.etrs[g][r]) /\ q < r
    BY <2>1, <2>2 DEF Ok, Sound, Distinct
  <2>4. valid(c.etrs[g][r]) => valid(b.etrs[g][r])
    BY <1>8
  <2> QED
    BY <2>3, <2>4
<1>12. c.refcnt[root] = 0
  BY <1>1, Sizes DEF Ok
<1>13. NoneLost(b, c)
  BY <1>6, <1>7 DEF NoneLost
<1> QED
  BY <1>9, <1>10, <1>11, <1>12, <1>13 DEF Ok, Sound

\* An inode taken into use without a name.
LEMMA Starting ==
  ASSUME NEW b, Ok(b), NEW c \in Blkfs, NEW i \in Ino, b.refcnt[i] = NULL, c.refcnt[i] = 0,
         \A j \in Ino \ {i} : c.refcnt[j] = b.refcnt[j],
         \A g \in Ino, r \in Slot : \/ c.etrs[g][r] = b.etrs[g][r]
                                    \/ ~valid(b.etrs[g][r]) /\ c.etrs[g][r] = NoEntry
  PROVE  Ok(c)
<1>0. i # root /\ EntriesOf(b, i) = {}
  BY Unused, Sizes DEF Ok
<1>1. ASSUME NEW g \in Ino, NEW r \in Slot, valid(c.etrs[g][r])
      PROVE  c.etrs[g][r] = b.etrs[g][r] /\ valid(b.etrs[g][r]) /\ c.etrs[g][r].name # NULL
  <2>1. c.etrs[g][r] = b.etrs[g][r] /\ valid(b.etrs[g][r])
    BY <1>1, NoEntryType DEF valid
  <2> QED
    BY <2>1 DEF Ok, Sound, Rooted
<1>2. \A j \in Ino : EntriesOf(c, j) = EntriesOf(b, j) /\ DirEntriesOf(c, j) = DirEntriesOf(b, j)
  <2>1. ASSUME NEW g \in Ino, NEW r \in Slot, NEW j \in Ino
        PROVE  /\ c.etrs[g][r].ino = j <=> b.etrs[g][r].ino = j
               /\ c.etrs[g][r].ino = j => c.etrs[g][r] = b.etrs[g][r]
    <3>1. c.etrs[g][r] = b.etrs[g][r] \/ (b.etrs[g][r].ino = NULL /\ c.etrs[g][r].ino = NULL)
      BY NoEntryType DEF valid
    <3> QED
      BY <3>1, Sizes
  <2>2. \A j \in Ino : EntriesOf(c, j) = EntriesOf(b, j)
    BY <2>1 DEF EntriesOf
  <2>3. \A j \in Ino : DirEntriesOf(c, j) = DirEntriesOf(b, j)
    BY <2>1 DEF EntriesOf, DirEntriesOf
  <2> QED
    BY <2>2, <2>3
<1>3. Rooted(c)
  <2> SUFFICES ASSUME NEW g \in Ino, NEW r \in Slot, valid(c.etrs[g][r])
               PROVE  /\ c.etrs[g][r].name # NULL
                      /\ c.etrs[g][r].ino # root /\ c.refcnt[c.etrs[g][r].ino] # NULL
                      /\ g = root \/ DirEntriesOf(c, g) # {}
    BY DEF Rooted
  <2>1. c.etrs[g][r] = b.etrs[g][r] /\ valid(b.etrs[g][r]) /\ c.etrs[g][r].name # NULL
    BY <1>1
  <2>2. /\ b.etrs[g][r].ino # root /\ b.refcnt[b.etrs[g][r].ino] # NULL
        /\ g = root \/ DirEntriesOf(b, g) # {}
    BY <2>1 DEF Ok, Sound, Rooted
  <2>3. b.etrs[g][r].ino \in Ino /\ b.etrs[g][r].ino # i
    BY <2>1, <2>2, BlkfsFields, EntryFields DEF valid, Ok
  <2> QED
    BY <1>2, <2>1, <2>2, <2>3
<1>4. Counted(c)
  <2>1. ASSUME NEW j \in Ino \ {root, i}, c.refcnt[j] # NULL
        PROVE  \/ EntriesOf(c, j) = {} /\ c.refcnt[j] = 0
               \/ /\ Cardinality(EntriesOf(c, j)) = c.refcnt[j] + 1
                  /\ \A e \in DirEntriesOf(c, j) : EntriesOf(c, j) = {e}
    BY <1>2, <2>1 DEF Ok, Sound, Counted
  <2> QED
    BY <1>0, <1>2, <2>1 DEF Counted
<1>5. Distinct(c)
  <2> SUFFICES ASSUME NEW g \in Ino, NEW q \in Slot, NEW r \in Slot,
                      valid(c.etrs[g][q]), r # q, c.etrs[g][r].name = c.etrs[g][q].name
               PROVE  ~valid(c.etrs[g][r]) /\ q < r
    BY DEF Distinct
  <2>1. c.etrs[g][q] = b.etrs[g][q] /\ valid(b.etrs[g][q]) /\ c.etrs[g][q].name # NULL
    BY <1>1
  <2>2. c.etrs[g][r] = b.etrs[g][r]
    BY <2>1, NoEntryType
  <2> QED
    BY <2>1, <2>2 DEF Ok, Sound, Distinct
<1>6. c.refcnt[root] = 0
  BY <1>0, Sizes DEF Ok
<1> QED
  BY <1>3, <1>4, <1>5, <1>6 DEF Ok, Sound

-----------------------------------------------------------------------------
(* Where ways lead.                                                          *)

LEMMA TrailDirs ==
  ASSUME NEW b, Ok(b), NEW p, Len(p) \in Nat, NEW n \in 1..Len(p), Trail(b, p)[n] # NULL
  PROVE  /\ Trail(b, p)[n - 1] \in Ino /\ Trail(b, p)[n] \in Ino \ {root}
         /\ \E r \in Slot : /\ r \in DirSlots(b, Trail(b, p)[n - 1], p[n])
                            /\ b.etrs[Trail(b, p)[n - 1]][r].ino = Trail(b, p)[n]
                            /\ <<Trail(b, p)[n - 1], r>> \in DirEntriesOf(b, Trail(b, p)[n])
<1> DEFINE T == Trail(b, p)
<1>0. b \in Blkfs
  BY DEF Ok
<1>1. T[n] = Sub(b, T[n - 1], p[n]) /\ T[n - 1] \in Ino \cup {NULL}
  BY <1>0, TrailSteps, TrailType
<1> HIDE DEF T
<1>2. T[n - 1] \in Ino /\ Sub(b, T[n - 1], p[n]) # NULL
  BY <1>1, SubNull DEF T
<1>3. PICK r \in Slot : /\ IsFirst(r, DirSlots(b, T[n - 1], p[n]))
                        /\ b.etrs[T[n - 1]][r].ino = T[n] /\ T[n] \in Ino
  BY <1>0, <1>1, <1>2, SubIs
<1>4. r \in DirSlots(b, T[n - 1], p[n])
  BY <1>3 DEF IsFirst
<1>5. valid(b.etrs[T[n - 1]][r]) /\ b.etrs[T[n - 1]][r].dir
  BY <1>4 DEF DirSlots, Slots
<1>6. T[n] # root
  BY <1>2, <1>3, <1>5 DEF Ok, Sound, Rooted
<1>7. <<T[n - 1], r>> \in DirEntriesOf(b, T[n])
  BY <1>2, <1>3, <1>5 DEF EntriesOf, DirEntriesOf
<1> QED
  BY <1>2, <1>3, <1>4, <1>6, <1>7 DEF T

\* The place of a path's last name is the root or a directory; outside /dev and
\* /proc, it is neither a mount point nor in the root under its name.
LEMMA WalkAllowed ==
  ASSUME NEW b, Ok(b), NEW p \in Seq(Name), p # <<>>, NEW d, d = Walk(b, p), d # NULL
  PROVE  /\ d \in Ino /\ (d = root \/ DirEntriesOf(b, d) # {})
         /\ p[1] \notin Mountable =>
              /\ d = root => Last(p) \notin Mountable
              /\ \A s \in Slot : valid(b.etrs[root][s]) /\ b.etrs[root][s].name \in Mountable =>
                                   b.etrs[root][s].ino # d
<1> DEFINE T == Trail(b, p)
           n == Len(p) - 1
<1>0. b \in Blkfs /\ Len(p) \in Nat \ {0} /\ n \in Nat
  BY EmptySeq DEF Ok
<1>1. T[0] = root /\ d = T[n]
  BY <1>0, TrailSteps
<1>2. \A k \in 1..n : k \in 1..Len(p)
  BY <1>0
<1>3. CASE n = 0
  <2>1. Last(p) = p[1] /\ d = root
    <3>1. Len(p) = 1
      BY <1>0, <1>3
    <3> QED
      BY <1>1, <1>3, <3>1 DEF Last
  <2>2. \A s \in Slot : valid(b.etrs[root][s]) => b.etrs[root][s].ino # root
    BY Sizes DEF Ok, Sound, Rooted
  <2> QED
    BY <2>1, <2>2, Sizes
<1>4. CASE n # 0
  <2>0. n <= Len(p)
    BY <1>0
  <2> HIDE DEF T, n
  <2>1. n \in 1..Len(p) /\ n - 1 \in Nat
    BY <1>0, <1>4, <2>0
  <2>2. PICK r \in Slot : /\ T[n - 1] \in Ino /\ T[n] \in Ino \ {root}
                          /\ r \in DirSlots(b, T[n - 1], p[n])
                          /\ <<T[n - 1], r>> \in DirEntriesOf(b, T[n])
    BY <1>0, <1>1, <2>1, TrailDirs DEF T
  <2>3. d \in Ino \ {root} /\ DirEntriesOf(b, d) # {}
    BY <1>1, <2>2
  <2>4. ASSUME p[1] \notin Mountable, NEW s \in Slot, valid(b.etrs[root][s]),
               b.etrs[root][s].name \in Mountable, b.etrs[root][s].ino = d
        PROVE  FALSE
    <3>1. <<root, s>> \in EntriesOf(b, d)
      BY <2>4, EntryIn, Sizes
    <3>2. b.refcnt[d] # NULL
      BY <2>4, Sizes DEF Ok, Sound, Rooted
    <3>3. EntriesOf(b, d) = {<<T[n - 1], r>>}
      BY <1>1, <2>2, <2>3, <3>1, <3>2 DEF Ok, Sound, Counted
    <3>4. T[n - 1] = root /\ r = s
      BY <3>1, <3>3
    <3>5. n - 1 = 0
      <4> SUFFICES ASSUME n - 1 # 0 PROVE FALSE
        OBVIOUS
      <4>1. n - 1 \in 1..Len(p)
        BY <1>0, <2>1
      <4> QED
        BY <1>0, <2>2, <3>4, <4>1, Sizes, TrailDirs DEF T
    <3>6. b.etrs[root][s].name = p[n] /\ n = 1
      BY <1>0, <2>2, <3>4, <3>5 DEF DirSlots, Slots
    <3> QED
      BY <2>4, <3>6
  <2> QED
    BY <2>3, <2>4
<1> QED
  BY <1>3, <1>4

-----------------------------------------------------------------------------
(* What the operations do to the disk.                                       *)

WithEntry(b, d, s, x) == [b EXCEPT !.etrs[d][s] = x]

WithInode(b, i, n) == [b EXCEPT !.refcnt[i] = n, !.etrs[i] = NoEntries, !.text[i] = EMPTY]

LEMMA SetEntry ==
  ASSUME NEW b \in Blkfs, NEW d \in Ino, NEW s \in Slot, NEW x \in Entry,
         NEW c, c = WithEntry(b, d, s, x)
  PROVE  /\ c \in Blkfs /\ c.refcnt = b.refcnt /\ c.text = b.text /\ c.etrs[d][s] = x
         /\ \A g \in Ino, r \in Slot : ~(g = d /\ r = s) => c.etrs[g][r] = b.etrs[g][r]
<1>1. /\ b.refcnt \in [Ino -> Nat \cup {NULL}] /\ b.etrs \in [Ino -> [Slot -> Entry]]
      /\ b.text \in [Ino -> Text \cup {EMPTY}]
      /\ b = [refcnt |-> b.refcnt, etrs |-> b.etrs, text |-> b.text]
  BY BlkfsFields
<1> DEFINE etrs == [b.etrs EXCEPT ![d] = [b.etrs[d] EXCEPT ![s] = x]]
<1>2. c = [refcnt |-> b.refcnt, etrs |-> etrs, text |-> b.text]
  BY <1>1 DEF WithEntry
<1>3. /\ etrs \in [Ino -> [Slot -> Entry]] /\ etrs[d][s] = x
      /\ \A g \in Ino, r \in Slot : ~(g = d /\ r = s) => etrs[g][r] = b.etrs[g][r]
  BY <1>1
<1> HIDE DEF etrs
<1>4. c.refcnt = b.refcnt /\ c.etrs = etrs /\ c.text = b.text
  BY <1>2
<1>5. c \in Blkfs
  <2>1. /\ b.refcnt \in [Ino -> Nat \cup {NULL}] /\ etrs \in [Ino -> [Slot -> Entry]]
        /\ b.text \in [Ino -> Text \cup {EMPTY}]
    BY <1>1, <1>3
  <2>2. [refcnt |-> b.refcnt, etrs |-> etrs, text |-> b.text] \in Blkfs
    BY <2>1, BlkfsHas, Zenon
  <2> QED
    BY <1>2, <2>2, Zenon
<1> QED
  BY <1>3, <1>4, <1>5

SetTo(b, c, i, n) ==
  /\ c \in Blkfs /\ c.refcnt[i] = n /\ c.text = [b.text EXCEPT ![i] = EMPTY]
  /\ \A j \in Ino \ {i} : c.refcnt[j] = b.refcnt[j] /\ c.etrs[j] = b.etrs[j]
  /\ \A r \in Slot : c.etrs[i][r] = NoEntry

LEMMA SetInode ==
  ASSUME NEW b \in Blkfs, NEW i \in Ino, NEW n, n \in Nat \cup {NULL}
  PROVE  SetTo(b, WithInode(b, i, n), i, n)
<1> SUFFICES ASSUME NEW c, c = WithInode(b, i, n) PROVE SetTo(b, c, i, n)
  OBVIOUS
<1>1. /\ b.refcnt \in [Ino -> Nat \cup {NULL}] /\ b.etrs \in [Ino -> [Slot -> Entry]]
      /\ b.text \in [Ino -> Text \cup {EMPTY}]
      /\ b = [refcnt |-> b.refcnt, etrs |-> b.etrs, text |-> b.text]
  BY BlkfsFields
<1>2. c = [refcnt |-> [b.refcnt EXCEPT ![i] = n], etrs |-> [b.etrs EXCEPT ![i] = NoEntries],
           text |-> [b.text EXCEPT ![i] = EMPTY]]
  BY <1>1 DEF WithInode
<1>3. /\ c.refcnt = [b.refcnt EXCEPT ![i] = n] /\ c.etrs = [b.etrs EXCEPT ![i] = NoEntries]
      /\ c.text = [b.text EXCEPT ![i] = EMPTY]
  BY <1>2
<1>4. c \in Blkfs
  <2>1. /\ [b.refcnt EXCEPT ![i] = n] \in [Ino -> Nat \cup {NULL}]
        /\ [b.etrs EXCEPT ![i] = NoEntries] \in [Ino -> [Slot -> Entry]]
        /\ [b.text EXCEPT ![i] = EMPTY] \in [Ino -> Text \cup {EMPTY}]
    BY <1>1, NoEntryType
  <2>2. [refcnt |-> [b.refcnt EXCEPT ![i] = n], etrs |-> [b.etrs EXCEPT ![i] = NoEntries],
         text |-> [b.text EXCEPT ![i] = EMPTY]] \in Blkfs
    BY <2>1, BlkfsHas, Zenon
  <2> QED
    BY <1>2, <2>2, Zenon
<1> QED
  BY <1>1, <1>3, <1>4, NoEntryType DEF SetTo

LEMMA FreeSlotsOf ==
  ASSUME NEW b, NEW d \in Ino, FreeSlots(b, d) # {}
  PROVE  least(FreeSlots(b, d)) \in Slot /\ IsFirst(least(FreeSlots(b, d)), FreeSlots(b, d))
<1>1. FreeSlots(b, d) \in SUBSET Nat /\ FreeSlots(b, d) \subseteq Slot
  BY Sizes DEF FreeSlots
<1> QED
  BY <1>1, LeastIs DEF IsFirst

LEMMA AddEntryIs ==
  ASSUME NEW b \in Blkfs, NEW d \in Ino, NEW name \in Name, NEW i \in Ino, NEW dir \in BOOLEAN,
         FreeSlots(b, d) # {}, NEW c, c = AddEntry(b, d, name, i, dir)
  PROVE  \E s \in Slot :
           /\ IsFirst(s, FreeSlots(b, d))
           /\ c \in Blkfs /\ c.refcnt = b.refcnt /\ c.text = b.text
           /\ c.etrs[d][s] = [name |-> name, ino |-> i, dir |-> dir]
           /\ \A g \in Ino, r \in Slot : ~(g = d /\ r = s) => c.etrs[g][r] = b.etrs[g][r]
<1> DEFINE s == least(FreeSlots(b, d))
           x == [name |-> name, ino |-> i, dir |-> dir]
<1>1. s \in Slot /\ IsFirst(s, FreeSlots(b, d))
  BY FreeSlotsOf
<1>2. x \in Entry
  BY DEF Entry
<1>3. c = WithEntry(b, d, s, x)
  BY DEF AddEntry, WithEntry
<1> HIDE DEF s, x
<1>4. /\ c \in Blkfs /\ c.refcnt = b.refcnt /\ c.text = b.text /\ c.etrs[d][s] = x
      /\ \A g \in Ino, r \in Slot : ~(g = d /\ r = s) => c.etrs[g][r] = b.etrs[g][r]
  BY <1>1, <1>2, <1>3, SetEntry
<1> QED
  BY <1>1, <1>4 DEF x

\* Inode i is taken into use, empty; the entries are as they were, but for those
\* of d.
Taken(b, c, d, i) ==
  /\ d \in Ino /\ b.refcnt[d] # NULL /\ i \in Ino \ {root, d} /\ c \in Blkfs
  /\ b.refcnt[i] = NULL /\ c.refcnt[i] = 0 /\ (\A j \in Ino \ {i} : c.refcnt[j] = b.refcnt[j])
  /\ \A r \in Slot : ~valid(b.etrs[i][r]) /\ c.etrs[i][r] = NoEntry
  /\ \A g \in Ino \ {i, d}, r \in Slot : c.etrs[g][r] = b.etrs[g][r]
  /\ c.text = [b.text EXCEPT ![i] = EMPTY]

\* It is given a name in slot s of d.
Created(b, c, d, s, i, name) ==
  /\ Taken(b, c, d, i)
  /\ s \in Slot /\ IsFirst(s, FreeSlots(b, d)) /\ name \in Name /\ Slots(b, d, name) = {}
  /\ c.etrs[d][s].name = name /\ c.etrs[d][s].ino = i
  /\ \A r \in Slot : r # s => c.etrs[d][r] = b.etrs[d][r]

\* It is not: d is full.
Lost(b, c, d, i) ==
  /\ Taken(b, c, d, i)
  /\ \A r \in Slot : valid(b.etrs[d][r]) /\ c.etrs[d][r] = b.etrs[d][r]

LEMMA CreateIs ==
  ASSUME NEW b, Ok(b), NEW p \in Seq(Name), p # <<>>, NEW dir \in BOOLEAN,
         NEW res, res = Create(b, p, dir), NEW d, d = Walk(b, p)
  PROVE  \/ res.fs = b /\ (res.ino = NULL \/ res.ino = Lookup(b, p, dir))
         \/ Lost(b, res.fs, d, res.ino)
         \/ \E s \in Slot : /\ Created(b, res.fs, d, s, res.ino, Last(p))
                            /\ res.fs.etrs[d][s].dir = dir
<1> DEFINE i == least(FreeInodes(b))
           fresh == WithInode(b, i, 0)
           name == Last(p)
           c == AddEntry(fresh, d, name, i, dir)
           look == Lookup(b, p, dir)
<1>1. res = IF d = NULL THEN [fs |-> b, ino |-> NULL]
            ELSE IF Match(b, d, name) # NULL THEN [fs |-> b, ino |-> look]
            ELSE IF FreeInodes(b) = {} THEN [fs |-> b, ino |-> NULL]
            ELSE [fs |-> c, ino |-> i]
  BY DEF Create, WithInode
<1>2. CASE d = NULL \/ Match(b, d, name) # NULL \/ FreeInodes(b) = {}
  <2> HIDE DEF c, i, look, name
  <2> QED
    BY <1>1, <1>2 DEF look
<1>3. CASE d # NULL /\ Match(b, d, name) = NULL /\ FreeInodes(b) # {}
  <2>0. b \in Blkfs /\ b.refcnt[root] = 0
    BY DEF Ok
  <2>1. res.fs = c /\ res.ino = i
    <3> HIDE DEF c, i, look, name
    <3> QED
      BY <1>1, <1>3
  <2>2. FreeInodes(b) \in SUBSET Nat /\ FreeInodes(b) \subseteq Ino
    BY Sizes DEF FreeInodes
  <2>3. i \in FreeInodes(b)
    BY <1>3, <2>2, LeastIs
  <2>4. i \in Ino /\ b.refcnt[i] = NULL
    BY <2>3 DEF FreeInodes
  <2> HIDE DEF i
  <2>5. d \in Ino /\ (d = root \/ DirEntriesOf(b, d) # {})
    BY <1>3, WalkAllowed
  <2>6. b.refcnt[d] # NULL /\ i # d /\ i # root
    <3>1. DirEntriesOf(b, d) \subseteq EntriesOf(b, d)
      BY EntriesFinite
    <3> QED
      BY <2>0, <2>4, <2>5, <3>1, Unused, Sizes
  <2>7. \A r \in Slot : ~valid(b.etrs[i][r])
    <3>1. EntriesOf(b, i) = {} /\ DirEntriesOf(b, i) \subseteq EntriesOf(b, i)
      BY <2>4, Unused, EntriesFinite
    <3> QED
      BY <2>4, <2>6, <3>1, Unused
  <2>8. /\ fresh \in Blkfs /\ fresh.refcnt[i] = 0 /\ fresh.text = [b.text EXCEPT ![i] = EMPTY]
        /\ \A j \in Ino \ {i} : fresh.refcnt[j] = b.refcnt[j] /\ fresh.etrs[j] = b.etrs[j]
        /\ \A r \in Slot : fresh.etrs[i][r] = NoEntry
    BY <2>0, <2>4, SetInode DEF SetTo
  <2> HIDE DEF fresh
  <2>9. FreeSlots(fresh, d) = FreeSlots(b, d)
    BY <2>5, <2>6, <2>8 DEF FreeSlots
  <2>10. name \in Name
    BY ParentIs
  <2>11. Slots(b, d, name) = {}
    BY <1>3, <2>0, <2>5, MatchIs
  <2> HIDE DEF name
  <2>12. CASE FreeSlots(b, d) = {}
    <3>1. c = fresh
      BY <2>9, <2>12 DEF AddEntry
    <3>2. \A r \in Slot : valid(b.etrs[d][r])
      BY <2>12 DEF FreeSlots
    <3>3. Lost(b, fresh, d, i)
      BY <2>4, <2>5, <2>6, <2>7, <2>8, <3>2 DEF Lost, Taken
    <3> QED
      BY <2>1, <3>1, <3>3
  <2>13. CASE FreeSlots(b, d) # {}
    <3>1. PICK s \in Slot :
             /\ IsFirst(s, FreeSlots(fresh, d))
             /\ c \in Blkfs /\ c.refcnt = fresh.refcnt /\ c.text = fresh.text
             /\ c.etrs[d][s] = [name |-> name, ino |-> i, dir |-> dir]
             /\ \A g \in Ino, r \in Slot : ~(g = d /\ r = s) => c.etrs[g][r] = fresh.etrs[g][r]
      BY <2>4, <2>5, <2>8, <2>9, <2>10, <2>13, AddEntryIs
    <3> HIDE DEF c
    <3>2. Taken(b, c, d, i)
      BY <2>4, <2>5, <2>6, <2>7, <2>8, <3>1 DEF Taken
    <3>3. Created(b, c, d, s, i, name)
      BY <2>5, <2>6, <2>8, <2>9, <2>10, <2>11, <3>1, <3>2 DEF Created
    <3>4. c.etrs[d][s].dir = dir
      BY <3>1
    <3> QED
      BY <2>1, <3>3, <3>4 DEF name
  <2> QED
    BY <2>12, <2>13
<1> QED
  BY <1>2, <1>3

\* Inode i is no longer in use and its name, in slot s of d, no longer there.
Removed(b, c, d, s, i, name) ==
  /\ Found(b, d, s, name, i) /\ c \in Blkfs /\ i # d
  /\ b.refcnt[i] = 0 /\ c.refcnt[i] = NULL /\ (\A j \in Ino \ {i} : c.refcnt[j] = b.refcnt[j])
  /\ \A r \in Slot : ~valid(b.etrs[i][r]) /\ c.etrs[i][r] = NoEntry
  /\ ~valid(c.etrs[d][s]) /\ c.etrs[d][s].name \in {NULL, name}
  /\ \A g \in Ino \ {i}, r \in Slot : ~(g = d /\ r = s) => c.etrs[g][r] = b.etrs[g][r]
  /\ c.text = [b.text EXCEPT ![i] = EMPTY]

\* An inode with a directory's name has no other; a file contains no names.
LEMMA FoundIs ==
  ASSUME NEW b, Ok(b), NEW d, NEW s, NEW name, NEW i, Found(b, d, s, name, i)
  PROVE  /\ Cell(d, s) \in EntriesOf(b, i) /\ i # root /\ b.refcnt[i] \in Nat
         /\ valid(b.etrs[d][s]) /\ b.etrs[d][s].name = name /\ b.etrs[d][s].ino = i
         /\ b.etrs[d][s].dir => b.refcnt[i] = 0 /\ EntriesOf(b, i) = {Cell(d, s)}
         /\ ~b.etrs[d][s].dir => DirEntriesOf(b, i) = {} /\ \A r \in Slot : ~valid(b.etrs[i][r])
<1>1. /\ d \in Ino /\ s \in Slot /\ i \in Ino /\ b.etrs[d][s].ino = i /\ b.etrs[d][s].name = name
  BY DEF Found
<1>2. Cell(d, s) \in EntriesOf(b, i) /\ valid(b.etrs[d][s])
  <2>1. Cell(d, s) \in EntriesOf(b, i)
    BY <1>1 DEF EntriesOf, Cell
  <2>2. valid(b.etrs[d][s])
    BY <1>1, Sizes DEF valid
  <2> QED
    BY <2>1, <2>2
<1>3. i # root /\ b.refcnt[i] # NULL /\ b.refcnt[i] \in Nat
  BY <1>1, <1>2, BlkfsFields DEF Ok, Sound, Rooted
<1>4. /\ Cardinality(EntriesOf(b, i)) = b.refcnt[i] + 1
      /\ \A e \in DirEntriesOf(b, i) : EntriesOf(b, i) = {e}
  BY <1>1, <1>2, <1>3 DEF Ok, Sound, Counted
<1>5. CASE b.etrs[d][s].dir
  <2>1. Cell(d, s) \in DirEntriesOf(b, i)
    BY <1>1, <1>2, <1>5 DEF DirEntriesOf, Cell
  <2>2. EntriesOf(b, i) = {Cell(d, s)}
    BY <1>4, <2>1
  <2>3. Cardinality(EntriesOf(b, i)) = 1
    BY <2>2, FS_Singleton
  <2> QED
    BY <1>1, <1>2, <1>3, <1>4, <1>5, <2>2, <2>3
<1>6. CASE ~b.etrs[d][s].dir
  <2>1. DirEntriesOf(b, i) = {}
    <3> SUFFICES ASSUME NEW e \in DirEntriesOf(b, i) PROVE FALSE
      OBVIOUS
    <3>1. e = Cell(d, s)
      BY <1>2, <1>4
    <3> QED
      BY <1>1, <1>6, <3>1 DEF DirEntriesOf, Cell
  <2>2. \A r \in Slot : ~valid(b.etrs[i][r])
    BY <1>1, <1>3, <2>1, Unused
  <2> QED
    BY <1>1, <1>2, <1>3, <1>6, <2>1, <2>2
<1> QED
  BY <1>5, <1>6

LEMMA RemovableIs ==
  ASSUME NEW b, Ok(b), NEW d, NEW s, NEW name, NEW i, Found(b, d, s, name, i),
         b.etrs[d][s].dir => FreeSlots(b, i) = Slot, ~b.etrs[d][s].dir => b.refcnt[i] = 0
  PROVE  /\ i # d /\ b.refcnt[i] = 0 /\ \A r \in Slot : ~valid(b.etrs[i][r])
         /\ valid(b.etrs[d][s]) /\ b.etrs[d][s].name = name
         /\ b \in Blkfs /\ d \in Ino /\ s \in Slot /\ i \in Ino
<1>1. b \in Blkfs /\ d \in Ino /\ s \in Slot /\ i \in Ino
  BY DEF Ok, Found
<1>2. /\ valid(b.etrs[d][s]) /\ b.etrs[d][s].name = name
      /\ b.etrs[d][s].dir => b.refcnt[i] = 0
      /\ ~b.etrs[d][s].dir => \A r \in Slot : ~valid(b.etrs[i][r])
  BY FoundIs
<1>3. b.etrs[d][s].dir => \A r \in Slot : ~valid(b.etrs[i][r])
  BY DEF FreeSlots
<1> QED
  BY <1>1, <1>2, <1>3

LEMMA RemovedIs ==
  ASSUME NEW b, Ok(b), NEW d, NEW s, NEW name, NEW i, Found(b, d, s, name, i),
         b.etrs[d][s].dir => FreeSlots(b, i) = Slot, ~b.etrs[d][s].dir => b.refcnt[i] = 0,
         NEW x, x.ino = NULL, x.name \in {NULL, name}, x \in Entry
  PROVE  Removed(b, WithEntry(WithInode(b, i, NULL), d, s, x), d, s, i, name)
<1> DEFINE zeroed == WithInode(b, i, NULL)
           c == WithEntry(zeroed, d, s, x)
<1>1. /\ i # d /\ b.refcnt[i] = 0 /\ \A r \in Slot : ~valid(b.etrs[i][r])
      /\ b \in Blkfs /\ d \in Ino /\ s \in Slot /\ i \in Ino
  BY RemovableIs
<1>2. /\ zeroed \in Blkfs /\ zeroed.refcnt[i] = NULL /\ zeroed.text = [b.text EXCEPT ![i] = EMPTY]
      /\ \A j \in Ino \ {i} : zeroed.refcnt[j] = b.refcnt[j] /\ zeroed.etrs[j] = b.etrs[j]
      /\ \A r \in Slot : zeroed.etrs[i][r] = NoEntry
  BY <1>1, SetInode DEF SetTo
<1> HIDE DEF zeroed
<1>3. /\ c \in Blkfs /\ c.refcnt = zeroed.refcnt /\ c.text = zeroed.text /\ c.etrs[d][s] = x
      /\ \A g \in Ino, r \in Slot : ~(g = d /\ r = s) => c.etrs[g][r] = zeroed.etrs[g][r]
  BY <1>1, <1>2, SetEntry
<1> HIDE DEF c
<1>4. ~valid(c.etrs[d][s]) /\ c.etrs[d][s].name \in {NULL, name}
  BY <1>3 DEF valid
<1>5. /\ c.refcnt[i] = NULL /\ \A j \in Ino \ {i} : c.refcnt[j] = b.refcnt[j]
      /\ c.text = [b.text EXCEPT ![i] = EMPTY]
  BY <1>2, <1>3
<1>6. \A r \in Slot : c.etrs[i][r] = NoEntry
  BY <1>1, <1>2, <1>3
<1>7. \A g \in Ino \ {i}, r \in Slot : ~(g = d /\ r = s) => c.etrs[g][r] = b.etrs[g][r]
  BY <1>2, <1>3
<1>8. Removed(b, c, d, s, i, name)
  BY <1>1, <1>3, <1>4, <1>5, <1>6, <1>7 DEF Removed
<1> QED
  BY <1>8 DEF c, zeroed

\* What is left of an entry.
Left(e) == [e EXCEPT !.ino = NULL]

LEMMA LeftIs ==
  ASSUME NEW b, Ok(b), NEW d, NEW s, NEW name, NEW i, Found(b, d, s, name, i), i # d,
         NEW x, x = Left(WithInode(b, i, NULL).etrs[d][s])
  PROVE  x \in Entry /\ x.ino = NULL /\ x.name = name
<1> DEFINE zeroed == WithInode(b, i, NULL)
<1>1. b \in Blkfs /\ d \in Ino /\ s \in Slot /\ i \in Ino /\ b.etrs[d][s].name = name
  BY DEF Ok, Found
<1>2. \A j \in Ino \ {i} : zeroed.etrs[j] = b.etrs[j]
  <2>1. SetTo(b, zeroed, i, NULL)
    BY <1>1, SetInode
  <2> HIDE DEF zeroed
  <2> QED
    BY <2>1 DEF SetTo
<1>3. zeroed.etrs[d][s] = b.etrs[d][s] /\ b.etrs[d][s] \in Entry
  BY <1>1, <1>2, BlkfsFields
<1>4. x = Left(b.etrs[d][s])
  BY <1>3
<1> HIDE DEF zeroed
<1>5. x = [name |-> b.etrs[d][s].name, ino |-> NULL, dir |-> b.etrs[d][s].dir]
  BY <1>3, <1>4, EntryFields DEF Left
<1> QED
  BY <1>1, <1>3, <1>5, EntryFields DEF Entry

LEMMA RemoveIs ==
  ASSUME NEW b, Ok(b), NEW p \in Seq(Name), NEW dir \in BOOLEAN,
         NEW i, i = Lookup(b, p, dir), ~dir /\ i # NULL => b.refcnt[i] = 0,
         NEW c, c = Remove(b, p, dir), NEW d, d = Walk(b, p)
  PROVE  \/ c = b /\ (i = NULL \/ (dir /\ FreeSlots(b, i) # Slot))
         \/ p # <<>> /\ \E s \in Slot : Removed(b, c, d, s, i, Last(p))
<1> DEFINE s == Match(b, d, Last(p))
           zeroed == WithInode(b, i, NULL)
           x == IF dir THEN NoEntry ELSE Left(zeroed.etrs[d][s])
           left == WithEntry(zeroed, d, s, x)
<1>1. c = IF i = NULL THEN b ELSE IF ~Removable(b, i, dir) THEN b ELSE left
  BY DEF Remove, WithInode, WithEntry, Left
<1> HIDE DEF left
<1>2. CASE i = NULL \/ ~Removable(b, i, dir)
  BY <1>1, <1>2 DEF Removable
<1>3. CASE i # NULL /\ Removable(b, i, dir)
  <2>1. p # <<>> /\ Found(b, d, s, Last(p), i) /\ b.etrs[d][s].dir = dir
    <3>1. b \in Blkfs
      BY DEF Ok
    <3> QED
      BY <1>3, <3>1, LookupIs
  <2>2. /\ b.etrs[d][s].dir => FreeSlots(b, i) = Slot
        /\ ~b.etrs[d][s].dir => b.refcnt[i] = 0
    BY <1>3, <2>1 DEF Removable
  <2> HIDE DEF s
  <2>3. i # d
    BY <2>1, <2>2, RemovableIs
  <2>4. x \in Entry /\ x.ino = NULL /\ x.name \in {NULL, Last(p)}
    <3>1. CASE dir
      <4>1. x = NoEntry
        BY <3>1
      <4> QED
        BY <4>1, NoEntryType
    <3>2. CASE ~dir
      <4>1. x = Left(WithInode(b, i, NULL).etrs[d][s])
        BY <3>2
      <4> HIDE DEF x
      <4> QED
        BY <2>1, <2>3, <4>1, LeftIs
    <3> QED
      BY <3>1, <3>2
  <2> HIDE DEF x
  <2>5. Removed(b, left, d, s, i, Last(p))
    BY <2>1, <2>2, <2>4, RemovedIs DEF left
  <2>6. s \in Slot /\ c = left
    BY <1>1, <1>3, <2>1 DEF Found
  <2> QED
    BY <2>1, <2>5, <2>6
<1> QED
  BY <1>2, <1>3

-----------------------------------------------------------------------------
(* What every call keeps.                                                    *)

\* Some directory has no slot left.
Full(b) == \E d \in Ino : b.refcnt[d] # NULL /\ \A s \in Slot : valid(b.etrs[d][s])

Keeps(b, c, M) == Ok(c) /\ MountsInv(c, M) /\ (NoneLost(b, c) \/ Full(b))

\* Slot r of the root has the name of a mount point.
MountPoint(b, r) == valid(b.etrs[root][r]) /\ b.etrs[root][r].name \in Mountable

LEMMA MountsKeep ==
  ASSUME NEW b, Ok(b), NEW M, MountsInv(b, M), NEW c, Ok(c), NEW N,
         NEW d \in Ino, NEW s \in Slot, Differs(b, c, d, s),
         \A r \in Slot : MountPoint(b, r) /\ ~(d = root /\ r = s) =>
                           b.etrs[root][r].name \in N /\ b.etrs[root][r].ino # d,
         d = root /\ MountPoint(c, s) =>
            /\ c.etrs[root][s].dir /\ c.etrs[root][s].name \in N
            /\ FreeSlots(c, c.etrs[root][s].ino) = Slot
  PROVE  MountsInv(c, N)
<1> SUFFICES ASSUME NEW r \in Slot, MountPoint(c, r)
             PROVE  /\ c.etrs[root][r].dir /\ c.etrs[root][r].name \in N
                    /\ FreeSlots(c, c.etrs[root][r].ino) = Slot
  BY DEF MountsInv, MountPoint
<1>1. CASE d = root /\ r = s
  BY <1>1
<1>2. CASE ~(d = root /\ r = s)
  <2>1. c.etrs[root][r] = b.etrs[root][r]
    BY <1>2, NoEntryType, Sizes DEF Differs, MountPoint, valid
  <2>2. MountPoint(b, r)
    BY <2>1 DEF MountPoint
  <2>3. /\ b.etrs[root][r].dir /\ FreeSlots(b, b.etrs[root][r].ino) = Slot
        /\ b.etrs[root][r].name \in N /\ b.etrs[root][r].ino # d
    <3>1. b.etrs[root][r].dir /\ FreeSlots(b, b.etrs[root][r].ino) = Slot
      BY <2>2 DEF MountsInv, MountPoint
    <3> QED
      BY <1>2, <2>2, <3>1
  <2> DEFINE i == b.etrs[root][r].ino
  <2>4. i \in Ino
    BY <2>2, BlkfsFields, EntryFields, Sizes DEF MountPoint, valid, Ok
  <2> HIDE DEF i
  <2>5. \A q \in Slot : ~valid(b.etrs[i][q]) /\ i # d
    BY <2>3 DEF i, FreeSlots
  <2>6. \A q \in Slot : ~valid(c.etrs[i][q])
    BY <2>4, <2>5, NoEntryType DEF Differs, valid
  <2>7. FreeSlots(c, i) = Slot
    BY <2>6 DEF FreeSlots
  <2> QED
    BY <2>1, <2>3, <2>7 DEF i
<1> QED
  BY <1>1, <1>2

\* No entry changes, but for wiping those that are not valid.
LEMMA MountsStay ==
  ASSUME NEW b, Ok(b), NEW M, MountsInv(b, M), NEW c,
         \A g \in Ino, r \in Slot : \/ c.etrs[g][r] = b.etrs[g][r]
                                    \/ ~valid(b.etrs[g][r]) /\ c.etrs[g][r] = NoEntry
  PROVE  MountsInv(c, M)
<1> SUFFICES ASSUME NEW r \in Slot, MountPoint(c, r)
             PROVE  /\ c.etrs[root][r].dir /\ c.etrs[root][r].name \in M
                    /\ FreeSlots(c, c.etrs[root][r].ino) = Slot
  BY DEF MountsInv, MountPoint
<1>1. c.etrs[root][r] = b.etrs[root][r]
  BY NoEntryType, Sizes DEF MountPoint, valid
<1>2. MountPoint(b, r)
  BY <1>1 DEF MountPoint
<1>3. b.etrs[root][r].dir /\ b.etrs[root][r].name \in M /\ FreeSlots(b, b.etrs[root][r].ino) = Slot
  BY <1>2 DEF MountsInv, MountPoint
<1> DEFINE i == b.etrs[root][r].ino
<1>4. i \in Ino
  BY <1>2, BlkfsFields, EntryFields, Sizes DEF MountPoint, valid, Ok
<1> HIDE DEF i
<1>5. \A q \in Slot : ~valid(b.etrs[i][q])
  BY <1>3 DEF i, FreeSlots
<1>6. \A q \in Slot : ~valid(c.etrs[i][q])
  BY <1>4, <1>5, NoEntryType DEF valid
<1> QED
  BY <1>1, <1>3, <1>6 DEF i, FreeSlots

\* Only text is written.
LEMMA SameNames ==
  ASSUME NEW b, NEW c \in Blkfs, c.refcnt = b.refcnt, c.etrs = b.etrs
  PROVE  /\ \A i : EntriesOf(c, i) = EntriesOf(b, i) /\ DirEntriesOf(c, i) = DirEntriesOf(b, i)
         /\ Ok(b) => Ok(c) /\ NoneLost(b, c)
         /\ \A M : MountsInv(b, M) => MountsInv(c, M)
         /\ \A a : NoneLost(a, b) => NoneLost(a, c)
<1>1. \A i : EntriesOf(c, i) = EntriesOf(b, i)
  BY DEF EntriesOf
<1>2. \A i : DirEntriesOf(c, i) = DirEntriesOf(b, i)
  BY <1>1 DEF DirEntriesOf
<1>3. \A a : NoneLost(a, b) => NoneLost(a, c)
  BY <1>1 DEF NoneLost
<1>4. NoneLost(b, c)
  BY <1>1 DEF NoneLost
<1>5. ASSUME Ok(b) PROVE Ok(c)
  <2>1. Rooted(c)
    BY <1>2, <1>5 DEF Ok, Sound, Rooted
  <2>2. Counted(c)
    BY <1>1, <1>2, <1>5 DEF Ok, Sound, Counted
  <2>3. Distinct(c)
    BY <1>5 DEF Ok, Sound, Distinct
  <2> QED
    BY <1>5, <2>1, <2>2, <2>3 DEF Ok, Sound
<1>6. \A M : MountsInv(b, M) => MountsInv(c, M)
  BY DEF MountsInv, FreeSlots
<1> QED
  BY <1>1, <1>2, <1>3, <1>4, <1>5, <1>6

-----------------------------------------------------------------------------
(* Create.                                                                   *)

Fades(b, c) ==
  \A g \in Ino, r \in Slot : \/ c.etrs[g][r] = b.etrs[g][r]
                             \/ ~valid(b.etrs[g][r]) /\ c.etrs[g][r] = NoEntry

LEMMA LostOk ==
  ASSUME NEW b, Ok(b), NEW M, MountsInv(b, M), NEW c, NEW d, NEW i, Lost(b, c, d, i)
  PROVE  Ok(c) /\ MountsInv(c, M) /\ Full(b) /\ i \in Ino
<1>1. /\ d \in Ino /\ i \in Ino /\ i # d /\ c \in Blkfs /\ b.refcnt[d] # NULL
      /\ b.refcnt[i] = NULL /\ c.refcnt[i] = 0 /\ \A j \in Ino \ {i} : c.refcnt[j] = b.refcnt[j]
  BY DEF Lost, Taken
<1>2. Fades(b, c)
  BY DEF Lost, Taken, Fades
<1>3. Ok(c)
  BY <1>1, <1>2, Starting DEF Fades
<1>4. MountsInv(c, M)
  BY <1>2, MountsStay DEF Fades
<1>5. Full(b)
  BY <1>1 DEF Lost, Full
<1> QED
  BY <1>1, <1>3, <1>4, <1>5

LEMMA CreatedOk ==
  ASSUME NEW b, Ok(b), NEW c, NEW d, NEW s, NEW i, NEW name, Created(b, c, d, s, i, name),
         d = root \/ DirEntriesOf(b, d) # {}
  PROVE  /\ Ok(c) /\ NoneLost(b, c) /\ Differs(b, c, d, s)
         /\ d \in Ino /\ s \in Slot /\ i \in Ino /\ FreeSlots(c, i) = Slot
         /\ c.etrs[d][s].name = name /\ c.etrs[d][s].ino = i
<1>1. /\ d \in Ino /\ i \in Ino \ {root} /\ i # d /\ c \in Blkfs /\ s \in Slot
      /\ b.refcnt[i] = NULL /\ c.refcnt[i] = 0 /\ \A j \in Ino \ {i} : c.refcnt[j] = b.refcnt[j]
      /\ IsFirst(s, FreeSlots(b, d)) /\ name \in Name /\ Slots(b, d, name) = {}
      /\ c.etrs[d][s].name = name /\ c.etrs[d][s].ino = i
  BY DEF Created, Taken
<1>2. \A r \in Slot : ~valid(b.etrs[i][r]) /\ c.etrs[i][r] = NoEntry
  BY DEF Created, Taken
<1>3. \A g \in Ino \ {i, d}, r \in Slot : c.etrs[g][r] = b.etrs[g][r]
  BY DEF Created, Taken
<1>4. \A r \in Slot : r # s => c.etrs[d][r] = b.etrs[d][r]
  BY DEF Created
<1>5. Differs(b, c, d, s)
  BY <1>1, <1>2, <1>3, <1>4 DEF Differs
<1>6. OneMore(b, c, d, s, i)
  BY <1>1 DEF OneMore, CountOne
<1>7. Ok(c) /\ NoneLost(b, c)
  BY <1>1, <1>5, <1>6, Adding
<1>8. FreeSlots(c, i) = Slot
  BY <1>2, NoEntryType DEF FreeSlots, valid
<1> QED
  BY <1>1, <1>5, <1>7, <1>8

\* Outside the mount points.
LEMMA CreateKeeps ==
  ASSUME NEW b, Ok(b), NEW M, MountsInv(b, M), NEW p \in Seq(Name), p # <<>>,
         p[1] \notin Mountable, NEW dir \in BOOLEAN, NEW res, res = Create(b, p, dir)
  PROVE  Keeps(b, res.fs, M) /\ res.ino \in Ino \cup {NULL}
<1> DEFINE d == Walk(b, p)
           c == res.fs
           i == res.ino
<1>1. \/ c = b /\ (i = NULL \/ i = Lookup(b, p, dir))
      \/ Lost(b, c, d, i)
      \/ \E s \in Slot : Created(b, c, d, s, i, Last(p))
  BY CreateIs
<1>2. Lookup(b, p, dir) \in Ino \cup {NULL}
  <2>1. CASE Lookup(b, p, dir) # NULL
    <3>1. Found(b, Walk(b, p), Match(b, Walk(b, p), Last(p)), Last(p), Lookup(b, p, dir))
      BY <2>1, LookupIs DEF Ok
    <3> QED
      BY <3>1 DEF Found
  <2> QED
    BY <2>1
<1>3. d # NULL => /\ d \in Ino /\ (d = root \/ DirEntriesOf(b, d) # {})
                  /\ d = root => Last(p) \notin Mountable
                  /\ \A r \in Slot : MountPoint(b, r) => b.etrs[root][r].ino # d
  BY WalkAllowed DEF MountPoint
<1> HIDE DEF c, i, d
<1>4. CASE c = b /\ (i = NULL \/ i = Lookup(b, p, dir))
  <2>1. NoneLost(b, b)
    BY DEF NoneLost
  <2> QED
    BY <1>2, <1>4, <2>1 DEF Keeps, c, i
<1>5. CASE Lost(b, c, d, i)
  BY <1>5, LostOk DEF Keeps, c, i
<1>6. ASSUME NEW s \in Slot, Created(b, c, d, s, i, Last(p))
      PROVE  Keeps(b, c, M) /\ i \in Ino
  <2>0. d \in Ino /\ d # NULL
    BY <1>6, Sizes DEF Created, Taken
  <2>1. /\ Ok(c) /\ NoneLost(b, c) /\ Differs(b, c, d, s)
        /\ d \in Ino /\ i \in Ino /\ c.etrs[d][s].name = Last(p)
    BY <1>3, <1>6, <2>0, CreatedOk
  <2>2. \A r \in Slot : MountPoint(b, r) => b.etrs[root][r].name \in M
    BY DEF MountsInv, MountPoint
  <2>3. d = root => ~MountPoint(c, s)
    BY <1>3, <2>0, <2>1 DEF MountPoint
  <2>4. MountsInv(c, M)
    BY <1>3, <2>0, <2>1, <2>2, <2>3, MountsKeep
  <2> QED
    BY <2>1, <2>4 DEF Keeps
<1> QED
  BY <1>1, <1>4, <1>5, <1>6 DEF c, i

LEMMA OnePath ==
  ASSUME NEW b \in Blkfs, NEW p, Len(p) = 1
  PROVE  Walk(b, p) = root /\ Last(p) = p[1]
<1>1. Len(p) \in Nat /\ Len(p) - 1 = 0
  OBVIOUS
<1> QED
  BY <1>1, TrailSteps DEF Last

\* The directory for a mount.
LEMMA MountKeeps ==
  ASSUME NEW b, Ok(b), NEW M, MountsInv(b, M), NEW m \in Mountable, m \notin M,
         NEW p \in Seq(Name), p # <<>>, Len(p) = 1, p[1] = m, NEW dir \in BOOLEAN, dir, NEW N, N = M \cup {m},
         NEW res, res = Create(b, p, dir)
  PROVE  Keeps(b, res.fs, N)
<1> DEFINE d == Walk(b, p)
           c == res.fs
           i == res.ino
<1>2. d = root /\ Last(p) = m
  BY OnePath DEF Ok
<1>3. \/ c = b
      \/ Lost(b, c, d, i)
      \/ \E s \in Slot : Created(b, c, d, s, i, Last(p)) /\ c.etrs[d][s].dir = dir
  BY CreateIs
<1> HIDE DEF c, i, d
<1>4. MountsInv(b, N)
  BY DEF MountsInv
<1>5. CASE c = b
  <2>1. NoneLost(b, b)
    BY DEF NoneLost
  <2> QED
    BY <1>4, <1>5, <2>1 DEF Keeps, c
<1>6. CASE Lost(b, c, d, i)
  BY <1>4, <1>6, LostOk DEF Keeps, c
<1>7. ASSUME NEW s \in Slot, Created(b, c, d, s, i, Last(p)), c.etrs[d][s].dir = dir
      PROVE  Keeps(b, c, N)
  <2>1. /\ Ok(c) /\ NoneLost(b, c) /\ Differs(b, c, d, s) /\ d \in Ino
        /\ i \in Ino /\ FreeSlots(c, i) = Slot
        /\ c.etrs[d][s].name = Last(p) /\ c.etrs[d][s].ino = i
    BY <1>2, <1>7, CreatedOk
  <2>2. \A r \in Slot : MountPoint(b, r) =>
          b.etrs[root][r].name \in N /\ b.etrs[root][r].ino # d
    BY <1>2, Sizes DEF MountsInv, MountPoint, Ok, Sound, Rooted
  <2>3. c.etrs[root][s].dir /\ c.etrs[root][s].name \in N
        /\ FreeSlots(c, c.etrs[root][s].ino) = Slot
    BY <1>2, <1>7, <2>1
  <2>4. MountsInv(c, N)
    BY <2>1, <2>2, <2>3, MountsKeep
  <2> QED
    BY <2>1, <2>4 DEF Keeps
<1> QED
  BY <1>3, <1>5, <1>6, <1>7 DEF c

-----------------------------------------------------------------------------
(* Remove.                                                                   *)

LEMMA RemovedOk ==
  ASSUME NEW b, Ok(b), NEW c, NEW d, NEW s, NEW i, NEW name, Removed(b, c, d, s, i, name)
  PROVE  /\ Ok(c) /\ NoneLost(b, c) /\ Differs(b, c, d, s)
         /\ d \in Ino /\ s \in Slot /\ ~valid(c.etrs[d][s])
         /\ valid(b.etrs[d][s]) /\ b.etrs[d][s].name = name
<1>1. /\ Found(b, d, s, name, i) /\ c \in Blkfs /\ i # d
      /\ b.refcnt[i] = 0 /\ c.refcnt[i] = NULL /\ \A j \in Ino \ {i} : c.refcnt[j] = b.refcnt[j]
      /\ \A r \in Slot : ~valid(b.etrs[i][r]) /\ c.etrs[i][r] = NoEntry
      /\ ~valid(c.etrs[d][s]) /\ c.etrs[d][s].name \in {NULL, name}
  BY DEF Removed
<1>2. \A g \in Ino \ {i}, r \in Slot : ~(g = d /\ r = s) => c.etrs[g][r] = b.etrs[g][r]
  BY DEF Removed
<1>3. /\ d \in Ino /\ s \in Slot /\ i \in Ino
      /\ b.etrs[d][s].name = name /\ b.etrs[d][s].ino = i /\ valid(b.etrs[d][s])
  BY <1>1, Sizes DEF Found, valid
<1>4. Differs(b, c, d, s)
  BY <1>1, <1>2 DEF Differs
<1>5. OneLess(b, c, i)
  BY <1>1 DEF OneLess
<1>6. Ok(c) /\ NoneLost(b, c)
  BY <1>1, <1>3, <1>4, <1>5, Clearing
<1> QED
  BY <1>1, <1>3, <1>4, <1>6

LEMMA RemoveKeeps ==
  ASSUME NEW b, Ok(b), NEW M, MountsInv(b, M), NEW p \in Seq(Name), p # <<>>,
         p[1] \notin Mountable, NEW dir \in BOOLEAN,
         NEW i, i = Lookup(b, p, dir), ~dir /\ i # NULL => b.refcnt[i] = 0,
         NEW c, c = Remove(b, p, dir)
  PROVE  Keeps(b, c, M)
<1> DEFINE d == Walk(b, p)
<1>1. c = b \/ \E s \in Slot : Removed(b, c, d, s, i, Last(p))
  BY RemoveIs
<1>2. d # NULL => \A r \in Slot : MountPoint(b, r) => b.etrs[root][r].ino # d
  BY WalkAllowed DEF MountPoint
<1> HIDE DEF d
<1>3. CASE c = b
  <2>1. NoneLost(b, b)
    BY DEF NoneLost
  <2> QED
    BY <1>3, <2>1 DEF Keeps
<1>4. ASSUME NEW s \in Slot, Removed(b, c, d, s, i, Last(p))
      PROVE  Keeps(b, c, M)
  <2>1. Ok(c) /\ NoneLost(b, c) /\ Differs(b, c, d, s) /\ d \in Ino /\ ~valid(c.etrs[d][s])
    BY <1>4, RemovedOk
  <2>2. \A r \in Slot : MountPoint(b, r) => b.etrs[root][r].name \in M /\ b.etrs[root][r].ino # d
    BY <1>2, <2>1, Sizes DEF MountsInv, MountPoint
  <2>3. d = root => ~MountPoint(c, s)
    BY <2>1 DEF MountPoint
  <2>4. MountsInv(c, M)
    BY <2>1, <2>2, <2>3, MountsKeep
  <2> QED
    BY <2>1, <2>4 DEF Keeps
<1> QED
  BY <1>1, <1>3, <1>4

\* The directory of a mount: if it is there, it is the only one of its name.
LEMMA UnmountKeeps ==
  ASSUME NEW b, Ok(b), NEW M, MountsInv(b, M), NEW m \in Mountable,
         NEW p \in Seq(Name), p # <<>>, Len(p) = 1, p[1] = m, NEW dir, dir = TRUE, NEW N, N = M \ {m}
  PROVE  Keeps(b, Remove(b, p, dir), N)
<1> DEFINE c == Remove(b, p, dir)
           d == Walk(b, p)
           i == Lookup(b, p, dir)
<1>1. b \in Blkfs
  BY DEF Ok
<1>2. d = root /\ Last(p) = m
  BY <1>1, OnePath
<1>3. \/ c = b /\ (i = NULL \/ (dir /\ FreeSlots(b, i) # Slot))
      \/ \E s \in Slot : Removed(b, c, d, s, i, Last(p))
  <2>1. c = Remove(b, p, dir) /\ d = Walk(b, p) /\ i = Lookup(b, p, dir)
    OBVIOUS
  <2> HIDE DEF c, d, i
  <2>2. ~dir /\ i # NULL => b.refcnt[i] = 0
    OBVIOUS
  <2> QED
    BY <2>1, <2>2, RemoveIs
<1>4. ASSUME i # NULL
      PROVE  FreeSlots(b, i) = Slot
  <2>1. Found(b, d, Match(b, d, Last(p)), Last(p), i)
    BY <1>1, <1>4, LookupIs
  <2>2. PICK s \in Slot : valid(b.etrs[root][s]) /\ b.etrs[root][s].name = m /\ b.etrs[root][s].ino = i
    BY <1>2, <2>1, Sizes DEF Found, valid
  <2> QED
    BY <2>2 DEF MountsInv
<1>5. ASSUME i = NULL, NEW r \in Slot, valid(b.etrs[root][r]), b.etrs[root][r].name = m
      PROVE  FALSE
  <2>1. root \in Ino /\ root # NULL
    BY Sizes
  <2>2. Slots(b, root, m) # {}
    BY <1>5 DEF Slots
  <2> DEFINE s == Match(b, root, m)
  <2>3. s # NULL /\ s \in Slots(b, root, m)
    BY <1>1, <2>1, <2>2, MatchIs DEF IsFirst
  <2>4. s \in Slot /\ valid(b.etrs[root][s]) /\ b.etrs[root][s].name = m
    BY <2>3 DEF Slots
  <2>5. b.etrs[root][s].dir
    BY <2>4 DEF MountsInv
  <2>6. b.etrs[root][s].dir = dir
    <3>1. b.etrs[root][s] \in Entry
      BY <1>1, <2>1, <2>4, BlkfsFields
    <3>2. b.etrs[root][s].dir \in BOOLEAN
      BY <3>1, EntryFields
    <3> QED
      BY <2>5, <3>2
  <2>7. i = b.etrs[root][s].ino
    <3>1. i = IF p = <<>> \/ d = NULL THEN NULL
              ELSE IF Match(b, d, Last(p)) = NULL THEN NULL
              ELSE IF b.etrs[d][Match(b, d, Last(p))].dir # dir THEN NULL
              ELSE b.etrs[d][Match(b, d, Last(p))].ino
      BY DEF Lookup
    <3> HIDE DEF i, s
    <3> QED
      BY <1>1, <1>2, <2>1, <2>3, <2>6, <3>1 DEF s
  <2> QED
    BY <1>5, <2>4, <2>7 DEF valid
<1> HIDE DEF c, d, i
<1>6. CASE c = b /\ (i = NULL \/ (dir /\ FreeSlots(b, i) # Slot))
  <2>1. i = NULL
    BY <1>4, <1>6
  <2>2. MountsInv(b, N)
    BY <1>5, <2>1 DEF MountsInv
  <2>3. NoneLost(b, b)
    BY DEF NoneLost
  <2>4. Keeps(b, b, N)
    BY <2>2, <2>3 DEF Keeps
  <2>5. c = b
    BY <1>6
  <2> QED
    BY <2>4, <2>5 DEF c
<1>7. ASSUME NEW s \in Slot, Removed(b, c, d, s, i, Last(p))
      PROVE  Keeps(b, c, N)
  <2>0. Ok(c) /\ NoneLost(b, c) /\ Differs(b, c, d, s) /\ d \in Ino /\ ~valid(c.etrs[d][s])
    BY <1>7, RemovedOk
  <2>1. valid(b.etrs[d][s]) /\ b.etrs[d][s].name = Last(p)
    BY <1>7, Sizes DEF Removed, Found, valid
  <2>2. \A r \in Slot : MountPoint(b, r) => b.etrs[root][r].name \in M /\ b.etrs[root][r].ino # d
    BY <1>2, Sizes DEF MountsInv, MountPoint, Ok, Sound, Rooted
  <2>3. \A r \in Slot : MountPoint(b, r) /\ r # s => b.etrs[root][r].name # m
    BY <1>2, <2>1, Sizes DEF Ok, Sound, Distinct, MountPoint
  <2>4. \A r \in Slot : MountPoint(b, r) /\ ~(d = root /\ r = s) =>
          b.etrs[root][r].name \in N /\ b.etrs[root][r].ino # d
    BY <1>2, <2>2, <2>3
  <2>5. d = root => ~MountPoint(c, s)
    BY <2>0 DEF MountPoint
  <2>6. MountsInv(c, N)
    BY <2>0, <2>4, <2>5, MountsKeep
  <2> QED
    BY <2>0, <2>6 DEF Keeps
<1> QED
  BY <1>3, <1>6, <1>7 DEF c

-----------------------------------------------------------------------------
(* Links.                                                                    *)

WithCount(b, i, n) == [b EXCEPT !.refcnt[i] = n]

LEMMA SetCount ==
  ASSUME NEW b \in Blkfs, NEW i \in Ino, NEW n, n \in Nat \cup {NULL}, NEW c, c = WithCount(b, i, n)
  PROVE  /\ c \in Blkfs /\ c.refcnt[i] = n /\ c.etrs = b.etrs /\ c.text = b.text
         /\ \A j \in Ino \ {i} : c.refcnt[j] = b.refcnt[j]
<1>1. /\ b.refcnt \in [Ino -> Nat \cup {NULL}] /\ b.etrs \in [Ino -> [Slot -> Entry]]
      /\ b.text \in [Ino -> Text \cup {EMPTY}]
      /\ b = [refcnt |-> b.refcnt, etrs |-> b.etrs, text |-> b.text]
  BY BlkfsFields
<1>2. c = [refcnt |-> [b.refcnt EXCEPT ![i] = n], etrs |-> b.etrs, text |-> b.text]
  BY <1>1 DEF WithCount
<1>3. c.refcnt = [b.refcnt EXCEPT ![i] = n] /\ c.etrs = b.etrs /\ c.text = b.text
  BY <1>2
<1>4. c \in Blkfs
  <2>1. [b.refcnt EXCEPT ![i] = n] \in [Ino -> Nat \cup {NULL}]
    BY <1>1
  <2>2. [refcnt |-> [b.refcnt EXCEPT ![i] = n], etrs |-> b.etrs, text |-> b.text] \in Blkfs
    BY <1>1, <2>1, BlkfsHas, Zenon
  <2> QED
    BY <1>2, <2>2, Zenon
<1> QED
  BY <1>1, <1>3, <1>4

\* b with one more name for file i, in slot s of d.
Linked(b, c, d, s, i, name) ==
  /\ c \in Blkfs /\ c.refcnt[i] = b.refcnt[i] + 1 /\ (\A j \in Ino \ {i} : c.refcnt[j] = b.refcnt[j])
  /\ c.text = b.text
  /\ c.etrs[d][s].name = name /\ c.etrs[d][s].ino = i /\ ~c.etrs[d][s].dir
  /\ \A g \in Ino, r \in Slot : ~(g = d /\ r = s) => c.etrs[g][r] = b.etrs[g][r]

LEMMA LinkedKeeps ==
  ASSUME NEW b, Ok(b), NEW M, MountsInv(b, M), NEW q \in Seq(Name), q # <<>>,
         q[1] \notin Mountable, NEW d, d = Walk(b, q), d # NULL, Slots(b, d, Last(q)) = {},
         NEW e, NEW r, NEW name, NEW i, Found(b, e, r, name, i), ~b.etrs[e][r].dir,
         NEW s \in Slot, IsFirst(s, FreeSlots(b, d)), NEW c, Linked(b, c, d, s, i, Last(q))
  PROVE  Keeps(b, c, M)
<1>1. /\ d \in Ino /\ (d = root \/ DirEntriesOf(b, d) # {})
      /\ d = root => Last(q) \notin Mountable
      /\ \A t \in Slot : MountPoint(b, t) => b.etrs[root][t].ino # d
  BY WalkAllowed DEF MountPoint
<1>2. i # root /\ b.refcnt[i] \in Nat /\ EntriesOf(b, i) # {} /\ DirEntriesOf(b, i) = {} /\ i \in Ino
  <2>1. Cell(e, r) \in EntriesOf(b, i) /\ i # root /\ b.refcnt[i] \in Nat
    BY FoundIs
  <2>2. DirEntriesOf(b, i) = {}
    BY FoundIs
  <2> QED
    BY <2>1, <2>2 DEF Found
<1>3. /\ c \in Blkfs /\ c.refcnt[i] = b.refcnt[i] + 1 /\ \A j \in Ino \ {i} : c.refcnt[j] = b.refcnt[j]
      /\ c.etrs[d][s].name = Last(q) /\ c.etrs[d][s].ino = i /\ ~c.etrs[d][s].dir
  BY DEF Linked
<1>4. Differs(b, c, d, s)
  BY DEF Linked, Differs
<1>5. OneMore(b, c, d, s, i)
  BY <1>2, <1>3 DEF OneMore, CountOne
<1>6. Last(q) \in Name
  BY ParentIs
<1>7. Ok(c) /\ NoneLost(b, c)
  BY <1>1, <1>2, <1>3, <1>4, <1>5, <1>6, Adding
<1>8. \A t \in Slot : MountPoint(b, t) => b.etrs[root][t].name \in M
  BY DEF MountsInv, MountPoint
<1>9. d = root => ~MountPoint(c, s)
  BY <1>1, <1>3 DEF MountPoint
<1>10. MountsInv(c, M)
  BY <1>1, <1>4, <1>7, <1>8, <1>9, MountsKeep
<1> QED
  BY <1>7, <1>10 DEF Keeps

\* b with one name less for file i: the entry in slot s of d.
Unlinked(b, c, d, s, i) ==
  /\ c \in Blkfs /\ c.refcnt[i] = b.refcnt[i] - 1 /\ (\A j \in Ino \ {i} : c.refcnt[j] = b.refcnt[j])
  /\ c.text = b.text
  /\ c.etrs[d][s].name = b.etrs[d][s].name /\ ~valid(c.etrs[d][s])
  /\ \A g \in Ino, r \in Slot : ~(g = d /\ r = s) => c.etrs[g][r] = b.etrs[g][r]

LEMMA UnlinkedKeeps ==
  ASSUME NEW b, Ok(b), NEW M, MountsInv(b, M), NEW p \in Seq(Name), p # <<>>,
         p[1] \notin Mountable, NEW d, d = Walk(b, p), NEW s, NEW name, NEW i,
         Found(b, d, s, name, i), ~b.etrs[d][s].dir, b.refcnt[i] # 0,
         NEW c, Unlinked(b, c, d, s, i)
  PROVE  Keeps(b, c, M)
<1>1. d \in Ino /\ s \in Slot /\ i \in Ino /\ b.etrs[d][s].ino = i /\ d # NULL
  BY Sizes DEF Found
<1>2. \A t \in Slot : MountPoint(b, t) => b.etrs[root][t].ino # d
  BY <1>1, WalkAllowed DEF MountPoint
<1>3. b.refcnt[i] \in Nat
  BY FoundIs
<1>4. /\ c \in Blkfs /\ c.refcnt[i] = b.refcnt[i] - 1 /\ \A j \in Ino \ {i} : c.refcnt[j] = b.refcnt[j]
      /\ c.etrs[d][s].name = b.etrs[d][s].name /\ ~valid(c.etrs[d][s])
  BY DEF Unlinked
<1>5. Differs(b, c, d, s)
  BY DEF Unlinked, Differs
<1>6. OneLess(b, c, i)
  BY <1>3, <1>4 DEF OneLess
<1>7. Ok(c) /\ NoneLost(b, c)
  BY <1>1, <1>4, <1>5, <1>6, Clearing
<1>8. \A t \in Slot : MountPoint(b, t) => b.etrs[root][t].name \in M
  BY DEF MountsInv, MountPoint
<1>9. d = root => ~MountPoint(c, s)
  BY <1>4 DEF MountPoint
<1>10. MountsInv(c, M)
  BY <1>1, <1>2, <1>5, <1>7, <1>8, <1>9, MountsKeep
<1> QED
  BY <1>7, <1>10 DEF Keeps

LEMMA NoMatch ==
  ASSUME NEW b \in Blkfs, NEW q \in Seq(Name), q # <<>>, NEW d, d = Walk(b, q), d \in Ino,
         Lookup(b, q, TRUE) = NULL, Lookup(b, q, FALSE) = NULL
  PROVE  Slots(b, d, Last(q)) = {}
<1> DEFINE s == Match(b, d, Last(q))
<1> SUFFICES ASSUME s # NULL PROVE FALSE
  BY MatchIs
<1>1. s \in Slot /\ s \in Slots(b, d, Last(q))
  BY MatchIs DEF IsFirst
<1>2. valid(b.etrs[d][s]) /\ b.etrs[d][s] \in Entry
  BY <1>1, BlkfsFields DEF Slots
<1>3. b.etrs[d][s].dir \in BOOLEAN /\ b.etrs[d][s].ino # NULL
  BY <1>2, EntryFields DEF valid
<1>4. d # NULL
  BY Sizes
<1>5. b.etrs[d][s].dir # TRUE
  BY <1>3, <1>4, Zenon DEF Lookup
<1>6. b.etrs[d][s].dir # FALSE
  BY <1>3, <1>4, Zenon DEF Lookup
<1> QED
  BY <1>3, <1>5, <1>6

LEMMA NothingKeeps ==
  ASSUME NEW b, Ok(b), NEW M, MountsInv(b, M)
  PROVE  Keeps(b, b, M)
BY DEF Keeps, NoneLost

\* What link does: nothing, or one entry more for the file.
LinkAdds(b, c, d, i, name) ==
  \E s \in Slot : IsFirst(s, FreeSlots(b, d)) /\ Linked(b, c, d, s, i, name)

FileOf(b, i) == \E e, r, name : Found(b, e, r, name, i) /\ ~b.etrs[e][r].dir

LEMMA LinkIs ==
  ASSUME Ok(blkfs), NEW p \in Seq(Name), NEW q \in Seq(Name), q # <<>>,
         NEW d, d = Walk(blkfs, q)
  PROVE  \/ vfslink(p, q) = blkfs
         \/ /\ q[1] \notin Mountable /\ d # NULL
            /\ Lookup(blkfs, q, TRUE) = NULL => Slots(blkfs, d, Last(q)) = {}
            /\ FileOf(blkfs, Lookup(blkfs, p, FALSE))
            /\ LinkAdds(blkfs, vfslink(p, q), d, Lookup(blkfs, p, FALSE), Last(q))
<1> DEFINE b == blkfs
           i == Lookup(b, p, FALSE)
           v == Lookup(b, Parent(q), TRUE)
           more == WithCount(b, i, b.refcnt[i] + 1)
           c == AddEntry(more, v, Last(q), i, FALSE)
<1>1. CASE LinkRefused(p, q) \/ FreeSlots(b, v) = {}
  BY <1>1 DEF vfslink
<1>2. CASE ~LinkRefused(p, q) /\ FreeSlots(b, v) # {}
  <2>1. vfslink(p, q) = c
    BY <1>2 DEF vfslink, WithCount
  <2>2. /\ q[1] \notin Mountable /\ i # NULL /\ v # NULL
        /\ Lookup(b, q, FALSE) = NULL
    BY <1>2 DEF LinkRefused, Denied
  <2>3. b \in Blkfs
    BY DEF Ok
  <2>4. v = Walk(b, q) /\ v = d /\ d \in Ino
    <3>1. v = Walk(b, q) /\ v \in Ino
      BY <2>2, <2>3, LookupParent, Zenon
    <3> QED
      BY <3>1
  <2> DEFINE e == Walk(b, p)
             r == Match(b, e, Last(p))
  <2>5. Found(b, e, r, Last(p), i) /\ b.etrs[e][r].dir = FALSE
    BY <2>2, <2>3, LookupIs, Zenon
  <2>6. Lookup(b, q, TRUE) = NULL => Slots(b, d, Last(q)) = {}
    BY <2>2, <2>3, <2>4, NoMatch, Zenon
  <2> HIDE DEF b, i, v, c, e, r
  <2>7. b.refcnt[i] + 1 \in Nat /\ i \in Ino
    <3>1. b.refcnt[i] \in Nat
      BY <2>5, FoundIs DEF b
    <3> QED
      BY <2>5, <3>1 DEF Found
  <2>8. /\ more \in Blkfs /\ more.refcnt[i] = b.refcnt[i] + 1 /\ more.etrs = b.etrs /\ more.text = b.text
        /\ \A j \in Ino \ {i} : more.refcnt[j] = b.refcnt[j]
    <3> DEFINE n == b.refcnt[i] + 1
    <3>1. n \in Nat \cup {NULL} /\ more = WithCount(b, i, n)
      BY <2>7
    <3> HIDE DEF n, more
    <3>2. /\ more \in Blkfs /\ more.refcnt[i] = n /\ more.etrs = b.etrs /\ more.text = b.text
          /\ \A j \in Ino \ {i} : more.refcnt[j] = b.refcnt[j]
      BY <2>3, <2>7, <3>1, SetCount
    <3> QED
      BY <3>2 DEF n
  <2> HIDE DEF more
  <2>9. FreeSlots(more, d) = FreeSlots(b, d) /\ Last(q) \in Name
    BY <2>8, ParentIs DEF FreeSlots
  <2>10. PICK s \in Slot :
           /\ IsFirst(s, FreeSlots(more, d))
           /\ c \in Blkfs /\ c.refcnt = more.refcnt /\ c.text = more.text
           /\ c.etrs[d][s] = [name |-> Last(q), ino |-> i, dir |-> FALSE]
           /\ \A g \in Ino, t \in Slot : ~(g = d /\ t = s) => c.etrs[g][t] = more.etrs[g][t]
    <3>1. FreeSlots(more, d) # {}
      BY <1>2, <2>4, <2>9 DEF b, v
    <3> DEFINE dir == FALSE
               name == Last(q)
    <3>2. dir \in BOOLEAN /\ name \in Name /\ c = AddEntry(more, d, name, i, dir)
      BY <2>4, <2>9 DEF c
    <3> HIDE DEF dir, name
    <3>3. d \in Ino /\ i \in Ino /\ more \in Blkfs
      BY <2>4, <2>7, <2>8
    <3>4. \E s \in Slot :
           /\ IsFirst(s, FreeSlots(more, d))
           /\ c \in Blkfs /\ c.refcnt = more.refcnt /\ c.text = more.text
           /\ c.etrs[d][s] = [name |-> name, ino |-> i, dir |-> dir]
           /\ \A g \in Ino, t \in Slot : ~(g = d /\ t = s) => c.etrs[g][t] = more.etrs[g][t]
      BY <3>1, <3>2, <3>3, AddEntryIs
    <3> QED
      BY <3>4 DEF dir, name
  <2>11. Linked(b, c, d, s, i, Last(q))
    BY <2>8, <2>10 DEF Linked
  <2>12. LinkAdds(b, c, d, i, Last(q))
    BY <2>9, <2>10, <2>11 DEF LinkAdds
  <2>13. FileOf(b, i) /\ d # NULL
    <3>1. ~b.etrs[e][r].dir
      BY <2>5
    <3> QED
      BY <2>2, <2>4, <2>5, <3>1 DEF FileOf
  <2> QED
    BY <2>1, <2>2, <2>6, <2>12, <2>13 DEF b, i
<1> QED
  BY <1>1, <1>2

LEMMA LinkKeeps ==
  ASSUME Ok(blkfs), NEW M, MountsInv(blkfs, M), NEW p \in Seq(Name), NEW q \in Seq(Name), q # <<>>,
         Lookup(blkfs, q, TRUE) = NULL
  PROVE  Keeps(blkfs, vfslink(p, q), M)
<1> DEFINE b == blkfs
           i == Lookup(b, p, FALSE)
           d == Walk(b, q)
           c == vfslink(p, q)
<1>1. CASE c = b
  BY <1>1, NothingKeeps
<1>2. CASE c # b
  <2>1. /\ q[1] \notin Mountable /\ d # NULL /\ Slots(b, d, Last(q)) = {}
        /\ FileOf(b, i) /\ LinkAdds(b, c, d, i, Last(q))
    BY <1>2, LinkIs, Zenon
  <2>2. Ok(b) /\ MountsInv(b, M) /\ d = Walk(b, q)
    OBVIOUS
  <2> HIDE DEF b, i, d, c
  <2>3. PICK s \in Slot : IsFirst(s, FreeSlots(b, d)) /\ Linked(b, c, d, s, i, Last(q))
    BY <2>1 DEF LinkAdds
  <2>4. PICK e, r, name : Found(b, e, r, name, i) /\ ~b.etrs[e][r].dir
    BY <2>1 DEF FileOf
  <2>5. Keeps(b, c, M)
    BY <2>1, <2>2, <2>3, <2>4, LinkedKeeps
  <2> QED
    BY <2>5 DEF b, c
<1> QED
  BY <1>1, <1>2

\* Whatever the new name is.
LEMMA LinkTyped ==
  ASSUME Ok(blkfs), NEW p \in Seq(Name), NEW q \in Seq(Name), q # <<>>
  PROVE  vfslink(p, q) \in Blkfs /\ vfslink(p, q).refcnt[root] = 0
<1> DEFINE b == blkfs
           i == Lookup(b, p, FALSE)
           d == Walk(b, q)
           c == vfslink(p, q)
<1>1. c = b \/ (FileOf(b, i) /\ LinkAdds(b, c, d, i, Last(q)))
  BY LinkIs, Zenon
<1>2. Ok(b)
  OBVIOUS
<1> SUFFICES c \in Blkfs /\ c.refcnt[root] = 0
  OBVIOUS
<1> HIDE DEF b, i, d, c
<1>3. CASE c = b
  BY <1>2, <1>3 DEF Ok
<1>4. CASE FileOf(b, i) /\ LinkAdds(b, c, d, i, Last(q))
  <2>1. PICK e, r, name : Found(b, e, r, name, i) /\ ~b.etrs[e][r].dir
    BY <1>4 DEF FileOf
  <2>2. i # root
    BY <1>2, <2>1, FoundIs
  <2>3. c \in Blkfs /\ \A j \in Ino \ {i} : c.refcnt[j] = b.refcnt[j]
    BY <1>4 DEF LinkAdds, Linked
  <2> QED
    BY <1>2, <2>2, <2>3, Sizes DEF Ok
<1> QED
  BY <1>1, <1>3, <1>4

\* The first entry with a file's name, valid or not, is the file's.
LEMMA ClearedIs ==
  ASSUME NEW b, Ok(b), NEW d, NEW s, NEW name, NEW i, Found(b, d, s, name, i), ~b.etrs[d][s].dir,
         NEW less, less.etrs = b.etrs
  PROVE  Cleared(less, d, name) = WithEntry(less, d, s, Left(less.etrs[d][s]))
<1> DEFINE found == {r \in Slot : less.etrs[d][r].name = name /\ ~less.etrs[d][r].dir}
<1>1. /\ d \in Ino /\ s \in Slot /\ b.etrs[d][s].name = name /\ valid(b.etrs[d][s])
  BY Sizes DEF Found, valid
<1>2. s \in found /\ found \in SUBSET Nat
  BY <1>1, Sizes
<1>3. \A r \in found : s <= r
  <2> SUFFICES ASSUME NEW r \in found PROVE s <= r
    OBVIOUS
  <2>0. s \in Nat /\ r \in Nat
    BY <1>2
  <2>1. r \in Slot /\ b.etrs[d][r].name = b.etrs[d][s].name
    BY <1>1
  <2>2. r # s => s < r
    BY <1>1, <2>1 DEF Ok, Sound, Distinct
  <2> QED
    BY <2>0, <2>2
<1>4. Cleared(less, d, name) =
        IF found = {} THEN less ELSE [less EXCEPT !.etrs[d][least(found)].ino = NULL]
  BY DEF Cleared
<1> HIDE DEF found
<1>5. least(found) \in found /\ \A r \in found : least(found) <= r
  BY <1>2, LeastIs
<1>6. least(found) = s
  <2>1. s \in Nat /\ least(found) \in Nat
    BY <1>2, <1>5
  <2>2. s <= least(found) /\ least(found) <= s
    BY <1>2, <1>3, <1>5
  <2> QED
    BY <2>1, <2>2
<1>7. Cleared(less, d, name) = [less EXCEPT !.etrs[d][s].ino = NULL]
  BY <1>2, <1>4, <1>6
<1> QED
  BY <1>7, Zenon DEF WithEntry, Left

LEMMA FileFound ==
  ASSUME NEW b, Ok(b), NEW p \in Seq(Name), Lookup(b, p, FALSE) # NULL
  PROVE  /\ p # <<>>
         /\ Found(b, Walk(b, p), Match(b, Walk(b, p), Last(p)), Last(p), Lookup(b, p, FALSE))
         /\ ~b.etrs[Walk(b, p)][Match(b, Walk(b, p), Last(p))].dir
<1>1. b \in Blkfs
  BY DEF Ok
<1>2. b.etrs[Walk(b, p)][Match(b, Walk(b, p), Last(p))].dir = FALSE
  BY <1>1, LookupIs, Zenon
<1>3. p # <<>> /\ Found(b, Walk(b, p), Match(b, Walk(b, p), Last(p)), Last(p), Lookup(b, p, FALSE))
  BY <1>1, LookupIs, Zenon
<1> QED
  BY <1>2, <1>3

\* The count of a file with several names is one less; the entries are as before.
LEMMA LessIs ==
  ASSUME NEW b, Ok(b), NEW d, NEW s, NEW name, NEW i, Found(b, d, s, name, i), b.refcnt[i] # 0,
         NEW less, less = WithCount(b, i, b.refcnt[i] - 1)
  PROVE  /\ less \in Blkfs /\ less.refcnt[i] = b.refcnt[i] - 1 /\ less.etrs = b.etrs /\ less.text = b.text
         /\ \A j \in Ino \ {i} : less.refcnt[j] = b.refcnt[j]
         /\ i # root /\ b.refcnt[i] \in Nat
<1>1. b.refcnt[i] \in Nat /\ i # root /\ b \in Blkfs /\ i \in Ino
  BY FoundIs DEF Ok, Found
<1> DEFINE n == b.refcnt[i] - 1
<1>2. n \in Nat \cup {NULL} /\ less = WithCount(b, i, n)
  BY <1>1
<1> HIDE DEF n
<1>3. /\ less \in Blkfs /\ less.refcnt[i] = n /\ less.etrs = b.etrs /\ less.text = b.text
      /\ \A j \in Ino \ {i} : less.refcnt[j] = b.refcnt[j]
  BY <1>1, <1>2, SetCount
<1> QED
  BY <1>1, <1>3 DEF n

\* What unlink does to a file with several names: one entry less.
UnlinkTakes(b, c, d, i, name) ==
  /\ b.refcnt[i] # 0
  /\ \E s : Found(b, d, s, name, i) /\ ~b.etrs[d][s].dir /\ Unlinked(b, c, d, s, i)

LEMMA UnnamedIs ==
  ASSUME Ok(blkfs), NEW p \in Seq(Name), Lookup(blkfs, p, FALSE) # NULL,
         ~LastName(Lookup(blkfs, p, FALSE)), Lookup(blkfs, Parent(p), TRUE) # NULL
  PROVE  UnlinkTakes(blkfs, Unnamed(p, Lookup(blkfs, p, FALSE)), Walk(blkfs, p), Lookup(blkfs, p, FALSE), Last(p))
<1> DEFINE b == blkfs
           i == Lookup(b, p, FALSE)
           d == Walk(b, p)
           s == Match(b, d, Last(p))
           less == WithCount(b, i, b.refcnt[i] - 1)
           x == Left(less.etrs[d][s])
           c == WithEntry(less, d, s, x)
<1>1. p # <<>> /\ Found(b, d, s, Last(p), i) /\ ~b.etrs[d][s].dir
  BY FileFound
<1>2. Lookup(b, Parent(p), TRUE) = d
  BY <1>1, LookupParent, Zenon DEF Ok
<1>3. Unnamed(p, i) = Cleared(less, d, Last(p))
  <2>1. Lookup(b, Parent(p), TRUE) # NULL
    OBVIOUS
  <2> HIDE DEF d
  <2> QED
    BY <1>2, <2>1, Zenon DEF Unnamed, WithCount
<1>4. Ok(b) /\ b.refcnt[i] # 0
  BY DEF LastName
<1> HIDE DEF b, i, d, s
<1>5. /\ less \in Blkfs /\ less.refcnt[i] = b.refcnt[i] - 1 /\ less.etrs = b.etrs /\ less.text = b.text
      /\ \A j \in Ino \ {i} : less.refcnt[j] = b.refcnt[j]
  BY <1>1, <1>4, LessIs
<1> HIDE DEF less
<1>6. Cleared(less, d, Last(p)) = c
  BY <1>1, <1>4, <1>5, ClearedIs
<1>7. /\ x \in Entry /\ x.ino = NULL /\ x.name = b.etrs[d][s].name
      /\ d \in Ino /\ s \in Slot
  <2>1. b.etrs[d][s] \in Entry /\ less.etrs[d][s] = b.etrs[d][s] /\ d \in Ino /\ s \in Slot
    BY <1>1, <1>4, <1>5, BlkfsFields DEF Ok, Found
  <2> DEFINE e == b.etrs[d][s]
  <2>2. x = [name |-> e.name, ino |-> NULL, dir |-> e.dir]
    BY <2>1, EntryFields DEF Left
  <2> QED
    BY <2>1, <2>2, EntryFields DEF Entry
<1> HIDE DEF x
<1>8. /\ c \in Blkfs /\ c.refcnt = less.refcnt /\ c.etrs[d][s] = x /\ c.text = less.text
      /\ \A g \in Ino, r \in Slot : ~(g = d /\ r = s) => c.etrs[g][r] = less.etrs[g][r]
  BY <1>5, <1>7, SetEntry
<1> HIDE DEF c
<1>9. Unlinked(b, c, d, s, i)
  BY <1>5, <1>7, <1>8 DEF Unlinked, valid
<1>10. UnlinkTakes(b, c, d, i, Last(p))
  BY <1>1, <1>4, <1>9 DEF UnlinkTakes
<1> QED
  BY <1>3, <1>6, <1>10 DEF b, i, d

LEMMA UnnamedKeeps ==
  ASSUME Ok(blkfs), NEW M, MountsInv(blkfs, M), NEW p \in Seq(Name), p[1] \notin Mountable,
         Lookup(blkfs, p, FALSE) # NULL, ~LastName(Lookup(blkfs, p, FALSE)),
         Lookup(blkfs, Parent(p), TRUE) # NULL
  PROVE  Keeps(blkfs, Unnamed(p, Lookup(blkfs, p, FALSE)), M)
<1> DEFINE b == blkfs
           i == Lookup(b, p, FALSE)
           d == Walk(b, p)
           c == Unnamed(p, i)
<1>1. UnlinkTakes(b, c, d, i, Last(p))
  BY UnnamedIs, Zenon
<1>2. Ok(b) /\ MountsInv(b, M) /\ d = Walk(b, p) /\ p # <<>>
  BY FileFound
<1> HIDE DEF b, i, d, c
<1>3. PICK s : /\ Found(b, d, s, Last(p), i) /\ ~b.etrs[d][s].dir /\ b.refcnt[i] # 0
               /\ Unlinked(b, c, d, s, i)
  BY <1>1 DEF UnlinkTakes
<1>4. Keeps(b, c, M)
  BY <1>2, <1>3, UnlinkedKeeps
<1> QED
  BY <1>4 DEF b, c, i

LEMMA UnlinkKeeps ==
  ASSUME Ok(blkfs), NEW M, MountsInv(blkfs, M), NEW p \in Seq(Name), ~UnlinkAsserts(p)
  PROVE  Keeps(blkfs, vfsunlink(p), M)
<1> DEFINE i == Lookup(blkfs, p, FALSE)
<1>1. CASE Denied(p) \/ i = NULL
  BY <1>1, NothingKeeps DEF vfsunlink
<1>2. CASE ~Denied(p) /\ i # NULL /\ LastName(i)
  <2>1. vfsunlink(p) = Remove(blkfs, p, FALSE)
    BY <1>2 DEF vfsunlink
  <2>2. p # <<>> /\ p[1] \notin Mountable /\ blkfs.refcnt[i] = 0
    BY <1>2, FileFound DEF Denied, LastName
  <2>3. Keeps(blkfs, Remove(blkfs, p, FALSE), M)
    BY <2>2, RemoveKeeps, Zenon
  <2> QED
    BY <2>1, <2>3
<1>3. CASE ~Denied(p) /\ i # NULL /\ ~LastName(i)
  <2>1. vfsunlink(p) = Unnamed(p, i)
    BY <1>3 DEF vfsunlink
  <2>2. Lookup(blkfs, Parent(p), TRUE) # NULL /\ p[1] \notin Mountable
    BY <1>3 DEF UnlinkAsserts, Denied
  <2> QED
    BY <1>3, <2>1, <2>2, UnnamedKeeps
<1> QED
  BY <1>1, <1>2, <1>3

\* The assert fails with the count changed and no name cleared.
LEMMA UnlinkHalts ==
  ASSUME Ok(blkfs), NEW p \in Seq(Name), UnlinkAsserts(p)
  PROVE  vfsunlink(p) \in Blkfs /\ vfsunlink(p).refcnt[root] = 0
<1> DEFINE b == blkfs
           i == Lookup(b, p, FALSE)
           d == Walk(b, p)
           s == Match(b, d, Last(p))
           less == WithCount(b, i, b.refcnt[i] - 1)
<1>1. Found(b, d, s, Last(p), i) /\ b.refcnt[i] # 0
  BY FileFound DEF UnlinkAsserts, LastName
<1>2. vfsunlink(p) = less
  BY Zenon DEF UnlinkAsserts, vfsunlink, Unnamed, WithCount
<1>3. Ok(b)
  OBVIOUS
<1> HIDE DEF b, i, d, s
<1>4. /\ less \in Blkfs /\ i # root /\ \A j \in Ino \ {i} : less.refcnt[j] = b.refcnt[j]
  BY <1>1, <1>3, LessIs
<1> HIDE DEF less
<1>5. less.refcnt[root] = 0
  BY <1>3, <1>4, Sizes DEF Ok
<1> QED
  BY <1>2, <1>4, <1>5

-----------------------------------------------------------------------------
(* Text.                                                                     *)

LEMMA StoredIs ==
  ASSUME NEW b \in Blkfs, NEW i \in Ino, NEW t, t \in Text \cup {EMPTY}, NEW c, c = Stored(b, i, t)
  PROVE  c \in Blkfs /\ c.refcnt = b.refcnt /\ c.etrs = b.etrs
<1>1. /\ b.refcnt \in [Ino -> Nat \cup {NULL}] /\ b.etrs \in [Ino -> [Slot -> Entry]]
      /\ b.text \in [Ino -> Text \cup {EMPTY}]
      /\ b = [refcnt |-> b.refcnt, etrs |-> b.etrs, text |-> b.text]
  BY BlkfsFields
<1>2. c = [refcnt |-> b.refcnt, etrs |-> b.etrs, text |-> [b.text EXCEPT ![i] = t]]
  BY <1>1 DEF Stored
<1>3. c.refcnt = b.refcnt /\ c.etrs = b.etrs
  BY <1>2
<1>4. c \in Blkfs
  <2>1. [b.text EXCEPT ![i] = t] \in [Ino -> Text \cup {EMPTY}]
    BY <1>1
  <2>2. [refcnt |-> b.refcnt, etrs |-> b.etrs, text |-> [b.text EXCEPT ![i] = t]] \in Blkfs
    BY <1>1, <2>1, BlkfsHas, Zenon
  <2> QED
    BY <1>2, <2>2, Zenon
<1> QED
  BY <1>3, <1>4

LEMMA StoredKeeps ==
  ASSUME NEW b, NEW c, NEW M, Keeps(b, c, M), NEW i \in Ino, NEW t, t \in Text \cup {EMPTY}
  PROVE  Keeps(b, Stored(c, i, t), M)
<1> DEFINE e == Stored(c, i, t)
<1>1. c \in Blkfs /\ Ok(c) /\ MountsInv(c, M) /\ (NoneLost(b, c) \/ Full(b))
  BY DEF Keeps, Ok
<1>2. e \in Blkfs /\ e.refcnt = c.refcnt /\ e.etrs = c.etrs
  BY <1>1, StoredIs
<1> HIDE DEF e
<1>3. Ok(e) /\ MountsInv(e, M) /\ (NoneLost(b, c) => NoneLost(b, e))
  BY <1>1, <1>2, SameNames
<1>4. Keeps(b, e, M)
  BY <1>1, <1>3 DEF Keeps
<1> QED
  BY <1>4 DEF e

-----------------------------------------------------------------------------
(* What the properties say, of a disk.                                       *)

NamesIn(b, i) == {e \in (Ino \X Slot) : /\ b.refcnt[e[1]] # NULL
                                        /\ b.etrs[e[1]][e[2]].ino = i}
NamelessIn(b, i) == i # root /\ b.refcnt[i] # NULL /\ NamesIn(b, i) = {}

NoneNameless(b, c) == \A i \in Ino : NamelessIn(c, i) => NamelessIn(b, i)

\* An entry that is valid is in a directory that is in use.
LEMMA NamesAre ==
  ASSUME NEW b, Ok(b), NEW i \in Ino
  PROVE  NamesIn(b, i) = EntriesOf(b, i)
<1>1. NamesIn(b, i) \subseteq EntriesOf(b, i)
  BY DEF NamesIn, EntriesOf
<1>2. ASSUME NEW d \in Ino, NEW s \in Slot, b.etrs[d][s].ino = i
      PROVE  b.refcnt[d] # NULL
  <2>1. valid(b.etrs[d][s])
    BY <1>2, Sizes DEF valid
  <2>2. d = root \/ DirEntriesOf(b, d) # {}
    BY <2>1 DEF Ok, Sound, Rooted
  <2>3. DirEntriesOf(b, d) \subseteq EntriesOf(b, d)
    BY EntriesFinite
  <2>4. b.refcnt[root] # NULL
    BY Sizes DEF Ok
  <2> QED
    BY <2>2, <2>3, <2>4, Unused
<1>3. EntriesOf(b, i) \subseteq NamesIn(b, i)
  BY <1>2 DEF NamesIn, EntriesOf
<1> QED
  BY <1>1, <1>3

LEMMA NamelessAre ==
  ASSUME NEW b, Ok(b), NEW c, Ok(c), NoneLost(b, c)
  PROVE  NoneNameless(b, c)
<1> SUFFICES ASSUME NEW i \in Ino, NamelessIn(c, i) PROVE NamelessIn(b, i)
  BY DEF NoneNameless
<1>1. NamesIn(b, i) = EntriesOf(b, i) /\ NamesIn(c, i) = EntriesOf(c, i)
  BY NamesAre
<1> QED
  BY <1>1 DEF NamelessIn, NoneLost

LEMMA NamelessSame ==
  ASSUME NEW b, NEW c, c.etrs = b.etrs, \A j \in Ino : c.refcnt[j] = NULL <=> b.refcnt[j] = NULL
  PROVE  NoneNameless(b, c)
<1>1. \A i \in Ino : NamesIn(c, i) = NamesIn(b, i)
  BY DEF NamesIn
<1> QED
  BY <1>1 DEF NoneNameless, NamelessIn

-----------------------------------------------------------------------------
(* The steps.                                                                *)

\* What every step keeps.
StepKeeps == IInv' /\ (intact' => NoneNameless(blkfs, blkfs') \/ Full(blkfs))

LEMMA Running ==
  ASSUME IInv, ended = NULL
  PROVE  Ok(blkfs) /\ MountsInv(blkfs, mnt) /\ TypeOK
<1>1. intact
  BY VfsAssumption DEF intact, Spoilt
<1> QED
  BY <1>1 DEF IInv, TypeOK, Ok

LEMMA KeepsStep ==
  ASSUME IInv, ended = NULL, Keeps(blkfs, blkfs', mnt'), mnt' \subseteq Mountable,
         fildes' \in 2..NFILE, ended' \in {NULL, "cmd_echo", "dev_lookup"} \cup Spoilt
  PROVE  StepKeeps
<1>1. Ok(blkfs) /\ Ok(blkfs') /\ MountsInv(blkfs', mnt')
  BY Running DEF Keeps
<1>2. IInv'
  BY <1>1 DEF IInv, TypeOK, Ok
<1>3. NoneNameless(blkfs, blkfs') \/ Full(blkfs)
  BY <1>1, NamelessAre DEF Keeps
<1> QED
  BY <1>2, <1>3 DEF StepKeeps

\* Once the disk is spoilt only the types are left.
LEMMA SpoiltKeeps ==
  ASSUME IInv, NEW c \in Blkfs, c.refcnt[root] = 0, NEW where \in Spoilt, Ends(c, where)
  PROVE  StepKeeps
<1>1. blkfs' = c /\ ended' = where /\ mnt' = mnt /\ fildes' = fildes
  BY DEF Ends
<1>2. ~intact'
  BY <1>1 DEF intact
<1>3. TypeOK'
  BY <1>1 DEF IInv, TypeOK
<1> QED
  BY <1>2, <1>3 DEF StepKeeps, IInv

LEMMA BecomesKeeps ==
  ASSUME IInv, NEW c, Becomes(c), Keeps(blkfs, c, mnt)
  PROVE  StepKeeps
<1>1. /\ ended = NULL /\ blkfs' = c /\ mnt' = mnt /\ fildes' = fildes /\ ended' = ended
  BY DEF Becomes
<1>2. Keeps(blkfs, blkfs', mnt')
  BY <1>1
<1> QED
  BY <1>1, <1>2, KeepsStep DEF IInv, TypeOK

\* Nothing is done to the disk.
LEMMA SameKeeps ==
  ASSUME IInv, ended = NULL, blkfs' = blkfs, mnt' = mnt, fildes' \in 2..NFILE,
         ended' \in {NULL, "cmd_echo", "dev_lookup"} \cup Spoilt
  PROVE  StepKeeps
<1>1. Keeps(blkfs, blkfs', mnt')
  BY Running, NothingKeeps
<1> QED
  BY <1>1, KeepsStep DEF IInv, TypeOK

LEMMA Allowed ==
  ASSUME NEW p \in Path
  PROVE  p \in Seq(Name) /\ p # <<>> /\ (~Denied(p) => p[1] \notin Mountable)
BY PathType DEF Denied

LEMMA MkdirStep ==
  ASSUME IInv, NEW p \in Path, cmd_mkdir(p) PROVE StepKeeps
<1>1. Ok(blkfs) /\ MountsInv(blkfs, mnt)
  BY Running DEF cmd_mkdir, Becomes
<1>2. Keeps(blkfs, vfsmkdir(p), mnt)
  <2>1. CASE vfsmkdir(p) = blkfs
    BY <1>1, <2>1, NothingKeeps
  <2>2. CASE vfsmkdir(p) # blkfs
    <3>1. ~Denied(p) /\ vfsmkdir(p) = Create(blkfs, p, TRUE).fs
      BY <2>2 DEF vfsmkdir
    <3>2. p \in Seq(Name) /\ p # <<>> /\ p[1] \notin Mountable
      BY <3>1, Allowed
    <3>3. Keeps(blkfs, Create(blkfs, p, TRUE).fs, mnt)
      BY <1>1, <3>2, CreateKeeps, Zenon
    <3> QED
      BY <3>1, <3>3
  <2> QED
    BY <2>1, <2>2
<1> QED
  BY <1>2, BecomesKeeps DEF cmd_mkdir

LEMMA RmdirStep ==
  ASSUME IInv, NEW p \in Path, cmd_rmdir(p) PROVE StepKeeps
<1>1. Ok(blkfs) /\ MountsInv(blkfs, mnt)
  BY Running DEF cmd_rmdir, Becomes
<1>2. Keeps(blkfs, vfsrmdir(p), mnt)
  <2>1. CASE Denied(p)
    BY <1>1, <2>1, NothingKeeps DEF vfsrmdir
  <2>2. CASE ~Denied(p)
    <3>1. p \in Seq(Name) /\ p # <<>> /\ p[1] \notin Mountable
      BY <2>2, Allowed
    <3>2. Keeps(blkfs, Remove(blkfs, p, TRUE), mnt)
      BY <1>1, <3>1, RemoveKeeps, Zenon
    <3> QED
      BY <2>2, <3>2 DEF vfsrmdir
  <2> QED
    BY <2>1, <2>2
<1> QED
  BY <1>2, BecomesKeeps DEF cmd_rmdir

LEMMA RmStep ==
  ASSUME IInv, NEW p \in Path, cmd_rm(p) PROVE StepKeeps
<1>1. ended = NULL
  BY DEF cmd_rm, Becomes, Ends
<1>2. Ok(blkfs) /\ MountsInv(blkfs, mnt) /\ p \in Seq(Name)
  BY <1>1, Running, Allowed
<1>3. CASE UnlinkAsserts(p)
  <2>1. Ends(vfsunlink(p), "vfsunlink") /\ "vfsunlink" \in Spoilt
    BY <1>3 DEF cmd_rm, Spoilt
  <2>2. vfsunlink(p) \in Blkfs /\ vfsunlink(p).refcnt[root] = 0
    BY <1>2, <1>3, UnlinkHalts
  <2> QED
    BY <2>1, <2>2, SpoiltKeeps
<1>4. CASE ~UnlinkAsserts(p)
  <2>1. Keeps(blkfs, vfsunlink(p), mnt)
    BY <1>2, <1>4, UnlinkKeeps
  <2>2. Becomes(vfsunlink(p))
    BY <1>4 DEF cmd_rm
  <2> QED
    BY <2>1, <2>2, BecomesKeeps
<1> QED
  BY <1>3, <1>4

LEMMA LinkStep ==
  ASSUME IInv, NEW p \in Path, NEW q \in Path, cmd_link(p, q) PROVE StepKeeps
<1>1. ended = NULL
  BY DEF cmd_link, Becomes, Ends
<1>2. Ok(blkfs) /\ MountsInv(blkfs, mnt)
  BY <1>1, Running
<1>3. p \in Seq(Name) /\ q \in Seq(Name) /\ q # <<>>
  BY Allowed
<1>4. CASE Lookup(blkfs, q, TRUE) = NULL
  <2>1. Keeps(blkfs, vfslink(p, q), mnt)
    BY <1>2, <1>3, <1>4, LinkKeeps
  <2>2. Becomes(vfslink(p, q))
    BY <1>4 DEF cmd_link
  <2> QED
    BY <2>1, <2>2, BecomesKeeps
<1>5. CASE Lookup(blkfs, q, TRUE) # NULL
  <2>1. Ends(vfslink(p, q), "vfslink") /\ "vfslink" \in Spoilt
    BY <1>5 DEF cmd_link, Spoilt
  <2>2. vfslink(p, q) \in Blkfs /\ vfslink(p, q).refcnt[root] = 0
    BY <1>2, <1>3, LinkTyped
  <2> QED
    BY <2>1, <2>2, SpoiltKeeps
<1> QED
  BY <1>4, <1>5

LEMMA TouchStep ==
  ASSUME IInv, NEW p \in Path, cmd_touch(p) PROVE StepKeeps
<1>1. Ok(blkfs) /\ MountsInv(blkfs, mnt)
  BY Running DEF cmd_touch, Becomes
<1>2. p \in Seq(Name) /\ p # <<>> /\ p[1] \notin Mountable
  BY Allowed DEF cmd_touch
<1>3. Keeps(blkfs, Create(blkfs, p, FALSE).fs, mnt)
  BY <1>1, <1>2, CreateKeeps, Zenon
<1> QED
  BY <1>3, BecomesKeeps DEF cmd_touch

LEMMA EchoOverStep ==
  ASSUME IInv, NEW p \in Path, NEW t \in Text, EchoOver(p, t) PROVE StepKeeps
<1> DEFINE i == Lookup(blkfs, p, FALSE)
<1>0. ended = NULL
  BY DEF EchoOver, Becomes, Ends
<1>1. Ok(blkfs) /\ MountsInv(blkfs, mnt) /\ p \in Seq(Name)
  BY <1>0, Running, Allowed
<1>2. i \in Ino
  BY <1>1, FileFound DEF EchoOver, Found
<1>3. CASE CanOpen(1)
  <2>1. Keeps(blkfs, blkfs, mnt)
    BY <1>1, NothingKeeps
  <2>2. t \in Text \cup {EMPTY}
    OBVIOUS
  <2>3. Keeps(blkfs, Stored(blkfs, i, t), mnt)
    BY <1>2, <2>1, <2>2, StoredKeeps
  <2>4. Becomes(Stored(blkfs, i, t))
    BY <1>3 DEF EchoOver
  <2> QED
    BY <2>3, <2>4, BecomesKeeps
<1>4. CASE ~CanOpen(1)
  <2>1. Ends(blkfs, "cmd_echo")
    BY <1>4 DEF EchoOver
  <2>2. /\ blkfs' = blkfs /\ mnt' = mnt /\ fildes' \in 2..NFILE
        /\ ended' \in {NULL, "cmd_echo", "dev_lookup"} \cup Spoilt
    BY <2>1 DEF Ends, IInv, TypeOK
  <2> QED
    BY <1>0, <2>2, SameKeeps
<1> QED
  BY <1>3, <1>4

\* A file is created, if it can be, and written, if it can be opened.
LEMMA CreateWriteKeeps ==
  ASSUME Ok(blkfs), MountsInv(blkfs, mnt), NEW p \in Path, ~Denied(p),
         NEW t, t \in Text \cup {EMPTY},
         NEW res, res = Create(blkfs, p, FALSE), NEW c, c = Stored(res.fs, res.ino, t) \/ c = res.fs,
         c = res.fs \/ res.ino # NULL
  PROVE  Keeps(blkfs, c, mnt)
<1>1. p \in Seq(Name) /\ p # <<>> /\ p[1] \notin Mountable
  BY Allowed
<1>2. Keeps(blkfs, res.fs, mnt) /\ res.ino \in Ino \cup {NULL}
  BY <1>1, CreateKeeps, Zenon
<1>3. CASE c = res.fs
  BY <1>2, <1>3
<1>4. CASE c = Stored(res.fs, res.ino, t) /\ res.ino # NULL
  <2>1. res.ino \in Ino
    BY <1>2, <1>4
  <2>2. Keeps(blkfs, Stored(res.fs, res.ino, t), mnt)
    BY <1>2, <2>1, StoredKeeps
  <2> QED
    BY <1>4, <2>2
<1> QED
  BY <1>3, <1>4

LEMMA EchoNewStep ==
  ASSUME IInv, NEW p \in Path, NEW t \in Text, EchoNew(p, t) PROVE StepKeeps
<1> DEFINE res == Create(blkfs, p, FALSE)
           c == IF res.ino # NULL /\ CanOpen(1) THEN Stored(res.fs, res.ino, t) ELSE res.fs
<1>1. ~Denied(p) /\ Becomes(c)
  BY DEF EchoNew
<1>2. /\ c = Stored(res.fs, res.ino, t) \/ c = res.fs
      /\ c = res.fs \/ res.ino # NULL
  <2> HIDE DEF res
  <2> QED
    OBVIOUS
<1> HIDE DEF c
<1>3. Ok(blkfs) /\ MountsInv(blkfs, mnt) /\ t \in Text \cup {EMPTY}
  BY <1>1, Running DEF Becomes
<1>4. Keeps(blkfs, c, mnt)
  BY <1>1, <1>2, <1>3, CreateWriteKeeps
<1> QED
  BY <1>1, <1>4, BecomesKeeps

LEMMA CatStep ==
  ASSUME IInv, NEW p \in Path, NEW q \in Path, cmd_cat(p, q) PROVE StepKeeps
<1> DEFINE res == Create(blkfs, q, FALSE)
           i == Lookup(blkfs, p, FALSE)
           t == blkfs.text[i]
           c == IF res.ino # NULL /\ CanOpen(2) THEN Stored(res.fs, res.ino, t) ELSE res.fs
<1>1. ~Denied(q) /\ i # NULL /\ Becomes(c)
  BY DEF cmd_cat
<1>2. /\ c = Stored(res.fs, res.ino, t) \/ c = res.fs
      /\ c = res.fs \/ res.ino # NULL
  <2> HIDE DEF res, t
  <2> QED
    OBVIOUS
<1> HIDE DEF c
<1>3. Ok(blkfs) /\ MountsInv(blkfs, mnt) /\ p \in Seq(Name)
  BY <1>1, Running, Allowed DEF Becomes
<1>4. t \in Text \cup {EMPTY}
  <2>1. i \in Ino
    BY <1>1, <1>3, FileFound DEF Found
  <2> HIDE DEF i
  <2> QED
    BY <1>3, <2>1, BlkfsFields DEF Ok
<1> HIDE DEF t
<1>5. Keeps(blkfs, c, mnt)
  BY <1>1, <1>2, <1>3, <1>4, CreateWriteKeeps
<1> QED
  BY <1>1, <1>5, BecomesKeeps

LEMMA CatOtherStep ==
  ASSUME IInv, NEW q \in Path, CatOther(q) PROVE StepKeeps
<1> DEFINE res == Create(blkfs, q, FALSE)
           written(t) == IF res.ino # NULL /\ CanOpen(2) THEN Stored(res.fs, res.ino, t) ELSE res.fs
<1>1. ~Denied(q) /\ \E t \in Text \cup {EMPTY} : Becomes(written(t))
  BY DEF CatOther
<1>2. PICK t : t \in Text \cup {EMPTY} /\ Becomes(written(t))
  BY <1>1
<1> DEFINE c == written(t)
<1>3. /\ c = Stored(res.fs, res.ino, t) \/ c = res.fs
      /\ c = res.fs \/ res.ino # NULL
  <2> HIDE DEF res
  <2> QED
    OBVIOUS
<1>4. Becomes(c)
  BY <1>2
<1> HIDE DEF c
<1>5. Ok(blkfs) /\ MountsInv(blkfs, mnt)
  BY <1>4, Running DEF Becomes
<1>6. Keeps(blkfs, c, mnt)
  BY <1>1, <1>2, <1>3, <1>5, CreateWriteKeeps
<1> QED
  BY <1>4, <1>6, BecomesKeeps

LEMMA CatDeviceStep ==
  ASSUME IInv, NEW q \in Path, CatDevice(q) PROVE StepKeeps
<1>1. Ok(blkfs) /\ MountsInv(blkfs, mnt)
  BY Running DEF CatDevice, Becomes
<1>2. q \in Seq(Name) /\ q # <<>> /\ q[1] \notin Mountable
  BY Allowed DEF CatDevice
<1>3. Keeps(blkfs, Create(blkfs, q, FALSE).fs, mnt)
  BY <1>1, <1>2, CreateKeeps, Zenon
<1> QED
  BY <1>3, BecomesKeeps DEF CatDevice

LEMMA CatOverStep ==
  ASSUME IInv, NEW p \in Path, CatOver(p) PROVE StepKeeps
<1> DEFINE c == [blkfs EXCEPT !.etrs[root] = NoEntries]
<1>1. Ends(c, "cmd_cat") /\ "cmd_cat" \in Spoilt
  BY DEF CatOver, Spoilt
<1>2. /\ blkfs.refcnt \in [Ino -> Nat \cup {NULL}] /\ blkfs.etrs \in [Ino -> [Slot -> Entry]]
      /\ blkfs.text \in [Ino -> Text \cup {EMPTY}] /\ blkfs.refcnt[root] = 0
      /\ blkfs = [refcnt |-> blkfs.refcnt, etrs |-> blkfs.etrs, text |-> blkfs.text]
  BY BlkfsFields DEF IInv, TypeOK
<1> DEFINE etrs == [blkfs.etrs EXCEPT ![root] = NoEntries]
<1>3. c = [refcnt |-> blkfs.refcnt, etrs |-> etrs, text |-> blkfs.text]
  BY <1>2
<1>4. etrs \in [Ino -> [Slot -> Entry]]
  BY <1>2, NoEntryType
<1> HIDE DEF etrs
<1>5. [refcnt |-> blkfs.refcnt, etrs |-> etrs, text |-> blkfs.text] \in Blkfs
  BY <1>2, <1>4, BlkfsHas, Zenon
<1>6. c.refcnt = blkfs.refcnt
  BY <1>3
<1> HIDE DEF c
<1>7. c \in Blkfs /\ c.refcnt[root] = 0
  BY <1>2, <1>3, <1>5, <1>6
<1> QED
  BY <1>1, <1>7, SpoiltKeeps

LEMMA RootPath ==
  ASSUME NEW m \in Mountable
  PROVE  /\ <<m>> \in Seq(Name) /\ <<m>> # <<>> /\ Len(<<m>>) = 1 /\ <<m>>[1] = m
BY VfsAssumption

LEMMA MntStep ==
  ASSUME IInv, NEW m \in Mountable, cmd_mnt(m) PROVE StepKeeps
<1>1. /\ ended = NULL /\ m \notin mnt /\ mnt' = mnt \cup {m}
      /\ blkfs' = Create(blkfs, <<m>>, TRUE).fs /\ fildes' = fildes /\ ended' = ended
  BY DEF cmd_mnt
<1>2. Ok(blkfs) /\ MountsInv(blkfs, mnt) /\ TypeOK
  BY <1>1, Running
<1> DEFINE p == <<m>>
<1>3. p \in Seq(Name) /\ p # <<>> /\ Len(p) = 1 /\ p[1] = m
  BY RootPath
<1>4. Keeps(blkfs, Create(blkfs, p, TRUE).fs, mnt')
  <2> HIDE DEF p
  <2> QED
    BY <1>1, <1>2, <1>3, MountKeeps, Zenon
<1>5. Keeps(blkfs, blkfs', mnt')
  BY <1>1, <1>4, Zenon
<1>6. mnt' \subseteq Mountable /\ fildes' \in 2..NFILE /\ ended' \in {NULL, "cmd_echo", "dev_lookup"} \cup Spoilt
  BY <1>1, <1>2 DEF TypeOK
<1> QED
  BY <1>1, <1>5, <1>6, KeepsStep

LEMMA UnmntStep ==
  ASSUME IInv, NEW m \in Mountable, cmd_unmnt(m) PROVE StepKeeps
<1>1. /\ ended = NULL /\ mnt' = mnt \ {m}
      /\ blkfs' = Remove(blkfs, <<m>>, TRUE) /\ fildes' = fildes /\ ended' = ended
  BY DEF cmd_unmnt
<1>2. Ok(blkfs) /\ MountsInv(blkfs, mnt) /\ TypeOK
  BY <1>1, Running
<1> DEFINE p == <<m>>
<1>3. p \in Seq(Name) /\ p # <<>> /\ Len(p) = 1 /\ p[1] = m
  BY RootPath
<1>4. Keeps(blkfs, Remove(blkfs, p, TRUE), mnt')
  <2> HIDE DEF p
  <2> QED
    BY <1>1, <1>2, <1>3, UnmountKeeps, Zenon
<1>5. Keeps(blkfs, blkfs', mnt')
  BY <1>1, <1>4, Zenon
<1>6. mnt' \subseteq Mountable /\ fildes' \in 2..NFILE /\ ended' \in {NULL, "cmd_echo", "dev_lookup"} \cup Spoilt
  BY <1>1, <1>2 DEF TypeOK
<1> QED
  BY <1>1, <1>5, <1>6, KeepsStep

LEMMA EchoDeviceStep ==
  ASSUME IInv, NEW m \in Mountable, EchoDevice(m) PROVE StepKeeps
<1>1. NFILE \in Nat /\ fildes \in 2..NFILE
  BY VfsAssumption DEF IInv, TypeOK
<1>2. fildes' \in 2..NFILE
  BY <1>1 DEF EchoDevice, CanOpen
<1>3. /\ ended = NULL /\ blkfs' = blkfs /\ mnt' = mnt
      /\ ended' \in {NULL, "cmd_echo", "dev_lookup"} \cup Spoilt
  BY DEF EchoDevice
<1> QED
  BY <1>2, <1>3, SameKeeps

LEMMA EchoRefusedStep ==
  ASSUME IInv, EchoRefused PROVE StepKeeps
<1>1. /\ ended = NULL /\ blkfs' = blkfs /\ mnt' = mnt /\ fildes' \in 2..NFILE
      /\ ended' \in {NULL, "cmd_echo", "dev_lookup"} \cup Spoilt
  BY DEF EchoRefused, Ends, IInv, TypeOK
<1> QED
  BY <1>1, SameKeeps

LEMMA EchoDiskStep ==
  ASSUME IInv, EchoDisk PROVE StepKeeps
<1>1. NFILE \in Nat /\ fildes \in 2..NFILE
  BY VfsAssumption DEF IInv, TypeOK
<1>2. fildes' \in 2..NFILE
  BY <1>1 DEF EchoDisk, CanOpen
<1>3. /\ ended = NULL /\ blkfs' = blkfs /\ mnt' = mnt
      /\ ended' \in {NULL, "cmd_echo", "dev_lookup"} \cup Spoilt
  BY DEF EchoDisk, Spoilt
<1> QED
  BY <1>2, <1>3, SameKeeps

-----------------------------------------------------------------------------
(* The start.                                                                *)

\* Each of the first slots is some mount's.
LEMMA OrderOnto ==
  ASSUME NEW order \in [Mountable -> Slot],
         \A m, n \in Mountable : order[m] = order[n] => m = n,
         \A m \in Mountable : order[m] < Cardinality(Mountable),
         NEW s \in Slot, s < Cardinality(Mountable)
  PROVE  \E m \in Mountable : order[m] = s
<1> DEFINE K == Cardinality(Mountable)
           T == (0..(K - 1)) \ {s}
<1> SUFFICES ASSUME \A m \in Mountable : order[m] # s PROVE FALSE
  OBVIOUS
<1>1. K \in Nat /\ s \in Nat /\ IsFiniteSet(Mountable)
  BY Sizes, VfsAssumption
<1> HIDE DEF K
<1>2. 0 \in Int /\ K - 1 \in Int /\ s \in 0..(K - 1)
  BY <1>1 DEF K
<1>3. IsFiniteSet(0..(K - 1)) /\ Cardinality(0..(K - 1)) = K
  <2>1. /\ IsFiniteSet(0..(K - 1))
        /\ Cardinality(0..(K - 1)) = IF 0 > K - 1 THEN 0 ELSE (K - 1) - 0 + 1
    BY <1>2, FS_Interval
  <2> QED
    BY <1>1, <1>2, <2>1
<1>4. IsFiniteSet(T) /\ Cardinality(T) = K - 1
  BY <1>2, <1>3, FS_RemoveElement
<1>5. \A m \in Mountable : order[m] \in T
  <2> SUFFICES ASSUME NEW m \in Mountable PROVE order[m] \in T
    OBVIOUS
  <2>1. order[m] \in Nat /\ order[m] < K /\ order[m] # s
    BY Sizes DEF K
  <2> QED
    BY <1>1, <2>1
<1> HIDE DEF T
<1>6. Cardinality(T) < Cardinality(Mountable)
  BY <1>1, <1>4 DEF K
<1>7. order \in [Mountable -> T]
  BY <1>5
<1>8. \E m, n \in Mountable : m # n /\ order[m] = order[n]
  BY <1>1, <1>4, <1>6, <1>7, FS_PigeonHole
<1> QED
  BY <1>8

\* What Init says of the disk, slot by slot.
Begun(b) ==
  /\ b \in Blkfs
  /\ \A i \in Ino : b.refcnt[i] = IF i <= Cardinality(Mountable) THEN 0 ELSE NULL
  /\ \A i \in Ino : b.text[i] = EMPTY
  /\ \A s \in Slot : s < Cardinality(Mountable) =>
       /\ b.etrs[root][s].ino = s + 1 /\ b.etrs[root][s].dir /\ b.etrs[root][s].name \in Mountable
  /\ \A s \in Slot : s >= Cardinality(Mountable) => b.etrs[root][s] = NoEntry
  /\ \A i \in Ino \ {root}, s \in Slot : b.etrs[i][s] = NoEntry
  /\ \A s, r \in Slot :
       s < Cardinality(Mountable) /\ r < Cardinality(Mountable) =>
         (b.etrs[root][s].name = b.etrs[root][r].name => s = r)

LEMMA InitBegun == ASSUME Init PROVE Begun(blkfs)
<1> DEFINE K == Cardinality(Mountable)
<1>0. PICK order \in [Mountable -> Slot] :
       /\ \A m, n \in Mountable : order[m] = order[n] => m = n
       /\ \A m \in Mountable : order[m] < Cardinality(Mountable)
       /\ blkfs = [Formatted EXCEPT
            !.refcnt = [i \in Ino |-> IF i <= Cardinality(Mountable) THEN 0 ELSE NULL],
            !.etrs[root] = [s \in Slot |->
               IF s >= Cardinality(Mountable) THEN NoEntry
               ELSE [ino |-> s + 1, dir |-> TRUE,
                     name |-> CHOOSE m \in Mountable : order[m] = s]]]
  BY DEF Init
<1> DEFINE name(s) == CHOOSE m \in Mountable : order[m] = s
           entry(s) == [ino |-> s + 1, dir |-> TRUE, name |-> name(s)]
           refcnt == [i \in Ino |-> IF i <= K THEN 0 ELSE NULL]
           slots == [s \in Slot |-> IF s >= K THEN NoEntry ELSE entry(s)]
           etrs == [[i \in Ino |-> NoEntries] EXCEPT ![root] = slots]
           text == [i \in Ino |-> EMPTY]
<1>1. blkfs = [refcnt |-> refcnt, etrs |-> etrs, text |-> text]
  BY <1>0 DEF Formatted
<1>2. K \in Nat /\ NINODES > K /\ NINODES \in Nat /\ root \in Ino /\ \A s \in Slot : s \in Nat
  BY Sizes
<1> HIDE DEF K
<1>3. \A s \in Slot : s < K => name(s) \in Mountable /\ order[name(s)] = s
  <2> SUFFICES ASSUME NEW s \in Slot, s < K PROVE name(s) \in Mountable /\ order[name(s)] = s
    OBVIOUS
  <2>1. \E m \in Mountable : order[m] = s
    BY <1>0, OrderOnto DEF K
  <2> QED
    BY <2>1
<1> HIDE DEF name
<1>4. \A s \in Slot : s < K => entry(s) \in Entry /\ entry(s).ino = s + 1 /\ entry(s).dir
                               /\ entry(s).name = name(s)
  <2> SUFFICES ASSUME NEW s \in Slot, s < K
               PROVE  entry(s) \in Entry /\ entry(s).ino = s + 1 /\ entry(s).dir
                      /\ entry(s).name = name(s)
    OBVIOUS
  <2>1. s + 1 \in Ino
    BY <1>2 DEF Ino
  <2>2. name(s) \in Name
    BY <1>3, VfsAssumption
  <2> QED
    BY <2>1, <2>2 DEF Entry
<1> HIDE DEF entry
<1>5. \A s \in Slot : /\ s < K => slots[s] = entry(s)
                      /\ s >= K => slots[s] = NoEntry
  BY <1>2
<1>6. slots \in [Slot -> Entry]
  BY <1>2, <1>4, NoEntryType
<1> HIDE DEF slots
<1>7. etrs[root] = slots /\ \A i \in Ino \ {root}, s \in Slot : etrs[i][s] = NoEntry
  BY <1>2, NoEntryType
<1>8. etrs \in [Ino -> [Slot -> Entry]]
  BY <1>6, NoEntryType
<1> HIDE DEF etrs
<1>9. refcnt \in [Ino -> Nat \cup {NULL}] /\ text \in [Ino -> Text \cup {EMPTY}]
  OBVIOUS
<1>10. blkfs \in Blkfs
  <2> HIDE DEF refcnt, text
  <2> QED
    BY <1>1, <1>8, <1>9, BlkfsHas, Zenon
<1>11. blkfs.refcnt = refcnt /\ blkfs.etrs = etrs /\ blkfs.text = text
  <2> HIDE DEF refcnt, text
  <2> QED
    BY <1>1
<1>12. \A i \in Ino : blkfs.refcnt[i] = IF i <= K THEN 0 ELSE NULL
  BY <1>11
<1>22. \A i \in Ino : blkfs.text[i] = EMPTY
  BY <1>11
<1> HIDE DEF refcnt, text
<1>13. \A s \in Slot : s < K =>
         /\ blkfs.etrs[root][s].ino = s + 1 /\ blkfs.etrs[root][s].dir
         /\ blkfs.etrs[root][s].name = name(s)
  BY <1>4, <1>5, <1>7, <1>11
<1>14. \A s \in Slot : s >= K => blkfs.etrs[root][s] = NoEntry
  BY <1>5, <1>7, <1>11
<1>15. \A i \in Ino \ {root}, s \in Slot : blkfs.etrs[i][s] = NoEntry
  BY <1>7, <1>11
<1>16. \A s, r \in Slot : s < K /\ r < K /\ blkfs.etrs[root][s].name = blkfs.etrs[root][r].name => s = r
  <2> SUFFICES ASSUME NEW s \in Slot, NEW r \in Slot, s < K, r < K,
                      blkfs.etrs[root][s].name = blkfs.etrs[root][r].name
               PROVE  s = r
    OBVIOUS
  <2>1. name(s) = name(r)
    BY <1>13
  <2> QED
    BY <1>3, <2>1
<1>17. \A s \in Slot : s < K =>
         /\ blkfs.etrs[root][s].ino = s + 1 /\ blkfs.etrs[root][s].dir
         /\ blkfs.etrs[root][s].name \in Mountable
  BY <1>3, <1>13
<1>18. \A i \in Ino : blkfs.refcnt[i] = IF i <= Cardinality(Mountable) THEN 0 ELSE NULL
  BY <1>12 DEF K
<1>19. \A s \in Slot : s < Cardinality(Mountable) =>
         /\ blkfs.etrs[root][s].ino = s + 1 /\ blkfs.etrs[root][s].dir
         /\ blkfs.etrs[root][s].name \in Mountable
  BY <1>17 DEF K
<1>20. \A s \in Slot : s >= Cardinality(Mountable) => blkfs.etrs[root][s] = NoEntry
  BY <1>14 DEF K
<1>21. \A s, r \in Slot :
         s < Cardinality(Mountable) /\ r < Cardinality(Mountable) =>
           (blkfs.etrs[root][s].name = blkfs.etrs[root][r].name => s = r)
  BY <1>16 DEF K
<1> QED
  BY <1>10, <1>15, <1>18, <1>19, <1>20, <1>21, <1>22, Zenon DEF Begun

LEMMA BegunOk ==
  ASSUME NEW b, Begun(b)
  PROVE  Ok(b) /\ MountsInv(b, Mountable)
<1> DEFINE K == Cardinality(Mountable)
<1>0. /\ K \in Nat /\ NINODES > K /\ NINODES \in Nat /\ root \in Ino /\ root = 0
      /\ Ino \subseteq Nat /\ Slot \subseteq Nat /\ NULL \notin Nat
  BY Sizes DEF root
<1> HIDE DEF K
<1>1. b \in Blkfs /\ \A i \in Ino : b.refcnt[i] = IF i <= K THEN 0 ELSE NULL
  BY DEF Begun, K
<1>2. \A s \in Slot : s < K =>
        /\ b.etrs[root][s].ino = s + 1 /\ b.etrs[root][s].dir /\ b.etrs[root][s].name \in Mountable
  BY DEF Begun, K
<1>3. \A s \in Slot : s >= K => b.etrs[root][s] = NoEntry
  BY DEF Begun, K
<1>4. \A i \in Ino \ {root}, s \in Slot : b.etrs[i][s] = NoEntry
  BY DEF Begun
<1>5. \A s, r \in Slot : s < K /\ r < K /\ b.etrs[root][s].name = b.etrs[root][r].name => s = r
  BY DEF Begun, K
<1>6. ASSUME NEW d \in Ino, NEW s \in Slot, valid(b.etrs[d][s])
      PROVE  /\ d = root /\ s < K /\ b.etrs[d][s].ino = s + 1
             /\ b.etrs[d][s].dir /\ b.etrs[d][s].name \in Mountable
  <2>1. b.etrs[d][s] # NoEntry
    BY <1>6, NoEntryType DEF valid
  <2>2. d = root
    BY <1>4, <2>1
  <2>3. s \in Nat /\ ~(s >= K)
    BY <1>0, <1>3, <2>1, <2>2
  <2>4. s < K
    BY <1>0, <2>3
  <2> QED
    BY <1>2, <2>2, <2>4
<1>7. b.refcnt[root] = 0
  BY <1>0, <1>1
<1>8. Rooted(b)
  <2> SUFFICES ASSUME NEW d \in Ino, NEW s \in Slot, valid(b.etrs[d][s])
               PROVE  /\ b.etrs[d][s].name # NULL
                      /\ b.etrs[d][s].ino # root /\ b.refcnt[b.etrs[d][s].ino] # NULL
                      /\ d = root \/ DirEntriesOf(b, d) # {}
    BY DEF Rooted
  <2>1. d = root /\ s < K /\ b.etrs[d][s].ino = s + 1 /\ b.etrs[d][s].name \in Mountable
    BY <1>6
  <2>2. s \in Nat /\ s + 1 \in Ino /\ s + 1 <= K
    BY <1>0, <2>1 DEF Ino
  <2>3. b.refcnt[s + 1] = 0 /\ s + 1 # root
    BY <1>0, <1>1, <2>2
  <2>4. b.etrs[d][s].name # NULL
    BY <2>1, VfsAssumption
  <2> QED
    BY <1>0, <2>1, <2>3, <2>4
<1>9. Counted(b)
  <2> SUFFICES ASSUME NEW i \in Ino \ {root}, b.refcnt[i] # NULL
               PROVE  /\ Cardinality(EntriesOf(b, i)) = b.refcnt[i] + 1
                      /\ \A e \in DirEntriesOf(b, i) : EntriesOf(b, i) = {e}
    BY DEF Counted
  <2>1. i \in Nat /\ i # 0 /\ i <= K /\ b.refcnt[i] = 0
    BY <1>0, <1>1
  <2>2. i - 1 \in Slot /\ i - 1 < K
    <3>1. K <= NENTRIES /\ NENTRIES \in Nat
      BY Sizes DEF K
    <3> QED
      BY <1>0, <2>1, <3>1 DEF Slot
  <2> DEFINE old == <<root, i - 1>>
  <2>3. old \in EntriesOf(b, i)
    <3>1. b.etrs[root][i - 1].ino = i
      BY <1>2, <2>1, <2>2
    <3> QED
      BY <1>0, <2>2, <3>1 DEF EntriesOf
  <2>4. \A e \in EntriesOf(b, i) : e = old
    <3> SUFFICES ASSUME NEW d \in Ino, NEW s \in Slot, b.etrs[d][s].ino = i PROVE d = root /\ s = i - 1
      BY EntryOut
    <3>1. valid(b.etrs[d][s])
      BY <1>0, <2>1 DEF valid
    <3>2. d = root /\ b.etrs[d][s].ino = s + 1 /\ s \in Nat
      BY <1>0, <1>6, <3>1
    <3> QED
      BY <2>1, <3>2
  <2> HIDE DEF old
  <2>5. EntriesOf(b, i) = {old}
    BY <2>3, <2>4
  <2>6. Cardinality(EntriesOf(b, i)) = 1
    BY <2>5, FS_Singleton
  <2>7. \A e \in DirEntriesOf(b, i) : EntriesOf(b, i) = {e}
    BY <2>5, EntriesFinite
  <2> QED
    BY <2>1, <2>6, <2>7
<1>10. Distinct(b)
  <2> SUFFICES ASSUME NEW d \in Ino, NEW s \in Slot, NEW r \in Slot,
                      valid(b.etrs[d][s]), r # s, b.etrs[d][r].name = b.etrs[d][s].name
               PROVE  FALSE
    BY DEF Distinct
  <2>1. d = root /\ s < K /\ b.etrs[d][s].name \in Mountable
    BY <1>6
  <2>2. b.etrs[d][s].name # NULL
    BY <2>1, VfsAssumption
  <2>3. r \in Nat /\ ~(r >= K)
    BY <1>0, <1>3, <2>1, <2>2, NoEntryType
  <2>4. r < K
    BY <1>0, <2>3
  <2> QED
    BY <1>5, <2>1, <2>4
<1>11. MountsInv(b, Mountable)
  <2> SUFFICES ASSUME NEW s \in Slot, valid(b.etrs[root][s])
               PROVE  /\ b.etrs[root][s].dir /\ b.etrs[root][s].name \in Mountable
                      /\ FreeSlots(b, b.etrs[root][s].ino) = Slot
    BY DEF MountsInv
  <2>1. s < K /\ b.etrs[root][s].ino = s + 1 /\ b.etrs[root][s].dir /\ b.etrs[root][s].name \in Mountable
    BY <1>0, <1>6
  <2>2. s + 1 \in Ino \ {root}
    BY <1>0, <2>1 DEF Ino
  <2>3. \A r \in Slot : ~valid(b.etrs[s + 1][r])
    BY <1>4, <2>2, NoEntryType DEF valid
  <2>4. FreeSlots(b, s + 1) = Slot
    BY <2>3 DEF FreeSlots
  <2> QED
    BY <2>1, <2>4
<1> QED
  BY <1>1, <1>7, <1>8, <1>9, <1>10, <1>11 DEF Ok, Sound

-----------------------------------------------------------------------------
(* The theorems.                                                             *)

LEMMA InitInv == Init => IInv
<1> SUFFICES ASSUME Init PROVE IInv
  OBVIOUS
<1>1. Ok(blkfs) /\ MountsInv(blkfs, Mountable)
  BY InitBegun, BegunOk
<1>2. mnt = Mountable /\ fildes = 2 /\ ended = NULL
  BY DEF Init
<1>3. 2 \in 2..NFILE
  BY VfsAssumption
<1> QED
  BY <1>1, <1>2, <1>3 DEF IInv, TypeOK, Ok

LEMMA NextKeeps ==
  ASSUME IInv, Next
  PROVE  StepKeeps
<1>1. ASSUME NEW p \in Path,
             \/ cmd_mkdir(p) \/ cmd_rmdir(p) \/ cmd_rm(p) \/ cmd_touch(p)
             \/ CatOther(p) \/ CatDevice(p) \/ CatOver(p)
             \/ \E t \in Text : EchoOver(p, t) \/ EchoNew(p, t)
             \/ \E q \in Path : cmd_link(p, q) \/ cmd_cat(p, q)
      PROVE  StepKeeps
  <2>1. CASE cmd_mkdir(p)
    BY <2>1, MkdirStep
  <2>2. CASE cmd_rmdir(p)
    BY <2>2, RmdirStep
  <2>3. CASE cmd_rm(p)
    BY <2>3, RmStep
  <2>4. CASE cmd_touch(p)
    BY <2>4, TouchStep
  <2>5. CASE \E t \in Text : EchoOver(p, t) \/ EchoNew(p, t)
    BY <2>5, EchoOverStep, EchoNewStep
  <2>6. CASE \E q \in Path : cmd_link(p, q) \/ cmd_cat(p, q)
    BY <2>6, LinkStep, CatStep
  <2>7. CASE CatOther(p) \/ CatDevice(p) \/ CatOver(p)
    BY <2>7, CatOtherStep, CatDeviceStep, CatOverStep
  <2> QED
    BY <1>1, <2>1, <2>2, <2>3, <2>4, <2>5, <2>6, <2>7
<1>2. ASSUME NEW m \in Mountable, cmd_mnt(m) \/ cmd_unmnt(m) \/ EchoDevice(m)
      PROVE  StepKeeps
  BY <1>2, MntStep, UnmntStep, EchoDeviceStep
<1>3. CASE EchoRefused \/ EchoDisk
  BY <1>3, EchoRefusedStep, EchoDiskStep
<1> QED
  BY <1>1, <1>2, <1>3 DEF Next

\* What a step of LostOnlyWhenFull says.
LostStep ==
  intact' =>
    \A i \in Ino : Nameless(i)' /\ ~Nameless(i) =>
      \E d \in Ino : /\ blkfs.refcnt[d] # NULL
                     /\ \A s \in Slot : valid(blkfs.etrs[d][s])

LEMMA LostStepIs ==
  ASSUME intact' => NoneNameless(blkfs, blkfs') \/ Full(blkfs)
  PROVE  LostStep
<1>1. \A i \in Ino : /\ Nameless(i) <=> NamelessIn(blkfs, i)
                     /\ Nameless(i)' <=> NamelessIn(blkfs', i)
  BY DEF Nameless, Names, NamelessIn, NamesIn
<1>2. ASSUME NoneNameless(blkfs, blkfs') PROVE LostStep
  BY <1>1, <1>2 DEF NoneNameless, LostStep
<1>3. ASSUME Full(blkfs) PROVE LostStep
  BY <1>3 DEF Full, LostStep
<1>4. ASSUME ~intact' PROVE LostStep
  BY <1>4 DEF LostStep
<1> QED
  BY <1>2, <1>3, <1>4

LEMMA Inductive ==
  ASSUME IInv, [Next]_vars
  PROVE  IInv' /\ LostStep
<1>1. CASE Next
  BY <1>1, NextKeeps, LostStepIs DEF StepKeeps
<1>2. CASE UNCHANGED vars
  <2>1. IInv'
    BY <1>2 DEF vars, intact, IInv, TypeOK, MountsInv, Sound, Rooted, Counted, Distinct
  <2>2. \A i \in Ino : NamelessIn(blkfs', i) => NamelessIn(blkfs, i)
    BY <1>2 DEF vars
  <2>3. LostStep
    BY <2>2, LostStepIs DEF NoneNameless
  <2> QED
    BY <2>1, <2>3
<1> QED
  BY <1>1, <1>2

\* The inductive invariant holds in every state.
THEOREM Invariance == Spec => []IInv
<1>1. Init => IInv
  BY InitInv
<1>2. IInv /\ [Next]_vars => IInv'
  BY Inductive
<1> QED
  BY <1>1, <1>2, PTL DEF Spec

\* Every variable has its type: no sequence of links and unlinks takes a link
\* count below 0, and the root is never removed (vfs.c, fslookup, vfslink and
\* vfsunlink).
THEOREM TypeCorrect == Spec => []TypeOK
<1>1. IInv => TypeOK
  BY DEF IInv
<1> QED
  BY <1>1, Invariance, PTL

LEMMA LinksAre == ASSUME IInv PROVE LinksCounted
<1> SUFFICES ASSUME intact, NEW i \in Ino \ {root}
             PROVE  IF blkfs.refcnt[i] = NULL THEN Names(i) = {}
                    ELSE \/ Names(i) = {} /\ blkfs.refcnt[i] = 0
                         \/ /\ Cardinality(Names(i)) = blkfs.refcnt[i] + 1
                            /\ \A e \in Names(i) : IsDirEntry(e) => Names(i) = {e}
  BY DEF LinksCounted
<1>1. Ok(blkfs)
  BY DEF IInv, TypeOK, Ok
<1>2. Names(i) = EntriesOf(blkfs, i)
  BY <1>1, NamesAre DEF Names, NamesIn
<1>3. CASE blkfs.refcnt[i] = NULL
  BY <1>1, <1>2, <1>3, Unused
<1>4. CASE blkfs.refcnt[i] # NULL
  <2>1. \/ EntriesOf(blkfs, i) = {} /\ blkfs.refcnt[i] = 0
        \/ /\ Cardinality(EntriesOf(blkfs, i)) = blkfs.refcnt[i] + 1
           /\ \A e \in DirEntriesOf(blkfs, i) : EntriesOf(blkfs, i) = {e}
    BY <1>1, <1>4 DEF Ok, Sound, Counted
  <2>2. \A e \in EntriesOf(blkfs, i) : IsDirEntry(e) => e \in DirEntriesOf(blkfs, i)
    BY DEF IsDirEntry, DirEntriesOf
  <2> QED
    BY <1>2, <1>4, <2>1, <2>2
<1> QED
  BY <1>3, <1>4

\* Link counts and names agree in every state: no entry names an inode that is
\* not in use, a file has one name more than refcnt says, and a directory one
\* name and nothing else (vfs.c, fslookup, vfslink and vfsunlink).
THEOREM LinksAgree == Spec => []LinksCounted
<1>1. IInv => LinksCounted
  BY LinksAre
<1> QED
  BY <1>1, Invariance, PTL

LEMMA MountsAre == ASSUME IInv PROVE MountsShown
<1> SUFFICES ASSUME intact, NEW m \in Mountable, Lookup(blkfs, <<m>>, TRUE) # NULL
             PROVE  m \in mnt /\ FreeSlots(blkfs, Lookup(blkfs, <<m>>, TRUE)) = Slot
  BY DEF MountsShown
<1> DEFINE b == blkfs
           p == <<m>>
           i == Lookup(b, p, TRUE)
           d == Walk(b, p)
           s == Match(b, d, Last(p))
<1>1. b \in Blkfs /\ MountsInv(b, mnt)
  BY DEF IInv, TypeOK
<1>2. p \in Seq(Name) /\ Len(p) = 1 /\ p[1] = m
  BY RootPath
<1>3. d = root /\ Last(p) = m
  <2> HIDE DEF b, p
  <2> QED
    BY <1>1, <1>2, OnePath
<1>4. Found(b, d, s, Last(p), i)
  <2>1. i # NULL
    OBVIOUS
  <2> HIDE DEF b, p
  <2> QED
    BY <1>1, <1>2, <2>1, LookupIs, Zenon
<1> HIDE DEF b, p, i, d, s
<1>5. /\ s \in Slot /\ valid(b.etrs[root][s]) /\ b.etrs[root][s].name = m /\ b.etrs[root][s].ino = i
  BY <1>3, <1>4, Sizes DEF Found, valid
<1>6. m \in mnt /\ FreeSlots(b, i) = Slot
  BY <1>1, <1>5 DEF MountsInv
<1> QED
  BY <1>6 DEF b, p, i

\* While a file system is not mounted its directory is not there either, and a
\* mounted one is empty underneath (cmd.c, mnt and unmnt; vfs.c, "Permission
\* denied").
THEOREM MountPoints == Spec => []MountsShown
<1>1. IInv => MountsShown
  BY MountsAre
<1> QED
  BY <1>1, Invariance, PTL

\* An inode is left without a name only when something is created in a directory
\* whose slots are all taken: no sequence of links, unlinks, mounts and unmounts
\* loses a file (vfs.c, fslookup: the inode is taken before the slot is found).
THEOREM NothingLost == Spec => LostOnlyWhenFull
<1>1. IInv /\ [Next]_vars => LostStep
  BY Inductive
<1>2. Spec => []IInv
  BY Invariance
<1> QED
  BY <1>1, <1>2, PTL DEF Spec, LostOnlyWhenFull, LostStep

-----------------------------------------------------------------------------
(* Paths and the entries they lead to.                                       *)

\* Entry s of directory d is at the end of path p.
Leads(b, p, d, s) ==
  /\ d \in Ino /\ s \in Slot /\ Walk(b, p) = d
  /\ valid(b.etrs[d][s]) /\ b.etrs[d][s].name = Last(p)

LEMMA PathParts ==
  ASSUME NEW p \in Seq(Name), p # <<>>, NEW q \in Seq(Name), q # <<>>,
         Parent(p) = Parent(q), Last(p) = Last(q)
  PROVE  p = q
<1>1. Len(p) = Len(q) /\ Len(p) \in Nat \ {0}
  <2>1. Len(Parent(p)) = Len(p) - 1 /\ Len(Parent(q)) = Len(q) - 1
        /\ Len(p) \in Nat \ {0} /\ Len(q) \in Nat \ {0}
    BY ParentIs
  <2> QED
    BY <2>1
<1>2. \A k \in 1..(Len(p) - 1) : p[k] = q[k]
  <2>1. \A k \in 1..(Len(p) - 1) : p[k] = Parent(p)[k]
    BY ParentIs
  <2>2. \A k \in 1..(Len(q) - 1) : q[k] = Parent(q)[k]
    BY ParentIs
  <2> QED
    BY <1>1, <2>1, <2>2
<1>3. p[Len(p)] = q[Len(p)]
  BY <1>1 DEF Last
<1>4. \A k \in 1..Len(p) : p[k] = q[k]
  BY <1>1, <1>2, <1>3
<1> QED
  BY <1>1, <1>4, SeqEqual

\* The directory of a name, if there is one: the only entry of that name.
LEMMA SubOnce ==
  ASSUME NEW b, Ok(b), NEW d \in Ino, NEW s \in Slot, valid(b.etrs[d][s]), b.etrs[d][s].dir,
         NEW name, name = b.etrs[d][s].name
  PROVE  Sub(b, d, name) = b.etrs[d][s].ino
<1>1. b \in Blkfs
  BY DEF Ok
<1>2. s \in DirSlots(b, d, name)
  BY DEF DirSlots, Slots
<1>3. PICK r \in Slot : IsFirst(r, DirSlots(b, d, name)) /\ b.etrs[d][r].ino = Sub(b, d, name)
  <2>1. Sub(b, d, name) # NULL
    BY <1>1, <1>2, SubIs
  <2> QED
    BY <1>1, <2>1, SubIs
<1>4. valid(b.etrs[d][r]) /\ b.etrs[d][r].name = name
  BY <1>3 DEF IsFirst, DirSlots, Slots
<1>5. r = s
  BY <1>4 DEF Ok, Sound, Distinct
<1> QED
  BY <1>3, <1>5

LEMMA SubFound ==
  ASSUME NEW b \in Blkfs, NEW d, d \in Ino \cup {NULL}, NEW name, Sub(b, d, name) # NULL
  PROVE  /\ d \in Ino
         /\ \E s \in Slot : /\ valid(b.etrs[d][s]) /\ b.etrs[d][s].dir /\ b.etrs[d][s].name = name
                            /\ b.etrs[d][s].ino = Sub(b, d, name)
<1>1. d \in Ino
  BY SubNull
<1>2. PICK s \in Slot : IsFirst(s, DirSlots(b, d, name)) /\ b.etrs[d][s].ino = Sub(b, d, name)
  BY <1>1, SubIs
<1>3. valid(b.etrs[d][s]) /\ b.etrs[d][s].dir /\ b.etrs[d][s].name = name
  BY <1>2 DEF IsFirst, DirSlots, Slots
<1> QED
  BY <1>1, <1>2, <1>3

\* A path of several names leads on from its directory.
LEMMA WalkOn ==
  ASSUME NEW b \in Blkfs, NEW p \in Seq(Name), Len(p) > 1, NEW q, q = Parent(p)
  PROVE  /\ p # <<>> /\ q \in Seq(Name) /\ q # <<>> /\ Len(q) = Len(p) - 1
         /\ Walk(b, p) = Sub(b, Walk(b, q), Last(q)) /\ Walk(b, q) \in Ino \cup {NULL}
<1>0. Len(p) \in Nat /\ p # <<>>
  BY EmptySeq
<1>1. /\ q \in Seq(Name) /\ Len(q) = Len(p) - 1
      /\ \A k \in 1..(Len(p) - 1) : p[k] = q[k]
  BY <1>0, ParentIs
<1> DEFINE n == Len(q)
<1>2. n \in Nat \ {0} /\ n = Len(p) - 1 /\ q # <<>>
  BY <1>0, <1>1, EmptySeq
<1>3. \A k \in 0..n : Trail(b, p)[k] = Trail(b, q)[k]
  <2>1. Len(q) \in Nat /\ Len(q) <= Len(p) /\ \A k \in 1..Len(q) : p[k] = q[k]
    BY <1>0, <1>1, <1>2
  <2> QED
    BY <1>0, <2>1, TrailPrefix
<1>4. Walk(b, p) = Trail(b, p)[n]
  BY <1>0, <1>2, TrailSteps
<1>5. Trail(b, q)[n] = Sub(b, Trail(b, q)[n - 1], q[n]) /\ Walk(b, q) = Trail(b, q)[n - 1]
  BY <1>2, TrailSteps
<1>6. Walk(b, q) \in Ino \cup {NULL}
  BY <1>1, <1>2, WalkType
<1> HIDE DEF n
<1>7. n \in 0..n /\ Last(q) = q[n]
  BY <1>2 DEF n, Last
<1> QED
  BY <1>0, <1>1, <1>2, <1>3, <1>4, <1>5, <1>6, <1>7

LEMMA WalkLeads ==
  ASSUME NEW b, Ok(b), NEW p \in Seq(Name), p # <<>>, Walk(b, p) # NULL, Walk(b, p) # root
  PROVE  /\ Len(p) > 1 /\ Parent(p) \in Seq(Name) /\ Parent(p) # <<>>
         /\ \E e \in Ino, r \in Slot : /\ Leads(b, Parent(p), e, r) /\ b.etrs[e][r].dir
                                       /\ b.etrs[e][r].ino = Walk(b, p)
<1>1. b \in Blkfs
  BY DEF Ok
<1>2. Len(p) \in Nat \ {0}
  BY EmptySeq
<1>3. Len(p) > 1
  <2>1. Len(p) # 1
    BY <1>1, OnePath
  <2> DEFINE n == Len(p)
  <2>2. n \in Nat /\ n # 0 /\ n # 1
    BY <1>2, <2>1
  <2> HIDE DEF n
  <2>3. n > 1
    BY <2>2
  <2> QED
    BY <2>3 DEF n
<1> DEFINE q == Parent(p)
           e == Walk(b, q)
<1>4. /\ q \in Seq(Name) /\ q # <<>>
      /\ Walk(b, p) = Sub(b, e, Last(q)) /\ e \in Ino \cup {NULL}
  BY <1>1, <1>3, WalkOn
<1> HIDE DEF q, e
<1>5. e \in Ino /\ \E r \in Slot : /\ valid(b.etrs[e][r]) /\ b.etrs[e][r].dir /\ b.etrs[e][r].name = Last(q)
                                   /\ b.etrs[e][r].ino = Walk(b, p)
  BY <1>1, <1>4, SubFound
<1>6. \E r \in Slot : Leads(b, q, e, r) /\ b.etrs[e][r].dir /\ b.etrs[e][r].ino = Walk(b, p)
  BY <1>5 DEF Leads, e
<1> QED
  BY <1>3, <1>4, <1>5, <1>6 DEF q
LEMMA LeadsOn ==
  ASSUME NEW b, Ok(b), NEW p \in Seq(Name), p # <<>>, NEW d, NEW s, Leads(b, p, d, s), b.etrs[d][s].dir,
         NEW q \in Seq(Name), q # <<>>, Parent(q) = p
  PROVE  Walk(b, q) = b.etrs[d][s].ino
<1>1. b \in Blkfs
  BY DEF Ok
<1>2. Len(q) > 1
  <2>1. Len(p) \in Nat \ {0} /\ Len(q) \in Nat \ {0}
    BY EmptySeq
  <2>2. Len(p) = Len(q) - 1
    BY ParentIs
  <2> QED
    BY <2>1, <2>2
<1>3. Walk(b, q) = Sub(b, Walk(b, p), Last(p))
  BY <1>1, <1>2, WalkOn
<1>4. /\ d \in Ino /\ s \in Slot /\ Walk(b, p) = d
      /\ valid(b.etrs[d][s]) /\ b.etrs[d][s].name = Last(p)
  BY DEF Leads
<1>5. Sub(b, d, Last(p)) = b.etrs[d][s].ino
  BY <1>4, SubOnce
<1> QED
  BY <1>3, <1>4, <1>5

\* The one entry of an inode that is a directory.
LEMMA OneEntry ==
  ASSUME NEW b, Ok(b), NEW i \in Ino, NEW d \in Ino, NEW s \in Slot, NEW e \in Ino, NEW r \in Slot,
         b.etrs[d][s].ino = i, b.etrs[d][s].dir, b.etrs[e][r].ino = i
  PROVE  d = e /\ s = r
<1>1. valid(b.etrs[d][s])
  BY Sizes DEF valid
<1>2. i # root /\ b.refcnt[i] # NULL
  BY <1>1 DEF Ok, Sound, Rooted
<1>3. <<d, s>> \in DirEntriesOf(b, i) /\ <<e, r>> \in EntriesOf(b, i)
  BY EntryIn
<1>4. \A x \in DirEntriesOf(b, i) : EntriesOf(b, i) = {x}
  <2>1. EntriesOf(b, i) # {}
    BY <1>3
  <2> QED
    BY <1>2, <2>1 DEF Ok, Sound, Counted
<1>5. <<e, r>> = <<d, s>>
  BY <1>3, <1>4
<1> QED
  BY <1>5

\* The root is in no directory.
LEMMA RootOnly ==
  ASSUME NEW b, Ok(b), NEW p \in Seq(Name), p # <<>>, Walk(b, p) = root
  PROVE  Parent(p) = <<>>
<1>0. b \in Blkfs
  BY DEF Ok
<1>1. Len(p) \in Nat \ {0} /\ Parent(p) \in Seq(Name) /\ Len(Parent(p)) = Len(p) - 1
  BY ParentIs
<1>2. ASSUME Len(p) > 1 PROVE FALSE
  <2> DEFINE w == Parent(p)
             e == Walk(b, w)
             name == Last(w)
  <2>1. Sub(b, e, name) = root /\ e \in Ino \cup {NULL}
    BY <1>0, <1>2, WalkOn
  <2> HIDE DEF w, e, name
  <2>2. Sub(b, e, name) # NULL
    BY <2>1, Sizes
  <2>3. e \in Ino /\ \E r \in Slot : valid(b.etrs[e][r]) /\ b.etrs[e][r].ino = Sub(b, e, name)
    BY <1>0, <2>1, <2>2, SubFound
  <2> QED
    BY <2>1, <2>3 DEF Ok, Sound, Rooted
<1>3. Len(Parent(p)) = 0
  <2> DEFINE n == Len(p)
  <2>1. n \in Nat \ {0} /\ ~(n > 1) /\ Len(Parent(p)) = n - 1
    BY <1>1, <1>2
  <2> HIDE DEF n
  <2> QED
    BY <2>1
<1> QED
  BY <1>1, <1>3, EmptySeq

\* No two paths lead to the same directory.
LEMMA WalkOnce ==
  ASSUME NEW b, Ok(b), NEW p \in Seq(Name), p # <<>>, NEW q \in Seq(Name), q # <<>>,
         Walk(b, p) # NULL, Walk(b, p) = Walk(b, q)
  PROVE  Parent(p) = Parent(q)
<1> DEFINE Same(x, y) == Walk(b, x) # NULL /\ Walk(b, x) = Walk(b, y) /\ Parent(x) # Parent(y)
           Bad == {n \in Nat : \E x, y \in Seq(Name) : x # <<>> /\ y # <<>> /\ Len(x) = n /\ Same(x, y)}
<1>0. b \in Blkfs
  BY DEF Ok
<1>1. SUFFICES ASSUME Bad # {} PROVE FALSE
  <2>1. Len(p) \in Nat
    OBVIOUS
  <2>2. Same(p, q) => Len(p) \in Bad
    BY <2>1
  <2> QED
    BY <1>1, <2>2
<1>2. PICK n \in Bad : \A m \in Bad : n <= m
  <2>1. Bad \in SUBSET Nat
    OBVIOUS
  <2> HIDE DEF Bad
  <2> QED
    BY <1>1, <2>1, HasLeast
<1>3. PICK x \in Seq(Name), y \in Seq(Name) : x # <<>> /\ y # <<>> /\ Len(x) = n /\ Same(x, y)
  BY <1>2
<1>4. CASE Walk(b, x) = root
  <2>1. Walk(b, x) = root /\ Walk(b, y) = root
    BY <1>3, <1>4
  <2>2. Parent(x) = <<>> /\ Parent(y) = <<>>
    BY <1>3, <2>1, RootOnly
  <2> QED
    BY <1>3, <2>2
<1>5. CASE Walk(b, x) # root
  <2> DEFINE v == Parent(x)
             w == Parent(y)
  <2>1. /\ Len(x) > 1 /\ v \in Seq(Name) /\ v # <<>>
        /\ \E e \in Ino, r \in Slot : Leads(b, v, e, r) /\ b.etrs[e][r].dir /\ b.etrs[e][r].ino = Walk(b, x)
    BY <1>3, <1>5, WalkLeads
  <2>2. /\ w \in Seq(Name) /\ w # <<>>
        /\ \E e \in Ino, r \in Slot : Leads(b, w, e, r) /\ b.etrs[e][r].dir /\ b.etrs[e][r].ino = Walk(b, x)
    <3>1. Walk(b, y) # NULL /\ Walk(b, y) # root /\ Walk(b, y) = Walk(b, x)
      BY <1>3, <1>5
    <3>2. \E e \in Ino, r \in Slot : Leads(b, w, e, r) /\ b.etrs[e][r].dir /\ b.etrs[e][r].ino = Walk(b, y)
      BY <1>3, <3>1, WalkLeads
    <3>3. w \in Seq(Name) /\ w # <<>>
      BY <1>3, <3>1, WalkLeads
    <3> QED
      BY <3>1, <3>2, <3>3
  <2>3. Len(v) = Len(x) - 1 /\ v # w
    BY <1>3, ParentIs
  <2> HIDE DEF v, w
  <2>4. PICK e \in Ino, r \in Slot : Leads(b, v, e, r) /\ b.etrs[e][r].dir /\ b.etrs[e][r].ino = Walk(b, x)
    BY <2>1
  <2>5. PICK f \in Ino, t \in Slot : Leads(b, w, f, t) /\ b.etrs[f][t].dir /\ b.etrs[f][t].ino = Walk(b, x)
    BY <2>2
  <2>6. e = f /\ r = t
    <3> DEFINE i == Walk(b, x)
    <3>1. i \in Ino
      BY <1>0, <1>3, WalkType
    <3> HIDE DEF i
    <3>2. b.etrs[e][r].ino = i /\ b.etrs[e][r].dir /\ b.etrs[f][t].ino = i
      BY <2>4, <2>5 DEF i
    <3> QED
      BY <3>1, <3>2, OneEntry
  <2>7. Walk(b, v) = Walk(b, w) /\ Walk(b, v) # NULL /\ Last(v) = Last(w)
    BY <2>4, <2>5, <2>6, Sizes DEF Leads
  <2>8. Parent(v) = Parent(w)
    <3>1. SUFFICES ASSUME Parent(v) # Parent(w) PROVE FALSE
      OBVIOUS
    <3>2. Len(v) \in Nat /\ Len(v) < n
      BY <1>3, <2>1, <2>3
    <3>3. Len(v) \in Bad
      BY <2>1, <2>2, <2>7, <3>1, <3>2
    <3> QED
      BY <1>2, <3>2, <3>3
  <2>9. v = w
    BY <2>1, <2>2, <2>7, <2>8, PathParts
  <2> QED
    BY <2>3, <2>9
<1> QED
  BY <1>4, <1>5

LEMMA LeadsOnce ==
  ASSUME NEW b, Ok(b), NEW p \in Seq(Name), p # <<>>, NEW q \in Seq(Name), q # <<>>,
         NEW d, NEW s, Leads(b, p, d, s), Leads(b, q, d, s)
  PROVE  p = q
<1>1. Walk(b, p) = Walk(b, q) /\ Walk(b, p) # NULL /\ Last(p) = Last(q)
  BY Sizes DEF Leads
<1> QED
  BY <1>1, WalkOnce, PathParts

\* A path leads to one entry.
LEMMA OneSlot ==
  ASSUME NEW b, Ok(b), NEW p, NEW d, NEW s, Leads(b, p, d, s), NEW e, NEW r, Leads(b, p, e, r)
  PROVE  d = e /\ s = r
<1>1. d = e /\ d \in Ino /\ s \in Slot /\ r \in Slot /\ valid(b.etrs[d][s]) /\ valid(b.etrs[d][r])
      /\ b.etrs[d][s].name = b.etrs[d][r].name
  BY DEF Leads
<1> QED
  BY <1>1 DEF Ok, Sound, Distinct

-----------------------------------------------------------------------------
(* One entry more.                                                           *)

\* c is b with one entry more, in slot s of d; if it is a directory's, that is
\* empty.
Grown(b, c, d, s) ==
  /\ d \in Ino /\ s \in Slot /\ ~valid(b.etrs[d][s]) /\ valid(c.etrs[d][s])
  /\ \A g \in Ino, r \in Slot :
       \/ g = d /\ r = s
       \/ c.etrs[g][r] = b.etrs[g][r]
       \/ ~valid(c.etrs[g][r]) /\ ~valid(b.etrs[g][r])
  /\ c.etrs[d][s].dir => \A r \in Slot : ~valid(c.etrs[c.etrs[d][s].ino][r])

\* What is in a directory and elsewhere than in slot s of d is the same.
LEMMA GrownSame ==
  ASSUME NEW b, NEW c, NEW d, NEW s, Grown(b, c, d, s), NEW g \in Ino, NEW r \in Slot,
         valid(b.etrs[g][r]) \/ (valid(c.etrs[g][r]) /\ ~(g = d /\ r = s))
  PROVE  c.etrs[g][r] = b.etrs[g][r] /\ ~(g = d /\ r = s)
BY DEF Grown

LEMMA GrownSub ==
  ASSUME NEW b, Ok(b), NEW c, Ok(c), NEW d, NEW s, Grown(b, c, d, s),
         NEW g \in Ino, NEW name
  PROVE  \/ Sub(c, g, name) = Sub(b, g, name)
         \/ Sub(b, g, name) = NULL /\ c.etrs[d][s].dir /\ Sub(c, g, name) = c.etrs[d][s].ino
<1>0. b \in Blkfs /\ c \in Blkfs /\ g \in Ino \cup {NULL}
  BY DEF Ok
<1>1. CASE Sub(b, g, name) # NULL
  <2>1. PICK r \in Slot : /\ valid(b.etrs[g][r]) /\ b.etrs[g][r].dir /\ b.etrs[g][r].name = name
                          /\ b.etrs[g][r].ino = Sub(b, g, name)
    BY <1>0, <1>1, SubFound
  <2>2. c.etrs[g][r] = b.etrs[g][r]
    BY <2>1, GrownSame
  <2>3. valid(c.etrs[g][r]) /\ c.etrs[g][r].dir /\ name = c.etrs[g][r].name
    BY <2>1, <2>2
  <2>4. Sub(c, g, name) = c.etrs[g][r].ino
    BY <2>3, SubOnce
  <2> QED
    BY <2>1, <2>2, <2>4
<1>2. CASE Sub(b, g, name) = NULL /\ Sub(c, g, name) # NULL
  <2>1. PICK r \in Slot : /\ valid(c.etrs[g][r]) /\ c.etrs[g][r].dir /\ c.etrs[g][r].name = name
                          /\ c.etrs[g][r].ino = Sub(c, g, name)
    BY <1>0, <1>2, SubFound
  <2>2. CASE g = d /\ r = s
    BY <1>2, <2>1, <2>2
  <2>3. CASE ~(g = d /\ r = s)
    <3>1. c.etrs[g][r] = b.etrs[g][r]
      BY <2>1, <2>3, GrownSame
    <3>2. valid(b.etrs[g][r]) /\ b.etrs[g][r].dir /\ name = b.etrs[g][r].name
      BY <2>1, <3>1
    <3>3. Sub(b, g, name) = b.etrs[g][r].ino
      BY <3>2, SubOnce
    <3> QED
      BY <1>2, <3>2, <3>3 DEF valid
  <2> QED
    BY <2>2, <2>3
<1> QED
  BY <1>1, <1>2

\* Ways are the same, but for those into the new directory.
LEMMA GrownWalk ==
  ASSUME NEW b, Ok(b), NEW c, Ok(c), NEW d, NEW s, Grown(b, c, d, s),
         NEW p \in Seq(Name), p # <<>>
  PROVE  \/ Walk(c, p) = Walk(b, p)
         \/ Walk(b, p) = NULL /\ c.etrs[d][s].dir /\ Walk(c, p) = c.etrs[d][s].ino
<1> DEFINE i == c.etrs[d][s].ino
           Fine(x) == \/ Walk(c, x) = Walk(b, x)
                      \/ Walk(b, x) = NULL /\ c.etrs[d][s].dir /\ Walk(c, x) = i
           Bad == {n \in Nat : \E x \in Seq(Name) : x # <<>> /\ Len(x) = n /\ ~Fine(x)}
<1>0. b \in Blkfs /\ c \in Blkfs
  BY DEF Ok
<1>1. i \in Ino /\ (c.etrs[d][s].dir => \A r \in Slot : ~valid(c.etrs[i][r]))
  BY <1>0, BlkfsFields, EntryFields DEF Grown, valid
<1>2. SUFFICES ASSUME Bad # {} PROVE FALSE
  <2>1. Len(p) \in Nat
    OBVIOUS
  <2>2. ~Fine(p) => Len(p) \in Bad
    BY <2>1
  <2> QED
    BY <1>2, <2>2
<1>3. PICK n \in Bad : \A m \in Bad : n <= m
  <2>1. Bad \in SUBSET Nat
    OBVIOUS
  <2> HIDE DEF Bad
  <2> QED
    BY <1>2, <2>1, HasLeast
<1>4. PICK x \in Seq(Name) : x # <<>> /\ Len(x) = n /\ ~Fine(x)
  BY <1>3
<1> DEFINE q == Parent(x)
           name == Last(q)
<1>5. n > 1
  <2>1. n # 1
    <3>1. ~(Len(x) = 1 /\ Walk(b, x) # root)
      BY <1>0, OnePath
    <3>2. ~(Len(x) = 1 /\ Walk(c, x) # root)
      BY <1>0, OnePath
    <3> QED
      BY <1>4, <3>1, <3>2
  <2>2. n \in Nat \ {0}
    BY <1>3, <1>4, EmptySeq
  <2> HIDE DEF Bad
  <2> QED
    BY <2>1, <2>2
<1>6. /\ q \in Seq(Name) /\ q # <<>> /\ Len(q) = n - 1
      /\ Walk(b, x) = Sub(b, Walk(b, q), name) /\ Walk(b, q) \in Ino \cup {NULL}
  BY <1>0, <1>4, <1>5, WalkOn
<1>7. Walk(c, x) = Sub(c, Walk(c, q), name) /\ Walk(c, q) \in Ino \cup {NULL}
  BY <1>0, <1>4, <1>5, WalkOn
<1>8. Fine(q)
  <2>1. n - 1 \in Nat /\ n - 1 < n
    BY <1>3, <1>5
  <2>2. n - 1 \notin Bad
    BY <1>3, <2>1
  <2> QED
    BY <1>6, <2>1, <2>2
<1>9. ~Fine(x)
  BY <1>4
<1> HIDE DEF q, name, Bad, i
<1>10. CASE Walk(c, q) = Walk(b, q) /\ Walk(b, q) = NULL
  <2>1. Walk(c, x) = NULL /\ Walk(b, x) = NULL
    BY <1>6, <1>7, <1>10, SubNull
  <2> QED
    BY <1>9, <2>1
<1>11. CASE Walk(c, q) = Walk(b, q) /\ Walk(b, q) # NULL
  <2> DEFINE g == Walk(b, q)
  <2>1. g \in Ino /\ Walk(c, x) = Sub(c, g, name) /\ Walk(b, x) = Sub(b, g, name)
    BY <1>6, <1>7, <1>11
  <2> HIDE DEF g
  <2>2. \/ Sub(c, g, name) = Sub(b, g, name)
        \/ Sub(b, g, name) = NULL /\ c.etrs[d][s].dir /\ Sub(c, g, name) = c.etrs[d][s].ino
    BY <2>1, GrownSub
  <2> QED
    BY <1>9, <2>1, <2>2 DEF i
<1>12. CASE Walk(b, q) = NULL /\ c.etrs[d][s].dir /\ Walk(c, q) = i
  <2>1. Walk(b, x) = NULL
    BY <1>6, <1>12, SubNull
  <2>2. Sub(c, i, name) = NULL
    <3>1. i \in Ino \cup {NULL} /\ \A r \in Slot : ~valid(c.etrs[i][r])
      BY <1>1, <1>12
    <3> QED
      BY <1>0, <3>1, SubFound
  <2> QED
    BY <1>7, <1>9, <1>12, <2>1, <2>2
<1> QED
  BY <1>8, <1>10, <1>11, <1>12

LEMMA GrownLeads ==
  ASSUME NEW b, Ok(b), NEW c, Ok(c), NEW d, NEW s, Grown(b, c, d, s),
         NEW p \in Seq(Name), p # <<>>, NEW g, NEW r
  PROVE  /\ Leads(b, p, g, r) => Leads(c, p, g, r) /\ c.etrs[g][r] = b.etrs[g][r] /\ ~(g = d /\ r = s)
         /\ Leads(c, p, g, r) /\ ~(g = d /\ r = s) => Leads(b, p, g, r)
<1>1. ASSUME Leads(b, p, g, r)
      PROVE  Leads(c, p, g, r) /\ c.etrs[g][r] = b.etrs[g][r] /\ ~(g = d /\ r = s)
  <2>1. g \in Ino /\ r \in Slot /\ valid(b.etrs[g][r]) /\ Walk(b, p) = g /\ g # NULL
    BY <1>1, Sizes DEF Leads
  <2>2. c.etrs[g][r] = b.etrs[g][r] /\ ~(g = d /\ r = s)
    BY <2>1, GrownSame
  <2>3. Walk(c, p) = g
    BY <2>1, GrownWalk
  <2> QED
    BY <1>1, <2>1, <2>2, <2>3 DEF Leads
<1>2. ASSUME Leads(c, p, g, r), ~(g = d /\ r = s)
      PROVE  Leads(b, p, g, r)
  <2>1. g \in Ino /\ r \in Slot /\ valid(c.etrs[g][r]) /\ Walk(c, p) = g
    BY <1>2 DEF Leads
  <2>2. c.etrs[g][r] = b.etrs[g][r]
    BY <1>2, <2>1, GrownSame
  <2>3. ~(c.etrs[d][s].dir /\ g = c.etrs[d][s].ino)
    BY <2>1 DEF Grown
  <2>4. Walk(b, p) = g
    BY <2>1, <2>3, GrownWalk
  <2> QED
    BY <1>2, <2>1, <2>2, <2>4 DEF Leads
<1> QED
  BY <1>1, <1>2

LEMMA PathsType == ASSUME NEW p \in AllPaths PROVE p \in Seq(Name) /\ p # <<>>
<1>1. CASE p \in Path
  BY <1>1, PathType
<1>2. CASE p \notin Path
  <2>1. PICK m \in Mountable : p = <<m>>
    BY <1>2 DEF AllPaths
  <2> QED
    BY <2>1, RootPath
<1> QED
  BY <1>1, <1>2

LEMMA ReachedIs ==
  ASSUME NEW b
  PROVE  Reached(b) <=> \A d \in Ino, s \in Slot : valid(b.etrs[d][s]) => \E p \in AllPaths : Leads(b, p, d, s)
BY DEF Reached, Leads

LEMMA GrownReached ==
  ASSUME NEW b, Ok(b), NEW c, Ok(c), NEW d, NEW s, Grown(b, c, d, s),
         NEW p \in AllPaths, Leads(c, p, d, s)
  PROVE  Reached(b) <=> Reached(c)
<1>0. \A q \in AllPaths : q \in Seq(Name) /\ q # <<>>
  BY PathsType
<1>1. ASSUME Reached(b), NEW g \in Ino, NEW r \in Slot, valid(c.etrs[g][r])
      PROVE  \E q \in AllPaths : Leads(c, q, g, r)
  <2>1. CASE g = d /\ r = s
    BY <2>1
  <2>2. CASE ~(g = d /\ r = s)
    <3>1. valid(b.etrs[g][r])
      BY <1>1, <2>2, GrownSame
    <3>2. PICK q \in AllPaths : Leads(b, q, g, r)
      BY <1>1, <3>1, ReachedIs
    <3>3. Leads(c, q, g, r)
      BY <1>0, <3>2, GrownLeads
    <3> QED
      BY <3>3
  <2> QED
    BY <2>1, <2>2
<1>2. ASSUME Reached(c), NEW g \in Ino, NEW r \in Slot, valid(b.etrs[g][r])
      PROVE  \E q \in AllPaths : Leads(b, q, g, r)
  <2>1. c.etrs[g][r] = b.etrs[g][r] /\ ~(g = d /\ r = s)
    BY <1>2, GrownSame
  <2>2. PICK q \in AllPaths : Leads(c, q, g, r)
    BY <1>2, <2>1, ReachedIs
  <2>3. Leads(b, q, g, r)
    BY <1>0, <2>1, <2>2, GrownLeads
  <2> QED
    BY <2>3
<1>3. Reached(b) => Reached(c)
  BY <1>1, ReachedIs
<1>4. Reached(c) => Reached(b)
  BY <1>2, ReachedIs
<1> QED
  BY <1>3, <1>4

-----------------------------------------------------------------------------
(* The tree of a disk.                                                       *)

IsAt(b, p, dir) == \E d \in Ino, s \in Slot : Leads(b, p, d, s) /\ b.etrs[d][s].dir = dir

FileAt(b, p) ==
  LET d == Walk(b, p) IN
  b.etrs[d][CHOOSE s \in Slot : /\ valid(b.etrs[d][s]) /\ ~b.etrs[d][s].dir
                                /\ b.etrs[d][s].name = Last(p)].ino

DirsIn(b) == {p \in AllPaths : IsAt(b, p, TRUE)}
FilesIn(b) == {p \in AllPaths : IsAt(b, p, FALSE)}
TextIn(b) == [i \in Ino |-> IF NamelessIn(b, i) THEN EMPTY ELSE b.text[i]]
FileMap(b) == [p \in FilesIn(b) |-> FileAt(b, p)]
Tree(b) == [dirs |-> DirsIn(b), files |-> FileMap(b), text |-> TextIn(b)]

TreeNow == [dirs |-> {p \in AllPaths : Holds(p, TRUE)},
            files |-> [p \in {p \in AllPaths : Holds(p, FALSE)} |-> fileAt(p)],
            text |-> [i \in Ino |-> IF Nameless(i) THEN EMPTY ELSE blkfs.text[i]]]

LEMMA TreeIs == ASSUME blkfs \in Blkfs PROVE TreeNow = Tree(blkfs)
<1>1. \A p \in AllPaths : \A k \in BOOLEAN : Holds(p, k) <=> IsAt(blkfs, p, k)
  <2> SUFFICES ASSUME NEW p \in AllPaths, NEW k \in BOOLEAN PROVE Holds(p, k) <=> IsAt(blkfs, p, k)
    OBVIOUS
  <2>1. Walk(blkfs, p) \in Ino \cup {NULL}
    BY PathsType, WalkType
  <2>2. Holds(p, k) => IsAt(blkfs, p, k)
    BY <2>1 DEF Holds, IsAt, Leads
  <2>3. IsAt(blkfs, p, k) => Holds(p, k)
    BY Sizes DEF Holds, IsAt, Leads
  <2> QED
    BY <2>2, <2>3
<1>2. {p \in AllPaths : Holds(p, TRUE)} = DirsIn(blkfs) /\ {p \in AllPaths : Holds(p, FALSE)} = FilesIn(blkfs)
  BY <1>1 DEF DirsIn, FilesIn
<1>3. \A p : fileAt(p) = FileAt(blkfs, p)
  BY Zenon DEF fileAt, FileAt
<1>4. [p \in {p \in AllPaths : Holds(p, FALSE)} |-> fileAt(p)] = FileMap(blkfs)
  BY <1>2, <1>3 DEF FileMap
<1>5. [i \in Ino |-> IF Nameless(i) THEN EMPTY ELSE blkfs.text[i]] = TextIn(blkfs)
  BY DEF TextIn, Nameless, NamelessIn, Names, NamesIn
<1> QED
  BY <1>2, <1>4, <1>5 DEF TreeNow, Tree

LEMMA FileAtIs ==
  ASSUME NEW b, Ok(b), NEW p, NEW d, NEW s, Leads(b, p, d, s), ~b.etrs[d][s].dir
  PROVE  FileAt(b, p) = b.etrs[d][s].ino
<1> DEFINE Is(r) == valid(b.etrs[d][r]) /\ ~b.etrs[d][r].dir /\ b.etrs[d][r].name = Last(p)
           r == CHOOSE x \in Slot : Is(x)
<1>1. Walk(b, p) = d /\ d \in Ino /\ s \in Slot /\ Is(s)
  BY DEF Leads
<1>2. r \in Slot /\ Is(r)
  BY <1>1
<1>3. Leads(b, p, d, r)
  BY <1>1, <1>2 DEF Leads
<1>4. r = s
  BY <1>3, OneSlot
<1>5. FileAt(b, p) = b.etrs[d][r].ino
  BY <1>1 DEF FileAt
<1> QED
  BY <1>4, <1>5

\* Among the paths c has one more than b, p, which leads to the entry at (d, s).
ShowsOneMore(b, c, d, s, p) ==
  \A q \in AllPaths, k \in BOOLEAN :
    /\ IsAt(c, q, k) <=> IsAt(b, q, k) \/ (q = p /\ k = c.etrs[d][s].dir)
    /\ ~IsAt(b, p, k)

LEMMA GrownAt ==
  ASSUME NEW b, Ok(b), NEW c, Ok(c), NEW d, NEW s, Grown(b, c, d, s),
         NEW p \in AllPaths, Leads(c, p, d, s)
  PROVE  ShowsOneMore(b, c, d, s, p)
<1> SUFFICES ASSUME NEW q \in AllPaths, NEW k \in BOOLEAN
             PROVE  /\ IsAt(c, q, k) <=> IsAt(b, q, k) \/ (q = p /\ k = c.etrs[d][s].dir)
                    /\ ~IsAt(b, p, k)
  BY DEF ShowsOneMore
<1>0. p \in Seq(Name) /\ p # <<>> /\ q \in Seq(Name) /\ q # <<>>
  BY PathsType
<1>1. ASSUME IsAt(c, q, k)
      PROVE  IsAt(b, q, k) \/ (q = p /\ k = c.etrs[d][s].dir)
  <2>1. PICK g \in Ino, r \in Slot : Leads(c, q, g, r) /\ c.etrs[g][r].dir = k
    BY <1>1 DEF IsAt
  <2>2. CASE g = d /\ r = s
    <3>1. p = q
      BY <1>0, <2>1, <2>2, LeadsOnce
    <3> QED
      BY <2>1, <2>2, <3>1
  <2>3. CASE ~(g = d /\ r = s)
    <3>1. Leads(b, q, g, r)
      BY <1>0, <2>1, <2>3, GrownLeads
    <3>2. c.etrs[g][r] = b.etrs[g][r]
      BY <1>0, <3>1, GrownLeads
    <3> QED
      BY <2>1, <3>1, <3>2 DEF IsAt
  <2> QED
    BY <2>2, <2>3
<1>2. ASSUME IsAt(b, q, k)
      PROVE  IsAt(c, q, k)
  <2>1. PICK g \in Ino, r \in Slot : Leads(b, q, g, r) /\ b.etrs[g][r].dir = k
    BY <1>2 DEF IsAt
  <2>2. Leads(c, q, g, r) /\ c.etrs[g][r] = b.etrs[g][r]
    BY <1>0, <2>1, GrownLeads
  <2> QED
    BY <2>1, <2>2 DEF IsAt
<1>3. ASSUME q = p, k = c.etrs[d][s].dir
      PROVE  IsAt(c, q, k)
  BY <1>3 DEF IsAt, Leads
<1>4. ASSUME IsAt(b, p, k)
      PROVE  FALSE
  <2>1. PICK g \in Ino, r \in Slot : Leads(b, p, g, r)
    BY <1>4 DEF IsAt
  <2>2. Leads(c, p, g, r) /\ ~(g = d /\ r = s)
    BY <1>0, <2>1, GrownLeads
  <2> QED
    BY <2>2, OneSlot
<1> QED
  BY <1>1, <1>2, <1>3, <1>4

LEMMA SameFile ==
  ASSUME NEW b, Ok(b), NEW c, Ok(c), NEW d, NEW s, Grown(b, c, d, s),
         NEW q \in AllPaths, IsAt(b, q, FALSE)
  PROVE  FileAt(c, q) = FileAt(b, q)
<1>0. q \in Seq(Name) /\ q # <<>>
  BY PathsType
<1>1. PICK g \in Ino, r \in Slot : Leads(b, q, g, r) /\ ~b.etrs[g][r].dir
  BY DEF IsAt
<1>2. Leads(c, q, g, r) /\ c.etrs[g][r] = b.etrs[g][r]
  BY <1>0, <1>1, GrownLeads
<1>3. ~c.etrs[g][r].dir
  BY <1>1, <1>2
<1>4. FileAt(b, q) = b.etrs[g][r].ino /\ FileAt(c, q) = c.etrs[g][r].ino
  BY <1>1, <1>2, <1>3, FileAtIs
<1> QED
  BY <1>2, <1>4

\* The trees of b and c, if the new entry is a directory's.
LEMMA GrownDir ==
  ASSUME NEW b, Ok(b), NEW c, Ok(c), NEW d, NEW s, Grown(b, c, d, s),
         NEW p \in AllPaths, Leads(c, p, d, s), c.etrs[d][s].dir
  PROVE  /\ DirsIn(c) = DirsIn(b) \cup {p} /\ p \notin DirsIn(b) \cup FilesIn(b)
         /\ FilesIn(c) = FilesIn(b) /\ FileMap(c) = FileMap(b)
         /\ \A q \in DirsIn(c) \cup FilesIn(c) : Parent(q) # p
<1>6. c.etrs[d][s].dir = TRUE
  BY BlkfsFields, EntryFields DEF Ok, Leads
<1>7. ShowsOneMore(b, c, d, s, p)
  BY GrownAt
<1>0. \A q \in AllPaths, k \in BOOLEAN :
        /\ IsAt(c, q, k) <=> IsAt(b, q, k) \/ (q = p /\ k = c.etrs[d][s].dir)
        /\ ~IsAt(b, p, k)
  BY <1>7 DEF ShowsOneMore
<1>1. \A q \in AllPaths : /\ IsAt(c, q, TRUE) <=> IsAt(b, q, TRUE) \/ q = p
                          /\ IsAt(c, q, FALSE) <=> IsAt(b, q, FALSE)
  BY <1>0, <1>6
<1>2. ~IsAt(b, p, TRUE) /\ ~IsAt(b, p, FALSE)
  BY <1>0, <1>6
<1>3. DirsIn(c) = DirsIn(b) \cup {p} /\ p \notin DirsIn(b) \cup FilesIn(b) /\ FilesIn(c) = FilesIn(b)
  BY <1>1, <1>2 DEF DirsIn, FilesIn
<1>4. FileMap(c) = FileMap(b)
  <2>1. \A q \in FilesIn(b) : FileAt(c, q) = FileAt(b, q)
    BY SameFile DEF FilesIn
  <2> QED
    BY <1>3, <2>1 DEF FileMap
<1>5. ASSUME NEW q \in DirsIn(c) \cup FilesIn(c), Parent(q) = p PROVE FALSE
  <2>1. PICK g \in Ino, r \in Slot : Leads(c, q, g, r)
    BY <1>5 DEF DirsIn, FilesIn, IsAt
  <2>2. q \in AllPaths
    BY <1>5 DEF DirsIn, FilesIn
  <2>3. p \in Seq(Name) /\ p # <<>> /\ q \in Seq(Name) /\ q # <<>>
    BY <2>2, PathsType
  <2>4. Walk(c, q) = c.etrs[d][s].ino
    BY <1>5, <2>3, LeadsOn
  <2>5. g = c.etrs[d][s].ino /\ valid(c.etrs[g][r])
    BY <2>1, <2>4 DEF Leads
  <2> QED
    BY <2>5 DEF Grown
<1> QED
  BY <1>3, <1>4, <1>5

LEMMA GrownFile ==
  ASSUME NEW b, Ok(b), NEW c, Ok(c), NEW d, NEW s, Grown(b, c, d, s),
         NEW p \in AllPaths, Leads(c, p, d, s), ~c.etrs[d][s].dir
  PROVE  /\ DirsIn(c) = DirsIn(b) /\ p \notin DirsIn(b) \cup FilesIn(b)
         /\ FilesIn(c) = FilesIn(b) \cup {p}
         /\ FileAt(c, p) = c.etrs[d][s].ino /\ \A q \in FilesIn(b) : FileAt(c, q) = FileAt(b, q)
<1>6. c.etrs[d][s].dir = FALSE
  BY BlkfsFields, EntryFields DEF Ok, Leads
<1>7. ShowsOneMore(b, c, d, s, p)
  BY GrownAt
<1>0. \A q \in AllPaths, k \in BOOLEAN :
        /\ IsAt(c, q, k) <=> IsAt(b, q, k) \/ (q = p /\ k = c.etrs[d][s].dir)
        /\ ~IsAt(b, p, k)
  BY <1>7 DEF ShowsOneMore
<1>1. \A q \in AllPaths : /\ IsAt(c, q, TRUE) <=> IsAt(b, q, TRUE)
                          /\ IsAt(c, q, FALSE) <=> IsAt(b, q, FALSE) \/ q = p
  BY <1>0, <1>6
<1>2. ~IsAt(b, p, TRUE) /\ ~IsAt(b, p, FALSE)
  BY <1>0, <1>6
<1>3. DirsIn(c) = DirsIn(b) /\ p \notin DirsIn(b) \cup FilesIn(b) /\ FilesIn(c) = FilesIn(b) \cup {p}
  BY <1>1, <1>2 DEF DirsIn, FilesIn
<1>4. \A q \in FilesIn(b) : FileAt(c, q) = FileAt(b, q)
  BY SameFile DEF FilesIn
<1>5. FileAt(c, p) = c.etrs[d][s].ino
  BY FileAtIs
<1> QED
  BY <1>3, <1>4, <1>5

\* The place of the new entry is a directory of the tree.
LEMMA GrownParent ==
  ASSUME NEW b, Ok(b), Reached(b), NEW p \in AllPaths, Walk(b, p) # NULL
  PROVE  Parent(p) \in DirsIn(b) \cup {<<>>}
<1>0. p \in Seq(Name) /\ p # <<>>
  BY PathsType
<1>1. CASE Walk(b, p) = root
  BY <1>0, <1>1, RootOnly
<1>2. CASE Walk(b, p) # root
  <2> DEFINE w == Parent(p)
  <2>1. w \in Seq(Name) /\ w # <<>> /\ \E e \in Ino, r \in Slot : Leads(b, w, e, r) /\ b.etrs[e][r].dir
    BY <1>0, <1>2, WalkLeads
  <2> HIDE DEF w
  <2>2. PICK e \in Ino, r \in Slot : Leads(b, w, e, r) /\ b.etrs[e][r].dir
    BY <2>1
  <2>3. PICK q \in AllPaths : Leads(b, q, e, r)
    BY <2>2, ReachedIs DEF Leads
  <2>4. q = w
    BY <2>1, <2>2, <2>3, PathsType, LeadsOnce
  <2>5. b.etrs[e][r].dir = TRUE
    BY <2>2, BlkfsFields, EntryFields DEF Ok
  <2>6. w \in AllPaths /\ IsAt(b, w, TRUE)
    BY <2>2, <2>3, <2>4, <2>5 DEF IsAt
  <2> QED
    BY <2>6 DEF w, DirsIn
<1> QED
  BY <1>1, <1>2

-----------------------------------------------------------------------------
(* What FsSpec calls it.                                                     *)

LEMMA TreeFields ==
  ASSUME NEW b
  PROVE  /\ Tree(b).dirs = DirsIn(b) /\ Tree(b).files = FileMap(b) /\ Tree(b).text = TextIn(b)
         /\ DOMAIN FileMap(b) = FilesIn(b) /\ \A p \in FilesIn(b) : FileMap(b)[p] = FileAt(b, p)
BY DEF Tree, FileMap

\* The inodes that are named by the entry of a file.
NamedIn(b) == {i \in Ino : \E d \in Ino, s \in Slot : b.etrs[d][s].ino = i /\ ~b.etrs[d][s].dir}

LEMMA NamedIs ==
  ASSUME NEW b, Ok(b), Reached(b)
  PROVE  Fs!Named(Tree(b)) = NamedIn(b)
<1>1. Fs!Named(Tree(b)) = {FileAt(b, p) : p \in FilesIn(b)}
  BY TreeFields DEF Fs!Named
<1>2. ASSUME NEW p \in FilesIn(b)
      PROVE  FileAt(b, p) \in NamedIn(b)
  <2>1. PICK d \in Ino, s \in Slot : Leads(b, p, d, s) /\ ~b.etrs[d][s].dir
    BY DEF FilesIn, IsAt
  <2>2. FileAt(b, p) = b.etrs[d][s].ino
    BY <2>1, FileAtIs
  <2>3. b.etrs[d][s].ino \in Ino
    BY <2>1, BlkfsFields, EntryFields DEF Ok, Leads, valid
  <2> QED
    BY <2>1, <2>2, <2>3 DEF NamedIn
<1>3. ASSUME NEW i \in NamedIn(b)
      PROVE  \E p \in FilesIn(b) : FileAt(b, p) = i
  <2>1. i \in Ino
    BY DEF NamedIn
  <2>2. PICK d \in Ino, s \in Slot : b.etrs[d][s].ino = i /\ ~b.etrs[d][s].dir
    BY DEF NamedIn
  <2>3. valid(b.etrs[d][s])
    BY <2>1, <2>2, Sizes DEF valid
  <2>4. PICK p \in AllPaths : Leads(b, p, d, s)
    BY <2>3, ReachedIs
  <2>5. FileAt(b, p) = i
    BY <2>2, <2>4, FileAtIs
  <2>6. b.etrs[d][s].dir = FALSE
    BY <2>2, BlkfsFields, EntryFields DEF Ok
  <2>7. p \in FilesIn(b)
    BY <2>4, <2>6 DEF FilesIn, IsAt
  <2> QED
    BY <2>5, <2>7
<1> QED
  BY <1>1, <1>2, <1>3

LEMMA ShownText ==
  ASSUME NEW b, Ok(b), TextsOf(b)
  PROVE  TextIn(b) = [i \in Ino |-> IF i \in NamedIn(b) THEN b.text[i] ELSE EMPTY]
<1> SUFFICES ASSUME NEW i \in Ino
             PROVE  (IF NamelessIn(b, i) THEN EMPTY ELSE b.text[i]) = IF i \in NamedIn(b) THEN b.text[i] ELSE EMPTY
  BY DEF TextIn
<1>1. NamesIn(b, i) = EntriesOf(b, i)
  BY NamesAre
<1>2. CASE i \in NamedIn(b)
  <2>1. PICK d \in Ino, s \in Slot : b.etrs[d][s].ino = i
    BY <1>2 DEF NamedIn
  <2>2. <<d, s>> \in EntriesOf(b, i)
    BY <2>1, EntryIn
  <2> QED
    BY <1>1, <1>2, <2>2 DEF NamelessIn
<1>3. CASE i \notin NamedIn(b) /\ b.text[i] # EMPTY
  <2>1. i # root /\ b.refcnt[i] # NULL /\ DirEntriesOf(b, i) = {}
    BY <1>3 DEF TextsOf
  <2>2. EntriesOf(b, i) = {}
    <3>1. SUFFICES ASSUME NEW e \in EntriesOf(b, i) PROVE FALSE
      OBVIOUS
    <3>2. PICK d \in Ino, s \in Slot : e = <<d, s>> /\ b.etrs[d][s].ino = i
      BY EntryOut
    <3>3. b.etrs[d][s].dir
      BY <1>3, <3>2 DEF NamedIn
    <3>4. <<d, s>> \in DirEntriesOf(b, i)
      BY <3>2, <3>3 DEF DirEntriesOf, EntriesOf
    <3> QED
      BY <2>1, <3>4
  <2>3. NamelessIn(b, i)
    BY <1>1, <2>1, <2>2 DEF NamelessIn
  <2> QED
    BY <1>3, <2>3
<1>4. CASE i \notin NamedIn(b) /\ b.text[i] = EMPTY
  BY <1>4
<1> QED
  BY <1>2, <1>3, <1>4

LEMMA GrownVacant ==
  ASSUME NEW b, Ok(b), Reached(b), NEW c, Ok(c), NEW d, NEW s, Grown(b, c, d, s),
         NEW p \in AllPaths, Leads(c, p, d, s), p \notin DirsIn(b) \cup FilesIn(b)
  PROVE  Fs!Vacant(Tree(b), p)
<1>1. p \in Seq(Name) /\ p # <<>>
  BY PathsType
<1>2. Walk(b, p) # NULL
  <2>1. Walk(c, p) = d /\ d # NULL /\ valid(c.etrs[d][s]) /\ s \in Slot
    BY Sizes DEF Leads
  <2>2. ~(c.etrs[d][s].dir /\ d = c.etrs[d][s].ino)
    BY <2>1 DEF Grown
  <2> QED
    BY <1>1, <2>1, <2>2, GrownWalk
<1>3. Parent(p) \in DirsIn(b) \cup {<<>>}
  BY <1>2, GrownParent
<1> QED
  BY <1>3, TreeFields DEF Fs!Vacant, Fs!Paths, Fs!Dirs, Fs!Parent, Parent

LEMMA MkdirTree ==
  ASSUME NEW b, Ok(b), Reached(b), NEW c, Ok(c), NEW d, NEW s, Grown(b, c, d, s),
         NEW p \in AllPaths, Leads(c, p, d, s), c.etrs[d][s].dir, TextIn(c) = TextIn(b)
  PROVE  Fs!Mkdir(Tree(b), Tree(c))
<1>1. /\ DirsIn(c) = DirsIn(b) \cup {p} /\ p \notin DirsIn(b) \cup FilesIn(b)
      /\ FilesIn(c) = FilesIn(b) /\ FileMap(c) = FileMap(b)
  BY GrownDir
<1>2. Fs!Vacant(Tree(b), p)
  BY <1>1, GrownVacant
<1> QED
  BY <1>1, <1>2, TreeFields DEF Fs!Mkdir

LEMMA RmdirTree ==
  ASSUME NEW b, Ok(b), NEW c, Ok(c), NEW d, NEW s, Grown(b, c, d, s),
         NEW p \in AllPaths, Leads(c, p, d, s), c.etrs[d][s].dir, TextIn(c) = TextIn(b)
  PROVE  Fs!Rmdir(Tree(c), Tree(b))
<1>1. /\ DirsIn(c) = DirsIn(b) \cup {p} /\ p \notin DirsIn(b) \cup FilesIn(b)
      /\ FilesIn(c) = FilesIn(b) /\ FileMap(c) = FileMap(b)
      /\ \A q \in DirsIn(c) \cup FilesIn(c) : Parent(q) # p
  BY GrownDir
<1>2. DirsIn(b) = DirsIn(c) \ {p} /\ p \in DirsIn(c)
  BY <1>1
<1> QED
  BY <1>1, <1>2, TreeFields DEF Fs!Rmdir, Fs!Paths, Fs!Parent, Parent

LEMMA NewNameTree ==
  ASSUME NEW b, Ok(b), Reached(b), NEW c, Ok(c), NEW d, NEW s, Grown(b, c, d, s),
         NEW p \in AllPaths, Leads(c, p, d, s), ~c.etrs[d][s].dir,
         NEW i, i = c.etrs[d][s].ino
  PROVE  p \in DOMAIN FileMap(c) /\ FileMap(c)[p] = i /\ Fs!NewName(Tree(b), Tree(c), p, i)
<1>1. /\ DirsIn(c) = DirsIn(b) /\ p \notin DirsIn(b) \cup FilesIn(b)
      /\ FilesIn(c) = FilesIn(b) \cup {p}
      /\ FileAt(c, p) = c.etrs[d][s].ino /\ \A q \in FilesIn(b) : FileAt(c, q) = FileAt(b, q)
  BY GrownFile
<1>2. Fs!Vacant(Tree(b), p)
  BY <1>1, GrownVacant
<1>3. FileMap(c) = [q \in FilesIn(b) \cup {p} |-> IF q = p THEN i ELSE FileMap(b)[q]]
  BY <1>1 DEF FileMap
<1> QED
  BY <1>1, <1>2, <1>3, TreeFields DEF Fs!NewName

LEMMA CreateTree ==
  ASSUME NEW b, Ok(b), Reached(b), NEW c, Ok(c), NEW d, NEW s, Grown(b, c, d, s),
         NEW p \in AllPaths, Leads(c, p, d, s), ~c.etrs[d][s].dir,
         NEW i, i = c.etrs[d][s].ino, i \notin NamedIn(b),
         NEW x \in Text \cup {EMPTY}, TextIn(c) = [TextIn(b) EXCEPT ![i] = x]
  PROVE  Fs!Create(Tree(b), Tree(c))
<1>1. p \in DOMAIN FileMap(c) /\ FileMap(c)[p] = i /\ Fs!NewName(Tree(b), Tree(c), p, i)
  BY NewNameTree
<1>2. i \notin Fs!Named(Tree(b))
  BY NamedIs
<1> QED
  BY <1>1, <1>2, TreeFields DEF Fs!Create

LEMMA LinkTree ==
  ASSUME NEW b, Ok(b), Reached(b), NEW c, Ok(c), NEW d, NEW s, Grown(b, c, d, s),
         NEW p \in AllPaths, Leads(c, p, d, s), ~c.etrs[d][s].dir,
         NEW i, i = c.etrs[d][s].ino, i \in NamedIn(b), TextIn(c) = TextIn(b)
  PROVE  Fs!Link(Tree(b), Tree(c))
<1>1. p \in DOMAIN FileMap(c) /\ FileMap(c)[p] = i /\ Fs!NewName(Tree(b), Tree(c), p, i)
  BY NewNameTree
<1>2. i \in Fs!Named(Tree(b))
  BY NamedIs
<1> QED
  BY <1>1, <1>2, TreeFields DEF Fs!Link

LEMMA UnlinkTree ==
  ASSUME NEW b, Ok(b), Reached(b), NEW c, Ok(c), NEW d, NEW s, Grown(b, c, d, s),
         NEW p \in AllPaths, Leads(c, p, d, s), ~c.etrs[d][s].dir,
         TextIn(b) = [i \in Ino |-> IF i \in NamedIn(b) THEN TextIn(c)[i] ELSE EMPTY]
  PROVE  Fs!Unlink(Tree(c), Tree(b))
<1>1. /\ DirsIn(c) = DirsIn(b) /\ p \notin DirsIn(b) \cup FilesIn(b)
      /\ FilesIn(c) = FilesIn(b) \cup {p} /\ \A q \in FilesIn(b) : FileAt(c, q) = FileAt(b, q)
  BY GrownFile
<1>2. FilesIn(c) \ {p} = FilesIn(b) /\ p \in FilesIn(c)
  BY <1>1
<1>3. FileMap(b) = [q \in FilesIn(c) \ {p} |-> FileMap(c)[q]]
  BY <1>1, <1>2 DEF FileMap
<1>4. Fs!Named(Tree(b)) = NamedIn(b)
  BY NamedIs
<1> QED
  BY <1>1, <1>2, <1>3, <1>4, TreeFields DEF Fs!Unlink

\* The tree is the same, but for texts.
SameShape(b, c) == DirsIn(c) = DirsIn(b) /\ FileMap(c) = FileMap(b)

LEMMA StoreTree ==
  ASSUME NEW b, Ok(b), Reached(b), NEW c, SameShape(b, c), NEW i \in NamedIn(b),
         NEW x \in Text \cup {EMPTY}, TextIn(c) = [TextIn(b) EXCEPT ![i] = x]
  PROVE  Fs!Store(Tree(b), Tree(c))
<1>1. Fs!Named(Tree(b)) = NamedIn(b)
  BY NamedIs
<1> QED
  BY <1>1, TreeFields DEF Fs!Store, SameShape

LEMMA SameTree ==
  ASSUME NEW b, NEW c, SameShape(b, c), TextIn(c) = TextIn(b)
  PROVE  Tree(c) = Tree(b)
BY DEF Tree, SameShape

\* Nothing happens to the entries, but for wiping those that are not valid.
LEMMA FadesSub ==
  ASSUME NEW b \in Blkfs, NEW c \in Blkfs, Fades(b, c), NEW d, d \in Ino \cup {NULL}, NEW name
  PROVE  Sub(c, d, name) = Sub(b, d, name)
<1>1. CASE d = NULL
  BY <1>1, SubNull
<1>2. CASE d \in Ino
  <2> DEFINE S(x) == {s \in Slot : /\ valid(x.etrs[d][s]) /\ x.etrs[d][s].dir /\ x.etrs[d][s].name = name}
  <2>0. d # NULL
    BY <1>2, Sizes
  <2>1. \A s \in Slot : valid(c.etrs[d][s]) \/ valid(b.etrs[d][s]) => c.etrs[d][s] = b.etrs[d][s]
    BY <1>2, NoEntryType DEF Fades, valid
  <2>2. S(c) = S(b)
    BY <2>1
  <2>3. /\ Sub(b, d, name) = IF S(b) = {} THEN NULL ELSE b.etrs[d][least(S(b))].ino
        /\ Sub(c, d, name) = IF S(c) = {} THEN NULL ELSE c.etrs[d][least(S(c))].ino
    BY <2>0 DEF Sub
  <2>4. S(b) # {} => least(S(b)) \in S(b)
    <3>1. S(b) \in SUBSET Nat
      BY Sizes
    <3> HIDE DEF S
    <3> QED
      BY <3>1, LeastIs
  <2>5. S(b) # {} => c.etrs[d][least(S(b))] = b.etrs[d][least(S(b))]
    <3> DEFINE r == least(S(b))
    <3>1. S(b) # {} => r \in Slot /\ valid(b.etrs[d][r])
      BY <2>4
    <3> HIDE DEF r
    <3> QED
      BY <2>1, <3>1 DEF r
  <2> HIDE DEF S
  <2> QED
    BY <2>2, <2>3, <2>5
<1> QED
  BY <1>1, <1>2

LEMMA FadesWalk ==
  ASSUME NEW b \in Blkfs, NEW c \in Blkfs, Fades(b, c), NEW p \in Seq(Name), p # <<>>
  PROVE  Walk(c, p) = Walk(b, p)
<1> DEFINE T == Trail(b, p)
           U == Trail(c, p)
           Bad == {n \in Nat : n <= Len(p) /\ T[n] # U[n]}
<1>0. Len(p) \in Nat \ {0}
  BY EmptySeq
<1>1. /\ T[0] = root /\ \A n \in 1..Len(p) : T[n] = Sub(b, T[n - 1], p[n])
      /\ U[0] = root /\ \A n \in 1..Len(p) : U[n] = Sub(c, U[n - 1], p[n])
      /\ Walk(b, p) = T[Len(p) - 1] /\ Walk(c, p) = U[Len(p) - 1]
      /\ \A n \in 0..Len(p) : T[n] \in Ino \cup {NULL}
  BY <1>0, TrailSteps, TrailType
<1> HIDE DEF T, U
<1>2. ASSUME Bad # {} PROVE FALSE
  <2>1. PICK m \in Bad : \A i \in Bad : m <= i
    BY <1>2, HasLeast
  <2>2. m # 0
    BY <1>1, <2>1
  <2>3. m \in 1..Len(p) /\ m - 1 \in Nat /\ m - 1 <= Len(p) /\ m - 1 \notin Bad
    BY <2>1, <2>2
  <2>4. T[m - 1] = U[m - 1] /\ T[m - 1] \in Ino \cup {NULL}
    BY <1>0, <1>1, <2>3
  <2>5. Sub(c, T[m - 1], p[m]) = Sub(b, T[m - 1], p[m])
    BY <2>4, FadesSub
  <2> QED
    BY <1>1, <2>1, <2>3, <2>4, <2>5
<1>3. Len(p) - 1 \in Nat /\ Len(p) - 1 <= Len(p)
  BY <1>0
<1>4. T[Len(p) - 1] = U[Len(p) - 1]
  BY <1>2, <1>3
<1> QED
  BY <1>1, <1>4

LEMMA FadesShape ==
  ASSUME NEW b, Ok(b), NEW c, Ok(c), Fades(b, c)
  PROVE  SameShape(b, c) /\ (Reached(b) => Reached(c)) /\ NamedIn(c) = NamedIn(b)
<1>0. b \in Blkfs /\ c \in Blkfs
  BY DEF Ok
<1>1. \A d \in Ino, s \in Slot : valid(c.etrs[d][s]) \/ valid(b.etrs[d][s]) => c.etrs[d][s] = b.etrs[d][s]
  BY NoEntryType DEF Fades, valid
<1>2. \A p \in AllPaths : Walk(c, p) = Walk(b, p)
  BY <1>0, FadesWalk, PathsType
<1>3. \A p \in AllPaths, d \in Ino, s \in Slot : Leads(c, p, d, s) <=> Leads(b, p, d, s)
  BY <1>1, <1>2 DEF Leads
<1>4. \A p \in AllPaths, k \in BOOLEAN : IsAt(c, p, k) <=> IsAt(b, p, k)
  BY <1>1, <1>3 DEF IsAt, Leads
<1>5. DirsIn(c) = DirsIn(b) /\ FilesIn(c) = FilesIn(b)
  BY <1>4 DEF DirsIn, FilesIn
<1>6. \A p \in FilesIn(b) : FileAt(c, p) = FileAt(b, p)
  <2> SUFFICES ASSUME NEW p \in FilesIn(b) PROVE FileAt(c, p) = FileAt(b, p)
    OBVIOUS
  <2>1. PICK d \in Ino, s \in Slot : Leads(b, p, d, s) /\ ~b.etrs[d][s].dir
    BY DEF FilesIn, IsAt
  <2>2. Leads(c, p, d, s) /\ c.etrs[d][s] = b.etrs[d][s]
    BY <1>1, <1>3, <2>1 DEF Leads, FilesIn
  <2>3. ~c.etrs[d][s].dir
    BY <2>1, <2>2
  <2> QED
    BY <2>1, <2>2, <2>3, FileAtIs
<1>7. FileMap(c) = FileMap(b)
  BY <1>5, <1>6 DEF FileMap
<1>8. Reached(b) => Reached(c)
  BY <1>1, <1>3, ReachedIs
<1>9. NamedIn(c) = NamedIn(b)
  BY <1>1, Sizes DEF NamedIn, valid
<1> QED
  BY <1>5, <1>7, <1>8, <1>9 DEF SameShape

-----------------------------------------------------------------------------
(* What each change of the disk does to the tree.                            *)

Whole(b) == Ok(b) /\ Reached(b) /\ TextsOf(b)

Follows(b, c) ==
  /\ Whole(c)
  /\ Fs!Step(Tree(b), Tree(c)) \/ Tree(c) = Tree(b)

\* x is written into inode i.
Written(b, c, i, x) ==
  c \in Blkfs /\ c.refcnt = b.refcnt /\ c.etrs = b.etrs /\ c.text = [b.text EXCEPT ![i] = x]

LEMMA Dirless ==
  ASSUME NEW b, NEW i
  PROVE  DirEntriesOf(b, i) = {} <=> \A g \in Ino, r \in Slot : b.etrs[g][r].ino = i => ~b.etrs[g][r].dir
<1>1. ASSUME NEW g \in Ino, NEW r \in Slot, b.etrs[g][r].ino = i, b.etrs[g][r].dir
      PROVE  <<g, r>> \in DirEntriesOf(b, i)
  BY <1>1 DEF DirEntriesOf, EntriesOf
<1>2. ASSUME NEW e \in DirEntriesOf(b, i)
      PROVE  \E g \in Ino, r \in Slot : b.etrs[g][r].ino = i /\ b.etrs[g][r].dir
  BY DEF DirEntriesOf, EntriesOf
<1> QED
  BY <1>1, <1>2

\* The name of a file.
LEMMA NamedFile ==
  ASSUME NEW b, Ok(b), NEW i \in NamedIn(b)
  PROVE  i \in Ino /\ i # root /\ b.refcnt[i] # NULL /\ DirEntriesOf(b, i) = {}
<1>1. i \in Ino
  BY DEF NamedIn
<1>2. PICK d \in Ino, s \in Slot : b.etrs[d][s].ino = i /\ ~b.etrs[d][s].dir
  BY DEF NamedIn
<1>3. i # root /\ b.refcnt[i] # NULL
  <2>1. valid(b.etrs[d][s])
    BY <1>1, <1>2, Sizes DEF valid
  <2> QED
    BY <1>2, <2>1 DEF Ok, Sound, Rooted
<1>4. \A g \in Ino, r \in Slot : b.etrs[g][r].ino = i => ~b.etrs[g][r].dir
  <2> SUFFICES ASSUME NEW g \in Ino, NEW r \in Slot, b.etrs[g][r].ino = i, b.etrs[g][r].dir PROVE FALSE
    OBVIOUS
  <2>1. g = d /\ r = s
    BY <1>1, <1>2, OneEntry
  <2> QED
    BY <1>2, <2>1
<1> QED
  BY <1>1, <1>3, <1>4, Dirless

LEMMA GrownNamed ==
  ASSUME NEW b, Ok(b), NEW c, Ok(c), NEW d, NEW s, Grown(b, c, d, s)
  PROVE  /\ c.etrs[d][s].ino \in Ino
         /\ c.etrs[d][s].dir => NamedIn(c) = NamedIn(b)
         /\ ~c.etrs[d][s].dir => NamedIn(c) = NamedIn(b) \cup {c.etrs[d][s].ino}
         /\ \A j \in Ino : DirEntriesOf(c, j) = {} => DirEntriesOf(b, j) = {}
         /\ \A j \in Ino : DirEntriesOf(b, j) = {} /\ ~(c.etrs[d][s].dir /\ c.etrs[d][s].ino = j) =>
                             DirEntriesOf(c, j) = {}
<1>1. c.etrs[d][s].ino \in Ino
  BY BlkfsFields, EntryFields DEF Ok, Grown, valid
<1>2. \A j \in Ino, g \in Ino, r \in Slot :
        /\ b.etrs[g][r].ino = j => c.etrs[g][r] = b.etrs[g][r]
        /\ c.etrs[g][r].ino = j /\ ~(g = d /\ r = s) => c.etrs[g][r] = b.etrs[g][r]
  BY Sizes DEF Grown, valid
<1>3. d \in Ino /\ s \in Slot
  BY DEF Grown
<1>4. c.etrs[d][s].dir => NamedIn(c) = NamedIn(b)
  BY <1>2 DEF NamedIn
<1>5. ~c.etrs[d][s].dir => NamedIn(c) = NamedIn(b) \cup {c.etrs[d][s].ino}
  BY <1>1, <1>2, <1>3 DEF NamedIn
<1>6. \A j \in Ino : DirEntriesOf(c, j) = {} => DirEntriesOf(b, j) = {}
  BY <1>2, Dirless
<1>7. \A j \in Ino : DirEntriesOf(b, j) = {} /\ ~(c.etrs[d][s].dir /\ c.etrs[d][s].ino = j) =>
                       DirEntriesOf(c, j) = {}
  <2> SUFFICES ASSUME NEW j \in Ino, DirEntriesOf(b, j) = {},
                      ~(c.etrs[d][s].dir /\ c.etrs[d][s].ino = j),
                      NEW g \in Ino, NEW r \in Slot, c.etrs[g][r].ino = j
               PROVE  ~c.etrs[g][r].dir
    BY Dirless
  <2>1. CASE g = d /\ r = s
    BY <2>1
  <2>2. CASE ~(g = d /\ r = s)
    <3>1. c.etrs[g][r] = b.etrs[g][r]
      BY <1>2, <2>2
    <3> QED
      BY <3>1, Dirless
  <2> QED
    BY <2>1, <2>2
<1> QED
  BY <1>1, <1>4, <1>5, <1>6, <1>7

LEMMA NotNamed ==
  ASSUME NEW b, NEW i, EntriesOf(b, i) = {}
  PROVE  i \notin NamedIn(b)
<1> SUFFICES ASSUME NEW d \in Ino, NEW s \in Slot, b.etrs[d][s].ino = i PROVE FALSE
  BY DEF NamedIn
<1>1. <<d, s>> \in EntriesOf(b, i)
  BY DEF EntriesOf
<1> QED
  BY <1>1

LEMMA TextFun ==
  ASSUME NEW b \in Blkfs
  PROVE  /\ b.text = [i \in Ino |-> b.text[i]]
         /\ \A i, x : [b.text EXCEPT ![i] = x] = [j \in Ino |-> IF j = i THEN x ELSE b.text[j]]
BY BlkfsFields

\* Text goes into a file.
LEMMA StoredFollows ==
  ASSUME NEW b, Whole(b), NEW i \in NamedIn(b), NEW x \in Text \cup {EMPTY},
         NEW c, Written(b, c, i, x)
  PROVE  Follows(b, c)
<1>1. Ok(b) /\ Reached(b) /\ TextsOf(b) /\ b \in Blkfs
  BY DEF Whole, Ok
<1>2. Ok(c) /\ c.refcnt = b.refcnt /\ c.etrs = b.etrs /\ c \in Blkfs
  BY <1>1, SameNames DEF Written
<1>3. Fades(b, c)
  BY <1>2 DEF Fades
<1>4. SameShape(b, c) /\ Reached(c) /\ NamedIn(c) = NamedIn(b)
  BY <1>1, <1>2, <1>3, FadesShape
<1>5. i \in Ino /\ i # root /\ b.refcnt[i] # NULL /\ DirEntriesOf(b, i) = {}
  BY <1>1, NamedFile
<1>6. c.text = [j \in Ino |-> IF j = i THEN x ELSE b.text[j]]
  BY <1>1, TextFun DEF Written
<1>7. TextsOf(c)
  <2>1. \A j : DirEntriesOf(c, j) = DirEntriesOf(b, j)
    BY <1>2, SameNames
  <2> QED
    BY <1>1, <1>2, <1>5, <1>6, <2>1 DEF TextsOf
<1>8. TextIn(c) = [TextIn(b) EXCEPT ![i] = x]
  <2>1. TextIn(b) = [j \in Ino |-> IF j \in NamedIn(b) THEN b.text[j] ELSE EMPTY]
    BY <1>1, ShownText
  <2>2. TextIn(c) = [j \in Ino |-> IF j \in NamedIn(b) THEN c.text[j] ELSE EMPTY]
    BY <1>2, <1>4, <1>7, ShownText
  <2> QED
    BY <1>5, <1>6, <2>1, <2>2
<1>9. Fs!Store(Tree(b), Tree(c))
  BY <1>1, <1>4, <1>8, StoreTree
<1> QED
  BY <1>2, <1>4, <1>7, <1>9 DEF Follows, Whole, Fs!Step

\* Something new in directory d, x written into it.
LEMMA CreatedGrown ==
  ASSUME NEW b, Ok(b), NEW p \in AllPaths, NEW d, d = Walk(b, p), NEW s, NEW i, NEW c,
         Created(b, c, d, s, i, Last(p)), NEW x, NEW e, Written(c, e, i, x)
  PROVE  /\ Ok(e) /\ e \in Blkfs /\ Grown(b, e, d, s) /\ Leads(e, p, d, s)
         /\ e.etrs = c.etrs /\ e.etrs[d][s].ino = i /\ i \in Ino \ {root}
         /\ e.text = [j \in Ino |-> IF j = i THEN x ELSE b.text[j]]
         /\ EntriesOf(b, i) = {} /\ e.refcnt[i] # NULL
         /\ \A j \in Ino \ {i} : e.refcnt[j] = b.refcnt[j]
<1>1. p \in Seq(Name) /\ p # <<>> /\ b \in Blkfs
  BY PathsType DEF Ok
<1>2. Taken(b, c, d, i)
  BY DEF Created
<1>3. d \in Ino /\ d # NULL /\ (d = root \/ DirEntriesOf(b, d) # {})
  <2>1. d \in Ino /\ d # NULL
    BY <1>2, Sizes DEF Taken
  <2> QED
    BY <1>1, <2>1, WalkAllowed
<1>4. /\ Ok(c) /\ s \in Slot /\ i \in Ino /\ FreeSlots(c, i) = Slot
      /\ c.etrs[d][s].name = Last(p) /\ c.etrs[d][s].ino = i
  BY <1>3, CreatedOk
<1>5. Ok(e) /\ e \in Blkfs /\ e.refcnt = c.refcnt /\ e.etrs = c.etrs
  BY <1>4, SameNames DEF Written
<1>6. i \in Ino \ {root} /\ c.refcnt[i] = 0 /\ b.refcnt[i] = NULL /\ d \in Ino
  BY <1>2 DEF Taken
<1>7. EntriesOf(b, i) = {} /\ e.refcnt[i] # NULL
  <2>1. EntriesOf(b, i) = {}
    BY <1>6, Unused
  <2> QED
    BY <1>5, <1>6, <2>1, Sizes
<1>8. \A j \in Ino \ {i} : e.refcnt[j] = b.refcnt[j]
  BY <1>2, <1>5 DEF Taken
<1>9. e.text = [j \in Ino |-> IF j = i THEN x ELSE b.text[j]]
  <2>1. c.text = [j \in Ino |-> IF j = i THEN EMPTY ELSE b.text[j]]
    BY <1>1, <1>2, TextFun DEF Taken
  <2>2. e.text = [j \in Ino |-> IF j = i THEN x ELSE c.text[j]]
    BY <1>4, TextFun DEF Written, Ok
  <2> QED
    BY <2>1, <2>2
<1>10. Grown(b, e, d, s)
  <2>1. ~valid(b.etrs[d][s])
    BY DEF Created, IsFirst, FreeSlots
  <2>2. valid(e.etrs[d][s])
    BY <1>4, <1>5, Sizes DEF valid
  <2>3. ASSUME NEW g \in Ino, NEW r \in Slot
        PROVE  \/ g = d /\ r = s
               \/ e.etrs[g][r] = b.etrs[g][r]
               \/ ~valid(e.etrs[g][r]) /\ ~valid(b.etrs[g][r])
    <3>1. CASE g = d
      BY <1>5, <3>1 DEF Created
    <3>2. CASE g = i
      <4>1. ~valid(b.etrs[i][r]) /\ e.etrs[i][r] = NoEntry
        BY <1>2, <1>5 DEF Taken
      <4> QED
        BY <3>2, <4>1, NoEntryType DEF valid
    <3>3. CASE g \in Ino \ {i, d}
      BY <1>2, <1>5, <3>3 DEF Taken
    <3> QED
      BY <3>1, <3>2, <3>3
  <2>4. \A r \in Slot : ~valid(e.etrs[i][r])
    BY <1>4, <1>5 DEF FreeSlots
  <2> QED
    BY <1>3, <1>4, <1>5, <2>1, <2>2, <2>3, <2>4 DEF Grown
<1>11. Leads(e, p, d, s)
  <2>1. Walk(e, p) = d
    BY <1>1, <1>3, <1>5, <1>10, GrownWalk
  <2> QED
    BY <1>3, <1>4, <1>5, <1>10, <2>1 DEF Leads, Grown
<1> QED
  BY <1>4, <1>5, <1>6, <1>7, <1>8, <1>9, <1>10, <1>11

LEMMA CreatedTexts ==
  ASSUME NEW b, Ok(b), TextsOf(b), NEW p \in AllPaths, NEW d, d = Walk(b, p), NEW s, NEW i, NEW c,
         Created(b, c, d, s, i, Last(p)), NEW x, NEW e, Written(c, e, i, x),
         c.etrs[d][s].dir => x = EMPTY
  PROVE  /\ TextsOf(e) /\ i \notin NamedIn(b)
         /\ e.etrs[d][s].dir => TextIn(e) = TextIn(b)
         /\ ~e.etrs[d][s].dir => TextIn(e) = [TextIn(b) EXCEPT ![i] = x]
<1>1. /\ Ok(e) /\ Grown(b, e, d, s) /\ e.etrs = c.etrs /\ e.etrs[d][s].ino = i /\ i \in Ino \ {root}
      /\ e.text = [j \in Ino |-> IF j = i THEN x ELSE b.text[j]]
      /\ EntriesOf(b, i) = {} /\ e.refcnt[i] # NULL
      /\ \A j \in Ino \ {i} : e.refcnt[j] = b.refcnt[j]
  BY CreatedGrown
<1>2. /\ e.etrs[d][s].dir => NamedIn(e) = NamedIn(b)
      /\ ~e.etrs[d][s].dir => NamedIn(e) = NamedIn(b) \cup {i}
      /\ \A j \in Ino : DirEntriesOf(b, j) = {} /\ ~(e.etrs[d][s].dir /\ i = j) => DirEntriesOf(e, j) = {}
  BY <1>1, GrownNamed
<1>3. DirEntriesOf(b, i) = {}
  BY <1>1, EntriesFinite
<1>4. TextsOf(e)
  <2> SUFFICES ASSUME NEW j \in Ino, e.text[j] # EMPTY
               PROVE  j # root /\ e.refcnt[j] # NULL /\ DirEntriesOf(e, j) = {}
    BY DEF TextsOf
  <2>1. CASE j = i
    <3>1. ~e.etrs[d][s].dir
      BY <1>1, <2>1
    <3> QED
      BY <1>1, <1>2, <1>3, <2>1, <3>1
  <2>2. CASE j # i
    <3>1. b.text[j] # EMPTY /\ e.refcnt[j] = b.refcnt[j]
      BY <1>1, <2>2
    <3>2. j # root /\ b.refcnt[j] # NULL /\ DirEntriesOf(b, j) = {}
      BY <3>1 DEF TextsOf
    <3> QED
      BY <1>2, <2>2, <3>1, <3>2
  <2> QED
    BY <2>1, <2>2
<1>5. i \notin NamedIn(b)
  BY <1>1, NotNamed
<1>6. /\ TextIn(b) = [j \in Ino |-> IF j \in NamedIn(b) THEN b.text[j] ELSE EMPTY]
      /\ TextIn(e) = [j \in Ino |-> IF j \in NamedIn(e) THEN e.text[j] ELSE EMPTY]
  BY <1>1, <1>4, ShownText
<1>7. ASSUME e.etrs[d][s].dir PROVE TextIn(e) = TextIn(b)
  BY <1>1, <1>2, <1>5, <1>6, <1>7
<1>8. ASSUME ~e.etrs[d][s].dir PROVE TextIn(e) = [TextIn(b) EXCEPT ![i] = x]
  BY <1>1, <1>2, <1>5, <1>6, <1>8
<1> QED
  BY <1>4, <1>5, <1>7, <1>8

LEMMA CreatedFollows ==
  ASSUME NEW b, Whole(b), NEW p \in AllPaths, NEW d, d = Walk(b, p), NEW s, NEW i, NEW c,
         Created(b, c, d, s, i, Last(p)), NEW x \in Text \cup {EMPTY}, NEW e, Written(c, e, i, x),
         c.etrs[d][s].dir => x = EMPTY
  PROVE  Follows(b, e)
<1>1. Ok(b) /\ Reached(b) /\ TextsOf(b)
  BY DEF Whole
<1>2. Ok(e) /\ Grown(b, e, d, s) /\ Leads(e, p, d, s) /\ e.etrs = c.etrs /\ e.etrs[d][s].ino = i
  <2>1. e.etrs = c.etrs
    BY DEF Written
  <2>2. e.etrs[d][s].ino = i
    BY <2>1 DEF Created
  <2>3. Ok(e) /\ Grown(b, e, d, s) /\ Leads(e, p, d, s)
    BY <1>1, CreatedGrown
  <2> QED
    BY <2>1, <2>2, <2>3
<1>3. /\ TextsOf(e) /\ i \notin NamedIn(b)
      /\ e.etrs[d][s].dir => TextIn(e) = TextIn(b)
      /\ ~e.etrs[d][s].dir => TextIn(e) = [TextIn(b) EXCEPT ![i] = x]
  BY <1>1, CreatedTexts
<1>4. Reached(e)
  BY <1>1, <1>2, GrownReached
<1>5. CASE e.etrs[d][s].dir
  <2>1. Fs!Mkdir(Tree(b), Tree(e))
    BY <1>1, <1>2, <1>3, <1>5, MkdirTree
  <2> QED
    BY <1>2, <1>3, <1>4, <2>1 DEF Follows, Whole, Fs!Step
<1>6. CASE ~e.etrs[d][s].dir
  <2>1. Fs!Create(Tree(b), Tree(e))
    BY <1>1, <1>2, <1>3, <1>6, CreateTree
  <2> QED
    BY <1>2, <1>3, <1>4, <2>1 DEF Follows, Whole, Fs!Step
<1> QED
  BY <1>5, <1>6
\* A full directory: the new inode has no name, whatever is written into it.
LEMMA LostFollows ==
  ASSUME NEW b, Whole(b), NEW M, MountsInv(b, M), NEW d, NEW i, NEW c, Lost(b, c, d, i),
         NEW x, NEW e, Written(c, e, i, x)
  PROVE  Follows(b, e)
<1>1. Ok(b) /\ Reached(b) /\ TextsOf(b) /\ b \in Blkfs
  BY DEF Whole, Ok
<1>2. Taken(b, c, d, i)
  BY DEF Lost
<1>3. /\ i \in Ino \ {root} /\ c.refcnt[i] = 0 /\ b.refcnt[i] = NULL /\ c \in Blkfs
      /\ \A j \in Ino \ {i} : c.refcnt[j] = b.refcnt[j]
  BY <1>2 DEF Taken
<1>4. Ok(c)
  BY <1>1, LostOk
<1>5. Ok(e) /\ e \in Blkfs /\ e.refcnt = c.refcnt /\ e.etrs = c.etrs
  BY <1>4, SameNames DEF Written
<1>6. Fades(b, e)
  <2> SUFFICES ASSUME NEW g \in Ino, NEW r \in Slot
               PROVE  \/ e.etrs[g][r] = b.etrs[g][r]
                      \/ ~valid(b.etrs[g][r]) /\ e.etrs[g][r] = NoEntry
    BY DEF Fades
  <2>1. CASE g = d
    BY <1>5, <2>1 DEF Lost
  <2>2. CASE g = i
    BY <1>2, <1>5, <2>2 DEF Taken
  <2>3. CASE g \in Ino \ {i, d}
    BY <1>2, <1>5, <2>3 DEF Taken
  <2> QED
    BY <2>1, <2>2, <2>3
<1>7. SameShape(b, e) /\ Reached(e) /\ NamedIn(e) = NamedIn(b)
  BY <1>1, <1>5, <1>6, FadesShape
<1>8. e.text = [j \in Ino |-> IF j = i THEN x ELSE b.text[j]]
  <2>1. c.text = [j \in Ino |-> IF j = i THEN EMPTY ELSE b.text[j]]
    BY <1>1, <1>2, TextFun DEF Taken
  <2>2. e.text = [j \in Ino |-> IF j = i THEN x ELSE c.text[j]]
    BY <1>3, TextFun DEF Written
  <2> QED
    BY <2>1, <2>2
<1>9. \A j \in Ino : DirEntriesOf(b, j) = {} => DirEntriesOf(e, j) = {}
  <2> SUFFICES ASSUME NEW j \in Ino, DirEntriesOf(b, j) = {},
                      NEW g \in Ino, NEW r \in Slot, e.etrs[g][r].ino = j
               PROVE  ~e.etrs[g][r].dir
    BY Dirless
  <2>1. e.etrs[g][r] = b.etrs[g][r]
    BY <1>6, NoEntryType, Sizes DEF Fades
  <2> QED
    BY <2>1, Dirless
<1>10. EntriesOf(b, i) = {} /\ DirEntriesOf(b, i) = {}
  <2>1. EntriesOf(b, i) = {}
    BY <1>1, <1>3, Unused
  <2> QED
    BY <2>1, EntriesFinite
<1>11. TextsOf(e)
  <2> SUFFICES ASSUME NEW j \in Ino, e.text[j] # EMPTY
               PROVE  j # root /\ e.refcnt[j] # NULL /\ DirEntriesOf(e, j) = {}
    BY DEF TextsOf
  <2>1. CASE j = i
    BY <1>3, <1>5, <1>9, <1>10, <2>1, Sizes
  <2>2. CASE j # i
    <3>1. b.text[j] # EMPTY
      BY <1>8, <2>2
    <3>2. j # root /\ b.refcnt[j] # NULL /\ DirEntriesOf(b, j) = {}
      BY <1>1, <3>1 DEF TextsOf
    <3> QED
      BY <1>3, <1>5, <1>9, <2>2, <3>2
  <2> QED
    BY <2>1, <2>2
<1>12. TextIn(e) = TextIn(b)
  <2>1. i \notin NamedIn(b)
    BY <1>10, NotNamed
  <2>2. TextIn(b) = [j \in Ino |-> IF j \in NamedIn(b) THEN b.text[j] ELSE EMPTY]
    BY <1>1, ShownText
  <2>3. TextIn(e) = [j \in Ino |-> IF j \in NamedIn(b) THEN e.text[j] ELSE EMPTY]
    BY <1>5, <1>7, <1>11, ShownText
  <2> QED
    BY <1>8, <2>1, <2>2, <2>3
<1>13. Tree(e) = Tree(b)
  BY <1>7, <1>12, SameTree
<1> QED
  BY <1>5, <1>7, <1>11, <1>13 DEF Follows, Whole

\* The entry at the end of a path goes, and its inode and text with it.
LEMMA RemovedFollows ==
  ASSUME NEW b, Whole(b), NEW p \in AllPaths, NEW d, d = Walk(b, p), NEW s, NEW i, NEW c,
         Removed(b, c, d, s, i, Last(p))
  PROVE  Follows(b, c)
<1>1. Ok(b) /\ Reached(b) /\ TextsOf(b) /\ b \in Blkfs
  BY DEF Whole, Ok
<1>2. /\ Ok(c) /\ d \in Ino /\ s \in Slot /\ ~valid(c.etrs[d][s])
      /\ valid(b.etrs[d][s]) /\ b.etrs[d][s].name = Last(p)
  BY <1>1, RemovedOk
<1>3. /\ i \in Ino /\ b.etrs[d][s].ino = i /\ c.refcnt[i] = NULL
      /\ \A j \in Ino \ {i} : c.refcnt[j] = b.refcnt[j]
      /\ \A r \in Slot : ~valid(b.etrs[i][r])
  BY DEF Removed, Found
<1>4. Leads(b, p, d, s)
  BY <1>2 DEF Leads
<1>5. Grown(c, b, d, s)
  <2>1. ASSUME NEW g \in Ino, NEW r \in Slot
        PROVE  \/ g = d /\ r = s
               \/ b.etrs[g][r] = c.etrs[g][r]
               \/ ~valid(b.etrs[g][r]) /\ ~valid(c.etrs[g][r])
    <3>1. CASE g = i
      <4>1. ~valid(b.etrs[i][r]) /\ c.etrs[i][r] = NoEntry
        BY DEF Removed
      <4> QED
        BY <3>1, <4>1, NoEntryType DEF valid
    <3>2. CASE g # i
      BY <3>2 DEF Removed
    <3> QED
      BY <3>1, <3>2
  <2> QED
    BY <1>2, <1>3, <2>1 DEF Grown
<1>6. Reached(c)
  BY <1>1, <1>2, <1>4, <1>5, GrownReached
<1>7. c.text = [j \in Ino |-> IF j = i THEN EMPTY ELSE b.text[j]]
  BY <1>1, TextFun DEF Removed
<1>8. /\ b.etrs[d][s].dir => NamedIn(b) = NamedIn(c)
      /\ ~b.etrs[d][s].dir => NamedIn(b) = NamedIn(c) \cup {i}
      /\ \A j \in Ino : DirEntriesOf(b, j) = {} => DirEntriesOf(c, j) = {}
  BY <1>1, <1>2, <1>3, <1>5, GrownNamed
<1>9. TextsOf(c)
  <2> SUFFICES ASSUME NEW j \in Ino, c.text[j] # EMPTY
               PROVE  j # root /\ c.refcnt[j] # NULL /\ DirEntriesOf(c, j) = {}
    BY DEF TextsOf
  <2>1. j # i /\ b.text[j] # EMPTY
    BY <1>7
  <2>2. j # root /\ b.refcnt[j] # NULL /\ DirEntriesOf(b, j) = {}
    BY <1>1, <2>1 DEF TextsOf
  <2> QED
    BY <1>3, <1>8, <2>1, <2>2
<1>10. i \notin NamedIn(c)
  <2>1. EntriesOf(c, i) = {}
    BY <1>2, <1>3, Unused
  <2> QED
    BY <2>1, NotNamed
<1>11. /\ TextIn(b) = [j \in Ino |-> IF j \in NamedIn(b) THEN b.text[j] ELSE EMPTY]
       /\ TextIn(c) = [j \in Ino |-> IF j \in NamedIn(c) THEN c.text[j] ELSE EMPTY]
  BY <1>1, <1>2, <1>9, ShownText
<1>12. CASE b.etrs[d][s].dir
  <2>1. TextIn(b) = TextIn(c)
    BY <1>7, <1>8, <1>10, <1>11, <1>12
  <2>2. Fs!Rmdir(Tree(b), Tree(c))
    BY <1>1, <1>2, <1>4, <1>5, <1>12, <2>1, RmdirTree
  <2> QED
    BY <1>2, <1>6, <1>9, <2>2 DEF Follows, Whole, Fs!Step
<1>13. CASE ~b.etrs[d][s].dir
  <2>1. TextIn(c) = [j \in Ino |-> IF j \in NamedIn(c) THEN TextIn(b)[j] ELSE EMPTY]
    BY <1>7, <1>8, <1>10, <1>11, <1>13
  <2>2. Fs!Unlink(Tree(b), Tree(c))
    BY <1>1, <1>2, <1>4, <1>5, <1>6, <1>13, <2>1, UnlinkTree
  <2> QED
    BY <1>2, <1>6, <1>9, <2>2 DEF Follows, Whole, Fs!Step
<1> QED
  BY <1>12, <1>13
LEMMA StoredWritten ==
  ASSUME NEW b \in Blkfs, NEW i \in Ino, NEW t, t \in Text \cup {EMPTY}, NEW c, c = Stored(b, i, t)
  PROVE  Written(b, c, i, t)
<1>1. c \in Blkfs /\ c.refcnt = b.refcnt /\ c.etrs = b.etrs
  BY StoredIs
<1>2. b = [refcnt |-> b.refcnt, etrs |-> b.etrs, text |-> b.text]
  BY BlkfsFields
<1>3. c.text = [b.text EXCEPT ![i] = t]
  BY <1>2 DEF Stored
<1> QED
  BY <1>1, <1>3 DEF Written

\* A file gets one more name.
LEMMA LinkedFollows ==
  ASSUME NEW b, Whole(b), NEW q \in AllPaths, NEW d, d = Walk(b, q), d # NULL,
         NEW i, FileOf(b, i), NEW c, Ok(c), LinkAdds(b, c, d, i, Last(q))
  PROVE  Follows(b, c)
<1>1. Ok(b) /\ Reached(b) /\ TextsOf(b) /\ b \in Blkfs /\ c \in Blkfs
  BY DEF Whole, Ok
<1>2. PICK s \in Slot : IsFirst(s, FreeSlots(b, d)) /\ Linked(b, c, d, s, i, Last(q))
  BY DEF LinkAdds
<1>3. q \in Seq(Name) /\ q # <<>>
  BY PathsType
<1>4. d \in Ino
  BY <1>1, <1>3, WalkType
<1>5. i \in NamedIn(b) /\ i \in Ino /\ b.refcnt[i] # NULL
  <2>1. PICK e, r, name : Found(b, e, r, name, i) /\ ~b.etrs[e][r].dir
    BY DEF FileOf
  <2>2. i \in NamedIn(b)
    BY <2>1 DEF Found, NamedIn
  <2> QED
    BY <1>1, <2>2, NamedFile
<1>6. /\ c.etrs[d][s].name = Last(q) /\ c.etrs[d][s].ino = i /\ ~c.etrs[d][s].dir
      /\ valid(c.etrs[d][s]) /\ c.text = b.text /\ c.refcnt[i] = b.refcnt[i] + 1
      /\ \A j \in Ino \ {i} : c.refcnt[j] = b.refcnt[j]
  BY <1>2, <1>5, Sizes DEF Linked, valid
<1>7. Grown(b, c, d, s)
  <2>1. ~valid(b.etrs[d][s])
    BY <1>2 DEF IsFirst, FreeSlots
  <2> QED
    BY <1>2, <1>4, <1>6, <2>1 DEF Grown, Linked
<1>8. Leads(c, q, d, s)
  <2>1. Walk(c, q) = d
    BY <1>1, <1>3, <1>7, GrownWalk
  <2> QED
    BY <1>4, <1>6, <2>1 DEF Leads
<1>9. Reached(c)
  BY <1>1, <1>7, <1>8, GrownReached
<1>10. /\ NamedIn(c) = NamedIn(b)
       /\ \A j \in Ino : DirEntriesOf(b, j) = {} => DirEntriesOf(c, j) = {}
  <2>1. NamedIn(c) = NamedIn(b) \cup {i}
    BY <1>1, <1>6, <1>7, GrownNamed
  <2>2. \A j \in Ino : DirEntriesOf(b, j) = {} => DirEntriesOf(c, j) = {}
    BY <1>1, <1>6, <1>7, GrownNamed
  <2> QED
    BY <1>5, <2>1, <2>2
<1>11. c.refcnt[i] # NULL
  <2>1. b.refcnt[i] \in Nat
    BY <1>1, <1>5, BlkfsFields
  <2> QED
    BY <1>6, <2>1, Sizes
<1>12. TextsOf(c)
  <2> SUFFICES ASSUME NEW j \in Ino, c.text[j] # EMPTY
               PROVE  j # root /\ c.refcnt[j] # NULL /\ DirEntriesOf(c, j) = {}
    BY DEF TextsOf
  <2>1. j # root /\ b.refcnt[j] # NULL /\ DirEntriesOf(b, j) = {}
    BY <1>1, <1>6 DEF TextsOf
  <2> QED
    BY <1>6, <1>10, <1>11, <2>1
<1>13. TextIn(c) = TextIn(b)
  <2>1. TextIn(b) = [j \in Ino |-> IF j \in NamedIn(b) THEN b.text[j] ELSE EMPTY]
    BY <1>1, ShownText
  <2>2. TextIn(c) = [j \in Ino |-> IF j \in NamedIn(c) THEN c.text[j] ELSE EMPTY]
    BY <1>12, ShownText
  <2> QED
    BY <1>6, <1>10, <2>1, <2>2
<1>14. Fs!Link(Tree(b), Tree(c))
  BY <1>1, <1>5, <1>6, <1>7, <1>8, <1>13, LinkTree
<1> QED
  BY <1>9, <1>12, <1>14 DEF Follows, Whole, Fs!Step

\* A file with several names loses one.
LEMMA UnlinkedFollows ==
  ASSUME NEW b, Whole(b), NEW p \in AllPaths, NEW d, d = Walk(b, p),
         NEW i, NEW c, Ok(c), UnlinkTakes(b, c, d, i, Last(p))
  PROVE  Follows(b, c)
<1>1. Ok(b) /\ Reached(b) /\ TextsOf(b) /\ b \in Blkfs /\ c \in Blkfs
  BY DEF Whole, Ok
<1>2. PICK s : Found(b, d, s, Last(p), i) /\ ~b.etrs[d][s].dir /\ Unlinked(b, c, d, s, i)
  BY DEF UnlinkTakes
<1>3. /\ d \in Ino /\ s \in Slot /\ i \in Ino
      /\ b.etrs[d][s].name = Last(p) /\ b.etrs[d][s].ino = i /\ valid(b.etrs[d][s])
  BY <1>2, Sizes DEF Found, valid
<1>4. /\ ~valid(c.etrs[d][s]) /\ c.text = b.text /\ c.refcnt[i] = b.refcnt[i] - 1
      /\ \A j \in Ino \ {i} : c.refcnt[j] = b.refcnt[j]
  BY <1>2 DEF Unlinked
<1>5. Leads(b, p, d, s)
  BY <1>3 DEF Leads
<1>6. Grown(c, b, d, s)
  BY <1>2, <1>3, <1>4 DEF Grown, Unlinked
<1>7. Reached(c)
  BY <1>1, <1>5, <1>6, GrownReached
<1>8. /\ NamedIn(b) = NamedIn(c) \cup {i}
      /\ \A j \in Ino : DirEntriesOf(b, j) = {} => DirEntriesOf(c, j) = {}
  BY <1>1, <1>2, <1>3, <1>6, GrownNamed
<1>9. c.refcnt[i] # NULL
  <2>1. b.refcnt[i] \in Nat /\ b.refcnt[i] # 0
    BY <1>1, <1>2, FoundIs DEF UnlinkTakes
  <2>2. c.refcnt[i] \in Nat
    BY <1>4, <2>1
  <2> QED
    BY <2>2, Sizes
<1>10. TextsOf(c)
  <2> SUFFICES ASSUME NEW j \in Ino, c.text[j] # EMPTY
               PROVE  j # root /\ c.refcnt[j] # NULL /\ DirEntriesOf(c, j) = {}
    BY DEF TextsOf
  <2>1. j # root /\ b.refcnt[j] # NULL /\ DirEntriesOf(b, j) = {}
    BY <1>1, <1>4 DEF TextsOf
  <2> QED
    BY <1>4, <1>8, <1>9, <2>1
<1>11. TextIn(c) = [j \in Ino |-> IF j \in NamedIn(c) THEN TextIn(b)[j] ELSE EMPTY]
  <2>1. TextIn(b) = [j \in Ino |-> IF j \in NamedIn(b) THEN b.text[j] ELSE EMPTY]
    BY <1>1, ShownText
  <2>2. TextIn(c) = [j \in Ino |-> IF j \in NamedIn(c) THEN c.text[j] ELSE EMPTY]
    BY <1>10, ShownText
  <2> QED
    BY <1>4, <1>8, <2>1, <2>2
<1>12. Fs!Unlink(Tree(b), Tree(c))
  BY <1>1, <1>2, <1>5, <1>6, <1>7, <1>11, UnlinkTree
<1> QED
  BY <1>7, <1>10, <1>12 DEF Follows, Whole, Fs!Step
LEMMA SelfFollows == ASSUME NEW b, Whole(b) PROVE Follows(b, b)
BY DEF Follows

LEMMA TakenWritten ==
  ASSUME NEW b \in Blkfs, NEW c, NEW d, NEW i, Taken(b, c, d, i)
  PROVE  Written(c, c, i, EMPTY)
<1>1. c \in Blkfs /\ c.text = [b.text EXCEPT ![i] = EMPTY]
  BY DEF Taken
<1>2. c.text = [j \in Ino |-> IF j = i THEN EMPTY ELSE b.text[j]]
  BY <1>1, TextFun
<1>3. [c.text EXCEPT ![i] = EMPTY] = [j \in Ino |-> IF j = i THEN EMPTY ELSE c.text[j]]
  BY <1>1, TextFun
<1>4. [c.text EXCEPT ![i] = EMPTY] = c.text
  BY <1>2, <1>3
<1> QED
  BY <1>1, <1>4 DEF Written

LEMMA CreateFollows ==
  ASSUME NEW b, Whole(b), NEW M, MountsInv(b, M), NEW p \in AllPaths, NEW dir \in BOOLEAN,
         NEW res, res = Create(b, p, dir)
  PROVE  Follows(b, res.fs)
<1> DEFINE d == Walk(b, p)
           c == res.fs
           i == res.ino
<1>0. d = Walk(b, p) /\ Ok(b) /\ b \in Blkfs /\ p \in Seq(Name) /\ p # <<>>
  BY PathsType DEF Whole, Ok
<1>1. \/ c = b
      \/ Lost(b, c, d, i)
      \/ \E s \in Slot : Created(b, c, d, s, i, Last(p)) /\ c.etrs[d][s].dir = dir
  BY <1>0, CreateIs
<1> SUFFICES Follows(b, c)
  OBVIOUS
<1> HIDE DEF d, c, i
<1>2. CASE c = b
  BY <1>2, SelfFollows
<1>3. CASE Lost(b, c, d, i)
  <2>1. Written(c, c, i, EMPTY)
    BY <1>0, <1>3, TakenWritten DEF Lost
  <2> QED
    BY <1>3, <2>1, LostFollows
<1>4. ASSUME NEW s \in Slot, Created(b, c, d, s, i, Last(p)) PROVE Follows(b, c)
  <2>1. Written(c, c, i, EMPTY)
    BY <1>0, <1>4, TakenWritten DEF Created
  <2> DEFINE x == EMPTY
  <2>2. x \in Text \cup {EMPTY} /\ Written(c, c, i, x) /\ x = EMPTY
    BY <2>1
  <2> HIDE DEF x
  <2> QED
    BY <1>0, <1>4, <2>2, CreatedFollows
<1> QED
  BY <1>1, <1>2, <1>3, <1>4

\* A file is created, unless there is one, and written.
LEMMA CreateWriteFollows ==
  ASSUME NEW b, Whole(b), NEW M, MountsInv(b, M), NEW p \in AllPaths, NEW dir \in BOOLEAN, dir = FALSE,
         NEW res, res = Create(b, p, dir), res.ino \in Ino,
         NEW t, t \in Text \cup {EMPTY}, NEW e, e = Stored(res.fs, res.ino, t)
  PROVE  Follows(b, e)
<1> DEFINE d == Walk(b, p)
           c == res.fs
           i == res.ino
<1>0. d = Walk(b, p) /\ Ok(b) /\ b \in Blkfs /\ p \in Seq(Name) /\ p # <<>>
  BY PathsType DEF Whole, Ok
<1>1. \/ c = b /\ i = Lookup(b, p, FALSE)
      \/ Lost(b, c, d, i)
      \/ \E s \in Slot : Created(b, c, d, s, i, Last(p)) /\ c.etrs[d][s].dir = dir
  <2>1. i # NULL
    BY Sizes
  <2> HIDE DEF d
  <2>2. \/ c = b /\ (i = NULL \/ i = Lookup(b, p, dir))
        \/ Lost(b, c, d, i)
        \/ \E s \in Slot : Created(b, c, d, s, i, Last(p)) /\ c.etrs[d][s].dir = dir
    BY <1>0, CreateIs
  <2> QED
    BY <2>1, <2>2
<1>2. e = Stored(c, i, t) /\ i \in Ino
  OBVIOUS
<1> HIDE DEF d, c, i
<1>3. CASE c = b /\ i = Lookup(b, p, FALSE)
  <2>1. i \in NamedIn(b)
    <3>1. Lookup(b, p, FALSE) # NULL
      BY <1>2, <1>3, Sizes
    <3>2. \E g, s : Found(b, g, s, Last(p), i) /\ ~b.etrs[g][s].dir
      BY <1>0, <1>3, <3>1, FileFound
    <3> QED
      BY <3>2 DEF Found, NamedIn
  <2>2. Written(b, e, i, t)
    BY <1>0, <1>2, <1>3, StoredWritten
  <2> QED
    BY <2>1, <2>2, StoredFollows
<1>4. CASE Lost(b, c, d, i)
  <2>1. c \in Blkfs
    BY <1>4 DEF Lost, Taken
  <2>2. Written(c, e, i, t)
    BY <1>2, <2>1, StoredWritten
  <2> QED
    BY <1>4, <2>2, LostFollows
<1>5. ASSUME NEW s \in Slot, Created(b, c, d, s, i, Last(p)), c.etrs[d][s].dir = dir PROVE Follows(b, e)
  <2>1. c \in Blkfs /\ ~c.etrs[d][s].dir
    BY <1>5 DEF Created, Taken
  <2>2. Written(c, e, i, t)
    BY <1>2, <2>1, StoredWritten
  <2> QED
    BY <1>0, <1>5, <2>1, <2>2, CreatedFollows
<1> QED
  BY <1>1, <1>3, <1>4, <1>5

LEMMA RemoveFollows ==
  ASSUME NEW b, Whole(b), NEW p \in AllPaths, NEW dir \in BOOLEAN,
         NEW i, i = Lookup(b, p, dir), ~dir /\ i # NULL => b.refcnt[i] = 0,
         NEW c, c = Remove(b, p, dir)
  PROVE  Follows(b, c)
<1> DEFINE d == Walk(b, p)
<1>0. d = Walk(b, p) /\ Ok(b) /\ p \in Seq(Name)
  BY PathsType DEF Whole
<1> HIDE DEF d
<1>1. \/ c = b
      \/ \E s \in Slot : Removed(b, c, d, s, i, Last(p))
  BY <1>0, RemoveIs
<1>2. CASE c = b
  BY <1>2, SelfFollows
<1>3. CASE \E s \in Slot : Removed(b, c, d, s, i, Last(p))
  BY <1>0, <1>3, RemovedFollows
<1> QED
  BY <1>1, <1>2, <1>3
-----------------------------------------------------------------------------
(* What each command does to the tree.                                       *)

Shows == intact' => Follows(blkfs, blkfs')

LEMMA Live ==
  ASSUME TreeInv, ended = NULL
  PROVE  Whole(blkfs) /\ MountsInv(blkfs, mnt) /\ Ok(blkfs)
<1>1. intact /\ IInv
  BY VfsAssumption DEF TreeInv, intact, Spoilt
<1>2. Ok(blkfs) /\ MountsInv(blkfs, mnt)
  BY <1>1, Running
<1> QED
  BY <1>1, <1>2 DEF TreeInv, Whole

LEMMA BecomesShows ==
  ASSUME NEW c, Becomes(c), Follows(blkfs, c)
  PROVE  Shows
<1>1. blkfs' = c
  BY DEF Becomes
<1> QED
  BY <1>1 DEF Shows

\* A disk that is spoilt shows nothing.
LEMMA SpoiltShows ==
  ASSUME NEW c, NEW where \in Spoilt, Ends(c, where)
  PROVE  Shows
BY DEF Ends, Shows, intact

LEMMA InPaths == ASSUME NEW p \in Path PROVE p \in AllPaths
BY DEF AllPaths

LEMMA MkdirShows ==
  ASSUME TreeInv, NEW p \in Path, cmd_mkdir(p) PROVE Shows
<1>1. Whole(blkfs) /\ MountsInv(blkfs, mnt) /\ Becomes(vfsmkdir(p))
  BY Live DEF cmd_mkdir, Becomes
<1>2. CASE vfsmkdir(p) = blkfs
  BY <1>1, <1>2, SelfFollows, BecomesShows
<1>3. CASE vfsmkdir(p) # blkfs
  <2>1. vfsmkdir(p) = Create(blkfs, p, TRUE).fs
    BY <1>3 DEF vfsmkdir
  <2>2. Follows(blkfs, Create(blkfs, p, TRUE).fs)
    BY <1>1, InPaths, CreateFollows
  <2> QED
    BY <1>1, <2>1, <2>2, BecomesShows
<1> QED
  BY <1>2, <1>3

LEMMA RmdirShows ==
  ASSUME TreeInv, NEW p \in Path, cmd_rmdir(p) PROVE Shows
<1>1. Whole(blkfs) /\ Becomes(vfsrmdir(p))
  BY Live DEF cmd_rmdir, Becomes
<1>2. CASE Denied(p)
  BY <1>1, <1>2, SelfFollows, BecomesShows DEF vfsrmdir
<1>3. CASE ~Denied(p)
  <2>1. vfsrmdir(p) = Remove(blkfs, p, TRUE)
    BY <1>3 DEF vfsrmdir
  <2>2. Follows(blkfs, Remove(blkfs, p, TRUE))
    BY <1>1, InPaths, RemoveFollows, Zenon
  <2> QED
    BY <1>1, <2>1, <2>2, BecomesShows
<1> QED
  BY <1>2, <1>3

LEMMA RmShows ==
  ASSUME TreeInv, NEW p \in Path, cmd_rm(p) PROVE Shows
<1> DEFINE i == Lookup(blkfs, p, FALSE)
<1>0. ended = NULL
  BY DEF cmd_rm, Becomes, Ends
<1>1. Whole(blkfs) /\ MountsInv(blkfs, mnt) /\ Ok(blkfs) /\ p \in Seq(Name) /\ p # <<>> /\ p \in AllPaths
  BY <1>0, Live, Allowed, InPaths
<1>2. CASE UnlinkAsserts(p)
  <2>1. Ends(vfsunlink(p), "vfsunlink") /\ "vfsunlink" \in Spoilt
    BY <1>2 DEF cmd_rm, Spoilt
  <2> QED
    BY <2>1, SpoiltShows
<1>3. CASE ~UnlinkAsserts(p)
  <2>0. Becomes(vfsunlink(p))
    BY <1>3 DEF cmd_rm
  <2>1. Follows(blkfs, vfsunlink(p))
    <3>1. CASE Denied(p) \/ i = NULL
      BY <1>1, <3>1, SelfFollows DEF vfsunlink
    <3>2. CASE ~Denied(p) /\ i # NULL /\ LastName(i)
      <4>1. vfsunlink(p) = Remove(blkfs, p, FALSE)
        BY <3>2 DEF vfsunlink
      <4>2. blkfs.refcnt[i] = 0
        BY <3>2 DEF LastName
      <4>3. Follows(blkfs, Remove(blkfs, p, FALSE))
        BY <1>1, <4>2, RemoveFollows, Zenon
      <4> QED
        BY <4>1, <4>3
    <3>3. CASE ~Denied(p) /\ i # NULL /\ ~LastName(i)
      <4>1. vfsunlink(p) = Unnamed(p, i)
        BY <3>3 DEF vfsunlink
      <4>2. Lookup(blkfs, Parent(p), TRUE) # NULL /\ p[1] \notin Mountable
        BY <1>3, <3>3 DEF UnlinkAsserts, Denied
      <4>3. UnlinkTakes(blkfs, Unnamed(p, i), Walk(blkfs, p), i, Last(p))
        BY <1>1, <3>3, <4>2, UnnamedIs, Zenon
      <4>4. Ok(Unnamed(p, i))
        BY <1>1, <3>3, <4>2, UnnamedKeeps, Zenon DEF Keeps
      <4>5. Follows(blkfs, Unnamed(p, i))
        BY <1>1, <4>3, <4>4, UnlinkedFollows, Zenon
      <4> QED
        BY <4>1, <4>5
    <3> QED
      BY <3>1, <3>2, <3>3
  <2> QED
    BY <2>0, <2>1, BecomesShows
<1> QED
  BY <1>2, <1>3

LEMMA LinkShows ==
  ASSUME TreeInv, NEW p \in Path, NEW q \in Path, cmd_link(p, q) PROVE Shows
<1> DEFINE c == vfslink(p, q)
           d == Walk(blkfs, q)
           i == Lookup(blkfs, p, FALSE)
<1>s. CASE Lookup(blkfs, q, TRUE) # NULL
  <2>1. Ends(c, "vfslink") /\ "vfslink" \in Spoilt
    BY <1>s DEF cmd_link, Spoilt
  <2> QED
    BY <2>1, SpoiltShows
<1> SUFFICES ASSUME Lookup(blkfs, q, TRUE) = NULL PROVE Shows
  BY <1>s
<1>0. Becomes(c) /\ Lookup(blkfs, q, TRUE) = NULL
  BY DEF cmd_link
<1>1. Whole(blkfs) /\ MountsInv(blkfs, mnt) /\ Ok(blkfs)
  BY <1>0, Live DEF Becomes
<1>2. p \in Seq(Name) /\ q \in Seq(Name) /\ q # <<>> /\ q \in AllPaths
  BY Allowed, InPaths
<1>3. Ok(c)
  <2>1. Keeps(blkfs, vfslink(p, q), mnt)
    BY <1>0, <1>1, <1>2, LinkKeeps
  <2> QED
    BY <2>1 DEF Keeps
<1>4. \/ c = blkfs
      \/ d # NULL /\ FileOf(blkfs, i) /\ LinkAdds(blkfs, c, d, i, Last(q))
  BY <1>0, <1>1, <1>2, LinkIs, Zenon
<1>5. d = Walk(blkfs, q)
  OBVIOUS
<1> HIDE DEF c, d, i
<1>6. CASE c = blkfs
  BY <1>0, <1>1, <1>6, SelfFollows, BecomesShows
<1>7. CASE d # NULL /\ FileOf(blkfs, i) /\ LinkAdds(blkfs, c, d, i, Last(q))
  <2>1. Follows(blkfs, c)
    BY <1>1, <1>2, <1>3, <1>5, <1>7, LinkedFollows
  <2> QED
    BY <1>0, <2>1, BecomesShows
<1> QED
  BY <1>4, <1>6, <1>7

LEMMA TouchShows ==
  ASSUME TreeInv, NEW p \in Path, cmd_touch(p) PROVE Shows
<1>1. Whole(blkfs) /\ MountsInv(blkfs, mnt) /\ Becomes(Create(blkfs, p, FALSE).fs)
  BY Live DEF cmd_touch, Becomes
<1>2. Follows(blkfs, Create(blkfs, p, FALSE).fs)
  BY <1>1, InPaths, CreateFollows
<1> QED
  BY <1>1, <1>2, BecomesShows

LEMMA EchoOverShows ==
  ASSUME TreeInv, NEW p \in Path, NEW t \in Text, EchoOver(p, t) PROVE Shows
<1> DEFINE i == Lookup(blkfs, p, FALSE)
           c == Stored(blkfs, i, t)
<1>0. ended = NULL /\ i # NULL
  BY DEF EchoOver, Becomes, Ends
<1>1. Whole(blkfs) /\ Ok(blkfs) /\ blkfs \in Blkfs /\ p \in Seq(Name)
  BY <1>0, Live, Allowed DEF Ok
<1>2. \E d, s : Found(blkfs, d, s, Last(p), i) /\ ~blkfs.etrs[d][s].dir
  BY <1>0, <1>1, FileFound
<1>3. \/ Becomes(c)
      \/ blkfs' = blkfs
  BY DEF EchoOver, Ends
<1>4. c = Stored(blkfs, i, t)
  OBVIOUS
<1> HIDE DEF i, c
<1>5. i \in NamedIn(blkfs) /\ i \in Ino
  BY <1>2 DEF Found, NamedIn
<1>6. CASE Becomes(c)
  <2>1. t \in Text \cup {EMPTY}
    OBVIOUS
  <2>2. Written(blkfs, c, i, t)
    BY <1>1, <1>4, <1>5, <2>1, StoredWritten
  <2>3. Follows(blkfs, c)
    BY <1>1, <1>5, <2>1, <2>2, StoredFollows
  <2> QED
    BY <1>6, <2>3, BecomesShows
<1>7. CASE blkfs' = blkfs
  BY <1>1, <1>7, SelfFollows DEF Shows
<1> QED
  BY <1>3, <1>6, <1>7

LEMMA WriteShows ==
  ASSUME TreeInv, NEW p \in Path, NEW t, t \in Text \cup {EMPTY},
         NEW res, res = Create(blkfs, p, FALSE), NEW c, Becomes(c), ~Denied(p),
         c = res.fs \/ (res.ino # NULL /\ c = Stored(res.fs, res.ino, t))
  PROVE  Shows
<1>1. Whole(blkfs) /\ MountsInv(blkfs, mnt) /\ Ok(blkfs) /\ p \in AllPaths
  BY Live, InPaths DEF Becomes
<1>2. CASE c = res.fs
  <2>1. Follows(blkfs, res.fs)
    BY <1>1, CreateFollows
  <2> QED
    BY <1>2, <2>1, BecomesShows
<1>3. CASE res.ino # NULL /\ c = Stored(res.fs, res.ino, t)
  <2>1. res.ino \in Ino \cup {NULL}
    BY <1>1, Allowed, CreateKeeps, Zenon
  <2> DEFINE dir == FALSE
  <2>2. res.ino \in Ino /\ dir \in BOOLEAN /\ dir = FALSE /\ res = Create(blkfs, p, dir)
    BY <1>3, <2>1
  <2> HIDE DEF dir
  <2>3. Follows(blkfs, c)
    BY <1>1, <1>3, <2>2, CreateWriteFollows
  <2> QED
    BY <2>3, BecomesShows
<1> QED
  BY <1>2, <1>3

LEMMA EchoNewShows ==
  ASSUME TreeInv, NEW p \in Path, NEW t \in Text, EchoNew(p, t) PROVE Shows
<1> DEFINE res == Create(blkfs, p, FALSE)
           c == IF res.ino # NULL /\ CanOpen(1) THEN Stored(res.fs, res.ino, t) ELSE res.fs
<1>1. ~Denied(p) /\ Becomes(c) /\ t \in Text \cup {EMPTY}
  BY DEF EchoNew
<1>2. c = res.fs \/ (res.ino # NULL /\ c = Stored(res.fs, res.ino, t))
  <2> HIDE DEF res
  <2> QED
    OBVIOUS
<1> HIDE DEF c
<1> QED
  BY <1>1, <1>2, WriteShows

LEMMA CatShows ==
  ASSUME TreeInv, NEW p \in Path, NEW q \in Path, cmd_cat(p, q) PROVE Shows
<1> DEFINE res == Create(blkfs, q, FALSE)
           i == Lookup(blkfs, p, FALSE)
           t == blkfs.text[i]
           c == IF res.ino # NULL /\ CanOpen(2) THEN Stored(res.fs, res.ino, t) ELSE res.fs
<1>1. ~Denied(q) /\ i # NULL /\ Becomes(c)
  BY DEF cmd_cat
<1>2. c = res.fs \/ (res.ino # NULL /\ c = Stored(res.fs, res.ino, t))
  <2> HIDE DEF res, t
  <2> QED
    OBVIOUS
<1> HIDE DEF c
<1>3. Ok(blkfs) /\ p \in Seq(Name)
  BY <1>1, Live, Allowed DEF Becomes
<1>4. t \in Text \cup {EMPTY}
  <2>1. i \in Ino
    BY <1>1, <1>3, FileFound DEF Found
  <2> HIDE DEF i
  <2> QED
    BY <1>3, <2>1, BlkfsFields DEF Ok
<1> HIDE DEF t
<1> QED
  BY <1>1, <1>2, <1>4, WriteShows

LEMMA CatOtherShows ==
  ASSUME TreeInv, NEW q \in Path, CatOther(q) PROVE Shows
<1> DEFINE res == Create(blkfs, q, FALSE)
           written(t) == IF res.ino # NULL /\ CanOpen(2) THEN Stored(res.fs, res.ino, t) ELSE res.fs
<1>1. ~Denied(q) /\ \E t \in Text \cup {EMPTY} : Becomes(written(t))
  BY DEF CatOther
<1>2. PICK t : t \in Text \cup {EMPTY} /\ Becomes(written(t))
  BY <1>1
<1> DEFINE c == written(t)
<1>3. c = res.fs \/ (res.ino # NULL /\ c = Stored(res.fs, res.ino, t))
  <2> HIDE DEF res
  <2> QED
    OBVIOUS
<1>4. Becomes(c)
  BY <1>2
<1> HIDE DEF c
<1> QED
  BY <1>1, <1>2, <1>3, <1>4, WriteShows

LEMMA CatDeviceShows ==
  ASSUME TreeInv, NEW q \in Path, CatDevice(q) PROVE Shows
<1>1. Whole(blkfs) /\ MountsInv(blkfs, mnt) /\ Becomes(Create(blkfs, q, FALSE).fs)
  BY Live DEF CatDevice, Becomes
<1>2. Follows(blkfs, Create(blkfs, q, FALSE).fs)
  BY <1>1, InPaths, CreateFollows
<1> QED
  BY <1>1, <1>2, BecomesShows

LEMMA CatOverShows ==
  ASSUME TreeInv, NEW p \in Path, CatOver(p) PROVE Shows
BY SpoiltShows DEF CatOver, Spoilt

LEMMA MntShows ==
  ASSUME TreeInv, NEW m \in Mountable, cmd_mnt(m) \/ cmd_unmnt(m) PROVE Shows
<1> DEFINE p == <<m>>
<1>1. /\ ended = NULL
      /\ blkfs' = Create(blkfs, p, TRUE).fs \/ blkfs' = Remove(blkfs, p, TRUE)
  BY DEF cmd_mnt, cmd_unmnt
<1>2. Whole(blkfs) /\ MountsInv(blkfs, mnt) /\ p \in AllPaths
  BY <1>1, Live DEF AllPaths
<1> HIDE DEF p
<1>3. Follows(blkfs, Create(blkfs, p, TRUE).fs)
  BY <1>2, CreateFollows
<1>4. Follows(blkfs, Remove(blkfs, p, TRUE))
  BY <1>2, RemoveFollows, Zenon
<1> QED
  BY <1>1, <1>3, <1>4 DEF Shows

LEMMA DeviceShows ==
  ASSUME TreeInv, (\E m \in Mountable : EchoDevice(m)) \/ EchoRefused \/ EchoDisk PROVE Shows
<1>1. ended = NULL /\ blkfs' = blkfs
  BY DEF EchoDevice, EchoRefused, EchoDisk, Ends
<1> QED
  BY <1>1, Live, SelfFollows DEF Shows

LEMMA NextShows ==
  ASSUME TreeInv, Next
  PROVE  Shows
<1>1. ASSUME NEW p \in Path,
             \/ cmd_mkdir(p) \/ cmd_rmdir(p) \/ cmd_rm(p) \/ cmd_touch(p)
             \/ CatOther(p) \/ CatDevice(p) \/ CatOver(p)
             \/ \E t \in Text : EchoOver(p, t) \/ EchoNew(p, t)
             \/ \E q \in Path : cmd_link(p, q) \/ cmd_cat(p, q)
      PROVE  Shows
  <2>1. CASE cmd_mkdir(p)
    BY <2>1, MkdirShows
  <2>2. CASE cmd_rmdir(p)
    BY <2>2, RmdirShows
  <2>3. CASE cmd_rm(p)
    BY <2>3, RmShows
  <2>4. CASE cmd_touch(p)
    BY <2>4, TouchShows
  <2>5. CASE \E t \in Text : EchoOver(p, t) \/ EchoNew(p, t)
    BY <2>5, EchoOverShows, EchoNewShows
  <2>6. CASE \E q \in Path : cmd_link(p, q) \/ cmd_cat(p, q)
    BY <2>6, LinkShows, CatShows
  <2>7. CASE CatOther(p) \/ CatDevice(p) \/ CatOver(p)
    BY <2>7, CatOtherShows, CatDeviceShows, CatOverShows
  <2> QED
    BY <1>1, <2>1, <2>2, <2>3, <2>4, <2>5, <2>6, <2>7
<1>2. ASSUME NEW m \in Mountable, cmd_mnt(m) \/ cmd_unmnt(m) \/ EchoDevice(m)
      PROVE  Shows
  BY <1>2, MntShows, DeviceShows
<1>3. CASE EchoRefused \/ EchoDisk
  BY <1>3, DeviceShows
<1> QED
  BY <1>1, <1>2, <1>3 DEF Next

\* The tree of a new disk.
LEMMA BegunShows ==
  ASSUME NEW b, Begun(b)
  PROVE  /\ Whole(b)
         /\ DirsIn(b) \subseteq {p \in AllPaths : Len(p) = 1}
         /\ FilesIn(b) = {} /\ TextIn(b) = [i \in Ino |-> EMPTY]
<1>1. Ok(b)
  BY BegunOk
<1>2. ASSUME NEW d \in Ino, NEW s \in Slot, valid(b.etrs[d][s])
      PROVE  d = root /\ b.etrs[d][s].dir /\ b.etrs[d][s].name \in Mountable
  <2> DEFINE K == Cardinality(Mountable)
  <2>1. b.etrs[d][s] # NoEntry
    BY <1>2, NoEntryType DEF valid
  <2>2. d = root
    BY <2>1 DEF Begun
  <2>3. s \in Nat /\ K \in Nat /\ ~(s >= K)
    BY <2>1, <2>2, Sizes DEF Begun
  <2>4. s < K
    <3> HIDE DEF K
    <3> QED
      BY <2>3
  <2> QED
    BY <2>2, <2>4 DEF Begun
<1>3. Reached(b)
  <2> SUFFICES ASSUME NEW d \in Ino, NEW s \in Slot, valid(b.etrs[d][s])
               PROVE  \E p \in AllPaths : Walk(b, p) = d /\ Last(p) = b.etrs[d][s].name
    BY DEF Reached
  <2> DEFINE m == b.etrs[d][s].name
             p == <<m>>
  <2>1. d = root /\ m \in Mountable
    BY <1>2
  <2>2. p \in AllPaths
    BY <2>1 DEF AllPaths
  <2>3. Len(p) = 1 /\ p[1] = m
    OBVIOUS
  <2> HIDE DEF p
  <2>4. Walk(b, p) = root /\ Last(p) = p[1]
    BY <1>1, <2>3, OnePath DEF Ok
  <2> QED
    BY <2>1, <2>2, <2>3, <2>4
<1>4. TextsOf(b)
  BY DEF TextsOf, Begun
<1>5. ASSUME NEW p \in DirsIn(b) PROVE Len(p) = 1
  <2>1. PICK d \in Ino, s \in Slot : Leads(b, p, d, s)
    BY DEF DirsIn, IsAt
  <2>2. Walk(b, p) = root
    BY <1>2, <2>1 DEF Leads
  <2>3. p \in Seq(Name) /\ p # <<>>
    BY PathsType DEF DirsIn
  <2>4. Parent(p) = <<>>
    BY <1>1, <2>2, <2>3, RootOnly
  <2>5. Len(Parent(p)) = 0
    BY <2>4
  <2> DEFINE n == Len(p)
  <2>6. n \in Nat /\ n - 1 = 0
    BY <2>3, <2>5, ParentIs
  <2> HIDE DEF n
  <2>7. n = 1
    BY <2>6
  <2> QED
    BY <2>7 DEF n
<1>6. FilesIn(b) = {}
  <2>1. \A p \in AllPaths : ~IsAt(b, p, FALSE)
    <3> SUFFICES ASSUME NEW p, NEW d, NEW s, Leads(b, p, d, s), ~b.etrs[d][s].dir PROVE FALSE
      BY DEF IsAt
    <3> QED
      BY <1>2 DEF Leads
  <2> QED
    BY <2>1 DEF FilesIn
<1>7. TextIn(b) = [i \in Ino |-> EMPTY]
  BY DEF TextIn, Begun
<1> QED
  BY <1>1, <1>3, <1>4, <1>5, <1>6, <1>7 DEF Whole, DirsIn

LEMMA InitShows == ASSUME Init PROVE TreeInv /\ Fs!Init
<1>1. Begun(blkfs) /\ IInv
  BY InitBegun, InitInv
<1>2. /\ Whole(blkfs) /\ DirsIn(blkfs) \subseteq {p \in AllPaths : Len(p) = 1}
      /\ FilesIn(blkfs) = {} /\ TextIn(blkfs) = [i \in Ino |-> EMPTY]
  BY <1>1, BegunShows
<1>3. TreeInv
  BY <1>1, <1>2 DEF TreeInv, Whole
<1>4. TreeNow = Tree(blkfs)
  BY <1>1, TreeIs DEF Begun
<1>5. TreeNow.dirs = DirsIn(blkfs) /\ TreeNow.files = FileMap(blkfs) /\ TreeNow.text = TextIn(blkfs)
  BY <1>4, TreeFields
<1>6. FileMap(blkfs) = <<>>
  BY <1>2 DEF FileMap
<1>7. /\ TreeNow.dirs \subseteq {p \in AllPaths : Len(p) = 1}
      /\ TreeNow.files = <<>> /\ TreeNow.text = [i \in Ino |-> EMPTY]
  BY <1>2, <1>5, <1>6
<1>8. intact
  BY VfsAssumption DEF Init, intact, Spoilt
<1>9. Fs!Init
  BY <1>7, <1>8, Zenon DEF Fs!Init, TreeNow
<1> QED
  BY <1>3, <1>9

\* What a step does to the tree, and to whether there is one.
TreeStep ==
  \/ /\ intact
     /\ ~intact' \/ Fs!Step(Tree(blkfs), Tree(blkfs')) \/ Tree(blkfs') = Tree(blkfs)
  \/ intact' = intact /\ Tree(blkfs') = Tree(blkfs)

\* A run that has ended has no steps.
LEMMA NextIntact == ASSUME Next PROVE intact
<1>1. ended = NULL
  BY DEF Next, Becomes, Ends, cmd_mkdir, cmd_rmdir, cmd_rm, cmd_touch, cmd_link, cmd_cat,
         CatOther, CatDevice, CatOver, EchoOver, EchoNew, cmd_mnt, cmd_unmnt, EchoDevice,
         EchoRefused, EchoDisk
<1> QED
  BY <1>1, VfsAssumption DEF intact, Spoilt

LEMMA TreeInductive ==
  ASSUME TreeInv, [Next]_vars
  PROVE  TreeInv' /\ TreeStep
<1>0. IInv'
  BY Inductive DEF TreeInv
<1>1. CASE Next
  <2>1. Shows /\ intact
    BY <1>1, NextShows, NextIntact
  <2>2. CASE Follows(blkfs, blkfs')
    BY <1>0, <2>1, <2>2 DEF TreeInv, Follows, Whole, TreeStep
  <2>3. CASE ~intact'
    BY <1>0, <2>1, <2>3 DEF TreeInv, TreeStep
  <2> QED
    BY <2>1, <2>2, <2>3 DEF Shows
<1>2. CASE UNCHANGED vars
  <2>1. blkfs' = blkfs /\ intact' = intact
    BY <1>2 DEF vars, intact
  <2> QED
    BY <1>0, <2>1 DEF TreeInv, TreeStep
<1> QED
  BY <1>1, <1>2

\* Until they spoil the disk, commands keep the promises of a tree with hard
\* links: each does one change as a whole or none, all the names of a file show
\* its text whatever happens to other names, and an inode used again shows nothing
\* of the file it was before (vfs.c, fslookup, vfslink and vfsunlink; cmd.c).
THEOREM ImplementsFsSpec == Spec => RefinesFs
<1>1. Init => TreeInv /\ Fs!Init
  BY InitShows
<1>2. TreeInv /\ [Next]_vars => TreeInv' /\ TreeStep
  BY TreeInductive
<1>3. TreeInv => TreeNow = Tree(blkfs)
  BY TreeIs DEF TreeInv, IInv, TypeOK
<1>4. TreeNow = Tree(blkfs) /\ (TreeNow = Tree(blkfs))' /\ TreeStep => [Fs!Next]_<<intact, TreeNow>>
  <2> SUFFICES ASSUME TreeNow = Tree(blkfs), TreeNow' = Tree(blkfs'), TreeStep
               PROVE  [Fs!Next]_<<intact, TreeNow>>
    OBVIOUS
  <2>0. intact \in BOOLEAN /\ intact' \in BOOLEAN
    BY DEF intact
  <2>1. \/ intact /\ ~intact'
        \/ intact /\ intact' /\ Fs!Step(TreeNow, TreeNow')
        \/ intact' = intact /\ TreeNow' = TreeNow
    BY <2>0 DEF TreeStep
  <2>2. ASSUME intact, ~intact' PROVE Fs!Next
    BY <2>2 DEF Fs!Next
  <2>3. ASSUME intact, intact', Fs!Step(TreeNow, TreeNow') PROVE Fs!Next
    BY <2>3, Zenon DEF Fs!Next, TreeNow
  <2> QED
    BY <2>1, <2>2, <2>3
<1> QED
  BY <1>1, <1>2, <1>3, <1>4, PTL DEF Spec, RefinesFs, Fs!Spec, TreeNow
=============================================================================
