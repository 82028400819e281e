-------------------------- MODULE TtyScreenProofs ---------------------------
(* Theorems about TtyScreen: the cursor stays on the screen, the terminals   *)
(* keep the last lines of what was written, and the display catches up.      *)
EXTENDS TtyScreen, FunctionTheorems, SequenceTheorems, WellFoundedInduction, TLAPS

LEMMA Sizes ==
  /\ lines \in Nat \ {0} /\ columns \in Nat \ {0} /\ size \in Nat /\ size > 1
  /\ size = lines * columns /\ columns <= size
<1>1. lines \in Nat \ {0} /\ columns \in Nat \ {0} /\ size > 1 /\ size = lines * columns
  BY ScreenAssumption DEF size
<1>2. size \in Nat
  BY <1>1
<1>3. (lines - 1) * columns >= 0
  BY <1>1
<1> QED
  BY <1>1, <1>2, <1>3

(* A set of natural numbers has a least element.                             *)
LEMMA HasLeast ==
  ASSUME NEW S \in SUBSET Nat, S # {}
  PROVE  \E x \in S : \A y \in S : x <= y
<1> DEFINE R == {ss \in Nat \X Nat : ss[1] < ss[2]}
<1>1. IsWellFoundedOn(R, Nat)
  BY NatLessThanWellFounded DEF OpToRel
<1>2. PICK x \in S : \A y \in S : <<y, x>> \notin R
  <2> HIDE DEF R
  <2> QED
    BY <1>1, WFMin
<1>3. \A y \in S : x <= y
  <2> SUFFICES ASSUME NEW y \in S PROVE x <= y
    OBVIOUS
  <2>1. ~(y < x)
    <3>1. <<y, x>> \in Nat \X Nat /\ <<y, x>>[1] = y /\ <<y, x>>[2] = x
      OBVIOUS
    <3> QED
      BY <1>2, <3>1
  <2> QED
    BY <2>1
<1> QED
  BY <1>3

-----------------------------------------------------------------------------
(* The endless tape.                                                         *)

Zero == [pos |-> 0, off |-> 0]

\* g is the tape of the first n characters of s.
IsTape(g, s, n) ==
  g = [i \in 0..n |-> IF i = 0 THEN Zero ELSE Slide(g[i - 1], s[i])]

LEMMA TapesExist ==
  ASSUME NEW s, NEW n \in Nat
  PROVE  \E g : IsTape(g, s, n)
<1> DEFINE Bad == {i \in Nat : ~\E g : IsTape(g, s, i)}
<1> SUFFICES ASSUME Bad # {} PROVE FALSE
  OBVIOUS
<1>1. PICK m \in Bad : \A i \in Bad : m <= i
  BY HasLeast
<1>2. CASE m = 0
  <2> DEFINE g == [i \in 0..0 |-> Zero]
  <2>1. IsTape(g, s, 0)
    BY DEF IsTape
  <2> QED
    BY <1>1, <1>2, <2>1
<1>3. CASE m # 0
  <2>1. m - 1 \in Nat /\ m - 1 \notin Bad
    BY <1>1, <1>3
  <2>2. PICK g : IsTape(g, s, m - 1)
    BY <2>1
  <2> DEFINE h == [i \in 0..m |-> IF i = m THEN Slide(g[m - 1], s[m]) ELSE g[i]]
  <2>3. \A i \in 0..(m - 1) : g[i] = IF i = 0 THEN Zero ELSE Slide(g[i - 1], s[i])
    BY <2>2 DEF IsTape
  <2>4. \A i \in 0..m : h[i] = IF i = 0 THEN Zero ELSE Slide(h[i - 1], s[i])
    <3> SUFFICES ASSUME NEW i \in 0..m
                 PROVE  h[i] = IF i = 0 THEN Zero ELSE Slide(h[i - 1], s[i])
      OBVIOUS
    <3>1. CASE i = m
      <4>1. h[i] = Slide(g[m - 1], s[m]) /\ h[m - 1] = g[m - 1]
        BY <1>1, <1>3, <3>1
      <4> QED
        BY <1>3, <3>1, <4>1
    <3>2. CASE i # m
      <4>1. i \in 0..(m - 1) /\ h[i] = g[i] /\ (i # 0 => h[i - 1] = g[i - 1])
        BY <1>1, <3>2
      <4> QED
        BY <2>3, <4>1
    <3> QED
      BY <3>1, <3>2
  <2>5. IsTape(h, s, m)
    <3>1. h = [i \in 0..m |-> h[i]]
      OBVIOUS
    <3> HIDE DEF h
    <3> QED
      BY <2>4, <3>1 DEF IsTape
  <2> QED
    BY <1>1, <2>5
<1> QED
  BY <1>2, <1>3

LEMMA TapeIs ==
  ASSUME NEW s, Len(s) \in Nat
  PROVE  IsTape(Tape(s), s, Len(s))
<1>1. Tape(s) = CHOOSE g : IsTape(g, s, Len(s))
  BY Zenon DEF Tape, IsTape, Zero
<1> QED
  BY <1>1, TapesExist, Zenon
LEMMA TapeSteps ==
  ASSUME NEW s, Len(s) \in Nat
  PROVE  /\ DOMAIN Tape(s) = 0..Len(s) /\ Tape(s)[0] = Zero
         /\ \A i \in 1..Len(s) : Tape(s)[i] = Slide(Tape(s)[i - 1], s[i])
<1>1. Tape(s) = [i \in 0..Len(s) |-> IF i = 0 THEN Zero ELSE Slide(Tape(s)[i - 1], s[i])]
  BY TapeIs DEF IsTape
<1>2. DOMAIN Tape(s) = 0..Len(s)
  BY <1>1
<1>3. \A i \in 0..Len(s) : Tape(s)[i] = IF i = 0 THEN Zero ELSE Slide(Tape(s)[i - 1], s[i])
  BY <1>1
<1> QED
  BY <1>2, <1>3

-----------------------------------------------------------------------------
(* Where the window and the cursor can be.                                   *)

Good(at) ==
  /\ at \in [pos : Nat, off : Nat]
  /\ \E q \in Nat : at.off = q * columns
  /\ at.off <= at.pos /\ at.pos < at.off + size

LEMMA Division ==
  ASSUME NEW a \in Nat, NEW n \in Nat \ {0}
  PROVE  a = n * (a \div n) + (a % n) /\ a \div n \in Nat /\ a % n \in 0..(n - 1)
<1>1. a = n * (a \div n) + (a % n)
  BY Z3
<1> QED
  BY <1>1

LEMMA Remainder ==
  ASSUME NEW a \in Nat, NEW n \in Nat \ {0}, NEW q \in Int, NEW r \in 0..(n - 1), a = n * q + r
  PROVE  a % n = r
OBVIOUS

\* The start of the cursor's line, in the window and on the tape.
LEMMA LineStart ==
  ASSUME NEW at, Good(at), NEW cur, cur = at.pos - at.off
  PROVE  /\ cur \in Cell
         /\ cur % columns \in Nat /\ cur % columns <= cur
         /\ (at.pos \div columns) * columns = at.pos - (cur % columns)
         /\ (at.pos \div columns + 1) * columns = at.pos - (cur % columns) + columns
         /\ cur - (cur % columns) + columns <= size
<1>0. columns \in Nat \ {0} /\ size \in Nat /\ lines \in Nat /\ size = lines * columns
  BY Sizes
<1>1. PICK q \in Nat : at.off = q * columns
  BY DEF Good
<1>2. cur \in Nat /\ cur < size /\ at.pos \in Nat /\ at.off \in Nat /\ at.pos = at.off + cur
  BY <1>0 DEF Good
<1> DEFINE r == cur % columns
           d == cur \div columns
           e == at.pos \div columns
<1>3. cur = columns * d + r /\ d \in Nat /\ r \in 0..(columns - 1)
  BY <1>0, <1>2, Division
<1>4. at.pos = columns * e + (at.pos % columns) /\ e \in Nat
  BY <1>0, <1>2, Division
<1> HIDE DEF r, d, e
<1>5. q + d \in Int /\ at.pos = columns * (q + d) + r
  BY <1>0, <1>1, <1>2, <1>3
<1>6. at.pos % columns = r
  BY <1>0, <1>2, <1>3, <1>5, Remainder
<1>7. columns * e = at.pos - r /\ e * columns = columns * e /\ (e + 1) * columns = columns * e + columns
  BY <1>0, <1>2, <1>3, <1>4, <1>6
<1>8. columns * d + columns <= size
  <2>1. d < lines
    <3> SUFFICES ASSUME lines <= d PROVE FALSE
      BY <1>0, <1>3
    <3>1. PICK f \in Nat : d = lines + f
      BY <1>0, <1>3
    <3>2. columns * d = size + columns * f /\ columns * f >= 0
      BY <1>0, <3>1
    <3> QED
      BY <1>0, <1>2, <1>3, <3>2
  <2>2. PICK f \in Nat : lines = d + 1 + f
    BY <1>0, <1>3, <2>1
  <2>3. size = columns * d + columns + columns * f /\ columns * f >= 0
    BY <1>0, <1>3, <2>2
  <2> QED
    BY <1>0, <1>3, <2>3
<1>9. /\ cur \in Cell /\ r \in Nat /\ r <= cur
      /\ e * columns = at.pos - r /\ (e + 1) * columns = at.pos - r + columns
      /\ cur - r + columns <= size
  BY <1>0, <1>2, <1>3, <1>7, <1>8 DEF Cell
<1> QED
  BY <1>9 DEF r, e

-----------------------------------------------------------------------------
(* tty_putc moves cursor and window as Slide does.                           *)

Screen == [buf : [Cell -> Glyph], cursor : Cell]

\* The window moves down by a line if the cursor has run out of it.
LEMMA Scrolling ==
  ASSUME NEW b \in [Cell -> Glyph], NEW pos \in Nat, NEW off \in Nat,
         NEW q \in Nat, off = q * columns, off <= pos, pos <= off + size
  PROVE  LET new == ScrollIfEnd([buf |-> b, cursor |-> pos - off])
             noff == IF pos < off + size THEN off ELSE off + columns
         IN /\ Good([pos |-> pos, off |-> noff])
            /\ new \in Screen
            /\ new.cursor = pos - noff
            /\ \A c \in Cell : new.buf[c] = IF noff + c < off + size THEN b[noff + c - off]
                                            ELSE BLANK
<1> DEFINE s == [buf |-> b, cursor |-> pos - off]
           noff == IF pos < off + size THEN off ELSE off + columns
<1>0. columns \in Nat \ {0} /\ size \in Nat /\ columns <= size /\ BLANK \in Glyph
  BY Sizes DEF Glyph
<1>1. s.buf = b /\ s.cursor = pos - off
  OBVIOUS
<1>2. CASE pos < off + size
  <2>1. ScrollIfEnd(s) = s /\ noff = off
    BY <1>0, <1>1, <1>2 DEF ScrollIfEnd
  <2>2. pos - off \in Cell
    BY <1>0, <1>2 DEF Cell
  <2>3. Good([pos |-> pos, off |-> noff])
    BY <1>2, <2>1 DEF Good
  <2>4. \A c \in Cell : off + c < off + size /\ off + c - off = c
    BY <1>0 DEF Cell
  <2> QED
    BY <1>1, <2>1, <2>2, <2>3, <2>4 DEF Screen
<1>3. CASE pos >= off + size
  <2>1. pos - off = size /\ noff = off + columns /\ ScrollIfEnd(s) = scrollup(s)
    BY <1>0, <1>1, <1>3 DEF ScrollIfEnd
  <2>2. size - columns \in Cell
    BY <1>0 DEF Cell
  <2>3. /\ scrollup(s).cursor = pos - noff /\ scrollup(s).cursor \in Cell
        /\ scrollup(s).buf = [c \in Cell |-> IF c + columns < size THEN b[c + columns] ELSE BLANK]
    BY <1>0, <1>1, <2>1, <2>2 DEF scrollup
  <2>4. \A c \in Cell : c + columns < size => c + columns \in Cell
    BY <1>0 DEF Cell
  <2>5. scrollup(s).buf \in [Cell -> Glyph]
    BY <1>0, <2>3, <2>4
  <2>6. scrollup(s) \in Screen
    BY <2>3, <2>5 DEF Screen, scrollup
  <2>7. \A c \in Cell : /\ noff + c < off + size <=> c + columns < size
                        /\ noff + c - off = c + columns
    BY <1>0, <2>1 DEF Cell
  <2>8. Good([pos |-> pos, off |-> noff])
    <3>1. q + 1 \in Nat /\ noff = (q + 1) * columns
      BY <1>0, <2>1
    <3> QED
      BY <1>0, <1>3, <2>1, <3>1 DEF Good
  <2> QED
    BY <2>1, <2>3, <2>6, <2>7, <2>8
<1> QED
  BY <1>0, <1>2, <1>3

Plain(ch) == ch \notin {"\n", "\r", "bs"}

\* What putc(ch) makes cell c show of the window, which was at "from" and is at "to".
Shows(b, ch, from, to, c) ==
  LET k == to.off + c IN
  IF Plain(ch) /\ k = from.pos THEN ch
  ELSE IF ch = "bs" /\ from.pos > from.off /\ k = from.pos - 1 THEN BLANK
  ELSE IF k < from.off + size THEN b[k - from.off] ELSE BLANK

LEMMA PutcSlides ==
  ASSUME NEW s \in Screen, NEW at, Good(at), s.cursor = at.pos - at.off, NEW ch \in Char
  PROVE  /\ Good(Slide(at, ch)) /\ Slide(at, ch).off >= at.off
         /\ putc(s, ch) \in Screen
         /\ putc(s, ch).cursor = Slide(at, ch).pos - Slide(at, ch).off
         /\ \A c \in Cell : putc(s, ch).buf[c] = Shows(s.buf, ch, at, Slide(at, ch), c)
<1> DEFINE cur == s.cursor
           r == cur % columns
<1>0. /\ columns \in Nat \ {0} /\ size \in Nat /\ BLANK \in Glyph /\ ch \in Glyph
      /\ at.pos \in Nat /\ at.off \in Nat /\ at.off <= at.pos /\ at.pos < at.off + size
      /\ at = [pos |-> at.pos, off |-> at.off]
      /\ s.buf \in [Cell -> Glyph] /\ cur \in Cell /\ s = [buf |-> s.buf, cursor |-> s.cursor]
      /\ cur \in Nat /\ cur < size /\ at.pos = at.off + cur
  BY Sizes DEF Glyph, Good, Screen, Cell
<1>1. /\ r \in Nat /\ r <= cur
      /\ (at.pos \div columns) * columns = at.pos - r
      /\ (at.pos \div columns + 1) * columns = at.pos - r + columns
      /\ cur - r + columns <= size
  BY LineStart
<1>2. PICK q \in Nat : at.off = q * columns
  BY DEF Good
<1>3. CASE ch = "\r"
  <2>1. putc(s, ch) = [buf |-> s.buf, cursor |-> cur - r]
    BY <1>0, <1>3 DEF putc, cr
  <2>2. Slide(at, ch) = [pos |-> at.pos - r, off |-> at.off]
    BY <1>0, <1>1, <1>3 DEF Slide
  <2>3. cur - r \in Cell
    <3>1. cur \in Nat /\ cur < size /\ size \in Nat
      BY <1>0
    <3> HIDE DEF r, cur
    <3> QED
      BY <1>1, <3>1 DEF Cell
  <2>4. Good([pos |-> at.pos - r, off |-> at.off])
    BY <1>0, <1>1, <1>2 DEF Good
  <2>5. ~Plain(ch) /\ ch # "bs"
    BY <1>3 DEF Plain
  <2>6. \A c \in Cell : at.off + c < at.off + size /\ at.off + c - at.off = c
    BY <1>0 DEF Cell
  <2> HIDE DEF r, cur
  <2>7. /\ Slide(at, ch).pos = at.pos - r /\ Slide(at, ch).off = at.off
        /\ putc(s, ch).buf = s.buf /\ putc(s, ch).cursor = cur - r
    BY <2>1, <2>2
  <2>8. \A c \in Cell : Shows(s.buf, ch, at, Slide(at, ch), c) = s.buf[c]
    BY <1>0, <2>5, <2>6, <2>7 DEF Shows, Cell
  <2>9. putc(s, ch) \in Screen
    BY <1>0, <2>1, <2>3 DEF Screen
  <2> QED
    BY <1>0, <1>1, <2>2, <2>4, <2>7, <2>8, <2>9
<1>4. CASE ch = "bs"
  <2>1. \A c \in Cell : at.off + c < at.off + size /\ at.off + c - at.off = c
    BY <1>0 DEF Cell
  <2>2. ~Plain(ch)
    BY <1>4 DEF Plain
  <2>3. CASE cur > 0
    <3>1. putc(s, ch) = [buf |-> [s.buf EXCEPT ![cur - 1] = BLANK], cursor |-> cur - 1]
      BY <1>0, <1>4, <2>3 DEF putc, backsp
    <3>2. Slide(at, ch) = [pos |-> at.pos - 1, off |-> at.off]
      BY <1>0, <1>4, <2>3 DEF Slide
    <3>3. cur - 1 \in Cell
      BY <1>0, <2>3 DEF Cell
    <3>4. Good([pos |-> at.pos - 1, off |-> at.off])
      BY <1>0, <1>2, <2>3 DEF Good
    <3>5. \A c \in Cell : c = cur - 1 <=> at.off + c = at.pos - 1
      BY <1>0 DEF Cell
    <3> HIDE DEF cur
    <3>6. /\ Slide(at, ch).pos = at.pos - 1 /\ Slide(at, ch).off = at.off
          /\ putc(s, ch).buf = [s.buf EXCEPT ![cur - 1] = BLANK] /\ putc(s, ch).cursor = cur - 1
      BY <3>1, <3>2
    <3>7. at.pos > at.off
      BY <1>0, <2>3
    <3>8. \A c \in Cell : Shows(s.buf, ch, at, Slide(at, ch), c) = IF c = cur - 1 THEN BLANK ELSE s.buf[c]
      <4> SUFFICES ASSUME NEW c \in Cell
                   PROVE  Shows(s.buf, ch, at, Slide(at, ch), c) = IF c = cur - 1 THEN BLANK ELSE s.buf[c]
        OBVIOUS
      <4>1. at.off + c < at.off + size /\ at.off + c - at.off = c /\ (c = cur - 1 <=> at.off + c = at.pos - 1)
        BY <2>1, <3>5
      <4>2. Slide(at, ch).off = at.off
        BY <3>6
      <4>3. at.off \in Nat /\ at.pos \in Nat /\ c \in Nat /\ size \in Nat /\ cur \in Nat
        BY <1>0 DEF Cell
      <4> HIDE DEF r
      <4> QED
        BY <1>4, <2>2, <3>7, <4>1, <4>2, <4>3 DEF Shows
    <3>9. putc(s, ch) \in Screen
      BY <1>0, <3>1, <3>3 DEF Screen
    <3>10. \A c \in Cell : putc(s, ch).buf[c] = IF c = cur - 1 THEN BLANK ELSE s.buf[c]
      BY <1>0, <3>6
    <3> QED
      BY <1>0, <2>3, <3>2, <3>4, <3>6, <3>8, <3>9, <3>10
  <2>4. CASE cur = 0
    <3>1. putc(s, ch) = s
      BY <1>0, <1>4, <2>4 DEF putc, backsp
    <3>2. Slide(at, ch) = at
      BY <1>0, <1>4, <2>4 DEF Slide
    <3>3. ~(at.pos > at.off)
      BY <1>0, <2>4
    <3>4. \A c \in Cell : Shows(s.buf, ch, at, at, c) = s.buf[c]
      <4> SUFFICES ASSUME NEW c \in Cell PROVE Shows(s.buf, ch, at, at, c) = s.buf[c]
        OBVIOUS
      <4>1. at.off + c < at.off + size /\ at.off + c - at.off = c
        BY <2>1
      <4>2. at.off \in Nat /\ c \in Nat /\ size \in Nat
        BY <1>0 DEF Cell
      <4> HIDE DEF cur, r
      <4> QED
        BY <2>2, <3>3, <4>1, <4>2 DEF Shows
    <3> QED
      BY <1>0, <3>1, <3>2, <3>4
  <2> QED
    BY <1>0, <2>3, <2>4
<1>5. CASE ch = "\n"
  <2> DEFINE pos == at.pos - r + columns
  <2>1. putc(s, ch) = ScrollIfEnd([buf |-> s.buf, cursor |-> pos - at.off])
    <3>1. lf(cr(s)) = [buf |-> s.buf, cursor |-> cur - r + columns]
      <4>1. cr(s) = [buf |-> s.buf, cursor |-> cur - r]
        BY <1>0 DEF cr
      <4> HIDE DEF r, cur
      <4> QED
        BY <4>1 DEF lf
    <3>2. cur - r + columns = pos - at.off
      BY <1>0, <1>1
    <3> QED
      BY <1>5, <3>1, <3>2 DEF putc
  <2>2. Slide(at, ch) = [pos |-> pos, off |-> IF pos < at.off + size THEN at.off ELSE at.off + columns]
    BY <1>0, <1>1, <1>5 DEF Slide
  <2>3. pos \in Nat /\ at.off <= pos /\ pos <= at.off + size
    BY <1>0, <1>1
  <2>4. ~Plain(ch) /\ ch # "bs"
    BY <1>5 DEF Plain
  <2> DEFINE noff == IF pos < at.off + size THEN at.off ELSE at.off + columns
  <2> HIDE DEF pos
  <2>5. /\ Good([pos |-> pos, off |-> noff]) /\ noff >= at.off
        /\ putc(s, ch) \in Screen /\ putc(s, ch).cursor = pos - noff
        /\ \A c \in Cell : putc(s, ch).buf[c] = IF noff + c < at.off + size
                                                THEN s.buf[noff + c - at.off] ELSE BLANK
    BY <1>0, <1>2, <2>1, <2>3, Scrolling
  <2>6. Slide(at, ch) = [pos |-> pos, off |-> noff] /\ noff \in Nat
    BY <1>0, <2>2
  <2> HIDE DEF noff
  <2>7. Slide(at, ch).pos = pos /\ Slide(at, ch).off = noff
    BY <2>6
  <2>8. \A c \in Cell : Shows(s.buf, ch, at, Slide(at, ch), c) =
          IF noff + c < at.off + size THEN s.buf[noff + c - at.off] ELSE BLANK
    BY <1>0, <2>4, <2>6, <2>7 DEF Shows, Cell
  <2> QED
    BY <2>5, <2>6, <2>7, <2>8
<1>6. CASE Plain(ch)
  <2> DEFINE pos == at.pos + 1
             b == [s.buf EXCEPT ![cur] = ch]
  <2>1. putc(s, ch) = ScrollIfEnd([buf |-> b, cursor |-> pos - at.off])
    <3>1. cur + 1 = pos - at.off
      BY <1>0
    <3> QED
      BY <1>6, <3>1 DEF putc, Plain
  <2>2. Slide(at, ch) = [pos |-> pos, off |-> IF pos < at.off + size THEN at.off ELSE at.off + columns]
    BY <1>0, <1>6 DEF Slide, Plain
  <2>3. pos \in Nat /\ at.off <= pos /\ pos <= at.off + size /\ b \in [Cell -> Glyph]
    BY <1>0
  <2>4. ch # "bs"
    BY <1>6 DEF Plain
  <2> DEFINE noff == IF pos < at.off + size THEN at.off ELSE at.off + columns
  <2>5. noff \in Nat /\ noff >= at.off
    BY <1>0
  <2>6. \A c \in Cell : noff + c < at.off + size =>
          b[noff + c - at.off] = IF noff + c = at.pos THEN ch ELSE s.buf[noff + c - at.off]
    <3> SUFFICES ASSUME NEW c \in Cell, noff + c < at.off + size
                 PROVE  b[noff + c - at.off] =
                          IF noff + c = at.pos THEN ch ELSE s.buf[noff + c - at.off]
      OBVIOUS
    <3>1. noff + c - at.off \in Cell /\ (noff + c - at.off = cur <=> noff + c = at.pos)
      <4>1. /\ c \in Nat /\ size \in Nat /\ at.off \in Nat /\ cur \in Nat
            /\ at.pos = at.off + cur
        BY <1>0 DEF Cell
      <4> HIDE DEF r, cur, noff
      <4> QED
        BY <2>5, <4>1 DEF Cell
    <3> QED
      BY <1>0, <3>1
  <2>7. \A c \in Cell : noff + c = at.pos => noff + c < at.off + size
    BY <1>0
  <2>8. /\ Good([pos |-> pos, off |-> noff])
        /\ putc(s, ch) \in Screen /\ putc(s, ch).cursor = pos - noff
        /\ \A c \in Cell : putc(s, ch).buf[c] = IF noff + c < at.off + size
                                                THEN b[noff + c - at.off] ELSE BLANK
    <3> HIDE DEF b, pos
    <3> QED
      BY <1>0, <1>2, <2>1, <2>3, Scrolling
  <2> HIDE DEF b, pos, noff
  <2>9. Slide(at, ch) = [pos |-> pos, off |-> noff]
    BY <2>2 DEF noff
  <2>10. Slide(at, ch).pos = pos /\ Slide(at, ch).off = noff
    BY <2>9
  <2>11. \A c \in Cell : Shows(s.buf, ch, at, Slide(at, ch), c) =
          IF noff + c < at.off + size THEN b[noff + c - at.off] ELSE BLANK
    BY <1>0, <2>5, <1>6, <2>4, <2>6, <2>7, <2>10 DEF Shows, Cell
  <2> QED
    BY <2>5, <2>8, <2>9, <2>10, <2>11
<1> QED
  BY <1>3, <1>4, <1>5, <1>6 DEF Plain

LEMMA SlideGood ==
  ASSUME NEW at, Good(at), NEW ch \in Char
  PROVE  Good(Slide(at, ch)) /\ Slide(at, ch).off >= at.off
<1> DEFINE s == [buf |-> [c \in Cell |-> BLANK], cursor |-> at.pos - at.off]
<1>1. at.pos - at.off \in Cell
  BY LineStart
<1>2. s \in Screen /\ s.cursor = at.pos - at.off
  BY <1>1 DEF Screen, Glyph
<1> HIDE DEF s
<1> QED
  BY <1>2, PutcSlides

LEMMA TapeGood ==
  ASSUME NEW s \in Seq(Char)
  PROVE  \A j \in 0..Len(s) :
           Good(Tape(s)[j]) /\ \A i \in 0..j : Tape(s)[i].off <= Tape(s)[j].off
<1> DEFINE T == Tape(s)
           P(j) == Good(T[j]) /\ \A i \in 0..j : T[i].off <= T[j].off
           Bad == {j \in Nat : j <= Len(s) /\ ~P(j)}
<1>0. Len(s) \in Nat /\ \A i \in 1..Len(s) : s[i] \in Char
  BY ElementOfSeq
<1>1. T[0] = Zero /\ \A i \in 1..Len(s) : T[i] = Slide(T[i - 1], s[i])
  BY <1>0, TapeSteps
<1> SUFFICES ASSUME Bad # {} PROVE FALSE
  BY <1>0
<1>2. PICK m \in Bad : \A j \in Bad : m <= j
  BY HasLeast
<1> HIDE DEF T
<1>3. CASE m = 0
  <2>1. Good(Zero) /\ Zero.off = 0
    <3>1. 0 = 0 * columns /\ size > 0 /\ size \in Nat
      BY Sizes
    <3> QED
      BY <3>1 DEF Good, Zero
  <2>2. \A i \in 0..0 : i = 0
    OBVIOUS
  <2> QED
    BY <1>1, <1>2, <1>3, <2>1, <2>2
<1>4. CASE m # 0
  <2>1. m \in Nat /\ m - 1 \in Nat /\ m \in 1..Len(s) /\ m - 1 \notin Bad /\ m - 1 <= Len(s)
    BY <1>0, <1>2, <1>4
  <2>2. P(m - 1)
    BY <2>1
  <2>3. T[m] = Slide(T[m - 1], s[m]) /\ s[m] \in Char
    BY <1>0, <1>1, <2>1
  <2>4. Good(T[m]) /\ T[m].off >= T[m - 1].off
    BY <2>2, <2>3, SlideGood
  <2>5. \A i \in 0..(m - 1) : T[i].off \in Nat
    <3> SUFFICES ASSUME NEW i \in 0..(m - 1) PROVE T[i].off \in Nat
      OBVIOUS
    <3>1. i \in Nat /\ i <= Len(s) /\ i \notin Bad
      BY <1>2, <2>1
    <3>2. Good(T[i])
      BY <3>1
    <3> QED
      BY <3>2 DEF Good
  <2>6. T[m].off \in Nat /\ T[m - 1].off \in Nat
    BY <2>2, <2>4 DEF Good
  <2>7. \A i \in 0..m : T[i].off <= T[m].off
    <3> SUFFICES ASSUME NEW i \in 0..m PROVE T[i].off <= T[m].off
      OBVIOUS
    <3>1. CASE i = m
      BY <2>6, <3>1
    <3>2. CASE i # m
      <4>1. i \in 0..(m - 1)
        BY <2>1, <3>2
      <4>2. T[i].off <= T[m - 1].off /\ T[i].off \in Nat
        BY <2>2, <2>5, <4>1
      <4> QED
        BY <2>4, <2>6, <4>2
    <3> QED
      BY <3>1, <3>2
  <2> QED
    BY <1>2, <2>4, <2>7
<1> QED
  BY <1>3, <1>4

\* One more character adds one place to the tape.
LEMMA TapeAppend ==
  ASSUME NEW s \in Seq(Char), NEW ch \in Char
  PROVE  /\ \A i \in 0..Len(s) : Tape(Append(s, ch))[i] = Tape(s)[i]
         /\ Tape(Append(s, ch))[Len(s) + 1] = Slide(Tape(s)[Len(s)], ch)
<1> DEFINE n == Len(s)
           u == Append(s, ch)
           T == Tape(s)
           U == Tape(u)
           Bad == {i \in Nat : i <= n /\ U[i] # T[i]}
<1>0. /\ n \in Nat /\ Len(u) = n + 1 /\ \A i \in 1..n : u[i] = s[i]
      /\ u[n + 1] = ch
  BY AppendProperties
<1>1. T[0] = Zero /\ \A i \in 1..n : T[i] = Slide(T[i - 1], s[i])
  BY <1>0, TapeSteps
<1>2. U[0] = Zero /\ \A i \in 1..(n + 1) : U[i] = Slide(U[i - 1], u[i])
  <2>1. Len(u) \in Nat
    BY <1>0
  <2> HIDE DEF u
  <2> QED
    BY <1>0, <2>1, TapeSteps
<1> HIDE DEF n, u, T, U
<1>3. Bad = {}
  <2> SUFFICES ASSUME Bad # {} PROVE FALSE
    OBVIOUS
  <2>1. PICK m \in Bad : \A j \in Bad : m <= j
    BY HasLeast
  <2>2. m # 0
    BY <1>1, <1>2, <2>1
  <2>3. m \in 1..n /\ m \in 1..(n + 1) /\ m - 1 \in Nat /\ m - 1 <= n /\ m - 1 \notin Bad
    BY <1>0, <2>1, <2>2
  <2>4. U[m - 1] = T[m - 1] /\ u[m] = s[m]
    BY <1>0, <2>3
  <2> QED
    BY <1>1, <1>2, <2>1, <2>3, <2>4
<1>4. \A i \in 0..n : U[i] = T[i]
  BY <1>0, <1>3
<1>5. U[n + 1] = Slide(T[n], ch)
  <2>1. n + 1 \in 1..(n + 1) /\ (n + 1) - 1 = n /\ n \in 0..n
    BY <1>0
  <2> QED
    BY <1>0, <1>2, <1>4, <2>1
<1> QED
  BY <1>4, <1>5 DEF n, u, T, U

-----------------------------------------------------------------------------
(* The text on the tape.                                                     *)

Typed(s, tape, k) == {i \in 1..Len(s) : Plain(s[i]) /\ tape[i - 1].pos = k}
Rubbed(s, tape, k) ==
  {i \in 1..Len(s) : s[i] = "bs" /\ tape[i].pos = k /\ tape[i - 1].pos = k + 1}
Touched(s, tape, k) == Typed(s, tape, k) \cup Rubbed(s, tape, k)

LEMMA HasGreatest ==
  ASSUME NEW n \in Nat, NEW S \in SUBSET (1..n), S # {}
  PROVE  \E x \in S : \A y \in S : y <= x
<1> DEFINE D == {n - x : x \in S}
<1>0. \A x \in S : n - x \in Nat
  OBVIOUS
<1>1. D \in SUBSET Nat /\ D # {}
  <2>1. PICK x \in S : TRUE
    OBVIOUS
  <2>2. n - x \in D
    BY <2>1
  <2> QED
    BY <1>0, <2>2
<1> HIDE DEF D
<1>2. PICK d \in D : \A e \in D : d <= e
  BY <1>1, HasLeast
<1>3. PICK x \in S : d = n - x
  BY DEF D
<1>4. \A y \in S : d <= n - y
  BY <1>2 DEF D
<1>5. \A y \in S : y <= x
  BY <1>3, <1>4
<1> QED
  BY <1>5

\* CharAt is a blank, or what the last character that touched the place made it.
LEMMA CharAtIs ==
  ASSUME NEW s, Len(s) \in Nat, NEW tape, NEW k
  PROVE  /\ Touched(s, tape, k) = {} => CharAt(s, tape, k) = BLANK
         /\ \A m \in Touched(s, tape, k) :
              (\A j \in Touched(s, tape, k) : j <= m) =>
                CharAt(s, tape, k) = IF m \in Rubbed(s, tape, k) THEN BLANK ELSE s[m]
<1> DEFINE M == Touched(s, tape, k)
           R == Rubbed(s, tape, k)
           last == CHOOSE i \in M : \A j \in M : j <= i
<1>1. CharAt(s, tape, k) = IF M = {} \/ last \in R THEN BLANK ELSE s[last]
  BY DEF CharAt, Touched, Typed, Rubbed, Plain
<1>2. M \subseteq Int
  BY DEF Touched, Typed, Rubbed
<1> HIDE DEF M, R
<1>3. ASSUME NEW m \in M, \A j \in M : j <= m
      PROVE  last = m
  <2>1. last \in M /\ \A j \in M : j <= last
    BY <1>3
  <2> HIDE DEF last
  <2> QED
    BY <1>2, <1>3, <2>1
<1> HIDE DEF last
<1>4. M = {} => CharAt(s, tape, k) = BLANK
  BY <1>1
<1>5. \A m \in M : (\A j \in M : j <= m) => CharAt(s, tape, k) = IF m \in R THEN BLANK ELSE s[m]
  BY <1>1, <1>3
<1> QED
  BY <1>4, <1>5 DEF M, R

\* Nothing is written yet where the window has not been.
LEMMA CharBeyond ==
  ASSUME NEW s \in Seq(Char), NEW k \in Nat, k >= Tape(s)[Len(s)].off + size
  PROVE  CharAt(s, Tape(s), k) = BLANK
<1> DEFINE n == Len(s)
           T == Tape(s)
<1>1. \A i \in 0..n : T[i].pos < k
  <2> SUFFICES ASSUME NEW i \in 0..n PROVE T[i].pos < k
    OBVIOUS
  <2>1. n \in 0..n
    OBVIOUS
  <2>2. Good(T[i]) /\ Good(T[n]) /\ T[i].off <= T[n].off
    BY <2>1, TapeGood
  <2>3. /\ T[i].pos \in Nat /\ T[i].off \in Nat /\ T[n].off \in Nat /\ size \in Nat
        /\ T[i].pos < T[i].off + size
    BY <2>2, Sizes DEF Good
  <2>4. k \in Nat /\ k >= T[n].off + size
    OBVIOUS
  <2> HIDE DEF T, n
  <2> QED
    BY <2>2, <2>3, <2>4
<1>2. Touched(s, T, k) = {}
  <2> SUFFICES ASSUME NEW i \in 1..n, T[i - 1].pos = k \/ T[i - 1].pos = k + 1 PROVE FALSE
    BY DEF Touched, Typed, Rubbed
  <2>1. i - 1 \in 0..n
    OBVIOUS
  <2>2. T[i - 1].pos < k
    BY <1>1, <2>1
  <2> QED
    BY <2>2
<1> QED
  BY <1>2, CharAtIs

\* One more character changes the text where putc writes or erases, and only there.
LEMMA CharAppend ==
  ASSUME NEW s \in Seq(Char), NEW ch \in Char, NEW k \in Nat, NEW at, at = Tape(s)[Len(s)]
  PROVE  CharAt(Append(s, ch), Tape(Append(s, ch)), k) =
           IF Plain(ch) /\ k = at.pos THEN ch
           ELSE IF ch = "bs" /\ at.pos > at.off /\ k = at.pos - 1 THEN BLANK
           ELSE CharAt(s, Tape(s), k)
<1> DEFINE n == Len(s)
           u == Append(s, ch)
           T == Tape(s)
           U == Tape(u)
           new == Slide(at, ch)
<1>0. /\ n \in Nat /\ Len(u) = n + 1 /\ u[n + 1] = ch /\ (\A i \in 1..n : u[i] = s[i])
      /\ (\A i \in 0..n : U[i] = T[i]) /\ U[n + 1] = new /\ T[n] = at
  BY AppendProperties, TapeAppend
<1>1. Good(at)
  <2>1. n \in 0..n
    BY <1>0
  <2> QED
    BY <2>1, TapeGood
<1>2. ch = "bs" => new.pos = IF at.pos > at.off THEN at.pos - 1 ELSE at.pos
  BY DEF Slide
<1>3. at.pos \in Nat /\ at.off \in Nat
  BY <1>1 DEF Good
<1> HIDE DEF n, u, T, U, new
<1>4. \A i \in 1..n : i \in 1..(n + 1) /\ u[i] = s[i] /\ U[i] = T[i] /\ U[i - 1] = T[i - 1]
  BY <1>0
<1>5. \A i \in 1..(n + 1) : i # n + 1 => i \in 1..n
  BY <1>0
<1>6. U[(n + 1) - 1] = at /\ n + 1 \in 1..(n + 1)
  <2>1. (n + 1) - 1 = n /\ n \in 0..n
    BY <1>0
  <2> QED
    BY <1>0, <2>1
<1>7. Typed(u, U, k) = Typed(s, T, k) \cup (IF Plain(ch) /\ k = at.pos THEN {n + 1} ELSE {})
  <2>1. n + 1 \in Typed(u, U, k) <=> Plain(ch) /\ k = at.pos
    BY <1>0, <1>6 DEF Typed
  <2>2. \A i \in 1..n : i \in Typed(u, U, k) <=> i \in Typed(s, T, k)
    BY <1>0, <1>4 DEF Typed, n
  <2>3. Typed(u, U, k) \subseteq 1..(n + 1) /\ Typed(s, T, k) \subseteq 1..n
    BY <1>0 DEF Typed, n
  <2> QED
    BY <1>4, <1>5, <2>1, <2>2, <2>3
<1>8. Rubbed(u, U, k) =
        Rubbed(s, T, k) \cup (IF ch = "bs" /\ at.pos > at.off /\ k = at.pos - 1 THEN {n + 1} ELSE {})
  <2>1. ch = "bs" => (new.pos = k /\ at.pos = k + 1 <=> at.pos > at.off /\ k = at.pos - 1)
    BY <1>2, <1>3
  <2>2. n + 1 \in Rubbed(u, U, k) <=> ch = "bs" /\ at.pos > at.off /\ k = at.pos - 1
    BY <1>0, <1>6, <2>1 DEF Rubbed
  <2>3. \A i \in 1..n : i \in Rubbed(u, U, k) <=> i \in Rubbed(s, T, k)
    BY <1>0, <1>4 DEF Rubbed, n
  <2>4. Rubbed(u, U, k) \subseteq 1..(n + 1) /\ Rubbed(s, T, k) \subseteq 1..n
    BY <1>0 DEF Rubbed, n
  <2> QED
    BY <1>4, <1>5, <2>2, <2>3, <2>4
<1>9. Len(u) \in Nat /\ Len(s) \in Nat /\ Touched(s, T, k) \in SUBSET (1..n)
  BY <1>0 DEF n, Touched, Typed, Rubbed
<1>10. \A j \in Touched(u, U, k) : j <= n + 1
  BY <1>0 DEF Touched, Typed, Rubbed
<1>11. n + 1 \notin Touched(s, T, k)
  BY <1>0, <1>9
<1>12. CASE Plain(ch) /\ k = at.pos
  <2>1. n + 1 \in Touched(u, U, k)
    BY <1>7, <1>12 DEF Touched
  <2>2. n + 1 \notin Rubbed(u, U, k)
    BY <1>8, <1>11, <1>12 DEF Plain, Touched
  <2>3. CharAt(u, U, k) = ch
    BY <1>0, <1>9, <1>10, <2>1, <2>2, CharAtIs
  <2> QED
    BY <1>12, <2>3 DEF u, U
<1>13. CASE ch = "bs" /\ at.pos > at.off /\ k = at.pos - 1
  <2>1. n + 1 \in Rubbed(u, U, k) /\ n + 1 \in Touched(u, U, k)
    BY <1>8, <1>13 DEF Touched
  <2>2. CharAt(u, U, k) = BLANK
    BY <1>9, <1>10, <2>1, CharAtIs
  <2>3. ~Plain(ch)
    BY <1>13 DEF Plain
  <2> QED
    BY <1>13, <2>2, <2>3 DEF u, U
<1>14. CASE ~(Plain(ch) /\ k = at.pos) /\ ~(ch = "bs" /\ at.pos > at.off /\ k = at.pos - 1)
  <2>1. Rubbed(u, U, k) = Rubbed(s, T, k) /\ Touched(u, U, k) = Touched(s, T, k)
    BY <1>7, <1>8, <1>14 DEF Touched
  <2>2. CharAt(u, U, k) = CharAt(s, T, k)
    <3>1. CASE Touched(s, T, k) = {}
      BY <1>9, <2>1, <3>1, CharAtIs
    <3>2. CASE Touched(s, T, k) # {}
      <4>1. PICK m \in Touched(s, T, k) : \A j \in Touched(s, T, k) : j <= m
        BY <1>0, <1>9, <3>2, HasGreatest
      <4>2. u[m] = s[m]
        BY <1>4, <1>9
      <4> QED
        BY <1>9, <2>1, <4>1, <4>2, CharAtIs
    <3> QED
      BY <3>1, <3>2
  <2> QED
    BY <1>14, <2>2 DEF u, U, T
<1> QED
  BY <1>12, <1>13, <1>14

-----------------------------------------------------------------------------
(* A terminal holds the last lines of what was written to it.                *)

Kept(s, scr) ==
  LET at == Tape(s)[Len(s)]
  IN /\ scr.cursor = at.pos - at.off
     /\ \A c \in Cell : scr.buf[c] = CharAt(s, Tape(s), at.off + c)

EmptyScreen == [buf |-> [c \in Cell |-> BLANK], cursor |-> 0]

LEMMA KeptAtFirst == Kept(<<>>, EmptyScreen) /\ EmptyScreen \in Screen
<1>1. Len(<<>>) = 0 /\ <<>> \in Seq(Char)
  OBVIOUS
<1>2. Tape(<<>>)[0] = Zero
  BY <1>1, TapeSteps
<1>3. Zero.pos = 0 /\ Zero.off = 0
  BY DEF Zero
<1>4. \A k \in Nat : CharAt(<<>>, Tape(<<>>), k) = BLANK
  <2> SUFFICES ASSUME NEW k \in Nat PROVE CharAt(<<>>, Tape(<<>>), k) = BLANK
    OBVIOUS
  <2>1. Touched(<<>>, Tape(<<>>), k) = {}
    BY <1>1 DEF Touched, Typed, Rubbed
  <2> QED
    BY <1>1, <2>1, CharAtIs
<1>5. \A c \in Cell : 0 + c \in Nat
  BY DEF Cell
<1>6. 0 \in Cell
  BY Sizes DEF Cell
<1>7. EmptyScreen.cursor = 0 /\ EmptyScreen.buf = [c \in Cell |-> BLANK]
  BY DEF EmptyScreen
<1>8. EmptyScreen \in Screen
  BY <1>6 DEF Screen, Glyph, EmptyScreen
<1> QED
  BY <1>1, <1>2, <1>3, <1>4, <1>5, <1>7, <1>8 DEF Kept

LEMMA PutcKeeps ==
  ASSUME NEW s \in Seq(Char), NEW scr \in Screen, Kept(s, scr), NEW ch \in Char
  PROVE  Kept(Append(s, ch), putc(scr, ch)) /\ putc(scr, ch) \in Screen
<1> DEFINE u == Append(s, ch)
           T == Tape(s)
           at == T[Len(s)]
           new == Slide(at, ch)
<1>1. Len(s) \in Nat /\ Len(u) = Len(s) + 1 /\ Len(s) \in 0..Len(s)
  BY AppendProperties
<1>2. Tape(u)[Len(u)] = new
  BY <1>1, TapeAppend
<1>3. Good(at) /\ scr.cursor = at.pos - at.off
  BY <1>1, TapeGood DEF Kept
<1>4. /\ Good(new) /\ new.off >= at.off
      /\ putc(scr, ch) \in Screen /\ putc(scr, ch).cursor = new.pos - new.off
      /\ \A c \in Cell : putc(scr, ch).buf[c] = Shows(scr.buf, ch, at, new, c)
  BY <1>3, PutcSlides
<1>5. /\ at.pos \in Nat /\ at.off \in Nat /\ new.off \in Nat /\ size \in Nat
      /\ \A c \in Cell : c \in Nat /\ new.off + c \in Nat
  <2>1. at.pos \in Nat /\ at.off \in Nat /\ new.off \in Nat
    BY <1>3, <1>4 DEF Good
  <2>2. size \in Nat /\ \A c \in Cell : c \in Nat
    BY Sizes DEF Cell
  <2> HIDE DEF new, at
  <2> QED
    BY <2>1, <2>2
<1>6. \A c \in Cell : scr.buf[c] = CharAt(s, T, at.off + c)
  BY DEF Kept
<1>7. \A k \in Nat : CharAt(u, Tape(u), k) =
        IF Plain(ch) /\ k = at.pos THEN ch
        ELSE IF ch = "bs" /\ at.pos > at.off /\ k = at.pos - 1 THEN BLANK
        ELSE CharAt(s, T, k)
  BY CharAppend
<1>8. \A k \in Nat : k >= at.off + size => CharAt(s, T, k) = BLANK
  BY CharBeyond
<1> HIDE DEF u, T, at, new
<1>9. ASSUME NEW c \in Cell
      PROVE  Shows(scr.buf, ch, at, new, c) = CharAt(u, Tape(u), new.off + c)
  <2> DEFINE k == new.off + c
  <2>1. k \in Nat
    BY <1>5
  <2>2. k >= at.off + size \/ (k - at.off \in Cell /\ at.off + (k - at.off) = k)
    BY <1>4, <1>5 DEF Cell
  <2>3. k < at.off + size => scr.buf[k - at.off] = CharAt(s, T, k)
    BY <1>5, <1>6, <2>1, <2>2
  <2>4. ~(k < at.off + size) => BLANK = CharAt(s, T, k)
    BY <1>5, <1>8, <2>1
  <2>5. Shows(scr.buf, ch, at, new, c) =
          IF Plain(ch) /\ k = at.pos THEN ch
          ELSE IF ch = "bs" /\ at.pos > at.off /\ k = at.pos - 1 THEN BLANK
          ELSE IF k < at.off + size THEN scr.buf[k - at.off] ELSE BLANK
    BY DEF Shows
  <2> HIDE DEF k
  <2>6. CharAt(u, Tape(u), k) = Shows(scr.buf, ch, at, new, c)
    BY <1>7, <2>1, <2>3, <2>4, <2>5
  <2> QED
    BY <2>6 DEF k
<1>10. Kept(u, putc(scr, ch))
  BY <1>2, <1>4, <1>9 DEF Kept
<1> QED
  BY <1>4, <1>10 DEF u

-----------------------------------------------------------------------------
(* The inductive invariant: types and text.                                  *)

At(t) == [buf |-> buf[t], cursor |-> cursor[t]]

Inv == TypeOK /\ CharInv /\ TextKept

LEMMA TextKeptIs == TextKept <=> \A t \in Tty : Kept(out[t], At(t))
<1>1. \A t \in Tty : At(t).cursor = cursor[t] /\ At(t).buf = buf[t]
  BY DEF At
<1> QED
  BY <1>1 DEF TextKept, Kept

LEMMA InvInit == Init => Inv
<1> SUFFICES ASSUME Init PROVE Inv
  OBVIOUS
<1> USE DEF Init
<1>1. 0 \in Cell
  BY Sizes DEF Cell
<1>2. TypeOK
  <2>1. on \in [Proc -> Tty]
    BY ScreenAssumption DEF Proc
  <2>2. cursor \in [Tty -> Cell] /\ cell \in [Proc -> Cell]
    BY <1>1
  <2> QED
    BY <2>1, <2>2, ScreenAssumption DEF TypeOK, Proc
<1>3. CharInv
  BY DEF CharInv, Glyph
<1>4. \A t \in Tty : out[t] = <<>> /\ At(t) = EmptyScreen
  BY DEF At, EmptyScreen
<1>5. TextKept
  BY <1>4, TextKeptIs, KeptAtFirst
<1> QED
  BY <1>2, <1>3, <1>5 DEF Inv

LEMMA ImageType ==
  ASSUME TypeOK, CharInv, NEW t \in Tty, NEW c \in Cell
  PROVE  Image(t, c) \in Glyph \cup {CURSOR}
<1>1. buf[t][c] \in Glyph
  BY DEF CharInv
<1> QED
  BY <1>1 DEF Image

LEMMA InvPutc ==
  ASSUME Inv, NEW p \in Proc, Putc(p)
  PROVE  Inv'
<1> DEFINE t == on[p]
           ch == Head(str[p])
           new == putc(At(t), ch)
<1>1. /\ t \in Tty /\ str[p] \in Seq(Char) /\ str[p] # <<>>
      /\ buf \in [Tty -> [Cell -> Glyph]] /\ cursor \in [Tty -> Cell]
      /\ out \in [Tty -> Seq(Char)] /\ out[t] \in Seq(Char)
  BY DEF Inv, TypeOK, CharInv, Putc
<1>2. ch \in Char /\ Tail(str[p]) \in Seq(Char)
  BY <1>1, HeadTailProperties
<1>3. At(t) \in Screen /\ Kept(out[t], At(t))
  BY <1>1, TextKeptIs DEF At, Screen, Inv
<1>4. /\ buf' = [buf EXCEPT ![t] = new.buf] /\ cursor' = [cursor EXCEPT ![t] = new.cursor]
      /\ out' = [out EXCEPT ![t] = Append(@, ch)] /\ str' = [str EXCEPT ![p] = Tail(@)]
  BY DEF Putc, At
<1>5. UNCHANGED <<lock, ttydev, current, screen, pc, on, cell, writes>>
  BY DEF Putc
<1> HIDE DEF t, ch
<1>6. Kept(Append(out[t], ch), new) /\ new \in Screen
  BY <1>1, <1>2, <1>3, PutcKeeps
<1> HIDE DEF new
<1>7. /\ new.buf \in [Cell -> Glyph] /\ new.cursor \in Cell
      /\ new = [buf |-> new.buf, cursor |-> new.cursor]
  BY <1>6 DEF Screen
<1>8. TypeOK'
  <2>1. cursor' \in [Tty -> Cell]
    BY <1>1, <1>4, <1>7
  <2>2. buf' \in [Tty -> [Cell -> Glyph]]
    BY <1>1, <1>4, <1>7
  <2>3. DOMAIN buf' = Tty /\ \A u \in Tty : DOMAIN buf'[u] = Cell
    BY <2>2
  <2> QED
    BY <1>5, <2>1, <2>3 DEF Inv, TypeOK
<1>9. CharInv'
  <2>1. buf' \in [Tty -> [Cell -> Glyph]]
    BY <1>1, <1>4, <1>7
  <2>2. out' \in [Tty -> Seq(Char)]
    <3>1. Append(out[t], ch) \in Seq(Char)
      BY <1>1, <1>2, AppendProperties
    <3> QED
      BY <1>1, <1>4, <3>1
  <2>3. str' \in [Proc -> Seq(Char)]
    BY <1>2, <1>4 DEF Inv, CharInv
  <2> QED
    BY <1>5, <2>1, <2>2, <2>3 DEF Inv, CharInv
<1>10. TextKept'
  <2>1. \A u \in Tty \ {t} : out'[u] = out[u] /\ At(u)' = At(u)
    BY <1>1, <1>4 DEF At
  <2>2. out'[t] = Append(out[t], ch) /\ buf'[t] = new.buf /\ cursor'[t] = new.cursor
    BY <1>1, <1>4
  <2>3. \A u \in Tty : Kept(out[u], At(u))
    BY TextKeptIs DEF Inv
  <2>4. \A u \in Tty : At(u)' = [buf |-> buf'[u], cursor |-> cursor'[u]]
    BY DEF At
  <2>5. \A u \in Tty : Kept(out'[u], At(u)')
    BY <1>6, <1>7, <2>1, <2>2, <2>3, <2>4
  <2>6. TextKept' <=> \A u \in Tty : Kept(out'[u], At(u)')
    <3>1. \A u \in Tty : At(u)'.cursor = cursor'[u] /\ At(u)'.buf = buf'[u]
      BY DEF At
    <3> QED
      BY <3>1 DEF TextKept, Kept
  <2> QED
    BY <2>5, <2>6
<1> QED
  BY <1>8, <1>9, <1>10 DEF Inv

\* The other steps leave text and screens of the terminals alone.
LEMMA SameText ==
  ASSUME TextKept, UNCHANGED <<ttyvars, out>>
  PROVE  TextKept'
BY DEF TextKept, ttyvars

LEMMA InvDraw ==
  ASSUME Inv, NEW p \in Proc, Draw(p)
  PROVE  Inv'
<1> DEFINE c == cell[p]
           t == on[p]
<1>1. c \in Cell /\ t \in Tty /\ cell \in [Proc -> Cell]
  BY DEF Inv, TypeOK
<1>2. /\ screen' = IF Shown(t) THEN [screen EXCEPT ![c] = Image(t, c)] ELSE screen
      /\ cell' = [cell EXCEPT ![p] = (c + 1) % size]
      /\ IF c + 1 = size
         THEN lock' = [lock EXCEPT ![t] = NULL] /\ pc' = [pc EXCEPT ![p] = "idle"]
         ELSE UNCHANGED <<lock, pc>>
      /\ UNCHANGED <<ttyvars, ttydev, current, on, str, writes, out>>
  BY DEF Draw
<1>3. Image(t, c) \in Glyph \cup {CURSOR}
  BY <1>1, ImageType DEF Inv
<1>4. (c + 1) % size \in Cell
  <2>1. c + 1 \in Nat /\ size \in Nat \ {0}
    BY <1>1, Sizes DEF Cell
  <2> HIDE DEF c
  <2> QED
    BY <2>1, Division DEF Cell
<1> HIDE DEF c, t
<1>5. screen' \in [Cell -> Glyph \cup {CURSOR}]
  BY <1>2, <1>3 DEF Inv, CharInv
<1>6. cell' \in [Proc -> Cell]
  BY <1>1, <1>2, <1>4
<1>7. lock' \in [Tty -> Proc \cup {NULL}]
  BY <1>1, <1>2 DEF Inv, TypeOK
<1>8. pc' \in [Proc -> {"idle", "lock", "write", "render", "draw", "set"}]
  BY <1>2 DEF Inv, TypeOK
<1>9. TypeOK'
  BY <1>2, <1>5, <1>6, <1>7, <1>8 DEF Inv, TypeOK, ttyvars
<1>10. CharInv'
  BY <1>2, <1>5 DEF Inv, CharInv, ttyvars
<1> QED
  BY <1>2, <1>9, <1>10, SameText DEF Inv

LEMMA InvNext == Inv /\ [Next]_vars => Inv'
<1> SUFFICES ASSUME Inv, [Next]_vars PROVE Inv'
  OBVIOUS
<1>0. UNCHANGED <<ttyvars, screen, out>> /\ TypeOK' /\ str' \in [Proc -> Seq(Char)] => Inv'
  BY SameText DEF Inv, CharInv, ttyvars
<1>1. ASSUME NEW p \in Proc, NEW s \in Text, Call(p, s)
      PROVE  Inv'
  <2>1. s \in Seq(Char) /\ Home \in [Shell -> Tty]
    BY ScreenAssumption
  <2>2. on' \in [Proc -> Tty] /\ pc' \in [Proc -> {"idle", "lock", "write", "render", "draw", "set"}]
    BY <1>1, <2>1 DEF Call, Inv, TypeOK, Proc
  <2>3. str' \in [Proc -> Seq(Char)]
    BY <1>1, <2>1 DEF Call, Inv, CharInv
  <2>4. TypeOK'
    BY <1>1, <2>2 DEF Call, Inv, TypeOK, ttyvars
  <2> QED
    BY <1>0, <1>1, <2>3, <2>4 DEF Call
<1>2. ASSUME NEW p \in Proc, NEW from, NEW to \in {"write", "draw"}, Lock(p, from, to)
      PROVE  Inv'
  <2>1. pc' \in [Proc -> {"idle", "lock", "write", "render", "draw", "set"}]
    BY <1>2 DEF Lock, Inv, TypeOK
  <2>2. lock' \in [Tty -> Proc \cup {NULL}]
    BY <1>2 DEF Lock, Inv, TypeOK
  <2>3. TypeOK'
    BY <1>2, <2>1, <2>2 DEF Lock, Inv, TypeOK, ttyvars
  <2> QED
    BY <1>0, <1>2, <2>3 DEF Lock, Inv, CharInv
<1>3. ASSUME NEW p \in Proc, WriteUnlock(p)
      PROVE  Inv'
  <2>1. pc' \in [Proc -> {"idle", "lock", "write", "render", "draw", "set"}]
    BY <1>3 DEF WriteUnlock, Inv, TypeOK
  <2>2. lock' \in [Tty -> Proc \cup {NULL}]
    BY <1>3 DEF WriteUnlock, Inv, TypeOK
  <2>3. TypeOK'
    BY <1>3, <2>1, <2>2 DEF WriteUnlock, Inv, TypeOK, ttyvars
  <2> QED
    BY <1>0, <1>3, <2>3 DEF WriteUnlock, Inv, CharInv
<1>4. ASSUME NEW t \in Tty, Switch(t)
      PROVE  Inv'
  <2>1. on' \in [Proc -> Tty] /\ pc' \in [Proc -> {"idle", "lock", "write", "render", "draw", "set"}]
    BY <1>4 DEF Switch, Inv, TypeOK
  <2>2. str' \in [Proc -> Seq(Char)]
    <3>1. <<>> \in Seq(Char)
      OBVIOUS
    <3> QED
      BY <1>4, <3>1 DEF Switch, Inv, CharInv
  <2>3. TypeOK'
    BY <1>4, <2>1 DEF Switch, Inv, TypeOK, ttyvars
  <2> QED
    BY <1>0, <1>4, <2>2, <2>3 DEF Switch
<1>5. ASSUME SetCurrent
      PROVE  Inv'
  <2>1. pc' \in [Proc -> {"idle", "lock", "write", "render", "draw", "set"}]
    BY <1>5 DEF SetCurrent, Inv, TypeOK
  <2>2. TypeOK'
    BY <1>5, <2>1 DEF SetCurrent, Inv, TypeOK, ttyvars
  <2> QED
    BY <1>0, <1>5, <2>2 DEF SetCurrent, Inv, CharInv
<1>6. ASSUME UNCHANGED vars
      PROVE  Inv'
  BY <1>0, <1>6 DEF vars, Inv, TypeOK, CharInv, ttyvars
<1>7. ASSUME NEW p \in Proc, Step(p)
      PROVE  Inv'
  BY <1>2, <1>3, <1>7, InvPutc, InvDraw DEF Step, WriteLock, RenderLock
<1> QED
  BY <1>1, <1>4, <1>5, <1>6, <1>7 DEF Next

-----------------------------------------------------------------------------
(* The inductive invariant: the display.                                     *)

LEMMA DisplayInit == Init => DisplayInv
<1> SUFFICES ASSUME Init PROVE DisplayInv
  OBVIOUS
<1>1. TASK \in Proc /\ TASK \notin Shell
  BY ScreenAssumption DEF Proc
<1>2. \A c \in Cell : Due(TASK, c)
  BY <1>1 DEF Init, Due
<1> QED
  BY <1>1, <1>2 DEF Init, DisplayInv, Proc

\* Nothing is drawn and nothing that should be shown changes.
LEMMA SameImage ==
  ASSUME UNCHANGED <<ttyvars, current, screen>>, DisplayInv,
         \A p \in Proc, c \in Cell : Due(p, c) => Due(p, c)'
  PROVE  \A c \in Cell : screen'[c] = Image(current, c)' \/ \E p \in Proc : Due(p, c)'
BY DEF DisplayInv, Image, ttyvars

LEMMA DisplayCall ==
  ASSUME TypeOK, DisplayInv, NEW p \in Proc, NEW s \in Text, Call(p, s)
  PROVE  DisplayInv'
<1>1. /\ pc \in [Proc -> {"idle", "lock", "write", "render", "draw", "set"}]
      /\ on \in [Proc -> Tty] /\ TASK \in Proc /\ Shell \subseteq Proc /\ TASK \notin Shell
  BY ScreenAssumption DEF TypeOK, Proc
<1>2. /\ pc[p] = "idle" /\ pc' = [pc EXCEPT ![p] = "lock"]
      /\ on' = [on EXCEPT ![p] = IF p = TASK THEN ttydev ELSE Home[p]]
      /\ UNCHANGED <<ttyvars, current, screen, cell, ttydev>>
  BY DEF Call
<1>3. \A q \in Proc, c \in Cell : Due(q, c) => Due(q, c)'
  <2>1. \A c \in Cell : ~Due(p, c)
    BY <1>2 DEF Due
  <2>2. \A q \in Proc \ {p} : pc'[q] = pc[q] /\ on'[q] = on[q]
    BY <1>1, <1>2
  <2> QED
    BY <1>2, <2>1, <2>2 DEF Due
<1>4. \A c \in Cell : screen'[c] = Image(current, c)' \/ \E q \in Proc : Due(q, c)'
  BY <1>2, <1>3, SameImage
<1> QED
  BY <1>1, <1>2, <1>4 DEF DisplayInv

LEMMA DisplayLock ==
  ASSUME TypeOK, DisplayInv, NEW p \in Proc,
         WriteLock(p) \/ WriteUnlock(p) \/ RenderLock(p)
  PROVE  DisplayInv'
<1>1. /\ pc \in [Proc -> {"idle", "lock", "write", "render", "draw", "set"}]
      /\ TASK \in Proc /\ Shell \subseteq Proc
      /\ \A q \in Proc : cell[q] \in Cell
  BY DEF TypeOK, Proc
<1>2. PICK to \in {"write", "render", "draw"} :
        /\ pc' = [pc EXCEPT ![p] = to]
        /\ UNCHANGED <<ttyvars, current, screen, cell, ttydev, on>>
        /\ pc[p] \in {"lock", "write", "render"}
  BY DEF WriteLock, WriteUnlock, RenderLock, Lock
<1>3. cell[p] = 0
  BY <1>2 DEF DisplayInv
<1>4. \A q \in Proc, c \in Cell : Due(q, c) => Due(q, c)'
  <2>1. \A c \in Cell : c >= 0
    BY DEF Cell
  <2>2. \A q \in Proc \ {p} : pc'[q] = pc[q]
    BY <1>1, <1>2
  <2>3. pc'[p] = to
    BY <1>1, <1>2
  <2>4. \A c \in Cell : Due(p, c) => Due(p, c)'
    BY <1>2, <1>3, <2>1, <2>3 DEF Due
  <2> QED
    BY <1>2, <2>2, <2>4 DEF Due
<1>5. \A c \in Cell : screen'[c] = Image(current, c)' \/ \E q \in Proc : Due(q, c)'
  BY <1>2, <1>4, SameImage
<1> QED
  BY <1>1, <1>2, <1>3, <1>5 DEF DisplayInv

LEMMA DisplayPutc ==
  ASSUME TypeOK, DisplayInv, NEW p \in Proc, Putc(p)
  PROVE  DisplayInv'
<1>1. /\ pc[p] = "write"
      /\ UNCHANGED <<current, screen, cell, ttydev, on, pc>>
      /\ \A t \in Tty : t # on[p] => buf'[t] = buf[t] /\ cursor'[t] = cursor[t]
      /\ current \in Tty
  BY DEF Putc, TypeOK
<1>2. \A q \in Proc, c \in Cell : Due(q, c) => Due(q, c)'
  BY <1>1 DEF Due
<1>3. \A c \in Cell : screen'[c] = Image(current, c)' \/ \E q \in Proc : Due(q, c)'
  <2>1. CASE on[p] = current
    BY <1>1, <2>1 DEF Due
  <2>2. CASE on[p] # current
    <3>1. \A c \in Cell : Image(current, c)' = Image(current, c)
      BY <1>1, <2>2 DEF Image
    <3> QED
      BY <1>1, <1>2, <3>1 DEF DisplayInv
  <2> QED
    BY <2>1, <2>2
<1> QED
  BY <1>1, <1>3 DEF DisplayInv

LEMMA DisplayDraw ==
  ASSUME Inv, DisplayInv, NEW p \in Proc, Draw(p)
  PROVE  DisplayInv'
<1> DEFINE c0 == cell[p]
           t == on[p]
<1>1. /\ pc \in [Proc -> {"idle", "lock", "write", "render", "draw", "set"}]
      /\ TASK \in Proc /\ Shell \subseteq Proc /\ DOMAIN screen = Cell
      /\ c0 \in Cell /\ cell \in [Proc -> Cell] /\ size \in Nat /\ size > 1
  BY Sizes DEF Inv, TypeOK, Proc
<1>2. /\ pc[p] = "draw"
      /\ screen' = IF t = current THEN [screen EXCEPT ![c0] = Image(t, c0)] ELSE screen
      /\ cell' = [cell EXCEPT ![p] = (c0 + 1) % size]
      /\ IF c0 + 1 = size THEN pc' = [pc EXCEPT ![p] = "idle"] ELSE pc' = pc
      /\ UNCHANGED <<ttyvars, ttydev, current, on>>
  BY DEF Draw, Shown
<1>3. /\ c0 + 1 = size => (c0 + 1) % size = 0
      /\ c0 + 1 # size => (c0 + 1) % size = c0 + 1
  <2>1. c0 \in Nat /\ c0 < size
    BY <1>1 DEF Cell
  <2> HIDE DEF c0
  <2>2. c0 + 1 = size => (c0 + 1) % size = 0
    <3>1. size \in Nat \ {0} /\ 0 \in 0..(size - 1) /\ size = size * 1 + 0
      BY <1>1
    <3> QED
      BY <3>1, Remainder
  <2>3. c0 + 1 # size => (c0 + 1) % size = c0 + 1
    <3>1. c0 + 1 # size => c0 + 1 \in 0..(size - 1)
      BY <1>1, <2>1
    <3>2. size \in Nat \ {0} /\ c0 + 1 = size * 0 + (c0 + 1) /\ c0 + 1 \in Nat
      BY <1>1, <2>1
    <3> QED
      BY <3>1, <3>2, Remainder
  <2> QED
    BY <2>2, <2>3
<1> HIDE DEF c0
<1>4. \A q \in Proc : q # p => pc'[q] = pc[q] /\ cell'[q] = cell[q]
  BY <1>1, <1>2
<1>5. \A q \in Proc, c \in Cell : q # p => (Due(q, c) => Due(q, c)')
  BY <1>2, <1>4 DEF Due
<1>6. \A c \in Cell : Image(current, c)' = Image(current, c)
  BY <1>2 DEF Image, ttyvars
<1>7. ASSUME NEW c \in Cell
      PROVE  screen'[c] = Image(current, c)' \/ \E q \in Proc : Due(q, c)'
  <2>1. CASE t # current
    <3>1. ~Due(p, c)
      BY <2>1 DEF Due
    <3> QED
      BY <1>2, <1>5, <1>6, <2>1, <3>1 DEF DisplayInv
  <2>2. CASE t = current /\ c = c0
    <3>1. screen'[c] = Image(current, c)
      BY <1>1, <1>2, <2>2
    <3> QED
      BY <1>6, <3>1
  <2>3. CASE t = current /\ c # c0
    <3>1. screen'[c] = screen[c]
      BY <1>1, <1>2, <2>3
    <3>2. Due(p, c) => Due(p, c)'
      <4> SUFFICES ASSUME Due(p, c) PROVE Due(p, c)'
        OBVIOUS
      <4>1. c >= c0
        BY <1>2 DEF Due, c0
      <4>2. c0 + 1 # size /\ c >= c0 + 1
        BY <1>1, <2>3, <4>1 DEF Cell
      <4>3. pc'[p] = "draw" /\ cell'[p] = c0 + 1
        BY <1>1, <1>2, <1>3, <4>2
      <4> QED
        BY <1>2, <2>3, <4>2, <4>3 DEF Due
    <3> QED
      BY <1>5, <1>6, <3>1, <3>2 DEF DisplayInv
  <2> QED
    BY <2>1, <2>2, <2>3
<1>8. \A q \in Proc : pc'[q] # "draw" => cell'[q] = 0
  <2>1. pc'[p] # "draw" => cell'[p] = 0
    BY <1>1, <1>2, <1>3
  <2> QED
    BY <1>4, <2>1 DEF DisplayInv
<1>9. \A q \in Proc : pc'[q] = "set" <=> pc[q] = "set"
  BY <1>1, <1>2
<1> QED
  BY <1>1, <1>2, <1>7, <1>8, <1>9 DEF DisplayInv

LEMMA DisplaySwitch ==
  ASSUME TypeOK, DisplayInv, NEW t \in Tty, Switch(t) \/ SetCurrent
  PROVE  DisplayInv'
<1>1. /\ pc \in [Proc -> {"idle", "lock", "write", "render", "draw", "set"}]
      /\ on \in [Proc -> Tty] /\ TASK \in Proc /\ Shell \subseteq Proc /\ TASK \notin Shell
  BY ScreenAssumption DEF TypeOK, Proc
<1>2. CASE Switch(t)
  <2>1. /\ pc[TASK] = "idle" /\ pc' = [pc EXCEPT ![TASK] = "set"]
        /\ on' = [on EXCEPT ![TASK] = t] /\ ttydev' = t
        /\ UNCHANGED <<ttyvars, current, screen, cell>>
    BY <1>2 DEF Switch
  <2>2. \A q \in Proc \ {TASK} : pc'[q] = pc[q] /\ on'[q] = on[q]
    BY <1>1, <2>1
  <2>3. \A q \in Proc, c \in Cell : Due(q, c) => Due(q, c)'
    BY <2>1, <2>2 DEF Due
  <2>4. \A c \in Cell : screen'[c] = Image(current, c)' \/ \E q \in Proc : Due(q, c)'
    BY <2>1, <2>3, SameImage
  <2> QED
    BY <1>1, <2>1, <2>4 DEF DisplayInv
<1>3. CASE SetCurrent
  <2>1. /\ pc[TASK] = "set" /\ pc' = [pc EXCEPT ![TASK] = "lock"]
        /\ current' = ttydev /\ UNCHANGED <<ttyvars, ttydev, screen, cell, on>>
    BY <1>3 DEF SetCurrent
  <2>2. on[TASK] = ttydev /\ pc'[TASK] = "lock"
    BY <1>1, <2>1 DEF DisplayInv
  <2>3. \A c \in Cell : Due(TASK, c)'
    BY <2>1, <2>2 DEF Due
  <2> QED
    BY <1>1, <2>1, <2>3 DEF DisplayInv
<1> QED
  BY <1>2, <1>3

LEMMA DisplayNext == Inv /\ DisplayInv /\ [Next]_vars => DisplayInv'
<1> SUFFICES ASSUME Inv, DisplayInv, [Next]_vars PROVE DisplayInv'
  OBVIOUS
<1>0. TypeOK
  BY DEF Inv
<1>1. ASSUME UNCHANGED vars
      PROVE  DisplayInv'
  BY <1>1 DEF vars, ttyvars, DisplayInv, Due, Image
<1>2. ASSUME NEW p \in Proc, Step(p) \/ \E s \in Text : Call(p, s)
      PROVE  DisplayInv'
  BY <1>0, <1>2, DisplayCall, DisplayLock, DisplayPutc, DisplayDraw DEF Step
<1>3. First \in Tty
  BY ScreenAssumption
<1> QED
  BY <1>0, <1>1, <1>2, <1>3, DisplaySwitch DEF Next

-----------------------------------------------------------------------------
\* IInv is an invariant: it holds at first and every step keeps it.
THEOREM Invariance == Spec => []IInv
<1>1. IInv <=> Inv /\ DisplayInv
  BY DEF IInv, Inv
<1>2. Init => IInv
  BY <1>1, InvInit, DisplayInit
<1>3. IInv /\ [Next]_vars => IInv'
  <2>1. IInv' <=> Inv' /\ DisplayInv'
    BY DEF IInv, Inv
  <2> QED
    BY <1>1, <2>1, InvNext, DisplayNext
<1> QED
  BY <1>2, <1>3, PTL DEF Spec

\* tty_putc: after any mix of characters, wraps, Enters and Backspaces the cursor
\* is on the screen, and tty_write never writes outside buf, whatever the size.
THEOREM TypeCorrect == Spec => []TypeOK
<1>1. IInv => TypeOK
  BY DEF IInv
<1> QED
  BY <1>1, Invariance, PTL

\* tty_putc and scrollup: a terminal holds the last lines of all that was written
\* to it, with the cursor at the end of the text, however shells and tty_task
\* take turns at it.
THEOREM TextStays == Spec => []TextKept
<1>1. IInv => TextKept
  BY DEF IInv
<1> QED
  BY <1>1, Invariance, PTL

\* tty_render and fb_write: when all drawing is done, the display shows the
\* current terminal, though drawings and switches of terminal overlapped.
THEOREM DisplayCatchesUp == Spec => []ScreenShowsCurrent
<1>1. IInv => ScreenShowsCurrent
  <2> SUFFICES ASSUME IInv, \A p \in Proc : pc[p] = "idle", NEW c \in Cell
               PROVE  screen[c] = Image(ttydev, c)
    BY DEF ScreenShowsCurrent
  <2>1. current = ttydev
    BY DEF IInv, DisplayInv, Proc
  <2>2. \A p \in Proc : ~Due(p, c)
    BY DEF Due
  <2> QED
    BY <2>1, <2>2 DEF IInv, DisplayInv
<1> QED
  BY <1>1, Invariance, PTL
=============================================================================
