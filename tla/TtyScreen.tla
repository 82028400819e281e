------------------------------ MODULE TtyScreen -----------------------------
(* kernel/src/devices/tty/tty.c and video/video.c: the terminals' screens.   *)
(* Every terminal keeps its characters in buf, draws all dirty ones after a  *)
(* write (none is ever clean), and the frame buffer shows the sprites of the *)
(* current display.  Shells write to their terminals while tty_task echoes   *)
(* keys and switches terminals.                                              *)
(*                                                                           *)
(* tty->lock and fb_sem are semaphores used as mutexes: what is between wait *)
(* and signal of fb_sem, and tty_write's loop, are one step; a rendering is  *)
(* one step per cell.                                                        *)
EXTENDS Integers, Sequences, FiniteSets

CONSTANTS
  Tty,        \* the terminals; dev_lookup("tty1") is First
  First,
  Shell,      \* writers; shell s writes to terminal Home[s]
  Home,
  lines, columns,
  Char,       \* the characters that are written
  Text,       \* the strings that are written
  MaxWrites,  \* bound: writes and switches
  NULL

TASK == "tty-task"
Proc == Shell \cup {TASK}
size == lines * columns
Cell == 0..(size - 1)
CURSOR == "cursor"     \* texture 0xdb
BLANK == "blank"       \* '\0'
Glyph == Char \cup {BLANK}

ASSUME ScreenAssumption ==
  /\ lines \in Nat \ {0} /\ columns \in Nat \ {0} /\ size > 1
  /\ Home \in [Shell -> Tty] /\ TASK \notin Shell
  /\ First \in Tty
  /\ NULL \notin Proc
  /\ Text \subseteq Seq(Char)
  /\ MaxWrites \in Nat

VARIABLES
  buf,      \* [Tty -> [Cell -> character]]
  cursor,   \* [Tty -> Nat], tty->cursor - tty->buf
  lock,     \* [Tty -> the process that has tty->lock, or NULL]
  ttydev,   \* tty_task's current terminal
  current,  \* fb->info->current
  screen,   \* [Cell -> what the display shows]
  pc,       \* [Proc -> where it is in tty_write, or tty_task in its switch]
  on,       \* [Proc -> the terminal it writes to]
  str,      \* [Proc -> what is left of the string]
  cell,     \* [Proc -> the next cell to draw]
  writes,   \* writes and switches so far
  out       \* history: [Tty -> all that was written to it]

ttyvars == <<buf, cursor>>
vars == <<buf, cursor, lock, ttydev, current, screen, pc, on, str, cell, writes, out>>

\* tty_init and fb_init; tty_task starts by drawing tty1.
Init ==
  /\ buf = [t \in Tty |-> [c \in Cell |-> BLANK]]
  /\ cursor = [t \in Tty |-> 0]
  /\ lock = [t \in Tty |-> NULL]
  /\ ttydev = First /\ current = First
  /\ screen = [c \in Cell |-> BLANK]
  /\ pc = [p \in Proc |-> IF p = TASK THEN "render" ELSE "idle"]
  /\ on = [p \in Proc |-> IF p = TASK THEN First ELSE Home[p]]
  /\ str = [p \in Proc |-> <<>>]
  /\ cell = [p \in Proc |-> 0]
  /\ writes = 0
  /\ out = [t \in Tty |-> <<>>]

-----------------------------------------------------------------------------
(* tty_putc on a terminal s == [buf, cursor].                                *)

\* mutant: the cleared line is the one above
Mutscrollup(s) ==
  [buf |-> [c \in Cell |-> IF c + columns < size THEN s.buf[c + columns] ELSE s.buf[c]],
   cursor |-> s.cursor - columns]

scrollup(s) ==
  [buf |-> [c \in Cell |-> IF c + columns < size THEN s.buf[c + columns] ELSE BLANK],
   cursor |-> s.cursor - columns]

\* mutant: scrolls only past the end
MutScrollIfEnd(s) == IF s.cursor > size THEN scrollup(s) ELSE s

ScrollIfEnd(s) == IF s.cursor = size THEN scrollup(s) ELSE s

cr(s) == [s EXCEPT !.cursor = @ - (@ % columns)]
lf(s) == [s EXCEPT !.cursor = @ + columns]
backsp(s) ==
  IF s.cursor > 0 THEN [buf |-> [s.buf EXCEPT ![s.cursor - 1] = BLANK], cursor |-> s.cursor - 1]
  ELSE s

putc(s, ch) ==
  CASE ch = "\r" -> cr(s)
    [] ch = "bs" -> backsp(s)
    [] ch = "\n" -> ScrollIfEnd(lf(cr(s)))
    [] OTHER -> ScrollIfEnd([buf |-> [s.buf EXCEPT ![s.cursor] = ch], cursor |-> s.cursor + 1])

-----------------------------------------------------------------------------
(* tty_write(tty, str) and tty_render(tty)                                   *)

Call(p, s) ==
  /\ pc[p] = "idle"
  /\ writes < MaxWrites
  /\ writes' = writes + 1
  /\ on' = [on EXCEPT ![p] = IF p = TASK THEN ttydev ELSE Home[p]]
  /\ str' = [str EXCEPT ![p] = s]
  /\ pc' = [pc EXCEPT ![p] = "lock"]
  /\ UNCHANGED <<ttyvars, lock, ttydev, current, screen, cell, out>>

Lock(p, from, to) ==
  /\ pc[p] = from
  /\ lock[on[p]] = NULL
  /\ lock' = [lock EXCEPT ![on[p]] = p]
  /\ pc' = [pc EXCEPT ![p] = to]
  /\ UNCHANGED <<ttyvars, ttydev, current, screen, on, str, cell, writes, out>>

WriteLock(p) == Lock(p, "lock", "write")
RenderLock(p) == Lock(p, "render", "draw")

Putc(p) ==
  LET t == on[p]
      new == putc([buf |-> buf[t], cursor |-> cursor[t]], Head(str[p]))
  IN /\ pc[p] = "write"
     /\ str[p] # <<>>
     /\ buf' = [buf EXCEPT ![t] = new.buf]
     /\ cursor' = [cursor EXCEPT ![t] = new.cursor]
     /\ out' = [out EXCEPT ![t] = Append(@, Head(str[p]))]
     /\ str' = [str EXCEPT ![p] = Tail(@)]
     /\ UNCHANGED <<lock, ttydev, current, screen, pc, on, cell, writes>>

WriteUnlock(p) ==
  /\ pc[p] = "write"
  /\ str[p] = <<>>
  /\ lock' = [lock EXCEPT ![on[p]] = NULL]
  /\ pc' = [pc EXCEPT ![p] = "render"]
  /\ UNCHANGED <<ttyvars, ttydev, current, screen, on, str, cell, writes, out>>

Image(t, c) == IF c = cursor[t] THEN CURSOR ELSE buf[t][c]

\* mutant: fb_write does not look at the sprite's display
MutShown(t) == TRUE

\* fb_write draws a sprite only if its display is the current one
Shown(t) == t = current

Draw(p) ==
  LET c == cell[p]
      t == on[p]
  IN /\ pc[p] = "draw"
     /\ screen' = IF Shown(t) THEN [screen EXCEPT ![c] = Image(t, c)] ELSE screen
     /\ cell' = [cell EXCEPT ![p] = (c + 1) % size]
     /\ IF c + 1 = size
        THEN lock' = [lock EXCEPT ![t] = NULL] /\ pc' = [pc EXCEPT ![p] = "idle"]
        ELSE UNCHANGED <<lock, pc>>
     /\ UNCHANGED <<ttyvars, ttydev, current, on, str, writes, out>>

-----------------------------------------------------------------------------
(* tty_task on Alt-1 .. Alt-4: another terminal becomes current and is drawn *)
(* by an empty write.                                                        *)

Switch(t) ==
  /\ pc[TASK] = "idle"
  /\ t # ttydev
  /\ writes < MaxWrites
  /\ writes' = writes + 1
  /\ ttydev' = t
  /\ on' = [on EXCEPT ![TASK] = t]
  /\ str' = [str EXCEPT ![TASK] = <<>>]
  /\ pc' = [pc EXCEPT ![TASK] = "set"]
  /\ UNCHANGED <<ttyvars, lock, current, screen, cell, out>>

SetCurrent ==
  /\ pc[TASK] = "set"
  /\ current' = ttydev
  /\ pc' = [pc EXCEPT ![TASK] = "lock"]
  /\ UNCHANGED <<ttyvars, lock, ttydev, screen, on, str, cell, writes, out>>

-----------------------------------------------------------------------------
Step(p) ==
  \/ WriteLock(p) \/ Putc(p) \/ WriteUnlock(p) \/ RenderLock(p) \/ Draw(p)

Next ==
  \/ \E p \in Proc : Step(p) \/ \E s \in Text : Call(p, s)
  \/ \E t \in Tty : Switch(t)
  \/ SetCurrent

Spec == Init /\ [][Next]_vars

-----------------------------------------------------------------------------
(* Properties *)

\* Every variable has its type; in particular the cursor, through which putc
\* writes, is always on the screen, after any mix of wraps, Enters and Backspaces.
TypeOK ==
  /\ cursor \in [Tty -> Cell]
  /\ DOMAIN buf = Tty /\ \A t \in Tty : DOMAIN buf[t] = Cell
  /\ lock \in [Tty -> Proc \cup {NULL}]
  /\ {ttydev, current} \subseteq Tty
  /\ DOMAIN screen = Cell
  /\ pc \in [Proc -> {"idle", "lock", "write", "render", "draw", "set"}]
  /\ on \in [Proc -> Tty]
  /\ cell \in [Proc -> Cell]

(* The text as if the screen were endless, the display a window that slides  *)
(* down over it: after i characters the cursor is at pos, the window at off. *)
Slide(at, ch) ==
  LET new == CASE ch = "\n" -> (at.pos \div columns + 1) * columns
               [] ch = "\r" -> (at.pos \div columns) * columns
               [] ch = "bs" -> IF at.pos > at.off THEN at.pos - 1 ELSE at.pos
               [] OTHER -> at.pos + 1
  IN [pos |-> new, off |-> IF new < at.off + size THEN at.off ELSE at.off + columns]

Tape(s) ==
  LET tape[i \in 0..Len(s)] ==
        IF i = 0 THEN [pos |-> 0, off |-> 0] ELSE Slide(tape[i - 1], s[i])
  IN tape

\* What is at k of the endless text: the last character typed there, if it was
\* not rubbed out since.
CharAt(s, tape, k) ==
  LET typed == {i \in 1..Len(s) : s[i] \notin {"\n", "\r", "bs"} /\ tape[i - 1].pos = k}
      rubbed == {i \in 1..Len(s) : s[i] = "bs" /\ tape[i].pos = k /\ tape[i - 1].pos = k + 1}
      last == CHOOSE i \in typed \cup rubbed : \A j \in typed \cup rubbed : j <= i
  IN IF typed \cup rubbed = {} \/ last \in rubbed THEN BLANK ELSE s[last]

\* A terminal holds the last lines of what was written to it, whoever wrote, and
\* the cursor is where the text ends.
TextKept ==
  \A t \in Tty :
    LET tape == Tape(out[t])
        end == tape[Len(out[t])]
    IN /\ cursor[t] = end.pos - end.off
       /\ \A c \in Cell : buf[t][c] = CharAt(out[t], tape, end.off + c)

\* When nobody is writing, the display shows the current terminal, text and
\* cursor, though shells and tty_task drew at the same time and the terminal was
\* switched in the middle of a drawing.
ScreenShowsCurrent ==
  (\A p \in Proc : pc[p] = "idle") => \A c \in Cell : screen[c] = Image(ttydev, c)

-----------------------------------------------------------------------------
(* The inductive invariant of TtyScreenProofs.                               *)

\* what TypeOK leaves open: the characters
CharInv ==
  /\ buf \in [Tty -> [Cell -> Glyph]]
  /\ screen \in [Cell -> Glyph \cup {CURSOR}]
  /\ str \in [Proc -> Seq(Char)]
  /\ out \in [Tty -> Seq(Char)]

\* p is going to draw cell c of the current display.
Due(p, c) ==
  /\ on[p] = current
  /\ pc[p] \in {"lock", "write", "render"} \/ (pc[p] = "draw" /\ c >= cell[p])

\* What the display does not show yet, somebody is about to draw.
DisplayInv ==
  /\ \A c \in Cell : screen[c] = Image(current, c) \/ \E p \in Proc : Due(p, c)
  /\ \A p \in Proc : pc[p] # "draw" => cell[p] = 0
  /\ pc[TASK] = "set" => on[TASK] = ttydev
  /\ pc[TASK] # "set" => current = ttydev
  /\ \A s \in Shell : pc[s] # "set"

IInv == TypeOK /\ CharInv /\ TextKept /\ DisplayInv
=============================================================================
