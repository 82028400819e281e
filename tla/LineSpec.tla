------------------------------ MODULE LineSpec ------------------------------
(* What a terminal's line discipline gives its readers: what is typed, cut   *)
(* into pieces, in order, each piece whole and to one reader.  Enter ends a  *)
(* piece, and so does Break (Shift+Return), but only an Enter lets a reader  *)
(* have one, the oldest there is: without Break that is the line Enter ended,*)
(* with it the readers fall behind.  What was typed since the last end of a  *)
(* piece can be erased one by one.  It keeps Capacity bytes, a piece's end   *)
(* counting for one; when what is typed does not fit any more it may stop,   *)
(* and not before.                                                           *)
EXTENDS Integers, Sequences, FiniteSetsExt

CONSTANTS Char, NL, Capacity

VARIABLES
  line,    \* what was typed since the last end of a piece
  lines,   \* complete pieces nobody has read
  ready,   \* Enters for which nothing was read yet
  given,   \* the pieces read so far, oldest first
  stopped  \* it has overflowed

vars == <<line, lines, ready, given, stopped>>

Stored == Len(line) + MapThenSumSet(LAMBDA i : Len(lines[i]) + 1, DOMAIN lines)

Init == line = <<>> /\ lines = <<>> /\ ready = 0 /\ given = <<>> /\ stopped = FALSE

Type(c) ==
  /\ Stored + 1 <= Capacity
  /\ line' = Append(line, c)
  /\ UNCHANGED <<lines, ready, given, stopped>>

Erase ==
  /\ line # <<>>
  /\ line' = SubSeq(line, 1, Len(line) - 1)
  /\ UNCHANGED <<lines, ready, given, stopped>>

Enter ==
  /\ Stored + 2 <= Capacity
  /\ lines' = Append(lines, Append(line, NL))
  /\ line' = <<>>
  /\ ready' = ready + 1
  /\ UNCHANGED <<given, stopped>>

Break ==
  /\ Stored + 1 <= Capacity
  /\ lines' = Append(lines, line)
  /\ line' = <<>>
  /\ UNCHANGED <<ready, given, stopped>>

Give ==
  /\ ready > 0 /\ lines # <<>>
  /\ given' = Append(given, Head(lines))
  /\ lines' = Tail(lines)
  /\ ready' = ready - 1
  /\ UNCHANGED <<line, stopped>>

Overflow ==
  /\ Stored + 2 > Capacity
  /\ stopped' = TRUE
  /\ UNCHANGED <<line, lines, ready, given>>

Next ==
  /\ ~stopped
  /\ (\E c \in Char : Type(c)) \/ Erase \/ Enter \/ Break \/ Give \/ Overflow

Spec == Init /\ [][Next]_vars /\ WF_vars(~stopped /\ Give)
=============================================================================
