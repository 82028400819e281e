----------------------------- MODULE MCTtyScreen ----------------------------
(* Screens of two lines of two columns: every cell is at a border.           *)
EXTENDS TtyScreen

MCHome == [s \in {"shell1"} |-> "tty1"]

MCChar == {"x", "\n", "\r", "bs"}

MCText == {<<"x">>, <<"x", "\n">>, <<"\r", "x", "bs">>}
=============================================================================
