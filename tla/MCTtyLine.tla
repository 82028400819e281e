------------------------------ MODULE MCTtyLine -----------------------------
(* Two ordinary characters, two readers and a ring that wraps.                *)
EXTENDS TtyLine
=============================================================================
