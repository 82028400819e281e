------------------------------- MODULE MCLibco ------------------------------
(* Three slots and four names: slots are used again, and run out.            *)
EXTENDS Libco
=============================================================================
