------------------------------- MODULE MCKmt --------------------------------
(* Small machines: the configurations fix the CPUs, shells and semaphores.   *)
EXTENDS Kmt
=============================================================================
