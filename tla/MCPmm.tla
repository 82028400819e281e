------------------------------- MODULE MCPmm --------------------------------
(* Two tasks besides os_init, sizes of one and two bytes, a heap that ends.  *)
EXTENDS Pmm
=============================================================================
