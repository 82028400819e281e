---------------------------- MODULE MCSemaphore -----------------------------
(* Three tasks on a ring of two slots, so that it wraps, fills and panics.  *)
EXTENDS Semaphore

CONSTANTS t1, t2, t3
=============================================================================
