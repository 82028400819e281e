CONSTANTS
  t1 = t1
  t2 = t2
  t3 = t3
  Task = {t1, t2, t3}
  NULL = NULL
  NTHREAD = 2
  InitialValue = 0
  MaxValue = 2
CHECK_DEADLOCK FALSE
SPECIFICATION FairSpec
INVARIANTS TypeOK WaitersInRing NoLostWakeup PanicMeansFull
PROPERTIES Fifo RefinesSemSpec
