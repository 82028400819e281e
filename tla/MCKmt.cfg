CONSTANTS
  NCPU = 2
  NSHELL = 1
  Sem = {"event_sem"}
  MaxValue = 1
  NULL = NULL
SPECIFICATION Spec
INVARIANTS TypeOK NoPanic ResumesWhereItStopped RunningIffOnCpu StacksExclusive NoLostWakeup
