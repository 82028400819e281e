CONSTANTS
  NCPU = 2
  NSHELL = 1
  Sem = {}
  MaxValue = 1
  NULL = NULL
SPECIFICATION FairSpec
PROPERTIES ReadyRuns KbdSemKeepsPromise
