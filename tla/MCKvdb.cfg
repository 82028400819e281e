CONSTANTS
  Proc = {"proc1"}
  Key <- MCKey
  Value <- MCValue
  MDLK = 4
  DLV <- MCDLV
  MaxPuts = 3
  MaxCrashes = 2
  CrashBefore = {"journal", "overwrite", "delete", "append", "truncate"}
  NULL = NULL
CHECK_DEADLOCK FALSE
SPECIFICATION Spec
INVARIANTS PutsSurvive FileIsChain
