CONSTANTS
  Char = {"x", "y"}
  Reader = {"shell1", "shell2"}
  SZ = 5
  MaxTyped = 7
CHECK_DEADLOCK FALSE
SPECIFICATION FairSpec
INVARIANTS LinesCounted
PROPERTIES RefinesLineSpec
