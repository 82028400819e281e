CONSTANTS
  MAX_CO = 3
  Names = {"A", "B", "C", "D"}
  None = None
  MaxYields = 3
  InOrder = TRUE
CHECK_DEADLOCK FALSE
SPECIFICATION Spec
INVARIANTS ReturnsToCaller RunningIsCurrent
PROPERTIES RefinesCoSpec
