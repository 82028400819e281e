CONSTANTS
  Caller = {"os_init", "shell1", "shell2"}
  Boot = "os_init"
  Size = {1, 2}
  pm_start = 3
  pm_end = 10
  MaxBlocks = 5
CHECK_DEADLOCK FALSE
SPECIFICATION Spec
INVARIANTS InHeap NeverGivenAgain
