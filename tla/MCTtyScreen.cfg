CONSTANTS
  Tty = {"tty1", "tty2"}
  First = "tty1"
  Shell = {"shell1"}
  Home <- MCHome
  lines = 2
  columns = 2
  Char <- MCChar
  Text <- MCText
  MaxWrites = 4
  NULL = NULL
CHECK_DEADLOCK FALSE
SPECIFICATION Spec
INVARIANTS TypeOK TextKept ScreenShowsCurrent
