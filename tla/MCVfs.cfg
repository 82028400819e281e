CONSTANTS
  a = a
  Name <- MCName
  Path <- MCPath
  Text = {"hello"}
  EMPTY = ""
  Mountable = {"dev"}
  DEV = "dev"
  NINODES = 4
  NENTRIES = 2
  NFILE = 4
  NULL = NULL
CHECK_DEADLOCK FALSE
SPECIFICATION Spec
INVARIANTS LinksCounted MountsShown
PROPERTIES LostOnlyWhenFull RefinesFs
