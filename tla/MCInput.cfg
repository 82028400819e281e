CONSTANTS
  Letter = {"a"}
  Other = {"1"}
  Modifier <- MCModifiers
  Reader = {"tty-task", "shell"}
  NEVENTS = 3
  MaxCodes = 3
  NULL = NULL
CHECK_DEADLOCK FALSE
SPECIFICATION FairSpec
INVARIANTS TypeOK EventsAsStruck ReaderFindsEvent PanicMeansFull
PROPERTIES EveryStrokeRead
