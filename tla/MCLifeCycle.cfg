SPECIFICATION FairSpec
CONSTANTS
  MaxChips = 4
  MaxCalls = 3
  MaxFaults = 5
  MaxRuns = 2
CHECK_DEADLOCK FALSE
INVARIANTS TypeOK ReadyIsWhole NothingLeftBehind ClosedOnce
PROPERTIES CallsEnd
