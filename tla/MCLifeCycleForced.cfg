SPECIFICATION Spec
CONSTANTS
  MaxChips = 4
  MaxCalls = 2
  MaxFaults = 0
  MaxRuns = 1
CHECK_DEADLOCK FALSE
INVARIANTS ForcedIsProgrammed
