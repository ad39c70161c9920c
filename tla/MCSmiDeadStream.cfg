CONSTANTS
  Callers = {c1, c2}
  Writer = w
  NoOne = none
  Periods = 4
  Parts = 1
  RxCap = 1
  TxCap = 1
  MaxLag = 1
  MaxChunks = 2
  Signals = TRUE
SPECIFICATION Spec
SYMMETRY CallerSymmetry
CHECK_DEADLOCK FALSE
INVARIANT
  RxStreamRuns
