CONSTANTS
  Callers = {c1, c2}
  Writer = w
  NoOne = none
  Periods = 2
  Parts = 1
  RxCap = 1
  TxCap = 1
  MaxLag = 0
  MaxChunks = 1
  Signals = FALSE
SPECIFICATION FairSpec
PROPERTIES
  SetStateReturns
  PollerServed
