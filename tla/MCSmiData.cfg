CONSTANTS
  Callers = {c1}
  Writer = w
  NoOne = none
  Periods = 4
  Parts = 2
  RxCap = 4
  TxCap = 1
  MaxLag = 2
  MaxChunks = 5
  Signals = FALSE
SPECIFICATION Spec
INVARIANTS
  DeliveredInOrder
  NoLostWakeup
