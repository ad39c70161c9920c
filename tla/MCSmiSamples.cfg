SPECIFICATION FairSpec
CONSTANTS
  Period = 5
  Batch = 10
  RxCap = 15
  TxCap = 15
  Lengths = {3, 12, 25}
  MaxPeriods = 4
  MaxRestarts = 1
INVARIANTS TypeOK TimeBase ChunkDecoded AtMostOneShort
PROPERTIES CallsEnd
