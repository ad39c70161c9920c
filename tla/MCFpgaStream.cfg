SPECIFICATION FairSpec
CONSTANTS
  AddrWidth = 2
  FrameClocks = 2
  SyncFrames = 1
  StrobeEdges = 2
  MaxRx = 4
  MaxTx = 4
  MaxSwitches = 2
  MaxFaults = 1
INVARIANTS TxFramed EveryWordOffered SentOnceInOrder
PROPERTIES ImplementsFifo ReadInOrder PulledIsSent WholeFrames CatchesUp
