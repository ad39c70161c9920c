CONSTANTS
  Producers = {p1, p2}
  Consumers = {c1, c2}
  NoThread = none
  MaxItems = 2
  MaxPushes = 3
  MaxTimeouts = 1
SPECIFICATION FairSpec
CHECK_DEADLOCK FALSE
INVARIANTS LetThroughServed
PROPERTIES ActsAsQueue CallsReturn
