CONSTANTS
  p1 = p1
  p2 = p2
  Producers = {p1, p2}
  First = p1
  Capacity = 2
  BitsPerWord = 1
  BatchSizes = {2}
  CasRetries = 2
  MaxEvents = 3
  ClosingCalls = TRUE
SPECIFICATION FairSpec
INVARIANTS
  NoSlotRace
  RecvErrorMeansDrained
  ReleasedOnce
PROPERTIES
  ImplementsQueue
  ClosedUnblocksSender
  ClosedUnblocksReceiver
CHECK_DEADLOCK FALSE
