CONSTANTS
  Capacity = 2
  MaxEvents = 4
SPECIFICATION FairSpec
INVARIANTS
  TypeOK
  NoSlotRace
  DeliveredInOrder
  RecvErrorMeansDrained
  ReleasedOnce
PROPERTIES
  ImplementsQueue
  ClosedUnblocksSender
  PublishedUnblocksReceiver
CHECK_DEADLOCK FALSE
