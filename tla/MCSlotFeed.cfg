SPECIFICATION FairSpec
CONSTANTS
  Capacity = 2
  WireCap = 2
  MaxSlot = 2
  MaxFaults = 2
\* a feed that was stopped stays stopped
CHECK_DEADLOCK FALSE
PROPERTY FeedIsFollowed
PROPERTY StopEndsThreads
