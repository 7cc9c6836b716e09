CONSTANTS
  BufferSize = 3
  SlotsPerLeader = 2
  WindowsPerEpoch = 3
  Unlisted = {2}
  SlotsRegress = FALSE
  RpcSkew = 1
  Fanout = 2
  MaxSlot = 7
SPECIFICATION FairSpec
INVARIANTS
  EntriesMatchSchedule
  PositionsAscend
  FanoutAscends
PROPERTIES
  DriftNeverGrows
  CatchesUp
  StopReturns
CHECK_DEADLOCK FALSE
