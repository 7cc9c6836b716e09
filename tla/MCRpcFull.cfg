SPECIFICATION FairSpec
CONSTANTS
  QueueSize = 1
  WorkerBatch = 2
  ResponseBatch = 1
  SlowStreams = {}
  IoErrors = FALSE
  MaxStreams = 4
  Clients = {1}
  ReadTimeouts = FALSE
  Script <- FourRequests
PROPERTIES
  SentIsAnswered
  ShutdownReturns
CHECK_DEADLOCK FALSE
