SPECIFICATION FairSpec
CONSTANTS
  QueueSize = 1
  WorkerBatch = 2
  ResponseBatch = 1
  SlowStreams = {1}
  IoErrors = TRUE
  MaxStreams = 3
  Clients = {1}
  ReadTimeouts = TRUE
  Script <- OneClient
INVARIANTS
  AnswerIsOwn
  InFlightMatchesPending
PROPERTIES
  SentIsAnswered
  ClosedIsRemoved
  ShutdownReturns
CHECK_DEADLOCK FALSE
