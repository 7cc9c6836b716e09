SPECIFICATION FairSpec
CONSTANTS
  Addrs <- TwoPeers
  Home <- OneHome
  PortBits = 1
  PoolSize = 1
  QueueCapacity = 1
  MaxRetryAttempts = 2
  Calls = {"send"}
  IoFails = FALSE
  Sessions = FALSE
  MaxTx = 2
PROPERTY
  QueuedOnReadySent
CHECK_DEADLOCK FALSE
