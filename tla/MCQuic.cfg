SPECIFICATION Spec
CONSTANTS
  Addrs <- TwoPeers
  Home <- OneHome
  PortBits = 1
  PoolSize = 1
  QueueCapacity = 2
  MaxRetryAttempts = 2
  Calls = {"send", "send_nonblocking", "prewarm", "keep_alive", "connect"}
  IoFails = TRUE
  Sessions = TRUE
  MaxTx = 3
INVARIANTS
  RightDestination
  OnePlace
  PendingIsDirty
CHECK_DEADLOCK FALSE
