SPECIFICATION FairSpec
CONSTANTS
  Addrs <- ThreePeers
  Home <- ThreeHomes
  PortBits = 1
  PoolSize = 2
  QueueCapacity = 1
  MaxRetryAttempts = 2
  Calls = {"send", "prewarm"}
  IoFails = FALSE
  Sessions = FALSE
  MaxTx = 1
INVARIANT
  UniqueAddresses
PROPERTY
  HeadIsDrained
CHECK_DEADLOCK FALSE
