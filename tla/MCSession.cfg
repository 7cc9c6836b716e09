SPECIFICATION Spec
CONSTANTS
  Threads = {"sender", "prewarm"}
  Addrs = {1, 2, 3}
  Pack <- ThreeOfOneShard
  Ttl = 1
  MaxTime = 1
  MaxInserts = 3
INVARIANT
  InsertIsFound
CHECK_DEADLOCK FALSE
