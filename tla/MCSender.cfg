SPECIFICATION FairSpec
CONSTANTS
  Schedule <- Rotation
  Size = 3
  Lookahead = 3
  Strategies = {"jit", "static", "adaptive", "background"}
  Port = "Main"
  PRIMARY = 2
  BACKUP = 1
  Fanouts = {1, 3}
  HandshakeTimes = {100, 2000, 9000}
  min_solana_slots = 4
  max_solana_slots = 20
  MaxWindow = 3
INVARIANTS
  FallbackOnlyWhenAllDead
PROPERTIES
  NextLeaderIsTried
  PrewarmFollowsRotation
CHECK_DEADLOCK FALSE
