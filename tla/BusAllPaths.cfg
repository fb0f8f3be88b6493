SPECIFICATION Spec
CONSTANTS
  Handlers = {h1, h2}
  Undecodable = {2}
  BatchSize = 1
  ReclaimCount = 1
  MaxStreamLength = 1
  Enabled = {"kill", "slow", "redis_down", "expiry", "cancelled"}
  MaxEvents = 2
  MaxRestarts = 1
INVARIANTS
  TypeOK
  RunsAlone
  NothingForgotten
PROPERTIES
  HandledOnce
CHECK_DEADLOCK FALSE
