SPECIFICATION FairSpec
CONSTANTS
  Handlers = {h1, h2}
  Undecodable = {3}
  BatchSize = 2
  ReclaimCount = 2
  MaxStreamLength = 2
  Enabled = {}
  MaxEvents = 3
  MaxRestarts = 1

  
PROPERTIES
  
  EventuallyAcked
CHECK_DEADLOCK FALSE
