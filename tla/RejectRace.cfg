SPECIFICATION Spec
CONSTANTS
  Nobody = Nobody
  Approves = {a1}
  Rejects = {r1}
  LogWindow = 2
  MayOutlast = {}
  MaxPushes = 0
  MaxRestarts = 0
PROPERTIES
  RejectStands
CHECK_DEADLOCK FALSE
