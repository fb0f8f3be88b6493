SPECIFICATION Spec
CONSTANTS
  Devs = {d1}
  Reviewers = {r1}
  Nobody = Nobody
  Files = {"f"}
  Surfaces <- MCUndeclared
  MaxSiblings = 3
  MaxDependsOn = 0
INVARIANT QueuesMove
CHECK_DEADLOCK FALSE
