SPECIFICATION FairSpec
CONSTANTS
  NoOne = NoOne
  Agents = {a1}
  Dispatchers = {d1}
  Stoppers = {s1}
  MaxInstances = 3
  MaxDispatches = 1
  MaxFaults = 2
INVARIANTS
  TypeOK
  OneRun
  RunIsWatched
PROPERTIES
  ParkedIsRevived
CHECK_DEADLOCK FALSE
