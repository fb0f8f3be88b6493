SPECIFICATION FairSpec
CONSTANTS
  Nobody = Nobody
  Approves = {a1, a2}
  Rejects = {r1}
  LogWindow = 2
  MayOutlast = {"ci", "publish"}
  MaxPushes = 1
  MaxRestarts = 1
INVARIANTS
  TypeOK
  OneReleaseCommit
  PublishedIsGreen
  CompletedIsPublished
PROPERTIES
  LockIsFreed
  ReleasesVersionOnce
CHECK_DEADLOCK FALSE
