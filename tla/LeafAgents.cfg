SPECIFICATION Spec
CONSTANTS
  CellPm = CellPm
  MainPm = MainPm
  Nobody = Nobody
  Tasks = {t1}
  Devs = {d1, d2}
  QAs = {q1, q2}
  Docs = {w1}
  HeadLeaves = {}
  Enabled = {}
SYMMETRY DevsInterchangeable
INVARIANTS
  TypeOK
  ReviewedBeforeCompletion
  CompletedIsMerged
  WorkerHoldsLock
  ReviewIsFrozen
  ReworkHasDeveloper
PROPERTIES
  RestoreIsExact
  DeliversReviewedWork
CHECK_DEADLOCK FALSE
