SPECIFICATION Spec
CONSTANTS
  CellPm = CellPm
  MainPm = MainPm
  Nobody = Nobody
  Tasks = {t1}
  Devs = {d1, d2}
  QAs = {q1}
  Docs = {w1}
  HeadLeaves = {t1}
  Enabled <- EveryPath
SYMMETRY DevsInterchangeable
INVARIANTS
  IInv
  PoolIsUnlocked
  WorkHasBranch
  ReviewHasPullRequest
PROPERTIES
  TerminalIsFinal
CHECK_DEADLOCK FALSE
