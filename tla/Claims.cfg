SPECIFICATION Spec
CONSTANTS
  Nobody = Nobody
  Tasks = {t1, t2}
  Devs = {d1, d2}
  QAs = {}
  Calls = {c1, c2}
SYMMETRY Interchangeable
INVARIANTS
  TypeOK
  OneActiveTask
CHECK_DEADLOCK FALSE
