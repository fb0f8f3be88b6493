SPECIFICATION Spec
CONSTANTS
  Nobody = Nobody
  Tasks = {t1}
  Devs = {d1}
  QAs = {q1, q2}
  Calls = {c1, c2}
SYMMETRY Interchangeable
PROPERTIES
  ReviewClaimStands
CHECK_DEADLOCK FALSE
