SPECIFICATION FairSpec
CONSTANTS
  Nobody = Nobody
  Tasks = {t1}
  Parents = {p1}
  Calls = {c1, c2, c3}
INVARIANTS
  TypeOK
  OneMilestone
  OnePlan
PROPERTIES
  CallsEnd
