SPECIFICATION Spec
CONSTANTS
  Devs = {d1, d2}
  Reviewers = {r1}
  Nobody = Nobody
  Files = {"f"}
  Surfaces <- MCSurfaces
  MaxSiblings = 3
  MaxDependsOn = 0
SYMMETRY DevSymmetry
INVARIANTS TypeOK PlanIsAcyclic OverlapsAreOrdered NeverTogether
CHECK_DEADLOCK FALSE
