SPECIFICATION Spec
CONSTANTS
  AssocIds = {a1}
  Tasks = {t1, t2, t3}
  MaxSessions = 3
  MaxInbound = 0
INVARIANTS
  OneSocketPerAssociation
SYMMETRY TaskSymmetry
CHECK_DEADLOCK FALSE
