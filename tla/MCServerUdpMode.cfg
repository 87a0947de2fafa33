SPECIFICATION Spec
CONSTANTS
  AssocIds = {a1, a2}
  Tasks = {t1, t2}
  MaxSessions = 2
  MaxInbound = 1
INVARIANTS
  AnswersInFirstMode
SYMMETRY TaskSymmetry
CHECK_DEADLOCK FALSE
