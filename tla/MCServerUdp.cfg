SPECIFICATION FairSpec
CONSTANTS
  AssocIds = {a1}
  Tasks = {t1, t2}
  MaxSessions = 2
  MaxInbound = 1
INVARIANTS
  EntriesAreLive
  RelayHasMode
  OneSessionUntilDissociate
PROPERTIES
  SessionsEnd
  TasksEnd
CHECK_DEADLOCK FALSE
