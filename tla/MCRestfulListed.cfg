SPECIFICATION Spec
CONSTANTS
  Conns = {c1, c2, c3}
  Users = {nil}
  OtherUuids = {u2}
  NilUuid = nil
  NoUuid = NoUuid
  MaximumClients = 0
  U64Space = 8
INVARIANTS
  OnlineIsListed
CHECK_DEADLOCK FALSE
