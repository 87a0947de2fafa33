SPECIFICATION FairSpec
CONSTANTS
  Conns = {c1, c2, c3, c4}
  Users = {nil}
  OtherUuids = {u2}
  NilUuid = nil
  NoUuid = NoUuid
  MaximumClients = 2
  U64Space = 8
INVARIANTS
  CountIsExact
  AuthorizedIsUser
PROPERTIES
  CountSettles
CHECK_DEADLOCK FALSE
