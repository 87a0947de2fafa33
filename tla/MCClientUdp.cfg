SPECIFICATION FairSpec
CONSTANTS
  Assocs = {s1, s2, s3}
  U16Space = 2
  Packets = {p1}
  MaxConns = 2
  Nobody = Nobody
INVARIANTS
  OneConnection
  SessionIsOwn
  NoDeadSession
  AnswersHavePeer
  SessionsAreActive
PROPERTIES
  AssociationsEnd
CHECK_DEADLOCK FALSE
