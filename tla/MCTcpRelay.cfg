SPECIFICATION FairSpec
CONSTANTS
  MaxUp = 3
  MaxDown = 3
  Window = 2
  SocketSize = 2
  BufferSize = 2
INVARIANTS
  NothingLost
  TargetEofIsComplete
  AnswerEndIsComplete
PROPERTIES
  EofEndsRelay
CHECK_DEADLOCK FALSE
