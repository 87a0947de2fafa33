SPECIFICATION HeartbeatFairSpec
CONSTANTS
  Connects = {t1}
  Associations = {a1}
  HeartbeatTicks = 2
  MaxIdle = 7
  MaxDelay = 1
  MaxLost = 1
INVARIANTS
  BusyIsKept
PROPERTIES
  IdleIsLetGo
CHECK_DEADLOCK FALSE
