SPECIFICATION FairSpec
CONSTANTS
  MaxGen = 3
INVARIANTS
  FilesAreServed
PROPERTIES
  RenewalIsServed
CHECK_DEADLOCK FALSE
