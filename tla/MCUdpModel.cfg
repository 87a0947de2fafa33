SPECIFICATION FairSpec
CONSTANTS
  AssocIds = {a1}
  PktIdSpace = 2
  MaxFrags = 2
  GcLifetime = 1
  MaxClientSent = 2
  MaxServerSent = 1
  MaxDissociates = 2
INVARIANTS
  NoMixing
  AssembledIsComplete
  FragmentsFit
PROPERTY IncompleteIsCollected ImplementsDelivery
