SPECIFICATION Spec
CONSTANTS
  Streams = {s1, s2, s3, s4, s5}
  InitStreams = 2
SYMMETRY Symmetry
INVARIANTS
  LimitGrows
  MissesHaveCauses
