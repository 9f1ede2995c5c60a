CONSTANTS
  Readers = {r1}
  Updaters = {u1, u2}
  Objects = {o1, o2, o3, o4, o5}
  Null = Null
  LastNode = 1
  MaxConcurrency = 2
  MaxRetired = 9
  FlushingThreshold = 1
  QueueCapacity = 2
  MaxCalls = 2
  NoUpdate = NoUpdate

SPECIFICATION Spec
SYMMETRY ObjectSymmetry

INVARIANTS
  ClassInv
  NoUpdaterMeansAllPublished
  DestructorFreesOnce
  NodesAgree
  ReaderProtectionOnOneNode
PROPERTIES
  ImplementsReclamation
  ImplementsAdvance
  ImplementsPlain
  HeldObjectIsImmutableOnOneNode
