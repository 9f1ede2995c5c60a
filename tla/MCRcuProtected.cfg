CONSTANTS
  Readers = {r1, u1}
  Updaters = {u1, u2}
  Objects = {o1, o2, o3, o4, o5}
  Null = Null
  NoUpdate = NoUpdate
  CleanupThreshold = 1
  FlushingThreshold = 1
  QueueCapacity = 3
  MaxCalls = 2

SPECIFICATION Spec
SYMMETRY ObjectSymmetry

INVARIANTS
  ContractInv
  NoUpdaterMeansAllPublished
  ReaderProtection
  BatchIsBounded
PROPERTIES
  RunsOnceInCallOrder
  ImplementsReclamation
  ImplementsContract
