CONSTANTS
  Readers = {r1, r2}
  Updaters = {u1}
  Objects = {o1, o2, o3, o4, o5}
  Null = Null
  LastNode = 1
  MaxConcurrency = 2
  MaxRetired = 9
  FlushingThreshold = 1
  QueueCapacity = 2
  MaxCalls = 3
  NoUpdate = NoUpdate

SPECIFICATION Spec
SYMMETRY ObjectSymmetry

INVARIANTS
  ReaderProtection
