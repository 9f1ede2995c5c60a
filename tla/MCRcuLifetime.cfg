CONSTANTS
  Readers = {r1}
  Updaters = {u1, u2}
  Objects = {o1, o2, o3, o4, o5, o6}
  Null = Null
  NoUpdate = NoUpdate
  CleanupThreshold = 1
  FlushingThreshold = 1
  QueueCapacity = 2
  MaxCalls = 2

SPECIFICATION LifeSpec
SYMMETRY ObjectSymmetry
CHECK_DEADLOCK FALSE

INVARIANTS
  ReaderProtection
  DestructorDeletesOnce
  DestructorDropsNoUpdate
PROPERTIES
  NothingPublishedAfterException
