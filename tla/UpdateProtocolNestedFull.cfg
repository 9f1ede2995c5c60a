CONSTANTS
  Updaters = {u1, u2}
  FlushingThreshold = 1
  QueueCapacity = 1
  MaxCalls = 2
  NoUpdate = NoUpdate

SPECIFICATION FairSpec
CHECK_DEADLOCK FALSE

PROPERTIES
  NestedUpdateReturns
