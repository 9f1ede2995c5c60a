CONSTANTS
  Readers = {r1}
  Updaters = {u1, u2}
  Objects = {o1, o2, o3}
  Null = Null
  NoUpdate = NoUpdate
  CleanupThreshold = 1
  FlushingThreshold = 0
  QueueCapacity = 1
  MaxCalls = 1

SPECIFICATION FairSpec

PROPERTIES
  EveryUpdateIsPublished
