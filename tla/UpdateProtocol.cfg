CONSTANTS
  Updaters = {u1, u2, u3}
  FlushingThreshold = 1
  QueueCapacity = 2
  MaxCalls = 2
  NoUpdate = NoUpdate

SPECIFICATION FairSpec
CHECK_DEADLOCK FALSE

INVARIANTS
  CountMeansOneUpdater
  CountIsExact
  ProtocolInv
  StuckOnlyInNestedCall
PROPERTIES
  CallsReturnUnlessStuck
