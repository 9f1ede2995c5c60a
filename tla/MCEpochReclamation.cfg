CONSTANTS
  Readers = {r1, r2}
  Updaters = {u1}
  Objects = {o1, o2, o3, o4, o5, o6}
  Values = {v1, v2}
  Garbage = Garbage
  Null = Null
  CleanupThreshold = 2

SPECIFICATION HistorySpec
SYMMETRY Symmetry

INVARIANTS
  EveryObjectHasOneOwner
  ReaderProtection
  MemoryIsBounded
  MemoryInv
PROPERTIES
  HeldObjectIsImmutable
  ImplementsAdvance
  OnlyStayersStopScans
