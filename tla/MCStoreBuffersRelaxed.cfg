CONSTANTS
  Readers = {r1}
  Updaters = {u1}
  Objects = {o1, o2, o3, o4}
  Values = {v1}
  Garbage = Garbage
  Null = Null
  CleanupThreshold = 1
  MaxBuffered = 2

SPECIFICATION BufferSpec
SYMMETRY Symmetry

INVARIANTS
  ReaderProtection
