CONSTANTS
  Readers = {r1, r2, r3}
  Scanners = {s1, s2}

SPECIFICATION HSpec

INVARIANTS
  StayersAreAhead
PROPERTIES
  ClearMeansNobodyStayed
