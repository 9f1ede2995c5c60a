CONSTANTS
  Readers = {r1, r2, r3}
  Scanners = {u1}

SPECIFICATION FairSpec

PROPERTIES
  ReclamationNeverStops
