SPECIFICATION Spec
CONSTANTS
  Streams = {s1}
  Window = 3
  MaxBytes = 4
  Harvest = 2
INVARIANT EndIsClean
CHECK_DEADLOCK FALSE
