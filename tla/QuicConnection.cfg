SPECIFICATION FairSpec
CONSTANTS
  Streams = {s1}
  Window = 3
  MaxBytes = 4
  Harvest = 2
INVARIANTS NothingLost
PROPERTIES ImplementsPromise TransferEnds QueuedIsRun
CHECK_DEADLOCK FALSE
