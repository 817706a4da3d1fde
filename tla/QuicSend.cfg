SPECIFICATION FairSpec
CONSTANTS
  Streams = {s1, s2}
  MaxBuffer = 2
  MaxCredit = 1
  QueueMax = 1
  None = None
INVARIANT NothingDropped
PROPERTIES NoBusyStreamStarves ImplementsPromise NearerEachTurn
