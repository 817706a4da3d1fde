SPECIFICATION FairSpec
CONSTANTS
  u1 = u1
  u2 = u2
  s1 = s1
  s2 = s2
  Urls = {u1, u2}
  Subs = {s1, s2}
  Fetches = {f1}
  NoSub = NoSub
  NoUrl = NoUrl
  Automatic = Automatic
  NoUndo = NoUndo
  MaxQueue = 1
  MaxFailures = 1
CONSTRAINT Bound
INVARIANTS OncePerAttempt StaysPicked ReportHonest OverIsDown
PROPERTIES KeptAndMarked NoNewOrphans NoTwins AttemptsEnd
CHECK_DEADLOCK FALSE
