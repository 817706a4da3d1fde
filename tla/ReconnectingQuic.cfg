SPECIFICATION FairSpec
CONSTANTS
  Threads = {t1, t2}
  Control = control
  NoThread = NoThread
  MaxGenerations = 3
INVARIANTS HandedIsGenuine OneAlive RefusedIsDown WaitsAreAnswered
PROPERTIES LockIsGivenBack ImplementsPromise
CHECK_DEADLOCK FALSE
