SPECIFICATION Spec
CONSTANTS
  Threads = {t1}
  Control = control
  NoThread = NoThread
  MaxGenerations = 2
INVARIANT NoneLeftBehind
CHECK_DEADLOCK FALSE
