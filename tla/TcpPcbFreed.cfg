SPECIFICATION Spec
CONSTANTS
  Conns = {c1}
  OtherHolds = 1
  MaxUses = 1
INVARIANT NoUseAfterDeviceFrees
CHECK_DEADLOCK FALSE
