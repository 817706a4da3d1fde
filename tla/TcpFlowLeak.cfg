SPECIFICATION Spec
CONSTANTS
  Conns = {c1}
  OtherHolds = 1
  MaxUses = 1
INVARIANT DialedFlowIsClosed
CHECK_DEADLOCK FALSE
