SPECIFICATION Spec
CONSTANTS
  r1 = r1
  r2 = r2
  p1 = p1
  p2 = p2
  Relays = {r1, r2}
  NoRelay = NoRelay
  FlowIds = {1, 2}
  PacketIds = {1}
  Packets = {p1, p2}
  Origin <- OneEach
  IdOf <- SameId
  Counts = {2}
  MaxSlots = 1
  MaxFlows = 2
  MaxGenerations = 2
CONSTRAINT Bound
INVARIANTS ReleasedOnce NoFlowOutlives NeverBare SlotsBounded UplinkIsOwn TableIsServed
PROPERTY ImplementsPromise
CHECK_DEADLOCK FALSE
