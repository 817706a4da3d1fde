SPECIFICATION FairSpec
CONSTANTS
  Conns = {c1}
  OtherHolds = 1
  MaxUses = 1
INVARIANTS HoldsCounted NoGhostEntry HandedBackOnce NoUseAfterHandBack
PROPERTIES EndedIsQuiet EndedGivesPcbBack
CHECK_DEADLOCK FALSE
