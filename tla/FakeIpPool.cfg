SPECIFICATION Spec
CONSTANTS
  Names = {n1, n2, n3}
  Flows = {f1, f2}
  Capacity = 2
  MaxTick = 8
  NoName = NoName
INVARIANTS HeldNameStands HoldersCounted MapsAgree
PROPERTY ImplementsPromise
