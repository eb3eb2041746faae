CONSTANTS
  OrderIds = {k1, k2, k3, k4}
  EmptyKey = EmptyKey
  Indices = {i1}
  NoIndex = NoIndex
  Idle = Idle
  SlotSize = 4
  MaxLoad = 3
SPECIFICATION FairSpec
INVARIANTS
  Reachable
  IdsOnce
  CountMatches
  ProbesEnd
PROPERTIES
  ImplementsIdMap
  EraseReturns
