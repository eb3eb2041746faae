CONSTANTS
  OrderIds = {o1, o2, o3, o4}
  ZeroId = ZeroId
  Prices <- MCFewPrices
  Quantities = {0, 1, 2}
  MinPrice = 2
  MaxPrice = 2
  TickSize = 2
  MaxLoad = 3
  Capacity = 3
  WordBits = 2
  Nil = Nil
SPECIFICATION Spec
SYMMETRY Symmetry
INVARIANTS
  LevelsWellLinked
  SlotsPartitioned
  TotalQtyMatches
  IdsMatchSlots
  RemainderHasRoom
PROPERTIES
  ImplementsBook
