CONSTANTS
  OrderIds = {o1, o2, o3}
  ZeroId = ZeroId
  Prices <- MCPrices
  Quantities = {0, 1, 2}
  MinPrice = 2
  MaxPrice = 6
  TickSize = 2
  MaxLoad = 2
  Capacity = 2
  WordBits = 2
  Nil = Nil
SPECIFICATION Spec
SYMMETRY Symmetry
INVARIANTS
  BitsMatchLevels
PROPERTIES
  ImplementsBook
  EachRoundShrinks
