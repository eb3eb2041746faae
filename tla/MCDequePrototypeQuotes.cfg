CONSTANTS
  OrderIds = {o1, o2}
  Quantities = {1}
  Prices = {1, 2, 3}
  MinPrice = 1
  WordBits = 2
  NumSlots = 3
  InitialWords <- AnyWords
  MaxResting = 2
  NoOrder = NoOrder
SPECIFICATION Spec
SYMMETRY Symmetry
INVARIANTS
  QuotesRestingOrders
CHECK_DEADLOCK FALSE
