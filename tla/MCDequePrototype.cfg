CONSTANTS
  OrderIds = {o1, o2}
  Quantities <- UncheckedQuantities
  Prices = {1, 2, 3, 4}
  MinPrice = 1
  WordBits = 2
  NumSlots = 3
  InitialWords <- FewWords
  MaxResting = 3
  NoOrder = NoOrder
SPECIFICATION Spec
SYMMETRY Symmetry
INVARIANTS
  OrdersAreMarked
PROPERTIES
  BitsStayExact
  StopsOnlyWhenDone
  StepsAsBook
CHECK_DEADLOCK FALSE
