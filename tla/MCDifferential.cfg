CONSTANTS
  i1 = i1
  i2 = i2
  i3 = i3
  i4 = i4
  OrderIds <- MCOrderIds
  ZeroId = ZeroId
  Prices = {1}
  Quantities = {0, 1, 2}
  MinPrice = 1
  MaxPrice = 1
  TickSize = 1
  Capacity = 3
  MaxLoad = 3
  WordBits = 2
  Nil = Nil
SPECIFICATION Spec
SYMMETRY Symmetry
INVARIANTS AnswersAgree BooksAgree
CHECK_DEADLOCK FALSE
