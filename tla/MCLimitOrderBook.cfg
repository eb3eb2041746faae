CONSTANTS
  OrderIds = {o1, o2, o3, o4}
  Prices <- MCPrices
  Quantities = {1, 2, 3}
  NoOrder = NoOrder
SPECIFICATION Spec
SYMMETRY Symmetry
INVARIANTS
  TypeOK
  NotCrossed
  LiveOnce
  SweepsBestFirst
  PartialFillEndsSweep
PROPERTIES
  KeepsTimePriority
  SubmitIsAtomic
