CONSTANTS
  o1 = o1
  o2 = o2
  o3 = o3
  r1 = r1
  r2 = r2
  r3 = r3
  i1 = i1
  i2 = i2
  i3 = i3
  Objects <- MCObjects
  Regions <- MCRegions
  OrderIds <- MCOrderIds
  TableBytes = 2
  MaxLoad = 2
  Nullptr = Nullptr
  Absent = Absent
SPECIFICATION Spec
SYMMETRY Symmetry
INVARIANTS OneOwner
PROPERTY MovesAreValues
