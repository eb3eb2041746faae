CONSTANTS
  OrderIds = {o1, o2, o3, o4}
  Prices <- MCPrices
  Quantities = {0, 1, 2}
  None = None
SPECIFICATION FairSpec
INVARIANTS
  IndexMatchesLevels
  NoEmptyLevel
  VolumeMatches
PROPERTIES
  ImplementsBook
  SubmitReturns
