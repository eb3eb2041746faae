------------------------ MODULE MCOrderMapOwnership ------------------------
EXTENDS OrderMapOwnership, TLC

CONSTANTS o1, o2, o3, r1, r2, r3, i1, i2, i3

MCObjects == {o1, o2, o3}
MCRegions == {r1, r2, r3}
MCOrderIds == {i1, i2, i3}

Symmetry ==
  Permutations(MCObjects) \cup Permutations(MCRegions) \cup Permutations(MCOrderIds)

=============================================================================
