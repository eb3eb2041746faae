--------------------------- MODULE MCDifferential ---------------------------
EXTENDS Differential, TLC

CONSTANTS i1, i2, i3, i4

MCOrderIds == {i1, i2, i3, i4}

Symmetry == Permutations(MCOrderIds)

=============================================================================
