-------------------------- MODULE MCLimitOrderBook --------------------------
(***************************************************************************)
(* Instances of LimitOrderBook and BookAtomicity for TLC.                  *)
(***************************************************************************)
EXTENDS BookAtomicity

MCPrices == 1 .. 3

\* Ids are only compared for equality.
Symmetry == Permutations(OrderIds)

=============================================================================
