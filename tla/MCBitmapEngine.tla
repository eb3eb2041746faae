--------------------------- MODULE MCBitmapEngine ---------------------------
(***************************************************************************)
(* Instances of BitmapEngine for TLC.                                      *)
(***************************************************************************)
EXTENDS BitmapEngine

\* For a ladder from MinPrice 2 by TickSize 2: its levels 2, 4 and 6, prices
\* between two ticks, and one below and one above the ladder.
MCPrices == {1, 2, 3, 4, 6, 7}

\* For the ladder whose only level is 2.
MCFewPrices == {1, 2, 3}

\* Ids are only compared for equality, and with ZeroId.
Symmetry == Permutations(OrderIds)

=============================================================================
