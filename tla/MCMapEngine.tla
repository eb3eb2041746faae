----------------------------- MODULE MCMapEngine -----------------------------
(***************************************************************************)
(* Instances of MapEngine for TLC.                                         *)
(***************************************************************************)
EXTENDS MapEngine

MCPrices == 1 .. 3

=============================================================================
