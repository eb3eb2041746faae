------------------------------ MODULE MCOrderMap ------------------------------
(***************************************************************************)
(* Instances of OrderMap for TLC.                                          *)
(***************************************************************************)
EXTENDS OrderMap

=============================================================================
