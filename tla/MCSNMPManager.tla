--------------------------- MODULE MCSNMPManager ---------------------------
(***************************************************************************)
(* Small instances of SNMPManager for TLC.                                 *)
(***************************************************************************)
EXTENDS SNMPManagerProperties, TLC

Interchangeable ==
  Permutations(Callback) \cup Permutations(Builder) \cup Permutations(Name)
  \cup Permutations(ID)
=============================================================================
