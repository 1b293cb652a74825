--------------------------- MODULE MCStateManager ---------------------------
(***************************************************************************)
(* The field table with interchangeable unnamed keys: no operation and no  *)
(* property tells them apart.                                              *)
(***************************************************************************)
EXTENDS StateManager, TLC

RawKeySymmetry == Permutations(RawKey)
=============================================================================
