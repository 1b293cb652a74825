---------------------------- MODULE MCReticulum ----------------------------
(***************************************************************************)
(* A live peer and two that come and go share a table of two slots.        *)
(***************************************************************************)
EXTENDS Reticulum, TLC

\* Keys, links, and peers that come and go, are only compared for equality.
Symmetry == Permutations(Key) \cup Permutations(Other) \cup Permutations(LinkId)
=============================================================================
