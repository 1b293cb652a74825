-------------------------- MODULE MCExportFairness --------------------------
(***************************************************************************)
(* The packing order of one node with three records, whose names nothing   *)
(* tells apart.                                                            *)
(***************************************************************************)
EXTENDS ExportFairness, TLC

Symmetry == Permutations(Key)

\* What the nodes' next steps depend on; frames and authored only record.
View == <<store, clock, watermark, lastExport, waited>>
=============================================================================
