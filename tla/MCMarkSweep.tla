---------------------------- MODULE MCMarkSweep ----------------------------
(***************************************************************************)
(* MarkSweep on small heaps.                                               *)
(***************************************************************************)
EXTENDS MarkSweep, TLC

CellSymmetry == Permutations(Cell)
=============================================================================
